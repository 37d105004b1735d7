---------------------------- MODULE ConsoleProofs ----------------------------
(***************************************************************************)
(* The VNC console, from the display server to the page.                   *)
(* ConsoleStream, for frames and streams of any length: both directions    *)
(* carry their bytes in order, the buffer holds one frame, the browser is  *)
(* told when the TCP connection is over, and the direction towards the     *)
(* browser implements ConsolePipe.                                         *)
(* ConsoleTunnel, for any number of sessions, workers, hosts and ports: no *)
(* ssh process is leaked, and a session shows another host than its own    *)
(* only because of a clash of port numbers.                                *)
(* VncInput, RenderQueue and Viewport, for any keys, buttons, framebuffer, *)
(* queue and viewport: every key the server was told of can still be       *)
(* released, it knows the mouse buttons, what is drawn is drawn in the     *)
(* order in which it was sent, and what is blank in the viewport will be   *)
(* asked for.                                                              *)
(* RfbClient, for any servers that follow the protocol, cut into pieces in *)
(* any way: the client reads what was sent as what it was sent as, leaves  *)
(* no message lying, and says the handshake and the inputs in order.       *)
(***************************************************************************)
EXTENDS ConsoleStream, ConsoleTunnel, RfbClient, VncInput, RenderQueue,
        Viewport, FiniteSetTheorems, SequenceTheorems, FoldLemmas, TLAPS

(* The type invariant, with how often the close is called in each state.     *)
Calls ==
    /\ sock \in {"connecting", "connected", "failedAtOnce"} => closeCalls = 0
    /\ sock = "closing" => closeCalls = 1
TypeInv == TypeOK /\ Calls

LEMMA FunctionIsSeq ==
  ASSUME NEW S, NEW n \in Nat, NEW f \in [1..n -> S]
  PROVE  f \in Seq(S) /\ Len(f) = n
  OBVIOUS

LEMMA BytesAreSeq ==
  ASSUME NEW m \in Nat, NEW n \in Nat, NEW most \in Nat, m + n <= most
  PROVE  Bytes(m, n) \in Seq(1..most) /\ Len(Bytes(m, n)) = n
<1>1. \A i \in 1..n : m + i \in 1..most
  OBVIOUS
<1>2. Bytes(m, n) \in [1..n -> 1..most]
  BY <1>1 DEF Bytes
<1> QED
  BY <1>2

(* A frame that is written to the buffer, opened again, begins it.           *)
LEMMA WrittenFrame ==
  ASSUME TypeOK, NEW n \in 1..MaxFrame, typed + n <= MaxTyped, Len(buf.data) <= MaxFrame
  PROVE  LET b == WriteBuffer(OpenBuffer(buf), Bytes(typed, n))
         IN  /\ b \in [open : BOOLEAN, data : Seq(1..MaxTyped), pos : 0..MaxFrame]
             /\ Len(b.data) <= MaxFrame
             /\ (\A i \in 1..Len(buf.data) : buf.data[i] <= typed)
                  => \A i \in 1..Len(b.data) : b.data[i] <= typed + n
<1> DEFINE b == WriteBuffer(OpenBuffer(buf), Bytes(typed, n))
           size == IF n > Len(buf.data) THEN n ELSE Len(buf.data)
           data == [i \in 1..size |-> IF i \in 1..n THEN Bytes(typed, n)[i] ELSE buf.data[i]]
<1>1. typed \in Nat /\ n \in Nat /\ MaxFrame \in Nat /\ MaxTyped \in Nat /\ n <= MaxFrame
  BY StreamAssumption DEF TypeOK
<1>2. buf.data \in Seq(1..MaxTyped) /\ buf.open \in BOOLEAN /\ Len(buf.data) \in Nat
  BY DEF TypeOK
<1>3. Bytes(typed, n) \in Seq(1..MaxTyped) /\ Len(Bytes(typed, n)) = n
  BY <1>1, BytesAreSeq
<1>4. size \in Nat /\ size <= MaxFrame
  BY <1>1, <1>2
<1>5. data \in [1..size -> 1..MaxTyped]
  <2>1. \A i \in 1..n : Bytes(typed, n)[i] \in 1..MaxTyped
    BY <1>1, <1>3
  <2>2. \A i \in 1..Len(buf.data) : buf.data[i] \in 1..MaxTyped
    BY <1>2, ElementOfSeq
  <2> QED
    BY <1>1, <1>2, <2>1, <2>2
<1>6. data \in Seq(1..MaxTyped) /\ Len(data) = size
  <2> HIDE DEF data, size
  <2> QED
    BY ONLY <1>4, <1>5, FunctionIsSeq
<1>7. b = [open |-> TRUE, data |-> data, pos |-> n]
  <2> DEFINE o == OpenBuffer(buf)
             frame == Bytes(typed, n)
  <2>1. o = [open |-> TRUE, data |-> buf.data, pos |-> 0]
    BY DEF OpenBuffer, TypeOK
  <2>2. o \in [open : BOOLEAN, data : Seq(1..MaxTyped), pos : Nat]
    BY <1>2, <2>1
  <2>3. o.pos + Len(frame) = n /\ o.pos = 0 /\ o.data = buf.data /\ o.open
    BY <1>1, <1>3, <2>1
  <2>4. data = [i \in 1..size |-> IF i \in (o.pos + 1)..n THEN frame[i - o.pos] ELSE o.data[i]]
    BY <1>1, <1>3, <2>3
  <2>5. size = IF o.pos + Len(frame) > Len(o.data) THEN o.pos + Len(frame) ELSE Len(o.data)
    BY <2>3
  <2> HIDE DEF o, frame, size, data
  <2>6. b = [open |-> o.open, pos |-> n, data |-> data]
    BY <2>3, <2>4, <2>5 DEF WriteBuffer, o, frame
  <2> HIDE DEF b
  <2> QED
    BY <2>3, <2>6
<1>8. ASSUME \A i \in 1..Len(buf.data) : buf.data[i] <= typed
      PROVE  \A i \in 1..size : data[i] <= typed + n
  <2>1. \A i \in 1..n : Bytes(typed, n)[i] = typed + i
    BY DEF Bytes
  <2>2. \A i \in 1..size : i \notin 1..n => i \in 1..Len(buf.data)
    BY <1>1, <1>2
  <2>3. \A i \in 1..Len(buf.data) : buf.data[i] \in 1..MaxTyped
    BY ONLY <1>2, ElementOfSeq
  <2> QED
    BY <1>1, <1>2, <1>4, <1>8, <2>1, <2>2, <2>3
<1> HIDE DEF data, size
<1> QED
  BY <1>1, <1>4, <1>6, <1>7, <1>8

LEMMA BufferRead ==
  ASSUME TypeOK
  PROVE  /\ ReadAll(buf) \in Seq(1..MaxTyped)
         /\ \A i \in 1..Len(ReadAll(buf)) : \E j \in 1..Len(buf.data) : ReadAll(buf)[i] = buf.data[j]
<1> DEFINE m == buf.pos + 1
           n == Len(buf.data)
<1>1. buf.data \in Seq(1..MaxTyped) /\ buf.pos \in Nat /\ m \in Int /\ n \in Int /\ m >= 1
  BY StreamAssumption DEF TypeOK
<1>2. \A i \in m..n : buf.data[i] \in 1..MaxTyped
  <2>1. \A i \in 1..Len(buf.data) : buf.data[i] \in 1..MaxTyped
    BY ONLY <1>1, ElementOfSeq
  <2> QED
    BY <1>1, <2>1
<1>3. /\ SubSeq(buf.data, m, n) \in Seq(1..MaxTyped)
      /\ Len(SubSeq(buf.data, m, n)) = IF m <= n THEN n - m + 1 ELSE 0
      /\ \A i \in 1..n - m + 1 : SubSeq(buf.data, m, n)[i] = buf.data[m + i - 1]
  <2> HIDE DEF m, n
  <2> QED
    BY ONLY <1>1, <1>2, SubSeqProperties
<1>4. ReadAll(buf) = SubSeq(buf.data, m, n)
  BY DEF ReadAll
<1>5. ASSUME NEW i \in 1..Len(ReadAll(buf)) PROVE \E j \in 1..Len(buf.data) : ReadAll(buf)[i] = buf.data[j]
  <2> HIDE DEF m, n
  <2>1. i \in 1..n - m + 1 /\ m + i - 1 \in 1..Len(buf.data)
    <3>1. Len(ReadAll(buf)) = IF m <= n THEN n - m + 1 ELSE 0
      BY <1>3, <1>4
    <3>2. i \in 1..n - m + 1 /\ m + i - 1 \in 1..n
      BY <1>1, <3>1
    <3> QED
      BY <3>2 DEF n
  <2>2. ReadAll(buf)[i] = buf.data[m + i - 1]
    BY <1>3, <1>4, <2>1
  <2> QED
    BY <2>1, <2>2
<1> QED
  BY <1>3, <1>4, <1>5
-----------------------------------------------------------------------------
(* Types, the size of the buffer, and what the browser is told.              *)
SizeInv == TypeInv /\ BufferHoldsOneFrame

LEMMA SizeStep ==
  ASSUME SizeInv, [Next]_vars
  PROVE  SizeInv'
<1> USE StreamAssumption DEF SizeInv, TypeInv, Calls
<1>1. CASE TcpConnected
  <2>1. CASE buf.open
    <3>1. tcpOut' \in Seq(1..MaxTyped)
      <4>1. tcpOut' = tcpOut \o ReadAll(buf) /\ tcpOut \in Seq(1..MaxTyped)
        BY <1>1, <2>1 DEF TcpConnected, TypeOK
      <4> QED
        BY <4>1, BufferRead, ConcatProperties
    <3>2. buf' = [open |-> FALSE, data |-> buf.data, pos |-> 0] /\ 0 \in 0..MaxFrame
      BY <1>1, <2>1 DEF TcpConnected, CloseBuffer
    <3> QED
      BY <1>1, <3>1, <3>2 DEF TcpConnected, TypeOK, browser, downstream, BufferHoldsOneFrame
  <2>2. CASE ~buf.open
    BY <1>1, <2>2 DEF TcpConnected, TypeOK, browser, downstream, BufferHoldsOneFrame
  <2> QED
    BY <2>1, <2>2
<1>2. CASE BrowserSends
  <2>1. PICK n \in 1..MaxFrame :
          /\ typed + n <= MaxTyped /\ typed' = typed + n
          /\ early' = IF sock = "connecting" THEN typed + n ELSE early
          /\ ForwardFrame(Bytes(typed, n))
    BY <1>2 DEF BrowserSends
  <2>2. UNCHANGED <<ws, sock, downstream, fin, closeCalls>>
    BY <1>2 DEF BrowserSends
  <2>3. typed' \in 0..MaxTyped /\ early' \in 0..typed'
    BY <2>1 DEF TypeOK
  <2>4. buf' \in [open : BOOLEAN, data : Seq(1..MaxTyped), pos : 0..MaxFrame]
        /\ Len(buf'.data) <= MaxFrame /\ tcpOut' \in Seq(1..MaxTyped)
    <3>1. CASE sock # "connected"
      BY <2>1, <3>1, WrittenFrame DEF ForwardFrame, TypeOK, BufferHoldsOneFrame
    <3>2. CASE sock = "connected"
      <4>1. Bytes(typed, n) \in Seq(1..MaxTyped)
        BY <2>1, BytesAreSeq DEF TypeOK
      <4>2. tcpOut' = tcpOut \o Bytes(typed, n) /\ buf' = buf
        BY <2>1, <3>2 DEF ForwardFrame
      <4>3. tcpOut' \in Seq(1..MaxTyped)
        BY <4>1, <4>2, ConcatProperties DEF TypeOK
      <4> QED
        BY <4>2, <4>3 DEF TypeOK, BufferHoldsOneFrame
    <3> QED
      BY <3>1, <3>2
  <2> QED
    BY <2>2, <2>3, <2>4 DEF TypeOK, downstream, BufferHoldsOneFrame
<1>3. CASE TcpFails \/ TcpEnds \/ TcpDisconnected \/ WebSocketGone
  <2>1. UNCHANGED <<upstream, downstream, fin>>
    BY <1>3 DEF TcpFails, TcpEnds, TcpDisconnected, WebSocketGone
  <2>2. /\ sock' \in {"closing", "unconnected"} /\ ws' \in {"closing", "gone"}
        /\ closeCalls' \in 0..2 /\ (sock' = "closing" => closeCalls' = 1)
    BY <1>3 DEF TcpFails, TcpEnds, TcpDisconnected, WebSocketGone, WebSocketClose, TypeOK
  <2> QED
    BY <2>1, <2>2 DEF TypeOK, upstream, browser, downstream, BufferHoldsOneFrame
<1>4. CASE ServerSends
  BY <1>4, AppendProperties DEF ServerSends, TypeOK, upstream, browser, BufferHoldsOneFrame
<1>5. CASE ServerEnds
  BY <1>5, EmptySeq DEF ServerEnds, TypeOK, upstream, browser, BufferHoldsOneFrame
<1>6. CASE ReadyRead
  BY <1>6, EmptySeq, ConcatProperties DEF ReadyRead, TypeOK, upstream, browser, BufferHoldsOneFrame
<1>7. CASE UNCHANGED vars
  BY <1>7 DEF vars, TypeOK, upstream, browser, downstream, BufferHoldsOneFrame
<1> QED
  BY <1>1, <1>2, <1>3, <1>4, <1>5, <1>6, <1>7 DEF Next

LEMMA SizeInit == Init => SizeInv
  BY StreamAssumption, EmptySeq DEF Init, SizeInv, TypeInv, TypeOK, Calls, BufferHoldsOneFrame

THEOREM SizesHold == Spec => []SizeInv
  BY SizeInit, SizeStep, PTL DEF Spec

(* The state of a session is what ConsoleStream says it is, and the close is *)
(* called at most twice.                                                     *)
THEOREM TypeCorrect == Spec => []TypeOK
<1>1. SizeInv => TypeOK
  BY DEF SizeInv, TypeInv
<1> QED
  BY <1>1, SizesHold, PTL

(* However many frames come while there is no connection, the buffer is no   *)
(* longer than the longest of them.                                          *)
THEOREM OneFrame == Spec => []BufferHoldsOneFrame
<1>1. SizeInv => BufferHoldsOneFrame
  BY DEF SizeInv
<1> QED
  BY <1>1, SizesHold, PTL

(* A TCP connection that is over was reported to the browser.                *)
THEOREM BrowserTold == Spec => []BrowserIsTold
<1>1. Init => BrowserIsTold
  BY DEF Init, BrowserIsTold
<1>2. SizeInv /\ BrowserIsTold /\ [Next]_vars => BrowserIsTold'
  BY DEF SizeInv, TypeInv, TypeOK, Calls, BrowserIsTold, Next, vars, TcpConnected, TcpFails, TcpEnds,
         TcpDisconnected, BrowserSends, WebSocketGone, ServerSends, ServerEnds, ReadyRead, WebSocketClose
<1> QED
  BY <1>1, <1>2, SizesHold, PTL DEF Spec
-----------------------------------------------------------------------------
(* The bytes towards the display server.  Before the connection nothing was  *)
(* written to it, and the buffer holds bytes that are early.                 *)
Gathered ==
    sock = "connecting" =>
        /\ tcpOut = <<>> /\ early = typed
        /\ \A i \in 1..Len(buf.data) : buf.data[i] <= typed
OrderInv == SizeInv /\ Gathered /\ DirectBytesInOrder

LEMMA OrderStep ==
  ASSUME OrderInv, [Next]_vars
  PROVE  Gathered' /\ DirectBytesInOrder'
<1>1. SizeInv /\ TypeOK /\ tcpOut \in Seq(1..MaxTyped) /\ Len(tcpOut) \in Nat /\ typed \in Nat /\ early \in Nat
  BY DEF OrderInv, SizeInv, TypeInv, TypeOK
<1>2. CASE sock' # "connecting" /\ (sock' = "connected" => sock = "connected") /\ UNCHANGED <<tcpOut, early, typed>>
  BY <1>2 DEF OrderInv, Gathered, DirectBytesInOrder
<1>3. CASE TcpConnected
  <2>1. sock = "connecting" /\ sock' = "connected" /\ early = typed /\ tcpOut = <<>> /\ UNCHANGED <<typed, early>>
    BY <1>3 DEF TcpConnected, OrderInv, Gathered, browser
  <2>2. tcpOut' \in Seq(1..MaxTyped) /\ \A i \in 1..Len(tcpOut') : tcpOut'[i] <= early
    <3>1. CASE buf.open
      <4>1. tcpOut' = <<>> \o ReadAll(buf)
        BY <1>3, <2>1, <3>1 DEF TcpConnected
      <4>2. ReadAll(buf) \in Seq(1..MaxTyped)
        BY <1>1, BufferRead
      <4>3. tcpOut' = ReadAll(buf)
        BY ONLY <4>1, <4>2, ConcatEmptySeq
      <4>4. \A i \in 1..Len(buf.data) : buf.data[i] <= early
        BY <2>1 DEF OrderInv, Gathered
      <4>5. \A i \in 1..Len(ReadAll(buf)) : ReadAll(buf)[i] <= early
        BY <1>1, <4>4, BufferRead
      <4> QED
        BY <4>2, <4>3, <4>5
    <3>2. CASE ~buf.open
      <4>1. tcpOut' = <<>>
        BY <1>3, <2>1, <3>2 DEF TcpConnected
      <4> QED
        BY <4>1, EmptySeq
    <3> QED
      BY <3>1, <3>2
  <2>3. Len(tcpOut') \in Nat
    BY <2>2, LenProperties
  <2>4. DirectBytesInOrder'
    <3>1. Len(tcpOut') - Len(tcpOut') = typed' - early'
      BY <1>1, <2>1, <2>3
    <3> QED
      BY <2>1, <2>2, <2>3, <3>1 DEF DirectBytesInOrder
  <2> QED
    BY <2>1, <2>4 DEF Gathered
<1>4. CASE BrowserSends
  <2>1. PICK n \in 1..MaxFrame :
          /\ typed + n <= MaxTyped /\ typed' = typed + n
          /\ early' = IF sock = "connecting" THEN typed + n ELSE early
          /\ ForwardFrame(Bytes(typed, n))
    BY <1>4 DEF BrowserSends
  <2>2. sock' = sock /\ n \in Nat
    BY <1>4, StreamAssumption DEF BrowserSends
  <2>3. CASE sock = "connecting"
    <3>1. tcpOut' = <<>> /\ early' = typed + n /\ typed' = typed + n /\ buf' = WriteBuffer(OpenBuffer(buf), Bytes(typed, n))
      BY <2>1, <2>3 DEF ForwardFrame, OrderInv, Gathered
    <3>2. \A i \in 1..Len(buf'.data) : buf'.data[i] <= typed + n
      BY <1>1, <2>1, <2>3, <3>1, WrittenFrame DEF OrderInv, Gathered, SizeInv, BufferHoldsOneFrame
    <3>3. Len(<<>>) = 0
      BY EmptySeq
    <3> QED
      BY <2>2, <2>3, <3>1, <3>2, <3>3 DEF Gathered, DirectBytesInOrder
  <2>4. CASE sock = "connected"
    <3> DEFINE frame == Bytes(typed, n)
    <3>1. frame \in Seq(1..MaxTyped) /\ Len(frame) = n
      BY <1>1, <2>1, <2>2, BytesAreSeq, StreamAssumption
    <3>2. \A i \in 1..n : frame[i] = typed + i
      BY DEF Bytes
    <3>3. tcpOut' = tcpOut \o frame /\ early' = early /\ typed' = typed + n
      BY <2>1, <2>4 DEF ForwardFrame
    <3> HIDE DEF frame
    <3>4. /\ Len(tcpOut') = Len(tcpOut) + n
          /\ \A i \in 1..Len(tcpOut) + n : tcpOut'[i] = IF i <= Len(tcpOut) THEN tcpOut[i] ELSE frame[i - Len(tcpOut)]
      BY ONLY <1>1, <3>1, <3>3, ConcatProperties
    <3>5. PICK leftover \in 0..Len(tcpOut) :
            /\ \A i \in 1..leftover : tcpOut[i] <= early
            /\ \A i \in (leftover + 1)..Len(tcpOut) : tcpOut[i] = early + i - leftover
            /\ Len(tcpOut) - leftover = typed - early
      BY <2>4 DEF OrderInv, DirectBytesInOrder
    <3> DEFINE length == Len(tcpOut)
    <3>lengths. /\ length \in Nat /\ typed \in Nat /\ early \in Nat /\ n \in Nat /\ leftover \in 0..length
          /\ early' = early /\ typed' = typed + n /\ Len(tcpOut') = length + n /\ length - leftover = typed - early
      BY <1>1, <2>2, <3>3, <3>4, <3>5
    <3> HIDE DEF length
    <3>6. leftover \in 0..Len(tcpOut') /\ Len(tcpOut') - leftover = typed' - early'
      BY ONLY <3>lengths
    <3>7. \A i \in 1..leftover : tcpOut'[i] <= early'
      BY <1>1, <2>2, <3>3, <3>4, <3>5
    <3>8. ASSUME NEW i \in (leftover + 1)..Len(tcpOut') PROVE tcpOut'[i] = early' + i - leftover
      <4>1. i \in 1..Len(tcpOut) + n /\ i \in Nat /\ leftover \in Nat
        BY <1>1, <2>2, <3>4, <3>5, <3>8
      <4>2. CASE i <= Len(tcpOut)
        BY <1>1, <3>3, <3>4, <3>5, <4>1, <4>2
      <4>3. CASE i > Len(tcpOut)
        <5>1. i - Len(tcpOut) \in 1..n
          BY <1>1, <2>2, <4>1, <4>3
        <5>2. tcpOut'[i] = typed + (i - Len(tcpOut))
          BY <1>1, <3>2, <3>4, <4>1, <4>3, <5>1
        <5>3. tcpOut'[i] = typed + (i - length)
          BY <5>2 DEF length
        <5> QED
          BY ONLY <3>lengths, <4>1, <5>3
      <4> QED
        BY <1>1, <4>1, <4>2, <4>3
    <3>9. DirectBytesInOrder'
      BY <3>6, <3>7, <3>8 DEF DirectBytesInOrder
    <3> QED
      BY <2>2, <2>4, <3>9 DEF Gathered
  <2>5. CASE sock \notin {"connecting", "connected"}
    <3>1. UNCHANGED <<tcpOut, early>>
      BY <2>1, <2>5 DEF ForwardFrame
    <3> QED
      BY <2>2, <2>5, <3>1 DEF Gathered, DirectBytesInOrder, OrderInv
  <2> QED
    BY <2>3, <2>4, <2>5
<1>5. CASE TcpFails \/ TcpEnds \/ TcpDisconnected \/ WebSocketGone
  BY <1>2, <1>5 DEF TcpFails, TcpEnds, TcpDisconnected, WebSocketGone, upstream, browser
<1>6. CASE ServerSends \/ ServerEnds \/ ReadyRead
  BY <1>2, <1>6 DEF ServerSends, ServerEnds, ReadyRead, upstream, browser
<1>7. CASE UNCHANGED vars
  BY <1>7 DEF vars, upstream, browser, OrderInv, Gathered, DirectBytesInOrder
<1> QED
  BY <1>3, <1>4, <1>5, <1>6, <1>7 DEF Next

(* The display server gets what is left over from before the connection and  *)
(* then every byte in order, for frames of any length.                       *)
THEOREM BytesInOrder == Spec => []DirectBytesInOrder
<1>1. Init => Gathered /\ DirectBytesInOrder
  <2>1. Len(<<>>) = 0
    BY EmptySeq
  <2> QED
    BY <2>1 DEF Init, Gathered, DirectBytesInOrder
<1>2. SizeInv /\ Gathered /\ DirectBytesInOrder /\ [Next]_vars => (Gathered /\ DirectBytesInOrder)'
  BY OrderStep DEF OrderInv
<1> QED
  BY <1>1, <1>2, SizesHold, PTL DEF Spec
-----------------------------------------------------------------------------
(* The direction towards the browser implements ConsolePipe.                 *)
Flowing ==
    /\ \A i \in 1..Len(wsOut) : wsOut[i] = i
    /\ Len(wsOut) <= produced
    /\ fin = "rst" => wire = <<>>
    /\ fin # "rst" => /\ Len(wsOut) + Len(wire) = produced
                     /\ \A i \in 1..Len(wire) : wire[i] = Len(wsOut) + i
    /\ sock \in {"connecting", "failedAtOnce"} => fin = "no"
    /\ sock = "closing" => fin # "no"

LEMMA Lengths ==
  ASSUME TypeOK
  PROVE  /\ wire \in Seq(1..MaxProduced) /\ wsOut \in Seq(1..MaxProduced)
         /\ Len(wire) \in Nat /\ Len(wsOut) \in Nat /\ produced \in Nat
  BY LenProperties, StreamAssumption DEF TypeOK

(* What a read adds to the bytes that were delivered.                        *)
LEMMA ReadOn ==
  ASSUME TypeInv, Flowing, ReadyRead
  PROVE  /\ \A i \in 1..Len(wsOut') : wsOut'[i] = i
         /\ Len(wsOut') = produced /\ Len(wsOut) < produced
         /\ Len(wire') = 0 /\ wsOut' \in Seq(1..MaxProduced)
<1>1. /\ wire \in Seq(1..MaxProduced) /\ wsOut \in Seq(1..MaxProduced)
      /\ Len(wire) \in Nat /\ Len(wsOut) \in Nat /\ produced \in Nat
  BY Lengths DEF TypeInv
<1>2. wsOut' = wsOut \o wire /\ wire # <<>> /\ wire' = <<>>
  BY DEF ReadyRead
<1>3. /\ Len(wsOut) + Len(wire) = produced
      /\ \A i \in 1..Len(wire) : wire[i] = Len(wsOut) + i
      /\ \A i \in 1..Len(wsOut) : wsOut[i] = i
  BY <1>2 DEF Flowing
<1>4. /\ wsOut' \in Seq(1..MaxProduced) /\ Len(wsOut') = Len(wsOut) + Len(wire)
      /\ \A i \in 1..Len(wsOut) + Len(wire) : wsOut'[i] = IF i <= Len(wsOut) THEN wsOut[i] ELSE wire[i - Len(wsOut)]
  BY ONLY <1>1, <1>2, ConcatProperties
<1>5. Len(wire) > 0 /\ Len(wire') = 0
  BY <1>1, <1>2, EmptySeq
<1>6. ASSUME NEW i \in 1..Len(wsOut') PROVE wsOut'[i] = i
  <2>1. i \in 1..Len(wsOut) + Len(wire)
    BY <1>4
  <2>2. CASE i <= Len(wsOut)
    BY <1>1, <1>3, <1>4, <2>1, <2>2
  <2>3. CASE i > Len(wsOut)
    <3>1. i - Len(wsOut) \in 1..Len(wire)
      BY <1>1, <2>1, <2>3
    <3>2. wire[i - Len(wsOut)] = Len(wsOut) + (i - Len(wsOut))
      BY ONLY <1>3, <3>1
    <3>3. wsOut'[i] = wire[i - Len(wsOut)] /\ ~(i <= Len(wsOut))
      BY <1>1, <1>4, <2>1, <2>3
    <3>4. Len(wsOut) + (i - Len(wsOut)) = i
      BY <1>1, <2>1
    <3> QED
      BY <3>2, <3>3, <3>4
  <2> QED
    BY <1>1, <2>1, <2>2, <2>3
<1> QED
  BY <1>1, <1>3, <1>4, <1>5, <1>6

LEMMA FlowingStep ==
  ASSUME TypeInv, Flowing, [Next]_vars
  PROVE  Flowing'
<1>1. /\ wire \in Seq(1..MaxProduced) /\ wsOut \in Seq(1..MaxProduced)
      /\ Len(wire) \in Nat /\ Len(wsOut) \in Nat /\ produced \in Nat
  BY Lengths DEF TypeInv
<1>2. CASE ServerSends
  <2>1. /\ produced' = produced + 1 /\ wire' = Append(wire, produced + 1) /\ UNCHANGED <<wsOut, fin, sock>>
        /\ fin = "no" /\ sock = "connected"
    BY <1>2 DEF ServerSends
  <2>2. /\ Len(wire') = Len(wire) + 1
        /\ \A i \in 1..Len(wire) + 1 : wire'[i] = IF i = Len(wire) + 1 THEN produced + 1 ELSE wire[i]
    <3>1. produced + 1 \in 1..MaxProduced
      BY <1>1, <1>2, StreamAssumption DEF ServerSends
    <3> QED
      BY ONLY <1>1, <2>1, <3>1, AppendProperties
  <2>3. Len(wsOut) + Len(wire) = produced /\ \A i \in 1..Len(wire) : wire[i] = Len(wsOut) + i
    BY <2>1 DEF Flowing
  <2>4. Len(wsOut) + Len(wire') = produced' /\ Len(wsOut) <= produced'
    BY <1>1, <2>1, <2>2, <2>3
  <2>5. ASSUME NEW i \in 1..Len(wire') PROVE wire'[i] = Len(wsOut) + i
    <3>1. i \in 1..Len(wire) + 1 /\ wire'[i] = IF i = Len(wire) + 1 THEN produced + 1 ELSE wire[i]
      BY ONLY <2>2
    <3>2. CASE i = Len(wire) + 1
      BY <1>1, <2>3, <3>1, <3>2
    <3>3. CASE i # Len(wire) + 1
      <4>1. i \in 1..Len(wire)
        BY <1>1, <3>1, <3>3
      <4>2. wire[i] = Len(wsOut) + i
        BY ONLY <2>3, <4>1
      <4> QED
        BY <3>1, <3>3, <4>2
    <3> QED
      BY <3>2, <3>3
  <2> QED
    BY <2>1, <2>4, <2>5 DEF Flowing
<1>3. CASE ServerEnds
  <2>1. fin = "no" /\ sock = "connected" /\ UNCHANGED <<sock, produced, wsOut>>
        /\ ((fin' = "fin" /\ wire' = wire) \/ (fin' = "rst" /\ wire' = <<>>))
    BY <1>3 DEF ServerEnds
  <2> QED
    BY <2>1 DEF Flowing
<1>4. CASE ReadyRead
  <2>1. UNCHANGED <<fin, produced, sock>> /\ wire' = <<>> /\ sock = "connected"
    BY <1>4 DEF ReadyRead
  <2> QED
    BY <1>1, <1>4, <2>1, ReadOn DEF Flowing
<1>5. CASE UNCHANGED <<wsOut, wire, produced, fin>> /\ (sock' \in {"connecting", "failedAtOnce"} => sock' = sock)
           /\ (sock' = "closing" => fin # "no")
  BY <1>5 DEF Flowing
<1>6. CASE TcpConnected \/ TcpFails \/ TcpDisconnected \/ WebSocketGone
  BY <1>5, <1>6 DEF TcpConnected, TcpFails, TcpDisconnected, WebSocketGone, downstream
<1>7. CASE TcpEnds \/ BrowserSends \/ UNCHANGED vars
  BY <1>5, <1>7 DEF TcpEnds, BrowserSends, vars, downstream, Flowing
<1> QED
  BY <1>2, <1>3, <1>4, <1>6, <1>7 DEF Next

LEMMA StepOfPipe ==
  ASSUME TypeInv, Flowing, [Next]_vars
  PROVE  [Pipe!Next]_(Pipe!vars)
<1> USE DEF Pipe!vars, Pipe!Next
<1>1. fin \in {"no", "fin", "rst"} /\ closeCalls \in Nat /\ produced \in Nat
  BY StreamAssumption DEF TypeInv, TypeOK
<1>2. CASE ServerSends
  <2>1. produced' = produced + 1 /\ fin = "no" /\ UNCHANGED <<wsOut, fin, closeCalls>>
    BY <1>2 DEF ServerSends
  <2>2. Pipe!Produce
    BY <1>1, <2>1 DEF Pipe!Produce
  <2> QED
    BY <2>2
<1>3. CASE ServerEnds
  <2>1. fin = "no" /\ fin' \in {"fin", "rst"} /\ closeCalls = 0 /\ UNCHANGED <<wsOut, produced, closeCalls>>
    BY <1>3 DEF ServerEnds, TypeInv, Calls
  <2>2. Pipe!End
    BY <2>1 DEF Pipe!End
  <2> QED
    BY <2>2
<1>4. CASE ReadyRead
  <2>1. closeCalls = 0 /\ UNCHANGED <<fin, produced, closeCalls>>
    BY <1>4 DEF ReadyRead, TypeInv, Calls
  <2>2. wsOut' = Pipe!FirstBytes(produced)
    <3>1. wsOut' \in Seq(1..MaxProduced) /\ Len(wsOut') = produced /\ \A i \in 1..produced : wsOut'[i] = i
      BY <1>4, ReadOn
    <3>2. wsOut' = [i \in 1..produced |-> wsOut'[i]]
      BY <3>1, LenProperties
    <3> QED
      BY <3>1, <3>2 DEF Pipe!FirstBytes
  <2>3. produced \in 0..produced /\ produced > Len(wsOut)
    BY <1>1, <1>4, ReadOn
  <2>4. Pipe!Deliver
    BY <2>1, <2>2, <2>3 DEF Pipe!Deliver
  <2> QED
    BY <2>4
<1>5. CASE TcpEnds
  <2>1. fin # "no" /\ closeCalls = 0 /\ closeCalls' = 1 /\ wire = <<>> /\ UNCHANGED <<fin, produced, wsOut>>
    BY <1>5 DEF TcpEnds, WebSocketClose, TypeInv, Calls, downstream
  <2>2. fin = "fin" => Len(wsOut) = produced
    BY <1>1, <2>1, Lengths, EmptySeq DEF Flowing, TypeInv
  <2>3. Pipe!Close
    BY <1>1, <2>1, <2>2 DEF Pipe!Close
  <2> QED
    BY <2>3
<1>6. CASE TcpFails
  <2>1. fin = "no" /\ UNCHANGED <<fin, produced, wsOut>>
    BY <1>6 DEF TcpFails, Flowing, downstream
  <2> QED
    BY <2>1
<1>7. CASE TcpDisconnected
  <2>1. fin # "no" /\ closeCalls = 1 /\ closeCalls' = 2 /\ UNCHANGED <<fin, produced, wsOut>>
    BY <1>7 DEF TcpDisconnected, WebSocketClose, TypeInv, Calls, Flowing, downstream
  <2> QED
    BY <2>1
<1>8. CASE TcpConnected \/ BrowserSends \/ WebSocketGone \/ UNCHANGED vars
  <2>1. UNCHANGED <<fin, produced, wsOut, closeCalls>>
    BY <1>8 DEF TcpConnected, BrowserSends, WebSocketGone, vars, downstream
  <2> QED
    BY <2>1
<1> QED
  BY <1>2, <1>3, <1>4, <1>5, <1>6, <1>7, <1>8 DEF Next

(* What the browser is sent is what ConsolePipe promises: every byte in      *)
(* order and once, and a close only after the last of a stream that ended.   *)
THEOREM StreamIsPipe == Spec => ImplementsPipe
<1>1. Init => Flowing /\ Pipe!Init
  <2>1. Len(<<>>) = 0
    BY EmptySeq
  <2> QED
    BY <2>1 DEF Init, Flowing, Pipe!Init
<1>2. TypeInv /\ Flowing /\ [Next]_vars => Flowing'
  BY FlowingStep
<1>3. TypeInv /\ Flowing /\ [Next]_vars => [Pipe!Next]_(Pipe!vars)
  BY StepOfPipe
<1>4. SizeInv => TypeInv
  BY DEF SizeInv
<1> QED
  BY <1>1, <1>2, <1>3, <1>4, SizesHold, PTL DEF Spec, ImplementsPipe, Pipe!Spec

-----------------------------------------------------------------------------
(* Tunnels.                                                                *)

(* What holds of one session at every moment of its life. The last part is *)
(* the strengthening ReachesOwnHost needs: how a session got where it is.  *)
NotDialed(s) ==
    phase[s] \in {"idle", "starting", "reading", "dialing"} => peer[s] = NoOne
NotOpened(s) ==
    phase[s] \in {"idle", "starting"} =>
        /\ ssh[s] = "none"
        /\ phase[s] = "starting" <=> route[s] = "tunnel"
SshOfLiveSession(s) ==
    RunsSsh(s) => /\ route[s] = "tunnel"
                  /\ phase[s] \in {"reading", "dialing", "connected", "ended"}
                  /\ phase[s] = "ended" => peer[s] = NoOne
Routed(s) ==
    phase[s] = "connected" =>
        \/ peer[s] = host[s]
        \/ /\ route[s] # "direct"
           /\ \/ TakenLocally(port[s])
              \/ \E t \in Sessions : /\ route[t] = "tunnel"
                                     /\ port[t] = port[s] /\ host[t] = peer[s]

TunnelInv ==
    /\ TunnelTypeOK
    /\ \A s \in Sessions : NotDialed(s) /\ NotOpened(s) /\ SshOfLiveSession(s) /\ Routed(s)

LEMMA TunnelInvInit == TunnelInit => TunnelInv
  BY TunnelAssumption
     DEF TunnelInit, TunnelInv, TunnelTypeOK, Phases, Routes, SshStates, NotDialed, NotOpened, SshOfLiveSession,
         Routed, RunsSsh

LEMMA TunnelInvStep == TunnelInv /\ [TunnelNext]_tunnelVars => TunnelInv'
<1> SUFFICES ASSUME TunnelInv, [TunnelNext]_tunnelVars PROVE TunnelInv'
  OBVIOUS
<1> USE TunnelAssumption
<1>1. ASSUME NEW s \in Sessions, NEW w \in Workers, NEW c \in Consoles, Open(s, w, c)
      PROVE  TunnelInv'
  <2>1. TunnelTypeOK'
    BY <1>1 DEF TunnelInv, TunnelTypeOK, Open, Goto, Phases, Routes
  <2>2. \A t \in Sessions : NotDialed(t)' /\ NotOpened(t)' /\ SshOfLiveSession(t)'
    BY <1>1 DEF TunnelInv, TunnelTypeOK, Open, Goto, NotDialed, NotOpened, SshOfLiveSession, RunsSsh
  <2>3. ASSUME NEW t \in Sessions PROVE Routed(t)'
    <3>1. CASE t = s
      BY <1>1, <3>1 DEF TunnelInv, TunnelTypeOK, Open, Goto, Routed
    <3>2. CASE t # s
      (* the session Routed(t) speaks of is tunnelled, hence not idle: not s *)
      <4>1. route[s] # "tunnel"
        BY <1>1 DEF TunnelInv, Open, NotOpened
      <4> QED
        BY <1>1, <3>2, <4>1 DEF TunnelInv, TunnelTypeOK, Open, Goto, Routed, TakenLocally
    <3> QED
      BY <3>1, <3>2
  <2> QED
    BY <2>1, <2>2, <2>3 DEF TunnelInv
<1>2. ASSUME NEW s \in Sessions, ConnectDirectly(s) PROVE TunnelInv'
  <2>1. TunnelTypeOK'
    BY <1>2 DEF TunnelInv, TunnelTypeOK, ConnectDirectly, Goto, Phases, domain
  <2>2. \A t \in Sessions : NotDialed(t)' /\ NotOpened(t)' /\ SshOfLiveSession(t)'
    BY <1>2 DEF TunnelInv, TunnelTypeOK, ConnectDirectly, Goto, domain,
                NotDialed, NotOpened, SshOfLiveSession, RunsSsh
  <2>3. \A t \in Sessions : Routed(t)'
    BY <1>2 DEF TunnelInv, TunnelTypeOK, ConnectDirectly, Goto, domain, Routed, TakenLocally
  <2> QED
    BY <2>1, <2>2, <2>3 DEF TunnelInv
<1>3. ASSUME NEW s \in Sessions, ConnectLocally(s) PROVE TunnelInv'
  <2>1. PICK h \in Hosts \cup {NoOne} :
          /\ peer' = [peer EXCEPT ![s] = h]
          /\ TakenLocally(port[s]) \/ \E t \in Forwarders(port[s]) : h = host[t]
    BY <1>3 DEF ConnectLocally, TunnelInv, TunnelTypeOK, Forwarders
  <2>2. via' \in [Sessions -> Sessions \cup {NoOne}]
    BY <1>3 DEF ConnectLocally, TunnelInv, TunnelTypeOK, Forwarders
  <2>3. TunnelTypeOK'
    BY <1>3, <2>1, <2>2 DEF TunnelInv, TunnelTypeOK, ConnectLocally, Goto, Phases, domain
  <2>4. \A t \in Sessions : NotDialed(t)' /\ NotOpened(t)' /\ SshOfLiveSession(t)'
    BY <1>3, <2>1 DEF TunnelInv, TunnelTypeOK, ConnectLocally, Goto, domain,
                NotDialed, NotOpened, SshOfLiveSession, RunsSsh
  <2>5. ASSUME NEW t \in Sessions PROVE Routed(t)'
    <3>1. CASE t = s
      <4>1. peer'[s] = h /\ port'[s] = port[s] /\ route'[s] # "direct" /\ host' = host
        BY <1>3, <2>1 DEF TunnelInv, TunnelTypeOK, ConnectLocally, domain
      <4>2. CASE TakenLocally(port[s])
        BY <3>1, <4>1, <4>2 DEF Routed, TakenLocally
      <4>3. ASSUME NEW u \in Forwarders(port[s]), h = host[u] PROVE Routed(t)'
        <5>1. u \in Sessions /\ route[u] = "tunnel" /\ port[u] = port[s]
          BY DEF TunnelInv, Forwarders, LocalPort, SshOfLiveSession, RunsSsh
        <5>2. route' = route /\ port' = port
          BY <1>3 DEF ConnectLocally, domain
        <5> QED
          BY <3>1, <4>1, <4>3, <5>1, <5>2 DEF Routed
      <4> QED
        BY <2>1, <3>1, <4>2, <4>3
    <3>2. CASE t # s
      <4>1. peer'[t] = peer[t] /\ phase'[t] = phase[t]
        BY <1>3, <2>1, <3>2 DEF TunnelInv, TunnelTypeOK, ConnectLocally, Goto
      <4>2. UNCHANGED <<host, port, route>>
        BY <1>3 DEF ConnectLocally, domain
      <4>3. Routed(t)
        BY DEF TunnelInv
      <4> QED
        BY <4>1, <4>2, <4>3 DEF Routed, TakenLocally
    <3> QED
      BY <3>1, <3>2
  <2> QED
    BY <2>3, <2>4, <2>5 DEF TunnelInv
(* The other steps move one session on, not to connected, or change its ssh *)
(* process.                                                                 *)
<1>4. ASSUME NEW s \in Sessions,
             \/ SshStarts(s) \/ SshCannotStart(s) \/ ReadAnnouncement(s) \/ GiveUp(s)
             \/ ConnectFails(s) \/ ConnectionEnds(s) \/ BrowserLeaves(s)
             \/ SshAnnounces(s) \/ SshBinds(s) \/ SshExits(s)
      PROVE  TunnelInv'
  <2> USE <1>4 DEF SshStarts, SshCannotStart, ReadAnnouncement, GiveUp, ConnectFails,
                   ConnectionEnds, Disconnected, BrowserLeaves, SshAnnounces, SshBinds, SshExits,
                   Goto, SetSsh, EndSsh, domain
  <2>1. TunnelTypeOK'
    BY DEF TunnelInv, TunnelTypeOK, Phases, SshStates
  <2>2. \A t \in Sessions : NotDialed(t)' /\ NotOpened(t)'
    BY DEF TunnelInv, TunnelTypeOK, NotDialed, NotOpened, SshOfLiveSession, RunsSsh
  <2>3. ASSUME NEW t \in Sessions PROVE SshOfLiveSession(t)'
    <3> USE DEF TunnelInv, TunnelTypeOK, NotDialed, NotOpened, SshOfLiveSession, RunsSsh
    <3>1. CASE t # s
      BY <3>1
    <3>2. CASE t = s /\ SshStarts(s)
      BY <3>2
    <3>3. CASE t = s /\ (ReadAnnouncement(s) \/ GiveUp(s))
      BY <3>3
    <3>4. CASE t = s /\ (SshCannotStart(s) \/ ConnectFails(s))
      BY <3>4
    <3>5. CASE t = s /\ (ConnectionEnds(s) \/ BrowserLeaves(s))
      BY <3>5
    <3>6. CASE t = s /\ (SshAnnounces(s) \/ SshBinds(s) \/ SshExits(s))
      BY <3>6
    <3> QED
      BY <1>4, <3>1, <3>2, <3>3, <3>4, <3>5, <3>6
  <2>4. \A t \in Sessions : Routed(t)'
    <3>1. \A t \in Sessions : phase'[t] = "connected" => phase[t] = "connected"
      BY DEF TunnelInv, TunnelTypeOK
    <3>2. UNCHANGED <<host, port, route, peer>>
      OBVIOUS
    <3> QED
      BY <3>1, <3>2 DEF TunnelInv, Routed, TakenLocally
  <2> QED
    BY <2>1, <2>2, <2>3, <2>4 DEF TunnelInv
<1>5. CASE UNCHANGED tunnelVars
  BY <1>5 DEF tunnelVars, TunnelInv, TunnelTypeOK, NotDialed, NotOpened, SshOfLiveSession, Routed, RunsSsh,
              TakenLocally
<1> QED
  BY <1>1, <1>2, <1>3, <1>4, <1>5 DEF TunnelNext, SessionStep, SshStep

(* The inductive invariant holds in every reachable state. *)
THEOREM TunnelInvariance == TunnelSpec => []TunnelInv
  BY TunnelInvInit, TunnelInvStep, PTL DEF TunnelSpec

(* The variables of ConsoleTunnel keep their types. *)
THEOREM TunnelTypes == TunnelSpec => []TunnelTypeOK
<1>1. TunnelInv => TunnelTypeOK
  BY DEF TunnelInv
<1> QED
  BY TunnelInvariance, <1>1, PTL

(* No ssh process outlives the session it was started for, however the      *)
(* session ends, nor the TCP connection of that session.                    *)
THEOREM TunnelsAreNotLeaked == TunnelSpec => []NoTunnelLeaks
<1>1. TunnelInv => NoTunnelLeaks
  BY DEF TunnelInv, NoTunnelLeaks, SshOfLiveSession
<1> QED
  BY TunnelInvariance, <1>1, PTL

(* A session that shows another host than its domain's does so because it   *)
(* dialled the loopback address and another display has its port number.    *)
THEOREM OnlyClashesMisroute == TunnelSpec => []ReachesOwnHost
<1>1. TunnelInv => ReachesOwnHost
  BY DEF TunnelInv, ReachesOwnHost, Routed
<1> QED
  BY TunnelInvariance, <1>1, PTL
-----------------------------------------------------------------------------
(* The keyboard.  An entry of keyDownList that keyup takes away takes no    *)
(* other keysym with it.                                                    *)

Entries == [code : Keys, keysym : Seq(Keys)]
KeyTypes == held \subseteq Keys /\ keyDownList \in Seq(Entries)
KeyInv == KeyTypes /\ EveryKeyIsReleased

LEMMA CharType ==
  ASSUME KeyTypes, NEW k \in Keys
  PROVE  Char(k) \in Seq(Keys) /\ <<k>> \in Seq(Keys)
<1>1. Shift \in Keys
  BY InputAssumption DEF Keys
<1> QED
  BY <1>1 DEF Char

LEMMA NewestExists ==
  ASSUME KeyTypes, NEW k \in Keys, \E e \in ToSet(keyDownList) : e.code = k
  PROVE  Newest(k) \in DOMAIN keyDownList
<1> DEFINE I == {i \in DOMAIN keyDownList : keyDownList[i].code = k}
<1>1. Len(keyDownList) \in Nat /\ DOMAIN keyDownList = 1..Len(keyDownList)
  BY LenProperties DEF KeyTypes
<1>2. I \in SUBSET (1..Len(keyDownList)) /\ I # {}
  BY <1>1 DEF ToSet
<1>3. PICK m \in I : \A i \in I : i <= m
  BY <1>1, <1>2, GreatestMember
<1>4. \A j \in m + 1..Len(keyDownList) : keyDownList[j].code # k
  BY <1>1, <1>3
<1>5. \E i \in DOMAIN keyDownList :
         /\ keyDownList[i].code = k
         /\ \A j \in i + 1..Len(keyDownList) : keyDownList[j].code # k
  BY <1>3, <1>4
<1> QED
  BY <1>5 DEF Newest

LEMMA RemovedOne ==
  ASSUME NEW S, NEW s \in Seq(S), NEW i \in 1..Len(s)
  PROVE  /\ RemoveAt(s, i) \in Seq(S)
         /\ \A j \in 1..Len(s) : j # i => \E l \in DOMAIN RemoveAt(s, i) : RemoveAt(s, i)[l] = s[j]
<1> DEFINE a == SubSeq(s, 1, i - 1)
           b == SubSeq(s, i + 1, Len(s))
<1>1. Len(s) \in Nat /\ i \in Int /\ \A j \in 1..Len(s) : s[j] \in S
  BY LenProperties, ElementOfSeq
<1>2. a \in Seq(S) /\ Len(a) = i - 1 /\ \A l \in 1..i - 1 : a[l] = s[l]
  <2>1. \A j \in 1..i - 1 : s[j] \in S
    BY <1>1
  <2> QED
    BY <1>1, <2>1, SubSeqProperties
<1>3. b \in Seq(S) /\ Len(b) = Len(s) - i /\ \A l \in 1..Len(s) - i : b[l] = s[i + l]
  <2>1. \A j \in i + 1..Len(s) : s[j] \in S
    BY <1>1
  <2>2. /\ b \in Seq(S)
        /\ Len(b) = IF i + 1 <= Len(s) THEN Len(s) - (i + 1) + 1 ELSE 0
        /\ \A l \in 1..Len(s) - (i + 1) + 1 : b[l] = s[(i + 1) + l - 1]
    BY <1>1, <2>1, SubSeqProperties
  <2> QED
    BY <1>1, <2>2
<1> HIDE DEF a, b
<1>4. /\ a \o b \in Seq(S) /\ Len(a \o b) = Len(s) - 1
      /\ \A l \in 1..Len(s) - 1 : (a \o b)[l] = IF l <= i - 1 THEN a[l] ELSE b[l - (i - 1)]
  <2>1. /\ a \o b \in Seq(S) /\ Len(a \o b) = Len(a) + Len(b)
        /\ \A l \in 1..Len(a) + Len(b) : (a \o b)[l] = IF l <= Len(a) THEN a[l] ELSE b[l - Len(a)]
    BY <1>2, <1>3, ConcatProperties
  <2>2. Len(a) = i - 1 /\ Len(a) + Len(b) = Len(s) - 1
    BY <1>1, <1>2, <1>3
  <2> QED
    BY <2>1, <2>2
<1>5. DOMAIN (a \o b) = 1..Len(s) - 1
  BY <1>4, LenProperties
<1>6. ASSUME NEW j \in 1..Len(s), j # i
      PROVE  \E l \in DOMAIN (a \o b) : (a \o b)[l] = s[j]
  <2>1. CASE j < i
    <3>1. j \in DOMAIN (a \o b) /\ (a \o b)[j] = s[j]
      BY <1>1, <1>2, <1>4, <1>5, <2>1
    <3> QED
      BY <3>1
  <2>2. CASE j > i
    <3>1. j - 1 \in 1..Len(s) - 1 /\ ~(j - 1 <= i - 1) /\ (j - 1) - (i - 1) = j - i
      BY <1>1, <2>2
    <3>2. j - 1 \in DOMAIN (a \o b) /\ (a \o b)[j - 1] = b[j - i]
      BY <1>4, <1>5, <3>1
    <3>3. b[j - i] = s[j]
      BY <1>1, <1>3, <2>2
    <3> QED
      BY <3>2, <3>3
  <2> QED
    BY <1>1, <1>6, <2>1, <2>2
<1>7. RemoveAt(s, i) = a \o b
  BY DEF RemoveAt, a, b
<1> QED
  BY <1>4, <1>6, <1>7

LEMMA ReplacedOne ==
  ASSUME NEW S, NEW s \in Seq(S), NEW n \in 1..Len(s), NEW e \in S,
         NEW t, t = [s EXCEPT ![n] = e]
  PROVE  /\ t \in Seq(S) /\ Len(t) = Len(s)
         /\ \A j \in 1..Len(s) : t[j] = IF j = n THEN e ELSE s[j]
  BY ExceptSeq

LEMMA ListedAfterAppend ==
  ASSUME KeyTypes, NEW e \in Entries, keyDownList' = Append(keyDownList, e)
  PROVE  keyDownList' \in Seq(Entries) /\ Listed \cup {e.keysym} \subseteq Listed'
<1> DEFINE n == Len(keyDownList)
<1>1. /\ n \in Nat /\ DOMAIN keyDownList = 1..n
      /\ keyDownList' \in Seq(Entries) /\ Len(keyDownList') = n + 1
      /\ \A i \in 1..n : keyDownList'[i] = keyDownList[i]
      /\ keyDownList'[n + 1] = e
  BY LenProperties, AppendProperties DEF KeyTypes
<1>2. DOMAIN keyDownList' = 1..n + 1
  BY <1>1, LenProperties
<1> QED
  BY <1>1, <1>2 DEF Listed, ToSet

LEMMA ListedAfterRemove ==
  ASSUME KeyTypes, NEW i \in DOMAIN keyDownList, keyDownList' = RemoveAt(keyDownList, i)
  PROVE  /\ keyDownList' \in Seq(Entries)
         /\ Listed \subseteq Listed' \cup {keyDownList[i].keysym}
<1>1. i \in 1..Len(keyDownList) /\ DOMAIN keyDownList = 1..Len(keyDownList)
  BY LenProperties DEF KeyTypes
<1>2. /\ keyDownList' \in Seq(Entries)
      /\ \A j \in 1..Len(keyDownList) : j # i =>
            \E l \in DOMAIN keyDownList' : keyDownList'[l] = keyDownList[j]
  BY <1>1, RemovedOne DEF KeyTypes
<1> QED
  BY <1>1, <1>2 DEF Listed, ToSet

LEMMA ListedAfterDead ==
  ASSUME KeyTypes, keyDownList # <<>>, NEW s \in Seq(Keys),
         keyDownList' = [keyDownList EXCEPT ![Len(keyDownList)].keysym = s]
  PROVE  /\ keyDownList' \in Seq(Entries)
         /\ Listed \cup {s} \subseteq Listed' \cup {Last(keyDownList).keysym}
<1> DEFINE n == Len(keyDownList)
           e == [keyDownList[n] EXCEPT !.keysym = s]
<1>1. n \in Nat \ {0} /\ n \in 1..n /\ DOMAIN keyDownList = 1..n
  BY LenProperties, EmptySeq DEF KeyTypes
<1>2. keyDownList[n] \in Entries
  BY <1>1, ElementOfSeq DEF KeyTypes
<1>3. e \in Entries /\ e.keysym = s
  BY <1>2 DEF Entries
<1>4. keyDownList' = [keyDownList EXCEPT ![n] = e]
  BY <1>1
<1> HIDE DEF e
<1>5. /\ keyDownList' \in Seq(Entries) /\ Len(keyDownList') = n
      /\ \A j \in 1..n : keyDownList'[j] = IF j = n THEN e ELSE keyDownList[j]
  <2>1. keyDownList \in Seq(Entries) /\ n \in 1..Len(keyDownList)
    BY <1>1 DEF KeyTypes
  <2>2. \A t : t = [keyDownList EXCEPT ![n] = e] =>
          /\ t \in Seq(Entries) /\ Len(t) = n
          /\ \A j \in 1..n : t[j] = IF j = n THEN e ELSE keyDownList[j]
    BY <2>1, <1>3, ReplacedOne
  <2> QED
    BY <2>1, <1>3, <1>4, <2>2
<1>6. DOMAIN keyDownList' = 1..n
  BY <1>5, LenProperties
<1> QED
  BY <1>1, <1>3, <1>5, <1>6 DEF Listed, ToSet, Last

LEMMA KeyStep ==
  ASSUME KeyInv, [InputNext]_inputVars
  PROVE  KeyInv'
<1> USE DEF KeyInv, EveryKeyIsReleased
<1>1. ASSUME NEW k \in Printable \cup Special, KeyDown(k) PROVE KeyInv'
  <2> DEFINE s == IF KeysymSpecial(k) # None THEN KeysymSpecial(k) ELSE Char(k)
  <2>1. k \in Keys /\ KeyTypes
    BY DEF Keys
  <2>2. s \in Seq(Keys)
    BY <2>1, CharType DEF KeysymSpecial
  <2>3. Entry(k, s) \in Entries /\ Entry(k, s).keysym = s
    BY <2>1, <2>2 DEF Entry, Entries
  <2>4. /\ keyDownList' = Append(keyDownList, Entry(k, s)) /\ pressed' = pressed \cup {s}
        /\ held' = held \cup {k} /\ orphans' = orphans
    BY <1>1 DEF KeyDown
  <2>5. keyDownList' \in Seq(Entries) /\ Listed \cup {s} \subseteq Listed'
    BY <2>1, <2>3, <2>4, ListedAfterAppend
  <2> QED
    BY <2>1, <2>4, <2>5 DEF KeyTypes
<1>2. ASSUME NEW k \in Keys, KeyUp(k) PROVE KeyInv'
  <2>1. CASE grabbed /\ \E e \in ToSet(keyDownList) : e.code = k
    <3>1. Newest(k) \in DOMAIN keyDownList
      BY <2>1, NewestExists
    <3>2. /\ keyDownList' = RemoveAt(keyDownList, Newest(k))
          /\ pressed' = pressed \ {keyDownList[Newest(k)].keysym}
          /\ held' = held \ {k} /\ orphans' = orphans
      BY <1>2, <2>1 DEF KeyUp
    <3>3. /\ keyDownList' \in Seq(Entries)
          /\ Listed \subseteq Listed' \cup {keyDownList[Newest(k)].keysym}
      BY <3>1, <3>2, ListedAfterRemove
    <3> QED
      BY <3>2, <3>3 DEF KeyTypes
  <2>2. CASE ~(grabbed /\ \E e \in ToSet(keyDownList) : e.code = k)
    BY <1>2, <2>2 DEF KeyUp, KeyTypes, Listed
  <2> QED
    BY <2>1, <2>2
<1>3. ASSUME DeadKeyDown PROVE KeyInv'
  <2>1. Dead \in Keys /\ <<Dead>> \in Seq(Keys)
    BY DEF Keys
  <2>2. held' \subseteq Keys
    BY <1>3, <2>1 DEF DeadKeyDown, KeyTypes
  <2>3. CASE UNCHANGED <<keyDownList, pressed, orphans>>
    BY <2>2, <2>3 DEF KeyTypes, Listed
  <2>4. CASE /\ pressed' = pressed \cup {<<Dead>>}
             /\ keyDownList = <<>> /\ orphans' = orphans \cup {<<Dead>>} /\ UNCHANGED keyDownList
    BY <2>2, <2>4 DEF KeyTypes, Listed
  <2>5. CASE /\ pressed' = pressed \cup {<<Dead>>} /\ keyDownList # <<>>
             /\ keyDownList' = [keyDownList EXCEPT ![Len(keyDownList)].keysym = <<Dead>>]
             /\ orphans' = orphans \cup {Last(keyDownList).keysym}
    <3>1. /\ keyDownList' \in Seq(Entries)
          /\ Listed \cup {<<Dead>>} \subseteq Listed' \cup {Last(keyDownList).keysym}
      BY <2>1, <2>5, ListedAfterDead
    <3> QED
      BY <2>2, <2>5, <3>1 DEF KeyTypes
  <2> QED
    BY <1>3, <2>3, <2>4, <2>5 DEF DeadKeyDown
<1>4. ASSUME AllKeysUp, held' \in SUBSET held, orphans' = orphans PROVE KeyInv'
  BY <1>4 DEF AllKeysUp, KeyTypes, Listed, ToSet
<1>5. CASE Blur
  BY <1>4, <1>5 DEF Blur
<1>6. CASE Ungrab
  BY <1>4, <1>6 DEF Ungrab
<1>7. CASE SendCtrlAltDel
  BY <1>7 DEF SendCtrlAltDel, KeyTypes, Listed
<1>8. CASE SendCtrlAltFN
  <2>1. /\ pressed' = (pressed \cup Chord) \cup (pressed \cup Chord) /\ orphans' = orphans \cup Chord
        /\ UNCHANGED <<held, keyDownList>>
    BY <1>8, "down" # "" /\ "up" # "" DEF SendCtrlAltFN, SendKey
  <2> QED
    BY <2>1 DEF KeyTypes, Listed
<1>9. CASE Grab
  BY <1>9 DEF Grab, KeyTypes, Listed
<1>10. CASE UNCHANGED <<held, keyDownList, pressed, orphans>>
  BY <1>10 DEF KeyTypes, Listed
<1>11. ASSUME NEW b \in Buttons, MouseDown(b) \/ MouseUp(b) PROVE KeyInv'
  BY <1>10, <1>11 DEF MouseDown, MouseUp, keyboard
<1> QED
  BY <1>1, <1>2, <1>3, <1>5, <1>6, <1>7, <1>8, <1>9, <1>10, <1>11 DEF InputNext, inputVars, keyboard

(* Every key the server was told of is on the list that releases it, or one *)
(* of the orphans of sendCtrlAltFN and of dead keys.                        *)
THEOREM KeysReleased == InputSpec => []EveryKeyIsReleased
<1>1. InputInit => KeyInv
  BY EmptySeq DEF InputInit, KeyInv, KeyTypes, EveryKeyIsReleased
<1>2. KeyInv /\ [InputNext]_inputVars => KeyInv'
  BY KeyStep
<1>3. KeyInv => EveryKeyIsReleased
  BY DEF KeyInv
<1> QED
  BY <1>1, <1>2, <1>3, PTL DEF InputSpec
-----------------------------------------------------------------------------
(* The mouse.  It is captured only under a button, and by the handlers that *)
(* are attached, unless a connection ended under it.                        *)
MouseInv ==
    /\ ButtonsMatch
    /\ cut \/ (captured => grabbed /\ buttons # {})
    /\ chord \/ \A b, c \in buttons : b = c
    /\ grabbed \in BOOLEAN /\ captured \in BOOLEAN /\ chord \in BOOLEAN /\ cut \in BOOLEAN

LEMMA MouseStep ==
  ASSUME MouseInv, [InputNext]_inputVars
  PROVE  MouseInv'
<1> USE DEF MouseInv, ButtonsMatch
<1>1. ASSUME NEW b \in Buttons, MouseDown(b) PROVE MouseInv'
  <2>1. /\ buttons' = buttons \cup {b} /\ chord' = (chord \/ buttons # {})
        /\ UNCHANGED <<grabbed, cut>>
    BY <1>1 DEF MouseDown
  <2>2. CASE grabbed /\ captured' = TRUE /\ mask' = mask \cup {b}
    <3>1. ~chord' /\ ~cut' => mask' = buttons'
      BY <2>1, <2>2
    <3>2. buttons' # {}
      BY <2>1
    <3> QED
      BY <2>1, <2>2, <3>1, <3>2
  <2>3. CASE UNCHANGED <<captured, mask>>
    <3>1. ~chord' /\ ~cut' => ~captured
      BY <2>1
    <3>2. buttons' # {}
      BY <2>1
    <3> QED
      BY <2>1, <2>3, <3>1, <3>2
  <2> QED
    BY <1>1, <2>2, <2>3 DEF MouseDown
<1>2. ASSUME NEW b \in Buttons, MouseUp(b) PROVE MouseInv'
  <2>1. b \in buttons /\ buttons' = buttons \ {b} /\ UNCHANGED <<grabbed, chord, cut>>
    BY <1>2 DEF MouseUp, keyboard
  <2>2. CASE grabbed /\ captured
    <3>1. mask' = Toggle(b) /\ captured' = FALSE
      BY <1>2, <2>2 DEF MouseUp
    <3>2. chord \/ cut \/ mask = buttons
      BY <2>2
    <3> QED
      BY <2>1, <3>1, <3>2 DEF Toggle
  <2>3. CASE ~(grabbed /\ captured)
    BY <1>2, <2>1, <2>3 DEF MouseUp
  <2> QED
    BY <2>2, <2>3
<1>3. CASE Grab
  BY <1>3 DEF Grab
<1>4. CASE Ungrab
  BY <1>4 DEF Ungrab
<1>5. CASE UNCHANGED <<grabbed, mouse>>
  BY <1>5 DEF mouse
<1>6. CASE DeadKeyDown \/ Blur \/ SendCtrlAltDel \/ SendCtrlAltFN
          \/ \E k \in Keys : KeyUp(k) \/ (k # Dead /\ KeyDown(k))
  BY <1>5, <1>6 DEF DeadKeyDown, Blur, SendCtrlAltDel, SendCtrlAltFN, KeyUp, KeyDown, mouse
<1> QED
  BY <1>1, <1>2, <1>3, <1>4, <1>5, <1>6 DEF InputNext, inputVars, Keys, KeyDown

(* The server knows exactly the buttons that are down on the canvas, as     *)
(* long as no two are at a time and no connection ends under one.           *)
THEOREM ButtonsKnown == InputSpec => []ButtonsMatch
<1>1. InputInit => MouseInv
  BY DEF InputInit, MouseInv, ButtonsMatch
<1>2. MouseInv /\ [InputNext]_inputVars => MouseInv'
  BY MouseStep
<1>3. MouseInv => ButtonsMatch
  BY DEF MouseInv
<1> QED
  BY <1>1, <1>2, <1>3, PTL DEF InputSpec
-----------------------------------------------------------------------------
(* The drawing queue.  Pictures are what Draw takes to pictures.             *)

Items == [type : {"fill", "img", "copy"}, at : Rects, colour : Colours \cup {Blank},
          by : {-1, 0, 1}, complete : BOOLEAN]
Drawable == {a \in Items : Fits(a)}
Pictures == [Cells -> Colours \cup {Blank}]

LEMMA ActionsAreItems == \A a \in Actions : a \in Items
<1> SUFFICES ASSUME NEW a \in Actions PROVE a \in Items
  OBVIOUS
<1>1. ASSUME NEW t \in {"fill", "img"}, NEW at \in Rects, NEW c \in Colours, a = Paint(t, at, c)
      PROVE  a \in Items
  BY <1>1 DEF Items, Paint
<1>2. ASSUME NEW at \in Rects, NEW by \in {-1, 1}, a = Copy(at, by)
      PROVE  a \in Items
  BY <1>2 DEF Items, Copy
<1> QED
  BY <1>1, <1>2 DEF Actions

LEMMA FillFits ==
  ASSUME NEW a \in Actions, a.type = "fill"
  PROVE  Fits(a)
<1>1. ASSUME NEW t \in {"fill", "img"}, NEW at \in Rects, NEW c \in Colours, a = Paint(t, at, c)
      PROVE  Fits(a)
  <2>1. a.by = 0 /\ a.at = at
    BY <1>1 DEF Paint
  <2>2. at \subseteq Cells
    <3>1. PICK i, j \in Cells : at = i..j
      BY DEF Rects
    <3> QED
      BY <3>1, CellsAssumption
  <2>3. \A c1 \in at : c1 + 0 = c1
    BY <2>2, CellsAssumption
  <2> QED
    BY <2>1, <2>2, <2>3 DEF Fits
<1>2. ASSUME NEW at \in Rects, NEW by \in {-1, 1}, a = Copy(at, by)
      PROVE  FALSE
  BY <1>2 DEF Copy
<1> QED
  BY <1>1, <1>2 DEF Actions

LEMMA DrawType ==
  ASSUME NEW a \in Drawable, NEW old \in Pictures
  PROVE  Draw(a, old) \in Pictures
<1>1. a.colour \in Colours \cup {Blank} /\ \A c \in a.at : c + a.by \in Cells
  BY DEF Drawable, Items, Fits
<1> QED
  BY <1>1 DEF Draw, Pictures

(* The canvas after each of the actions of a queue, drawn in order.         *)
Drawing(h, q, old) ==
    /\ h \in [0..Len(q) -> Pictures] /\ h[0] = old
    /\ \A i \in 1..Len(q) : h[i] = Draw(q[i], h[i-1])

LEMMA DrawingExists ==
  ASSUME NEW q \in Seq(Drawable), NEW old \in Pictures
  PROVE  /\ \E h : Drawing(h, q, old)
         /\ \E iter : iter = [s \in SUBSET DOMAIN q |->
                                IF s = {} THEN old ELSE Draw(q[Max(s)], iter[s \ {Max(s)}])]
<1> DEFINE n == Len(q)
           step == [x \in (1..n) \X Pictures |-> Draw(q[x[1]], x[2])]
<1>1. n \in Nat /\ DOMAIN q = 1..n /\ \A i \in 1..n : q[i] \in Drawable
  BY LenProperties, ElementOfSeq
<1> HIDE DEF n
<1>2. step \in Steps(n, Pictures)
  <2>1. \A x \in (1..n) \X Pictures : Draw(q[x[1]], x[2]) \in Pictures
    BY <1>1, DrawType
  <2> QED
    BY <2>1 DEF Steps
<1>3. \A i \in 1..n, c \in Pictures : step[i, c] = Draw(q[i], c)
  OBVIOUS
<1> HIDE DEF step
<1>4. PICK h : IsTrace(h, n, Pictures, old, step)
  BY <1>1, <1>2, TraceExists
<1>5. h \in [0..n -> Pictures] /\ h[0] = old /\ \A i \in 1..n : h[i] = step[i, h[i-1]]
  BY <1>4, Zenon DEF IsTrace
<1>6. \A i \in 1..n : h[i] = Draw(q[i], h[i-1])
  <2> SUFFICES ASSUME NEW i \in 1..n PROVE h[i] = Draw(q[i], h[i-1])
    OBVIOUS
  <2>1. i - 1 \in 0..n
    BY <1>1
  <2>2. h[i-1] \in Pictures
    BY <1>5, <2>1
  <2> QED
    BY <1>3, <1>5, <2>2
<1>7. Drawing(h, q, old)
  BY <1>5, <1>6 DEF Drawing, n
<1>8. PICK iter \in [SUBSET (1..n) -> Pictures] : Iterates(iter, n, old, step)
  BY <1>1, <1>2, IterExists
<1>9. \A s \in SUBSET (1..n) : iter[s] = IF s = {} THEN old ELSE Draw(q[Max(s)], iter[s \ {Max(s)}])
  <2> SUFFICES ASSUME NEW s \in SUBSET (1..n), s # {}
               PROVE  iter[s] = Draw(q[Max(s)], iter[s \ {Max(s)}])
    BY <1>8 DEF Iterates
  <2>1. iter[s] = step[Max(s), iter[s \ {Max(s)}]]
    BY <1>8 DEF Iterates
  <2>2. Max(s) \in 1..n /\ iter[s \ {Max(s)}] \in Pictures
    BY <1>1, MaxIsLast
  <2> QED
    BY <1>3, <2>1, <2>2
<1>10. iter = [s \in SUBSET DOMAIN q |-> IF s = {} THEN old ELSE Draw(q[Max(s)], iter[s \ {Max(s)}])]
  <2>1. iter = [s \in SUBSET (1..n) |-> iter[s]]
    OBVIOUS
  <2> QED
    BY <1>1, <1>9, <2>1
<1> QED
  BY <1>7, <1>10

(* DrawAll is where the drawing ends.                                       *)
LEMMA DrawAllEnds ==
  ASSUME NEW q \in Seq(Drawable), NEW old \in Pictures, NEW h, Drawing(h, q, old)
  PROVE  DrawAll(q, old) = h[Len(q)]
<1> DEFINE E(iter) == iter = [s \in SUBSET DOMAIN q |->
                                IF s = {} THEN old ELSE Draw(q[Max(s)], iter[s \ {Max(s)}])]
           iter == CHOOSE iter : E(iter)
           n == Len(q)
<1>1. n \in Nat /\ DOMAIN q = 1..n
  BY LenProperties
<1>2. DrawAll(q, old) = iter[DOMAIN q]
  BY Zenon DEF DrawAll, FoldLeft, MapThenFoldSet
<1>3. E(iter)
  <2>1. \E it : E(it)
    BY DrawingExists
  <2> QED
    BY <2>1, Zenon
<1>4. \A s \in SUBSET (1..n) : iter[s] = IF s = {} THEN old ELSE Draw(q[Max(s)], iter[s \ {Max(s)}])
  <2> HIDE DEF iter
  <2> QED
    BY <1>1, <1>3
<1> HIDE DEF iter, E, n
<1>5. iter[First(0)] = h[0]
  <2>1. First(0) = {} /\ {} \in SUBSET (1..n)
    BY <1>1, Firsts
  <2>2. h[0] = old
    BY Zenon DEF Drawing
  <2> QED
    BY <1>4, <2>1, <2>2
<1>6. ASSUME NEW i \in 1..n, iter[First(i - 1)] = h[i-1] PROVE iter[First(i)] = h[i]
  <2>1. /\ First(i) \in SUBSET (1..n) /\ First(i) # {}
        /\ Max(First(i)) = i /\ First(i) \ {i} = First(i - 1)
    BY <1>1, Firsts
  <2>2. iter[First(i)] = Draw(q[i], iter[First(i - 1)])
    BY <1>4, <2>1
  <2>3. h[i] = Draw(q[i], h[i-1])
    BY DEF Drawing, n
  <2> QED
    BY <1>6, <2>2, <2>3
<1>7. iter[1..n] = h[n]
  BY <1>1, <1>5, <1>6, FoldEnds
<1> QED
  BY <1>1, <1>2, <1>7 DEF n

LEMMA DrawNone ==
  ASSUME NEW old \in Pictures
  PROVE  DrawAll(<<>>, old) = old
<1>1. <<>> \in Seq(Drawable) /\ Len(<<>>) = 0
  BY EmptySeq
<1>2. PICK h : Drawing(h, <<>>, old)
  BY <1>1, DrawingExists
<1>3. DrawAll(<<>>, old) = h[0]
  BY <1>1, <1>2, DrawAllEnds
<1> QED
  BY <1>2, <1>3, Zenon DEF Drawing

LEMMA DrawLast ==
  ASSUME NEW q \in Seq(Drawable), NEW a \in Drawable, NEW old \in Pictures
  PROVE  DrawAll(Append(q, a), old) = Draw(a, DrawAll(q, old))
<1> DEFINE r == Append(q, a)
           n == Len(q)
<1>1. /\ r \in Seq(Drawable) /\ n \in Nat /\ Len(r) = n + 1 /\ r[n+1] = a
      /\ \A i \in 1..n : r[i] = q[i]
  BY AppendProperties, LenProperties
<1> HIDE DEF r
<1>2. PICK h : Drawing(h, r, old)
  BY <1>1, DrawingExists
<1>3. /\ h \in [0..n+1 -> Pictures] /\ h[0] = old
      /\ \A i \in 1..n+1 : h[i] = Draw(r[i], h[i-1])
  BY <1>1, <1>2 DEF Drawing
<1> DEFINE g == [i \in 0..n |-> h[i]]
<1>4. Drawing(g, q, old)
  <2>1. g \in [0..n -> Pictures]
    BY <1>1, <1>3
  <2>2. g[0] = old
    <3>1. 0 \in 0..n
      BY <1>1
    <3> QED
      BY <1>3, <3>1, Zenon
  <2>3. ASSUME NEW i \in 1..n PROVE g[i] = Draw(q[i], g[i-1])
    <3>1. i \in 1..n+1 /\ i \in 0..n /\ i - 1 \in 0..n
      BY <1>1
    <3> QED
      BY <1>1, <1>3, <3>1
  <2> HIDE DEF g
  <2> QED
    BY <2>1, <2>2, <2>3 DEF Drawing
<1>5. DrawAll(q, old) = h[n]
  <2>1. n \in 0..n /\ DrawAll(q, old) = g[n]
    BY <1>1, <1>4, DrawAllEnds
  <2> QED
    BY <2>1
<1>6. DrawAll(r, old) = h[n+1]
  BY <1>1, <1>2, DrawAllEnds
<1>7. h[n+1] = Draw(a, h[n])
  <2>1. n + 1 \in 1..n+1 /\ (n + 1) - 1 = n
    BY <1>1
  <2> QED
    BY <1>1, <1>3, <2>1
<1> QED
  BY <1>5, <1>6, <1>7 DEF r

(* A queue is drawn as its beginning and then its end.                      *)
LEMMA DrawSplit ==
  ASSUME NEW q \in Seq(Drawable), NEW n \in 0..Len(q), NEW old \in Pictures
  PROVE  LET begin == DrawAll(SubSeq(q, 1, n), old)
         IN  /\ begin \in Pictures
             /\ DrawAll(SubSeq(q, n + 1, Len(q)), begin) = DrawAll(q, old)
             /\ SubSeq(q, n + 1, Len(q)) \in Seq(Drawable)
<1> DEFINE b == SubSeq(q, 1, n)
           e == SubSeq(q, n + 1, Len(q))
           m == Len(q)
<1>1. m \in Nat /\ n \in Nat /\ n <= m /\ \A i \in 1..m : q[i] \in Drawable
  BY LenProperties, ElementOfSeq
<1>2. b \in Seq(Drawable) /\ Len(b) = n /\ \A i \in 1..n : b[i] = q[i]
  <2>1. \A i \in 1..n : q[i] \in Drawable
    BY <1>1
  <2> QED
    BY <1>1, <2>1, SubSeqProperties
<1>3. e \in Seq(Drawable) /\ Len(e) = m - n /\ \A i \in 1..m-n : e[i] = q[n + i]
  <2>1. \A i \in n+1..m : q[i] \in Drawable
    BY <1>1
  <2>2. e \in Seq(Drawable) /\ Len(e) = m - n
    BY <1>1, <2>1, SubSeqProperties
  <2>3. \A i \in 1..m-n : e[i] = q[((n + 1) + i) - 1]
    BY <1>1, <2>1, <2>2, SubSeqProperties
  <2>4. \A i \in 1..m-n : ((n + 1) + i) - 1 = n + i
    BY <1>1
  <2> QED
    BY <2>2, <2>3, <2>4
<1> HIDE DEF b, e
<1>4. PICK h : Drawing(h, q, old)
  BY DrawingExists
<1>5. /\ h \in [0..m -> Pictures] /\ h[0] = old
      /\ \A i \in 1..m : h[i] = Draw(q[i], h[i-1])
  BY <1>4 DEF Drawing
<1> HIDE DEF m
<1> DEFINE g == [i \in 0..n |-> h[i]]
           k == [i \in 0..m-n |-> h[n + i]]
<1>6. Drawing(g, b, old)
  <2>1. g \in [0..n -> Pictures]
    BY <1>1, <1>5
  <2>2. g[0] = old
    <3>1. 0 \in 0..n
      BY <1>1
    <3> QED
      BY <1>5, <3>1, Zenon
  <2>3. ASSUME NEW i \in 1..n PROVE g[i] = Draw(b[i], g[i-1])
    <3>1. i \in 1..m /\ i \in 0..n /\ i - 1 \in 0..n
      BY <1>1
    <3> QED
      BY <1>2, <1>5, <3>1
  <2> HIDE DEF g
  <2> QED
    BY <1>2, <2>1, <2>2, <2>3 DEF Drawing
<1>7. DrawAll(b, old) = h[n] /\ h[n] \in Pictures
  <2>1. n \in 0..n /\ n \in 0..m /\ DrawAll(b, old) = g[n]
    BY <1>1, <1>2, <1>6, DrawAllEnds
  <2> QED
    BY <1>5, <2>1
<1>8. Drawing(k, e, h[n])
  <2>1. k \in [0..m-n -> Pictures]
    <3>1. \A i \in 0..m-n : n + i \in 0..m
      BY <1>1
    <3> QED
      BY <1>5, <3>1
  <2>2. k[0] = h[n]
    <3>1. 0 \in 0..m-n /\ n + 0 = n
      BY <1>1
    <3> QED
      BY <3>1
  <2>3. ASSUME NEW i \in 1..m-n PROVE k[i] = Draw(e[i], k[i-1])
    <3>1. n + i \in 1..m /\ (n + i) - 1 = n + (i - 1) /\ i \in 0..m-n /\ i - 1 \in 0..m-n
      BY <1>1
    <3> QED
      BY <1>3, <1>5, <3>1
  <2> HIDE DEF k
  <2> QED
    BY <1>3, <2>1, <2>2, <2>3 DEF Drawing
<1>9. DrawAll(e, h[n]) = h[m]
  <2>1. m - n \in 0..m-n /\ n + (m - n) = m /\ DrawAll(e, h[n]) = k[m - n]
    BY <1>1, <1>3, <1>7, <1>8, DrawAllEnds
  <2> QED
    BY <2>1
<1>10. DrawAll(q, old) = h[m]
  BY <1>4, DrawAllEnds DEF m
<1> QED
  BY <1>3, <1>7, <1>9, <1>10 DEF b, e, m

(* That an image is complete does not change what it draws.                 *)
LEMMA DrawSame ==
  ASSUME NEW q \in Seq(Drawable), NEW r \in Seq(Drawable), NEW old \in Pictures, Len(r) = Len(q),
         \A i \in 1..Len(q), c \in Pictures : Draw(r[i], c) = Draw(q[i], c)
  PROVE  DrawAll(r, old) = DrawAll(q, old)
<1>1. PICK h : Drawing(h, q, old)
  BY DrawingExists
<1>2. Len(q) \in Nat
  BY LenProperties
<1>3. \A i \in 1..Len(q) : h[i] = Draw(r[i], h[i-1])
  <2> SUFFICES ASSUME NEW i \in 1..Len(q) PROVE h[i] = Draw(r[i], h[i-1])
    OBVIOUS
  <2>1. i - 1 \in 0..Len(q)
    BY <1>2
  <2>2. h[i-1] \in Pictures /\ h[i] = Draw(q[i], h[i-1])
    BY <1>1, <2>1 DEF Drawing
  <2> QED
    BY <2>2
<1>4. Drawing(h, r, old)
  BY <1>1, <1>3 DEF Drawing
<1> QED
  BY <1>1, <1>4, DrawAllEnds

(* What waits has a frame coming, and to draw it gives what was sent.        *)
QueueTypes ==
    /\ renderQ \in Seq(Drawable) /\ frames \in Nat /\ mixed \in BOOLEAN
    /\ canvas \in Pictures /\ sentInOrder \in Pictures
QueueInv == QueueTypes /\ AlwaysScanned /\ QueuedInOrder

LEMMA ScanKeeps ==
  ASSUME NEW q \in Seq(Drawable), NEW owed \in Nat, canvas \in Pictures, Scan(q, owed)
  PROVE  /\ renderQ' \in Seq(Drawable) /\ frames' \in Nat /\ AlwaysScanned'
         /\ canvas' \in Pictures /\ DrawAll(renderQ', canvas') = DrawAll(q, canvas)
<1> DEFINE I == {i \in 1..Len(q) : ~q[i].complete}
           first == SelectInSeq(q, LAMBDA a : ~a.complete)
           n == IF first = 0 THEN Len(q) ELSE first - 1
<1>1. Len(q) \in Nat
  BY LenProperties
<1>2. first \in 0..Len(q)
  <2>1. first = IF I # {} THEN Min(I) ELSE 0
    BY DEF SelectInSeq
  <2>2. ASSUME I # {} PROVE Min(I) \in I
    <3>1. \E m \in I : \A i \in I : m <= i
      BY <1>1, <2>2, LeastMember
    <3> QED
      BY <3>1 DEF Min
  <2> QED
    BY <1>1, <2>1, <2>2
<1>3. /\ renderQ' = SubSeq(q, n + 1, Len(q))
      /\ frames' = owed + (IF n < Len(q) THEN 1 ELSE 0)
      /\ canvas' = DrawAll(SubSeq(q, 1, n), canvas)
  BY DEF Scan
<1>4. n \in 0..Len(q)
  BY <1>1, <1>2
<1> HIDE DEF n
<1>5. /\ renderQ' \in Seq(Drawable) /\ canvas' \in Pictures
      /\ DrawAll(renderQ', canvas') = DrawAll(q, canvas)
  BY <1>3, <1>4, DrawSplit
<1>6. frames' \in Nat /\ (n < Len(q) => frames' > 0)
  BY <1>3
<1>7. n = Len(q) => renderQ' = <<>>
  BY <1>1, <1>3, SubSeqEmpty
<1> QED
  BY <1>1, <1>4, <1>5, <1>6, <1>7 DEF AlwaysScanned

LEMMA QueueStep ==
  ASSUME QueueInv, [QueueNext]_queueVars
  PROVE  QueueInv'
<1> USE DEF QueueInv, QueueTypes
<1>1. ASSUME NEW a \in Actions, RenderQPush(a) PROVE QueueInv'
  <2>1. a \in Drawable
    BY <1>1, ActionsAreItems DEF Drawable, RenderQPush
  <2>2. sentInOrder' = Draw(a, sentInOrder) /\ sentInOrder' \in Pictures /\ mixed' = mixed
    BY <1>1, <2>1, DrawType DEF RenderQPush
  <2>3. CASE renderQ = <<>>
    <3>1. <<a>> = Append(<<>>, a) /\ <<>> \in Seq(Drawable)
      BY EmptySeq
    <3>2. <<a>> \in Seq(Drawable) /\ Scan(<<a>>, frames)
      BY <1>1, <2>1, <2>3 DEF RenderQPush
    <3>3. /\ renderQ' \in Seq(Drawable) /\ frames' \in Nat /\ AlwaysScanned'
          /\ canvas' \in Pictures /\ DrawAll(renderQ', canvas') = DrawAll(<<a>>, canvas)
      BY <3>2, ScanKeeps
    <3>4. DrawAll(<<a>>, canvas) = Draw(a, canvas)
      BY <2>1, <3>1, DrawLast, DrawNone
    <3>5. mixed \/ canvas = sentInOrder
      BY <2>3, DrawNone DEF QueuedInOrder
    <3> QED
      BY <2>2, <3>3, <3>4, <3>5 DEF QueuedInOrder
  <2>4. CASE renderQ # <<>>
    <3>1. renderQ' = Append(renderQ, a) /\ UNCHANGED <<canvas, frames>>
      BY <1>1, <2>4 DEF RenderQPush
    <3>2. renderQ' \in Seq(Drawable) /\ AlwaysScanned'
      BY <2>1, <2>4, <3>1, AppendProperties DEF AlwaysScanned
    <3>3. DrawAll(renderQ', canvas) = Draw(a, DrawAll(renderQ, canvas))
      BY <2>1, <3>1, DrawLast
    <3> QED
      BY <2>2, <3>1, <3>2, <3>3 DEF QueuedInOrder
  <2> QED
    BY <2>3, <2>4
<1>2. ASSUME NEW a \in Actions, DrawAtOnce(a) PROVE QueueInv'
  <2>1. a \in Drawable
    <3>1. a.type = "fill" /\ a \in Items
      BY <1>2, ActionsAreItems DEF DrawAtOnce
    <3> QED
      BY <3>1, FillFits, <1>2 DEF Drawable, DrawAtOnce
  <2>2. /\ sentInOrder' = Draw(a, sentInOrder) /\ canvas' = Draw(a, canvas)
        /\ mixed' = (mixed \/ renderQ # <<>>) /\ UNCHANGED <<renderQ, frames>>
    BY <1>2 DEF DrawAtOnce
  <2>3. sentInOrder' \in Pictures /\ canvas' \in Pictures
    BY <2>1, <2>2, DrawType
  <2>4. CASE mixed'
    BY <2>2, <2>3, <2>4 DEF QueuedInOrder, AlwaysScanned
  <2>5. CASE ~mixed'
    <3>1. renderQ = <<>> /\ renderQ' = <<>>
      BY <2>2, <2>5
    <3>2. canvas = sentInOrder
      BY <2>2, <2>5, <3>1, DrawNone DEF QueuedInOrder
    <3>3. DrawAll(renderQ', canvas') = canvas'
      BY <2>3, <3>1, DrawNone
    <3> QED
      BY <2>2, <2>3, <3>1, <3>2, <3>3 DEF QueuedInOrder, AlwaysScanned
  <2> QED
    BY <2>4, <2>5
<1>3. ASSUME NEW i \in DOMAIN renderQ, ImageComplete(i) PROVE QueueInv'
  <2>1. i \in 1..Len(renderQ) /\ renderQ[i] \in Drawable /\ renderQ # <<>>
    BY LenProperties, ElementOfSeq, EmptySeq
  <2> DEFINE done == [renderQ[i] EXCEPT !.complete = TRUE]
  <2>2. done \in Drawable /\ \A c \in Pictures : Draw(done, c) = Draw(renderQ[i], c)
    <3>1. renderQ[i] \in Items /\ Fits(renderQ[i])
      BY <2>1 DEF Drawable
    <3>2. done \in Items
      BY <3>1 DEF Items
    <3>3. /\ done.at = renderQ[i].at /\ done.by = renderQ[i].by
          /\ done.type = renderQ[i].type /\ done.colour = renderQ[i].colour
      BY <3>1 DEF Items
    <3> HIDE DEF done
    <3>4. Fits(done) /\ \A c \in Pictures : Draw(done, c) = Draw(renderQ[i], c)
      BY <3>1, <3>3 DEF Fits, Draw
    <3> QED
      BY <3>2, <3>4 DEF Drawable
  <2>3. renderQ' = [renderQ EXCEPT ![i] = done] /\ UNCHANGED <<canvas, frames, sentInOrder, mixed>>
    BY <1>3 DEF ImageComplete
  <2> HIDE DEF done
  <2>4. /\ renderQ' \in Seq(Drawable) /\ Len(renderQ') = Len(renderQ)
        /\ \A j \in 1..Len(renderQ) : renderQ'[j] = IF j = i THEN done ELSE renderQ[j]
    BY <2>1, <2>2, <2>3, ExceptSeq
  <2>5. DrawAll(renderQ', canvas) = DrawAll(renderQ, canvas)
    <3>1. \A j \in 1..Len(renderQ), c \in Pictures : Draw(renderQ'[j], c) = Draw(renderQ[j], c)
      BY <2>2, <2>4
    <3> QED
      BY <2>4, <3>1, DrawSame
  <2> QED
    BY <2>1, <2>3, <2>4, <2>5 DEF AlwaysScanned, QueuedInOrder
<1>4. CASE AnimFrame
  <2>1. frames - 1 \in Nat /\ Scan(renderQ, frames - 1) /\ UNCHANGED <<sentInOrder, mixed>>
    BY <1>4 DEF AnimFrame
  <2>2. /\ renderQ' \in Seq(Drawable) /\ frames' \in Nat /\ AlwaysScanned'
        /\ canvas' \in Pictures /\ DrawAll(renderQ', canvas') = DrawAll(renderQ, canvas)
    BY <2>1, ScanKeeps
  <2> QED
    BY <2>1, <2>2 DEF QueuedInOrder
<1>5. CASE ClearQueue
  <2>1. /\ canvas' = [c \in Cells |-> Blank] /\ sentInOrder' = canvas' /\ renderQ' = <<>>
        /\ mixed' = FALSE /\ UNCHANGED frames
    BY <1>5 DEF ClearQueue
  <2>2. canvas' \in Pictures /\ renderQ' \in Seq(Drawable)
    BY <2>1, EmptySeq DEF Pictures
  <2> QED
    BY <2>1, <2>2, DrawNone DEF AlwaysScanned, QueuedInOrder
<1>6. CASE UNCHANGED queueVars
  BY <1>6 DEF queueVars, AlwaysScanned, QueuedInOrder
<1> QED
  BY <1>1, <1>2, <1>3, <1>4, <1>5, <1>6 DEF QueueNext

LEMMA QueueStarts == QueueInit => QueueInv
<1> SUFFICES ASSUME QueueInit PROVE QueueInv
  OBVIOUS
<1>1. canvas \in Pictures /\ sentInOrder = canvas /\ renderQ = <<>> /\ frames = 0 /\ mixed = FALSE
  BY DEF QueueInit, Pictures
<1> QED
  BY <1>1, EmptySeq, DrawNone DEF QueueInv, QueueTypes, AlwaysScanned, QueuedInOrder

(* What waits in the queue has a frame coming, whatever is drawn, decoded   *)
(* and cleared, and in whatever order.                                      *)
THEOREM QueueIsScanned == QueueSpec => []AlwaysScanned
<1>1. QueueInv => AlwaysScanned
  BY DEF QueueInv
<1> QED
  BY <1>1, QueueStarts, QueueStep, PTL DEF QueueSpec

(* In whatever order the browser decodes the images, the canvas ends as if   *)
(* every action had been drawn when it came, for a framebuffer of any size   *)
(* and a queue of any length, unless an encoding that does not queue drew    *)
(* while others waited.                                                      *)
THEOREM QueueKeepsTheOrder == QueueSpec => []QueuedInOrder
<1>1. QueueInv => QueuedInOrder
  BY DEF QueueInv
<1> QED
  BY <1>1, QueueStarts, QueueStep, PTL DEF QueueSpec

-----------------------------------------------------------------------------
(* The viewport.                                                             *)
Boxes == [x : Int, y : Int, w : Int, h : Int]
CleanRects == [x1 : Int, y1 : Int, x2 : Int, y2 : Int]
Sizes == [w : Int, h : Int]
Within(c, v) == /\ v.x <= c.x1 /\ c.x2 <= v.x + v.w - 1
                /\ v.y <= c.y1 /\ c.y2 <= v.y + v.h - 1
CleanCells(c) == {Cell(i, j) : i \in c.x1..c.x2, j \in c.y1..c.y2}

(* The clean part lies in the viewport, and the server has drawn it.  Until  *)
(* it is next asked for, a viewport too narrow to be asked for piecemeal     *)
(* counts as dirty, whatever is in it.                                       *)
Clean(kept) ==
    AllDirty(cleanRect) \/ (Within(cleanRect, viewport) /\ CleanCells(cleanRect) \subseteq kept)
ViewInv ==
    /\ fb \in Sizes /\ viewport \in Boxes /\ cleanRect \in CleanRects
    /\ again \/ Clean(shown)

(* A change of the viewport keeps it so.                                     *)
LEMMA CleanAfterChange ==
  ASSUME viewport \in Boxes, cleanRect \in CleanRects,
         NEW dx \in Int, NEW dy \in Int, NEW w \in Int, NEW h \in Int, NEW full \in Sizes,
         NEW kept, ViewportChange(dx, dy, w, h, full, kept)
  PROVE  /\ viewport' \in Boxes /\ cleanRect' \in CleanRects
         /\ Clean(kept) => Clean(shown)'
<1> DEFINE v == viewport
           c == cleanRect
           nw == NewSize(w, full.w)
           nh == NewSize(h, full.h)
           mx == NewDelta(dx, v.x, nw, full.w)
           my == NewDelta(dy, v.y, nh, full.h)
           x2 == CleanAfterSize(v.x, v.w, nw, c.x2)
           y2 == CleanAfterSize(v.y, v.h, nh, c.y2)
           cr == [c EXCEPT !.x2 = x2, !.y2 = y2]
<1>1. /\ v.x \in Int /\ v.y \in Int /\ v.w \in Int /\ v.h \in Int
      /\ c.x1 \in Int /\ c.y1 \in Int /\ c.x2 \in Int /\ c.y2 \in Int
      /\ full.w \in Int /\ full.h \in Int
  BY DEF Boxes, CleanRects, Sizes
<1>2. nw \in Int /\ nh \in Int
  BY <1>1 DEF NewSize
<1> HIDE DEF nw, nh
<1>3. mx \in Int /\ my \in Int
  BY <1>1, <1>2 DEF NewDelta
<1>4. /\ x2 \in Int /\ x2 <= c.x2
      /\ y2 \in Int /\ y2 <= c.y2
  BY <1>1, <1>2 DEF CleanAfterSize
<1>5. /\ c.x2 <= v.x + v.w - 1 => x2 <= v.x + nw - 1
      /\ c.y2 <= v.y + v.h - 1 => y2 <= v.y + nh - 1
  BY <1>1, <1>2 DEF CleanAfterSize
<1> HIDE DEF mx, my, x2, y2
<1>6. /\ viewport' = Box(v.x + mx, v.y + my, nw, nh)
      /\ cleanRect' = IF mx = 0 /\ my = 0 THEN cr ELSE CleanAfterMove(cr, v.x + mx, v.y + my, nw, nh)
      /\ shown' = kept \cap InBox(Box(v.x, v.y, nw, nh)) \cap InBox(viewport')
  BY DEF ViewportChange, nw, nh, mx, my, x2, y2
<1>7. cr \in CleanRects /\ cr.x1 = c.x1 /\ cr.y1 = c.y1 /\ cr.x2 = x2 /\ cr.y2 = y2
  BY <1>1, <1>4 DEF CleanRects
<1> HIDE DEF cr
<1>8. /\ viewport' \in Boxes /\ viewport'.x = v.x + mx /\ viewport'.y = v.y + my
      /\ viewport'.w = nw /\ viewport'.h = nh
  BY <1>1, <1>2, <1>3, <1>6 DEF Box, Boxes
(* the clean part only shrinks, and ends within the new viewport             *)
<1>9. /\ cleanRect' \in CleanRects
      /\ c.x1 <= cleanRect'.x1 /\ cleanRect'.x2 <= x2
      /\ c.y1 <= cleanRect'.y1 /\ cleanRect'.y2 <= y2
      /\ Within(c, v) => Within(cleanRect', viewport')
  <2>1. CASE mx = 0 /\ my = 0
    BY <1>1, <1>2, <1>3, <1>4, <1>5, <1>6, <1>7, <1>8, <2>1 DEF CleanRects, Within
  <2>2. CASE ~(mx = 0 /\ my = 0)
    <3>1. cleanRect' = [x1 |-> Most(c.x1, v.x + mx), y1 |-> Most(c.y1, v.y + my),
                        x2 |-> Least(x2, v.x + mx + nw - 1), y2 |-> Least(y2, v.y + my + nh - 1)]
      BY <1>6, <1>7, <2>2 DEF CleanAfterMove
    <3> QED
      BY <1>1, <1>2, <1>3, <1>4, <1>8, <3>1 DEF CleanRects, Within, Most, Least
  <2> QED
    BY <2>1, <2>2
<1>10. ASSUME Clean(kept) PROVE Clean(shown)'
  <2>1. CASE AllDirty(c)
    BY <1>1, <1>4, <1>9, <2>1 DEF AllDirty, Clean, CleanRects
  <2>2. CASE ~AllDirty(c)
    <3>1. Within(c, v) /\ CleanCells(c) \subseteq kept
      BY <1>10, <2>2 DEF Clean
    <3>2. Within(cleanRect', viewport')
      BY <1>9, <3>1
    <3>3. ASSUME NEW i \in cleanRect'.x1..cleanRect'.x2, NEW j \in cleanRect'.y1..cleanRect'.y2
          PROVE  Cell(i, j) \in shown'
      <4>0. /\ cleanRect'.x1 \in Int /\ cleanRect'.x2 \in Int
            /\ cleanRect'.y1 \in Int /\ cleanRect'.y2 \in Int /\ i \in Int /\ j \in Int
        BY <1>9 DEF CleanRects
      <4>1. i \in c.x1..c.x2 /\ j \in c.y1..c.y2
        BY <1>1, <1>4, <1>9, <4>0
      <4>2. Cell(i, j) \in kept
        BY <3>1, <4>1 DEF CleanCells
      <4>3. i \in v.x..v.x + nw - 1 /\ j \in v.y..v.y + nh - 1
        BY <1>1, <1>2, <1>4, <1>5, <1>9, <3>1, <4>0 DEF Within
      <4>4. i \in viewport'.x..viewport'.x + viewport'.w - 1
            /\ j \in viewport'.y..viewport'.y + viewport'.h - 1
        BY <1>1, <1>2, <1>3, <1>8, <3>2, <4>0 DEF Within
      <4>5. Cell(i, j) \in InBox(Box(v.x, v.y, nw, nh)) /\ Cell(i, j) \in InBox(viewport')
        BY <4>3, <4>4 DEF InBox, Box
      <4> QED
        BY <1>6, <4>2, <4>5
    <3>4. CleanCells(cleanRect') \subseteq shown'
      BY <3>3 DEF CleanCells
    <3> QED
      BY <3>2, <3>4 DEF Clean
  <2> QED
    BY <2>1, <2>2
<1> QED
  BY <1>8, <1>9, <1>10

(* What the next requests ask for, with what the server has drawn.           *)
LEMMA AskedOrClean ==
  ASSUME ViewInv, ~again
  PROVE  InBox(viewport) \subseteq shown \cup InFull
<1> DEFINE v == viewport
           c == cleanRect
<1>1. /\ v.x \in Int /\ v.y \in Int /\ v.w \in Int /\ v.h \in Int
      /\ c.x1 \in Int /\ c.y1 \in Int /\ c.x2 \in Int /\ c.y2 \in Int
  BY DEF ViewInv, Boxes, CleanRects
<1>2. CASE AllDirty(c)
  BY <1>2 DEF InFull, DirtyBoxes
<1>3. CASE ~AllDirty(c)
  <2>1. Within(c, v) /\ CleanCells(c) \subseteq shown
    BY <1>3 DEF ViewInv, Clean
  <2> SUFFICES ASSUME NEW i \in v.x..v.x + v.w - 1, NEW j \in v.y..v.y + v.h - 1
               PROVE  Cell(i, j) \in shown \cup InFull
    BY DEF InBox
  <2> DEFINE left   == Box(v.x, v.y, c.x1 - v.x + 1, v.h)
             right  == Box(c.x2 + 1, v.y, (v.x + v.w - 1) - c.x2, v.h)
             top    == Box(c.x1, v.y, c.x2 - c.x1 + 1, c.y1 - v.y)
             bottom == Box(c.x1, c.y2 + 1, c.x2 - c.x1 + 1, (v.y + v.h - 1) - c.y2)
  <2>2. /\ v.x < c.x1 => InBox(left) \subseteq InFull
        /\ v.x + v.w - 1 > c.x2 => InBox(right) \subseteq InFull
        /\ v.y < c.y1 => InBox(top) \subseteq InFull
        /\ v.y + v.h - 1 > c.y2 => InBox(bottom) \subseteq InFull
    <3>1. DirtyBoxes(v, c) =
            (IF v.x < c.x1 THEN {left} ELSE {}) \cup (IF v.x + v.w - 1 > c.x2 THEN {right} ELSE {})
            \cup (IF v.y < c.y1 THEN {top} ELSE {})
            \cup (IF v.y + v.h - 1 > c.y2 THEN {bottom} ELSE {})
      BY <1>3 DEF DirtyBoxes
    <3> HIDE DEF left, right, top, bottom
    <3>2. \A b \in DirtyBoxes(v, c) : InBox(b) \subseteq InFull
      BY DEF InFull
    <3> QED
      BY <3>1, <3>2
  <2>3. \A x, y, w, h \in Int : \A k \in x..x + w - 1, l \in y..y + h - 1 :
          Cell(k, l) \in InBox(Box(x, y, w, h))
    BY DEF InBox, Box
  <2>4. CASE i < c.x1
    <3>1. i \in v.x..v.x + (c.x1 - v.x + 1) - 1 /\ v.x < c.x1
      BY <1>1, <2>4
    <3> QED
      BY <1>1, <2>2, <2>3, <3>1
  <2>5. CASE i > c.x2
    <3>1. i \in c.x2 + 1..c.x2 + 1 + ((v.x + v.w - 1) - c.x2) - 1 /\ v.x + v.w - 1 > c.x2
      BY <1>1, <2>5
    <3> QED
      BY <1>1, <2>2, <2>3, <3>1
  <2>6. CASE i \in c.x1..c.x2 /\ j < c.y1
    <3>1. /\ i \in c.x1..c.x1 + (c.x2 - c.x1 + 1) - 1
          /\ j \in v.y..v.y + (c.y1 - v.y) - 1 /\ v.y < c.y1
      BY <1>1, <2>6
    <3> QED
      BY <1>1, <2>2, <2>3, <3>1
  <2>7. CASE i \in c.x1..c.x2 /\ j > c.y2
    <3>1. /\ i \in c.x1..c.x1 + (c.x2 - c.x1 + 1) - 1
          /\ j \in c.y2 + 1..c.y2 + 1 + ((v.y + v.h - 1) - c.y2) - 1 /\ v.y + v.h - 1 > c.y2
      BY <1>1, <2>7
    <3> QED
      BY <1>1, <2>2, <2>3, <3>1
  <2>8. CASE i \in c.x1..c.x2 /\ j \in c.y1..c.y2
    BY <2>1, <2>8 DEF CleanCells
  <2> QED
    BY <1>1, <2>4, <2>5, <2>6, <2>7, <2>8
<1> QED
  BY <1>2, <1>3

LEMMA ViewInvInit == ViewInit => ViewInv
  BY DEF ViewInit, ViewInv, Boxes, Box, CleanRects, Sizes, Clean, AllDirty

LEMMA ViewInvStep == ViewInv /\ [ViewNext]_viewVars => ViewInv'
<1> SUFFICES ASSUME ViewInv, [ViewNext]_viewVars PROVE ViewInv'
  OBVIOUS
<1>0. viewport \in Boxes /\ cleanRect \in CleanRects /\ fb \in Sizes
  BY DEF ViewInv
<1>1. ASSUME NEW dx \in Int, NEW dy \in Int, NEW w \in Int, NEW h \in Int, NEW full \in Sizes,
             NEW kept, Change(dx, dy, w, h, full, kept)
      PROVE  /\ viewport' \in Boxes /\ cleanRect' \in CleanRects
             /\ Clean(kept) => Clean(shown)'
  <2>1. CASE clip
    BY <1>0, <1>1, <2>1, CleanAfterChange DEF Change
  <2>2. CASE ~clip
    <3>1. /\ 0 - viewport.w \in Int /\ 0 - viewport.h \in Int
          /\ full.w \in Int /\ full.h \in Int
      BY <1>0 DEF Boxes, Sizes
    <3>2. ViewportChange(0 - viewport.w, 0 - viewport.h, full.w, full.h, full, kept)
      BY <1>1, <2>2 DEF Change
    <3> QED
      BY <1>0, <3>1, <3>2, CleanAfterChange
  <2> QED
    BY <2>1, <2>2
<1>2. ASSUME NEW w \in 1..MaxWidth, NEW h \in 1..MaxHeight, Resize(w, h) PROVE ViewInv'
  <2>1. /\ fb' = [w |-> w, h |-> h] /\ UNCHANGED again
        /\ Change(0, 0, viewport.w, viewport.h, fb', shown)
    BY <1>2 DEF Resize
  <2>2. fb' \in Sizes /\ viewport.w \in Int /\ viewport.h \in Int
    BY <1>0, <2>1 DEF Sizes, Boxes
  <2> QED
    BY <1>1, <2>1, <2>2 DEF ViewInv
<1>3. ASSUME ClearView PROVE ViewInv'
  <2>1. /\ fb' = Logo /\ Change(0, 0, viewport.w, viewport.h, fb', {})
        /\ again' = (again \/ shown # {})
    BY <1>3 DEF ClearView
  <2>2. fb' \in Sizes /\ viewport.w \in Int /\ viewport.h \in Int
    BY <1>0, <2>1, LogoAssumption DEF Sizes, Boxes
  <2>3. /\ viewport' \in Boxes /\ cleanRect' \in CleanRects /\ (Clean({}) => Clean(shown)')
    BY <1>1, <2>1, <2>2
  <2>4. ~again' => Clean({})
    BY <2>1 DEF ViewInv
  <2> QED
    BY <2>2, <2>3, <2>4 DEF ViewInv
<1>4. ASSUME NEW dx \in -MaxMove..MaxMove, NEW dy \in -MaxMove..MaxMove,
             NEW w \in 1..MaxWidth, NEW h \in 1..MaxHeight, Scroll(dx, dy, w, h)
      PROVE  ViewInv'
  <2>1. Change(dx, dy, w, h, fb, shown) /\ UNCHANGED <<fb, again>>
    BY <1>4 DEF Scroll
  <2> QED
    BY <1>0, <1>1, <2>1 DEF ViewInv
<1>5. ASSUME FbUpdateRequests PROVE ViewInv'
  <2>1. /\ cleanRect' = [x1 |-> viewport.x, y1 |-> viewport.y,
                         x2 |-> viewport.x + viewport.w - 1, y2 |-> viewport.y + viewport.h - 1]
        /\ shown' = shown \cup (InFull \cap InBox(viewport))
        /\ UNCHANGED <<fb, viewport, again>>
    BY <1>5 DEF FbUpdateRequests
  <2>2. /\ viewport.x \in Int /\ viewport.y \in Int /\ viewport.w \in Int /\ viewport.h \in Int
    BY <1>0 DEF Boxes
  <2>3. cleanRect' \in CleanRects /\ Within(cleanRect', viewport')
    BY <2>1, <2>2 DEF CleanRects, Within
  <2>4. CleanCells(cleanRect') = InBox(viewport)
    BY <2>1 DEF CleanCells, InBox
  <2>5. ~again => Clean(shown)'
    BY <2>1, <2>3, <2>4, AskedOrClean DEF Clean
  <2> QED
    BY <1>0, <2>1, <2>3, <2>5 DEF ViewInv
<1>6. CASE UNCHANGED viewVars
  BY <1>6 DEF viewVars, ViewInv, Clean
<1> QED
  BY <1>2, <1>3, <1>4, <1>5, <1>6 DEF ViewNext

(* On a first connection, whatever is blank in the viewport is asked for in  *)
(* full by the next requests.                                                *)
THEOREM BlanksAreAskedFor == ViewSpec => []BlankIsAskedFor
<1>1. ViewInv => BlankIsAskedFor
  BY AskedOrClean DEF BlankIsAskedFor
<1> QED
  BY <1>1, ViewInvInit, ViewInvStep, PTL DEF ViewSpec
-----------------------------------------------------------------------------
(* The client of the page: what its state is made of.                       *)
States == {"loaded", "connect", "normal", "disconnect", "disconnected", "failed"} \cup Handshake
Words == {"repeater", "version", "type", "response", "clientinit", "setup", "request", "key", "pointer"}
Heards == [m : Words, n : Nat]
Codes == Values \cup {"none"}
Fbus == [rects : Nat, bytes : Nat, left : Nat, enc : Codes, n : Nat]
Places == {at \in [rects : Nat, enc : Codes, left : Nat, size : Nat] : at.left > 0 => at.rects > 0}
Excused == {"COPYRECT", "RRE", "SetColourMapEntries", "password"}
Servings == {"version", "repeater", "security", "challenge", "result", "init", "normal", "answered", "end"}

ClientTypes ==
    /\ rfb_state \in States /\ password \in BOOLEAN /\ form \in BOOLEAN
    /\ cur \in 0..MaxConnects /\ asking \subseteq 0..cur
    /\ socks \in [1..MaxConnects -> {"none", "connecting", "open", "closing", "closed"}]
    /\ fbu \in Fbus /\ todo \in Seq(Units) /\ WellSized(todo) /\ avail \in Int
    /\ sQ \in Seq(Heards) /\ mouse_arr \in Seq(Heards) /\ sent \in Seq(Heards)
    /\ partner \in Peers /\ srv \in Servings /\ events \in Nat
    /\ lost \in {"nothing"} \cup Excused /\ stale \in BOOLEAN /\ late \in BOOLEAN

(* The server's script: a point in it is a stage of the handshake or a      *)
(* place in a message.                                                      *)
Stages == {"version", "security", "challenge", "result", "init", "messages", "end"}
Points == [stage : Stages, at : Places]
Point(stage, at) == [stage |-> stage, at |-> at]
AfterTypes(p) == CASE p.auth = "vnc"  -> "challenge"
                   [] p.auth = "none" -> IF p.version = "3.8" THEN "result" ELSE "init"
                   [] OTHER -> "end"
Admits(pt, u) ==
    \/ pt.stage = "version"   /\ u.k = "version"
    \/ pt.stage = "security"  /\ u.k \in {"scheme", "types"}
    \/ pt.stage = "challenge" /\ u.k = "challenge"
    \/ pt.stage = "result"    /\ u.k = "result"
    \/ pt.stage = "init"      /\ u.k = "init"
    \/ pt.stage = "end"       /\ u.k = "reason"
    \/ pt.stage = "messages"  /\ Suits(pt.at, u)
NextStage(stage, u, p) ==
    CASE stage = "version"   -> IF u.v = "repeater" THEN "version" ELSE "security"
      [] stage = "security"  -> AfterTypes(p)
      [] stage = "challenge" -> "result"
      [] stage = "result"    -> IF u.v = "ok" THEN "init" ELSE "end"
      [] stage = "init"      -> "messages"
      [] OTHER               -> stage
Onward(pt, u, p) ==
    Point(NextStage(pt.stage, u, p),
          IF pt.stage = "messages" THEN After(pt.at, u) ELSE Between(0))
Leads(h, us, p) ==
    \A i \in 1..Len(us) : Admits(h[i-1], us[i]) /\ h[i] = Onward(h[i-1], us[i], p)
Runs(pt, us, end, p) ==
    \E h \in [0..Len(us) -> Points] : h[0] = pt /\ h[Len(us)] = end /\ Leads(h, us, p)
Parsed(at, us, p) == Runs(Point("messages", at), us, Point("messages", Between(0)), p)
Comes(stage) ==
    CASE stage \in {"version", "repeater"} -> "version"
      [] stage \in {"normal", "answered"}  -> "messages"
      [] OTHER -> stage

(* How the client's place in an update agrees with the server's.            *)
Matches(f, at, us) ==
    /\ f.rects = at.rects
    /\ at.left = 0 => f.bytes = 0 /\ f.left = 0
    /\ at.left > 0 =>
         /\ f.enc = at.enc
         /\ \/ at.enc = "COPYRECT" /\ at.left = 1 /\ at.size = 4 /\ f.bytes = 0 /\ f.left = 0
            \/ at.enc = "RRE" /\ at.size = 4 + Bpp /\ at.left = f.n + 1 /\ f.bytes = 0 /\ f.left = 0
            \/ /\ at.enc \in {"RAW", "HEXTILE"} \/ (at.enc = "RRE" /\ at.size = Bpp + 8)
               /\ f.bytes \in 1..BytesOf(us) /\ f.left = at.left
            \/ at.enc \in {"TIGHT", "Cursor"} /\ at.left = 1 /\ f.bytes \in 1..BytesOf(us) /\ f.left = 0

SaysWord(m, ms) == \E i \in 1..Len(ms) : ms[i].m = m
SaysSetup(ms) == SaysWord("setup", ms)
Stands(state, f, us, pt) ==
    /\ state \in {"connect", "ProtocolVersion"} => pt.stage = "version"
    /\ state = "Security" => pt.stage = "security"
    /\ state = "SecurityResult" => pt.stage = "result"
    /\ state = "ServerInitialisation" => pt.stage = "init"
    /\ state = "normal" => pt.stage = "messages" /\ Matches(f, pt.at, us)
    /\ pt.stage # "messages" => pt.at = Between(0) /\ f.rects = 0 /\ f.bytes = 0 /\ f.left = 0
At(pt) == /\ Stands(rfb_state, fbu, todo, pt)
          /\ pt.stage # "messages" => ~SaysSetup(sent \o sQ)

OnScript ==
    lost = "nothing" =>
      /\ avail <= BytesOf(todo)
      /\ \E pt \in Points : Runs(pt, todo, Point(Comes(srv), Between(0)), partner) /\ At(pt)
Asked ==
    /\ form => partner.auth = "vnc" /\ rfb_state \notin {"connect", "ProtocolVersion", "Security"}
    /\ "password" \in timers => form
    /\ "msg" \in timers => rfb_state \notin {"connect", "ProtocolVersion", "Security"}
    /\ rfb_state = "Authentication" => partner.auth \in {"vnc", "refused"}
    /\ rfb_state = "password" => partner.auth = "vnc"
    /\ srv = "answered" => SaysSetup(sent)
ClientInv == OnScript /\ Asked /\ NothingForgotten

-----------------------------------------------------------------------------
(* Units and their bytes.                                                   *)
Plain(us) == us \in Seq(Units) /\ WellSized(us)

LEMMA UnitIs ==
  ASSUME NEW us, Plain(us), NEW i \in 1..Len(us)
  PROVE  /\ us[i] \in Units /\ us[i].k \in Kinds /\ us[i].v \in Values /\ us[i].n \in Nat
         /\ us[i].stages \in Seq(Nat) /\ Len(us[i].stages) \in Nat \ {0}
         /\ Size(us[i]) \in Nat \ {0}
         /\ \A j \in 1..Len(us[i].stages) : us[i].stages[j] \in 1..Size(us[i])
         /\ us[i].v = "filter" => Len(us[i].stages) >= 2
<1>1. DOMAIN us = 1..Len(us)
  BY LenProperties DEF Plain
<1>2. /\ us[i] \in Units /\ us[i].stages # <<>>
      /\ \A j \in DOMAIN us[i].stages : us[i].stages[j] \in 1..Size(us[i])
      /\ us[i].v = "filter" => Len(us[i].stages) >= 2
  BY <1>1 DEF Plain, WellSized
<1>3. us[i].k \in Kinds /\ us[i].v \in Values /\ us[i].n \in Nat /\ us[i].stages \in Seq(Nat)
  BY <1>2 DEF Units
<1> DEFINE st == us[i].stages
<1>4. st \in Seq(Nat) /\ st # <<>>
  BY <1>2, <1>3
<1>5. Size(us[i]) = st[Len(st)]
  BY DEF Size, Last
<1> HIDE DEF st
<1>6. Len(st) \in Nat \ {0} /\ DOMAIN st = 1..Len(st)
  BY <1>4, EmptySeq, LenProperties
<1>7. st[Len(st)] \in Nat /\ st[Len(st)] \in 1..Size(us[i])
  BY <1>2, <1>4, <1>6, ElementOfSeq DEF st
<1>8. Size(us[i]) \in Nat \ {0}
  BY <1>5, <1>7
<1> QED
  BY <1>2, <1>3, <1>6, <1>8 DEF st

LEMMA PlainTail ==
  ASSUME NEW us, Plain(us), us # <<>>
  PROVE  /\ Plain(Tail(us)) /\ Len(us) \in Nat \ {0} /\ Len(Tail(us)) = Len(us) - 1
         /\ Head(us) = us[1]
         /\ \A i \in 1..Len(us) - 1 : Tail(us)[i] = us[i+1]
<1>1. /\ us \in Seq(Units) /\ Len(us) \in Nat \ {0} /\ Tail(us) \in Seq(Units) /\ Len(Tail(us)) = Len(us) - 1
      /\ \A i \in 1..Len(us) - 1 : Tail(us)[i] = us[i+1]
  BY HeadTailProperties, EmptySeq DEF Plain
<1>2. DOMAIN us = 1..Len(us) /\ DOMAIN Tail(us) = 1..Len(us) - 1
  BY <1>1, LenProperties
<1>3. \A i \in 1..Len(us) - 1 : i + 1 \in 1..Len(us)
  BY <1>1
<1>4. WellSized(Tail(us))
  <2> SUFFICES ASSUME NEW i \in DOMAIN Tail(us)
               PROVE  /\ Tail(us)[i] \in Units /\ Tail(us)[i].stages # <<>>
                      /\ \A j \in DOMAIN Tail(us)[i].stages : Tail(us)[i].stages[j] \in 1..Size(Tail(us)[i])
                      /\ Tail(us)[i].v = "filter" => Len(Tail(us)[i].stages) >= 2
    BY Zenon DEF WellSized
  <2>1. i \in 1..Len(us) - 1 /\ i + 1 \in DOMAIN us /\ Tail(us)[i] = us[i+1]
    BY <1>1, <1>2, <1>3
  <2> QED
    BY <2>1, Zenon DEF Plain, WellSized
<1>5. Head(us) = us[1]
  BY <1>1
<1> QED
  BY <1>1, <1>4, <1>5 DEF Plain

LEMMA PlainJoin ==
  ASSUME NEW us, Plain(us), NEW vs, Plain(vs)
  PROVE  /\ Plain(us \o vs) /\ Len(us) \in Nat /\ Len(vs) \in Nat /\ Len(us \o vs) = Len(us) + Len(vs)
         /\ \A i \in 1..Len(us) : (us \o vs)[i] = us[i]
         /\ \A i \in 1..Len(vs) : (us \o vs)[Len(us) + i] = vs[i]
<1> DEFINE kept == us \o vs
<1>1. /\ kept \in Seq(Units) /\ Len(kept) = Len(us) + Len(vs) /\ Len(us) \in Nat /\ Len(vs) \in Nat
      /\ \A i \in 1..Len(us) + Len(vs) : kept[i] = IF i <= Len(us) THEN us[i] ELSE vs[i - Len(us)]
  BY ConcatProperties, LenProperties DEF Plain
<1>2. DOMAIN us = 1..Len(us) /\ DOMAIN vs = 1..Len(vs) /\ DOMAIN kept = 1..Len(us) + Len(vs)
  BY <1>1, LenProperties DEF Plain
<1> HIDE DEF kept
<1>3. \A i \in 1..Len(us) : i \in 1..Len(us) + Len(vs) /\ i <= Len(us)
  BY <1>1
<1>4. \A i \in 1..Len(vs) : /\ Len(us) + i \in 1..Len(us) + Len(vs) /\ ~(Len(us) + i <= Len(us))
                            /\ Len(us) + i - Len(us) = i
  BY <1>1
<1>5. \A i \in 1..Len(us) + Len(vs) : i <= Len(us) => i \in 1..Len(us)
  BY <1>1
<1>6. \A i \in 1..Len(us) + Len(vs) : ~(i <= Len(us)) => i - Len(us) \in 1..Len(vs)
  BY <1>1
<1>7. WellSized(kept)
  <2> SUFFICES ASSUME NEW i \in DOMAIN kept
               PROVE  /\ kept[i] \in Units /\ kept[i].stages # <<>>
                      /\ \A j \in DOMAIN kept[i].stages : kept[i].stages[j] \in 1..Size(kept[i])
                      /\ kept[i].v = "filter" => Len(kept[i].stages) >= 2
    BY Zenon DEF WellSized
  <2>1. i \in 1..Len(us) + Len(vs)
    BY <1>2
  <2>2. CASE i <= Len(us)
    <3>1. i \in DOMAIN us /\ kept[i] = us[i]
      BY <1>1, <1>2, <1>5, <2>1, <2>2
    <3> QED
      BY <3>1, Zenon DEF Plain, WellSized
  <2>3. CASE ~(i <= Len(us))
    <3>1. i - Len(us) \in DOMAIN vs /\ kept[i] = vs[i - Len(us)]
      BY <1>1, <1>2, <1>6, <2>1, <2>3
    <3> QED
      BY <3>1, Zenon DEF Plain, WellSized
  <2> QED
    BY <2>2, <2>3
<1>8. Plain(kept)
  BY <1>1, <1>7 DEF Plain
<1> QED
  BY <1>1, <1>3, <1>4, <1>8 DEF kept

SizesOf(us) == [i \in DOMAIN us |-> Size(us[i])]
LEMMA SizesAre ==
  ASSUME NEW us, Plain(us)
  PROVE  /\ Len(us) \in Nat /\ SizesOf(us) \in [1..Len(us) -> Nat] /\ BytesOf(us) = SumOf(SizesOf(us))
         /\ \A i \in 1..Len(us) : SizesOf(us)[i] = Size(us[i])
<1>1. Len(us) \in Nat /\ DOMAIN us = 1..Len(us)
  BY LenProperties DEF Plain
<1>2. BytesOf(us) = SumOf(SizesOf(us))
  BY Zenon DEF BytesOf, SumOf, SizesOf
<1>3. \A i \in 1..Len(us) : Size(us[i]) \in Nat
  BY UnitIs
<1> QED
  BY <1>1, <1>2, <1>3 DEF SizesOf

LEMMA BytesNone == BytesOf(<<>>) = 0 /\ Plain(<<>>)
<1>1. Plain(<<>>)
  BY EmptySeq DEF Plain, WellSized
<1>2. Len(<<>>) = 0
  BY EmptySeq
<1>3. SizesOf(<<>>) \in [1..0 -> Nat] /\ BytesOf(<<>>) = SumOf(SizesOf(<<>>))
  BY <1>1, <1>2, SizesAre
<1> QED
  BY <1>1, <1>3, SumNone

LEMMA BytesNat ==
  ASSUME NEW us, Plain(us)
  PROVE  BytesOf(us) \in Nat
BY SizesAre, SumNat

LEMMA BytesTail ==
  ASSUME NEW us, Plain(us), us # <<>>
  PROVE  /\ Size(us[1]) \in Nat \ {0} /\ BytesOf(Tail(us)) \in Nat
         /\ BytesOf(us) = Size(us[1]) + BytesOf(Tail(us))
<1> DEFINE n == Len(us) - 1
<1>1. /\ n \in Nat /\ Len(us) = n + 1 /\ Plain(Tail(us)) /\ Len(Tail(us)) = n
      /\ \A i \in 1..n : Tail(us)[i] = us[i+1]
  BY PlainTail
<1> HIDE DEF n
<1>2. SizesOf(us) \in [1..n+1 -> Nat] /\ SizesOf(Tail(us)) \in [1..n -> Nat]
  BY <1>1, SizesAre
<1>3. \A i \in 1..n : SizesOf(Tail(us))[i] = SizesOf(us)[i+1]
  <2> SUFFICES ASSUME NEW i \in 1..n PROVE SizesOf(Tail(us))[i] = SizesOf(us)[i+1]
    OBVIOUS
  <2>1. i + 1 \in 1..Len(us) /\ i \in 1..Len(Tail(us))
    BY <1>1
  <2>2. SizesOf(us)[i+1] = Size(us[i+1])
    BY <2>1, SizesAre
  <2>3. SizesOf(Tail(us))[i] = Size(Tail(us)[i])
    BY <1>1, <2>1, SizesAre
  <2> QED
    BY <1>1, <2>2, <2>3
<1>4. SumOf(SizesOf(us)) = SizesOf(us)[1] + SumOf(SizesOf(Tail(us)))
  BY <1>1, <1>2, <1>3, SumFirst
<1>5. 1 \in 1..Len(us)
  BY <1>1
<1>6. SizesOf(us)[1] = Size(us[1]) /\ Size(us[1]) \in Nat \ {0}
  BY <1>5, SizesAre, UnitIs
<1> QED
  BY <1>1, <1>4, <1>6, SizesAre, BytesNat

LEMMA BytesSome ==
  ASSUME NEW us, Plain(us), us # <<>>
  PROVE  BytesOf(us) \in Nat \ {0} /\ Size(us[1]) \in 1..BytesOf(us)
BY BytesTail

LEMMA BytesLast ==
  ASSUME NEW us, Plain(us), NEW vs, Plain(vs), Len(vs) = Len(us) + 1, \A i \in 1..Len(us) : vs[i] = us[i]
  PROVE  BytesOf(vs) = BytesOf(us) + Size(vs[Len(us) + 1])
<1> DEFINE n == Len(us)
<1>1. n \in Nat /\ Len(vs) = n + 1
  BY LenProperties DEF Plain
<1>2. SizesOf(vs) \in [1..n+1 -> Nat] /\ SizesOf(us) \in [1..n -> Nat]
  BY <1>1, SizesAre
<1>3. \A i \in 1..n : SizesOf(us)[i] = SizesOf(vs)[i]
  <2> SUFFICES ASSUME NEW i \in 1..n PROVE SizesOf(us)[i] = SizesOf(vs)[i]
    OBVIOUS
  <2>1. i \in 1..Len(vs)
    BY <1>1
  <2> QED
    BY <2>1, SizesAre
<1> HIDE DEF n
<1>4. SumOf(SizesOf(vs)) = SumOf(SizesOf(us)) + SizesOf(vs)[n+1]
  BY <1>1, <1>2, <1>3, SumLast
<1>5. n + 1 \in 1..Len(vs)
  BY <1>1
<1> QED
  BY <1>4, <1>5, SizesAre DEF n

(* The beginning of a sequence of units, and what follows it.               *)
LEMMA PlainPart ==
  ASSUME NEW us, Plain(us), NEW m \in 1..Len(us) + 1, NEW n \in m-1..Len(us)
  PROVE  /\ Plain(SubSeq(us, m, n)) /\ Len(SubSeq(us, m, n)) = n - m + 1
         /\ \A i \in 1..n - m + 1 : SubSeq(us, m, n)[i] = us[m + i - 1]
<1>0. Len(us) \in Nat /\ DOMAIN us = 1..Len(us)
  BY LenProperties DEF Plain
<1>1. m \in Int /\ n \in Int /\ \A i \in m..n : i \in 1..Len(us)
  BY <1>0
<1>2. \A i \in m..n : us[i] \in Units
  BY <1>1, UnitIs
<1> DEFINE part == SubSeq(us, m, n)
<1>3. /\ part \in Seq(Units) /\ Len(part) = IF m <= n THEN n - m + 1 ELSE 0
      /\ \A i \in 1..n - m + 1 : part[i] = us[m + i - 1]
  BY <1>1, <1>2, SubSeqProperties
<1> HIDE DEF part
<1>4. Len(part) = n - m + 1 /\ n - m + 1 \in Nat
  BY <1>0, <1>1, <1>3
<1>5. DOMAIN part = 1..n - m + 1
  BY <1>3, <1>4, LenProperties
<1>6. \A i \in 1..n - m + 1 : m + i - 1 \in DOMAIN us
  BY <1>0, <1>1
<1>7. WellSized(part)
  <2> SUFFICES ASSUME NEW i \in DOMAIN part
               PROVE  /\ part[i] \in Units /\ part[i].stages # <<>>
                      /\ \A j \in DOMAIN part[i].stages : part[i].stages[j] \in 1..Size(part[i])
                      /\ part[i].v = "filter" => Len(part[i].stages) >= 2
    BY Zenon DEF WellSized
  <2>1. m + i - 1 \in DOMAIN us /\ part[i] = us[m + i - 1]
    BY <1>3, <1>5, <1>6
  <2> QED
    BY <2>1, Zenon DEF Plain, WellSized
<1>8. Plain(part)
  BY <1>3, <1>7 DEF Plain
<1> QED
  BY <1>3, <1>4, <1>8 DEF part

LEMMA BytesJoin ==
  ASSUME NEW us, Plain(us), NEW vs, Plain(vs)
  PROVE  BytesOf(us \o vs) = BytesOf(us) + BytesOf(vs)
<1> DEFINE n == Len(vs)
           part(k) == SubSeq(vs, 1, k)
           S == {k \in 0..n : BytesOf(us \o part(k)) = BytesOf(us) + BytesOf(part(k))}
<1>0. n \in Nat /\ Len(us) \in Nat
  BY LenProperties DEF Plain
<1>1. \A k \in 0..n : Plain(part(k)) /\ Len(part(k)) = k /\ \A i \in 1..k : part(k)[i] = vs[i]
  <2> SUFFICES ASSUME NEW k \in 0..n
               PROVE  Plain(part(k)) /\ Len(part(k)) = k /\ \A i \in 1..k : part(k)[i] = vs[i]
    OBVIOUS
  <2>1. 1 \in 1..Len(vs) + 1 /\ k \in 1-1..Len(vs) /\ k - 1 + 1 = k
    BY <1>0
  <2>2. \A i \in 1..k : 1 + i - 1 = i
    OBVIOUS
  <2> HIDE DEF n
  <2> QED
    BY <2>1, <2>2, PlainPart
<1> HIDE DEF part
<1>2. 0 \in S
  <2>1. part(0) = <<>>
    BY <1>0, SubSeqEmpty DEF part
  <2>2. us \o part(0) = us
    BY <2>1, ConcatEmptySeq DEF Plain
  <2>3. BytesOf(us) \in Nat /\ BytesOf(part(0)) = 0 /\ BytesOf(us \o part(0)) = BytesOf(us)
    BY <2>1, <2>2, BytesNat, BytesNone, Zenon
  <2>4. BytesOf(us \o part(0)) = BytesOf(us) + BytesOf(part(0)) /\ 0 \in 0..n
    BY <1>0, <2>3
  <2> QED
    BY <2>4, Zenon
<1>3. ASSUME NEW k \in 0..n-1, k \in S PROVE k + 1 \in S
  <2>1. k \in 0..n /\ k + 1 \in 0..n /\ k + 1 \in 1..k+1
    BY <1>0
  <2>0. \A p : Plain(p) => /\ Plain(us \o p) /\ Len(us \o p) = Len(us) + Len(p)
                            /\ (\A i \in 1..Len(us) : (us \o p)[i] = us[i])
                            /\ (\A i \in 1..Len(p) : (us \o p)[Len(us) + i] = p[i])
    BY PlainJoin
  <2> DEFINE a == us \o part(k)
             b == us \o part(k+1)
  <2>2. /\ Plain(a) /\ Plain(b) /\ Len(a) = Len(us) + k /\ Len(b) = Len(us) + k + 1
        /\ \A i \in 1..Len(us) : a[i] = us[i] /\ b[i] = us[i]
        /\ \A i \in 1..k : a[Len(us) + i] = vs[i]
        /\ \A i \in 1..k+1 : b[Len(us) + i] = vs[i]
    <3>1. Plain(part(k)) /\ Len(part(k)) = k /\ \A i \in 1..k : part(k)[i] = vs[i]
      BY <1>1, <2>1
    <3>2. Plain(part(k+1)) /\ Len(part(k+1)) = k+1 /\ \A i \in 1..k+1 : part(k+1)[i] = vs[i]
      BY <1>1, <2>1
    <3>3. Plain(a) /\ Len(a) = Len(us) + k /\ (\A i \in 1..Len(us) : a[i] = us[i])
          /\ \A i \in 1..k : a[Len(us) + i] = vs[i]
      <4>1. Plain(a) /\ Len(a) = Len(us) + Len(part(k)) /\ (\A i \in 1..Len(us) : a[i] = us[i])
            /\ \A i \in 1..Len(part(k)) : a[Len(us) + i] = part(k)[i]
        BY <2>0, <3>1, Zenon
      <4> HIDE DEF a
      <4> QED
        BY <3>1, <4>1
    <3>4. Plain(b) /\ Len(b) = Len(us) + (k + 1) /\ (\A i \in 1..Len(us) : b[i] = us[i])
          /\ \A i \in 1..k+1 : b[Len(us) + i] = vs[i]
      <4>1. Plain(b) /\ Len(b) = Len(us) + Len(part(k+1)) /\ (\A i \in 1..Len(us) : b[i] = us[i])
            /\ \A i \in 1..Len(part(k+1)) : b[Len(us) + i] = part(k+1)[i]
        BY <2>0, <3>2, Zenon
      <4> HIDE DEF b
      <4> QED
        BY <3>2, <4>1
    <3> HIDE DEF a, b
    <3> QED
      BY <1>0, <2>1, <3>3, <3>4
  <2> HIDE DEF a, b
  <2>3. \A i \in 1..Len(a) : b[i] = a[i]
    <3> SUFFICES ASSUME NEW i \in 1..Len(a) PROVE b[i] = a[i]
      OBVIOUS
    <3>1. CASE i \in 1..Len(us)
      BY <2>2, <3>1
    <3>2. CASE i \notin 1..Len(us)
      <4>1. i - Len(us) \in 1..k /\ i - Len(us) \in 1..k+1 /\ Len(us) + (i - Len(us)) = i
        BY <1>0, <2>2, <3>2
      <4> QED
        BY <2>2, <4>1
    <3> QED
      BY <3>1, <3>2
  <2>4. BytesOf(b) = BytesOf(a) + Size(vs[k+1])
    <3>1. b[Len(a) + 1] = vs[k+1]
      BY <1>0, <2>1, <2>2
    <3>2. Len(b) = Len(a) + 1
      BY <1>0, <2>2
    <3> QED
      BY <2>2, <2>3, <3>1, <3>2, BytesLast
  <2>5. BytesOf(part(k+1)) = BytesOf(part(k)) + Size(vs[k+1])
    <3>1. Plain(part(k)) /\ Len(part(k)) = k /\ \A i \in 1..k : part(k)[i] = vs[i]
      BY <1>1, <2>1
    <3>2. Plain(part(k+1)) /\ Len(part(k+1)) = k+1 /\ \A i \in 1..k+1 : part(k+1)[i] = vs[i]
      BY <1>1, <2>1
    <3>3. \A i \in 1..k : part(k+1)[i] = part(k)[i]
      BY <3>1, <3>2
    <3> QED
      BY <2>1, <3>1, <3>2, <3>3, BytesLast
  <2>6. BytesOf(us) \in Nat /\ BytesOf(part(k)) \in Nat /\ Size(vs[k+1]) \in Nat
    <3>1. k + 1 \in 1..Len(vs)
      BY <1>0
    <3> QED
      BY <1>1, <2>1, <3>1, BytesNat, UnitIs
  <2>7. BytesOf(a) = BytesOf(us) + BytesOf(part(k))
    BY <1>3 DEF a
  <2>8. BytesOf(b) = BytesOf(us) + BytesOf(part(k+1))
    BY <2>4, <2>5, <2>6, <2>7
  <2> QED
    BY <2>1, <2>8 DEF b
<1>4. n \in S
  <2> HIDE DEF S, n
  <2>1. \A k \in 0..n : k \in S
    BY <1>0, <1>2, <1>3, CountUp
  <2> QED
    BY <1>0, <2>1
<1>5. part(n) = vs
  BY SubSeqFull DEF part, Plain
<1> QED
  BY <1>4, <1>5

(* The bytes up to a unit and of it are not more than all.                  *)
LEMMA BytesUpTo ==
  ASSUME NEW us, Plain(us), NEW i \in 1..Len(us)
  PROVE  /\ BytesOf(SubSeq(us, 1, i - 1)) \in Nat
         /\ BytesOf(SubSeq(us, 1, i - 1)) + Size(us[i]) <= BytesOf(us)
<1>0. Len(us) \in Nat
  BY LenProperties DEF Plain
<1> DEFINE a == SubSeq(us, 1, i - 1)
           b == SubSeq(us, 1, i)
           c == SubSeq(us, i + 1, Len(us))
<1>1. Plain(a) /\ Len(a) = i - 1 /\ \A j \in 1..i-1 : a[j] = us[j]
  <2>1. 1 \in 1..Len(us) + 1 /\ i - 1 \in 1-1..Len(us) /\ (i - 1) - 1 + 1 = i - 1
    BY <1>0
  <2>2. \A j \in 1..i-1 : 1 + j - 1 = j
    BY <1>0
  <2> QED
    BY <2>1, <2>2, PlainPart
<1>2. Plain(b) /\ Len(b) = i /\ \A j \in 1..i : b[j] = us[j]
  <2>1. 1 \in 1..Len(us) + 1 /\ i \in 1-1..Len(us) /\ i - 1 + 1 = i
    BY <1>0
  <2>2. \A j \in 1..i : 1 + j - 1 = j
    BY <1>0
  <2> QED
    BY <2>1, <2>2, PlainPart
<1>3. Plain(c)
  <2>1. i + 1 \in 1..Len(us) + 1 /\ Len(us) \in i+1-1..Len(us)
    BY <1>0
  <2> QED
    BY <2>1, PlainPart
<1>4. us = b \o c
  <2>1. 1 \in 1..Len(us) + 1 /\ i \in 1-1..Len(us) /\ Len(us) \in i..Len(us)
    BY <1>0
  <2>2. SubSeq(us, 1, i) \o SubSeq(us, i+1, Len(us)) = SubSeq(us, 1, Len(us))
    BY <2>1, ConcatAdjacentSubSeq DEF Plain
  <2> QED
    BY <2>2, SubSeqFull DEF Plain
<1> HIDE DEF a, b, c
<1>5. BytesOf(us) = BytesOf(b) + BytesOf(c)
  BY <1>2, <1>3, <1>4, BytesJoin
<1>6. BytesOf(b) = BytesOf(a) + Size(us[i])
  <2>1. Len(b) = Len(a) + 1 /\ (\A j \in 1..Len(a) : b[j] = a[j]) /\ b[Len(a) + 1] = us[i]
    BY <1>0, <1>1, <1>2
  <2> QED
    BY <1>1, <1>2, <2>1, BytesLast
<1>7. BytesOf(a) \in Nat /\ BytesOf(b) \in Nat /\ BytesOf(c) \in Nat /\ Size(us[i]) \in Nat
  BY <1>1, <1>2, <1>3, BytesNat, UnitIs
<1> QED
  BY <1>5, <1>6, <1>7 DEF a
-----------------------------------------------------------------------------
(* Points of the script.                                                    *)
LEMMA PointIs ==
  ASSUME NEW stage, NEW at
  PROVE  /\ Point(stage, at).stage = stage /\ Point(stage, at).at = at
         /\ (Point(stage, at) \in Points <=> stage \in Stages /\ at \in Places)
BY DEF Point, Points

LEMMA PlaceIs ==
  ASSUME NEW rects, NEW enc, NEW left, NEW size
  PROVE  /\ Place(rects, enc, left, size).rects = rects /\ Place(rects, enc, left, size).enc = enc
         /\ Place(rects, enc, left, size).left = left /\ Place(rects, enc, left, size).size = size
BY DEF Place

LEMMA PlaceType ==
  ASSUME NEW rects \in Nat, NEW enc \in Codes, NEW left \in Nat, NEW size \in Nat, left = 0 \/ rects > 0
  PROVE  Place(rects, enc, left, size) \in Places
BY DEF Place, Places

LEMMA PlaceParts ==
  ASSUME NEW at \in Places
  PROVE  /\ at.rects \in Nat /\ at.enc \in Codes /\ at.left \in Nat /\ at.size \in Nat
         /\ at.left > 0 => at.rects > 0
         /\ at = Place(at.rects, at.enc, at.left, at.size)
BY DEF Place, Places

LEMMA BetweenIs ==
  ASSUME NEW r \in Nat
  PROVE  Between(r) \in Places /\ Between(r).rects = r /\ Between(r).left = 0
<1>1. "none" \in Codes
  BY DEF Codes
<1>3. Place(r, "none", 0, 0) \in Places
  BY <1>1, PlaceType
<1>4. Place(r, "none", 0, 0).rects = r /\ Place(r, "none", 0, 0).left = 0
  BY PlaceIs
<1> QED
  BY <1>3, <1>4, Zenon DEF Between

LEMMA RunsNone ==
  ASSUME NEW pt, NEW end, NEW p
  PROVE  /\ Runs(pt, <<>>, end, p) => pt = end
         /\ pt \in Points => Runs(pt, <<>>, pt, p)
<1>1. Len(<<>>) = 0
  BY EmptySeq
<1>2. Runs(pt, <<>>, end, p) => pt = end
  BY <1>1 DEF Runs
<1>3. ASSUME pt \in Points PROVE Runs(pt, <<>>, pt, p)
  <2> DEFINE h == [i \in 0..0 |-> pt]
  <2>1. h \in [0..0 -> Points] /\ h[0] = pt
    BY <1>3
  <2>2. Leads(h, <<>>, p)
    BY <1>1 DEF Leads
  <2> QED
    BY <1>1, <2>1, <2>2 DEF Runs
<1> QED
  BY <1>2, <1>3

LEMMA RunsTail ==
  ASSUME NEW us, Plain(us), us # <<>>, NEW pt, NEW end, NEW p, Runs(pt, us, end, p)
  PROVE  /\ pt \in Points /\ Admits(pt, us[1]) /\ Onward(pt, us[1], p) \in Points
         /\ Runs(Onward(pt, us[1], p), Tail(us), end, p)
<1> DEFINE n == Len(us) - 1
<1>1. /\ n \in Nat /\ Len(us) = n + 1 /\ Plain(Tail(us)) /\ Len(Tail(us)) = n
      /\ \A i \in 1..n : Tail(us)[i] = us[i+1]
  BY PlainTail
<1> HIDE DEF n
<1>2. PICK h \in [0..n+1 -> Points] : h[0] = pt /\ h[n+1] = end /\ Leads(h, us, p)
  BY <1>1 DEF Runs
<1> DEFINE k == [i \in 0..n |-> h[i+1]]
<1>3. 0 \in 0..n+1 /\ 1 \in 0..n+1 /\ 1 \in 1..n+1 /\ 0 \in 0..n /\ n \in 0..n /\ 1 - 1 = 0 /\ 0 + 1 = 1
  BY <1>1
<1>4. Admits(pt, us[1]) /\ h[1] = Onward(pt, us[1], p) /\ h[1] \in Points /\ pt \in Points
  BY <1>1, <1>2, <1>3 DEF Leads
<1>5. k \in [0..n -> Points] /\ k[0] = Onward(pt, us[1], p) /\ k[n] = end
  BY <1>1, <1>2, <1>3, <1>4
<1>6. Leads(k, Tail(us), p)
  <2> SUFFICES ASSUME NEW i \in 1..n
               PROVE  Admits(k[i-1], Tail(us)[i]) /\ k[i] = Onward(k[i-1], Tail(us)[i], p)
    BY <1>1 DEF Leads
  <2>1. /\ i + 1 \in 1..n+1 /\ i + 1 - 1 = i /\ i - 1 \in 0..n /\ i \in 0..n /\ i - 1 + 1 = i
    BY <1>1
  <2>2. Admits(h[i], us[i+1]) /\ h[i+1] = Onward(h[i], us[i+1], p)
    BY <1>1, <1>2, <2>1 DEF Leads
  <2>3. k[i-1] = h[i] /\ k[i] = h[i+1] /\ Tail(us)[i] = us[i+1]
    BY <1>1, <2>1
  <2> HIDE DEF k
  <2> QED
    BY <2>2, <2>3
<1> HIDE DEF k
<1> QED
  BY <1>1, <1>4, <1>5, <1>6 DEF Runs

LEMMA RunsOne ==
  ASSUME NEW u, NEW pt \in Points, NEW p, Admits(pt, u), Onward(pt, u, p) \in Points
  PROVE  Runs(pt, <<u>>, Onward(pt, u, p), p)
<1> DEFINE h == [i \in 0..1 |-> IF i = 0 THEN pt ELSE Onward(pt, u, p)]
<1>1. Len(<<u>>) = 1 /\ <<u>>[1] = u
  OBVIOUS
<1>2. h \in [0..1 -> Points] /\ h[0] = pt /\ h[1] = Onward(pt, u, p)
  OBVIOUS
<1> HIDE DEF h
<1>3. Leads(h, <<u>>, p)
  <2> SUFFICES ASSUME NEW i \in 1..1
               PROVE  Admits(h[i-1], <<u>>[i]) /\ h[i] = Onward(h[i-1], <<u>>[i], p)
    BY <1>1 DEF Leads
  <2>1. i = 1 /\ i - 1 = 0
    OBVIOUS
  <2> QED
    BY <1>1, <1>2, <2>1
<1> QED
  BY <1>1, <1>2, <1>3 DEF Runs

LEMMA RunsJoin ==
  ASSUME NEW us, Plain(us), NEW vs, Plain(vs), NEW pt, NEW mid, NEW end, NEW p,
         Runs(pt, us, mid, p), Runs(mid, vs, end, p)
  PROVE  Runs(pt, us \o vs, end, p)
<1> DEFINE m == Len(us)
           n == Len(vs)
           kept == us \o vs
<1>1. /\ m \in Nat /\ n \in Nat /\ Len(kept) = m + n
      /\ (\A i \in 1..m : kept[i] = us[i])
      /\ (\A i \in 1..n : kept[m + i] = vs[i])
  <2>1. Len(us) \in Nat /\ Len(vs) \in Nat
    BY LenProperties DEF Plain
  <2>2. /\ Len(kept) = Len(us) + Len(vs) /\ (\A i \in 1..Len(us) : kept[i] = us[i])
        /\ (\A i \in 1..Len(vs) : kept[Len(us) + i] = vs[i])
    <3> HIDE DEF kept
    <3>1. Len(us \o vs) = Len(us) + Len(vs) /\ (\A i \in 1..Len(us) : (us \o vs)[i] = us[i])
         /\ (\A i \in 1..Len(vs) : (us \o vs)[Len(us) + i] = vs[i])
      BY PlainJoin
    <3> QED
      BY <3>1, Zenon DEF kept
  <2> QED
    BY <2>1, <2>2
<1>2. PICK h \in [0..m -> Points] : h[0] = pt /\ h[m] = mid /\ Leads(h, us, p)
  BY Zenon DEF Runs
<1>3. PICK k \in [0..n -> Points] : k[0] = mid /\ k[n] = end /\ Leads(k, vs, p)
  BY Zenon DEF Runs
<1>4. (\A i \in 1..m : Admits(h[i-1], us[i]) /\ h[i] = Onward(h[i-1], us[i], p))
      /\ (\A i \in 1..n : Admits(k[i-1], vs[i]) /\ k[i] = Onward(k[i-1], vs[i], p))
  BY <1>2, <1>3, Zenon DEF Leads
<1> HIDE DEF m, n, kept
<1> DEFINE l == [i \in 0..m+n |-> IF i <= m THEN h[i] ELSE k[i-m]]
<1>5. l \in [0..m+n -> Points]
  BY <1>1, <1>2, <1>3
<1>6. (\A i \in 0..m : l[i] = h[i]) /\ (\A i \in 0..n : l[m+i] = k[i])
  BY <1>1, <1>2, <1>3
<1> HIDE DEF l
<1>7. l[0] = pt /\ l[m+n] = end
  BY <1>1, <1>2, <1>3, <1>6
<1>8. Leads(l, kept, p)
  <2> SUFFICES ASSUME NEW i \in 1..m+n
               PROVE  Admits(l[i-1], kept[i]) /\ l[i] = Onward(l[i-1], kept[i], p)
    BY <1>1 DEF Leads
  <2>1. CASE i <= m
    <3>1. i \in 1..m /\ i - 1 \in 0..m /\ i \in 0..m
      BY <1>1, <2>1
    <3>2. l[i-1] = h[i-1] /\ l[i] = h[i] /\ kept[i] = us[i]
      BY <1>1, <1>6, <3>1
    <3> QED
      BY <1>4, <3>1, <3>2
  <2>2. CASE ~(i <= m)
    <3>1. /\ i - m \in 1..n /\ (i - m) - 1 \in 0..n /\ i - m \in 0..n
          /\ m + ((i - m) - 1) = i - 1 /\ m + (i - m) = i
      BY <1>1, <2>2
    <3>2. l[i-1] = k[(i - m) - 1] /\ l[i] = k[i-m] /\ kept[i] = vs[i-m]
      BY <1>1, <1>6, <3>1
    <3> QED
      BY <1>4, <3>1, <3>2
  <2> QED
    BY <2>1, <2>2
<1> QED
  BY <1>1, <1>5, <1>7, <1>8 DEF Runs, kept

(* Messages.                                                                *)
LEMMA ParsedTail ==
  ASSUME NEW us, Plain(us), us # <<>>, NEW at, NEW p, Parsed(at, us, p)
  PROVE  /\ at \in Places /\ Suits(at, us[1]) /\ After(at, us[1]) \in Places
         /\ Parsed(After(at, us[1]), Tail(us), p)
<1> DEFINE pt == Point("messages", at)
           q == Point("messages", After(at, us[1]))
<1>1. pt.stage = "messages" /\ pt.at = at
  BY PointIs
<1>2. NextStage("messages", us[1], p) = "messages"
  BY DEF NextStage
<1>3. Onward(pt, us[1], p) = q
  BY <1>1, <1>2, Zenon DEF Onward
<1> HIDE DEF pt
<1>4. pt \in Points /\ Admits(pt, us[1]) /\ q \in Points /\ Runs(q, Tail(us), Point("messages", Between(0)), p)
  <2>1. Runs(pt, us, Point("messages", Between(0)), p)
    BY Zenon DEF Parsed, pt
  <2> QED
    BY <1>3, <2>1, RunsTail, Zenon
<1>5. Suits(at, us[1])
  BY <1>1, <1>4 DEF Admits
<1>6. at \in Places /\ After(at, us[1]) \in Places
  BY <1>4, PointIs DEF pt
<1> QED
  BY <1>4, <1>5, <1>6, Zenon DEF Parsed

LEMMA ParsedEnd ==
  ASSUME NEW at, NEW p, Parsed(at, <<>>, p)
  PROVE  at = Between(0)
<1>1. Point("messages", at) = Point("messages", Between(0))
  BY RunsNone, Zenon DEF Parsed
<1> QED
  BY <1>1, PointIs

LEMMA ParsedPlace ==
  ASSUME NEW us, Plain(us), NEW at, NEW p, Parsed(at, us, p)
  PROVE  at \in Places
<1>1. CASE us = <<>>
  BY <1>1, ParsedEnd, BetweenIs
<1>2. CASE us # <<>>
  BY <1>2, ParsedTail
<1> QED
  BY <1>1, <1>2

LEMMA AfterPlace ==
  ASSUME NEW at \in Places, NEW u \in Units, Suits(at, u), Size(u) \in Nat
  PROVE  After(at, u) \in Places
<1>1. /\ at.rects \in Nat /\ at.enc \in Codes /\ at.left \in Nat /\ at.size \in Nat
      /\ at.left > 0 => at.rects > 0
  BY PlaceParts
<1>2. u.n \in Nat /\ u.v \in Codes
  BY DEF Units, Codes
<1>3. CASE at.left > 1
  <2> DEFINE z == CASE at.enc = "RAW" -> Size(u) [] at.enc = "RRE" -> Bpp + 8 [] OTHER -> 0
  <2>1. After(at, u) = Place(at.rects, at.enc, at.left - 1, z)
    BY <1>3 DEF After
  <2>2. z \in Nat
    BY DEF Bpp
  <2> HIDE DEF z
  <2>3. at.left - 1 \in Nat /\ at.rects > 0
    BY <1>1, <1>3
  <2> QED
    BY <1>1, <2>1, <2>2, <2>3, PlaceType
<1>4. CASE at.left = 1
  <2>1. After(at, u) = Between(at.rects - 1) /\ at.rects - 1 \in Nat
    BY <1>1, <1>4 DEF After
  <2> QED
    BY <2>1, BetweenIs
<1>5. CASE at.left = 0 /\ at.rects > 0
  <2>1. After(at, u) = Inside(at, u) /\ at.rects - 1 \in Nat
    BY <1>1, <1>5 DEF After
  <2>2. CASE u.v = "last_rect"
    BY <2>1, <2>2, BetweenIs DEF Inside
  <2>3. CASE u.v = "DesktopSize"
    BY <2>1, <2>3, BetweenIs DEF Inside
  <2>4. CASE u.v = "COPYRECT"
    <3>1. After(at, u) = Place(at.rects, u.v, 1, 4)
      BY <2>1, <2>4 DEF Inside
    <3> QED
      BY <1>1, <1>2, <1>5, <3>1, PlaceType
  <2>5. CASE u.v = "RRE"
    <3>1. After(at, u) = Place(at.rects, u.v, u.n + 1, 4 + Bpp)
      BY <2>1, <2>5 DEF Inside
    <3>2. u.n + 1 \in Nat /\ 4 + Bpp \in Nat
      BY <1>2 DEF Bpp
    <3> QED
      BY <1>1, <1>2, <1>5, <3>1, <3>2, PlaceType
  <2>6. CASE u.v \notin {"last_rect", "DesktopSize", "COPYRECT", "RRE"}
    <3>1. After(at, u) = Place(at.rects, u.v, u.n, 0)
      BY <2>1, <2>6 DEF Inside
    <3> QED
      BY <1>1, <1>2, <1>5, <3>1, PlaceType
  <2> QED
    BY <2>2, <2>3, <2>4, <2>5, <2>6
<1>6. CASE at.left = 0 /\ at.rects = 0
  <2>1. After(at, u) = IF u.k = "FramebufferUpdate" THEN Between(u.n) ELSE at
    BY <1>6 DEF After
  <2> QED
    BY <1>2, <2>1, BetweenIs
<1> QED
  BY <1>1, <1>3, <1>4, <1>5, <1>6

LEMMA CompleteRuns ==
  ASSUME NEW us, Plain(us), Complete(us), NEW p
  PROVE  Parsed(Between(0), us, p)
<1> DEFINE n == Len(us)
           g == PlacesOf(us)
           S == {i \in 0..n : g[i] \in Places}
           h == [i \in 0..n |-> Point("messages", g[i])]
<1>0. n \in Nat
  BY LenProperties DEF Plain
<1>1. (\A i \in 1..n : Suits(g[i-1], us[i]) /\ g[i] = After(g[i-1], us[i])) /\ g[0] = Between(0) /\ g[n] = Between(0)
  BY Zenon DEF Complete, Follows
<1> HIDE DEF g, n
<1>2. 0 \in S
  BY <1>0, <1>1, BetweenIs
<1>3. ASSUME NEW i \in 0..n-1, i \in S PROVE i + 1 \in S
  <2>1. i + 1 \in 1..n /\ i + 1 \in 0..n /\ i + 1 - 1 = i
    BY <1>0
  <2>2. Suits(g[i], us[i+1]) /\ g[i+1] = After(g[i], us[i+1])
    BY <1>1, <2>1
  <2>3. us[i+1] \in Units /\ Size(us[i+1]) \in Nat
    BY <2>1, UnitIs DEF n
  <2> QED
    BY <1>3, <2>1, <2>2, <2>3, AfterPlace
<1>4. \A i \in 0..n : i \in S
  <2> HIDE DEF S
  <2> QED
    BY <1>0, <1>2, <1>3, CountUp
<1>5. \A i \in 0..n : h[i] = Point("messages", g[i]) /\ h[i] \in Points /\ h[i].stage = "messages" /\ h[i].at = g[i]
  <2> SUFFICES ASSUME NEW i \in 0..n
               PROVE  h[i] = Point("messages", g[i]) /\ h[i] \in Points /\ h[i].stage = "messages" /\ h[i].at = g[i]
    OBVIOUS
  <2>1. h[i] = Point("messages", g[i]) /\ g[i] \in Places /\ "messages" \in Stages
    BY <1>4 DEF Stages
  <2> QED
    BY <2>1, PointIs
<1>6. h \in [0..n -> Points]
  BY <1>5
<1> HIDE DEF h, S
<1>7. Leads(h, us, p)
  <2> SUFFICES ASSUME NEW i \in 1..n
               PROVE  Admits(h[i-1], us[i]) /\ h[i] = Onward(h[i-1], us[i], p)
    BY DEF Leads, n
  <2>1. i - 1 \in 0..n /\ i \in 0..n
    BY <1>0
  <2>2. h[i-1].stage = "messages" /\ h[i-1].at = g[i-1] /\ h[i] = Point("messages", After(g[i-1], us[i]))
    BY <1>1, <1>5, <2>1
  <2>3. Suits(h[i-1].at, us[i])
    BY <1>1, <2>2
  <2>4. NextStage("messages", us[i], p) = "messages"
    BY DEF NextStage
  <2> QED
    BY <2>2, <2>3, <2>4 DEF Admits, Onward
<1>8. h[0] = Point("messages", Between(0)) /\ h[n] = Point("messages", Between(0))
  BY <1>0, <1>1, <1>5
<1> QED
  BY <1>6, <1>7, <1>8 DEF Parsed, Runs, n
-----------------------------------------------------------------------------
(* Handlers.                                                                *)
Requests == [m : {"request"}, n : {0}]
HandlerStates ==
    {s \in [state : {"normal", "failed"}, todo : Seq(Units), avail : Int, fbu : Fbus,
            out : {"go", "wait", "done", "thrown"}, say : Seq(Requests),
            lost : {"nothing"} \cup Excused] : WellSized(s.todo)}

(* A handler at work, at a place in an update.                              *)
Reading(s, at, p) ==
    /\ s \in HandlerStates /\ s.out = "go" /\ s.state = "normal" /\ s.lost = "nothing"
    /\ s.avail <= BytesOf(s.todo) /\ Parsed(at, s.todo, p)
InRect(s, at) == s.fbu.rects > 0 /\ at.left > 0 /\ at.rects = s.fbu.rects /\ at.enc = s.fbu.enc

(* What holds of the client and the server when a handler returns.          *)
Waits(s) ==
    \/ s.avail < BytesOf(s.todo)
    \/ s.fbu.rects > 0 /\ s.fbu.bytes = 0 /\ s.todo # <<>> /\ Head(s.todo).k # "rect"
Sound(s, p) ==
    /\ s \in HandlerStates
    /\ s.out = "go" => s.state = "normal" /\ s.lost = "nothing"
    /\ s.lost = "nothing" =>
         /\ s.avail <= BytesOf(s.todo)
         /\ \E at \in Places : Parsed(at, s.todo, p) /\ (s.state = "normal" => Matches(s.fbu, at, s.todo))
    /\ s.lost # "nothing" => s.out = "done"
    /\ s.out = "wait" /\ s.state = "normal" => Waits(s)
    /\ s.out = "thrown" => s.todo # <<>> /\ Head(s.todo).v = "filter"
Advances(s, r) ==
    r.out = "go" => \/ r.fbu.rects < s.fbu.rects
                    \/ r.fbu.rects <= s.fbu.rects /\ r.avail < r.fbu.bytes

LEMMA StateIs ==
  ASSUME NEW s \in HandlerStates
  PROVE  /\ s.state \in {"normal", "failed"} /\ s.todo \in Seq(Units) /\ Plain(s.todo) /\ s.avail \in Int
         /\ s.fbu \in Fbus /\ s.out \in {"go", "wait", "done", "thrown"} /\ s.say \in Seq(Requests)
         /\ s.lost \in {"nothing"} \cup Excused
         /\ s.fbu.rects \in Nat /\ s.fbu.bytes \in Nat /\ s.fbu.left \in Nat /\ s.fbu.enc \in Codes /\ s.fbu.n \in Nat
BY DEF HandlerStates, Plain, Fbus

LEMMA TakeReads ==
  ASSUME NEW s, NEW at, NEW p, Reading(s, at, p), s.todo # <<>>
  PROVE  LET u == Head(s.todo)
             t == Take(s)
         IN  /\ u = s.todo[1] /\ u \in Units /\ Size(u) \in Nat \ {0} /\ Size(u) <= BytesOf(s.todo) /\ Suits(at, u)
             /\ Reading(t, After(at, u), p) /\ After(at, u) \in Places
             /\ t.fbu = s.fbu /\ t.say = s.say /\ t.avail = s.avail - Size(u) /\ t.todo = Tail(s.todo)
<1> DEFINE u == Head(s.todo)
           t == Take(s)
<1>1. s \in HandlerStates /\ Plain(s.todo) /\ s.avail \in Int
  BY StateIs DEF Reading
<1>2. u = s.todo[1] /\ Plain(Tail(s.todo)) /\ 1 \in 1..Len(s.todo)
  BY <1>1, PlainTail
<1>3. u \in Units /\ Size(u) \in Nat \ {0}
  BY <1>1, <1>2, UnitIs
<1>4. /\ BytesOf(Tail(s.todo)) \in Nat /\ BytesOf(s.todo) = Size(u) + BytesOf(Tail(s.todo))
  BY <1>1, <1>2, BytesTail
<1>5. Suits(at, u) /\ After(at, u) \in Places /\ Parsed(After(at, u), Tail(s.todo), p)
  BY <1>1, <1>2, ParsedTail DEF Reading
<1>6. t = [s EXCEPT !.todo = Tail(s.todo), !.avail = s.avail - Size(u)]
  BY <1>1 DEF Take, HandlerStates
<1>7. /\ t.todo = Tail(s.todo) /\ t.avail = s.avail - Size(u) /\ t.fbu = s.fbu /\ t.say = s.say
      /\ t.out = s.out /\ t.state = s.state /\ t.lost = s.lost /\ t \in HandlerStates
  <2>1. Tail(s.todo) \in Seq(Units) /\ WellSized(Tail(s.todo)) /\ s.avail - Size(u) \in Int
    BY <1>1, <1>2, <1>3 DEF Plain
  <2> HIDE DEF t, u
  <2> QED
    BY <1>1, <1>6, <2>1 DEF HandlerStates
<1>8. t.avail <= BytesOf(t.todo)
  <2> HIDE DEF t, u
  <2> QED
    BY <1>1, <1>3, <1>4, <1>7 DEF Reading
<1>9. Reading(t, After(at, u), p)
  <2> HIDE DEF t, u
  <2> QED
    BY <1>5, <1>7, <1>8 DEF Reading
<1> QED
  BY <1>2, <1>3, <1>4, <1>5, <1>7, <1>9

LEMMA FinishedSound ==
  ASSUME NEW s, NEW p, s.fbu.rects > 0, Reading(s, Between(s.fbu.rects - 1), p)
  PROVE  Sound(Finished(s), p) /\ Advances(s, Finished(s))
         /\ Finished(s).out = "go" /\ Finished(s).state = "normal" /\ Finished(s).lost = "nothing"
         /\ Finished(s).todo = s.todo /\ Finished(s).avail = s.avail /\ Finished(s).say = s.say
         /\ Finished(s).fbu.rects = s.fbu.rects - 1
<1> DEFINE t == Finished(s)
<1>1. s \in HandlerStates /\ s.fbu.rects \in Nat /\ s.fbu.rects - 1 \in Nat
  BY StateIs DEF Reading
<1>2. s.fbu \in Fbus
  BY <1>1, StateIs
<1>3. t = [s EXCEPT !.fbu = [s.fbu EXCEPT !.bytes = 0, !.left = 0, !.rects = s.fbu.rects - 1]]
  BY <1>1, <1>2 DEF Finished, HandlerStates, Fbus
<1>4. /\ t.todo = s.todo /\ t.avail = s.avail /\ t.say = s.say /\ t.out = s.out
      /\ t.state = s.state /\ t.lost = s.lost
      /\ t.fbu.bytes = 0 /\ t.fbu.left = 0 /\ t.fbu.rects = s.fbu.rects - 1
      /\ t \in HandlerStates
  <2>1. [s.fbu EXCEPT !.bytes = 0, !.left = 0, !.rects = s.fbu.rects - 1] \in Fbus
    BY <1>1, <1>2 DEF Fbus
  <2> HIDE DEF t
  <2> QED
    BY <1>1, <1>2, <1>3, <2>1 DEF HandlerStates, Fbus
<1> HIDE DEF t
<1>5. Matches(t.fbu, Between(s.fbu.rects - 1), t.todo)
  <2>1. Between(s.fbu.rects - 1).rects = s.fbu.rects - 1 /\ Between(s.fbu.rects - 1).left = 0
    BY <1>1, BetweenIs
  <2> QED
    BY <1>4, <2>1 DEF Matches
<1>6. t.avail <= BytesOf(t.todo) /\ Parsed(Between(s.fbu.rects - 1), t.todo, p) /\ Between(s.fbu.rects - 1) \in Places
  BY <1>1, <1>4, BetweenIs DEF Reading
<1>7. t.out = "go" /\ t.state = "normal" /\ t.lost = "nothing"
  BY <1>4 DEF Reading
<1>8. Sound(t, p)
  BY <1>4, <1>5, <1>6, <1>7 DEF Sound
<1>9. Advances(s, t)
  BY <1>1, <1>4 DEF Advances
<1> QED
  BY <1>4, <1>7, <1>8, <1>9 DEF t

(* Waiting in a rectangle.                                                  *)
LEMMA AwaitSound ==
  ASSUME NEW s, NEW at, NEW p, Reading(s, at, p), InRect(s, at),
         NEW n \in 1..BytesOf(s.todo), NEW left \in Nat,
         NEW out \in {"wait", "thrown", "go"}, out = "wait" => s.avail < n,
         out = "go" => s.avail < n,
         out = "thrown" => s.todo # <<>> /\ Head(s.todo).v = "filter",
         \/ at.enc \in {"RAW", "HEXTILE"} /\ left = at.left
         \/ at.enc = "RRE" /\ at.size = Bpp + 8 /\ left = at.left
         \/ at.enc \in {"TIGHT", "Cursor"} /\ at.left = 1 /\ left = 0,
         NEW t, t = [s EXCEPT !.out = out, !.fbu = [s.fbu EXCEPT !.bytes = n, !.left = left]]
  PROVE  Sound(t, p) /\ Advances(s, t)
<1>1. s \in HandlerStates /\ s.fbu \in Fbus /\ Plain(s.todo) /\ s.avail \in Int /\ BytesOf(s.todo) \in Nat
      /\ s.fbu.rects \in Nat
  BY StateIs, BytesNat DEF Reading
<1>2. n \in Nat /\ n \in 1..BytesOf(s.todo)
  BY <1>1
<1>3. /\ t.todo = s.todo /\ t.avail = s.avail /\ t.out = out
      /\ t.state = s.state /\ t.lost = s.lost
      /\ t.fbu.bytes = n /\ t.fbu.left = left /\ t.fbu.rects = s.fbu.rects /\ t.fbu.enc = s.fbu.enc
      /\ t \in HandlerStates
  <2>1. [s.fbu EXCEPT !.bytes = n, !.left = left] \in Fbus
    BY <1>1, <1>2 DEF Fbus
  <2> QED
    BY <1>1, <1>2, <2>1 DEF HandlerStates, Fbus
<1>4. Matches(t.fbu, at, t.todo)
  BY <1>2, <1>3 DEF Matches, InRect
<1>5. at \in Places
  BY <1>1, ParsedPlace DEF Reading
<1>6. t.avail <= BytesOf(t.todo) /\ Parsed(at, t.todo, p) /\ t.state = "normal" /\ t.lost = "nothing"
  BY <1>3 DEF Reading
<1>7. t.out = "wait" => Waits(t)
  BY <1>1, <1>2, <1>3 DEF Waits
<1>8. Sound(t, p)
  BY <1>3, <1>4, <1>5, <1>6, <1>7 DEF Sound
<1>9. Advances(s, t)
  BY <1>1, <1>3 DEF Advances
<1> QED
  BY <1>8, <1>9
LEMMA MoreToCome ==
  ASSUME NEW s, NEW at, NEW p, Reading(s, at, p), at.left > 0 \/ at.rects > 0
  PROVE  s.todo # <<>>
<1> SUFFICES ASSUME s.todo = <<>> PROVE FALSE
  OBVIOUS
<1>1. at = Between(0)
  BY ParsedEnd DEF Reading
<1>2. at.left = 0 /\ at.rects = 0
  BY <1>1, BetweenIs
<1> QED
  BY <1>2

LEMMA LastUnit ==
  ASSUME NEW at, NEW u, at.left = 1
  PROVE  After(at, u) = Between(at.rects - 1)
BY DEF After

LEMMA FailSound ==
  ASSUME NEW s, NEW at, NEW p, Reading(s, at, p)
  PROVE  Sound(Fail(s), p) /\ Advances(s, Fail(s)) /\ Fail(s).out = "wait" /\ Fail(s).state = "failed"
<1> DEFINE t == Fail(s)
<1>1. s \in HandlerStates /\ Plain(s.todo)
  BY StateIs DEF Reading
<1>2. /\ t.todo = s.todo /\ t.avail = s.avail /\ t.out = "wait" /\ t.state = "failed" /\ t.lost = s.lost
      /\ t \in HandlerStates
  BY <1>1 DEF Fail, HandlerStates
<1>3. at \in Places
  BY <1>1, ParsedPlace DEF Reading
<1> HIDE DEF t
<1> QED
  BY <1>2, <1>3 DEF Sound, Reading, Advances, t

LEMMA WaitSound ==
  ASSUME NEW s, NEW at, NEW p, Reading(s, at, p), Matches(s.fbu, at, s.todo), Waits(s)
  PROVE  Sound(Wait(s), p) /\ Advances(s, Wait(s)) /\ Wait(s).out = "wait"
<1> DEFINE t == Wait(s)
<1>1. s \in HandlerStates /\ Plain(s.todo)
  BY StateIs DEF Reading
<1>2. /\ t.todo = s.todo /\ t.avail = s.avail /\ t.out = "wait" /\ t.state = s.state /\ t.lost = s.lost
      /\ t.fbu = s.fbu /\ t \in HandlerStates
  BY <1>1 DEF Wait, HandlerStates
<1>3. at \in Places
  BY <1>1, ParsedPlace DEF Reading
<1> HIDE DEF t
<1>4. Waits(t)
  BY <1>2 DEF Waits
<1>5. Sound(t, p)
  BY <1>2, <1>3, <1>4 DEF Sound, Reading
<1> QED
  BY <1>2, <1>5 DEF Advances, t

LEMMA CopyRectSound ==
  ASSUME NEW s, NEW at, NEW p, Reading(s, at, p), InRect(s, at),
         at.enc = "COPYRECT", at.left = 1, at.size = 4, s.fbu.bytes = 0, s.fbu.left = 0
  PROVE  Sound(CopyRect(s), p) /\ Advances(s, CopyRect(s))
<1>1. s.todo # <<>>
  BY MoreToCome
<1>2. /\ s \in HandlerStates /\ s.fbu.rects \in Nat
  BY StateIs DEF Reading
<1>3. CASE Lacks(s, 4)
  <2>1. CopyRect(s) = Wait(s)
    BY <1>3 DEF CopyRect
  <2>2. Head(s.todo).k # "rect"
    <3>1. Suits(at, Head(s.todo))
      BY <1>1, TakeReads
    <3> QED
      BY <3>1 DEF Suits
  <2>3. Waits(s)
    BY <1>1, <2>2 DEF Waits, InRect
  <2>4. Matches(s.fbu, at, s.todo)
    BY DEF Matches, InRect
  <2> QED
    BY <2>1, <2>3, <2>4, WaitSound
<1>4. CASE ~Lacks(s, 4)
  <2>1. CopyRect(s) = Finished(Take(s))
    BY <1>4 DEF CopyRect
  <2>2. Reading(Take(s), After(at, Head(s.todo)), p) /\ Take(s).fbu = s.fbu
    BY <1>1, TakeReads
  <2>3. After(at, Head(s.todo)) = Between(s.fbu.rects - 1)
    BY LastUnit DEF InRect
  <2>4. Take(s).fbu.rects > 0 /\ Reading(Take(s), Between(Take(s).fbu.rects - 1), p)
    BY <2>2, <2>3 DEF InRect
  <2>5. Sound(Finished(Take(s)), p) /\ Advances(Take(s), Finished(Take(s)))
    BY <2>4, FinishedSound
  <2>6. Advances(s, Finished(Take(s)))
    BY <2>2, <2>5 DEF Advances
  <2> QED
    BY <2>1, <2>5, <2>6
<1> QED
  BY <1>3, <1>4

(* What is looked at until all of it is there.                              *)
LEMMA WholeSound ==
  ASSUME NEW s, NEW at, NEW p, Reading(s, at, p), InRect(s, at),
         \/ at.enc = "HEXTILE" /\ s.fbu.left = at.left
         \/ at.enc \in {"TIGHT", "Cursor"} /\ at.left = 1 /\ s.fbu.left = 0
  PROVE  \/ Whole(s) = Take(s)
         \/ Whole(s).out # "go" /\ Sound(Whole(s), p)
<1> DEFINE u == Head(s.todo)
           M == Missing(s)
<1>1. s.todo # <<>>
  BY MoreToCome DEF InRect
<1>2. /\ s \in HandlerStates /\ s.fbu \in Fbus /\ s.fbu.left \in Nat /\ s.avail \in Int /\ Plain(s.todo)
      /\ BytesOf(s.todo) \in Nat
  BY StateIs, BytesNat DEF Reading
<1>3. u = s.todo[1] /\ 1 \in 1..Len(s.todo) /\ Size(u) <= BytesOf(s.todo)
  BY <1>1, <1>2, PlainTail, TakeReads
<1>4. /\ u.stages \in Seq(Nat) /\ Len(u.stages) \in Nat \ {0} /\ Size(u) \in Nat \ {0}
      /\ \A j \in 1..Len(u.stages) : u.stages[j] \in 1..Size(u)
      /\ u.v = "filter" => Len(u.stages) >= 2
  BY <1>2, <1>3, UnitIs
<1>5. DOMAIN u.stages = 1..Len(u.stages)
  BY <1>4, LenProperties
<1>6. M \in SUBSET (1..Len(u.stages)) /\ \A j \in M : Lacks(s, u.stages[j])
  BY <1>5 DEF Missing
<1>7. \A j \in 1..Len(u.stages) : u.stages[j] \in 1..BytesOf(s.todo)
  BY <1>2, <1>3, <1>4
<1> HIDE DEF M, u
<1>8. ASSUME NEW n \in 1..BytesOf(s.todo), s.avail < n
      PROVE  Await(s, n).out = "wait" /\ Sound(Await(s, n), p)
  <2> DEFINE t == Await(s, n)
  <2>1. t = [s EXCEPT !.out = "wait", !.fbu = [s.fbu EXCEPT !.bytes = n, !.left = s.fbu.left]]
    BY <1>2 DEF Await, Wait, HandlerStates, Fbus
  <2>2. t.out = "wait"
    BY <1>2, <2>1 DEF HandlerStates
  <2> HIDE DEF t
  <2>3. Sound(t, p)
    BY <1>2, <1>8, <2>1, AwaitSound
  <2> QED
    BY <2>2, <2>3 DEF t
<1>9. CASE u.v = "illegal" /\ ~Lacks(s, u.stages[1])
  <2>1. Whole(s) = Fail(s)
    BY <1>9 DEF Whole, u
  <2> QED
    BY <2>1, FailSound
<1>10. CASE /\ ~(u.v = "illegal" /\ ~Lacks(s, u.stages[1]))
            /\ u.v = "filter" /\ ~Lacks(s, u.stages[2])
  <2> DEFINE n == u.stages[2]
             t == [Await(s, n) EXCEPT !.out = "thrown"]
  <2>1. Whole(s) = t
    BY <1>10 DEF Whole, u
  <2>2. 2 \in 1..Len(u.stages)
    BY <1>4, <1>10
  <2>3. n \in 1..BytesOf(s.todo)
    BY <1>7, <2>2
  <2> HIDE DEF n
  <2>4. t = [s EXCEPT !.out = "thrown", !.fbu = [s.fbu EXCEPT !.bytes = n, !.left = s.fbu.left]]
    BY <1>2 DEF Await, Wait, HandlerStates, Fbus
  <2>5. t.out = "thrown"
    BY <1>2, <2>4 DEF HandlerStates
  <2> HIDE DEF t
  <2>6. Head(s.todo).v = "filter"
    BY <1>10 DEF u
  <2>7. Sound(t, p)
    BY <1>1, <1>2, <2>3, <2>4, <2>6, AwaitSound
  <2> QED
    BY <2>1, <2>5, <2>7
<1>11. CASE /\ ~(u.v = "illegal" /\ ~Lacks(s, u.stages[1]))
            /\ ~(u.v = "filter" /\ ~Lacks(s, u.stages[2]))
            /\ M # {}
  <2> DEFINE n == u.stages[Min(M)]
  <2>1. Whole(s) = Await(s, n)
    BY <1>11 DEF Whole, u, M
  <2>2. PICK m \in M : \A j \in M : m <= j
    BY <1>4, <1>6, <1>11, LeastMember
  <2>3. Min(M) \in M
    <3>1. \E x \in M : \A y \in M : x <= y
      BY <2>2
    <3> QED
      BY <3>1, Zenon DEF Min
  <2>4. n \in 1..BytesOf(s.todo) /\ s.avail < n
    BY <1>6, <1>7, <2>3 DEF Lacks
  <2> HIDE DEF n
  <2> QED
    BY <1>8, <2>1, <2>4
<1>12. CASE /\ ~(u.v = "illegal" /\ ~Lacks(s, u.stages[1]))
            /\ ~(u.v = "filter" /\ ~Lacks(s, u.stages[2]))
            /\ M = {}
  BY <1>12 DEF Whole, u, M
<1> QED
  BY <1>9, <1>10, <1>11, <1>12

LEMMA TightSound ==
  ASSUME NEW s, NEW at, NEW p, Reading(s, at, p), InRect(s, at),
         at.enc \in {"TIGHT", "Cursor"}, at.left = 1, s.fbu.left = 0
  PROVE  Sound(Tight(s), p) /\ Advances(s, Tight(s))
<1>1. s.todo # <<>>
  BY MoreToCome
<1>2. Reading(Take(s), After(at, Head(s.todo)), p) /\ Take(s).fbu = s.fbu
  BY <1>1, TakeReads
<1>3. After(at, Head(s.todo)) = Between(s.fbu.rects - 1)
  BY LastUnit DEF InRect
<1>4. Take(s).fbu.rects > 0 /\ Reading(Take(s), Between(Take(s).fbu.rects - 1), p)
  BY <1>2, <1>3 DEF InRect
<1>5. CASE Whole(s) = Take(s)
  <2>1. Tight(s) = Finished(Take(s))
    BY <1>2, <1>5 DEF Tight, Reading
  <2>2. Sound(Finished(Take(s)), p) /\ Advances(Take(s), Finished(Take(s)))
    BY <1>4, FinishedSound
  <2>3. Advances(s, Finished(Take(s)))
    BY <1>2, <2>2 DEF Advances
  <2> QED
    BY <2>1, <2>2, <2>3
<1>6. CASE Whole(s).out # "go" /\ Sound(Whole(s), p)
  <2>1. Tight(s) = Whole(s)
    BY <1>6 DEF Tight
  <2> QED
    BY <1>6, <2>1 DEF Advances
<1> QED
  BY <1>5, <1>6, WholeSound
(* Lines of RAW and subrectangles of RRE are all of one size.               *)
Even(at, us, w) ==
    \/ at.size = w /\ at.enc = "RAW"
    \/ at.size = 0 /\ at.enc = "RAW" /\ us # <<>> /\ w = Size(us[1])
    \/ at.size = w /\ at.enc = "RRE" /\ w = Bpp + 8
Further(at, k, w) ==
    IF k = at.left THEN Between(at.rects - 1) ELSE Place(at.rects, at.enc, at.left - k, w)

LEMMA DropOne ==
  ASSUME NEW us, Plain(us), NEW at, NEW p, Parsed(at, us, p), at.left > 0,
         NEW w \in Nat \ {0}, Even(at, us, w)
  PROVE  /\ us # <<>> /\ Size(us[1]) = w /\ BytesOf(us) = w + BytesOf(Tail(us)) /\ Plain(Tail(us))
         /\ Parsed(Further(at, 1, w), Tail(us), p)
<1>1. us # <<>>
  <2> SUFFICES ASSUME us = <<>> PROVE FALSE
    OBVIOUS
  <2> QED
    BY ParsedEnd, BetweenIs
<1>2. at \in Places /\ Suits(at, us[1]) /\ Parsed(After(at, us[1]), Tail(us), p)
  BY <1>1, ParsedTail
<1>3. at.left \in Nat /\ at.rects \in Nat
  BY <1>2, PlaceParts
<1>4. Size(us[1]) = w
  BY <1>2 DEF Suits, Even
<1>5. BytesOf(us) = w + BytesOf(Tail(us)) /\ Plain(Tail(us))
  BY <1>1, <1>4, BytesTail, PlainTail
<1>6. After(at, us[1]) = Further(at, 1, w)
  <2>1. CASE at.left = 1
    BY <2>1, LastUnit DEF Further
  <2>2. CASE at.left # 1
    <3>1. at.left > 1
      BY <1>3, <2>2
    <3>2. Further(at, 1, w) = Place(at.rects, at.enc, at.left - 1, w)
      BY <2>2 DEF Further
    <3>3. After(at, us[1]) = Place(at.rects, at.enc, at.left - 1,
            CASE at.enc = "RAW" -> Size(us[1]) [] at.enc = "RRE" -> Bpp + 8 [] OTHER -> 0)
      BY <3>1 DEF After
    <3>4. (CASE at.enc = "RAW" -> Size(us[1]) [] at.enc = "RRE" -> Bpp + 8 [] OTHER -> 0) = w
      BY <1>4 DEF Even
    <3> QED
      BY <3>2, <3>3, <3>4
  <2> QED
    BY <2>1, <2>2
<1> QED
  BY <1>1, <1>2, <1>4, <1>5, <1>6

LEMMA DropSome ==
  ASSUME NEW us, Plain(us), NEW at, NEW p, Parsed(at, us, p), at.left > 0,
         NEW w \in Nat \ {0}, Even(at, us, w), NEW k \in 1..at.left
  PROVE  /\ Plain(SubSeq(us, k + 1, Len(us)))
         /\ BytesOf(us) = k * w + BytesOf(SubSeq(us, k + 1, Len(us)))
         /\ Parsed(Further(at, k, w), SubSeq(us, k + 1, Len(us)), p)
<1> DEFINE n == Len(us)
           after(j) == SubSeq(us, j + 1, n)
           Gone(j) == /\ j <= n /\ Plain(after(j))
                      /\ BytesOf(us) = j * w + BytesOf(after(j))
                      /\ Parsed(Further(at, j, w), after(j), p)
           S == {j \in 0..at.left - 1 : Gone(j + 1)}
<1>0. n \in Nat /\ us \in Seq(Units)
  BY LenProperties DEF Plain
<1>1. at \in Places
  BY ParsedPlace
<1>2. at.left \in Nat /\ at.left - 1 \in Nat /\ at.rects \in Nat /\ at.rects > 0
  BY <1>1, PlaceParts
<1>3. Gone(1)
  <2>1. /\ us # <<>> /\ BytesOf(us) = w + BytesOf(Tail(us)) /\ Plain(Tail(us))
        /\ Parsed(Further(at, 1, w), Tail(us), p)
    BY DropOne
  <2>2. Tail(us) = SubSeq(us, 2, n)
    BY <1>0, <2>1, TailIsSubSeq
  <2>3. n \in Nat \ {0}
    BY <1>0, <2>1, EmptySeq
  <2>4. 1 + 1 = 2 /\ 1 * w = w /\ 1 <= n
    BY <2>3
  <2> HIDE DEF n
  <2> QED
    BY <2>1, <2>2, <2>4
<1> HIDE DEF n
<1>4. ASSUME NEW j \in 1..at.left - 1, Gone(j) PROVE Gone(j + 1)
  <2> DEFINE r == after(j)
             here == Further(at, j, w)
  <2>1. here = Place(at.rects, at.enc, at.left - j, w)
    BY <1>2 DEF Further
  <2> HIDE DEF here
  <2>2. here.left = at.left - j /\ here.rects = at.rects /\ here.enc = at.enc /\ here.size = w
    BY <2>1, PlaceIs
  <2>3. here.left > 0 /\ j \in Nat
    BY <1>2, <2>2
  <2>4. Even(here, r, w)
    BY <2>2 DEF Even
  <2>5. Plain(r) /\ Parsed(here, r, p)
    BY <1>4 DEF here
  <2> HIDE DEF r
  <2>6. r # <<>> /\ BytesOf(r) = w + BytesOf(Tail(r)) /\ Plain(Tail(r)) /\ Parsed(Further(here, 1, w), Tail(r), p)
    BY <2>3, <2>4, <2>5, DropOne
  <2>7. j + 1 \in 1..n
    <3>1. CASE j + 1 <= n
      BY <1>0, <2>3, <3>1
    <3>2. CASE ~(j + 1 <= n)
      <4>1. n < j + 1 /\ j + 1 \in Int /\ n \in Int
        BY <1>0, <2>3, <3>2
      <4>2. r = <<>>
        BY <4>1, SubSeqEmpty DEF r
      <4> QED
        BY <2>6, <4>2
    <3> QED
      BY <3>1, <3>2
  <2>8. Tail(r) = after(j + 1)
    <3>1. n \in j+1..n
      BY <1>0, <2>7
    <3>2. j + 1 \in 1..Len(us) /\ n \in j+1..Len(us)
      BY <2>7, <3>1 DEF n
    <3>3. Tail(SubSeq(us, j + 1, n)) = SubSeq(us, j + 1 + 1, n)
      BY <1>0, <3>2, HeadTailOfSubSeq
    <3> QED
      BY <3>3 DEF r
  <2>9. Further(here, 1, w) = Further(at, j + 1, w)
    <3>1. CASE j + 1 = at.left
      <4>1. here.left = 1
        BY <1>2, <2>2, <2>3, <3>1
      <4> QED
        BY <2>2, <3>1, <4>1 DEF Further
    <3>2. CASE j + 1 # at.left
      <4>1. here.left # 1 /\ here.left - 1 = at.left - (j + 1)
        BY <1>2, <2>2, <2>3, <3>2
      <4> QED
        BY <2>2, <3>2, <4>1 DEF Further
    <3> QED
      BY <3>1, <3>2
  <2>10. (j + 1) * w = j * w + w /\ j * w \in Nat
    BY <2>3
  <2>11. BytesOf(us) = (j + 1) * w + BytesOf(Tail(r))
    <3>1. BytesOf(us) = j * w + BytesOf(r)
      BY <1>4 DEF r
    <3>2. BytesOf(Tail(r)) \in Nat
      BY <2>6, BytesNat
    <3> QED
      BY <2>6, <2>10, <3>1, <3>2
  <2>12. j + 1 <= n
    BY <2>7
  <2> QED
    BY <2>6, <2>8, <2>9, <2>11, <2>12
<1> HIDE DEF Gone
<1>5. 0 \in S
  <2>1. 0 \in 0..at.left - 1 /\ 0 + 1 = 1
    BY <1>2
  <2> QED
    BY <1>3, <2>1
<1>6. ASSUME NEW j \in 0..at.left - 1 - 1, j \in S PROVE j + 1 \in S
  <2>1. j + 1 \in 1..at.left - 1 /\ j + 1 \in 0..at.left - 1
    BY <1>2
  <2>2. Gone(j + 1)
    BY <1>6
  <2>3. Gone(j + 1 + 1)
    BY <1>4, <2>1, <2>2
  <2> QED
    BY <2>1, <2>3
<1>7. \A j \in 0..at.left - 1 : j \in S
  <2> HIDE DEF S
  <2> QED
    BY <1>2, <1>5, <1>6, CountUp
<1>8. k - 1 \in 0..at.left - 1 /\ k - 1 + 1 = k
  BY <1>2
<1>9. Gone(k)
  <2>1. k - 1 \in S
    BY <1>7, <1>8
  <2> QED
    BY <1>8, <2>1
<1> QED
  BY <1>9 DEF Gone, n
LEMMA MinTwo ==
  ASSUME NEW a \in Int, NEW b \in Int
  PROVE  Min({a, b}) \in {a, b} /\ Min({a, b}) <= a /\ Min({a, b}) <= b
<1>1. \E x \in {a, b} : \A y \in {a, b} : x <= y
  OBVIOUS
<1>2. Min({a, b}) = CHOOSE x \in {a, b} : \A y \in {a, b} : x <= y
  BY Zenon DEF Min
<1> DEFINE m == CHOOSE x \in {a, b} : \A y \in {a, b} : x <= y
<1>3. m \in {a, b} /\ \A y \in {a, b} : m <= y
  BY <1>1, Zenon
<1> HIDE DEF m
<1> QED
  BY <1>2, <1>3 DEF m

Dropped(s, us, n) == [s EXCEPT !.todo = us, !.avail = s.avail - n]
LEMMA DropNone ==
  ASSUME NEW s \in HandlerStates
  PROVE  Dropped(s, s.todo, 0) = s
<1>1. s.avail \in Int /\ s.avail - 0 = s.avail
  BY StateIs
<1>2. Dropped(s, s.todo, 0) = [s EXCEPT !.todo = s.todo, !.avail = s.avail]
  BY <1>1 DEF Dropped
<1> QED
  BY <1>2 DEF HandlerStates

LEMMA DropReads ==
  ASSUME NEW s, NEW at, NEW p, Reading(s, at, p), InRect(s, at),
         NEW w \in Nat \ {0}, NEW k \in 1..at.left, NEW after, NEW g \in Nat,
         Plain(after), BytesOf(s.todo) = g + BytesOf(after), Parsed(Further(at, k, w), after, p),
         at.enc = "RAW" \/ (at.enc = "RRE" /\ w = Bpp + 8),
         NEW t, t = Dropped(s, after, g)
  PROVE  /\ Reading(t, Further(at, k, w), p) /\ t.fbu = s.fbu /\ t.avail = s.avail - g
         /\ k = at.left => Further(at, k, w) = Between(t.fbu.rects - 1)
         /\ k # at.left => /\ InRect(t, Further(at, k, w)) /\ w \in 1..BytesOf(t.todo)
                           /\ Further(at, k, w).left = at.left - k /\ Further(at, k, w).size = w
                           /\ Further(at, k, w).enc = at.enc
<1> DEFINE there == Further(at, k, w)
<1>1. s \in HandlerStates /\ Plain(s.todo) /\ s.avail \in Int
  BY StateIs DEF Reading
<1>2. Parsed(there, after, p)
  OBVIOUS
<1>3. at \in Places
  BY <1>1, ParsedPlace DEF Reading
<1>4. at.left \in Nat /\ at.rects \in Nat
  BY <1>3, PlaceParts
<1>5. k \in Nat
  BY <1>4
<1> HIDE DEF there
<1>6. /\ t.todo = after /\ t.avail = s.avail - g /\ t.fbu = s.fbu
      /\ t.out = s.out /\ t.state = s.state /\ t.lost = s.lost /\ t \in HandlerStates
  <2>1. after \in Seq(Units) /\ WellSized(after) /\ s.avail - g \in Int
    BY <1>1 DEF Plain
  <2> QED
    BY <1>1, <2>1 DEF HandlerStates, Dropped
<1>7. BytesOf(after) \in Nat
  BY BytesNat
<1>8. Reading(t, there, p)
  BY <1>1, <1>2, <1>6, <1>7 DEF Reading
<1>9. k = at.left => there = Between(t.fbu.rects - 1)
  BY <1>6 DEF there, Further, InRect
<1>10. ASSUME k # at.left
       PROVE  /\ InRect(t, there) /\ w \in 1..BytesOf(t.todo)
              /\ there.left = at.left - k /\ there.size = w /\ there.enc = at.enc
  <2>1. there = Place(at.rects, at.enc, at.left - k, w)
    BY <1>10 DEF there, Further
  <2>2. there.left = at.left - k /\ there.size = w /\ there.enc = at.enc /\ there.rects = at.rects
    BY <2>1, PlaceIs
  <2>3. there.left > 0
    BY <1>4, <1>10, <2>2
  <2>4. InRect(t, there)
    BY <1>6, <2>2, <2>3 DEF InRect
  <2>5. Even(there, after, w)
    BY <2>2 DEF Even
  <2>6. BytesOf(after) = w + BytesOf(Tail(after)) /\ Plain(Tail(after))
    BY <1>2, <2>3, <2>5, DropOne
  <2>7. BytesOf(Tail(after)) \in Nat
    BY <2>6, BytesNat
  <2> QED
    BY <1>6, <2>2, <2>4, <2>6, <2>7
<1> QED
  BY <1>6, <1>8, <1>9, <1>10 DEF there

LEMMA RawSound ==
  ASSUME NEW s, NEW at, NEW p, Reading(s, at, p), InRect(s, at),
         at.enc = "RAW", at.left = IF s.fbu.left = 0 THEN s.fbu.n ELSE s.fbu.left
  PROVE  Sound(Raw(s), p) /\ Advances(s, Raw(s))
<1> DEFINE w     == Size(Head(s.todo))
           lines == IF s.fbu.left = 0 THEN s.fbu.n ELSE s.fbu.left
           q     == s.avail \div w
           k     == Min({lines, q})
           t     == [s EXCEPT !.todo = SubSeq(s.todo, k + 1, Len(s.todo)), !.avail = s.avail - k * w]
           R     == [t EXCEPT !.fbu.bytes = w, !.fbu.left = lines - k]
<1>1. s.todo # <<>>
  BY MoreToCome DEF InRect
<1>2. /\ s \in HandlerStates /\ s.fbu \in Fbus /\ s.avail \in Int /\ Plain(s.todo) /\ s.fbu.rects \in Nat
  BY StateIs DEF Reading
<1>3. at \in Places
  BY <1>2, ParsedPlace DEF Reading
<1>4. at.left \in Nat /\ at.left > 0 /\ lines = at.left
  BY <1>3, PlaceParts DEF InRect
<1>5. /\ w \in Nat \ {0} /\ w \in 1..BytesOf(s.todo) /\ Suits(at, Head(s.todo)) /\ w = Size(s.todo[1])
  <2>1. BytesOf(s.todo) \in Nat
    BY <1>2, BytesNat
  <2> QED
    BY <1>1, <2>1, TakeReads
<1>6. Even(at, s.todo, w)
  BY <1>1, <1>4, <1>5 DEF Even, Suits
<1>7. Raw(s) = IF Lacks(s, w) THEN [Await(s, w) EXCEPT !.fbu.left = lines]
               ELSE IF k = lines THEN Finished([s EXCEPT !.todo = SubSeq(@, k + 1, Len(@)), !.avail = @ - k * w])
               ELSE [[s EXCEPT !.todo = SubSeq(@, k + 1, Len(@)), !.avail = @ - k * w]
                       EXCEPT !.fbu.bytes = w, !.fbu.left = lines - k]
  BY Zenon DEF Raw
<1>8. [s EXCEPT !.todo = SubSeq(@, k + 1, Len(@)), !.avail = @ - k * w] = t
  BY Zenon
<1> HIDE DEF w, lines
<1>9. CASE Lacks(s, w)
  <2> DEFINE a == [s EXCEPT !.out = "wait", !.fbu = [s.fbu EXCEPT !.bytes = w, !.left = at.left]]
  <2>1. Raw(s) = a
    <3>1. [Await(s, w) EXCEPT !.fbu.left = lines] = a
      BY <1>2, <1>4 DEF Await, Wait, HandlerStates, Fbus
    <3> QED
      BY <1>7, <1>9, <3>1
  <2> HIDE DEF a
  <2>2. s.avail < w
    BY <1>9 DEF Lacks
  <2>3. Sound(a, p) /\ Advances(s, a)
    BY <1>4, <1>5, <2>2, AwaitSound DEF a
  <2> QED
    BY <2>1, <2>3
<1>10. CASE ~Lacks(s, w)
  <2>1. q \in Nat \ {0} /\ q * w <= s.avail /\ s.avail < (q + 1) * w
    <3>1. s.avail >= w
      BY <1>2, <1>5, <1>10 DEF Lacks
    <3> QED
      BY <1>2, <1>5, <3>1
  <2> HIDE DEF q
  <2>0. q \in Int /\ lines \in Int /\ q > 0
    BY <1>4, <2>1
  <2>2. k \in {lines, q} /\ k <= lines /\ k <= q
    BY <2>0, MinTwo
  <2>3. k \in 1..at.left
    BY <1>4, <2>0, <2>2
  <2> HIDE DEF k
  <2> DEFINE after == SubSeq(s.todo, k + 1, Len(s.todo))
             g == k * w
  <2>31. Plain(after) /\ BytesOf(s.todo) = g + BytesOf(after) /\ Parsed(Further(at, k, w), after, p) /\ g \in Nat
    <3>1. k * w \in Nat
      BY <1>4, <1>5, <2>3
    <3> QED
      BY <1>2, <1>4, <1>5, <1>6, <2>3, <3>1, DropSome, Zenon DEF Reading
  <2>32. t = Dropped(s, after, g)
    BY Zenon DEF Dropped
  <2> HIDE DEF t, after, g, R
  <2>33. at.enc = "RAW" \/ (at.enc = "RRE" /\ w = Bpp + 8)
    OBVIOUS
  <2>4. /\ Reading(t, Further(at, k, w), p) /\ t.fbu = s.fbu /\ t.avail = s.avail - g
        /\ k = at.left => Further(at, k, w) = Between(t.fbu.rects - 1)
        /\ k # at.left => /\ InRect(t, Further(at, k, w)) /\ w \in 1..BytesOf(t.todo)
                          /\ Further(at, k, w).left = at.left - k /\ Further(at, k, w).size = w
                          /\ Further(at, k, w).enc = at.enc
    BY <1>5, <2>3, <2>31, <2>32, <2>33, DropReads
  <2>5. CASE k = lines
    <3>1. Raw(s) = Finished(t)
      BY <1>7, <1>8, <1>10, <2>5
    <3>2. t.fbu.rects > 0
      BY <2>4 DEF InRect
    <3>3. Sound(Finished(t), p) /\ Advances(t, Finished(t))
      BY <1>4, <2>4, <2>5, <3>2, FinishedSound
    <3>4. Advances(s, Finished(t))
      BY <2>4, <3>3 DEF Advances
    <3> QED
      BY <3>1, <3>3, <3>4
  <2>6. CASE k # lines
    <3>1. Raw(s) = R
      BY <1>7, <1>8, <1>10, <2>6 DEF R
    <3>2. t \in HandlerStates /\ t.out = "go" /\ t.fbu \in Fbus
      BY <2>4, StateIs DEF Reading
    <3>3. R = [t EXCEPT !.out = "go", !.fbu = [t.fbu EXCEPT !.bytes = w, !.left = at.left - k]]
      BY <1>4, <3>2 DEF HandlerStates, Fbus, R
    <3>4. t.avail < w
      <4>1. k = q /\ (q + 1) * w = q * w + w /\ q * w \in Int
        BY <1>5, <2>1, <2>2, <2>6
      <4>2. g = q * w
        BY <4>1 DEF g
      <4> QED
        BY <1>2, <1>5, <2>1, <2>4, <4>1, <4>2
    <3>5. at.left - k \in Nat
      BY <1>4, <2>3
    <3> HIDE DEF R
    <3>6. Sound(R, p) /\ Advances(t, R)
      BY <1>4, <2>4, <2>6, <3>3, <3>4, <3>5, AwaitSound
    <3>7. Advances(s, R)
      BY <2>4, <3>6 DEF Advances
    <3> QED
      BY <3>1, <3>6, <3>7
  <2> QED
    BY <2>5, <2>6
<1> QED
  BY <1>9, <1>10
Refit(s, f) == [s EXCEPT !.fbu = f]
LEMMA RefittedReads ==
  ASSUME NEW s, NEW at, NEW p, Reading(s, at, p), NEW f \in Fbus,
         NEW t, t = Refit(s, f)
  PROVE  /\ Reading(t, at, p) /\ t.todo = s.todo /\ t.avail = s.avail /\ t.fbu = f
         /\ t \in HandlerStates /\ t.out = "go"
<1>1. s \in HandlerStates
  BY DEF Reading
<1>2. /\ t.todo = s.todo /\ t.avail = s.avail /\ t.fbu = f /\ t.out = s.out /\ t.state = s.state
      /\ t.lost = s.lost /\ t \in HandlerStates
  BY <1>1 DEF HandlerStates, Refit
<1> QED
  BY <1>2 DEF Reading

(* The subrectangles of RRE that are there.                                 *)
RreTaken(h, k) == [h EXCEPT !.todo = SubSeq(@, k + 1, Len(@)),
                            !.avail = @ - k * (Bpp + 8), !.fbu.left = @ - k]
RreAfter(t) ==
    IF t.fbu.left = 0 THEN Finished(t)
    ELSE [t EXCEPT !.fbu.bytes = (Bpp + 8) * Min({RreChunk, t.fbu.left})]
RreRest(h) == RreAfter(RreTaken(h, Min({h.fbu.left, h.avail \div (Bpp + 8)})))

RreReads(h, at) ==
    \/ h.fbu.left = 0 /\ h.fbu.rects > 0 /\ at = Between(h.fbu.rects - 1)
    \/ InRect(h, at) /\ at.enc = "RRE" /\ at.size = Bpp + 8 /\ at.left = h.fbu.left

LEMMA RreDrops ==
  ASSUME NEW h, NEW at, NEW p, Reading(h, at, p), RreReads(h, at),
         NEW k \in 0..h.fbu.left, NEW g, g = k * (Bpp + 8),
         NEW t, t = Dropped(h, SubSeq(h.todo, k + 1, Len(h.todo)), g)
  PROVE  \E there \in Places :
           /\ Reading(t, there, p) /\ t.fbu = h.fbu /\ t.avail = h.avail - g
           /\ k = h.fbu.left => h.fbu.rects > 0 /\ there = Between(h.fbu.rects - 1)
           /\ k # h.fbu.left => /\ InRect(t, there) /\ there.left = h.fbu.left - k
                                /\ there.size = Bpp + 8 /\ there.enc = "RRE"
<1>1. /\ h \in HandlerStates /\ h.fbu \in Fbus /\ h.avail \in Int /\ Plain(h.todo) /\ h.fbu.left \in Nat
      /\ h.fbu.rects \in Nat
  BY StateIs DEF Reading
<1>2. at \in Places
  BY <1>1, ParsedPlace DEF Reading
<1>3. at.left \in Nat
  BY <1>2, PlaceParts
<1>4. CASE k = 0
  <2>1. SubSeq(h.todo, k + 1, Len(h.todo)) = h.todo
    BY <1>1, <1>4, SubSeqFull DEF Plain
  <2>2. g = 0
    BY <1>4 DEF Bpp
  <2>3. Dropped(h, h.todo, 0) = h
    BY <1>1, DropNone
  <2>4. t = h
    BY <2>1, <2>2, <2>3
  <2>5. Reading(t, at, p)
    BY <2>4 DEF Reading
  <2>6. h.fbu.left = 0 => h.fbu.rects > 0 /\ at = Between(h.fbu.rects - 1)
    BY DEF RreReads, InRect
  <2>7. h.fbu.left # 0 => InRect(t, at) /\ at.left = h.fbu.left /\ at.size = Bpp + 8 /\ at.enc = "RRE"
    BY <2>4 DEF RreReads, InRect
  <2>8. t.avail = h.avail - g
    BY <1>1, <2>2, <2>4
  <2>9. /\ k = h.fbu.left => h.fbu.rects > 0 /\ at = Between(h.fbu.rects - 1)
        /\ k # h.fbu.left => /\ InRect(t, at) /\ at.left = h.fbu.left - k
                             /\ at.size = Bpp + 8 /\ at.enc = "RRE"
    BY <1>1, <1>4, <2>6, <2>7
  <2> QED
    BY <1>2, <2>4, <2>5, <2>8, <2>9, Zenon
<1>5. CASE k # 0
  <2> DEFINE rest1 == SubSeq(h.todo, k + 1, Len(h.todo))
             w == Bpp + 8
             there == Further(at, k, w)
  <2>1. InRect(h, at) /\ at.enc = "RRE" /\ at.size = w /\ at.left = h.fbu.left /\ at.left > 0
    BY <1>1, <1>5 DEF RreReads, InRect
  <2>2. w \in Nat \ {0} /\ k \in 1..at.left
    BY <1>1, <1>5, <2>1 DEF Bpp
  <2>3. Even(at, h.todo, w)
    BY <2>1 DEF Even
  <2>4. g = k * w /\ g \in Nat /\ w = Bpp + 8
    BY <1>3, <2>2 DEF Bpp
  <2> HIDE DEF w
  <2>5. Plain(rest1) /\ BytesOf(h.todo) = k * w + BytesOf(rest1) /\ Parsed(there, rest1, p)
    BY <1>1, <2>1, <2>2, <2>3, DropSome, Zenon DEF Reading
  <2>6. BytesOf(h.todo) = g + BytesOf(rest1) /\ t = Dropped(h, rest1, g)
    BY <2>4, <2>5
  <2> HIDE DEF rest1
  <2>7. /\ Reading(t, there, p) /\ t.fbu = h.fbu /\ t.avail = h.avail - g
        /\ k = at.left => there = Between(t.fbu.rects - 1)
        /\ k # at.left => /\ InRect(t, there) /\ w \in 1..BytesOf(t.todo)
                          /\ there.left = at.left - k /\ there.size = w /\ there.enc = at.enc
    BY <2>1, <2>2, <2>4, <2>5, <2>6, DropReads
  <2> HIDE DEF there
  <2>8. there \in Places
    <3>1. Plain(t.todo)
      BY <2>7, StateIs DEF Reading
    <3> QED
      BY <2>7, <3>1, ParsedPlace DEF Reading
  <2>9. h.fbu.rects > 0
    BY <2>1 DEF InRect
  <2> QED
    BY <2>1, <2>4, <2>7, <2>8, <2>9
<1> QED
  BY <1>4, <1>5

LEMMA RreRestSound ==
  ASSUME NEW h, NEW at, NEW p, Reading(h, at, p), RreReads(h, at), h.avail >= 0
  PROVE  Sound(RreRest(h), p) /\ Advances(h, RreRest(h))
<1> DEFINE w == Bpp + 8
           left == h.fbu.left
           q == h.avail \div w
           k == Min({left, q})
           g == k * w
           t0 == Dropped(h, SubSeq(h.todo, k + 1, Len(h.todo)), g)
           f == [t0.fbu EXCEPT !.left = left - k]
           t == [t0 EXCEPT !.fbu = f]
           b == w * Min({RreChunk, left - k})
<1>1. /\ h \in HandlerStates /\ h.fbu \in Fbus /\ h.avail \in Int /\ Plain(h.todo) /\ left \in Nat
      /\ h.fbu.rects \in Nat
  BY StateIs DEF Reading
<1>2. q \in Nat /\ q * w <= h.avail /\ h.avail < (q + 1) * w /\ w = 12
  BY <1>1 DEF Bpp
<1>3. RreRest(h) = RreAfter(RreTaken(h, k))
  BY Zenon DEF RreRest
<1> HIDE DEF k
<1>4. RreTaken(h, k) = t
  <2> DEFINE r == SubSeq(h.todo, k + 1, Len(h.todo))
             x == h.avail - k * (Bpp + 8)
  <2>1. RreTaken(h, k) = [h EXCEPT !.todo = r, !.avail = x, !.fbu.left = h.fbu.left - k]
    BY Zenon DEF RreTaken
  <2>2. t0 = [h EXCEPT !.todo = r, !.avail = x]
    BY Zenon DEF Dropped
  <2> HIDE DEF r, x, t0
  <2>3. t0.fbu = h.fbu
    BY <1>1, <2>2 DEF HandlerStates
  <2> QED
    BY <1>1, <2>1, <2>2, <2>3 DEF HandlerStates, Fbus
<1> HIDE DEF q, w, left
<1>5. k \in {left, q} /\ k <= left /\ k <= q
  <2>1. left \in Int /\ q \in Int
    BY <1>1, <1>2
  <2> QED
    BY <2>1, MinTwo DEF k, left, q, w
<1>6. k \in 0..left /\ left - k \in Nat
  BY <1>1, <1>2, <1>5
<1>7. PICK there \in Places :
           /\ Reading(t0, there, p) /\ t0.fbu = h.fbu /\ t0.avail = h.avail - g
           /\ k = left => h.fbu.rects > 0 /\ there = Between(h.fbu.rects - 1)
           /\ k # left => /\ InRect(t0, there) /\ there.left = left - k
                          /\ there.size = Bpp + 8 /\ there.enc = "RRE"
  <2>1. g = k * (Bpp + 8)
    BY DEF w
  <2> HIDE DEF g
  <2>2. k \in 0..h.fbu.left
    BY <1>6 DEF left
  <2> QED
    BY <2>1, <2>2, RreDrops DEF left
<1> HIDE DEF t0
<1>8. f \in Fbus /\ f.left = left - k /\ f.rects = h.fbu.rects /\ f.enc = h.fbu.enc
  BY <1>1, <1>6, <1>7 DEF Fbus
<1> HIDE DEF f
<1>81. t = Refit(t0, f)
  BY Zenon DEF Refit
<1> HIDE DEF t
<1>9. /\ Reading(t, there, p) /\ t.todo = t0.todo /\ t.avail = t0.avail /\ t.fbu = f
      /\ t \in HandlerStates /\ t.out = "go"
  BY <1>7, <1>8, <1>81, RefittedReads
<1>10. CASE k = left
  <2>1. t.fbu.left = 0
    BY <1>1, <1>8, <1>9, <1>10
  <2>2. RreRest(h) = Finished(t)
    BY <1>3, <1>4, <2>1 DEF RreAfter
  <2>3. t.fbu.rects > 0 /\ Reading(t, Between(t.fbu.rects - 1), p)
    BY <1>7, <1>8, <1>9, <1>10
  <2>4. Sound(Finished(t), p) /\ Advances(t, Finished(t))
    BY <2>3, FinishedSound
  <2>5. Advances(h, Finished(t))
    BY <1>8, <1>9, <2>4 DEF Advances
  <2> QED
    BY <2>2, <2>4, <2>5
<1>11. CASE k # left
  <2> DEFINE m == Min({RreChunk, left - k})
             r == [t EXCEPT !.out = "go", !.fbu = [t.fbu EXCEPT !.bytes = b, !.left = left - k]]
  <2>1. t.fbu.left = left - k /\ left - k \in Nat \ {0} /\ t.fbu \in Fbus
    BY <1>1, <1>6, <1>8, <1>9, <1>11
  <2>2. m \in {RreChunk, left - k} /\ m <= left - k
    <3>1. RreChunk \in Int /\ left - k \in Int
      BY <2>1 DEF RreChunk
    <3> QED
      BY <3>1, MinTwo
  <2>3. m \in 1..left - k
    BY <2>1, <2>2 DEF RreChunk
  <2>4. b = w * m /\ b \in Nat /\ b >= w
    BY <1>2, <2>1, <2>3
  <2>5. InRect(t, there) /\ there.left = left - k /\ there.size = Bpp + 8 /\ there.enc = "RRE"
    BY <1>7, <1>8, <1>9, <1>11 DEF InRect
  <2>6. RreRest(h) = [t EXCEPT !.fbu.bytes = b]
    BY <1>3, <1>4, <2>1 DEF w, RreAfter
  <2> HIDE DEF m, b
  <2>7. [t EXCEPT !.fbu.bytes = b] = r
    BY <1>9, <2>1 DEF HandlerStates, Fbus
  <2> HIDE DEF r
  <2>8. b \in 1..BytesOf(t.todo)
    <3> DEFINE us == SubSeq(t.todo, m + 1, Len(t.todo))
    <3>1. Plain(t.todo) /\ Parsed(there, t.todo, p) /\ there.left > 0 /\ m \in 1..there.left
      BY <1>9, <2>1, <2>3, <2>5, StateIs DEF Reading
    <3>2. Even(there, t.todo, w) /\ w \in Nat \ {0}
      BY <1>2, <2>5 DEF Even, w
    <3>3. Plain(us) /\ BytesOf(t.todo) = m * w + BytesOf(us)
      BY <3>1, <3>2, DropSome
    <3>4. BytesOf(us) \in Nat
      BY <3>3, BytesNat
    <3>5. m * w = b
      BY <1>2, <2>1, <2>3, <2>4
    <3>6. b >= 1
      BY <1>2, <2>4
    <3> QED
      BY <2>4, <3>3, <3>4, <3>5, <3>6
  <2>9. t.avail < b
    <3>1. k = q
      BY <1>5, <1>11
    <3>2. h.avail - q * w < w
      BY <1>1, <1>2
    <3>3. t.avail = h.avail - q * w
      BY <1>7, <1>9, <3>1
    <3> QED
      BY <1>1, <1>2, <2>4, <3>2, <3>3
  <2>10. Sound(r, p) /\ Advances(t, r)
    <3>1. there.left \in Nat /\ r = [t EXCEPT !.out = "go", !.fbu = [t.fbu EXCEPT !.bytes = b, !.left = there.left]]
      BY <2>1, <2>5 DEF r
    <3> QED
      BY <1>9, <2>5, <2>8, <2>9, <3>1, AwaitSound
  <2>11. Advances(h, r)
    BY <1>8, <1>9, <2>10 DEF Advances
  <2> QED
    BY <2>6, <2>7, <2>10, <2>11
<1> QED
  BY <1>10, <1>11

LEMMA RreSound ==
  ASSUME NEW s, NEW at, NEW p, Reading(s, at, p), InRect(s, at), at.enc = "RRE",
         \/ /\ at.size = 4 + Bpp /\ at.left = s.fbu.n + 1
            /\ s.fbu.bytes = 0 /\ s.fbu.left = 0
         \/ at.size = Bpp + 8 /\ at.left = s.fbu.left /\ s.avail >= 0
  PROVE  Sound(Rre(s), p) /\ Advances(s, Rre(s))
<1>1. s.todo # <<>>
  BY MoreToCome DEF InRect
<1>2. /\ s \in HandlerStates /\ s.fbu \in Fbus /\ s.avail \in Int /\ s.fbu.rects \in Nat /\ Plain(s.todo)
      /\ s.fbu.n \in Nat
  BY StateIs DEF Reading
<1>3. at.left > 0
  BY DEF InRect
<1>4. CASE s.fbu.left = 0 /\ Lacks(s, 4 + Bpp)
  <2>1. Rre(s) = Wait(s)
    BY <1>4 DEF Rre
  <2>0. at.size = 4 + Bpp /\ at.left = s.fbu.n + 1 /\ s.fbu.bytes = 0 /\ s.fbu.left = 0
    BY <1>3, <1>4
  <2>2. Head(s.todo).k # "rect"
    <3>1. Suits(at, Head(s.todo))
      BY <1>1, TakeReads
    <3> QED
      BY <1>3, <3>1 DEF Suits
  <2>3. Waits(s)
    BY <1>1, <2>0, <2>2 DEF Waits, InRect
  <2>4. Matches(s.fbu, at, s.todo)
    BY <2>0 DEF Matches, InRect
  <2> QED
    BY <2>1, <2>3, <2>4, WaitSound
<1>5. CASE ~(s.fbu.left = 0 /\ Lacks(s, 4 + Bpp))
  <2> DEFINE h == IF s.fbu.left # 0 THEN s ELSE [Take(s) EXCEPT !.fbu.left = s.fbu.n]
  <2>1. Rre(s) = RreRest(h)
    BY <1>5, Zenon DEF Rre, RreRest, RreTaken, RreAfter
  <2>2. CASE s.fbu.left # 0
    <3>1. h = s
      BY <2>2
    <3>2. RreReads(s, at) /\ s.avail >= 0
      BY <2>2 DEF RreReads
    <3> QED
      BY <2>1, <3>1, <3>2, RreRestSound
  <2>3. CASE s.fbu.left = 0
    <3> DEFINE u == Head(s.todo)
               f == [s.fbu EXCEPT !.left = s.fbu.n]
               t == Refit(Take(s), f)
               there == After(at, u)
    <3>0. at.size = 4 + Bpp /\ at.left = s.fbu.n + 1 /\ s.fbu.bytes = 0
      BY <1>3, <2>3
    <3>1. /\ Suits(at, u) /\ Reading(Take(s), there, p) /\ Take(s).fbu = s.fbu
          /\ Take(s).avail = s.avail - Size(u) /\ Size(u) \in Nat \ {0}
      BY <1>1, TakeReads
    <3>2. Size(u) = 4 + Bpp
      BY <1>3, <3>0, <3>1 DEF Suits, Bpp
    <3>3. Take(s).avail >= 0
      BY <1>2, <1>5, <2>3, <3>1, <3>2 DEF Lacks, Bpp
    <3>4. f \in Fbus /\ f.left = s.fbu.n /\ f.rects = s.fbu.rects /\ f.enc = s.fbu.enc
      BY <1>2 DEF Fbus
    <3>5. h = t
      <4>1. h = [Take(s) EXCEPT !.fbu.left = s.fbu.n]
        BY <2>3, Zenon
      <4> DEFINE v == Take(s)
      <4>2. v \in HandlerStates /\ v.fbu = s.fbu
        BY <3>1 DEF Reading
      <4> HIDE DEF v
      <4>3. [v EXCEPT !.fbu.left = s.fbu.n] = [v EXCEPT !.fbu = f]
        BY <4>2 DEF HandlerStates
      <4> QED
        BY <4>1, <4>3 DEF v, Refit
    <3>6. there = IF s.fbu.n = 0 THEN Between(s.fbu.rects - 1)
                  ELSE Place(s.fbu.rects, "RRE", s.fbu.n, Bpp + 8)
      <4>1. CASE s.fbu.n = 0
        BY <3>0, <4>1, LastUnit DEF InRect
      <4>2. CASE s.fbu.n # 0
        <5>1. at.left > 1 /\ at.left - 1 = s.fbu.n
          BY <1>2, <3>0, <4>2
        <5> QED
          BY <4>2, <5>1 DEF After, InRect
      <4> QED
        BY <4>1, <4>2
    <3> HIDE DEF there, f, u
    <3>7. Reading(t, there, p) /\ t.avail = Take(s).avail /\ t.fbu = f
      BY <3>1, <3>4, RefittedReads
    <3> HIDE DEF t
    <3>8. RreReads(t, there)
      <4>1. CASE s.fbu.n = 0
        BY <3>4, <3>6, <3>7, <4>1 DEF RreReads, InRect
      <4>2. CASE s.fbu.n # 0
        <5>1. there = Place(s.fbu.rects, "RRE", s.fbu.n, Bpp + 8)
          BY <3>6, <4>2
        <5>2. there.rects = s.fbu.rects /\ there.enc = "RRE" /\ there.left = s.fbu.n /\ there.size = Bpp + 8
          BY <5>1, PlaceIs
        <5> QED
          BY <1>2, <3>4, <3>7, <4>2, <5>2 DEF RreReads, InRect
      <4> QED
        BY <4>1, <4>2
    <3>9. Sound(RreRest(t), p) /\ Advances(t, RreRest(t))
      BY <3>3, <3>7, <3>8, RreRestSound
    <3>10. Advances(s, RreRest(t))
      BY <3>4, <3>7, <3>9 DEF Advances
    <3> QED
      BY <2>1, <3>5, <3>9, <3>10
  <2> QED
    BY <2>2, <2>3
<1> QED
  BY <1>4, <1>5
(* The tiles of HEXTILE, one after another.                                 *)
TileReads(t, at) ==
    /\ t.fbu.left = 0 => t.fbu.rects > 0 /\ at = Between(t.fbu.rects - 1)
    /\ t.fbu.left # 0 => InRect(t, at) /\ at.enc = "HEXTILE" /\ at.left = t.fbu.left
TileStates(p, r) ==
    {t \in HandlerStates :
        /\ t.out = "go" => t.fbu.rects = r /\ \E at \in Places : Reading(t, at, p) /\ TileReads(t, at)
        /\ t.out # "go" => Sound(t, p)}

LEMMA TileSound ==
  ASSUME NEW p, NEW r \in Nat, NEW t \in TileStates(p, r)
  PROVE  /\ Tile(t) \in TileStates(p, r)
         /\ t.out # "go" => Tile(t) = t
         /\ t.out = "go" /\ t.fbu.left > 0 /\ Tile(t).out = "go" => Tile(t).fbu.left = t.fbu.left - 1
<1>1. t \in HandlerStates
  BY DEF TileStates
<1>2. CASE t.out # "go" \/ t.fbu.left = 0
  <2>1. Tile(t) = t
    BY <1>2 DEF Tile
  <2> QED
    BY <1>2, <2>1
<1>3. CASE t.out = "go" /\ t.fbu.left # 0
  <2>1. t.fbu.rects = r /\ \E at \in Places : Reading(t, at, p) /\ TileReads(t, at)
    BY <1>3 DEF TileStates
  <2>2. PICK at \in Places : Reading(t, at, p) /\ TileReads(t, at)
    BY <2>1
  <2>3. InRect(t, at) /\ at.enc = "HEXTILE" /\ at.left = t.fbu.left
    BY <1>3, <2>2 DEF TileReads
  <2> DEFINE w == Whole(t)
             f == [w.fbu EXCEPT !.bytes = 0, !.left = w.fbu.left - 1]
             v == Refit(w, f)
  <2>4. Tile(t) = IF w.out # "go" THEN w ELSE [w EXCEPT !.fbu.bytes = 0, !.fbu.left = @ - 1]
    BY <1>3, Zenon DEF Tile
  <2>5. w = Take(t) \/ (w.out # "go" /\ Sound(w, p))
    BY <2>2, <2>3, WholeSound
  <2> HIDE DEF w
  <2>6. CASE w.out # "go" /\ Sound(w, p)
    <3>1. Tile(t) = w
      BY <2>4, <2>6
    <3>2. w \in HandlerStates
      BY <2>6 DEF Sound
    <3>3. w \in TileStates(p, r)
      BY <2>6, <3>2 DEF TileStates
    <3> QED
      BY <1>3, <2>6, <3>1, <3>3
  <2>7. CASE w = Take(t)
    <3> DEFINE there == After(at, Head(t.todo))
    <3>1. t.todo # <<>>
      BY <2>2, <2>3, MoreToCome DEF InRect
    <3>2. Reading(w, there, p) /\ there \in Places /\ w.fbu = t.fbu
      BY <2>2, <2>7, <3>1, TakeReads
    <3>3. there = IF at.left = 1 THEN Between(at.rects - 1) ELSE Place(at.rects, "HEXTILE", at.left - 1, 0)
      <4>1. at.left \in Nat /\ at.left > 0
        BY PlaceParts, <2>3 DEF InRect
      <4>2. CASE at.left = 1
        BY <4>2, LastUnit
      <4>3. CASE at.left > 1
        BY <2>3, <4>3 DEF After
      <4> QED
        BY <4>1, <4>2, <4>3
    <3> HIDE DEF there
    <3>4. /\ w \in HandlerStates /\ w.out = "go" /\ w.fbu \in Fbus /\ t.fbu.left \in Nat \ {0}
          /\ t.fbu.rects \in Nat /\ t.fbu.rects > 0
      BY <1>1, <1>3, <2>3, <3>2, StateIs DEF Reading, InRect
    <3>5. f \in Fbus /\ f.left = t.fbu.left - 1 /\ f.rects = t.fbu.rects /\ f.enc = t.fbu.enc
      <4>1. w.fbu.left - 1 = t.fbu.left - 1 /\ w.fbu.left - 1 \in Nat /\ w.fbu.rects = t.fbu.rects
            /\ w.fbu.enc = t.fbu.enc
        BY <3>2, <3>4
      <4> DEFINE l == w.fbu.left - 1
      <4> HIDE DEF l
      <4>2. f = [w.fbu EXCEPT !.bytes = 0, !.left = l] /\ l \in Nat /\ l = t.fbu.left - 1
        BY <4>1 DEF l
      <4> HIDE DEF f
      <4> QED
        BY <3>4, <4>1, <4>2 DEF Fbus
    <3>6. Tile(t) = v
      <4>1. Tile(t) = [w EXCEPT !.fbu.bytes = 0, !.fbu.left = @ - 1]
        BY <2>4, <3>4
      <4>2. [w EXCEPT !.fbu.bytes = 0, !.fbu.left = @ - 1] = [w EXCEPT !.fbu = f]
        BY <3>4 DEF HandlerStates, Fbus
      <4> QED
        BY <4>1, <4>2 DEF Refit
    <3> HIDE DEF f
    <3>7. Reading(v, there, p) /\ v.fbu = f /\ v \in HandlerStates /\ v.out = "go"
      BY <3>2, <3>5, RefittedReads
    <3> HIDE DEF v
    <3>8. TileReads(v, there)
      <4>1. CASE at.left = 1
        <5>1. v.fbu.left = 0 /\ v.fbu.rects > 0 /\ there = Between(v.fbu.rects - 1)
          BY <2>3, <3>3, <3>4, <3>5, <3>7, <4>1 DEF InRect
        <5> QED
          BY <5>1 DEF TileReads
      <4>2. CASE at.left # 1
        <5>1. there.rects = at.rects /\ there.enc = "HEXTILE" /\ there.left = at.left - 1
          BY <3>3, <4>2, PlaceIs
        <5>2. v.fbu.left # 0 /\ there.left = v.fbu.left /\ there.left > 0
          BY <2>3, <3>4, <3>5, <3>7, <4>2, <5>1
        <5>3. v.fbu.rects > 0 /\ there.rects = v.fbu.rects /\ there.enc = v.fbu.enc
          BY <2>3, <3>4, <3>5, <3>7, <5>1 DEF InRect
        <5> QED
          BY <5>1, <5>2, <5>3 DEF TileReads, InRect
      <4> QED
        BY <4>1, <4>2
    <3>9. v \in TileStates(p, r)
      <4>1. v.fbu.rects = r
        BY <2>1, <3>5, <3>7
      <4> QED
        BY <3>2, <3>7, <3>8, <4>1 DEF TileStates
    <3> QED
      BY <1>3, <3>5, <3>6, <3>7, <3>9
  <2> QED
    BY <2>5, <2>6, <2>7
<1> QED
  BY <1>2, <1>3

(* What a loop leaves is the end of its steps.                              *)
TileClosed(C) == \A t \in C : Tile(t) \in C
TileSteps(h, n, C, base) ==
    h \in [0..n -> C] /\ h[0] = base /\ \A i \in 1..n : h[i] = Tile(h[i-1])
LEMMA TileTrace ==
  ASSUME NEW n \in Nat, NEW C, TileClosed(C), NEW base \in C
  PROVE  \E h : TileSteps(h, n, C, base) /\ Times(Tile, base, n) = h[n]
<1> DEFINE f == [i \in 1..n |-> i]
           step == [x \in (1..n) \X C |-> Tile(x[2])]
           E(iter) == iter = [s \in SUBSET DOMAIN f |->
                                IF s = {} THEN base ELSE Tile(iter[s \ {Max(s)}])]
           iter == CHOOSE iter : E(iter)
<1>1. step \in Steps(n, C)
  BY DEF Steps, TileClosed
<1>2. \A i \in 1..n, c \in C : step[i, c] = Tile(c)
  OBVIOUS
<1> HIDE DEF step
<1>3. PICK h : IsTrace(h, n, C, base, step)
  BY <1>1, TraceExists
<1>4. h \in [0..n -> C] /\ h[0] = base /\ \A i \in 1..n : h[i] = step[i, h[i-1]]
  BY <1>3, Zenon DEF IsTrace
<1>5. ASSUME NEW i \in 1..n PROVE h[i] = Tile(h[i-1])
  <2>1. i - 1 \in 0..n
    OBVIOUS
  <2>2. h[i-1] \in C
    BY <1>4, <2>1
  <2> QED
    BY <1>2, <1>4, <2>2
<1>6. DOMAIN f = 1..n
  OBVIOUS
<1>7. Times(Tile, base, n) = iter[DOMAIN f]
  BY Zenon DEF Times, FoldLeft, MapThenFoldSet
<1>8. E(iter)
  <2>1. PICK it \in [SUBSET (1..n) -> C] : Iterates(it, n, base, step)
    BY <1>1, IterExists
  <2>2. ASSUME NEW s \in SUBSET (1..n)
        PROVE  it[s] = IF s = {} THEN base ELSE Tile(it[s \ {Max(s)}])
    <3>1. CASE s = {}
      BY <2>1, <3>1 DEF Iterates
    <3>2. CASE s # {}
      <4>1. it[s] = step[Max(s), it[s \ {Max(s)}]]
        BY <2>1, <3>2 DEF Iterates
      <4>2. Max(s) \in 1..n /\ it[s \ {Max(s)}] \in C
        BY <3>2, MaxIsLast
      <4> QED
        BY <1>2, <3>2, <4>1, <4>2
    <3> QED
      BY <3>1, <3>2
  <2>3. E(it)
    <3>1. it = [s \in SUBSET (1..n) |-> it[s]]
      OBVIOUS
    <3> QED
      BY <1>6, <2>2, <3>1
  <2> QED
    BY <2>3, Zenon
<1>9. \A s \in SUBSET (1..n) : iter[s] = IF s = {} THEN base ELSE Tile(iter[s \ {Max(s)}])
  <2> HIDE DEF iter
  <2> QED
    BY <1>6, <1>8
<1> HIDE DEF iter, E, f
<1>10. iter[First(0)] = h[0]
  <2>1. First(0) = {} /\ {} \in SUBSET (1..n)
    BY Firsts
  <2> QED
    BY <1>4, <1>9, <2>1
<1>11. ASSUME NEW i \in 1..n, iter[First(i - 1)] = h[i-1] PROVE iter[First(i)] = h[i]
  <2>1. /\ First(i) \in SUBSET (1..n) /\ First(i) # {}
        /\ Max(First(i)) = i /\ First(i) \ {i} = First(i - 1)
    BY Firsts
  <2>2. iter[First(i)] = Tile(iter[First(i - 1)])
    BY <1>9, <2>1
  <2> QED
    BY <1>5, <1>11, <2>2
<1>12. iter[1..n] = h[n]
  BY <1>10, <1>11, FoldEnds
<1>13. TileSteps(h, n, C, base)
  BY <1>4, <1>5 DEF TileSteps
<1> QED
  BY <1>6, <1>7, <1>12, <1>13

LEMMA HextileSound ==
  ASSUME NEW s, NEW at, NEW p, Reading(s, at, p), InRect(s, at),
         at.enc = "HEXTILE", at.left = IF s.fbu.left = 0 THEN s.fbu.n ELSE s.fbu.left
  PROVE  Sound(Hextile(s), p) /\ Advances(s, Hextile(s))
<1> DEFINE tiles == IF s.fbu.left = 0 THEN s.fbu.n ELSE s.fbu.left
           f == [s.fbu EXCEPT !.left = tiles]
           b == Refit(s, f)
           r == s.fbu.rects
           C == TileStates(p, r)
           e == Times(Tile, b, tiles)
<1>1. s \in HandlerStates /\ s.fbu \in Fbus /\ Plain(s.todo) /\ r \in Nat /\ tiles \in Nat /\ at.left = tiles
  BY StateIs DEF Reading
<1>2. at \in Places
  BY <1>1, ParsedPlace DEF Reading
<1>3. tiles > 0 /\ r > 0
  BY DEF InRect
<1>4. Hextile(s) = IF e.out = "go" THEN Finished(e) ELSE e
  <2>1. b = [s EXCEPT !.fbu.left = tiles]
    BY <1>1 DEF Refit, HandlerStates
  <2>2. Hextile(s) = IF Times(Tile, [s EXCEPT !.fbu.left = tiles], tiles).out = "go"
                     THEN Finished(Times(Tile, [s EXCEPT !.fbu.left = tiles], tiles))
                     ELSE Times(Tile, [s EXCEPT !.fbu.left = tiles], tiles)
    BY Zenon DEF Hextile
  <2> HIDE DEF b, tiles
  <2> QED
    BY <2>1, <2>2, Zenon
<1> HIDE DEF tiles
<1>5. f \in Fbus /\ f.left = tiles /\ f.rects = r /\ f.enc = s.fbu.enc
  BY <1>1 DEF Fbus
<1> HIDE DEF f
<1>6. Reading(b, at, p) /\ b.fbu = f /\ b \in HandlerStates /\ b.out = "go"
  BY <1>5, RefittedReads
<1> HIDE DEF b
<1>7. InRect(b, at)
  BY <1>5, <1>6 DEF InRect
<1>8. TileReads(b, at)
  BY <1>1, <1>3, <1>5, <1>6, <1>7 DEF TileReads
<1>9. b \in C
  BY <1>2, <1>5, <1>6, <1>8 DEF TileStates
<1>10. TileClosed(C)
  BY <1>1, TileSound DEF TileClosed
<1>11. \E h : TileSteps(h, tiles, C, b) /\ e = h[tiles]
  <2> HIDE DEF C, r
  <2> QED
    BY <1>1, <1>9, <1>10, TileTrace
<1> HIDE DEF e
<1>18. PICK h : TileSteps(h, tiles, C, b) /\ e = h[tiles]
  BY <1>11
<1>19. h \in [0..tiles -> C] /\ h[0] = b /\ h[tiles] = e /\ \A i \in 1..tiles : h[i] = Tile(h[i-1])
  BY <1>18, Zenon DEF TileSteps
<1> DEFINE S == {i \in 0..tiles : h[i].out = "go" => h[i].fbu.left = tiles - i}
<1>12. 0 \in S
  BY <1>1, <1>5, <1>6, <1>19
<1>13. ASSUME NEW i \in 0..tiles-1, i \in S PROVE i + 1 \in S
  <2>1. i + 1 \in 1..tiles /\ i + 1 \in 0..tiles /\ i \in 0..tiles /\ i + 1 - 1 = i
    BY <1>1
  <2>2. h[i] \in C /\ h[i+1] = Tile(h[i])
    BY <1>19, <2>1
  <2>3. /\ h[i].out # "go" => Tile(h[i]) = h[i]
        /\ h[i].out = "go" /\ h[i].fbu.left > 0 /\ Tile(h[i]).out = "go" => Tile(h[i]).fbu.left = h[i].fbu.left - 1
    BY <1>1, <2>2, TileSound
  <2>4. ASSUME h[i+1].out = "go" PROVE h[i+1].fbu.left = tiles - (i + 1)
    <3>1. h[i].out = "go"
      BY <2>2, <2>3, <2>4
    <3>2. h[i].fbu.left = tiles - i
      BY <1>13, <3>1
    <3>3. h[i].fbu.left > 0
      BY <1>1, <2>1, <3>2
    <3> QED
      BY <1>1, <2>1, <2>2, <2>3, <2>4, <3>1, <3>2, <3>3
  <2> QED
    BY <2>1, <2>4
<1>14. e.out = "go" => e.fbu.left = 0
  <2> HIDE DEF S
  <2>1. \A i \in 0..tiles : i \in S
    BY <1>1, <1>12, <1>13, CountUp
  <2>2. tiles \in S
    BY <1>1, <2>1
  <2> QED
    BY <1>1, <1>19, <2>2 DEF S
<1>15. e \in C
  BY <1>1, <1>19
<1>16. CASE e.out = "go"
  <2>1. PICK there \in Places : Reading(e, there, p) /\ TileReads(e, there)
    BY <1>15, <1>16 DEF TileStates
  <2>2. e.fbu.rects > 0 /\ there = Between(e.fbu.rects - 1) /\ e.fbu.rects = r
    BY <1>14, <1>15, <1>16, <2>1 DEF TileReads, TileStates
  <2>3. Sound(Finished(e), p) /\ Advances(e, Finished(e))
    BY <2>1, <2>2, FinishedSound
  <2>4. Advances(s, Finished(e))
    BY <2>2, <2>3 DEF Advances
  <2> QED
    BY <1>4, <1>16, <2>3, <2>4
<1>17. CASE e.out # "go"
  BY <1>4, <1>15, <1>17 DEF TileStates, Advances
<1> QED
  BY <1>16, <1>17

LEMMA SayKeeps ==
  ASSUME NEW s, NEW p, Sound(s, p), NEW t, t = Say(s, "request")
  PROVE  Sound(t, p) /\ t.out = s.out /\ t.fbu = s.fbu /\ t.avail = s.avail
<1>1. s \in HandlerStates /\ s.say \in Seq(Requests)
  BY StateIs DEF Sound
<1>2. Said("request") \in Requests
  BY DEF Said, Requests
<1> DEFINE ms == Append(s.say, Said("request"))
<1>3. ms \in Seq(Requests)
  BY <1>1, <1>2, AppendProperties
<1>4. t = [s EXCEPT !.say = ms]
  BY DEF Say
<1> HIDE DEF ms
<1>5. /\ t.todo = s.todo /\ t.avail = s.avail /\ t.fbu = s.fbu /\ t.out = s.out /\ t.state = s.state
      /\ t.lost = s.lost /\ t \in HandlerStates
  BY <1>1, <1>3, <1>4 DEF HandlerStates
<1>6. Waits(s) => Waits(t)
  BY <1>5 DEF Waits
<1> QED
  BY <1>5, <1>6 DEF Sound

LEMMA LastRectSound ==
  ASSUME NEW s, NEW at, NEW p, Reading(s, at, p), s.fbu.rects > 0, at = Between(0),
         s.fbu.bytes = 0, s.fbu.left = 0
  PROVE  Sound(LastRect(s), p) /\ Advances(s, LastRect(s))
<1> DEFINE f == [s.fbu EXCEPT !.rects = 0]
           t == Refit(s, f)
<1>1. s \in HandlerStates /\ s.fbu \in Fbus /\ s.fbu.rects \in Nat
  BY StateIs DEF Reading
<1>2. f \in Fbus /\ f.rects = 0 /\ f.bytes = 0 /\ f.left = 0
  BY <1>1 DEF Fbus
<1>3. LastRect(s) = t
  BY <1>1 DEF LastRect, Refit, HandlerStates
<1> HIDE DEF f
<1>4. Reading(t, at, p) /\ t.fbu = f
  BY <1>2, RefittedReads
<1> HIDE DEF t
<1>5. at \in Places /\ at.rects = 0 /\ at.left = 0
  BY BetweenIs
<1>6. Matches(t.fbu, at, t.todo)
  BY <1>2, <1>4, <1>5 DEF Matches
<1>7. Sound(t, p)
  BY <1>4, <1>5, <1>6 DEF Sound, Reading
<1>8. Advances(s, t)
  BY <1>1, <1>2, <1>4 DEF Advances
<1> QED
  BY <1>3, <1>7, <1>8

LEMMA DesktopSizeSound ==
  ASSUME NEW s, NEW p, s.fbu.rects > 0, Reading(s, Between(s.fbu.rects - 1), p)
  PROVE  Sound(DesktopSize(s), p) /\ Advances(s, DesktopSize(s))
<1>1. Sound(Finished(s), p) /\ Advances(s, Finished(s))
  BY FinishedSound
<1> DEFINE t == Say(Finished(s), "request")
<1>2. Sound(t, p) /\ t.out = Finished(s).out /\ t.fbu = Finished(s).fbu /\ t.avail = Finished(s).avail
  BY <1>1, SayKeeps
<1>3. DesktopSize(s) = t
  BY DEF DesktopSize
<1> HIDE DEF t
<1>4. Advances(s, t)
  BY <1>1, <1>2 DEF Advances
<1> QED
  BY <1>2, <1>3, <1>4

(* What a handler finds when it is called.                                  *)
Ready(s, at) ==
    LET f == s.fbu IN
    /\ f.enc \in {"RAW", "COPYRECT", "RRE", "HEXTILE", "TIGHT", "Cursor"} => InRect(s, at)
    /\ f.enc \in {"RAW", "HEXTILE"} => at.left = IF f.left = 0 THEN f.n ELSE f.left
    /\ f.enc = "COPYRECT" => at.left = 1 /\ at.size = 4 /\ f.bytes = 0 /\ f.left = 0
    /\ f.enc = "RRE" => \/ at.size = 4 + Bpp /\ at.left = f.n + 1 /\ f.bytes = 0 /\ f.left = 0
                        \/ at.size = Bpp + 8 /\ at.left = f.left /\ s.avail >= 0
    /\ f.enc \in {"TIGHT", "Cursor"} => at.left = 1 /\ f.left = 0
    /\ f.enc = "last_rect" => at = Between(0) /\ f.bytes = 0 /\ f.left = 0
    /\ f.enc = "DesktopSize" => at = Between(f.rects - 1)

LEMMA HandlerSound ==
  ASSUME NEW s, NEW at, NEW p, Reading(s, at, p), s.fbu.rects > 0, Ready(s, at)
  PROVE  Sound(Handler(s), p) /\ Advances(s, Handler(s))
<1>0. InRect(s, at) => at.enc = s.fbu.enc
  BY DEF InRect
<1>1. CASE s.fbu.enc = "RAW"
  <2>1. Handler(s) = Raw(s)
    BY <1>1 DEF Handler
  <2>2. InRect(s, at) /\ at.enc = "RAW" /\ at.left = IF s.fbu.left = 0 THEN s.fbu.n ELSE s.fbu.left
    BY <1>0, <1>1 DEF Ready
  <2> QED
    BY <2>1, <2>2, RawSound
<1>2. CASE s.fbu.enc = "COPYRECT"
  <2>1. Handler(s) = CopyRect(s)
    BY <1>2 DEF Handler
  <2>2. InRect(s, at) /\ at.enc = "COPYRECT" /\ at.left = 1 /\ at.size = 4 /\ s.fbu.bytes = 0 /\ s.fbu.left = 0
    BY <1>0, <1>2 DEF Ready
  <2> QED
    BY <2>1, <2>2, CopyRectSound
<1>3. CASE s.fbu.enc = "RRE"
  <2>1. Handler(s) = Rre(s)
    BY <1>3 DEF Handler
  <2>2. /\ InRect(s, at) /\ at.enc = "RRE"
        /\ \/ /\ at.size = 4 + Bpp /\ at.left = s.fbu.n + 1
              /\ s.fbu.bytes = 0 /\ s.fbu.left = 0
           \/ at.size = Bpp + 8 /\ at.left = s.fbu.left /\ s.avail >= 0
    BY <1>0, <1>3 DEF Ready
  <2> QED
    BY <2>1, <2>2, RreSound
<1>4. CASE s.fbu.enc = "HEXTILE"
  <2>1. Handler(s) = Hextile(s)
    BY <1>4 DEF Handler
  <2>2. InRect(s, at) /\ at.enc = "HEXTILE" /\ at.left = IF s.fbu.left = 0 THEN s.fbu.n ELSE s.fbu.left
    BY <1>0, <1>4 DEF Ready
  <2> QED
    BY <2>1, <2>2, HextileSound
<1>5. CASE s.fbu.enc \in {"TIGHT", "Cursor"}
  <2>1. Handler(s) = Tight(s)
    BY <1>5 DEF Handler, Cursor
  <2>2. InRect(s, at) /\ at.enc \in {"TIGHT", "Cursor"} /\ at.left = 1 /\ s.fbu.left = 0
    BY <1>0, <1>5 DEF Ready
  <2> QED
    BY <2>1, <2>2, TightSound
<1>6. CASE s.fbu.enc = "last_rect"
  <2>1. Handler(s) = LastRect(s)
    BY <1>6 DEF Handler
  <2>2. at = Between(0) /\ s.fbu.bytes = 0 /\ s.fbu.left = 0
    BY <1>6 DEF Ready
  <2> QED
    BY <2>1, <2>2, LastRectSound
<1>7. CASE s.fbu.enc = "DesktopSize"
  <2>1. Handler(s) = DesktopSize(s)
    BY <1>7 DEF Handler
  <2>2. Reading(s, Between(s.fbu.rects - 1), p)
    BY <1>7 DEF Ready
  <2> QED
    BY <2>1, <2>2, DesktopSizeSound
<1>8. CASE s.fbu.enc \notin {"RAW", "COPYRECT", "RRE", "HEXTILE", "TIGHT", "Cursor", "last_rect", "DesktopSize"}
  <2>1. Handler(s) = Fail(s)
    BY <1>8 DEF Handler
  <2> QED
    BY <2>1, FailSound
<1> QED
  BY <1>1, <1>2, <1>3, <1>4, <1>5, <1>6, <1>7, <1>8

LEMMA HeaderReads ==
  ASSUME NEW s, NEW at, NEW p, Reading(s, at, p), s.fbu.rects > 0, Matches(s.fbu, at, s.todo),
         s.todo # <<>>, Head(s.todo).k = "rect", s.fbu.bytes = 0
  PROVE  LET h == RectHeader(s)
         IN  \E there \in Places : Reading(h, there, p) /\ Ready(h, there) /\ h.fbu.rects = s.fbu.rects
<1> DEFINE u == Head(s.todo)
           v == Take(s)
           f == [s.fbu EXCEPT !.enc = u.v, !.n = u.n]
           h == Refit(v, f)
           there == After(at, u)
<1>1. /\ u \in Units /\ Suits(at, u) /\ Reading(v, there, p) /\ there \in Places /\ v.fbu = s.fbu
  BY TakeReads
<1>2. s \in HandlerStates /\ s.fbu \in Fbus /\ s.fbu.rects \in Nat /\ v \in HandlerStates
  BY <1>1, StateIs DEF Reading
<1>3. u.v \in Codes /\ u.n \in Nat
  BY <1>1 DEF Units, Codes
<1>4. at \in Places
  <2>1. Plain(s.todo)
    BY <1>2, StateIs
  <2> QED
    BY <2>1, ParsedPlace DEF Reading
<1>5. at.left = 0 /\ at.rects = s.fbu.rects
  BY <1>1, <1>4, PlaceParts DEF Suits, Matches
<1>6. s.fbu.left = 0
  BY <1>5 DEF Matches
<1>7. there = Inside(at, u)
  BY <1>5 DEF After
<1>8. /\ u.v \in {"COPYRECT", "TIGHT", "Cursor"} => u.n = 1
      /\ u.v \in {"RRE", "last_rect", "DesktopSize"} \/ u.n > 0
  BY <1>1, <1>5 DEF Suits
<1>9. RectHeader(s) = h
  <2>1. RectHeader(s) = [v EXCEPT !.fbu.enc = u.v, !.fbu.n = u.n]
    BY DEF RectHeader
  <2> HIDE DEF v, u
  <2> QED
    BY <1>1, <1>2, <2>1 DEF Refit, HandlerStates, Fbus
<1> HIDE DEF v, u, there
<1>10. /\ f \in Fbus /\ f.enc = u.v /\ f.n = u.n /\ f.rects = s.fbu.rects /\ f.left = 0 /\ f.bytes = 0
  BY <1>2, <1>3, <1>6 DEF Fbus
<1> HIDE DEF f
<1>11. Reading(h, there, p) /\ h.fbu = f /\ h \in HandlerStates
  BY <1>1, <1>10, RefittedReads
<1> HIDE DEF h
<1>12. Ready(h, there)
  <2>1. CASE u.v \in {"RAW", "HEXTILE", "TIGHT", "Cursor"}
    <3>1. there = Place(s.fbu.rects, u.v, u.n, 0)
      BY <1>5, <1>7, <2>1 DEF Inside
    <3>2. there.rects = s.fbu.rects /\ there.enc = u.v /\ there.left = u.n
      BY <3>1, PlaceIs
    <3>3. u.n > 0 /\ (u.v \in {"TIGHT", "Cursor"} => u.n = 1)
      BY <1>8, <2>1
    <3> QED
      BY <1>10, <1>11, <2>1, <3>2, <3>3 DEF Ready, InRect
  <2>2. CASE u.v = "COPYRECT"
    <3>1. there = Place(s.fbu.rects, u.v, 1, 4)
      BY <1>5, <1>7, <2>2 DEF Inside
    <3>2. there.rects = s.fbu.rects /\ there.enc = u.v /\ there.left = 1 /\ there.size = 4
      BY <3>1, PlaceIs
    <3> QED
      BY <1>10, <1>11, <2>2, <3>2 DEF Ready, InRect
  <2>3. CASE u.v = "RRE"
    <3>1. there = Place(s.fbu.rects, u.v, u.n + 1, 4 + Bpp)
      BY <1>5, <1>7, <2>3 DEF Inside
    <3>2. there.rects = s.fbu.rects /\ there.enc = u.v /\ there.left = u.n + 1 /\ there.size = 4 + Bpp
      BY <3>1, PlaceIs
    <3>3. u.n + 1 > 0
      BY <1>3
    <3> QED
      BY <1>10, <1>11, <2>3, <3>2, <3>3 DEF Ready, InRect
  <2>4. CASE u.v = "last_rect"
    <3>1. there = Between(0)
      BY <1>7, <2>4 DEF Inside
    <3> QED
      BY <1>10, <1>11, <2>4, <3>1 DEF Ready
  <2>5. CASE u.v = "DesktopSize"
    <3>1. there = Between(s.fbu.rects - 1)
      BY <1>5, <1>7, <2>5 DEF Inside
    <3> QED
      BY <1>10, <1>11, <2>5, <3>1 DEF Ready
  <2>6. CASE u.v \notin {"RAW", "HEXTILE", "TIGHT", "Cursor", "COPYRECT", "RRE", "last_rect", "DesktopSize"}
    BY <1>10, <1>11, <2>6 DEF Ready
  <2> QED
    BY <2>1, <2>2, <2>3, <2>4, <2>5, <2>6
<1> QED
  BY <1>1, <1>9, <1>10, <1>11, <1>12

LEMMA StopSound ==
  ASSUME NEW s, NEW p, Sound(s, p), s.out = "go", NEW t,
         (t = Wait(s) /\ Waits(s)) \/ t = Done(s)
  PROVE  Sound(t, p) /\ t.out # "go" /\ t.fbu = s.fbu /\ t.todo = s.todo /\ t.avail = s.avail
         /\ t.say = s.say /\ t.state = s.state /\ t.lost = s.lost
<1>1. s \in HandlerStates
  BY DEF Sound
<1>2. /\ t.todo = s.todo /\ t.avail = s.avail /\ t.fbu = s.fbu /\ t.state = s.state /\ t.say = s.say
      /\ t.lost = s.lost /\ t \in HandlerStates
      /\ t.out = "done" \/ (t.out = "wait" /\ Waits(s))
  BY <1>1 DEF Wait, Done, HandlerStates
<1>3. Waits(s) => Waits(t)
  BY <1>2 DEF Waits
<1> QED
  BY <1>2, <1>3 DEF Sound

(* What is left to do in an update, at most.                                *)
ToDo(s) == IF s.out # "go" THEN 0 ELSE IF s.avail < s.fbu.bytes THEN 1 ELSE 2 * s.fbu.rects + 1

LEMMA ToDoIs ==
  ASSUME NEW s \in HandlerStates
  PROVE  /\ ToDo(s) \in Nat /\ ToDo(s) <= 2 * s.fbu.rects + 1
         /\ s.out = "go" => ToDo(s) >= 1
<1>1. s.fbu.rects \in Nat
  BY StateIs
<1> QED
  BY <1>1 DEF ToDo

LEMMA RectSound ==
  ASSUME NEW s, NEW p, Sound(s, p)
  PROVE  /\ Sound(Rect(s), p)
         /\ s.out # "go" => Rect(s) = s
         /\ s.out = "go" => ToDo(Rect(s)) < ToDo(s)
<1>1. s \in HandlerStates
  BY DEF Sound
<1>2. /\ s.fbu \in Fbus /\ s.fbu.rects \in Nat /\ s.fbu.bytes \in Nat /\ s.avail \in Int /\ Plain(s.todo)
      /\ s.fbu.enc \in Codes /\ BytesOf(s.todo) \in Nat
  BY <1>1, StateIs, BytesNat
<1>3. CASE s.out # "go"
  BY <1>3 DEF Rect
<1>4. CASE s.out = "go" /\ s.fbu.rects = 0
  <2>1. Rect(s) = Done(s)
    BY <1>4 DEF Rect
  <2>2. Sound(Done(s), p) /\ Done(s).out # "go"
    BY <1>4, StopSound
  <2>3. ToDo(Done(s)) = 0
    BY <2>2, Zenon DEF ToDo
  <2>4. ToDo(s) \in Nat /\ ToDo(s) >= 1
    BY <1>1, <1>4, ToDoIs
  <2> QED
    BY <1>4, <2>1, <2>2, <2>3, <2>4
<1>5. CASE s.out = "go" /\ s.fbu.rects # 0
  <2>1. PICK at \in Places : Parsed(at, s.todo, p) /\ Matches(s.fbu, at, s.todo)
    BY <1>5 DEF Sound
  <2>2. Reading(s, at, p)
    BY <1>1, <1>5, <2>1 DEF Reading, Sound
  <2>3. at.rects = s.fbu.rects /\ at.rects > 0
    BY <1>2, <1>5, <2>1 DEF Matches
  <2>4. s.todo # <<>>
    BY <2>2, <2>3, MoreToCome
  <2> DEFINE u == Head(s.todo)
  <2>5. u \in Units /\ Size(u) \in Nat \ {0} /\ Size(u) <= BytesOf(s.todo) /\ Suits(at, u)
    BY <2>2, <2>4, TakeReads
  <2>6. at.left \in Nat
    BY PlaceParts
  <2>7. u.k = "rect" <=> at.left = 0
    BY <2>3, <2>5, <2>6 DEF Suits
  <2>8. at.left = 0 => s.fbu.bytes = 0 /\ s.fbu.left = 0 /\ Size(u) = 12
    BY <2>1, <2>3, <2>5, <2>6 DEF Suits, Matches
  <2>9. at.left > 0 => at.enc = s.fbu.enc /\ InRect(s, at)
    BY <1>2, <2>1, <2>3 DEF Matches, InRect
  <2>10. s.fbu.bytes <= BytesOf(s.todo)
    BY <1>2, <2>1, <2>6 DEF Matches
  <2> HIDE DEF u
  <2>11. CASE Lacks(s, s.fbu.bytes) \/ (s.fbu.bytes = 0 /\ Lacks(s, 12))
    <3>1. Rect(s) = Wait(s)
      BY <1>5, <2>11 DEF Rect
    <3>2. Waits(s)
      <4>1. CASE s.avail < s.fbu.bytes
        BY <1>2, <2>10, <4>1 DEF Waits
      <4>2. CASE s.fbu.bytes = 0 /\ Lacks(s, 12) /\ at.left = 0
        BY <1>2, <2>5, <2>8, <4>2 DEF Waits, Lacks
      <4>3. CASE s.fbu.bytes = 0 /\ Lacks(s, 12) /\ at.left # 0
        BY <1>2, <1>5, <2>4, <2>7, <4>3 DEF Waits, u
      <4> QED
        BY <2>11, <4>1, <4>2, <4>3 DEF Lacks
    <3>3. Sound(Wait(s), p) /\ Wait(s).out # "go"
      BY <1>5, <3>2, StopSound
    <3>4. ToDo(Wait(s)) = 0
      BY <3>3, Zenon DEF ToDo
    <3>5. ToDo(s) \in Nat /\ ToDo(s) >= 1
      BY <1>1, <1>5, ToDoIs
    <3> QED
      BY <1>5, <3>1, <3>3, <3>4, <3>5
  <2>12. CASE ~(Lacks(s, s.fbu.bytes) \/ (s.fbu.bytes = 0 /\ Lacks(s, 12)))
    <3>0. ~(s.avail < s.fbu.bytes) /\ s.avail >= s.fbu.bytes /\ s.avail >= 0
      BY <1>2, <2>12 DEF Lacks
    <3> DEFINE h == IF s.fbu.bytes = 0 THEN RectHeader(s) ELSE s
               r == IF h.out = "go" THEN Handler(h) ELSE h
    <3>1. Rect(s) = r
      BY <1>5, <2>12, Zenon DEF Rect
    <3>2. ToDo(s) = 2 * s.fbu.rects + 1
      BY <1>5, <3>0 DEF ToDo
    <3>3. CASE s.fbu.bytes = 0 /\ u.k # "rect"
      <4> DEFINE t == [Done(s) EXCEPT !.lost = s.fbu.enc]
      <4>1. h = t
        BY <3>3 DEF RectHeader, u
      <4>2. s.fbu.enc \in Excused
        BY <1>2, <2>1, <2>6, <2>7, <2>9, <3>3 DEF Matches, Excused
      <4>3. t \in HandlerStates /\ t.out = "done" /\ t.lost = s.fbu.enc
        BY <1>1, <4>2 DEF Done, HandlerStates
      <4>4. t.lost # "nothing"
        BY <4>2, <4>3 DEF Excused
      <4> HIDE DEF t
      <4>5. Sound(t, p)
        BY <4>3, <4>4 DEF Sound
      <4>6. r = t
        BY <4>1, <4>3
      <4>7. ToDo(t) = 0
        BY <4>3 DEF ToDo
      <4> QED
        BY <1>2, <1>5, <3>1, <3>2, <4>5, <4>6, <4>7
    <3>4. CASE ~(s.fbu.bytes = 0 /\ u.k # "rect")
      <4>1. \E there \in Places : Reading(h, there, p) /\ Ready(h, there) /\ h.fbu.rects = s.fbu.rects
        <5>1. CASE s.fbu.bytes = 0
          <6>1. h = RectHeader(s)
            BY <5>1
          <6> HIDE DEF h
          <6>2. Head(s.todo).k = "rect" /\ s.fbu.rects > 0
            BY <1>2, <1>5, <3>4, <5>1 DEF u
          <6> QED
            BY <2>1, <2>2, <2>4, <5>1, <6>1, <6>2, HeaderReads
        <5>2. CASE s.fbu.bytes # 0
          <6>1. h = s
            BY <5>2
          <6>2. at.left > 0
            BY <2>6, <2>8, <5>2
          <6>3. Ready(s, at)
            BY <2>1, <2>9, <3>0, <5>2, <6>2 DEF Ready, Matches
          <6> QED
            BY <2>2, <6>1, <6>3
        <5> QED
          BY <5>1, <5>2
      <4> HIDE DEF h
      <4>2. PICK there \in Places : Reading(h, there, p) /\ Ready(h, there) /\ h.fbu.rects = s.fbu.rects
        BY <4>1
      <4>3. h.out = "go" /\ h.fbu.rects > 0
        BY <1>2, <1>5, <4>2 DEF Reading
      <4>4. r = Handler(h)
        BY <4>3
      <4> HIDE DEF r
      <4>5. Sound(r, p) /\ Advances(h, r)
        BY <4>2, <4>3, <4>4, HandlerSound
      <4>6. r \in HandlerStates /\ r.fbu.rects \in Nat
        BY <4>5, StateIs DEF Sound
      <4>7. ToDo(r) < ToDo(s)
        <5>1. CASE r.out # "go"
          <6>1. ToDo(r) = 0
            BY <5>1 DEF ToDo
          <6> QED
            BY <1>2, <3>2, <6>1
        <5>2. CASE r.out = "go" /\ r.avail < r.fbu.bytes
          <6>1. ToDo(r) = 1
            BY <5>2 DEF ToDo
          <6> QED
            BY <1>2, <1>5, <3>2, <6>1
        <5>3. CASE r.out = "go" /\ ~(r.avail < r.fbu.bytes)
          <6>1. ToDo(r) = 2 * r.fbu.rects + 1
            BY <5>3 DEF ToDo
          <6>2. r.fbu.rects < s.fbu.rects
            BY <4>2, <4>5, <5>3 DEF Advances
          <6> QED
            BY <1>2, <3>2, <4>6, <6>1, <6>2
        <5> QED
          BY <5>1, <5>2, <5>3
      <4> QED
        BY <1>5, <3>1, <4>5, <4>7
    <3> QED
      BY <3>3, <3>4
  <2> QED
    BY <2>11, <2>12
<1> QED
  BY <1>3, <1>4, <1>5

RectClosed(C) == \A t \in C : Rect(t) \in C
RectSteps(h, n, C, base) ==
    h \in [0..n -> C] /\ h[0] = base /\ \A i \in 1..n : h[i] = Rect(h[i-1])
LEMMA RectTrace ==
  ASSUME NEW n \in Nat, NEW C, RectClosed(C), NEW base \in C
  PROVE  \E h : RectSteps(h, n, C, base) /\ Times(Rect, base, n) = h[n]
<1> DEFINE f == [i \in 1..n |-> i]
           step == [x \in (1..n) \X C |-> Rect(x[2])]
           E(iter) == iter = [s \in SUBSET DOMAIN f |->
                                IF s = {} THEN base ELSE Rect(iter[s \ {Max(s)}])]
           iter == CHOOSE iter : E(iter)
<1>1. step \in Steps(n, C)
  BY DEF Steps, RectClosed
<1>2. \A i \in 1..n, c \in C : step[i, c] = Rect(c)
  OBVIOUS
<1> HIDE DEF step
<1>3. PICK h : IsTrace(h, n, C, base, step)
  BY <1>1, TraceExists
<1>4. h \in [0..n -> C] /\ h[0] = base /\ \A i \in 1..n : h[i] = step[i, h[i-1]]
  BY <1>3, Zenon DEF IsTrace
<1>5. ASSUME NEW i \in 1..n PROVE h[i] = Rect(h[i-1])
  <2>1. i - 1 \in 0..n
    OBVIOUS
  <2>2. h[i-1] \in C
    BY <1>4, <2>1
  <2> QED
    BY <1>2, <1>4, <2>2
<1>6. DOMAIN f = 1..n
  OBVIOUS
<1>7. Times(Rect, base, n) = iter[DOMAIN f]
  BY Zenon DEF Times, FoldLeft, MapThenFoldSet
<1>8. E(iter)
  <2>1. PICK it \in [SUBSET (1..n) -> C] : Iterates(it, n, base, step)
    BY <1>1, IterExists
  <2>2. ASSUME NEW s \in SUBSET (1..n)
        PROVE  it[s] = IF s = {} THEN base ELSE Rect(it[s \ {Max(s)}])
    <3>1. CASE s = {}
      BY <2>1, <3>1 DEF Iterates
    <3>2. CASE s # {}
      <4>1. it[s] = step[Max(s), it[s \ {Max(s)}]]
        BY <2>1, <3>2 DEF Iterates
      <4>2. Max(s) \in 1..n /\ it[s \ {Max(s)}] \in C
        BY <3>2, MaxIsLast
      <4> QED
        BY <1>2, <3>2, <4>1, <4>2
    <3> QED
      BY <3>1, <3>2
  <2>3. E(it)
    <3>1. it = [s \in SUBSET (1..n) |-> it[s]]
      OBVIOUS
    <3> QED
      BY <1>6, <2>2, <3>1
  <2> QED
    BY <2>3, Zenon
<1>9. \A s \in SUBSET (1..n) : iter[s] = IF s = {} THEN base ELSE Rect(iter[s \ {Max(s)}])
  <2> HIDE DEF iter
  <2> QED
    BY <1>6, <1>8
<1> HIDE DEF iter, E, f
<1>10. iter[First(0)] = h[0]
  <2>1. First(0) = {} /\ {} \in SUBSET (1..n)
    BY Firsts
  <2> QED
    BY <1>4, <1>9, <2>1
<1>11. ASSUME NEW i \in 1..n, iter[First(i - 1)] = h[i-1] PROVE iter[First(i)] = h[i]
  <2>1. /\ First(i) \in SUBSET (1..n) /\ First(i) # {}
        /\ Max(First(i)) = i /\ First(i) \ {i} = First(i - 1)
    BY Firsts
  <2>2. iter[First(i)] = Rect(iter[First(i - 1)])
    BY <1>9, <2>1
  <2> QED
    BY <1>5, <1>11, <2>2
<1>12. iter[1..n] = h[n]
  BY <1>10, <1>11, FoldEnds
<1>13. RectSteps(h, n, C, base)
  BY <1>4, <1>5 DEF RectSteps
<1> QED
  BY <1>6, <1>7, <1>12, <1>13

LEMMA UpdateSound ==
  ASSUME NEW s, NEW p, Sound(s, p)
  PROVE  Sound(FramebufferUpdate(s), p) /\ FramebufferUpdate(s).out # "go"
<1> DEFINE n == 2 * s.fbu.rects + 1
           C == {t \in HandlerStates : Sound(t, p)}
           e == Times(Rect, s, n)
<1>1. s \in HandlerStates /\ n \in Nat
  <2>1. s \in HandlerStates
    BY DEF Sound
  <2>2. s.fbu.rects \in Nat
    BY <2>1, StateIs
  <2> QED
    BY <2>1, <2>2
<1>2. FramebufferUpdate(s) = e
  BY Zenon DEF FramebufferUpdate
<1>3. s \in C
  BY <1>1
<1>4. RectClosed(C)
  <2>1. ASSUME NEW t \in C PROVE Rect(t) \in C
    <3>1. Sound(Rect(t), p)
      BY RectSound
    <3>2. Rect(t) \in HandlerStates
      BY <3>1 DEF Sound
    <3> QED
      BY <3>1, <3>2
  <2> QED
    BY <2>1 DEF RectClosed
<1>5. ToDo(s) <= n
  BY <1>1, ToDoIs
<1> HIDE DEF n
<1>6. \E h : RectSteps(h, n, C, s) /\ e = h[n]
  <2> HIDE DEF C
  <2> QED
    BY <1>1, <1>3, <1>4, RectTrace
<1> HIDE DEF e
<1>7. PICK h : RectSteps(h, n, C, s) /\ e = h[n]
  BY <1>6
<1>8. h \in [0..n -> C] /\ h[0] = s /\ h[n] = e /\ \A i \in 1..n : h[i] = Rect(h[i-1])
  BY <1>7, Zenon DEF RectSteps
<1>9. \A i \in 0..n : h[i] \in HandlerStates /\ Sound(h[i], p)
  BY <1>8
<1> DEFINE S == {i \in 0..n : ToDo(h[i]) <= n - i}
<1>10. 0 \in S
  BY <1>1, <1>5, <1>8
<1>11. ASSUME NEW i \in 0..n-1, i \in S PROVE i + 1 \in S
  <2>1. i + 1 \in 1..n /\ i + 1 \in 0..n /\ i \in 0..n /\ i + 1 - 1 = i
    BY <1>1
  <2>2. h[i+1] = Rect(h[i]) /\ Sound(h[i], p) /\ h[i] \in HandlerStates /\ h[i+1] \in HandlerStates
    BY <1>8, <1>9, <2>1
  <2>3. ToDo(h[i]) \in Nat /\ ToDo(h[i+1]) \in Nat
    BY <2>2, ToDoIs
  <2>4. CASE h[i].out # "go"
    <3>1. h[i+1] = h[i] /\ ToDo(h[i]) = 0
      BY <2>2, <2>4, RectSound DEF ToDo
    <3>2. 0 <= n - (i + 1)
      BY <1>1, <2>1
    <3> QED
      BY <2>1, <3>1, <3>2
  <2>5. CASE h[i].out = "go"
    <3>1. ToDo(h[i+1]) < ToDo(h[i])
      BY <2>2, <2>5, RectSound
    <3> QED
      BY <1>1, <1>11, <2>1, <2>3, <3>1
  <2> QED
    BY <2>4, <2>5
<1>12. n \in S
  <2> HIDE DEF S
  <2>1. \A i \in 0..n : i \in S
    BY <1>1, <1>10, <1>11, CountUp
  <2> QED
    BY <1>1, <2>1
<1>13. e \in HandlerStates /\ Sound(e, p) /\ ToDo(e) <= 0
  BY <1>1, <1>8, <1>9, <1>12
<1>14. e.out # "go"
  BY <1>13, ToDoIs
<1> QED
  BY <1>2, <1>13, <1>14

(* Between two messages.                                                    *)
Resting(s, at, p) ==
    Reading(s, at, p) /\ at \in Places /\ at.left = 0 /\ at.rects = 0 /\ Matches(s.fbu, at, s.todo)

LEMMA WaitingSound ==
  ASSUME NEW s, NEW at, NEW p, Resting(s, at, p), s.avail < BytesOf(s.todo)
  PROVE  Sound(Wait(s), p) /\ Wait(s).out # "go"
<1>1. Waits(s)
  BY DEF Waits
<1> QED
  BY <1>1, WaitSound DEF Resting

LEMMA TakenSound ==
  ASSUME NEW s, NEW at, NEW p, Resting(s, at, p), s.todo # <<>>, Head(s.todo).k # "FramebufferUpdate"
  PROVE  Sound(Take(s), p) /\ Take(s).out = "go"
<1> DEFINE t == Take(s)
<1>1. Reading(t, After(at, Head(s.todo)), p) /\ t.fbu = s.fbu
  BY TakeReads DEF Resting
<1>2. After(at, Head(s.todo)) = at
  BY DEF After, Resting
<1> HIDE DEF t
<1>3. Matches(t.fbu, at, t.todo)
  BY <1>1 DEF Matches, Resting
<1> QED
  BY <1>1, <1>2, <1>3 DEF Sound, Reading, Resting, t

LEMMA WhenWholeSound ==
  ASSUME NEW s, NEW at, NEW p, Resting(s, at, p), s.todo # <<>>, Head(s.todo).k # "FramebufferUpdate"
  PROVE  Sound(WhenWhole(s), p) /\ WhenWhole(s).out # "go"
<1>1. CASE Missing(s) = {}
  <2>1. WhenWhole(s) = Done(Take(s))
    BY <1>1 DEF WhenWhole
  <2>2. Sound(Take(s), p) /\ Take(s).out = "go"
    BY TakenSound
  <2>3. Sound(Done(Take(s)), p) /\ Done(Take(s)).out # "go"
    BY <2>2, StopSound
  <2> QED
    BY <2>1, <2>3
<1>2. CASE Missing(s) # {}
  <2> DEFINE u == Head(s.todo)
  <2>1. WhenWhole(s) = Wait(s)
    BY <1>2 DEF WhenWhole
  <2>2. s \in HandlerStates /\ Plain(s.todo) /\ BytesOf(s.todo) \in Nat /\ s.avail \in Int
    BY StateIs, BytesNat DEF Resting, Reading
  <2>3. u = s.todo[1] /\ 1 \in 1..Len(s.todo) /\ Size(u) <= BytesOf(s.todo) /\ Size(u) \in Nat
    <3>1. Reading(s, at, p)
      BY DEF Resting
    <3> QED
      BY <2>2, <3>1, PlainTail, TakeReads
  <2>4. u.stages \in Seq(Nat) /\ \A j \in 1..Len(u.stages) : u.stages[j] \in 1..Size(u)
    BY <2>2, <2>3, UnitIs
  <2>5. DOMAIN u.stages = 1..Len(u.stages)
    BY <2>4, LenProperties
  <2>6. PICK j \in DOMAIN u.stages : s.avail < u.stages[j]
    BY <1>2, Zenon DEF Missing, Lacks
  <2> HIDE DEF u
  <2>7. u.stages[j] \in 1..Size(u)
    BY <2>4, <2>5
  <2>8. s.avail < BytesOf(s.todo)
    BY <2>2, <2>3, <2>6, <2>7
  <2> QED
    BY <2>1, <2>8, WaitingSound
<1> QED
  BY <1>1, <1>2

LEMMA StartedSound ==
  ASSUME NEW s, NEW at, NEW p, Resting(s, at, p), s.todo # <<>>, Head(s.todo).k = "FramebufferUpdate"
  PROVE  Sound([Take(s) EXCEPT !.fbu.rects = Head(s.todo).n, !.fbu.bytes = 0], p)
<1> DEFINE u == Head(s.todo)
           v == Take(s)
           f == [s.fbu EXCEPT !.rects = u.n, !.bytes = 0]
           t == Refit(v, f)
<1>1. Reading(v, After(at, u), p) /\ v.fbu = s.fbu /\ u \in Units
  BY TakeReads DEF Resting
<1>2. After(at, u) = Between(u.n) /\ u.n \in Nat
  BY <1>1 DEF After, Resting, Units
<1>3. s.fbu.left = 0 /\ s.fbu \in Fbus /\ v \in HandlerStates
  BY <1>1, StateIs DEF Resting, Reading, Matches
<1> HIDE DEF v, u
<1>4. f \in Fbus /\ f.rects = u.n /\ f.bytes = 0 /\ f.left = 0
  BY <1>2, <1>3 DEF Fbus
<1>5. [v EXCEPT !.fbu.rects = u.n, !.fbu.bytes = 0] = t
  BY <1>1, <1>3 DEF Refit, HandlerStates, Fbus
<1> HIDE DEF f
<1>6. Reading(t, Between(u.n), p) /\ t.fbu = f
  BY <1>1, <1>2, <1>4, RefittedReads
<1> HIDE DEF t
<1>7. Between(u.n) \in Places /\ Between(u.n).rects = u.n /\ Between(u.n).left = 0
  BY <1>2, BetweenIs
<1>8. Matches(t.fbu, Between(u.n), t.todo)
  BY <1>4, <1>6, <1>7 DEF Matches
<1>9. Sound(t, p)
  BY <1>6, <1>7, <1>8 DEF Sound, Reading
<1> QED
  BY <1>5, <1>9 DEF v, u

(* normal_msg: what it leaves of the queue agrees with the server again, and *)
(* when it waits there is something to wait for.                            *)
LEMMA NormalMsgSound ==
  ASSUME NEW s, NEW p, Sound(s, p), s.out = "go"
  PROVE  Sound(NormalMsg(s), p) /\ NormalMsg(s).out # "go"
<1>1. s \in HandlerStates
  BY DEF Sound
<1>2. /\ s.fbu \in Fbus /\ s.fbu.rects \in Nat /\ s.avail \in Int /\ Plain(s.todo) /\ BytesOf(s.todo) \in Nat
      /\ s.state = "normal" /\ s.lost = "nothing"
  BY <1>1, StateIs, BytesNat DEF Sound
<1>3. PICK at \in Places : Parsed(at, s.todo, p) /\ Matches(s.fbu, at, s.todo)
  BY <1>2 DEF Sound
<1>4. Reading(s, at, p)
  BY <1>1, <1>2, <1>3 DEF Reading, Sound
<1>5. CASE s.fbu.rects > 0
  <2>1. NormalMsg(s) = FramebufferUpdate(s)
    BY <1>5 DEF NormalMsg
  <2> QED
    BY <2>1, UpdateSound
<1>6. CASE s.fbu.rects = 0 /\ Lacks(s, 1)
  <2> DEFINE t == [Done(s) EXCEPT !.state = "failed"]
  <2>1. NormalMsg(s) = t
    BY <1>6 DEF NormalMsg
  <2>2. t \in HandlerStates /\ t.out = "done" /\ t.state = "failed" /\ t.lost = "nothing" /\ t.avail = s.avail
        /\ t.todo = s.todo
    BY <1>1, <1>2 DEF Done, HandlerStates
  <2> HIDE DEF t
  <2>3. t.avail <= BytesOf(t.todo)
    BY <1>4, <2>2 DEF Reading
  <2>4. Sound(t, p)
    BY <1>3, <2>2, <2>3 DEF Sound
  <2> QED
    BY <2>1, <2>2, <2>4
<1>7. CASE s.fbu.rects = 0 /\ ~Lacks(s, 1)
  <2> DEFINE u == Head(s.todo)
  <2>1. s.todo # <<>>
    <3> SUFFICES ASSUME s.todo = <<>> PROVE FALSE
      OBVIOUS
    <3>1. s.avail >= 1
      BY <1>2, <1>7 DEF Lacks
    <3>2. s.avail <= BytesOf(s.todo) /\ BytesOf(s.todo) = 0
      BY <1>4, BytesNone DEF Reading
    <3> QED
      BY <1>2, <3>1, <3>2
  <2>2. at.rects = 0 /\ at.left = 0
    <3>1. at.rects = 0
      BY <1>3, <1>7, Zenon DEF Matches
    <3>2. at.left \in Nat /\ (at.left > 0 => at.rects > 0)
      BY PlaceParts
    <3> QED
      BY <3>1, <3>2
  <2>3. Resting(s, at, p)
    BY <1>3, <1>4, <2>2 DEF Resting
  <2>4. /\ u \in Units /\ Size(u) \in Nat \ {0} /\ Size(u) <= BytesOf(s.todo)
        /\ u.k \in {"FramebufferUpdate", "SetColourMapEntries", "Bell", "ServerCutText", "illegal"}
        /\ u.k = "FramebufferUpdate" => Size(u) = 4
    BY <1>4, <2>1, <2>2, TakeReads DEF Suits
  <2>5. NormalMsg(s) = CASE u.k = "FramebufferUpdate" ->
                IF Lacks(s, 4) THEN Wait(s)
                ELSE FramebufferUpdate([Take(s) EXCEPT !.fbu.rects = u.n, !.fbu.bytes = 0])
           [] u.k = "SetColourMapEntries" ->
                IF ~Lacks(s, 6) THEN WhenWhole(s)
                ELSE IF u.n = 0 THEN Done(Take(s)) ELSE [Done(s) EXCEPT !.lost = u.k]
           [] u.k \in {"Bell", "ServerCutText"} -> WhenWhole(s)
           [] u.k = "illegal" -> [Done(Take(s)) EXCEPT !.state = "failed"]
           [] OTHER -> [Done(s) EXCEPT !.lost = s.fbu.enc]
    <3>1. ~(s.fbu.rects > 0)
      BY <1>7
    <3> QED
      BY <1>7, <3>1, Zenon DEF NormalMsg
  <2> DEFINE r == NormalMsg(s)
  <2>6. CASE u.k = "FramebufferUpdate"
    <3> DEFINE t == [Take(s) EXCEPT !.fbu.rects = u.n, !.fbu.bytes = 0]
    <3>1. r = IF Lacks(s, 4) THEN Wait(s) ELSE FramebufferUpdate(t)
      <4> HIDE DEF r
      <4> QED
        BY <2>5, <2>6 DEF r
    <3> HIDE DEF r
    <3>2. CASE Lacks(s, 4)
      <4>1. s.avail < BytesOf(s.todo)
        BY <1>2, <2>4, <2>6, <3>2 DEF Lacks
      <4> QED
        BY <2>3, <3>1, <3>2, <4>1, WaitingSound DEF r
    <3>3. CASE ~Lacks(s, 4)
      <4>1. Sound(t, p)
        BY <2>1, <2>3, <2>6, StartedSound
      <4> HIDE DEF t
      <4> QED
        BY <3>1, <3>3, <4>1, UpdateSound DEF r
    <3> QED
      BY <3>2, <3>3
  <2>7. CASE u.k = "SetColourMapEntries"
    <3>1. r = IF ~Lacks(s, 6) THEN WhenWhole(s)
              ELSE IF u.n = 0 THEN Done(Take(s)) ELSE [Done(s) EXCEPT !.lost = u.k]
      <4> HIDE DEF r
      <4> QED
        BY <2>5, <2>7 DEF r
    <3> HIDE DEF r
    <3>2. CASE ~Lacks(s, 6)
      <4>1. Head(s.todo).k # "FramebufferUpdate"
        BY <2>7
      <4> QED
        BY <2>1, <2>3, <3>1, <3>2, <4>1, WhenWholeSound DEF r
    <3>3. CASE Lacks(s, 6) /\ u.n = 0
      <4>1. Sound(Take(s), p) /\ Take(s).out = "go"
        BY <2>1, <2>3, <2>7, TakenSound
      <4>2. Sound(Done(Take(s)), p) /\ Done(Take(s)).out # "go"
        BY <4>1, StopSound
      <4> QED
        BY <3>1, <3>3, <4>2 DEF r
    <3>4. CASE Lacks(s, 6) /\ u.n # 0
      <4> DEFINE t == [Done(s) EXCEPT !.lost = "SetColourMapEntries"]
      <4>1. r = t
        BY <2>7, <3>1, <3>4
      <4>2. "SetColourMapEntries" \in Excused
        BY DEF Excused
      <4>3. t \in HandlerStates /\ t.out = "done" /\ t.lost = "SetColourMapEntries"
        BY <1>1, <4>2 DEF Done, HandlerStates
      <4> HIDE DEF t
      <4>4. Sound(t, p)
        BY <4>3 DEF Sound
      <4> QED
        BY <4>1, <4>3, <4>4 DEF r
    <3> QED
      BY <3>2, <3>3, <3>4
  <2>8. CASE u.k \in {"Bell", "ServerCutText"}
    <3>1. r = WhenWhole(s)
      <4> HIDE DEF r
      <4> QED
        BY <2>5, <2>8 DEF r
    <3>2. Head(s.todo).k # "FramebufferUpdate"
      BY <2>8
    <3> QED
      BY <2>1, <2>3, <3>1, <3>2, WhenWholeSound
  <2>9. CASE u.k = "illegal"
    <3> DEFINE v == Take(s)
               t == [Done(v) EXCEPT !.state = "failed"]
    <3>1. r = t
      <4> HIDE DEF r
      <4> QED
        BY <2>5, <2>9 DEF r
    <3>2. Sound(v, p) /\ v.out = "go" /\ v \in HandlerStates
      BY <2>1, <2>3, <2>9, TakenSound DEF Sound
    <3> HIDE DEF v
    <3>3. t \in HandlerStates /\ t.out = "done" /\ t.state = "failed" /\ t.lost = v.lost /\ t.todo = v.todo
          /\ t.avail = v.avail
      BY <3>2 DEF Done, HandlerStates
    <3> HIDE DEF t
    <3>4. Sound(t, p)
      BY <3>2, <3>3 DEF Sound
    <3> QED
      BY <3>1, <3>3, <3>4 DEF r
  <2> QED
    BY <2>4, <2>6, <2>7, <2>8, <2>9
<1> QED
  BY <1>2, <1>5, <1>6, <1>7
-----------------------------------------------------------------------------
(* What is said: sequences of which some requests for updates are dropped.  *)
Thins(kept, us, g) ==
    /\ g \in [1..Len(kept) -> 1..Len(us)]
    /\ \A i, j \in 1..Len(kept) : i < j => g[i] < g[j]
    /\ \A i \in 1..Len(kept) : kept[i] = us[g[i]]
    /\ \A k \in 1..Len(us) : us[k].m # "request" => \E i \in 1..Len(kept) : g[i] = k
Thinned(kept, us) == kept \in Seq(Heards) /\ us \in Seq(Heards) /\ \E g : Thins(kept, us, g)

LEMMA ThinSame ==
  ASSUME NEW us \in Seq(Heards)
  PROVE  Thinned(us, us)
<1>1. Len(us) \in Nat
  BY LenProperties
<1>2. Thins(us, us, [i \in 1..Len(us) |-> i])
  BY <1>1 DEF Thins
<1> QED
  BY <1>2, Zenon DEF Thinned

LEMMA JoinIs ==
  ASSUME NEW us \in Seq(Heards), NEW vs \in Seq(Heards)
  PROVE  /\ us \o vs \in Seq(Heards) /\ Len(us) \in Nat /\ Len(vs) \in Nat /\ Len(us \o vs) = Len(us) + Len(vs)
         /\ \A i \in 1..Len(us) : (us \o vs)[i] = us[i]
         /\ \A i \in 1..Len(vs) : (us \o vs)[Len(us) + i] = vs[i]
         /\ \A i \in 1..Len(us) + Len(vs) : i \in 1..Len(us) \/ (~(i <= Len(us)) /\ i - Len(us) \in 1..Len(vs))
<1> DEFINE kept == us \o vs
<1>1. /\ kept \in Seq(Heards) /\ Len(kept) = Len(us) + Len(vs) /\ Len(us) \in Nat /\ Len(vs) \in Nat
      /\ \A i \in 1..Len(us) + Len(vs) : kept[i] = IF i <= Len(us) THEN us[i] ELSE vs[i - Len(us)]
  BY ConcatProperties, LenProperties
<1> HIDE DEF kept
<1>2. \A i \in 1..Len(us) : i \in 1..Len(us) + Len(vs) /\ i <= Len(us)
  BY <1>1
<1>3. \A i \in 1..Len(vs) : /\ Len(us) + i \in 1..Len(us) + Len(vs) /\ ~(Len(us) + i <= Len(us))
                            /\ Len(us) + i - Len(us) = i
  BY <1>1
<1>4. \A i \in 1..Len(us) + Len(vs) : i \in 1..Len(us) \/ (~(i <= Len(us)) /\ i - Len(us) \in 1..Len(vs))
  BY <1>1
<1> QED
  BY <1>1, <1>2, <1>3, <1>4 DEF kept

LEMMA ThinJoin ==
  ASSUME NEW kept, NEW us, Thinned(kept, us), NEW vs, NEW ts, Thinned(vs, ts)
  PROVE  Thinned(kept \o vs, us \o ts)
<1>1. kept \in Seq(Heards) /\ us \in Seq(Heards) /\ vs \in Seq(Heards) /\ ts \in Seq(Heards)
  BY DEF Thinned
<1>2. PICK g : Thins(kept, us, g)
  BY DEF Thinned
<1>3. PICK f : Thins(vs, ts, f)
  BY DEF Thinned
<1> DEFINE a == Len(kept)
           b == Len(vs)
           c == Len(us)
           d == Len(ts)
           W == kept \o vs
           U == us \o ts
           h == [i \in 1..a+b |-> IF i <= a THEN g[i] ELSE c + f[i-a]]
<1>4. /\ W \in Seq(Heards) /\ a \in Nat /\ b \in Nat /\ Len(W) = a + b
      /\ (\A i \in 1..a : W[i] = kept[i]) /\ (\A i \in 1..b : W[a + i] = vs[i])
      /\ \A i \in 1..a + b : i \in 1..a \/ (~(i <= a) /\ i - a \in 1..b)
  <2> HIDE DEF W
  <2> QED
    BY <1>1, JoinIs DEF W
<1>5. /\ U \in Seq(Heards) /\ c \in Nat /\ d \in Nat /\ Len(U) = c + d
      /\ (\A i \in 1..c : U[i] = us[i]) /\ (\A i \in 1..d : U[c + i] = ts[i])
      /\ \A i \in 1..c + d : i \in 1..c \/ (~(i <= c) /\ i - c \in 1..d)
  <2> HIDE DEF U
  <2> QED
    BY <1>1, JoinIs DEF U
<1>6. /\ g \in [1..a -> 1..c] /\ (\A i, j \in 1..a : i < j => g[i] < g[j]) /\ (\A i \in 1..a : kept[i] = us[g[i]])
      /\ \A k \in 1..c : us[k].m # "request" => \E i \in 1..a : g[i] = k
  BY <1>2, Zenon DEF Thins
<1>7. /\ f \in [1..b -> 1..d] /\ (\A i, j \in 1..b : i < j => f[i] < f[j]) /\ (\A i \in 1..b : vs[i] = ts[f[i]])
      /\ \A k \in 1..d : ts[k].m # "request" => \E i \in 1..b : f[i] = k
  BY <1>3, Zenon DEF Thins
<1> HIDE DEF a, b, c, d, W, U
<1>8. \A i \in 1..a : i \in 1..a+b /\ h[i] = g[i] /\ h[i] \in 1..c /\ h[i] \in 1..c+d
  BY <1>4, <1>5, <1>6
<1>9. \A i \in 1..b : a + i \in 1..a+b /\ h[a+i] = c + f[i] /\ f[i] \in 1..d /\ h[a+i] \in 1..c+d
  BY <1>4, <1>5, <1>7
<1>10. h \in [1..a+b -> 1..c+d]
  <2>1. ASSUME NEW i \in 1..a+b PROVE h[i] \in 1..c+d
    <3>1. CASE i \in 1..a
      BY <1>8, <3>1
    <3>2. CASE i - a \in 1..b
      <4>1. a + (i - a) = i
        BY <1>4
      <4> QED
        BY <1>9, <3>2, <4>1
    <3> QED
      BY <1>4, <3>1, <3>2
  <2>2. h = [i \in 1..a+b |-> h[i]]
    OBVIOUS
  <2> HIDE DEF h
  <2> QED
    BY <2>1, <2>2
<1> HIDE DEF h
<1>11. ASSUME NEW i \in 1..a+b, NEW j \in 1..a+b, i < j PROVE h[i] < h[j]
  <2>1. CASE i \in 1..a /\ j \in 1..a
    BY <1>6, <1>8, <1>11, <2>1
  <2>2. CASE i \in 1..a /\ j - a \in 1..b
    <3>1. a + (j - a) = j
      BY <1>4
    <3>2. h[j] = c + f[j-a] /\ f[j-a] \in 1..d /\ h[i] \in 1..c
      BY <1>8, <1>9, <2>2, <3>1
    <3> QED
      BY <1>5, <3>2
  <2>3. CASE i - a \in 1..b /\ j - a \in 1..b
    <3>1. a + (j - a) = j /\ a + (i - a) = i /\ i - a < j - a
      BY <1>4, <1>11
    <3>2. h[j] = c + f[j-a] /\ f[j-a] \in 1..d /\ h[i] = c + f[i-a] /\ f[i-a] \in 1..d /\ f[i-a] < f[j-a]
      BY <1>7, <1>9, <2>3, <3>1
    <3> QED
      BY <1>5, <3>2
  <2>4. CASE ~(i <= a) /\ j \in 1..a
    <3>1. a \in Nat /\ b \in Nat
      BY <1>4
    <3> QED
      BY <1>11, <2>4, <3>1
  <2>5. /\ i \in 1..a \/ (~(i <= a) /\ i - a \in 1..b)
        /\ j \in 1..a \/ (~(j <= a) /\ j - a \in 1..b)
    BY <1>4
  <2> QED
    BY <2>1, <2>2, <2>3, <2>4, <2>5, Zenon
<1>12. ASSUME NEW i \in 1..a+b PROVE W[i] = U[h[i]]
  <2>1. CASE i \in 1..a
    <3>1. h[i] = g[i] /\ g[i] \in 1..c
      BY <1>8, <2>1
    <3>2. W[i] = kept[i] /\ kept[i] = us[g[i]]
      BY <1>4, <1>6, <2>1
    <3>3. U[g[i]] = us[g[i]]
      BY <1>5, <3>1
    <3> QED
      BY <3>1, <3>2, <3>3
  <2>2. CASE i - a \in 1..b
    <3>1. a + (i - a) = i
      BY <1>4
    <3>2. h[i] = c + f[i-a] /\ f[i-a] \in 1..d /\ W[i] = vs[i-a] /\ vs[i-a] = ts[f[i-a]]
      BY <1>4, <1>7, <1>9, <2>2, <3>1
    <3> QED
      BY <1>5, <3>2
  <2> QED
    BY <1>4, <2>1, <2>2
<1>13. ASSUME NEW k \in 1..c+d, U[k].m # "request" PROVE \E i \in 1..a+b : h[i] = k
  <2>1. CASE k \in 1..c
    <3>1. us[k].m # "request"
      BY <1>5, <1>13, <2>1
    <3>2. PICK i \in 1..a : g[i] = k
      BY <1>6, <2>1, <3>1
    <3> QED
      BY <1>8, <3>2
  <2>2. CASE k - c \in 1..d
    <3>1. c + (k - c) = k
      BY <1>5
    <3>2. ts[k-c].m # "request"
      BY <1>5, <1>13, <2>2, <3>1
    <3>3. PICK i \in 1..b : f[i] = k - c
      BY <1>7, <2>2, <3>2
    <3>4. a + i \in 1..a+b /\ h[a+i] = k
      BY <1>9, <3>1, <3>3
    <3> QED
      BY <3>4
  <2> QED
    BY <1>5, <2>1, <2>2
<1>14. Thins(W, U, h)
  BY <1>4, <1>5, <1>10, <1>11, <1>12, <1>13 DEF Thins
<1> QED
  BY <1>4, <1>5, <1>14 DEF Thinned, W, U

(* Without, message by message.                                             *)
Dropping(h, n, ms, d) ==
    h \in [0..n -> Seq(Heards)] /\ h[0] = <<>>
    /\ \A i \in 1..n : h[i] = IF ms[i] = d THEN h[i-1] ELSE Append(h[i-1], ms[i])

LEMMA WithoutTrace ==
  ASSUME NEW n \in Nat, NEW ms \in [1..n -> Heards], NEW d
  PROVE  \E h : Dropping(h, n, ms, d) /\ Without(ms, d) = h[n]
<1> DEFINE C == Seq(Heards)
           step == [x \in (1..n) \X C |-> IF ms[x[1]] = d THEN x[2] ELSE Append(x[2], ms[x[1]])]
           E(iter) == iter = [s \in SUBSET DOMAIN ms |->
                                IF s = {} THEN <<>>
                                ELSE IF ms[Max(s)] = d THEN iter[s \ {Max(s)}]
                                     ELSE Append(iter[s \ {Max(s)}], ms[Max(s)])]
           iter == CHOOSE iter : E(iter)
<1>0. <<>> \in C
  BY EmptySeq
<1>1. step \in Steps(n, C)
  <2>1. ASSUME NEW i \in 1..n, NEW c \in C PROVE Append(c, ms[i]) \in C
    BY AppendProperties
  <2> HIDE DEF C
  <2> QED
    BY <2>1 DEF Steps
<1>2. \A i \in 1..n, c \in C : step[i, c] = IF ms[i] = d THEN c ELSE Append(c, ms[i])
  <2> HIDE DEF C
  <2> QED
    OBVIOUS
<1> HIDE DEF step
<1>3. PICK h : IsTrace(h, n, C, <<>>, step)
  <2> HIDE DEF C
  <2> QED
    BY <1>0, <1>1, TraceExists
<1>4. h \in [0..n -> C] /\ h[0] = <<>> /\ \A i \in 1..n : h[i] = step[i, h[i-1]]
  BY <1>3, Zenon DEF IsTrace
<1> HIDE DEF C
<1>5. ASSUME NEW i \in 1..n PROVE h[i] = IF ms[i] = d THEN h[i-1] ELSE Append(h[i-1], ms[i])
  <2>1. i - 1 \in 0..n
    OBVIOUS
  <2>2. h[i-1] \in C
    BY <1>4, <2>1
  <2> QED
    BY <1>2, <1>4, <2>2
<1>6. DOMAIN ms = 1..n
  OBVIOUS
<1>7. Without(ms, d) = iter[DOMAIN ms]
  BY Zenon DEF Without, FoldLeft, MapThenFoldSet
<1>8. E(iter)
  <2>1. PICK it \in [SUBSET (1..n) -> C] : Iterates(it, n, <<>>, step)
    BY <1>0, <1>1, IterExists
  <2>2. ASSUME NEW s \in SUBSET (1..n)
        PROVE  it[s] = IF s = {} THEN <<>>
                       ELSE IF ms[Max(s)] = d THEN it[s \ {Max(s)}]
                            ELSE Append(it[s \ {Max(s)}], ms[Max(s)])
    <3>1. CASE s = {}
      BY <2>1, <3>1 DEF Iterates
    <3>2. CASE s # {}
      <4>1. it[s] = step[Max(s), it[s \ {Max(s)}]]
        BY <2>1, <3>2 DEF Iterates
      <4>2. Max(s) \in 1..n /\ it[s \ {Max(s)}] \in C
        BY <3>2, MaxIsLast
      <4> QED
        BY <1>2, <3>2, <4>1, <4>2
    <3> QED
      BY <3>1, <3>2
  <2>3. E(it)
    <3>1. it = [s \in SUBSET (1..n) |-> it[s]]
      OBVIOUS
    <3> QED
      BY <1>6, <2>2, <3>1
  <2> QED
    BY <2>3, Zenon
<1>9. \A s \in SUBSET (1..n) :
         iter[s] = IF s = {} THEN <<>>
                   ELSE IF ms[Max(s)] = d THEN iter[s \ {Max(s)}]
                        ELSE Append(iter[s \ {Max(s)}], ms[Max(s)])
  <2> HIDE DEF iter
  <2> QED
    BY <1>6, <1>8
<1> HIDE DEF iter, E
<1>10. iter[First(0)] = h[0]
  <2>1. First(0) = {} /\ {} \in SUBSET (1..n)
    BY Firsts
  <2> QED
    BY <1>4, <1>9, <2>1
<1>11. ASSUME NEW i \in 1..n, iter[First(i - 1)] = h[i-1] PROVE iter[First(i)] = h[i]
  <2>1. /\ First(i) \in SUBSET (1..n) /\ First(i) # {}
        /\ Max(First(i)) = i /\ First(i) \ {i} = First(i - 1)
    BY Firsts
  <2>2. iter[First(i)] = IF ms[i] = d THEN iter[First(i - 1)] ELSE Append(iter[First(i - 1)], ms[i])
    BY <1>9, <2>1
  <2> QED
    BY <1>5, <1>11, <2>2
<1>12. iter[1..n] = h[n]
  BY <1>10, <1>11, FoldEnds
<1>13. Dropping(h, n, ms, d)
  BY <1>4, <1>5, Zenon DEF Dropping, C
<1> QED
  BY <1>6, <1>7, <1>12, <1>13

LEMMA WithoutThins ==
  ASSUME NEW ms \in Seq(Heards)
  PROVE  Thinned(Without(ms, Said("request")), ms)
<1> DEFINE n == Len(ms)
           d == Said("request")
<1>1. n \in Nat /\ ms \in [1..n -> Heards]
  <2>1. n \in Nat /\ DOMAIN ms = 1..n /\ \A i \in 1..n : ms[i] \in Heards
    BY LenProperties, ElementOfSeq
  <2>2. ms = [i \in 1..n |-> ms[i]]
    BY <2>1, LenProperties
  <2> QED
    BY <2>1, <2>2
<1> HIDE DEF n
<1>2. PICK h : Dropping(h, n, ms, d) /\ Without(ms, d) = h[n]
  <2> HIDE DEF d
  <2> QED
    BY <1>1, WithoutTrace
<1>3. /\ h \in [0..n -> Seq(Heards)] /\ h[0] = <<>>
      /\ \A i \in 1..n : h[i] = IF ms[i] = d THEN h[i-1] ELSE Append(h[i-1], ms[i])
  BY <1>2, Zenon DEF Dropping
<1> HIDE DEF d
<1> DEFINE Part(k, g) ==
               /\ g \in [1..Len(h[k]) -> 1..k]
               /\ \A i, j \in 1..Len(h[k]) : i < j => g[i] < g[j]
               /\ \A i \in 1..Len(h[k]) : h[k][i] = ms[g[i]]
               /\ \A j \in 1..k : ms[j] # d => \E i \in 1..Len(h[k]) : g[i] = j
           S == {k \in 0..n : \E g : Part(k, g)}
<1>4. 0 \in S
  <2>1. Len(h[0]) = 0
    BY <1>3, EmptySeq
  <2>2. Part(0, [i \in 1..Len(h[0]) |-> i])
    BY <2>1
  <2>3. 0 \in 0..n
    BY <1>1
  <2> HIDE DEF Part
  <2> QED
    BY <2>2, <2>3
<1>5. ASSUME NEW k \in 0..n-1, k \in S PROVE k + 1 \in S
  <2>1. k + 1 \in 1..n /\ k + 1 \in 0..n /\ k \in 0..n /\ k + 1 - 1 = k
    BY <1>1
  <2>2. PICK g : Part(k, g)
    BY <1>5
  <2>3. h[k+1] = IF ms[k+1] = d THEN h[k] ELSE Append(h[k], ms[k+1])
    BY <1>3, <2>1
  <2>4. CASE ms[k+1] = d
    <3>1. h[k+1] = h[k]
      BY <2>3, <2>4
    <3>2. g \in [1..Len(h[k]) -> 1..k+1]
      BY <2>1, <2>2
    <3>3. ASSUME NEW j \in 1..k+1, ms[j] # d PROVE \E i \in 1..Len(h[k]) : g[i] = j
      <4>1. j \in 1..k
        BY <2>1, <2>4, <3>3
      <4> QED
        BY <2>2, <3>3, <4>1
    <3>4. Part(k+1, g)
      BY <2>2, <3>1, <3>2, <3>3
    <3> HIDE DEF Part
    <3> QED
      BY <2>1, <3>4
  <2>5. CASE ms[k+1] # d
    <3> DEFINE l == Len(h[k])
               f == [i \in 1..l+1 |-> IF i = l + 1 THEN k + 1 ELSE g[i]]
    <3>1. h[k] \in Seq(Heards) /\ ms[k+1] \in Heards
      BY <1>1, <1>3, <2>1
    <3>2. h[k+1] = Append(h[k], ms[k+1])
      BY <2>3, <2>5
    <3>3. /\ Len(h[k+1]) = l + 1 /\ l \in Nat
          /\ (\A i \in 1..l : h[k+1][i] = h[k][i]) /\ h[k+1][l+1] = ms[k+1]
      <4>1. Len(Append(h[k], ms[k+1])) = l + 1 /\ l \in Nat
            /\ (\A i \in 1..l : Append(h[k], ms[k+1])[i] = h[k][i])
            /\ Append(h[k], ms[k+1])[l+1] = ms[k+1]
        BY <3>1, AppendProperties, LenProperties
      <4> HIDE DEF l
      <4> QED
        BY <3>2, <4>1, Zenon
    <3>4. /\ g \in [1..l -> 1..k] /\ (\A i, j \in 1..l : i < j => g[i] < g[j])
          /\ (\A i \in 1..l : h[k][i] = ms[g[i]])
          /\ \A j \in 1..k : ms[j] # d => \E i \in 1..l : g[i] = j
      BY <2>2
    <3> HIDE DEF l
    <3>5. \A i \in 1..l : i \in 1..l+1 /\ f[i] = g[i] /\ f[i] \in 1..k
      BY <3>3, <3>4
    <3>6. l + 1 \in 1..l+1 /\ f[l+1] = k + 1
      BY <3>3
    <3>7. \A i \in 1..l+1 : i = l + 1 \/ i \in 1..l
      BY <3>3
    <3>8. f \in [1..l+1 -> 1..k+1]
      BY <2>1, <3>4, <3>7
    <3> HIDE DEF f
    <3>9. ASSUME NEW i \in 1..l+1, NEW j \in 1..l+1, i < j PROVE f[i] < f[j]
      <4>1. i \in 1..l
        BY <3>3, <3>9
      <4>2. CASE j \in 1..l
        BY <3>4, <3>5, <3>9, <4>1, <4>2
      <4>3. CASE j = l + 1
        <5>1. f[i] \in 1..k /\ f[j] = k + 1
          BY <3>5, <3>6, <4>1, <4>3
        <5> QED
          BY <2>1, <5>1
      <4> QED
        BY <3>7, <4>2, <4>3
    <3>10. ASSUME NEW i \in 1..l+1 PROVE h[k+1][i] = ms[f[i]]
      <4>1. CASE i \in 1..l
        <5>1. h[k+1][i] = h[k][i] /\ f[i] = g[i] /\ h[k][i] = ms[g[i]]
          BY <3>3, <3>4, <3>5, <4>1
        <5> QED
          BY <5>1
      <4>2. CASE i = l + 1
        BY <3>3, <3>6, <4>2
      <4> QED
        BY <3>7, <4>1, <4>2
    <3>11. ASSUME NEW j \in 1..k+1, ms[j] # d PROVE \E i \in 1..l+1 : f[i] = j
      <4>1. CASE j = k + 1
        BY <3>6, <4>1
      <4>2. CASE j # k + 1
        <5>1. j \in 1..k
          BY <2>1, <4>2
        <5>2. PICK i \in 1..l : g[i] = j
          BY <3>4, <3>11, <5>1
        <5> QED
          BY <3>5, <5>2
      <4> QED
        BY <4>1, <4>2
    <3>12. Part(k+1, f)
      BY <3>3, <3>8, <3>9, <3>10, <3>11
    <3> HIDE DEF Part
    <3> QED
      BY <2>1, <3>12
  <2> QED
    BY <2>4, <2>5
<1>6. n \in S
  <2> HIDE DEF S
  <2>1. \A k \in 0..n : k \in S
    BY <1>1, <1>4, <1>5, CountUp
  <2> QED
    BY <1>1, <2>1
<1>7. PICK g : Part(n, g)
  BY <1>6
<1> DEFINE kept == h[n]
<1>8. kept \in Seq(Heards) /\ Without(ms, d) = kept
  BY <1>1, <1>2, <1>3
<1>9. \A k \in 1..n : ms[k].m # "request" => ms[k] # d
  BY DEF d, Said
<1>10. Thins(kept, ms, g)
  BY <1>7, <1>9 DEF Thins, n
<1> HIDE DEF kept
<1>11. Thinned(kept, ms)
  BY <1>8, <1>10 DEF Thinned
<1> QED
  BY <1>8, <1>11 DEF d
-----------------------------------------------------------------------------
(* The handshake.                                                           *)
ServerIs(p) ==
    /\ p.version \in Versions /\ p.repeater \in BOOLEAN
    /\ p.auth \in {"vnc", "none", "refused", "other"} /\ p.grants \in {"ok", "failed"}
InitStates ==
    {s \in [state : States, todo : Seq(Units), avail : Int, fbu : Fbus,
            out : {"go", "wait", "done", "thrown"}, say : Seq(Heards),
            lost : {"nothing"} \cup Excused] : WellSized(s.todo)}
(* A handler at work, at a point of the script.                             *)
Scripted(s, pt, end, p) ==
    /\ s \in InitStates /\ s.avail <= BytesOf(s.todo)
    /\ pt \in Points /\ Runs(pt, s.todo, end, p)
    /\ pt.stage # "messages" =>
         pt.at = Between(0) /\ s.fbu.rects = 0 /\ s.fbu.bytes = 0 /\ s.fbu.left = 0
Moved(s, state) == [s EXCEPT !.state = state]
Held(s) == [s EXCEPT !.out = "wait"]

LEMMA StagesLast ==
  ASSUME NEW us, Plain(us), NEW pt, NEW end, NEW p, Runs(pt, us, end, p), pt.stage = "messages"
  PROVE  end.stage = "messages"
<1> DEFINE n == Len(us)
<1>1. n \in Nat
  BY LenProperties DEF Plain
<1> HIDE DEF n
<1>2. PICK h \in [0..n -> Points] : h[0] = pt /\ h[n] = end /\ Leads(h, us, p)
  BY DEF Runs, n
<1> DEFINE S == {k \in 0..n : h[k].stage = "messages"}
<1>3. 0 \in S
  BY <1>1, <1>2
<1>4. ASSUME NEW k \in 0..n-1, k \in S PROVE k + 1 \in S
  <2>1. k + 1 \in 1..n /\ k + 1 \in 0..n /\ k + 1 - 1 = k
    BY <1>1
  <2>2. h[k+1] = Onward(h[k], us[k+1], p)
    BY <1>2, <2>1 DEF Leads, n
  <2>3. h[k].stage = "messages"
    BY <1>4
  <2>4. NextStage(h[k].stage, us[k+1], p) = "messages"
    BY <2>3 DEF NextStage
  <2>5. h[k+1].stage = "messages"
    BY <2>2, <2>4, PointIs DEF Onward
  <2> QED
    BY <2>1, <2>5
<1> HIDE DEF S
<1>5. n \in S
  <2>1. \A k \in 0..n : k \in S
    BY <1>1, <1>3, <1>4, CountUp
  <2> QED
    BY <1>1, <2>1
<1> QED
  BY <1>2, <1>5 DEF S

LEMMA InitStateIs ==
  ASSUME NEW s \in InitStates
  PROVE  /\ s.state \in States /\ s.todo \in Seq(Units) /\ Plain(s.todo) /\ s.avail \in Int
         /\ s.fbu \in Fbus /\ s.out \in {"go", "wait", "done", "thrown"} /\ s.say \in Seq(Heards)
         /\ s.lost \in {"nothing"} \cup Excused
BY DEF InitStates, Plain

LEMMA MovedReads ==
  ASSUME NEW s \in InitStates, NEW state \in States, NEW t, t = Moved(s, state)
  PROVE  /\ t \in InitStates /\ t.state = state /\ t.todo = s.todo /\ t.avail = s.avail /\ t.fbu = s.fbu
         /\ t.out = s.out /\ t.say = s.say /\ t.lost = s.lost
         /\ \A pt, end, p : Scripted(s, pt, end, p) => Scripted(t, pt, end, p)
<1>1. /\ t \in InitStates /\ t.state = state /\ t.todo = s.todo /\ t.avail = s.avail /\ t.fbu = s.fbu
      /\ t.out = s.out /\ t.say = s.say /\ t.lost = s.lost
  BY DEF Moved, InitStates
<1> QED
  BY <1>1 DEF Scripted

LEMMA HeldReads ==
  ASSUME NEW s \in InitStates, NEW t, t = Held(s)
  PROVE  /\ t \in InitStates /\ t.state = s.state /\ t.todo = s.todo /\ t.avail = s.avail /\ t.fbu = s.fbu
         /\ t.say = s.say /\ t.lost = s.lost /\ t.out = "wait"
         /\ \A pt, end, p : Scripted(s, pt, end, p) => Scripted(t, pt, end, p)
<1>1. /\ t \in InitStates /\ t.state = s.state /\ t.todo = s.todo /\ t.avail = s.avail /\ t.fbu = s.fbu
      /\ t.say = s.say /\ t.lost = s.lost /\ t.out = "wait"
  BY DEF Held, InitStates
<1> QED
  BY <1>1 DEF Scripted

LEMMA SaysReads ==
  ASSUME NEW s \in InitStates, NEW m \in Words, NEW t, t = Say(s, m)
  PROVE  /\ t \in InitStates /\ t.state = s.state /\ t.todo = s.todo /\ t.avail = s.avail /\ t.fbu = s.fbu
         /\ t.out = s.out /\ t.lost = s.lost /\ t.say = Append(s.say, Said(m))
         /\ \A pt, end, p : Scripted(s, pt, end, p) => Scripted(t, pt, end, p)
<1> DEFINE ms == Append(s.say, Said(m))
<1>1. ms \in Seq(Heards)
  <2>1. Said(m) \in Heards /\ s.say \in Seq(Heards)
    BY InitStateIs DEF Said, Heards
  <2> QED
    BY <2>1, AppendProperties
<1>2. t = [s EXCEPT !.say = ms]
  BY DEF Say, InitStates
<1> HIDE DEF ms
<1>3. /\ t \in InitStates /\ t.state = s.state /\ t.todo = s.todo /\ t.avail = s.avail /\ t.fbu = s.fbu
      /\ t.out = s.out /\ t.lost = s.lost /\ t.say = ms
  BY <1>1, <1>2 DEF InitStates
<1> QED
  BY <1>3 DEF Scripted, ms

LEMMA TakesReads ==
  ASSUME NEW s, NEW pt, NEW end, NEW p, Scripted(s, pt, end, p), s.todo # <<>>, pt.stage # "messages"
  PROVE  LET u == Head(s.todo)
             t == Take(s)
         IN  /\ u \in Units /\ Admits(pt, u)
             /\ Scripted(t, Onward(pt, u, p), end, p) /\ Onward(pt, u, p) = Point(NextStage(pt.stage, u, p), Between(0))
             /\ t.fbu = s.fbu /\ t.say = s.say /\ t.state = s.state /\ t.out = s.out /\ t.lost = s.lost
<1> DEFINE u == Head(s.todo)
           t == Take(s)
           to == Onward(pt, u, p)
<1>1. s \in InitStates /\ Plain(s.todo) /\ s.avail \in Int
  BY InitStateIs DEF Scripted
<1>2. u = s.todo[1] /\ Plain(Tail(s.todo)) /\ 1 \in 1..Len(s.todo)
  BY <1>1, PlainTail
<1>3. u \in Units /\ Size(u) \in Nat \ {0}
  BY <1>1, <1>2, UnitIs
<1>4. /\ BytesOf(Tail(s.todo)) \in Nat /\ BytesOf(s.todo) = Size(u) + BytesOf(Tail(s.todo))
  BY <1>1, <1>2, BytesTail
<1>5. Admits(pt, u) /\ to \in Points /\ Runs(to, Tail(s.todo), end, p)
  BY <1>1, <1>2, RunsTail DEF Scripted
<1>6. t = [s EXCEPT !.todo = Tail(s.todo), !.avail = s.avail - Size(u)]
  BY <1>1 DEF Take, InitStates
<1>7. /\ t.todo = Tail(s.todo) /\ t.avail = s.avail - Size(u) /\ t.fbu = s.fbu /\ t.say = s.say
      /\ t.out = s.out /\ t.state = s.state /\ t.lost = s.lost /\ t \in InitStates
  <2>1. Tail(s.todo) \in Seq(Units) /\ WellSized(Tail(s.todo)) /\ s.avail - Size(u) \in Int
    BY <1>1, <1>2, <1>3 DEF Plain
  <2> HIDE DEF t, u
  <2> QED
    BY <1>1, <1>6, <2>1 DEF InitStates
<1>8. t.avail <= BytesOf(t.todo)
  <2> HIDE DEF t, u
  <2> QED
    BY <1>1, <1>3, <1>4, <1>7 DEF Scripted
<1>9. to = Point(NextStage(pt.stage, u, p), Between(0))
  BY Zenon DEF Onward
<1>10. to.at = Between(0) /\ s.fbu.rects = 0 /\ s.fbu.bytes = 0 /\ s.fbu.left = 0
  BY <1>9, PointIs DEF Scripted
<1>11. Scripted(t, to, end, p)
  <2> HIDE DEF t, u, to
  <2> QED
    BY <1>5, <1>7, <1>8, <1>10 DEF Scripted
<1> QED
  BY <1>3, <1>5, <1>7, <1>9, <1>11

(* What a handler of the handshake leaves: a place the server knows.        *)
Settled(r, pt, end, p) ==
    \E q \in Points : /\ Scripted(r, q, end, p) /\ Stands(r.state, r.fbu, r.todo, q)
                      /\ q.stage # "messages" => pt.stage # "messages"
Greeting == Handshake \cup {"normal", "failed"}
Settles(s, r, pt, end, p) ==
    /\ r \in InitStates /\ r.lost \in {"nothing", "password"}
    /\ r.lost = "nothing" => Settled(r, pt, end, p)
    /\ r.state \in Greeting
    /\ r.state = "normal" => r.lost = "nothing" /\ pt.stage = "init"
    /\ r.state = "password" => p.auth = "vnc"
    /\ r.state = "Authentication" => p.auth \in {"vnc", "refused"}
    /\ r.state \in {"connect", "ProtocolVersion", "Security"} => s.state \in {"ProtocolVersion", "Security"}

(* A handler that stays, or that takes what the next state expects.         *)
LEMMA StaysPut ==
  ASSUME NEW s, NEW pt, NEW end, NEW p, Scripted(s, pt, end, p), s.lost = "nothing",
         Stands(s.state, s.fbu, s.todo, pt), s.state \in Handshake,
         s.state = "password" => p.auth = "vnc",
         s.state = "Authentication" => p.auth \in {"vnc", "refused"},
         NEW r, r = Wait(s)
  PROVE  Settles(s, r, pt, end, p) /\ r.say = s.say
<1>1. s \in InitStates /\ pt \in Points
  BY DEF Scripted
<1>2. r = Held(s)
  BY DEF Wait, Held
<1>3. /\ r \in InitStates /\ r.state = s.state /\ r.todo = s.todo /\ r.fbu = s.fbu /\ r.lost = s.lost /\ r.say = s.say
      /\ Scripted(r, pt, end, p)
  BY <1>1, <1>2, HeldReads
<1>4. Settled(r, pt, end, p)
  BY <1>1, <1>3 DEF Settled
<1> QED
  BY <1>3, <1>4 DEF Settles, Handshake, Greeting

LEMMA FailsSettled ==
  ASSUME NEW s, NEW pt, NEW end, NEW p, Scripted(s, pt, end, p), s.lost = "nothing",
         NEW r, r = Fail(s)
  PROVE  Settles(s, r, pt, end, p) /\ r.say = s.say /\ r.state = "failed"
<1> DEFINE t == Moved(s, "failed")
<1>1. s \in InitStates /\ pt \in Points
  BY DEF Scripted
<1>2. r = Held(t)
  BY <1>1 DEF Fail, Moved, Held, InitStates
<1>3. "failed" \in States
  BY DEF States
<1>4. /\ t \in InitStates /\ t.state = "failed" /\ t.lost = s.lost /\ t.fbu = s.fbu /\ t.todo = s.todo
      /\ t.say = s.say /\ Scripted(t, pt, end, p)
  BY <1>1, <1>3, MovedReads
<1> HIDE DEF t
<1>5. /\ r \in InitStates /\ r.state = "failed" /\ r.lost = "nothing" /\ r.say = s.say /\ r.fbu = s.fbu
      /\ Scripted(r, pt, end, p)
  BY <1>2, <1>4, HeldReads
<1>6. Stands(r.state, r.fbu, r.todo, pt)
  BY <1>5 DEF Stands, Scripted
<1>7. Settled(r, pt, end, p)
  BY <1>1, <1>5, <1>6 DEF Settled
<1> QED
  BY <1>5, <1>7 DEF Settles, Greeting

(* A handler that moves on.                                                 *)
MayMove(state, s0, s, at, pt, p) ==
    /\ state \in Greeting /\ s.lost = "nothing"
    /\ at.stage # "messages" => pt.stage # "messages"
    /\ state = "ProtocolVersion" => at.stage = "version"
    /\ state = "Security" => at.stage = "security"
    /\ state = "SecurityResult" => at.stage = "result"
    /\ state = "ServerInitialisation" => at.stage = "init"
    /\ state = "normal" => /\ at.stage = "messages" /\ at.at = Between(0) /\ pt.stage = "init"
                           /\ s.fbu.rects = 0 /\ s.fbu.bytes = 0 /\ s.fbu.left = 0
    /\ state = "password" => p.auth = "vnc"
    /\ state = "Authentication" => p.auth \in {"vnc", "refused"}
    /\ state \in {"ProtocolVersion", "Security"} => s0.state \in {"ProtocolVersion", "Security"}

LEMMA MovesOn ==
  ASSUME NEW s, NEW s0, NEW pt, NEW at, NEW end, NEW p, Scripted(s, at, end, p),
         NEW state, MayMove(state, s0, s, at, pt, p), NEW r, r = Moved(s, state)
  PROVE  Settles(s0, r, pt, end, p) /\ r.say = s.say /\ r.state = state
<1>1. s \in InitStates /\ at \in Points
  BY DEF Scripted
<1>2. state \in States
  BY DEF States, Greeting, MayMove
<1>3. /\ r \in InitStates /\ r.state = state /\ r.todo = s.todo /\ r.fbu = s.fbu /\ r.lost = s.lost /\ r.say = s.say
      /\ Scripted(r, at, end, p)
  BY <1>1, <1>2, MovedReads
<1>4. state = "normal" => Matches(r.fbu, at.at, r.todo) /\ at.stage = "messages"
  <2>2. Between(0).rects = 0 /\ Between(0).left = 0
    BY BetweenIs
  <2> QED
    BY <1>3, <2>2 DEF Matches, MayMove
<1>5. state # "connect"
  BY DEF Greeting, Handshake, MayMove
<1>6. Stands(r.state, r.fbu, r.todo, at)
  BY <1>3, <1>4, <1>5 DEF Stands, Scripted, MayMove
<1>7. Settled(r, pt, end, p)
  BY <1>1, <1>3, <1>6 DEF Settled, MayMove
<1> QED
  BY <1>3, <1>5, <1>7 DEF Settles, MayMove

(* Saying something changes nothing of that.                                *)
LEMMA SaysSettled ==
  ASSUME NEW s, NEW r, NEW pt, NEW end, NEW p, Settles(s, r, pt, end, p), NEW m \in Words,
         NEW t, t = Say(r, m)
  PROVE  Settles(s, t, pt, end, p) /\ t.say = Append(r.say, Said(m)) /\ t.state = r.state
<1>1. r \in InitStates
  BY DEF Settles
<1>2. /\ t \in InitStates /\ t.state = r.state /\ t.todo = r.todo /\ t.fbu = r.fbu /\ t.lost = r.lost
      /\ t.say = Append(r.say, Said(m))
      /\ \A q : Scripted(r, q, end, p) => Scripted(t, q, end, p)
  BY <1>1, SaysReads
<1>3. Settled(r, pt, end, p) => Settled(t, pt, end, p)
  BY <1>2 DEF Settled
<1> QED
  BY <1>2, <1>3 DEF Settles

LEMMA ClientInitialisationSettles ==
  ASSUME NEW s, NEW s0, NEW pt, NEW at, NEW end, NEW p, Scripted(s, at, end, p), s.lost = "nothing",
         at.stage = "init", pt.stage # "messages",
         NEW r, r = ClientInitialisation(s)
  PROVE  Settles(s0, r, pt, end, p) /\ r.say = Append(s.say, Said("clientinit")) /\ r.state = "ServerInitialisation"
<1> DEFINE t == Moved(s, "ServerInitialisation")
<1>1. "ServerInitialisation" \in Greeting /\ "clientinit" \in Words /\ "ServerInitialisation" \in States
  BY DEF Greeting, Handshake, Words, States
<1>2. MayMove("ServerInitialisation", s0, s, at, pt, p)
  BY <1>1 DEF MayMove
<1>3. r = Say(t, "clientinit")
  BY DEF ClientInitialisation, Moved
<1>4. Settles(s0, t, pt, end, p) /\ t.say = s.say /\ t.state = "ServerInitialisation"
  BY <1>2, MovesOn
<1> HIDE DEF t
<1> QED
  BY <1>1, <1>3, <1>4, SaysSettled

MayAsk(s, pt, at, end, p) ==
    /\ Scripted(s, at, end, p) /\ s.lost = "nothing" /\ s.state = "Authentication"
    /\ at.stage # "messages" => pt.stage # "messages"
    /\ p.auth \in {"vnc", "refused"} \/ (at.stage = AfterTypes(p) /\ pt.stage # "messages")
Replied(said, r, p) ==
    \/ r.say = said /\ r.state \in {"failed", "Authentication", "password"}
    \/ r.say = said /\ p.auth = "none" /\ r.state = "SecurityResult"
    \/ r.say = Append(said, Said("clientinit")) /\ p.auth = "none" /\ r.state = "ServerInitialisation"
    \/ r.say = Append(said, Said("response")) /\ p.auth = "vnc" /\ r.state = "SecurityResult"

LEMMA AuthenticationSettles ==
  ASSUME NEW s, NEW s0, NEW pt, NEW at, NEW end, NEW p, ServerIs(p), NEW known,
         MayAsk(s, pt, at, end, p), NEW r, r = Authentication(s, p, known)
  PROVE  Settles(s0, r, pt, end, p) /\ Replied(s.say, r, p)
<1>0. /\ Scripted(s, at, end, p) /\ s.lost = "nothing" /\ s.state = "Authentication"
      /\ at.stage # "messages" => pt.stage # "messages"
      /\ p.auth \in {"vnc", "refused"} \/ (at.stage = AfterTypes(p) /\ pt.stage # "messages")
  BY DEF MayAsk
<1> USE DEF Replied
<1>1. s \in InitStates /\ at \in Points /\ Plain(s.todo) /\ s.avail \in Int
  BY <1>0, InitStateIs DEF Scripted
<1>2. Settles(s0, Fail(s), pt, end, p) /\ Fail(s).say = s.say /\ Fail(s).state = "failed"
  <2> DEFINE t == Fail(s)
  <2>1. Settles(s, t, at, end, p) /\ t.say = s.say /\ t.state = "failed"
    BY <1>0, FailsSettled
  <2> HIDE DEF t
  <2>2. Settled(t, at, end, p) => Settled(t, pt, end, p)
    BY <1>0 DEF Settled
  <2>3. Settles(s0, t, pt, end, p)
    BY <1>0, <2>1, <2>2 DEF Settles
  <2> QED
    BY <1>0, <2>1, <2>3 DEF t
<1>3. ASSUME p.auth \in {"vnc", "refused"}
      PROVE  Settles(s0, Wait(s), pt, end, p) /\ Wait(s).say = s.say /\ Wait(s).state = "Authentication"
  <2> DEFINE t == Held(s)
  <2>1. /\ t \in InitStates /\ t.state = s.state /\ t.todo = s.todo /\ t.fbu = s.fbu /\ t.lost = s.lost /\ t.say = s.say
        /\ Scripted(t, at, end, p)
    BY <1>0, <1>1, HeldReads
  <2>2. Wait(s) = t
    BY <1>0 DEF Wait, Held
  <2> HIDE DEF t
  <2>3. Stands(t.state, t.fbu, t.todo, at)
    BY <1>0, <2>1 DEF Stands, Scripted
  <2>4. Settled(t, pt, end, p)
    BY <1>0, <1>1, <2>1, <2>3 DEF Settled
  <2>5. Settles(s0, t, pt, end, p)
    BY <1>0, <1>3, <2>1, <2>4 DEF Settles, Greeting, Handshake
  <2> QED
    BY <1>0, <2>1, <2>2, <2>5
<1>4. CASE p.auth = "refused"
  <2>1. r = IF Lacks(s, 4) THEN Wait(s) ELSE Fail(s)
    BY <1>0, <1>4 DEF Authentication
  <2> QED
    BY <1>0, <1>2, <1>3, <1>4, <2>1, Zenon
<1>5. CASE p.auth = "other"
  <2>1. r = Fail(s)
    BY <1>0, <1>5 DEF Authentication
  <2> QED
    BY <1>0, <1>2, <2>1
<1>6. CASE p.auth = "none"
  <2>1. at.stage = (IF p.version = "3.8" THEN "result" ELSE "init") /\ pt.stage # "messages"
    BY <1>0, <1>6 DEF AfterTypes
  <2>2. CASE p.version = "3.8"
    <3>1. r = Moved(s, "SecurityResult")
      BY <1>0, <1>6, <2>2 DEF Authentication, Moved
    <3>2. MayMove("SecurityResult", s0, s, at, pt, p)
      BY <1>0, <2>1, <2>2 DEF MayMove, Greeting, Handshake
    <3>3. Settles(s0, r, pt, end, p) /\ r.say = s.say /\ r.state = "SecurityResult"
      BY <1>0, <3>1, <3>2, MovesOn
    <3> QED
      BY <1>0, <1>6, <3>3
  <2>3. CASE p.version # "3.8"
    <3>1. r = ClientInitialisation(s)
      BY <1>0, <1>6, <2>3 DEF Authentication
    <3> QED
      BY <1>0, <1>6, <2>1, <2>3, <3>1, ClientInitialisationSettles
  <2> QED
    BY <1>0, <2>2, <2>3
<1>7. CASE p.auth = "vnc"
  <2>1. CASE ~known
    <3>1. r = Moved(s, "password")
      BY <1>0, <1>7, <2>1 DEF Authentication, Moved
    <3>2. MayMove("password", s0, s, at, pt, p)
      BY <1>0, <1>7 DEF MayMove, Greeting, Handshake
    <3>3. Settles(s0, r, pt, end, p) /\ r.say = s.say /\ r.state = "password"
      BY <1>0, <3>1, <3>2, MovesOn
    <3> QED
      BY <1>0, <3>3
  <2>2. CASE known /\ Lacks(s, 16)
    <3>1. r = Wait(s)
      BY <1>0, <1>7, <2>2 DEF Authentication
    <3> QED
      BY <1>0, <1>3, <1>7, <3>1
  <2>3. CASE known /\ ~Lacks(s, 16) /\ Head(s.todo).k = "challenge"
    <3> DEFINE u == Head(s.todo)
               t == Moved(Take(s), "SecurityResult")
    <3>1. r = Say(t, "response")
      BY <1>0, <1>7, <2>3 DEF Authentication, Moved
    <3>2. s.todo # <<>>
      BY <1>0, <1>1, <2>3, BytesNone DEF Lacks, Scripted
    <3>3. u = s.todo[1] /\ Admits(at, u)
      BY <1>0, <1>1, <3>2, PlainTail, RunsTail DEF Scripted
    <3>4. at.stage = "challenge"
      BY <1>0, <2>3, <3>3 DEF Admits, Suits
    <3>5. /\ Scripted(Take(s), Onward(at, u, p), end, p)
          /\ Onward(at, u, p) = Point(NextStage(at.stage, u, p), Between(0))
          /\ Take(s).say = s.say /\ Take(s).lost = "nothing"
      BY <1>0, <3>2, <3>4, TakesReads
    <3>6. Onward(at, u, p).stage = "result"
      BY <1>0, <3>4, <3>5, PointIs DEF NextStage
    <3>7. MayMove("SecurityResult", s0, Take(s), Onward(at, u, p), pt, p)
      BY <1>0, <3>4, <3>5, <3>6 DEF MayMove, Greeting, Handshake
    <3> HIDE DEF u
    <3>8. Settles(s0, t, pt, end, p) /\ t.say = s.say /\ t.state = "SecurityResult"
      BY <1>0, <3>5, <3>7, MovesOn
    <3>9. "response" \in Words
      BY <1>0 DEF Words
    <3> HIDE DEF t
    <3>10. Settles(s0, r, pt, end, p) /\ r.say = Append(t.say, Said("response")) /\ r.state = t.state
      BY <3>1, <3>8, <3>9, SaysSettled
    <3> QED
      BY <1>7, <3>8, <3>10
  <2>4. CASE known /\ ~Lacks(s, 16) /\ Head(s.todo).k # "challenge"
    <3> DEFINE t == [s EXCEPT !.state = "SecurityResult", !.lost = "password"]
    <3>1. r = Say(t, "response")
      BY <1>0, <1>7, <2>4 DEF Authentication
    <3>2. t \in InitStates /\ t.state = "SecurityResult" /\ t.lost = "password" /\ t.say = s.say
      BY <1>0, <1>1 DEF InitStates, States, Handshake, Excused
    <3>3. Settles(s0, t, pt, end, p)
      BY <1>0, <3>2 DEF Settles, Greeting, Handshake
    <3>4. "response" \in Words
      BY <1>0 DEF Words
    <3> HIDE DEF t
    <3>5. Settles(s0, r, pt, end, p) /\ r.say = Append(t.say, Said("response")) /\ r.state = t.state
      BY <3>1, <3>3, <3>4, SaysSettled
    <3> QED
      BY <1>7, <3>2, <3>5
  <2> QED
    BY <1>0, <2>1, <2>2, <2>3, <2>4
<1> QED
  BY <1>0, <1>4, <1>5, <1>6, <1>7 DEF ServerIs

Types(from, p) == IF from = "Security" /\ p.version # "3.3" THEN <<Said("type")>> ELSE <<>>
(* What is said on the way from one state to another.                       *)
Spoke(from, to, ms, p) ==
    \/ ms = <<>> /\ to \in {from, "failed"}
    \/ from = "ProtocolVersion" /\ to = from /\ ms = <<Said("repeater")>>
    \/ from = "ProtocolVersion" /\ to = "Security" /\ ms = <<Said("version")>>
    \/ /\ from \in {"Security", "Authentication"}
       /\ \/ ms = Types(from, p) /\ to \in {"failed", "Authentication", "password"}
          \/ ms = Types(from, p) /\ p.auth = "none" /\ to = "SecurityResult"
          \/ ms = Append(Types(from, p), Said("clientinit")) /\ p.auth = "none" /\ to = "ServerInitialisation"
          \/ ms = Append(Types(from, p), Said("response")) /\ p.auth = "vnc" /\ to = "SecurityResult"
    \/ from = "SecurityResult" /\ to = "ServerInitialisation" /\ ms = <<Said("clientinit")>>
    \/ from = "ServerInitialisation" /\ to = "normal" /\ ms = <<Said("setup")>>

(* init_msg is called: some of what the server sent is in rQ.               *)
Called(s, pt, end, p) ==
    /\ Scripted(s, pt, end, p) /\ Stands(s.state, s.fbu, s.todo, pt)
    /\ s.lost = "nothing" /\ s.say = <<>>
    /\ s.state = "Authentication" => p.auth \in {"vnc", "refused"}
    /\ s.state = "Security" => s.todo # <<>>

LEMMA AvailSome ==
  ASSUME NEW s, NEW pt, NEW end, NEW p, Scripted(s, pt, end, p), NEW n \in Nat \ {0}, ~Lacks(s, n)
  PROVE  s.todo # <<>>
<1>1. s \in InitStates /\ s.avail \in Int
  BY InitStateIs DEF Scripted
<1> QED
  BY <1>1, BytesNone DEF Lacks, Scripted

LEMMA ProtocolVersionSettles ==
  ASSUME NEW s, NEW pt, NEW end, NEW p, Called(s, pt, end, p), s.state = "ProtocolVersion",
         NEW r, r = ProtocolVersion(s, p)
  PROVE  Settles(s, r, pt, end, p) /\ Spoke(s.state, r.state, r.say, p)
<1>1. Scripted(s, pt, end, p) /\ s.lost = "nothing" /\ s.say = <<>> /\ pt.stage = "version"
  BY DEF Called, Stands
<1>2. CASE Lacks(s, 12) \/ Head(s.todo).v = "unknown"
  <2>1. r = Fail(s)
    BY <1>2 DEF ProtocolVersion
  <2>2. Settles(s, r, pt, end, p) /\ r.say = s.say /\ r.state = "failed"
    BY <1>1, <2>1, FailsSettled
  <2> QED
    BY <1>1, <2>2 DEF Spoke
<1>3. CASE ~(Lacks(s, 12) \/ Head(s.todo).v = "unknown")
  <2> DEFINE u == Head(s.todo)
             t == Take(s)
             to == Onward(pt, u, p)
  <2>1. s.todo # <<>>
    BY <1>1, <1>3, AvailSome
  <2>2. /\ Scripted(t, to, end, p) /\ to = Point(NextStage(pt.stage, u, p), Between(0))
        /\ t.say = <<>> /\ t.state = s.state /\ t.lost = "nothing"
    BY <1>1, <2>1, TakesReads
  <2>3. to.stage = IF u.v = "repeater" THEN "version" ELSE "security"
    BY <1>1, <2>2, PointIs DEF NextStage
  <2>4. "repeater" \in Words /\ "version" \in Words
    BY DEF Words
  <2>5. CASE u.v = "repeater"
    <3>1. r = Say(t, "repeater")
      BY <1>3, <2>5 DEF ProtocolVersion
    <3>2. t \in InitStates
      BY <2>2 DEF Scripted
    <3> HIDE DEF u, t, to
    <3>3. t = Moved(t, "ProtocolVersion")
      BY <2>2, <3>2 DEF Moved, InitStates
    <3>4. MayMove("ProtocolVersion", s, t, to, pt, p)
      BY <1>1, <2>2, <2>3, <2>5 DEF MayMove, Greeting, Handshake
    <3>5. Settles(s, t, pt, end, p)
      BY <2>2, <3>3, <3>4, MovesOn
    <3>6. Settles(s, r, pt, end, p) /\ r.say = Append(t.say, Said("repeater")) /\ r.state = t.state
      BY <2>4, <3>1, <3>5, SaysSettled
    <3>7. r.say = <<Said("repeater")>>
      BY <2>2, <3>6
    <3> QED
      BY <2>2, <3>6, <3>7 DEF Spoke
  <2>6. CASE u.v # "repeater"
    <3> DEFINE w == Moved(t, "Security")
    <3>1. r = Say(w, "version")
      BY <1>3, <2>6 DEF ProtocolVersion, Moved
    <3> HIDE DEF u, t, to
    <3>2. MayMove("Security", s, t, to, pt, p)
      BY <1>1, <2>2, <2>3, <2>6 DEF MayMove, Greeting, Handshake
    <3>a. w = Moved(t, "Security")
      OBVIOUS
    <3> HIDE DEF w
    <3>b. Settles(s, w, pt, end, p) /\ w.say = t.say /\ w.state = "Security"
      BY <2>2, <3>2, <3>a, MovesOn
    <3>3. Settles(s, w, pt, end, p) /\ w.say = <<>> /\ w.state = "Security"
      BY <2>2, <3>b
    <3>4. Settles(s, r, pt, end, p) /\ r.say = Append(w.say, Said("version")) /\ r.state = w.state
      BY <2>4, <3>1, <3>3, SaysSettled
    <3>5. r.say = <<Said("version")>>
      BY <3>3, <3>4
    <3> QED
      BY <3>3, <3>4, <3>5 DEF Spoke
  <2> QED
    BY <2>5, <2>6
<1> QED
  BY <1>2, <1>3

LEMMA SecuritySettles ==
  ASSUME NEW s, NEW pt, NEW end, NEW p, ServerIs(p), NEW known, Called(s, pt, end, p), s.state = "Security",
         NEW r, r = Security(s, p, known)
  PROVE  Settles(s, r, pt, end, p) /\ Spoke(s.state, r.state, r.say, p)
<1>1. Scripted(s, pt, end, p) /\ s.lost = "nothing" /\ s.say = <<>> /\ pt.stage = "security" /\ s.todo # <<>>
  BY DEF Called, Stands
<1>2. CASE Missing(s) # {}
  <2>1. r = Wait(s)
    BY <1>2 DEF Security
  <2>2. Settles(s, r, pt, end, p) /\ r.say = s.say
    <3>1. s.state \in Handshake /\ s.state # "password" /\ s.state # "Authentication"
      BY DEF Handshake
    <3> QED
      BY <1>1, <2>1, <3>1, StaysPut DEF Called
  <2>3. r.state = s.state
    <3>1. s \in InitStates
      BY <1>1 DEF Scripted
    <3>2. r = Held(s)
      BY <2>1 DEF Wait, Held
    <3> QED
      BY <3>1, <3>2, HeldReads
  <2> QED
    BY <1>1, <2>2, <2>3 DEF Spoke
<1>3. CASE Missing(s) = {} /\ p.version # "3.3" /\ p.auth \in {"refused", "other"}
  <2>1. r = Fail(s)
    BY <1>3 DEF Security
  <2>2. Settles(s, r, pt, end, p) /\ r.say = s.say /\ r.state = "failed"
    BY <1>1, <2>1, FailsSettled
  <2> QED
    BY <1>1, <2>2 DEF Spoke
<1>4. CASE Missing(s) = {} /\ ~(p.version # "3.3" /\ p.auth \in {"refused", "other"})
  <2> DEFINE u == Head(s.todo)
             t == Take(s)
             to == Onward(pt, u, p)
             w == Moved(t, "Authentication")
             y == IF p.version = "3.3" THEN w ELSE Say(w, "type")
  <2>1. r = Authentication(y, p, known)
    BY <1>4 DEF Security, Moved
  <2>2. /\ Scripted(t, to, end, p) /\ to = Point(NextStage(pt.stage, u, p), Between(0))
        /\ t.say = <<>> /\ t.state = s.state /\ t.lost = "nothing" /\ t \in InitStates
    BY <1>1, TakesReads DEF Scripted
  <2>3. to.stage = AfterTypes(p)
    BY <1>1, <2>2, PointIs DEF NextStage
  <2>4. "type" \in Words /\ "Authentication" \in States
    BY DEF Words, States, Handshake
  <2> HIDE DEF t, u, to
  <2>5. /\ Scripted(w, to, end, p) /\ w.say = <<>> /\ w.state = "Authentication" /\ w.lost = "nothing"
        /\ w \in InitStates
    BY <2>2, <2>4, MovedReads
  <2> HIDE DEF w
  <2>6. /\ Scripted(y, to, end, p) /\ y.state = "Authentication" /\ y.lost = "nothing"
        /\ y.say = Types("Security", p)
    <3>1. CASE p.version = "3.3"
      BY <2>5, <3>1 DEF Types
    <3>2. CASE p.version # "3.3"
      <4>1. y = Say(w, "type")
        BY <3>2
      <4> HIDE DEF y
      <4>2. Scripted(y, to, end, p) /\ y.state = w.state /\ y.lost = w.lost /\ y.say = Append(w.say, Said("type"))
        BY <2>4, <2>5, <4>1, SaysReads
      <4>3. y.say = <<Said("type")>>
        BY <2>5, <4>2
      <4> QED
        BY <2>5, <3>2, <4>2, <4>3 DEF Types
    <3> QED
      BY <3>1, <3>2
  <2> HIDE DEF y
  <2>7. pt.stage # "messages"
    BY <1>1
  <2>8. MayAsk(y, pt, to, end, p)
    BY <2>3, <2>6, <2>7 DEF MayAsk
  <2>9. Settles(s, r, pt, end, p) /\ Replied(y.say, r, p)
    BY <2>1, <2>8, AuthenticationSettles
  <2> QED
    BY <2>6, <2>9 DEF Spoke, Replied
<1> QED
  BY <1>2, <1>3, <1>4

LEMMA DirectlySettles ==
  ASSUME NEW s, NEW pt, NEW end, NEW p, ServerIs(p), NEW known, Called(s, pt, end, p), s.state = "Authentication",
         NEW r, r = Authentication(s, p, known)
  PROVE  Settles(s, r, pt, end, p) /\ Spoke(s.state, r.state, r.say, p)
<1>1. Scripted(s, pt, end, p) /\ s.lost = "nothing" /\ s.say = <<>> /\ p.auth \in {"vnc", "refused"}
  BY DEF Called
<1>a. MayAsk(s, pt, pt, end, p)
  BY <1>1 DEF MayAsk
<1>2. Settles(s, r, pt, end, p) /\ Replied(s.say, r, p)
  BY <1>a, AuthenticationSettles
<1>3. s.say = Types(s.state, p)
  BY <1>1 DEF Types
<1> QED
  BY <1>2, <1>3 DEF Spoke, Replied

LEMMA SecurityResultSettles ==
  ASSUME NEW s, NEW pt, NEW end, NEW p, Called(s, pt, end, p), s.state = "SecurityResult",
         NEW r, r = SecurityResult(s, p)
  PROVE  Settles(s, r, pt, end, p) /\ Spoke(s.state, r.state, r.say, p)
<1>1. Scripted(s, pt, end, p) /\ s.lost = "nothing" /\ s.say = <<>> /\ pt.stage = "result" /\ s \in InitStates
  BY DEF Called, Stands, Scripted
<1>2. CASE r = Wait(s)
  <2>1. Settles(s, r, pt, end, p) /\ r.say = s.say
    <3>1. s.state \in Handshake /\ s.state # "password" /\ s.state # "Authentication"
      BY DEF Handshake
    <3> QED
      BY <1>1, <1>2, <3>1, StaysPut DEF Called
  <2>2. r = Held(s)
    BY <1>2 DEF Wait, Held
  <2>3. r.state = s.state
    BY <1>1, <2>2, HeldReads
  <2> QED
    BY <1>1, <2>1, <2>3 DEF Spoke
<1>3. CASE r = Fail(s)
  <2>1. Settles(s, r, pt, end, p) /\ r.say = s.say /\ r.state = "failed"
    BY <1>1, <1>3, FailsSettled
  <2> QED
    BY <1>1, <2>1 DEF Spoke
<1>4. CASE ~Lacks(s, 4) /\ Head(s.todo).v = "ok"
  <2> DEFINE u == Head(s.todo)
             t == Take(s)
             to == Onward(pt, u, p)
  <2>1. s.todo # <<>>
    BY <1>1, <1>4, AvailSome
  <2>2. /\ Scripted(t, to, end, p) /\ to = Point(NextStage(pt.stage, u, p), Between(0))
        /\ t.say = <<>> /\ t.lost = "nothing"
    BY <1>1, <2>1, TakesReads
  <2>3. to.stage = "init"
    BY <1>1, <1>4, <2>2, PointIs DEF NextStage
  <2>4. r = ClientInitialisation(t)
    BY <1>4 DEF SecurityResult
  <2>5. pt.stage # "messages"
    BY <1>1
  <2> HIDE DEF u, t, to
  <2>6. Settles(s, r, pt, end, p) /\ r.say = Append(t.say, Said("clientinit")) /\ r.state = "ServerInitialisation"
    BY <2>2, <2>3, <2>4, <2>5, ClientInitialisationSettles
  <2>7. r.say = <<Said("clientinit")>>
    BY <2>2, <2>6
  <2> QED
    BY <2>6, <2>7 DEF Spoke
<1> QED
  BY <1>2, <1>3, <1>4, Zenon DEF SecurityResult

LEMMA ServerInitialisationSettles ==
  ASSUME NEW s, NEW pt, NEW end, NEW p, Called(s, pt, end, p), s.state = "ServerInitialisation",
         NEW r, r = ServerInitialisation(s)
  PROVE  Settles(s, r, pt, end, p) /\ Spoke(s.state, r.state, r.say, p)
<1>1. Scripted(s, pt, end, p) /\ s.lost = "nothing" /\ s.say = <<>> /\ pt.stage = "init" /\ s \in InitStates
  BY DEF Called, Stands, Scripted
<1>2. CASE r = Wait(s)
  <2>1. Settles(s, r, pt, end, p) /\ r.say = s.say
    <3>1. s.state \in Handshake /\ s.state # "password" /\ s.state # "Authentication"
      BY DEF Handshake
    <3> QED
      BY <1>1, <1>2, <3>1, StaysPut DEF Called
  <2>2. r = Held(s)
    BY <1>2 DEF Wait, Held
  <2>3. r.state = s.state
    BY <1>1, <2>2, HeldReads
  <2> QED
    BY <1>1, <2>1, <2>3 DEF Spoke
<1>3. CASE ~Lacks(s, 24)
  <2> DEFINE u == Head(s.todo)
             t == Take(s)
             to == Onward(pt, u, p)
             w == Moved(t, "normal")
  <2>1. s.todo # <<>>
    BY <1>1, <1>3, AvailSome
  <2>2. /\ Scripted(t, to, end, p) /\ to = Point(NextStage(pt.stage, u, p), Between(0))
        /\ t.say = <<>> /\ t.lost = "nothing" /\ t.fbu = s.fbu
    BY <1>1, <2>1, TakesReads
  <2>3. to.stage = "messages" /\ to.at = Between(0)
    BY <1>1, <2>2, PointIs DEF NextStage
  <2>4. r = Say(w, "setup")
    BY <1>3 DEF ServerInitialisation, Moved
  <2>5. s.fbu.rects = 0 /\ s.fbu.bytes = 0 /\ s.fbu.left = 0
    BY <1>1 DEF Scripted
  <2> HIDE DEF u, t, to
  <2>6. MayMove("normal", s, t, to, pt, p)
    BY <1>1, <2>2, <2>3, <2>5 DEF MayMove, Greeting
  <2>a. w = Moved(t, "normal")
    OBVIOUS
  <2> HIDE DEF w
  <2>b. Settles(s, w, pt, end, p) /\ w.say = t.say /\ w.state = "normal"
    BY <2>2, <2>6, <2>a, MovesOn
  <2>7. Settles(s, w, pt, end, p) /\ w.say = <<>> /\ w.state = "normal"
    BY <2>2, <2>b
  <2>8. "setup" \in Words
    BY DEF Words
  <2>9. Settles(s, r, pt, end, p) /\ r.say = Append(w.say, Said("setup")) /\ r.state = w.state
    BY <2>4, <2>7, <2>8, SaysSettled
  <2>10. r.say = <<Said("setup")>>
    BY <2>7, <2>9
  <2> QED
    BY <2>7, <2>9, <2>10 DEF Spoke
<1> QED
  BY <1>2, <1>3, Zenon DEF ServerInitialisation

(* init_msg: what it leaves agrees with the server, or a late password has  *)
(* made it lose its place.                                                  *)
LEMMA InitMsgSettles ==
  ASSUME NEW s, NEW pt, NEW end, NEW p, ServerIs(p), NEW known, Called(s, pt, end, p),
         s.state \in Handshake \ {"password"}
  PROVE  /\ Settles(s, InitMsg(s, p, known), pt, end, p)
         /\ Spoke(s.state, InitMsg(s, p, known).state, InitMsg(s, p, known).say, p)
<1> DEFINE r == InitMsg(s, p, known)
<1>1. CASE s.state = "ProtocolVersion"
  <2>1. r = ProtocolVersion(s, p)
    BY <1>1 DEF InitMsg
  <2> QED
    BY <1>1, <2>1, ProtocolVersionSettles
<1>2. CASE s.state = "Security"
  <2>1. r = Security(s, p, known)
    BY <1>2 DEF InitMsg
  <2> QED
    BY <1>2, <2>1, SecuritySettles
<1>3. CASE s.state = "Authentication"
  <2>1. r = Authentication(s, p, known)
    BY <1>3 DEF InitMsg
  <2> QED
    BY <1>3, <2>1, DirectlySettles
<1>4. CASE s.state = "SecurityResult"
  <2>1. r = SecurityResult(s, p)
    BY <1>4 DEF InitMsg
  <2> QED
    BY <1>4, <2>1, SecurityResultSettles
<1>5. CASE s.state = "ServerInitialisation"
  <2>1. r = ServerInitialisation(s)
    BY <1>5 DEF InitMsg
  <2> QED
    BY <1>5, <2>1, ServerInitialisationSettles
<1> QED
  BY <1>1, <1>2, <1>3, <1>4, <1>5 DEF Handshake

LEMMA InitMsgElse ==
  ASSUME NEW s, NEW p, NEW known, s.state \notin Handshake \ {"password"}
  PROVE  InitMsg(s, p, known) = s
BY Zenon DEF InitMsg, Handshake

(* The same or less is said, and nothing but requests is left out before    *)
(* what is kept.                                                            *)
Clips(kept, us, g) ==
    /\ g \in [1..Len(kept) -> 1..Len(us)]
    /\ \A i, j \in 1..Len(kept) : i < j => g[i] < g[j]
    /\ \A i \in 1..Len(kept) : kept[i] = us[g[i]]
    /\ \A i \in 1..Len(kept) : \A k \in 1..g[i] : us[k].m # "request" => \E j \in 1..Len(kept) : g[j] = k
Clipped(kept, us) == kept \in Seq(Heards) /\ us \in Seq(Heards) /\ \E g : Clips(kept, us, g)

LEMMA ThinClips ==
  ASSUME NEW kept, NEW us, Thinned(kept, us)
  PROVE  Clipped(kept, us)
<1>1. PICK g : Thins(kept, us, g)
  BY DEF Thinned
<1>2. kept \in Seq(Heards) /\ us \in Seq(Heards) /\ Len(kept) \in Nat /\ Len(us) \in Nat
  BY LenProperties DEF Thinned
<1>3. \A i \in 1..Len(kept) : \A k \in 1..g[i] : k \in 1..Len(us)
  BY <1>1, <1>2 DEF Thins
<1>4. Clips(kept, us, g)
  BY <1>1, <1>3 DEF Thins, Clips
<1> QED
  BY <1>2, <1>4 DEF Clipped

LEMMA BeginningClips ==
  ASSUME NEW kept \in Seq(Heards), NEW vs \in Seq(Heards)
  PROVE  Clipped(kept, kept \o vs)
<1> DEFINE us == kept \o vs
           g == [i \in 1..Len(kept) |-> i]
<1>1. us \in Seq(Heards) /\ Len(kept) \in Nat /\ Len(us) \in Nat /\ Len(kept) <= Len(us) /\ \A i \in 1..Len(kept) : us[i] = kept[i]
  <2>1. /\ us \in Seq(Heards) /\ Len(kept) \in Nat /\ Len(vs) \in Nat /\ Len(us) = Len(kept) + Len(vs)
        /\ \A i \in 1..Len(kept) : us[i] = kept[i]
    <3> HIDE DEF us
    <3> QED
      BY JoinIs DEF us
  <2> HIDE DEF us
  <2> QED
    BY <2>1
<1> HIDE DEF us
<1>2. g \in [1..Len(kept) -> 1..Len(us)] /\ \A i \in 1..Len(kept) : g[i] = i
  BY <1>1
<1> HIDE DEF g
<1>3. \A i \in 1..Len(kept) : \A k \in 1..g[i] : k \in 1..Len(kept) /\ g[k] = k
  BY <1>1, <1>2
<1>4. Clips(kept, us, g)
  BY <1>1, <1>2, <1>3 DEF Clips
<1> QED
  BY <1>1, <1>4 DEF Clipped, us

LEMMA ClippedFrom ==
  ASSUME NEW kept, NEW us, Clipped(kept, us)
  PROVE  /\ kept \in Seq(Heards) /\ us \in Seq(Heards)
         /\ \A i \in 1..Len(kept) : \E j \in 1..Len(us) : kept[i] = us[j]
BY DEF Clipped, Clips

LEMMA ThinnedTo ==
  ASSUME NEW kept, NEW us, Thinned(kept, us)
  PROVE  \A k \in 1..Len(us) : us[k].m # "request" => \E i \in 1..Len(kept) : kept[i] = us[k]
BY DEF Thinned, Thins

LEMMA ClippedBefore ==
  ASSUME NEW kept, NEW us, NEW g, Clips(kept, us, g), kept \in Seq(Heards), us \in Seq(Heards),
         NEW i \in 1..Len(kept), NEW m
  PROVE  /\ Before(m, i, kept) => Before(m, g[i], us)
         /\ m # "request" /\ Before(m, g[i], us) => Before(m, i, kept)
<1>1. Len(kept) \in Nat /\ Len(us) \in Nat
  BY LenProperties
<1>2. /\ g \in [1..Len(kept) -> 1..Len(us)] /\ (\A k, j \in 1..Len(kept) : k < j => g[k] < g[j])
      /\ (\A k \in 1..Len(kept) : kept[k] = us[g[k]])
      /\ \A k \in 1..g[i] : us[k].m # "request" => \E j \in 1..Len(kept) : g[j] = k
  BY Zenon DEF Clips
<1>3. g[i] \in 1..Len(us)
  BY <1>2
<1>4. ASSUME Before(m, i, kept) PROVE Before(m, g[i], us)
  <2>1. PICK j \in 1..i-1 : kept[j].m = m
    BY <1>4 DEF Before
  <2>2. j \in 1..Len(kept) /\ j < i
    BY <1>1
  <2>3. g[j] < g[i] /\ g[j] \in 1..Len(us) /\ kept[j] = us[g[j]]
    BY <1>2, <2>2
  <2>4. g[j] \in 1..g[i]-1
    BY <1>1, <1>3, <2>3
  <2> QED
    BY <2>1, <2>3, <2>4 DEF Before
<1>5. ASSUME m # "request", Before(m, g[i], us) PROVE Before(m, i, kept)
  <2>1. PICK k \in 1..g[i]-1 : us[k].m = m
    BY <1>5 DEF Before
  <2>2. k \in 1..g[i] /\ k < g[i]
    BY <1>1, <1>3
  <2>3. PICK j \in 1..Len(kept) : g[j] = k
    BY <1>2, <1>5, <2>1, <2>2
  <2>4. j < i
    <3>1. g[j] < g[i]
      BY <2>2, <2>3
    <3>2. g[j] \in Int /\ g[i] \in Int
      <4>1. g \in [1..Len(kept) -> 1..Len(us)]
        BY <1>2
      <4>2. g[j] \in 1..Len(us)
        BY <4>1
      <4> QED
        BY <1>1, <1>3, <4>2
    <3>3. i < j => g[i] < g[j]
      BY <1>2
    <3>4. i # j
      BY <3>1, <3>2
    <3>5. ~(i < j)
      BY <3>1, <3>2, <3>3
    <3> QED
      BY <1>1, <3>4, <3>5
  <2>5. j \in 1..i-1 /\ kept[j].m = m
    <3>1. kept[j] = us[g[j]]
      BY <1>2
    <3> QED
      BY <1>1, <2>1, <2>3, <2>4, <3>1
  <2> QED
    BY <2>5 DEF Before
<1> QED
  BY <1>4, <1>5

-----------------------------------------------------------------------------
(* The order in which things are said to a server p.                        *)
DueOf(p) == {"version", "clientinit", "setup"}
            \cup (IF p.version = "3.3" THEN {} ELSE {"type"})
            \cup (IF p.auth = "vnc" THEN {"response"} ELSE {})
PreviousOf(m, p) ==
    CASE m = "setup" -> "clientinit"
      [] m = "clientinit" /\ p.auth = "vnc" -> "response"
      [] m = "type" -> "version"
      [] OTHER -> IF p.version = "3.3" THEN "version" ELSE "type"
FitsIn(i, ms, p) ==
    \/ ms[i].m = "repeater"
    \/ ms[i].m \in {"request", "key", "pointer"} /\ Before("setup", i, ms)
    \/ /\ ms[i].m \in DueOf(p) /\ ~Before(ms[i].m, i, ms)
       /\ ms[i].m = "version" \/ Before(PreviousOf(ms[i].m, p), i, ms)
Ordered(ms, p) == \A i \in 1..Len(ms) : FitsIn(i, ms, p)

LEMMA OrderedIs ==
  ASSUME NEW ms
  PROVE  SaidInOrder(ms) <=> Ordered(ms, partner)
<1>1. Due = DueOf(partner) /\ \A m : Previous(m) = PreviousOf(m, partner)
  BY Zenon DEF Due, DueOf, Previous, PreviousOf
<1> QED
  BY <1>1, Zenon DEF SaidInOrder, Ordered, FitsIn

LEMMA NoRequest ==
  ASSUME NEW m, NEW p
  PROVE  PreviousOf(m, p) # "request" /\ "request" \notin DueOf(p)
BY DEF PreviousOf, DueOf

LEMMA OrderedClips ==
  ASSUME NEW kept, NEW us, Clipped(kept, us), NEW p, Ordered(us, p)
  PROVE  Ordered(kept, p)
<1>1. PICK g : Clips(kept, us, g)
  BY DEF Clipped
<1>2. kept \in Seq(Heards) /\ us \in Seq(Heards)
  BY DEF Clipped
<1> SUFFICES ASSUME NEW i \in 1..Len(kept) PROVE FitsIn(i, kept, p)
  BY DEF Ordered
<1>3. g[i] \in 1..Len(us) /\ kept[i] = us[g[i]]
  BY <1>1 DEF Clips
<1>4. FitsIn(g[i], us, p)
  BY <1>3 DEF Ordered
<1>5. \A m : /\ Before(m, i, kept) => Before(m, g[i], us)
             /\ m # "request" /\ Before(m, g[i], us) => Before(m, i, kept)
  BY <1>1, <1>2, ClippedBefore
<1>6. PreviousOf(kept[i].m, p) # "request" /\ "setup" # "request"
  BY NoRequest
<1> QED
  BY <1>3, <1>4, <1>5, <1>6 DEF FitsIn

LEMMA RisingClips ==
  ASSUME NEW kept, NEW us, Clipped(kept, us), NEW m, Rising(us, m)
  PROVE  Rising(kept, m)
<1>1. PICK g : Clips(kept, us, g)
  BY DEF Clipped
<1> SUFFICES ASSUME NEW i \in 1..Len(kept), NEW j \in 1..Len(kept), i < j, kept[i].m = m, kept[j].m = m
             PROVE  kept[i].n < kept[j].n
  BY DEF Rising
<1>2. g[i] \in 1..Len(us) /\ g[j] \in 1..Len(us) /\ g[i] < g[j] /\ kept[i] = us[g[i]] /\ kept[j] = us[g[j]]
  BY <1>1 DEF Clips
<1> QED
  BY <1>2 DEF Rising

LEMMA RisingJoin ==
  ASSUME NEW us \in Seq(Heards), NEW vs \in Seq(Heards), NEW m
  PROVE  Rising(us \o vs, m) <=>
           /\ Rising(us, m) /\ Rising(vs, m)
           /\ \A i \in 1..Len(us), j \in 1..Len(vs) : us[i].m = m /\ vs[j].m = m => us[i].n < vs[j].n
<1> DEFINE kept == us \o vs
           a == Len(us)
           b == Len(vs)
<1>1. /\ a \in Nat /\ b \in Nat /\ Len(kept) = a + b
      /\ (\A i \in 1..a : kept[i] = us[i]) /\ (\A i \in 1..b : kept[a + i] = vs[i])
      /\ \A i \in 1..a + b : i \in 1..a \/ (~(i <= a) /\ i - a \in 1..b)
  <2> HIDE DEF kept
  <2> QED
    BY JoinIs DEF kept
<1> HIDE DEF kept, a, b
<1>2. ASSUME Rising(kept, m)
      PROVE  /\ Rising(us, m) /\ Rising(vs, m)
             /\ \A i \in 1..a, j \in 1..b : us[i].m = m /\ vs[j].m = m => us[i].n < vs[j].n
  <2>0. \A i, j \in 1..a + b : i < j /\ kept[i].m = m /\ kept[j].m = m => kept[i].n < kept[j].n
    BY <1>1, <1>2 DEF Rising
  <2>1. Rising(us, m)
    <3>1. ASSUME NEW i \in 1..a, NEW j \in 1..a, i < j, us[i].m = m, us[j].m = m PROVE us[i].n < us[j].n
      <4>1. i \in 1..a+b /\ j \in 1..a+b
        BY <1>1
      <4> QED
        BY <1>1, <2>0, <3>1, <4>1
    <3> QED
      BY <3>1 DEF Rising, a
  <2>2. Rising(vs, m)
    <3>1. ASSUME NEW i \in 1..b, NEW j \in 1..b, i < j, vs[i].m = m, vs[j].m = m PROVE vs[i].n < vs[j].n
      <4>1. a + i \in 1..a+b /\ a + j \in 1..a+b /\ a + i < a + j
        BY <1>1, <3>1
      <4>2. kept[a+i] = vs[i] /\ kept[a+j] = vs[j]
        BY <1>1
      <4> QED
        BY <2>0, <3>1, <4>1, <4>2
    <3> QED
      BY <3>1 DEF Rising, b
  <2>3. ASSUME NEW i \in 1..a, NEW j \in 1..b, us[i].m = m, vs[j].m = m PROVE us[i].n < vs[j].n
    <3>1. i \in 1..a+b /\ a + j \in 1..a+b /\ i < a + j
      BY <1>1
    <3>2. kept[i] = us[i] /\ kept[a+j] = vs[j]
      BY <1>1
    <3> QED
      BY <2>0, <2>3, <3>1, <3>2
  <2> QED
    BY <2>1, <2>2, <2>3
<1>3. ASSUME Rising(us, m), Rising(vs, m),
             \A i \in 1..a, j \in 1..b : us[i].m = m /\ vs[j].m = m => us[i].n < vs[j].n
      PROVE  Rising(kept, m)
  <2> SUFFICES ASSUME NEW i \in 1..a+b, NEW j \in 1..a+b, i < j, kept[i].m = m, kept[j].m = m
               PROVE  kept[i].n < kept[j].n
    BY <1>1 DEF Rising
  <2>1. CASE i \in 1..a /\ j \in 1..a
    <3>1. kept[i] = us[i] /\ kept[j] = us[j]
      BY <1>1, <2>1
    <3> QED
      BY <1>3, <2>1, <3>1 DEF Rising, a
  <2>2. CASE i \in 1..a /\ j - a \in 1..b
    <3>1. a + (j - a) = j
      BY <1>1
    <3>2. kept[i] = us[i] /\ kept[j] = vs[j-a]
      BY <1>1, <2>2, <3>1
    <3> QED
      BY <1>3, <2>2, <3>2
  <2>3. CASE i - a \in 1..b /\ j - a \in 1..b
    <3>1. a + (j - a) = j /\ a + (i - a) = i /\ i - a < j - a
      BY <1>1
    <3>2. kept[i] = vs[i-a] /\ kept[j] = vs[j-a]
      BY <1>1, <2>3, <3>1
    <3> QED
      BY <1>3, <2>3, <3>1, <3>2 DEF Rising, b
  <2>4. CASE ~(i <= a) /\ j \in 1..a
    BY <1>1, <2>4
  <2>5. /\ i \in 1..a \/ (~(i <= a) /\ i - a \in 1..b)
        /\ j \in 1..a \/ (~(j <= a) /\ j - a \in 1..b)
    BY <1>1
  <2> QED
    BY <2>1, <2>2, <2>3, <2>4, <2>5, Zenon
<1> QED
  BY <1>2, <1>3 DEF kept, a, b

LEMMA BeforeJoin ==
  ASSUME NEW us \in Seq(Heards), NEW vs \in Seq(Heards), NEW m
  PROVE  /\ \A i \in 1..Len(us) + 1 : Before(m, i, us \o vs) <=> Before(m, i, us)
         /\ \A i \in Int : i > Len(us) /\ SaysWord(m, us) => Before(m, i, us \o vs)
         /\ ~SaysWord(m, us) => ~Before(m, Len(us) + 1, us \o vs)
<1> DEFINE kept == us \o vs
           a == Len(us)
<1>1. a \in Nat /\ \A i \in 1..a : kept[i] = us[i]
  <2> HIDE DEF kept
  <2> QED
    BY JoinIs DEF kept
<1> HIDE DEF kept
<1>2. ASSUME NEW i \in 1..a+1 PROVE Before(m, i, kept) <=> Before(m, i, us)
  <2>1. \A j \in 1..i-1 : j \in 1..a
    BY <1>1
  <2> QED
    BY <1>1, <2>1 DEF Before
<1>3. ASSUME NEW i \in Int, i > a, SaysWord(m, us) PROVE Before(m, i, kept)
  <2>1. PICK j \in 1..a : us[j].m = m
    BY <1>3 DEF SaysWord
  <2>2. j \in 1..i-1 /\ kept[j].m = m
    BY <1>1, <1>3, <2>1
  <2> QED
    BY <2>2 DEF Before
<1>4. ASSUME ~SaysWord(m, us) PROVE ~Before(m, a + 1, kept)
  <2>1. \A j \in 1..a+1-1 : j \in 1..a
    BY <1>1
  <2> QED
    BY <1>1, <1>4, <2>1 DEF Before, SaysWord
<1> QED
  BY <1>2, <1>3, <1>4 DEF kept, a

LEMMA OrderedJoin ==
  ASSUME NEW us \in Seq(Heards), NEW vs \in Seq(Heards), NEW p, Ordered(us, p),
         \A i \in 1..Len(vs) : FitsIn(Len(us) + i, us \o vs, p)
  PROVE  Ordered(us \o vs, p)
<1> DEFINE kept == us \o vs
           a == Len(us)
           b == Len(vs)
<1>1. /\ a \in Nat /\ b \in Nat /\ Len(kept) = a + b
      /\ (\A i \in 1..a : kept[i] = us[i])
      /\ \A i \in 1..a + b : i \in 1..a \/ (~(i <= a) /\ i - a \in 1..b)
  <2> HIDE DEF kept
  <2> QED
    BY JoinIs DEF kept
<1>2. \A m : \A i \in 1..a + 1 : Before(m, i, kept) <=> Before(m, i, us)
  <2> HIDE DEF kept
  <2> QED
    BY BeforeJoin DEF kept
<1>3. \A i \in 1..b : FitsIn(a + i, kept, p)
  OBVIOUS
<1> HIDE DEF kept, a, b
<1> SUFFICES ASSUME NEW i \in 1..a+b PROVE FitsIn(i, kept, p)
  BY <1>1 DEF Ordered, kept
<1>4. CASE i \in 1..a
  <2>1. FitsIn(i, us, p)
    BY <1>4 DEF Ordered, a
  <2>2. i \in 1..a+1 /\ kept[i] = us[i]
    BY <1>1, <1>4
  <2> QED
    BY <1>2, <2>1, <2>2 DEF FitsIn
<1>5. CASE i - a \in 1..b
  <2>1. a + (i - a) = i
    BY <1>1
  <2> QED
    BY <1>3, <1>5, <2>1
<1> QED
  BY <1>1, <1>4, <1>5

(* What a user does, after the handshake.                                   *)
LEMMA OrderedLater ==
  ASSUME NEW us \in Seq(Heards), NEW vs \in Seq(Heards), NEW p, Ordered(us, p), SaysWord("setup", us),
         \A i \in 1..Len(vs) : vs[i].m \in {"request", "key", "pointer"}
  PROVE  Ordered(us \o vs, p)
<1>1. /\ Len(us) \in Nat /\ Len(vs) \in Nat
      /\ \A i \in 1..Len(vs) : (us \o vs)[Len(us) + i] = vs[i]
  BY JoinIs
<1>2. ASSUME NEW i \in 1..Len(vs) PROVE FitsIn(Len(us) + i, us \o vs, p)
  <2>1. Len(us) + i \in Int /\ Len(us) + i > Len(us)
    BY <1>1
  <2>2. Before("setup", Len(us) + i, us \o vs)
    BY <2>1, BeforeJoin
  <2> QED
    BY <1>1, <2>2 DEF FitsIn
<1> QED
  BY <1>2, OrderedJoin

(* A word of the handshake.                                                 *)
LEMMA OrderedWord ==
  ASSUME NEW us \in Seq(Heards), NEW p, Ordered(us, p), NEW x \in Heards,
         \/ x.m = "repeater"
         \/ /\ x.m \in DueOf(p) /\ ~SaysWord(x.m, us)
            /\ x.m = "version" \/ SaysWord(PreviousOf(x.m, p), us)
  PROVE  Ordered(us \o <<x>>, p)
<1> DEFINE vs == <<x>>
<1>0. vs \in Seq(Heards) /\ Len(vs) = 1 /\ vs[1] = x
  OBVIOUS
<1> HIDE DEF vs
<1>1. Len(us) \in Nat /\ (us \o vs)[Len(us) + 1] = x
  <2>1. /\ Len(us) \in Nat
        /\ \A i \in 1..Len(vs) : (us \o vs)[Len(us) + i] = vs[i]
    BY <1>0, JoinIs
  <2>2. 1 \in 1..Len(vs)
    BY <1>0
  <2>3. (us \o vs)[Len(us) + 1] = vs[1]
    BY <2>1, <2>2
  <2> QED
    BY <1>0, <2>1, <2>3
<1>2. FitsIn(Len(us) + 1, us \o vs, p)
  <2>1. CASE x.m = "repeater"
    BY <1>1, <2>1 DEF FitsIn
  <2>2. CASE x.m \in DueOf(p) /\ ~SaysWord(x.m, us) /\ (x.m = "version" \/ SaysWord(PreviousOf(x.m, p), us))
    <3>1. ~Before(x.m, Len(us) + 1, us \o vs)
      BY <1>0, <2>2, BeforeJoin
    <3>2. SaysWord(PreviousOf(x.m, p), us) => Before(PreviousOf(x.m, p), Len(us) + 1, us \o vs)
      <4>1. Len(us) + 1 \in Int /\ Len(us) + 1 > Len(us)
        BY <1>1
      <4> QED
        BY <1>0, <4>1, BeforeJoin
    <3> QED
      BY <1>1, <2>2, <3>1, <3>2 DEF FitsIn
  <2> QED
    BY <2>1, <2>2
<1>3. \A i \in 1..Len(vs) : i = 1
  BY <1>0
<1>4. Ordered(us \o vs, p)
  BY <1>0, <1>2, <1>3, OrderedJoin
<1> QED
  BY <1>4 DEF vs

LEMMA RisingSame ==
  ASSUME NEW us \in Seq(Heards), NEW vs \in Seq(Heards), NEW m, \A i \in 1..Len(vs) : vs[i].m # m
  PROVE  Rising(us \o vs, m) <=> Rising(us, m)
<1>1. Rising(vs, m)
  BY DEF Rising
<1> QED
  BY <1>1, RisingJoin

LEMMA RisingAround ==
  ASSUME NEW us \in Seq(Heards), NEW vs \in Seq(Heards), NEW ts \in Seq(Heards), NEW m,
         \A i \in 1..Len(vs) : vs[i].m # m, Rising(us \o ts, m)
  PROVE  Rising((us \o vs) \o ts, m)
<1> DEFINE kept == us \o vs
<1>1. /\ kept \in Seq(Heards) /\ Len(us) \in Nat /\ Len(vs) \in Nat /\ Len(kept) = Len(us) + Len(vs)
      /\ (\A i \in 1..Len(us) : kept[i] = us[i]) /\ (\A i \in 1..Len(vs) : kept[Len(us) + i] = vs[i])
      /\ \A i \in 1..Len(us) + Len(vs) : i \in 1..Len(us) \/ (~(i <= Len(us)) /\ i - Len(us) \in 1..Len(vs))
  <2> HIDE DEF kept
  <2> QED
    BY JoinIs DEF kept
<1>2. Rising(us, m) /\ Rising(ts, m)
      /\ \A i \in 1..Len(us), j \in 1..Len(ts) : us[i].m = m /\ ts[j].m = m => us[i].n < ts[j].n
  BY RisingJoin
<1>3. Rising(kept, m)
  BY <1>2, RisingSame
<1> HIDE DEF kept
<1>4. ASSUME NEW i \in 1..Len(kept), NEW j \in 1..Len(ts), kept[i].m = m, ts[j].m = m PROVE kept[i].n < ts[j].n
  <2>1. CASE i \in 1..Len(us)
    <3>1. kept[i] = us[i]
      BY <1>1, <2>1
    <3> QED
      BY <1>2, <1>4, <2>1, <3>1
  <2>2. CASE i - Len(us) \in 1..Len(vs)
    <3>1. Len(us) + (i - Len(us)) = i
      BY <1>1
    <3>2. kept[i] = vs[i - Len(us)]
      BY <1>1, <2>2, <3>1
    <3> QED
      BY <1>4, <2>2, <3>2
  <2> QED
    BY <1>1, <2>1, <2>2
<1>5. Rising(kept \o ts, m)
  BY <1>1, <1>2, <1>3, <1>4, RisingJoin
<1> QED
  BY <1>5 DEF kept

LEMMA HeardIs ==
  ASSUME NEW ms \in Seq(Heards), NEW i \in 1..Len(ms)
  PROVE  ms[i] \in Heards /\ ms[i].m \in Words /\ ms[i].n \in Nat
<1>1. ms[i] \in Heards
  BY ElementOfSeq
<1> QED
  BY <1>1 DEF Heards

(* What the server has heard or will, all, and the pointer events that wait *)
(* in mouse_arr; n is beyond every input so far.                            *)
Tale(all, arr, n, p) ==
    /\ all \in Seq(Heards) /\ arr \in Seq(Heards)
    /\ Ordered(all, p) /\ Rising(all, "key") /\ Rising(all \o arr, "pointer")
    /\ \A i \in 1..Len(all) : all[i].m \in {"key", "pointer"} => all[i].n < n
    /\ \A i \in 1..Len(arr) : arr[i].m = "pointer" /\ arr[i].n < n

LEMMA TaleClips ==
  ASSUME NEW kept, NEW us, Clipped(kept, us), NEW arr, NEW n, NEW p, Tale(us, arr, n, p)
  PROVE  Tale(kept, arr, n, p)
<1>1. kept \in Seq(Heards) /\ us \in Seq(Heards) /\ arr \in Seq(Heards)
  BY DEF Tale, Clipped
<1>2. Ordered(kept, p)
  BY OrderedClips DEF Tale
<1>3. Rising(kept, "key")
  BY RisingClips DEF Tale
<1>4. \A i \in 1..Len(kept) : \E j \in 1..Len(us) : kept[i] = us[j]
  BY ClippedFrom
<1>5. Rising(us, "pointer") /\ Rising(arr, "pointer")
      /\ \A i \in 1..Len(us), j \in 1..Len(arr) : us[i].m = "pointer" /\ arr[j].m = "pointer" => us[i].n < arr[j].n
  <2>1. Rising(us \o arr, "pointer")
    BY DEF Tale
  <2> QED
    BY <1>1, <2>1, RisingJoin
<1>6. Rising(kept, "pointer")
  BY <1>5, RisingClips
<1>7. \A i \in 1..Len(kept), j \in 1..Len(arr) : kept[i].m = "pointer" /\ arr[j].m = "pointer" => kept[i].n < arr[j].n
  BY <1>4, <1>5
<1>8. Rising(kept \o arr, "pointer")
  BY <1>1, <1>5, <1>6, <1>7, RisingJoin
<1>9. \A i \in 1..Len(kept) : kept[i].m \in {"key", "pointer"} => kept[i].n < n
  BY <1>4 DEF Tale
<1> QED
  BY <1>1, <1>2, <1>3, <1>8, <1>9 DEF Tale

LEMMA TaleLater ==
  ASSUME NEW all, NEW arr, NEW n \in Nat, NEW p, Tale(all, arr, n, p)
  PROVE  Tale(all, arr, n + 1, p)
<1>1. \A i \in 1..Len(all) : all[i].n \in Nat
  BY HeardIs DEF Tale
<1>2. \A i \in 1..Len(arr) : arr[i].n \in Nat
  BY HeardIs DEF Tale
<1>3. \A k \in Nat : k < n => k < n + 1
  OBVIOUS
<1> QED
  BY <1>1, <1>2, <1>3 DEF Tale

(* Nothing a user does is added.                                            *)
LEMMA TaleJoins ==
  ASSUME NEW all, NEW arr, NEW n, NEW p, Tale(all, arr, n, p), NEW ms \in Seq(Heards),
         \A i \in 1..Len(ms) : ms[i].m \notin {"key", "pointer"}, Ordered(all \o ms, p)
  PROVE  Tale(all \o ms, arr, n, p)
<1> DEFINE kept == all \o ms
<1>1. /\ kept \in Seq(Heards) /\ Len(all) \in Nat /\ Len(ms) \in Nat /\ Len(kept) = Len(all) + Len(ms)
      /\ (\A i \in 1..Len(all) : kept[i] = all[i]) /\ (\A i \in 1..Len(ms) : kept[Len(all) + i] = ms[i])
      /\ \A i \in 1..Len(all) + Len(ms) : i \in 1..Len(all) \/ (~(i <= Len(all)) /\ i - Len(all) \in 1..Len(ms))
  <2>1. all \in Seq(Heards)
    BY DEF Tale
  <2> HIDE DEF kept
  <2> QED
    BY <2>1, JoinIs DEF kept
<1>2. Rising(kept, "key")
  BY RisingSame DEF Tale
<1>3. Rising(kept \o arr, "pointer")
  BY RisingAround DEF Tale
<1> HIDE DEF kept
<1>4. ASSUME NEW i \in 1..Len(kept), kept[i].m \in {"key", "pointer"} PROVE kept[i].n < n
  <2>1. CASE i \in 1..Len(all)
    BY <1>1, <1>4, <2>1 DEF Tale
  <2>2. CASE i - Len(all) \in 1..Len(ms)
    <3>1. Len(all) + (i - Len(all)) = i
      BY <1>1
    <3>2. kept[i] = ms[i - Len(all)]
      BY <1>1, <2>2, <3>1
    <3> QED
      BY <1>4, <2>2, <3>2
  <2> QED
    BY <1>1, <2>1, <2>2
<1> QED
  BY <1>1, <1>2, <1>3, <1>4 DEF Tale, kept

LEMMA TaleAsks ==
  ASSUME NEW all, NEW arr, NEW n, NEW p, Tale(all, arr, n, p), SaysSetup(all), NEW ms \in Seq(Heards),
         \A i \in 1..Len(ms) : ms[i].m = "request"
  PROVE  Tale(all \o ms, arr, n, p)
<1>1. Ordered(all \o ms, p)
  BY OrderedLater DEF Tale, SaysSetup
<1> QED
  BY <1>1, TaleJoins

LEMMA TaleSays ==
  ASSUME NEW all, NEW arr, NEW n, NEW p, Tale(all, arr, n, p), NEW m \in Words,
         \/ m = "repeater"
         \/ m \in DueOf(p) /\ ~SaysWord(m, all) /\ (m = "version" \/ SaysWord(PreviousOf(m, p), all))
  PROVE  Tale(all \o <<Said(m)>>, arr, n, p)
<1> DEFINE x == Said(m)
           ms == <<x>>
<1>1. x \in Heards /\ x.m = m /\ m \notin {"key", "pointer"}
  BY DEF Said, Heards, DueOf
<1> HIDE DEF x
<1>2. ms \in Seq(Heards) /\ \A i \in 1..Len(ms) : ms[i].m = m
  BY <1>1
<1>3. Ordered(all \o ms, p)
  BY <1>1, OrderedWord DEF Tale
<1> HIDE DEF ms
<1>4. Tale(all \o ms, arr, n, p)
  BY <1>1, <1>2, <1>3, TaleJoins
<1> QED
  BY <1>4 DEF ms, x

(* An event of the pointer is kept.                                         *)
LEMMA TaleMoves ==
  ASSUME NEW all, NEW arr, NEW n \in Nat, NEW p, Tale(all, arr, n, p), NEW x \in Heards, x.m = "pointer", x.n = n
  PROVE  Tale(all, Append(arr, x), n + 1, p)
<1> DEFINE bs == Append(arr, x)
           xs == <<x>>
<1>1. all \in Seq(Heards) /\ arr \in Seq(Heards) /\ xs \in Seq(Heards) /\ Len(xs) = 1 /\ xs[1] = x
  BY DEF Tale
<1>2. /\ bs \in Seq(Heards) /\ Len(arr) \in Nat /\ Len(bs) = Len(arr) + 1
      /\ (\A i \in 1..Len(arr) : bs[i] = arr[i]) /\ bs[Len(arr) + 1] = x
  BY <1>1, AppendProperties, LenProperties
<1>3. bs = arr \o xs
  BY <1>1, AppendIsConcat
<1> HIDE DEF bs, xs
<1>4. Tale(all, arr, n + 1, p)
  BY TaleLater
<1>5. ASSUME NEW i \in 1..Len(bs) PROVE bs[i].m = "pointer" /\ bs[i].n < n + 1
  <2>1. CASE i \in 1..Len(arr)
    BY <1>2, <1>4, <2>1 DEF Tale
  <2>2. CASE i = Len(arr) + 1
    BY <1>2, <2>2
  <2> QED
    BY <1>2, <2>1, <2>2
<1>6. Rising(all \o bs, "pointer")
  <2> DEFINE kept == all \o arr
  <2>1. /\ kept \in Seq(Heards) /\ Len(all) \in Nat /\ Len(arr) \in Nat /\ Len(kept) = Len(all) + Len(arr)
        /\ (\A i \in 1..Len(all) : kept[i] = all[i]) /\ (\A i \in 1..Len(arr) : kept[Len(all) + i] = arr[i])
        /\ \A i \in 1..Len(all) + Len(arr) : i \in 1..Len(all) \/ (~(i <= Len(all)) /\ i - Len(all) \in 1..Len(arr))
    <3> HIDE DEF kept
    <3> QED
      BY <1>1, JoinIs DEF kept
  <2>2. kept \o xs = all \o bs
    BY <1>1, <1>3, ConcatAssociative
  <2>3. Rising(kept, "pointer")
    BY DEF Tale
  <2> HIDE DEF kept
  <2>4. ASSUME NEW i \in 1..Len(kept), kept[i].m = "pointer" PROVE kept[i].n < n
    <3>1. CASE i \in 1..Len(all)
      BY <2>1, <2>4, <3>1 DEF Tale
    <3>2. CASE i - Len(all) \in 1..Len(arr)
      <4>1. Len(all) + (i - Len(all)) = i
        BY <2>1
      <4>2. kept[i] = arr[i - Len(all)]
        BY <2>1, <3>2, <4>1
      <4> QED
        BY <3>2, <4>2 DEF Tale
    <3> QED
      BY <2>1, <3>1, <3>2
  <2>5. \A j \in 1..Len(xs) : xs[j] = x
    BY <1>1
  <2>6. Rising(xs, "pointer")
    BY <1>1 DEF Rising
  <2>7. Rising(kept \o xs, "pointer")
    BY <1>1, <2>1, <2>3, <2>4, <2>5, <2>6, RisingJoin
  <2> QED
    BY <2>2, <2>7
<1> QED
  BY <1>1, <1>2, <1>4, <1>5, <1>6 DEF Tale, bs

(* The events of the pointer are sent.                                      *)
LEMMA TaleFlushes ==
  ASSUME NEW all, NEW arr, NEW n, NEW p, Tale(all, arr, n, p), SaysSetup(all)
  PROVE  Tale(all \o arr, <<>>, n, p)
<1> DEFINE kept == all \o arr
<1>1. all \in Seq(Heards) /\ arr \in Seq(Heards)
  BY DEF Tale
<1>2. /\ kept \in Seq(Heards) /\ Len(all) \in Nat /\ Len(arr) \in Nat /\ Len(kept) = Len(all) + Len(arr)
      /\ (\A i \in 1..Len(all) : kept[i] = all[i]) /\ (\A i \in 1..Len(arr) : kept[Len(all) + i] = arr[i])
      /\ \A i \in 1..Len(all) + Len(arr) : i \in 1..Len(all) \/ (~(i <= Len(all)) /\ i - Len(all) \in 1..Len(arr))
  <2> HIDE DEF kept
  <2> QED
    BY <1>1, JoinIs DEF kept
<1>3. \A i \in 1..Len(arr) : arr[i].m = "pointer"
  BY DEF Tale
<1>4. Ordered(kept, p)
  BY <1>1, <1>3, OrderedLater DEF Tale, SaysSetup
<1>5. Rising(kept, "key")
  BY <1>1, <1>3, RisingSame DEF Tale
<1>6. Rising(kept \o <<>>, "pointer")
  <2>1. kept \o <<>> = kept
    <3> HIDE DEF kept
    <3> QED
      BY <1>2, ConcatEmptySeq
  <2>2. Rising(kept, "pointer")
    BY DEF Tale
  <2> QED
    BY <2>1, <2>2
<1> HIDE DEF kept
<1>7. ASSUME NEW i \in 1..Len(kept), kept[i].m \in {"key", "pointer"} PROVE kept[i].n < n
  <2>1. CASE i \in 1..Len(all)
    BY <1>2, <1>7, <2>1 DEF Tale
  <2>2. CASE i - Len(all) \in 1..Len(arr)
    <3>1. Len(all) + (i - Len(all)) = i
      BY <1>2
    <3>2. kept[i] = arr[i - Len(all)]
      BY <1>2, <2>2, <3>1
    <3> QED
      BY <2>2, <3>2 DEF Tale
  <2> QED
    BY <1>2, <2>1, <2>2
<1>8. <<>> \in Seq(Heards) /\ \A i \in 1..Len(<<>>) : FALSE
  BY EmptySeq
<1> QED
  BY <1>2, <1>4, <1>5, <1>6, <1>7, <1>8 DEF Tale, kept

(* A key is pressed.                                                        *)
LEMMA TaleKey ==
  ASSUME NEW all, NEW arr, NEW n \in Nat, NEW p, Tale(all, arr, n, p), SaysSetup(all),
         NEW x \in Heards, x.m = "key", x.n = n, NEW y \in Heards, y.m = "request"
  PROVE  Tale(all \o <<x, y>>, arr, n + 1, p)
<1> DEFINE ms == <<x, y>>
           kept == all \o ms
<1>1. all \in Seq(Heards) /\ arr \in Seq(Heards) /\ ms \in Seq(Heards) /\ Len(ms) = 2 /\ ms[1] = x /\ ms[2] = y
  BY DEF Tale
<1> HIDE DEF ms
<1>2. /\ kept \in Seq(Heards) /\ Len(all) \in Nat /\ Len(ms) \in Nat /\ Len(kept) = Len(all) + Len(ms)
      /\ (\A i \in 1..Len(all) : kept[i] = all[i]) /\ (\A i \in 1..Len(ms) : kept[Len(all) + i] = ms[i])
      /\ \A i \in 1..Len(all) + Len(ms) : i \in 1..Len(all) \/ (~(i <= Len(all)) /\ i - Len(all) \in 1..Len(ms))
  <2> HIDE DEF kept
  <2> QED
    BY <1>1, JoinIs DEF kept
<1>3. \A i \in 1..Len(ms) : i = 1 \/ i = 2
  BY <1>1
<1>4. \A i \in 1..Len(ms) : ms[i].m \in {"key", "request"} /\ (ms[i].m = "key" => ms[i].n = n)
  BY <1>1, <1>3
<1>5. Ordered(kept, p)
  BY <1>1, <1>4, OrderedLater DEF Tale, SaysSetup
<1>6. Rising(kept, "key")
  <2>1. Rising(ms, "key")
    <3> SUFFICES ASSUME NEW i \in 1..Len(ms), NEW j \in 1..Len(ms), i < j, ms[i].m = "key", ms[j].m = "key"
                 PROVE  FALSE
      BY DEF Rising
    <3>1. i = 1 /\ j = 2
      BY <1>3
    <3> QED
      BY <1>1, <3>1
  <2>2. Rising(all, "key")
    BY DEF Tale
  <2>3. \A i \in 1..Len(all) : all[i].m = "key" => all[i].n < n
    BY DEF Tale
  <2>4. \A i \in 1..Len(all), j \in 1..Len(ms) : all[i].m = "key" /\ ms[j].m = "key" => all[i].n < ms[j].n
    BY <1>4, <2>3
  <2> QED
    BY <1>1, <2>1, <2>2, <2>4, RisingJoin
<1>7. Rising(kept \o arr, "pointer")
  <2>1. \A i \in 1..Len(ms) : ms[i].m # "pointer"
    BY <1>4
  <2> QED
    BY <1>1, <2>1, RisingAround DEF Tale
<1>8. Tale(all, arr, n + 1, p)
  BY TaleLater
<1> HIDE DEF kept
<1>9. ASSUME NEW i \in 1..Len(kept), kept[i].m \in {"key", "pointer"} PROVE kept[i].n < n + 1
  <2>1. CASE i \in 1..Len(all)
    BY <1>2, <1>8, <1>9, <2>1 DEF Tale
  <2>2. CASE i - Len(all) \in 1..Len(ms)
    <3>1. Len(all) + (i - Len(all)) = i
      BY <1>2
    <3>2. kept[i] = ms[i - Len(all)]
      BY <1>2, <2>2, <3>1
    <3>3. kept[i].n = n
      BY <1>4, <1>9, <2>2, <3>2
    <3> QED
      BY <3>3
  <2> QED
    BY <1>2, <2>1, <2>2
<1> QED
  BY <1>2, <1>5, <1>6, <1>7, <1>8, <1>9 DEF Tale, kept, ms

LEMMA SaysJoin ==
  ASSUME NEW us \in Seq(Heards), NEW vs \in Seq(Heards), NEW m
  PROVE  SaysWord(m, us \o vs) <=> SaysWord(m, us) \/ SaysWord(m, vs)
<1> DEFINE kept == us \o vs
<1>1. /\ Len(us) \in Nat /\ Len(vs) \in Nat /\ Len(kept) = Len(us) + Len(vs)
      /\ (\A i \in 1..Len(us) : kept[i] = us[i]) /\ (\A i \in 1..Len(vs) : kept[Len(us) + i] = vs[i])
      /\ \A i \in 1..Len(us) + Len(vs) : i \in 1..Len(us) \/ (~(i <= Len(us)) /\ i - Len(us) \in 1..Len(vs))
  <2> HIDE DEF kept
  <2> QED
    BY JoinIs DEF kept
<1> HIDE DEF kept
<1>2. ASSUME SaysWord(m, kept) PROVE SaysWord(m, us) \/ SaysWord(m, vs)
  <2>1. PICK i \in 1..Len(kept) : kept[i].m = m
    BY <1>2 DEF SaysWord
  <2>2. CASE i \in 1..Len(us)
    BY <1>1, <2>1, <2>2 DEF SaysWord
  <2>3. CASE i - Len(us) \in 1..Len(vs)
    <3>1. Len(us) + (i - Len(us)) = i
      BY <1>1
    <3>2. kept[i] = vs[i - Len(us)]
      BY <1>1, <2>3, <3>1
    <3> QED
      BY <2>1, <2>3, <3>2 DEF SaysWord
  <2> QED
    BY <1>1, <2>2, <2>3
<1>3. ASSUME SaysWord(m, us) PROVE SaysWord(m, kept)
  <2>1. PICK i \in 1..Len(us) : us[i].m = m
    BY <1>3 DEF SaysWord
  <2>2. i \in 1..Len(kept) /\ kept[i] = us[i]
    BY <1>1
  <2> QED
    BY <2>1, <2>2 DEF SaysWord
<1>4. ASSUME SaysWord(m, vs) PROVE SaysWord(m, kept)
  <2>1. PICK i \in 1..Len(vs) : vs[i].m = m
    BY <1>4 DEF SaysWord
  <2>2. Len(us) + i \in 1..Len(kept) /\ kept[Len(us) + i] = vs[i]
    BY <1>1
  <2> QED
    BY <2>1, <2>2 DEF SaysWord
<1> QED
  BY <1>2, <1>3, <1>4 DEF kept

LEMMA SaysClipped ==
  ASSUME NEW kept, NEW us, Clipped(kept, us), NEW m, SaysWord(m, kept)
  PROVE  SaysWord(m, us)
<1>1. \A i \in 1..Len(kept) : \E j \in 1..Len(us) : kept[i] = us[j]
  BY ClippedFrom
<1> QED
  BY <1>1 DEF SaysWord

LEMMA SaysThinned ==
  ASSUME NEW kept, NEW us, Thinned(kept, us), NEW m, m # "request"
  PROVE  SaysWord(m, kept) <=> SaysWord(m, us)
<1>1. SaysWord(m, kept) => SaysWord(m, us)
  BY ThinClips, SaysClipped
<1>2. ASSUME SaysWord(m, us) PROVE SaysWord(m, kept)
  <2>1. \A k \in 1..Len(us) : us[k].m # "request" => \E i \in 1..Len(kept) : kept[i] = us[k]
    BY ThinnedTo
  <2> QED
    BY <1>2, <2>1 DEF SaysWord
<1> QED
  BY <1>1, <1>2

LEMMA HeardSays ==
  ASSUME NEW ms \in Seq(Heards), NEW m, Said(m) \in ToSet(ms)
  PROVE  SaysWord(m, ms)
<1>1. Len(ms) \in Nat /\ DOMAIN ms = 1..Len(ms)
  BY LenProperties
<1>2. PICK i \in 1..Len(ms) : ms[i] = Said(m)
  BY <1>1 DEF ToSet
<1>3. ms[i].m = m
  BY <1>2 DEF Said
<1> QED
  BY <1>3 DEF SaysWord

-----------------------------------------------------------------------------
(* Sending.                                                                 *)
LEMMA SqueezeThins ==
  ASSUME NEW ms \in Seq(Heards)
  PROVE  Thinned(Squeeze(ms), ms)
BY ThinSame, WithoutThins, Zenon DEF Squeeze

SentTypes == sent \in Seq(Heards) /\ sQ \in Seq(Heards)
Sends(ms) ==
    /\ SentTypes'
    /\ SaysSetup(sent) => SaysSetup(sent')
    /\ Clipped(sent' \o sQ', (sent \o sQ) \o ms)
    /\ socks[cur] = "open" => Thinned(sent' \o sQ', (sent \o sQ) \o ms)

LEMMA FlushSends ==
  ASSUME SentTypes, NEW ms \in Seq(Heards), NEW q, q = sQ \o ms, Flush(q)
  PROVE  Sends(ms)
<1> DEFINE z == Squeeze(q)
           all == (sent \o sQ) \o ms
<1>1. q \in Seq(Heards) /\ sent \in Seq(Heards) /\ sQ \in Seq(Heards)
  BY JoinIs DEF SentTypes
<1>2. Thinned(z, q) /\ z \in Seq(Heards)
  BY <1>1, SqueezeThins DEF Thinned
<1>3. all = sent \o q
  BY <1>1, ConcatAssociative
<1>4. <<>> \in Seq(Heards)
  BY EmptySeq
<1> HIDE DEF z, all
<1>5. Thinned(sent \o z, all)
  <2>1. Thinned(sent, sent)
    BY <1>1, ThinSame
  <2> QED
    BY <1>2, <1>3, <2>1, ThinJoin
<1>6. CASE sQ' = <<>> /\ sent' = sent \o z /\ socks[cur] = "open"
  <2>1. sent' \in Seq(Heards)
    BY <1>1, <1>2, <1>6, JoinIs
  <2>2. sent' \o sQ' = sent \o z
    BY <1>6, <2>1, ConcatEmptySeq
  <2>3. SaysSetup(sent) => SaysSetup(sent')
    BY <1>1, <1>2, <1>6, SaysJoin DEF SaysSetup
  <2>4. SentTypes'
    BY <1>4, <1>6, <2>1 DEF SentTypes
  <2>5. Thinned(sent' \o sQ', all)
    BY <1>5, <2>2
  <2> QED
    BY <2>3, <2>4, <2>5, ThinClips DEF Sends, all
<1>7. CASE sQ' = <<>> /\ sent' = sent /\ socks[cur] # "open"
  <2>1. sent' \o sQ' = sent
    BY <1>1, <1>7, ConcatEmptySeq
  <2>2. Clipped(sent' \o sQ', all)
    BY <1>1, <1>3, <2>1, BeginningClips
  <2>3. SentTypes'
    BY <1>1, <1>4, <1>7 DEF SentTypes
  <2> QED
    BY <1>7, <2>2, <2>3 DEF Sends, all
<1>8. CASE sQ' = z /\ sent' = sent
  <2>1. Thinned(sent' \o sQ', all)
    BY <1>5, <1>8
  <2>2. SentTypes'
    BY <1>1, <1>2, <1>8 DEF SentTypes
  <2> QED
    BY <1>8, <2>1, <2>2, ThinClips DEF Sends, all
<1> QED
  BY <1>6, <1>7, <1>8, Zenon DEF Flush, z

LEMMA SendSends ==
  ASSUME SentTypes, NEW ms \in Seq(Heards), Send(ms)
  PROVE  Sends(ms)
<1>1. CASE ms = <<>>
  <2>1. sent' = sent /\ sQ' = sQ
    BY <1>1 DEF Send
  <2>2. sent \o sQ \in Seq(Heards)
    BY JoinIs DEF SentTypes
  <2>3. (sent \o sQ) \o ms = sent \o sQ
    BY <1>1, <2>2, ConcatEmptySeq
  <2>4. Thinned(sent' \o sQ', (sent \o sQ) \o ms)
    BY <2>1, <2>2, <2>3, ThinSame
  <2>5. SentTypes'
    BY <2>1 DEF SentTypes
  <2> QED
    BY <2>1, <2>4, <2>5, ThinClips DEF Sends
<1>2. CASE ms # <<>>
  <2>1. Flush(sQ \o ms)
    BY <1>2 DEF Send
  <2> QED
    BY <2>1, FlushSends
<1> QED
  BY <1>1, <1>2

LEMMA TimerSends ==
  ASSUME SentTypes, Flush(sQ)
  PROVE  Sends(<<>>)
<1>1. <<>> \in Seq(Heards) /\ sQ = sQ \o <<>>
  BY EmptySeq, ConcatEmptySeq DEF SentTypes
<1> QED
  BY <1>1, FlushSends

LEMMA SilenceSends ==
  ASSUME SentTypes, UNCHANGED <<sent, sQ>>
  PROVE  Sends(<<>>)
<1>1. Send(<<>>)
  BY DEF Send
<1>2. <<>> \in Seq(Heards)
  BY EmptySeq
<1> QED
  BY <1>1, <1>2, SendSends

-----------------------------------------------------------------------------
(* What a handler that is called leaves to the client.                      *)
Start(a) == [state |-> rfb_state, todo |-> todo, avail |-> a, fbu |-> fbu,
             out |-> "go", say |-> <<>>, lost |-> "nothing"]
Early == {"connect", "ProtocolVersion", "Security"}
Tracks(r) ==
    /\ r.avail <= BytesOf(r.todo)
    /\ \E pt \in Points : /\ Runs(pt, r.todo, Point(Comes(srv), Between(0)), partner)
                          /\ Stands(r.state, r.fbu, r.todo, pt)
                          /\ pt.stage # "messages" => ~SaysSetup((sent \o sQ) \o r.say)
Remembers(r) ==
    r.state = "normal" /\ r.todo # <<>> /\ r.avail = BytesOf(r.todo) =>
        \/ r.fbu.rects > 0 /\ r.fbu.bytes = 0 /\ Head(r.todo).k # "rect"
        \/ rfb_state = "normal" /\ r.out = "done" /\ r.avail > 0
        \/ srv = "normal" \/ Head(r.todo).v = "filter"
Outcome(r) ==
    /\ r.state \in States /\ r.todo \in Seq(Units) /\ WellSized(r.todo) /\ r.avail \in Int
    /\ r.fbu \in Fbus /\ r.say \in Seq(Heards) /\ r.lost \in {"nothing"} \cup Excused
    /\ r.lost = "nothing" => Tracks(r) /\ Remembers(r)
    /\ r.state = "disconnected" => rfb_state = "disconnected"
    /\ r.state = "password" => partner.auth = "vnc"
    /\ r.state = "Authentication" => partner.auth \in {"vnc", "refused"}
    /\ r.state \in Early => rfb_state \in Early

LEMMA StartIs ==
  ASSUME NEW a
  PROVE  /\ Start(a).state = rfb_state /\ Start(a).todo = todo /\ Start(a).avail = a /\ Start(a).fbu = fbu
         /\ Start(a).out = "go" /\ Start(a).say = <<>> /\ Start(a).lost = "nothing"
         /\ Handled(a) = IF rfb_state = "normal" THEN NormalMsg(Start(a)) ELSE InitMsg(Start(a), partner, password)
BY DEF Start, Handled

LEMMA PeerIs ==
  ASSUME ClientTypes
  PROVE  ServerIs(partner)
BY ServerAssumption DEF ClientTypes, ServerIs

LEMMA NormalOutcome ==
  ASSUME ClientTypes, OnScript, lost = "nothing", rfb_state = "normal",
         NEW a \in Int, a <= BytesOf(todo)
  PROVE  Outcome(Handled(a)) /\ Handled(a).say \in Seq(Requests) /\ Handled(a).state \in {"normal", "failed"}
<1> DEFINE s == Start(a)
           r == NormalMsg(s)
           end == Point(Comes(srv), Between(0))
<1>0. Handled(a) = r
  BY StartIs
<1>1. PICK pt \in Points : Runs(pt, todo, end, partner) /\ At(pt)
  BY DEF OnScript
<1>2. pt.stage = "messages" /\ Matches(fbu, pt.at, todo) /\ pt.at \in Places
  BY <1>1 DEF At, Stands, Points
<1>3. Plain(todo)
  BY DEF ClientTypes, Plain
<1>4. end = Point("messages", Between(0))
  <2>1. end.stage = "messages"
    <3> HIDE DEF end
    <3> QED
      BY <1>1, <1>2, <1>3, StagesLast
  <2>2. Comes(srv) = "messages"
    BY <2>1, PointIs
  <2> QED
    BY <2>2
<1>5. Parsed(pt.at, todo, partner)
  <2>1. pt = Point("messages", pt.at)
    BY <1>1, <1>2 DEF Points, Point
  <2> HIDE DEF end
  <2> QED
    BY <1>1, <1>4, <2>1 DEF Parsed
<1>6. /\ s.state = "normal" /\ s.todo = todo /\ s.avail = a /\ s.fbu = fbu /\ s.out = "go"
      /\ s.say = <<>> /\ s.lost = "nothing"
  BY StartIs
<1>7. s \in HandlerStates
  <2>1. <<>> \in Seq(Requests)
    BY EmptySeq
  <2> QED
    BY <2>1 DEF HandlerStates, Start, ClientTypes
<1> HIDE DEF s
<1>8. Sound(s, partner)
  BY <1>2, <1>5, <1>6, <1>7 DEF Sound
<1>9. Sound(r, partner) /\ r.out # "go"
  BY <1>6, <1>8, NormalMsgSound
<1> HIDE DEF r
<1>10. r \in HandlerStates /\ Plain(r.todo) /\ r.state \in {"normal", "failed"} /\ r.say \in Seq(Requests)
  BY <1>9, StateIs DEF Sound
<1>11. r.say \in Seq(Heards)
  <2>1. Requests \subseteq Heards
    BY DEF Requests, Heards, Words
  <2> QED
    BY <1>10, <2>1
<1>12. ASSUME r.lost = "nothing" PROVE Tracks(r)
  <2>1. PICK at \in Places : Parsed(at, r.todo, partner) /\ (r.state = "normal" => Matches(r.fbu, at, r.todo))
    BY <1>9, <1>12 DEF Sound
  <2> DEFINE here == Point("messages", at)
  <2>2. here \in Points /\ here.stage = "messages" /\ here.at = at
    BY PointIs DEF Stages
  <2>3. Runs(here, r.todo, end, partner)
    BY <1>4, <2>1 DEF Parsed
  <2> HIDE DEF here, end
  <2>4. Stands(r.state, r.fbu, r.todo, here)
    BY <1>10, <2>1, <2>2 DEF Stands
  <2>5. r.avail <= BytesOf(r.todo)
    BY <1>9, <1>12 DEF Sound
  <2> QED
    BY <2>2, <2>3, <2>4, <2>5 DEF Tracks, end
<1>13. ASSUME r.lost = "nothing" PROVE Remembers(r)
  <2>1. r.out \in {"wait", "done", "thrown"} /\ r.avail \in Int
    BY <1>9, <1>10, StateIs
  <2>2. BytesOf(r.todo) \in Nat /\ (r.todo # <<>> => BytesOf(r.todo) > 0)
    BY <1>10, BytesSome, BytesNat
  <2>3. CASE r.out = "wait"
    <3>1. r.state = "normal" => Waits(r)
      BY <1>9, <2>3 DEF Sound
    <3> QED
      BY <2>1, <2>2, <3>1 DEF Waits, Remembers
  <2>4. CASE r.out = "done"
    BY <2>2, <2>4 DEF Remembers
  <2>5. CASE r.out = "thrown"
    BY <1>9, <2>5 DEF Remembers, Sound
  <2> QED
    BY <2>1, <2>3, <2>4, <2>5
<1>14. /\ r.state \in States /\ r.todo \in Seq(Units) /\ WellSized(r.todo) /\ r.avail \in Int
       /\ r.fbu \in Fbus /\ r.lost \in {"nothing"} \cup Excused
  BY <1>10, StateIs DEF Plain, States
<1>15. r.state # "disconnected" /\ r.state # "password" /\ r.state # "Authentication" /\ r.state \notin Early
  BY <1>10 DEF Early
<1>16. Outcome(r)
  BY <1>11, <1>12, <1>13, <1>14, <1>15 DEF Outcome
<1> QED
  BY <1>0, <1>10, <1>16

LEMMA TwoIs ==
  ASSUME NEW x, NEW y
  PROVE  Append(<<>>, x) = <<x>> /\ Append(<<x>>, y) = <<x, y>>
<1> DEFINE S == {x, y}
           xs == Append(<<x>>, y)
           ys == <<x, y>>
<1>1. Append(<<>>, x) = <<x>>
  OBVIOUS
<1>2. <<x>> \in Seq(S) /\ y \in S
  OBVIOUS
<1>3. xs \in Seq(S) /\ Len(xs) = 2 /\ xs[1] = x /\ xs[2] = y
  BY <1>2, AppendProperties
<1>4. ys \in Seq(S) /\ Len(ys) = 2 /\ ys[1] = x /\ ys[2] = y
  BY <1>2
<1>5. \A i \in 1..2 : i = 1 \/ i = 2
  OBVIOUS
<1> HIDE DEF S, xs, ys
<1>6. xs = ys
  BY <1>3, <1>4, <1>5, SeqEqual
<1> QED
  BY <1>1, <1>6 DEF xs, ys

(* What is said in the handshake, the server's encodings only at its end.   *)
LEMMA SpokeIs ==
  ASSUME NEW from, NEW to, NEW ms, NEW p, Spoke(from, to, ms, p)
  PROVE  ms \in Seq(Heards) /\ (SaysSetup(ms) => to = "normal") /\ (from \notin Handshake => ms = <<>>)
<1> DEFINE Short == {<<>>, <<Said("repeater")>>, <<Said("version")>>, <<Said("type")>>, <<Said("clientinit")>>,
                     <<Said("response")>>, <<Said("type"), Said("clientinit")>>, <<Said("type"), Said("response")>>}
<1>1. ms \in Short \/ (to = "normal" /\ ms = <<Said("setup")>>)
  <2>1. \A x, y : Append(<<>>, x) = <<x>> /\ Append(<<x>>, y) = <<x, y>>
    BY TwoIs
  <2>2. Types(from, p) \in {<<>>, <<Said("type")>>}
    BY DEF Types
  <2>3. \A m : Append(Types(from, p), Said(m)) \in {<<Said(m)>>, <<Said("type"), Said(m)>>}
    BY <2>1, <2>2
  <2> QED
    BY <2>2, <2>3 DEF Spoke
<1>2. \A m \in Words : Said(m) \in Heards /\ Said(m).m = m
  BY DEF Said, Heards
<1>3. {"repeater", "version", "type", "clientinit", "response", "setup"} \subseteq Words
  BY DEF Words
<1>4. ASSUME NEW m \in Words \ {"setup"}, ms = <<Said(m)>> PROVE ms \in Seq(Heards) /\ ~SaysSetup(ms)
  <2>1. Len(ms) = 1 /\ ms[1].m = m /\ ms \in Seq(Heards)
    BY <1>2, <1>4
  <2> QED
    BY <2>1 DEF SaysSetup, SaysWord
<1>5. ASSUME NEW m \in Words \ {"setup"}, NEW n \in Words \ {"setup"}, ms = <<Said(m), Said(n)>>
      PROVE  ms \in Seq(Heards) /\ ~SaysSetup(ms)
  <2>1. Len(ms) = 2 /\ ms[1].m = m /\ ms[2].m = n /\ ms \in Seq(Heards)
    BY <1>2, <1>5
  <2> QED
    BY <2>1 DEF SaysSetup, SaysWord
<1>6. ASSUME ms = <<>> PROVE ms \in Seq(Heards) /\ ~SaysSetup(ms)
  BY <1>6, EmptySeq DEF SaysSetup, SaysWord
<1>7. ms = <<Said("setup")>> => ms \in Seq(Heards)
  BY <1>2, <1>3
<1>8. from \notin Handshake => ms = <<>>
  BY DEF Spoke, Handshake
<1>9. ASSUME ms \in Short PROVE ms \in Seq(Heards) /\ ~SaysSetup(ms)
  <2>1. \/ ms = <<>>
        \/ \E m \in Words \ {"setup"} : ms = <<Said(m)>>
        \/ \E m \in Words \ {"setup"}, n \in Words \ {"setup"} : ms = <<Said(m), Said(n)>>
    <3>1. {"repeater", "version", "type", "clientinit", "response"} \subseteq Words \ {"setup"}
      BY DEF Words
    <3> QED
      BY <1>9, <3>1
  <2> QED
    BY <1>4, <1>5, <1>6, <2>1
<1> QED
  BY <1>1, <1>7, <1>8, <1>9

LEMMA InitOutcome ==
  ASSUME ClientTypes, OnScript, Asked, lost = "nothing", rfb_state # "normal",
         NEW a \in Int, a <= BytesOf(todo), rfb_state = "Security" => todo # <<>>
  PROVE  Outcome(Handled(a)) /\ Spoke(rfb_state, Handled(a).state, Handled(a).say, partner)
<1> DEFINE s == Start(a)
           r == InitMsg(s, partner, password)
           end == Point(Comes(srv), Between(0))
<1>0. Handled(a) = r
  BY StartIs
<1>1. PICK pt \in Points : Runs(pt, todo, end, partner) /\ At(pt)
  BY DEF OnScript
<1>2. /\ Stands(rfb_state, fbu, todo, pt) /\ (pt.stage # "messages" => ~SaysSetup(sent \o sQ))
  BY <1>1 DEF At
<1>3. /\ s.state = rfb_state /\ s.todo = todo /\ s.avail = a /\ s.fbu = fbu /\ s.out = "go"
      /\ s.say = <<>> /\ s.lost = "nothing"
  BY StartIs
<1>4. s \in InitStates
  <2>1. <<>> \in Seq(Heards)
    BY EmptySeq
  <2> QED
    BY <2>1 DEF InitStates, Start, ClientTypes
<1> HIDE DEF s, end
<1>5. Called(s, pt, end, partner)
  <2>1. Scripted(s, pt, end, partner)
    BY <1>1, <1>2, <1>3, <1>4 DEF Scripted, Stands
  <2> QED
    BY <1>2, <1>3, <2>1 DEF Called, Asked
<1>6. sent \o sQ \in Seq(Heards) /\ sent \in Seq(Heards) /\ sQ \in Seq(Heards)
  BY JoinIs DEF ClientTypes
<1>7. CASE rfb_state \in Handshake \ {"password"}
  <2>1. Settles(s, r, pt, end, partner) /\ Spoke(rfb_state, r.state, r.say, partner)
    BY <1>3, <1>5, <1>7, PeerIs, InitMsgSettles
  <2> HIDE DEF r
  <2>2. r.say \in Seq(Heards) /\ (SaysSetup(r.say) => r.state = "normal")
    BY <2>1, SpokeIs
  <2>3. ASSUME r.lost = "nothing" PROVE Tracks(r) /\ Remembers(r)
    <3>1. PICK q \in Points : /\ Scripted(r, q, end, partner) /\ Stands(r.state, r.fbu, r.todo, q)
                              /\ q.stage # "messages" => pt.stage # "messages"
      BY <2>1, <2>3 DEF Settles, Settled
    <3>2. r.avail <= BytesOf(r.todo) /\ Runs(q, r.todo, end, partner) /\ Plain(r.todo)
      BY <3>1, InitStateIs DEF Scripted
    <3>3. ASSUME q.stage # "messages" PROVE ~SaysSetup((sent \o sQ) \o r.say)
      <4>1. ~SaysSetup(sent \o sQ)
        BY <1>2, <3>1, <3>3
      <4>2. r.state # "normal"
        BY <3>1, <3>3 DEF Stands
      <4>3. ~SaysSetup(r.say)
        BY <2>2, <4>2
      <4> QED
        BY <1>6, <2>2, <4>1, <4>3, SaysJoin DEF SaysSetup
    <3>4. Tracks(r)
      BY <3>1, <3>2, <3>3 DEF Tracks, end
    <3>5. ASSUME r.state = "normal" PROVE srv = "normal"
      <4>1. q.stage = "messages"
        BY <3>1, <3>5 DEF Stands
      <4>2. end.stage = "messages"
        BY <3>2, <4>1, StagesLast
      <4>3. Comes(srv) = "messages"
        BY <4>2, PointIs DEF end
      <4>4. srv \in {"normal", "answered"}
        BY <4>3 DEF Comes, ClientTypes, Servings
      <4>5. pt.stage # "messages"
        BY <2>1, <3>5 DEF Settles
      <4>6. ~SaysSetup(sent)
        BY <1>2, <1>6, <4>5, SaysJoin DEF SaysSetup
      <4> QED
        BY <4>4, <4>6 DEF Asked
    <3>6. Remembers(r)
      BY <3>5 DEF Remembers
    <3> QED
      BY <3>4, <3>6
  <2>4. /\ r.state \in States /\ r.todo \in Seq(Units) /\ WellSized(r.todo) /\ r.avail \in Int
        /\ r.fbu \in Fbus /\ r.lost \in {"nothing"} \cup Excused
    BY <2>1, InitStateIs DEF Settles, Plain
  <2>5. r.state # "disconnected"
    BY <2>1 DEF Settles, Greeting, Handshake
  <2>6. /\ r.state = "password" => partner.auth = "vnc"
        /\ r.state = "Authentication" => partner.auth \in {"vnc", "refused"}
        /\ r.state \in Early => rfb_state \in Early
    BY <1>3, <2>1 DEF Settles, Early
  <2>7. Outcome(r)
    BY <2>2, <2>3, <2>4, <2>5, <2>6 DEF Outcome
  <2> QED
    BY <1>0, <2>1, <2>7
<1>8. CASE rfb_state \notin Handshake \ {"password"}
  <2>1. r = s
    BY <1>3, <1>8, InitMsgElse
  <2> HIDE DEF r
  <2>2. (sent \o sQ) \o r.say = sent \o sQ
    BY <1>3, <1>6, <2>1, ConcatEmptySeq
  <2>3. Tracks(r)
    BY <1>1, <1>2, <1>3, <2>1, <2>2 DEF Tracks, end
  <2>4. Remembers(r)
    BY <1>3, <2>1 DEF Remembers
  <2>5. /\ r.state \in States /\ r.todo \in Seq(Units) /\ WellSized(r.todo) /\ r.avail \in Int
        /\ r.fbu \in Fbus /\ r.lost \in {"nothing"} \cup Excused /\ r.say \in Seq(Heards)
    BY <1>4, <2>1, InitStateIs DEF Plain
  <2>6. Outcome(r)
    BY <1>3, <2>1, <2>3, <2>4, <2>5 DEF Outcome, Asked
  <2>7. Spoke(rfb_state, r.state, r.say, partner)
    BY <1>3, <2>1 DEF Spoke
  <2> QED
    BY <1>0, <2>6, <2>7
<1> QED
  BY <1>7, <1>8

-----------------------------------------------------------------------------
(* Steps of the client.                                                     *)
SocketStates == {"none", "connecting", "open", "closing", "closed"}

LEMMA UpdateIs ==
  ASSUME NEW new, NEW k, NEW t, NEW set, UpdateState(new, k, t, set)
  PROVE  /\ rfb_state' = (IF rfb_state = "failed" /\ new = "disconnected" THEN rfb_state ELSE new)
         /\ timers' \subseteq t \cup set /\ set \subseteq timers'
         /\ socks' = k \/ (new \in Closing /\ socks' = CloseSocket(k))
         /\ new = rfb_state \/ new \notin Closing \/ "send" \in set \/ "send" \notin timers'
<1>1. CASE new = rfb_state
  <2>1. timers' = t \cup set /\ socks' = k /\ rfb_state' = rfb_state
    BY <1>1 DEF UpdateState
  <2> QED
    BY <1>1, <2>1
<1>2. CASE new # rfb_state
  <2>1. /\ rfb_state' = IF rfb_state = "failed" /\ new = "disconnected" THEN "failed" ELSE new
        /\ timers' = (t \ ({"conn", "disconn"} \cup
                           IF new \in Closing THEN {"send", "msg"} ELSE {})) \cup set
        /\ socks' = IF new \in Closing THEN CloseSocket(k) ELSE k
    BY <1>2 DEF UpdateState
  <2> QED
    BY <1>2, <2>1
<1> QED
  BY <1>1, <1>2

LEMMA CloseIs ==
  ASSUME NEW k \in [1..MaxConnects -> SocketStates]
  PROVE  CloseSocket(k) \in [1..MaxConnects -> SocketStates]
BY DEF CloseSocket, SocketStates

LEMMA UpdateTypes ==
  ASSUME NEW new, NEW k \in [1..MaxConnects -> SocketStates], NEW t, NEW set, UpdateState(new, k, t, set)
  PROVE  socks' \in [1..MaxConnects -> SocketStates]
BY UpdateIs, CloseIs

LEMMA StandsSame ==
  ASSUME NEW f, NEW us, NEW pt, NEW state, NEW new, Stands(state, f, us, pt),
         new \in Handshake \cup {"connect", "normal"} =>
            new \in {state, "Authentication", "password"} \/ (state = "connect" /\ new = "ProtocolVersion")
  PROVE  Stands(new, f, us, pt)
BY DEF Stands, Handshake

(* The send timer does not outlive the connection, nor does its socket close *)
(* before it ends.                                                          *)
Hushed == /\ rfb_state' \in Closing /\ "send" \in timers' => rfb_state \in Closing /\ "send" \in timers
          /\ rfb_state' \notin Closing => socks' = socks

LEMMA UpdateHushes ==
  ASSUME NEW new, NEW t \in SUBSET timers, NEW set, UpdateState(new, socks, t, set),
         "send" \in set => new \notin Closing
  PROVE  Hushed
<1>1. /\ rfb_state' = new \/ (new \in Closing /\ rfb_state' \in Closing)
      /\ timers' \subseteq t \cup set
      /\ socks' = socks \/ new \in Closing
      /\ new = rfb_state \/ new \notin Closing \/ "send" \in set \/ "send" \notin timers'
  BY UpdateIs DEF Closing
<1> QED
  BY <1>1 DEF Hushed

ClientSafe == ClientTypes /\ OnScript /\ Asked /\ NothingForgotten

LEMMA EffectsKeep ==
  ASSUME ClientTypes, Asked, lost = "nothing", NEW r, Outcome(r), NEW t \in SUBSET timers, Effects(r, t),
         UNCHANGED <<password, cur, asking, mouse_arr, server, events, stale, late>>
  PROVE  ClientSafe' /\ Sends(r.say) /\ rfb_state' = r.state /\ Hushed
<1>0. UNCHANGED <<partner, srv>> /\ cur' = cur
  BY DEF server
<1>1. UpdateState(r.state, socks, t, (IF r.state = "Security" /\ rfb_state # r.state THEN {"send"} ELSE {}) \cup Again(r))
  BY DEF Effects
<1>2. /\ rfb_state' = r.state
      /\ timers' \subseteq timers \cup {"send"} \cup Again(r) /\ Again(r) \subseteq timers'
  BY <1>1, UpdateIs DEF Outcome
<1>3. socks' \in [1..MaxConnects -> SocketStates]
  <2>1. socks \in [1..MaxConnects -> SocketStates]
    BY DEF ClientTypes, SocketStates
  <2> QED
    BY <1>1, <2>1, UpdateTypes
<1>4. Sends(r.say)
  <2>1. SentTypes /\ r.say \in Seq(Heards) /\ Send(r.say)
    BY DEF ClientTypes, SentTypes, Outcome, Effects
  <2> QED
    BY <2>1, SendSends
<1>5. form' = (form \/ r.state = "password")
  BY DEF Effects
<1>6. \/ r.lost = "nothing" /\ todo' = r.todo /\ avail' = r.avail /\ fbu' = r.fbu /\ lost' = "nothing"
      \/ r.lost # "nothing" /\ todo' = <<>> /\ avail' = 0 /\ fbu' = NoUpdate /\ lost' = r.lost
  BY DEF Effects
<1>7. "msg" \in Again(r) => rfb_state = "normal"
  BY DEF Again
<1>8. "password" \notin Again(r)
  BY DEF Again
<1>9. ClientTypes'
  <2>1. /\ fbu' \in Fbus /\ todo' \in Seq(Units) /\ WellSized(todo)' /\ avail' \in Int
        /\ lost' \in {"nothing"} \cup Excused
    <3>1. CASE r.lost = "nothing"
      BY <1>6, <3>1 DEF Outcome
    <3>2. CASE r.lost # "nothing"
      <4>1. NoUpdate \in Fbus
        BY DEF NoUpdate, Fbus, Codes
      <4>2. <<>> \in Seq(Units) /\ WellSized(<<>>)
        BY BytesNone DEF Plain
      <4>3. todo' = <<>> /\ avail' = 0 /\ fbu' = NoUpdate /\ lost' = r.lost
        BY <1>6, <3>2
      <4>4. lost' \in {"nothing"} \cup Excused
        BY <4>3 DEF Outcome
      <4>5. todo' \in Seq(Units) /\ WellSized(todo')
        BY <4>2, <4>3
      <4>6. fbu' \in Fbus /\ avail' \in Int
        BY <4>1, <4>3
      <4> QED
        BY <4>4, <4>5, <4>6
    <3> QED
      BY <3>1, <3>2
  <2>2. sent' \in Seq(Heards) /\ sQ' \in Seq(Heards)
    BY <1>4 DEF Sends, SentTypes
  <2>3. rfb_state' \in States /\ form' \in BOOLEAN /\ password' \in BOOLEAN
    BY <1>2, <1>5 DEF Outcome, ClientTypes
  <2> QED
    BY <1>0, <1>3, <2>1, <2>2, <2>3 DEF ClientTypes, SocketStates
<1>10. OnScript'
  <2>1. CASE r.lost # "nothing"
    BY <1>6, <2>1 DEF OnScript
  <2>2. CASE r.lost = "nothing"
    <3>1. todo' = r.todo /\ avail' = r.avail /\ fbu' = r.fbu
      BY <1>6, <2>2
    <3>2. avail' <= BytesOf(todo')
      BY <2>2, <3>1 DEF Outcome, Tracks
    <3>3. PICK pt \in Points : /\ Runs(pt, r.todo, Point(Comes(srv), Between(0)), partner)
                               /\ Stands(r.state, r.fbu, r.todo, pt)
                               /\ pt.stage # "messages" => ~SaysSetup((sent \o sQ) \o r.say)
      BY <2>2 DEF Outcome, Tracks
    <3>4. pt.stage # "messages" => ~SaysSetup(sent' \o sQ')
      <4>1. Clipped(sent' \o sQ', (sent \o sQ) \o r.say)
        BY <1>4 DEF Sends
      <4> QED
        BY <3>3, <4>1, SaysClipped DEF SaysSetup
    <3>5. At(pt)'
      BY <1>2, <3>1, <3>3, <3>4 DEF At
    <3>6. Runs(pt, todo', Point(Comes(srv'), Between(0)), partner')
      BY <1>0, <3>1, <3>3
    <3> QED
      BY <3>2, <3>5, <3>6 DEF OnScript
  <2> QED
    BY <2>1, <2>2
<1>11. Asked'
  <2>1. form' => partner'.auth = "vnc" /\ rfb_state' \notin Early
    BY <1>0, <1>2, <1>5 DEF Asked, Outcome, Early
  <2>2. "password" \in timers' => form'
    BY <1>2, <1>5, <1>8 DEF Asked
  <2>3. "msg" \in timers' => rfb_state' \notin Early
    BY <1>2, <1>7 DEF Asked, Outcome, Early
  <2>4. /\ rfb_state' = "Authentication" => partner'.auth \in {"vnc", "refused"}
        /\ rfb_state' = "password" => partner'.auth = "vnc"
    BY <1>0, <1>2 DEF Outcome
  <2>5. srv' = "answered" => SaysSetup(sent')
    BY <1>0, <1>4 DEF Asked, Sends
  <2> QED
    BY <2>1, <2>2, <2>3, <2>4, <2>5 DEF Asked, Early
<1>12. NothingForgotten'
  <2>1. CASE r.lost # "nothing"
    BY <1>6, <2>1 DEF NothingForgotten, OffTrack
  <2>2. CASE r.lost = "nothing"
    <3>1. todo' = r.todo /\ avail' = r.avail /\ fbu' = r.fbu
      BY <1>6, <2>2
    <3>2. Remembers(r)
      BY <2>2 DEF Outcome
    <3>3. rfb_state = "normal" /\ r.out = "done" /\ r.avail > 0 => "msg" \in timers'
      BY <1>2 DEF Again
    <3> QED
      BY <1>0, <1>2, <3>1, <3>2, <3>3 DEF NothingForgotten, OffTrack, Remembers
  <2> QED
    BY <2>1, <2>2
<1>13. Hushed
  <2>1. "send" \in (IF r.state = "Security" /\ rfb_state # r.state THEN {"send"} ELSE {}) \cup Again(r)
        => r.state \notin Closing
    BY DEF Again, Closing
  <2> QED
    BY <1>1, <2>1, UpdateHushes
<1> QED
  BY <1>2, <1>4, <1>9, <1>10, <1>11, <1>12, <1>13 DEF ClientSafe

-----------------------------------------------------------------------------
(* The bytes in rQ are looked at, because some arrived or a timer fired.    *)
Speaks(say) == \/ rfb_state = "normal" /\ rfb_state' \in {"normal", "failed"} /\ say \in Seq(Requests)
               \/ Spoke(rfb_state, rfb_state', say, partner)
Speech == \E say \in Seq(Heards) : Send(say) /\ Sends(say) /\ Speaks(say)

LEMMA BytesWaiting ==
  ASSUME ClientTypes
  PROVE  Plain(todo) /\ BytesOf(todo) \in Nat /\ (todo # <<>> => BytesOf(todo) > 0)
<1>1. Plain(todo)
  BY DEF ClientTypes, Plain
<1> QED
  BY <1>1, BytesSome, BytesNat

LEMMA IgnoredKeeps ==
  ASSUME ClientSafe, NEW a \in Int, a <= BytesOf(todo) \/ lost # "nothing",
         NEW t \in SUBSET timers,
         \/ a <= 0 \/ rfb_state # "normal" \/ lost # "nothing"
         \/ a = avail /\ timers \ {"password"} \subseteq t,
         Ignored(a, t),
         UNCHANGED <<password, cur, asking, mouse_arr, server, events, stale, late>>
  PROVE  ClientSafe' /\ Speech /\ Hushed
<1>0. /\ UNCHANGED <<rfb_state, socks, ending, fbu, todo, lost, form, pollers, sQ, sent, partner, srv, cur>>
      /\ timers' = t /\ avail' = a
  BY DEF Ignored, server
<1>1. ClientTypes /\ OnScript /\ Asked /\ NothingForgotten
  BY DEF ClientSafe
<1>2. ClientTypes'
  BY <1>0, <1>1 DEF ClientTypes
<1>3. OnScript'
  BY <1>0, <1>1 DEF OnScript, At
<1>4. Asked'
  BY <1>0, <1>1 DEF Asked
<1>5. NothingForgotten'
  BY <1>0, <1>1, BytesWaiting DEF NothingForgotten, OffTrack
<1>6. Speech
  <2>1. Sends(<<>>) /\ <<>> \in Seq(Heards)
    BY <1>0, <1>1, SilenceSends, EmptySeq DEF ClientTypes, SentTypes
  <2>2. Speaks(<<>>)
    BY <1>0 DEF Speaks, Spoke
  <2>3. Send(<<>>)
    BY <1>0 DEF Send
  <2> QED
    BY <2>1, <2>2, <2>3 DEF Speech
<1>7. Hushed
  BY <1>0 DEF Hushed
<1> QED
  BY <1>2, <1>3, <1>4, <1>5, <1>6, <1>7 DEF ClientSafe

LEMMA HandledKeeps ==
  ASSUME ClientSafe, lost = "nothing", NEW a \in Int, a <= BytesOf(todo),
         rfb_state = "Security" => todo # <<>>,
         NEW t \in SUBSET timers, Effects(Handled(a), t),
         UNCHANGED <<password, cur, asking, mouse_arr, server, events, stale, late>>
  PROVE  ClientSafe' /\ Speech /\ Hushed
<1> DEFINE r == Handled(a)
<1>1. ClientTypes /\ OnScript /\ Asked
  BY DEF ClientSafe
<1>2. CASE rfb_state = "normal"
  <2>1. Outcome(r) /\ r.say \in Seq(Requests) /\ r.state \in {"normal", "failed"}
    BY <1>1, <1>2, NormalOutcome
  <2> HIDE DEF r
  <2>2. ClientSafe' /\ Sends(r.say) /\ rfb_state' = r.state /\ Hushed
    BY <1>1, <2>1, EffectsKeep DEF r
  <2>3. r.say \in Seq(Heards)
    BY <2>1 DEF Outcome
  <2>4. Speaks(r.say)
    BY <1>2, <2>1, <2>2 DEF Speaks
  <2>5. Send(r.say)
    BY DEF Effects, r
  <2> QED
    BY <2>2, <2>3, <2>4, <2>5 DEF Speech
<1>3. CASE rfb_state # "normal"
  <2>1. Outcome(r) /\ Spoke(rfb_state, r.state, r.say, partner)
    BY <1>1, <1>3, InitOutcome
  <2> HIDE DEF r
  <2>2. ClientSafe' /\ Sends(r.say) /\ rfb_state' = r.state /\ Hushed
    BY <1>1, <2>1, EffectsKeep DEF r
  <2>3. r.say \in Seq(Heards)
    BY <2>1 DEF Outcome
  <2>4. Speaks(r.say)
    BY <2>1, <2>2 DEF Speaks
  <2>5. Send(r.say)
    BY DEF Effects, r
  <2> QED
    BY <2>2, <2>3, <2>4, <2>5 DEF Speech
<1> QED
  BY <1>2, <1>3

LEMMA HandleKeeps ==
  ASSUME ClientSafe, NEW a \in Int, a <= BytesOf(todo) \/ lost # "nothing",
         rfb_state = "Security" /\ lost = "nothing" /\ a # 0 => todo # <<>>,
         NEW t \in SUBSET timers, HandleMessage(a, t),
         UNCHANGED <<password, cur, asking, mouse_arr, server, events, stale, late>>
  PROVE  ClientSafe' /\ Speech /\ Hushed
<1>1. CASE a = 0 \/ rfb_state \in {"disconnected", "failed"} \/ lost # "nothing"
  <2>1. Ignored(a, t)
    BY <1>1 DEF HandleMessage
  <2>2. a <= 0 \/ rfb_state # "normal" \/ lost # "nothing"
    BY <1>1
  <2> QED
    BY <2>1, <2>2, IgnoredKeeps
<1>2. CASE ~(a = 0 \/ rfb_state \in {"disconnected", "failed"} \/ lost # "nothing")
  <2>1. Effects(Handled(a), t)
    BY <1>2 DEF HandleMessage
  <2> QED
    BY <1>2, <2>1, HandledKeeps
<1> QED
  BY <1>1, <1>2

LEMMA PiecesAre ==
  ASSUME ClientTypes, NEW n \in Pieces
  PROVE  avail + n \in Int /\ avail + n <= BytesOf(todo) /\ n > 0
<1> DEFINE Ends(i) == {BytesOf(SubSeq(todo, 1, i - 1)) + m : m \in ToSet(todo[i].stages)}
           cuts == UNION {Ends(i) \cup {m - 1 : m \in Ends(i)} : i \in DOMAIN todo}
<1>1. Plain(todo) /\ BytesOf(todo) \in Nat /\ avail \in Int
  BY BytesWaiting DEF ClientTypes
<1>2. DOMAIN todo = 1..Len(todo)
  BY <1>1, LenProperties DEF Plain
<1>3. ASSUME NEW i \in 1..Len(todo), NEW m \in Ends(i) PROVE m \in Int /\ m <= BytesOf(todo)
  <2>1. PICK k \in ToSet(todo[i].stages) : m = BytesOf(SubSeq(todo, 1, i - 1)) + k
    BY <1>3
  <2>2. /\ todo[i].stages \in Seq(Nat) /\ Size(todo[i]) \in Nat
        /\ \A j \in 1..Len(todo[i].stages) : todo[i].stages[j] \in 1..Size(todo[i])
    BY <1>1, UnitIs
  <2>3. k \in 1..Size(todo[i])
    <3>1. DOMAIN todo[i].stages = 1..Len(todo[i].stages)
      BY <2>2, LenProperties
    <3> QED
      BY <2>2, <3>1 DEF ToSet
  <2>4. /\ BytesOf(SubSeq(todo, 1, i - 1)) \in Nat
        /\ BytesOf(SubSeq(todo, 1, i - 1)) + Size(todo[i]) <= BytesOf(todo)
    BY <1>1, BytesUpTo
  <2> QED
    BY <1>1, <2>1, <2>2, <2>3, <2>4
<1>4. ASSUME NEW c \in cuts PROVE c \in Int /\ c <= BytesOf(todo)
  <2>1. PICK i \in 1..Len(todo) : c \in Ends(i) \cup {m - 1 : m \in Ends(i)}
    BY <1>2
  <2>2. PICK m \in Ends(i) : c = m \/ c = m - 1
    BY <2>1
  <2>3. m \in Int /\ m <= BytesOf(todo)
    BY <1>3
  <2> QED
    BY <1>1, <2>2, <2>3
<1>5. PICK c \in cuts : c > avail /\ n = c - avail
  BY DEF Pieces
<1>6. c \in Int /\ c <= BytesOf(todo)
  BY <1>4
<1> HIDE DEF cuts
<1> QED
  BY <1>1, <1>5, <1>6

LEMMA ArriveKeeps ==
  ASSUME ClientSafe, NEW n \in Pieces, Arrive(n)
  PROVE  ClientSafe' /\ Speech /\ Hushed
<1> DEFINE a == avail + n
<1>1. a \in Int /\ a <= BytesOf(todo) /\ BytesOf(todo) \in Nat
  BY PiecesAre, BytesWaiting DEF ClientSafe
<1>2. UNCHANGED <<password, cur, asking, mouse_arr, server, events, stale, late>>
  BY DEF Arrive
<1>3. timers \in SUBSET timers
  OBVIOUS
<1>4. todo = <<>> => BytesOf(todo) = 0
  BY BytesNone
<1>5. IF a > 0 THEN HandleMessage(a, timers) ELSE Ignored(a, timers)
  BY DEF Arrive
<1> HIDE DEF a
<1>6. CASE a > 0
  BY <1>1, <1>2, <1>3, <1>4, <1>5, <1>6, HandleKeeps
<1>7. CASE ~(a > 0)
  <2>1. Ignored(a, timers) /\ timers' = timers /\ avail' = a
    BY <1>5, <1>7 DEF Ignored
  <2> QED
    BY <1>1, <1>2, <1>3, <1>7, <2>1, IgnoredKeeps
<1> QED
  BY <1>6, <1>7

LEMMA MessageTimerKeeps ==
  ASSUME ClientSafe, MessageTimer
  PROVE  ClientSafe' /\ Speech /\ Hushed
<1> DEFINE t == timers \ {"msg"}
<1>1. avail \in Int /\ (avail <= BytesOf(todo) \/ lost # "nothing")
  BY DEF ClientSafe, ClientTypes, OnScript
<1>2. rfb_state # "Security"
  BY DEF ClientSafe, Asked, MessageTimer
<1>3. /\ HandleMessage(avail, t) /\ t \in SUBSET timers
      /\ UNCHANGED <<password, cur, asking, mouse_arr, server, events, stale, late>>
  BY DEF MessageTimer
<1> HIDE DEF t
<1> QED
  BY <1>1, <1>2, <1>3, HandleKeeps

LEMMA PasswordTimerKeeps ==
  ASSUME ClientSafe, PasswordTimer
  PROVE  ClientSafe' /\ Speech /\ Hushed
<1> DEFINE t == timers \ {"password"}
<1>1. avail \in Int /\ (avail <= BytesOf(todo) \/ lost # "nothing")
  BY DEF ClientSafe, ClientTypes, OnScript
<1>2. rfb_state # "Security"
  BY DEF ClientSafe, Asked, PasswordTimer
<1>3. /\ t \in SUBSET timers
      /\ UNCHANGED <<password, cur, asking, mouse_arr, server, events, stale, late>>
      /\ IF lost = "nothing" /\ rfb_state # "normal" THEN Effects(Handled(avail), t) ELSE Ignored(avail, t)
  BY DEF PasswordTimer
<1> HIDE DEF t
<1>4. CASE lost = "nothing" /\ rfb_state # "normal"
  BY <1>1, <1>2, <1>3, <1>4, HandledKeeps
<1>5. CASE lost # "nothing"
  BY <1>1, <1>3, <1>5, IgnoredKeeps
<1>6. CASE rfb_state = "normal" /\ lost = "nothing"
  <2>1. timers \ {"password"} \subseteq t
    BY DEF t
  <2> QED
    BY <1>1, <1>3, <1>6, <2>1, IgnoredKeeps
<1> QED
  BY <1>4, <1>5, <1>6
-----------------------------------------------------------------------------
(* The connection moves on or ends, and nothing is said.                    *)
Aside == UNCHANGED <<password, cur, asking, fbu, todo, avail, lost, sQ, mouse_arr, partner, srv, sent, form, late>>
Shifted ==
    /\ Aside /\ stale' \in BOOLEAN /\ events' \in {events, events + 1}
    /\ socks' \in [1..MaxConnects -> SocketStates]
    /\ timers' \subseteq timers \cup {"disconn"}
    /\ \/ /\ rfb_state' \in {"failed", "disconnected", "disconnect"}
          /\ "send" \in timers' => rfb_state \in Closing /\ "send" \in timers
       \/ rfb_state = "connect" /\ rfb_state' = "ProtocolVersion" /\ cur # 0 /\ socks'[cur] = "open"

LEMMA UpdateShifts ==
  ASSUME ClientTypes, Aside, stale' \in BOOLEAN, events' \in {events, events + 1},
         NEW new \in {"failed", "disconnected", "disconnect"},
         NEW k \in [1..MaxConnects -> SocketStates], NEW t \in SUBSET timers, NEW set \in SUBSET {"disconn"},
         UpdateState(new, k, t, set)
  PROVE  Shifted
<1>1. /\ rfb_state' = (IF rfb_state = "failed" /\ new = "disconnected" THEN rfb_state ELSE new)
      /\ timers' \subseteq t \cup set
      /\ new = rfb_state \/ new \notin Closing \/ "send" \in set \/ "send" \notin timers'
  BY UpdateIs
<1>2. socks' \in [1..MaxConnects -> SocketStates]
  BY UpdateTypes
<1>3. new \in Closing
  BY DEF Closing
<1>4. rfb_state' \in {"failed", "disconnected", "disconnect"}
  BY <1>1
<1>5. "send" \in timers' => rfb_state \in Closing /\ "send" \in timers
  BY <1>1, <1>3
<1>6. timers' \subseteq timers \cup {"disconn"}
  BY <1>1
<1> QED
  BY <1>2, <1>4, <1>5, <1>6 DEF Shifted

LEMMA OpenShifts ==
  ASSUME ClientTypes, OnOpen
  PROVE  Shifted
<1> DEFINE k == [socks EXCEPT ![cur] = "open"]
<1>1. /\ UpdateState(IF rfb_state = "connect" THEN "ProtocolVersion" ELSE "failed", k, timers, {})
      /\ cur # 0 /\ cur \in 1..MaxConnects
  BY BoundsAssumption DEF OnOpen, ClientTypes
<1>2. k \in [1..MaxConnects -> SocketStates] /\ k[cur] = "open"
  BY <1>1 DEF ClientTypes, SocketStates
<1>3. Aside /\ stale' \in BOOLEAN /\ events' \in {events, events + 1}
  BY DEF OnOpen, Aside, queue, server, ClientTypes
<1>4. timers \in SUBSET timers /\ {} \in SUBSET {"disconn"}
  OBVIOUS
<1> HIDE DEF k
<1>5. CASE rfb_state = "connect"
  <2>1. UpdateState("ProtocolVersion", k, timers, {})
    BY <1>1, <1>5
  <2>2. rfb_state' = "ProtocolVersion" /\ timers' \subseteq timers /\ (socks' = k \/ "ProtocolVersion" \in Closing)
    BY <1>5, <2>1, UpdateIs
  <2>3. socks' = k
    BY <2>2 DEF Closing
  <2> QED
    BY <1>1, <1>2, <1>3, <1>5, <2>2, <2>3 DEF Shifted
<1>6. CASE rfb_state # "connect"
  <2>1. UpdateState("failed", k, timers, {})
    BY <1>1, <1>6
  <2> QED
    BY <1>2, <1>3, <1>4, <2>1, UpdateShifts
<1> QED
  BY <1>5, <1>6

LEMMA CloseShifts ==
  ASSUME ClientTypes, NEW c \in DOMAIN socks, OnClose(c)
  PROVE  Shifted
<1> DEFINE k == [socks EXCEPT ![c] = "closed"]
<1>1. PICK new \in {"failed", "disconnected", "disconnect"} :
         UpdateState(new, k, timers, {}) /\ stale' = (stale \/ (c # cur /\ new # rfb_state))
  <2> DEFINE new == IF rfb_state = "disconnect" THEN "disconnected"
                    ELSE IF rfb_state \in {"failed", "disconnected"} THEN rfb_state
                    ELSE "failed"
  <2>1. UpdateState(new, k, timers, {}) /\ stale' = (stale \/ (c # cur /\ new # rfb_state))
    BY DEF OnClose
  <2>2. new \in {"failed", "disconnected", "disconnect"}
    OBVIOUS
  <2> QED
    BY <2>1, <2>2
<1>2. k \in [1..MaxConnects -> SocketStates]
  BY DEF ClientTypes, SocketStates
<1>3. Aside /\ stale' \in BOOLEAN /\ events' \in {events, events + 1}
  BY <1>1 DEF OnClose, Aside, queue, server, ClientTypes
<1>4. timers \in SUBSET timers /\ {} \in SUBSET {"disconn"}
  OBVIOUS
<1> HIDE DEF k
<1> QED
  BY <1>1, <1>2, <1>3, <1>4, UpdateShifts

LEMMA FailureShifts ==
  ASSUME ClientTypes, NEW c \in DOMAIN socks, AfterFailure(c)
  PROVE  Shifted
<1>1. /\ rfb_state' = IF rfb_state \in {"failed", "disconnected"} THEN rfb_state ELSE "disconnected"
      /\ timers' = IF rfb_state = "disconnected" THEN timers ELSE timers \ {"conn", "disconn", "send", "msg"}
      /\ socks' = IF rfb_state = "disconnected" THEN socks ELSE CloseSocket(socks)
      /\ stale' \in BOOLEAN
  BY DEF AfterFailure, ClientTypes
<1>2. socks \in [1..MaxConnects -> SocketStates]
  BY DEF ClientTypes, SocketStates
<1>3. socks' \in [1..MaxConnects -> SocketStates]
  BY <1>1, <1>2, CloseIs
<1>4. Aside /\ events' \in {events, events + 1}
  BY DEF AfterFailure, rest, Aside, queue, server
<1>5. rfb_state' \in {"failed", "disconnected", "disconnect"}
  BY <1>1
<1>6. timers' \subseteq timers \cup {"disconn"}
  BY <1>1
<1>7. "send" \in timers' => rfb_state \in Closing /\ "send" \in timers
  BY <1>1 DEF Closing
<1> QED
  BY <1>1, <1>3, <1>4, <1>5, <1>6, <1>7 DEF Shifted

LEMMA EndShifts ==
  ASSUME ClientTypes, Garbage \/ ConnectTimeout \/ DisconnectTimeout \/ Disconnect
  PROVE  Shifted
<1>1. \E new \in {"failed", "disconnect"}, t \in SUBSET timers, set \in SUBSET {"disconn"} : UpdateState(new, socks, t, set)
  <2>1. CASE Garbage
    BY <2>1 DEF Garbage
  <2>2. CASE ConnectTimeout
    <3>1. UpdateState("failed", socks, timers \ {"conn"}, {})
      BY <2>2 DEF ConnectTimeout
    <3> QED
      BY <3>1
  <2>3. CASE DisconnectTimeout
    <3>1. UpdateState("failed", socks, timers \ {"disconn"}, {})
      BY <2>3 DEF DisconnectTimeout
    <3> QED
      BY <3>1
  <2>4. CASE Disconnect
    BY <2>4 DEF Disconnect
  <2> QED
    BY <2>1, <2>2, <2>3, <2>4
<1>2. Aside /\ stale' \in BOOLEAN /\ events' \in {events, events + 1}
  BY DEF Garbage, ConnectTimeout, DisconnectTimeout, Disconnect, Spend, rest, Aside, queue, server, ClientTypes
<1>3. socks \in [1..MaxConnects -> SocketStates]
  BY DEF ClientTypes, SocketStates
<1> QED
  BY <1>1, <1>2, <1>3, UpdateShifts

LEMMA ShiftKeeps ==
  ASSUME ClientSafe, Shifted
  PROVE  ClientSafe'
<1>1. ClientTypes /\ OnScript /\ Asked
  BY DEF ClientSafe
<1>2. UNCHANGED <<password, cur, asking, fbu, todo, avail, lost, sQ, mouse_arr, partner, srv, sent, form, late>>
  BY DEF Shifted, Aside
<1>3. \/ rfb_state' \in {"failed", "disconnected", "disconnect"}
      \/ rfb_state = "connect" /\ rfb_state' = "ProtocolVersion"
  BY DEF Shifted
<1>4. ClientTypes'
  <2>1. rfb_state' \in States
    BY <1>3 DEF States, Handshake
  <2>2. events' \in Nat
    BY <1>1 DEF Shifted, ClientTypes
  <2>3. socks' \in [1..MaxConnects -> {"none", "connecting", "open", "closing", "closed"}] /\ stale' \in BOOLEAN
    BY DEF Shifted, SocketStates
  <2> QED
    BY <1>1, <1>2, <2>1, <2>2, <2>3 DEF ClientTypes
<1>5. OnScript'
  <2> SUFFICES ASSUME lost = "nothing" PROVE OnScript'
    BY <1>2 DEF OnScript
  <2>1. PICK pt \in Points : Runs(pt, todo, Point(Comes(srv), Between(0)), partner) /\ At(pt)
    BY <1>1 DEF OnScript
  <2>2. rfb_state' \in Handshake \cup {"connect", "normal"} => rfb_state = "connect" /\ rfb_state' = "ProtocolVersion"
    BY <1>3 DEF Handshake
  <2>3. Stands(rfb_state, fbu, todo, pt)
    BY <2>1 DEF At
  <2>4. Stands(rfb_state', fbu, todo, pt)
    BY <2>2, <2>3, StandsSame
  <2>5. At(pt)'
    BY <1>2, <2>1, <2>4 DEF At
  <2> QED
    BY <1>1, <1>2, <2>1, <2>5 DEF OnScript
<1>6. Asked'
  <2>1. "password" \in timers' => "password" \in timers
    BY DEF Shifted
  <2>2. "msg" \in timers' => "msg" \in timers
    BY DEF Shifted
  <2> QED
    BY <1>1, <1>2, <1>3, <2>1, <2>2 DEF Asked
<1>7. NothingForgotten'
  BY <1>3 DEF NothingForgotten
<1> QED
  BY <1>4, <1>5, <1>6, <1>7 DEF ClientSafe
-----------------------------------------------------------------------------
(* What the server has been told, and who may still tell it something.      *)
SaidAt(state) ==
    CASE state = "ProtocolVersion" -> {}
      [] state = "Security" -> {"version"}
      [] state \in {"Authentication", "password"} -> {"version", "type"}
      [] state = "SecurityResult" -> {"version", "type", "response"}
      [] state = "ServerInitialisation" -> {"version", "type", "response", "clientinit"}
      [] OTHER -> {"version", "type", "response", "clientinit", "setup"}
Knows(all, S, p) == \A m \in DueOf(p) : SaysWord(m, all) <=> m \in S

LEMMA KnowsSame ==
  ASSUME NEW all, NEW p, NEW S, NEW T, Knows(all, S, p), \A m \in DueOf(p) : m \in S <=> m \in T
  PROVE  Knows(all, T, p)
BY DEF Knows

LEMMA SaysOne ==
  ASSUME NEW all \in Seq(Heards), NEW m \in Words, NEW n
  PROVE  SaysWord(n, all \o <<Said(m)>>) <=> SaysWord(n, all) \/ n = m
<1> DEFINE ms == <<Said(m)>>
<1>1. ms \in Seq(Heards) /\ Len(ms) = 1 /\ ms[1].m = m
  BY DEF Said, Heards
<1>2. \A i \in 1..1 : i = 1
  OBVIOUS
<1> HIDE DEF ms
<1>3. SaysWord(n, ms) <=> n = m
  BY <1>1, <1>2 DEF SaysWord
<1>4. SaysWord(n, all \o ms) <=> SaysWord(n, all) \/ SaysWord(n, ms)
  BY <1>1, SaysJoin
<1> QED
  BY <1>3, <1>4 DEF ms

LEMMA TaleWord ==
  ASSUME NEW all, NEW arr, NEW n, NEW p, Tale(all, arr, n, p), NEW S, Knows(all, S, p), NEW m \in Words,
         \/ m = "repeater"
         \/ m \in DueOf(p) \ S /\ (m = "version" \/ PreviousOf(m, p) \in DueOf(p) \cap S)
  PROVE  Tale(all \o <<Said(m)>>, arr, n, p) /\ Knows(all \o <<Said(m)>>, S \cup {m}, p)
<1> DEFINE kept == all \o <<Said(m)>>
<1>1. all \in Seq(Heards)
  BY DEF Tale
<1>2. Tale(kept, arr, n, p)
  <2>1. \/ m = "repeater"
        \/ m \in DueOf(p) /\ ~SaysWord(m, all) /\ (m = "version" \/ SaysWord(PreviousOf(m, p), all))
    BY DEF Knows
  <2> QED
    BY <2>1, TaleSays
<1>3. \A x : SaysWord(x, kept) <=> SaysWord(x, all) \/ x = m
  BY <1>1, SaysOne
<1> HIDE DEF kept
<1>4. Knows(kept, S \cup {m}, p)
  BY <1>3 DEF Knows
<1> QED
  BY <1>2, <1>4 DEF kept

LEMMA TaleTypes ==
  ASSUME NEW all, NEW arr, NEW n, NEW p, Tale(all, arr, n, p), NEW from \in {"Security", "Authentication"},
         Knows(all, SaidAt(from), p)
  PROVE  Tale(all \o Types(from, p), arr, n, p) /\ Knows(all \o Types(from, p), {"version", "type"}, p)
<1>1. all \in Seq(Heards)
  BY DEF Tale
<1>2. CASE from = "Security" /\ p.version # "3.3"
  <2>1. Types(from, p) = <<Said("type")>>
    BY <1>2 DEF Types
  <2>2. Knows(all, {"version"}, p)
    BY <1>2 DEF SaidAt
  <2>3. "type" \in Words /\ "type" \in DueOf(p) \ {"version"} /\ PreviousOf("type", p) \in DueOf(p) \cap {"version"}
    BY <1>2 DEF Words, DueOf, PreviousOf
  <2>4. Tale(all \o <<Said("type")>>, arr, n, p) /\ Knows(all \o <<Said("type")>>, {"version"} \cup {"type"}, p)
    BY <2>2, <2>3, TaleWord
  <2>5. {"version"} \cup {"type"} = {"version", "type"}
    OBVIOUS
  <2> QED
    BY <2>1, <2>4, <2>5
<1>3. CASE ~(from = "Security" /\ p.version # "3.3")
  <2>1. Types(from, p) = <<>> /\ all \o <<>> = all
    BY <1>1, <1>3, ConcatEmptySeq DEF Types
  <2>2. \A m \in DueOf(p) : m \in SaidAt(from) <=> m \in {"version", "type"}
    BY <1>3 DEF SaidAt, DueOf
  <2>3. Knows(all, {"version", "type"}, p)
    BY <2>2, KnowsSame
  <2> QED
    BY <2>1, <2>3
<1> QED
  BY <1>2, <1>3

(* The handshake goes on as it should.                                      *)
Told(all, say, arr, n, p, to) ==
    /\ Tale(all \o say, arr, n, p)
    /\ to # "failed" => Knows(all \o say, SaidAt(to), p)

LEMMA TaleSpoke ==
  ASSUME NEW all, NEW arr, NEW n, NEW p, Tale(all, arr, n, p), NEW from \in Handshake, Knows(all, SaidAt(from), p),
         NEW to, NEW say, Spoke(from, to, say, p)
  PROVE  Told(all, say, arr, n, p, to)
<1>0. all \in Seq(Heards) /\ {"repeater", "version", "type", "response", "clientinit", "setup"} \subseteq Words
  BY DEF Tale, Words
<1>1. CASE say = <<>> /\ to \in {from, "failed"}
  <2>1. all \o say = all
    BY <1>0, <1>1, ConcatEmptySeq
  <2> QED
    BY <1>1, <2>1 DEF Told
<1>2. CASE from = "ProtocolVersion" /\ to = from /\ say = <<Said("repeater")>>
  <2>1. Tale(all \o say, arr, n, p) /\ Knows(all \o say, SaidAt(from) \cup {"repeater"}, p)
    BY <1>0, <1>2, TaleWord
  <2>2. \A m \in DueOf(p) : m \in SaidAt(from) \cup {"repeater"} <=> m \in SaidAt(to)
    BY <1>2 DEF DueOf
  <2> QED
    BY <2>1, <2>2, KnowsSame DEF Told
<1>3. CASE from = "ProtocolVersion" /\ to = "Security" /\ say = <<Said("version")>>
  <2>1. SaidAt(from) = {} /\ SaidAt(to) = {"version"}
    BY <1>3 DEF SaidAt
  <2>2. "version" \in DueOf(p) \ SaidAt(from)
    BY <2>1 DEF DueOf
  <2>3. Tale(all \o say, arr, n, p) /\ Knows(all \o say, SaidAt(from) \cup {"version"}, p)
    BY <1>0, <1>3, <2>2, TaleWord
  <2>4. SaidAt(from) \cup {"version"} = SaidAt(to)
    BY <2>1
  <2> QED
    BY <2>3, <2>4 DEF Told
<1>4. CASE from \in {"Security", "Authentication"} /\
           \/ say = Types(from, p) /\ to \in {"failed", "Authentication", "password"}
           \/ say = Types(from, p) /\ p.auth = "none" /\ to = "SecurityResult"
           \/ say = Append(Types(from, p), Said("clientinit")) /\ p.auth = "none" /\ to = "ServerInitialisation"
           \/ say = Append(Types(from, p), Said("response")) /\ p.auth = "vnc" /\ to = "SecurityResult"
  <2> DEFINE ms == Types(from, p)
             kept == all \o ms
             S == {"version", "type"}
  <2>1. Tale(kept, arr, n, p) /\ Knows(kept, S, p)
    BY <1>4, TaleTypes
  <2>2. ms \in Seq(Heards)
    <3>1. Said("type") \in Heards
      BY <1>0 DEF Said, Heards
    <3> QED
      BY <3>1, EmptySeq DEF Types
  <2>3. \A m \in Words : all \o Append(ms, Said(m)) = kept \o <<Said(m)>>
    <3> SUFFICES ASSUME NEW m \in Words PROVE all \o Append(ms, Said(m)) = kept \o <<Said(m)>>
      OBVIOUS
    <3>1. Said(m) \in Heards /\ <<Said(m)>> \in Seq(Heards)
      BY DEF Said, Heards
    <3> HIDE DEF ms
    <3>2. Append(ms, Said(m)) = ms \o <<Said(m)>>
      BY <2>2, <3>1, AppendIsConcat
    <3> QED
      BY <1>0, <2>2, <3>1, <3>2, ConcatAssociative
  <2> HIDE DEF kept, ms
  <2>4. CASE say = ms /\ to \in {"failed", "Authentication", "password"}
    <3>1. to # "failed" => SaidAt(to) = S
      BY <2>4 DEF SaidAt
    <3> QED
      BY <2>1, <2>4, <3>1 DEF Told, kept
  <2>5. CASE say = ms /\ p.auth = "none" /\ to = "SecurityResult"
    <3>1. \A m \in DueOf(p) : m \in S <=> m \in SaidAt(to)
      BY <2>5 DEF SaidAt, DueOf
    <3>2. Knows(kept, SaidAt(to), p)
      BY <2>1, <3>1, KnowsSame
    <3> QED
      BY <2>1, <2>5, <3>2 DEF Told, kept
  <2>6. CASE say = Append(ms, Said("clientinit")) /\ p.auth = "none" /\ to = "ServerInitialisation"
    <3>1. "clientinit" \in DueOf(p) \ S /\ PreviousOf("clientinit", p) \in DueOf(p) \cap S
      BY <2>6 DEF DueOf, PreviousOf
    <3>2. Tale(kept \o <<Said("clientinit")>>, arr, n, p) /\ Knows(kept \o <<Said("clientinit")>>, S \cup {"clientinit"}, p)
      BY <1>0, <2>1, <3>1, TaleWord
    <3>3. \A m \in DueOf(p) : m \in S \cup {"clientinit"} <=> m \in SaidAt(to)
      BY <2>6 DEF SaidAt, DueOf
    <3>4. all \o say = kept \o <<Said("clientinit")>>
      BY <1>0, <2>3, <2>6
    <3>5. Knows(kept \o <<Said("clientinit")>>, SaidAt(to), p)
      BY <3>2, <3>3, KnowsSame
    <3> QED
      BY <3>2, <3>4, <3>5 DEF Told
  <2>7. CASE say = Append(ms, Said("response")) /\ p.auth = "vnc" /\ to = "SecurityResult"
    <3>1. "response" \in DueOf(p) \ S /\ PreviousOf("response", p) \in DueOf(p) \cap S
      BY <2>7 DEF DueOf, PreviousOf
    <3>2. Tale(kept \o <<Said("response")>>, arr, n, p) /\ Knows(kept \o <<Said("response")>>, S \cup {"response"}, p)
      BY <1>0, <2>1, <3>1, TaleWord
    <3>3. S \cup {"response"} = SaidAt(to)
      BY <2>7 DEF SaidAt
    <3>4. all \o say = kept \o <<Said("response")>>
      BY <1>0, <2>3, <2>7
    <3> QED
      BY <3>2, <3>3, <3>4 DEF Told
  <2> QED
    BY <1>4, <2>4, <2>5, <2>6, <2>7 DEF ms
<1>5. CASE from = "SecurityResult" /\ to = "ServerInitialisation" /\ say = <<Said("clientinit")>>
  <2>1. SaidAt(from) = {"version", "type", "response"} /\ SaidAt(to) = {"version", "type", "response", "clientinit"}
    BY <1>5 DEF SaidAt
  <2>2. "clientinit" \in DueOf(p) \ SaidAt(from) /\ PreviousOf("clientinit", p) \in DueOf(p) \cap SaidAt(from)
    BY <2>1 DEF DueOf, PreviousOf
  <2>3. Tale(all \o say, arr, n, p) /\ Knows(all \o say, SaidAt(from) \cup {"clientinit"}, p)
    BY <1>0, <1>5, <2>2, TaleWord
  <2>4. SaidAt(from) \cup {"clientinit"} = SaidAt(to)
    BY <2>1
  <2> QED
    BY <2>3, <2>4 DEF Told
<1>6. CASE from = "ServerInitialisation" /\ to = "normal" /\ say = <<Said("setup")>>
  <2>1. /\ SaidAt(from) = {"version", "type", "response", "clientinit"}
        /\ SaidAt(to) = {"version", "type", "response", "clientinit", "setup"}
    BY <1>6 DEF SaidAt
  <2>2. "setup" \in DueOf(p) \ SaidAt(from) /\ PreviousOf("setup", p) \in DueOf(p) \cap SaidAt(from)
    BY <2>1 DEF DueOf, PreviousOf
  <2>3. Tale(all \o say, arr, n, p) /\ Knows(all \o say, SaidAt(from) \cup {"setup"}, p)
    BY <1>0, <1>6, <2>2, TaleWord
  <2>4. SaidAt(from) \cup {"setup"} = SaidAt(to)
    BY <2>1
  <2> QED
    BY <2>3, <2>4 DEF Told
<1> QED
  BY <1>1, <1>2, <1>3, <1>4, <1>5, <1>6 DEF Spoke
-----------------------------------------------------------------------------
All == sent \o sQ
Heeded ==
    /\ Tale(All, mouse_arr, events, partner)
    /\ rfb_state \notin Closing => cur # 0 /\ socks[cur] = "open" /\ Knows(All, SaidAt(rfb_state), partner)
    /\ rfb_state = "connect" => All = <<>> /\ mouse_arr = <<>>
    /\ rfb_state \in Closing => "send" \notin timers
    /\ cur \in asking => SaysSetup(All)
HearInv == stale \/ late \/ Heeded

LEMMA HeededHears ==
  ASSUME HearInv
  PROVE  ServerHears
<1> SUFFICES ASSUME ~stale, ~late PROVE ServerHears
  BY DEF ServerHears
<1>1. Tale(All, mouse_arr, events, partner)
  BY DEF HearInv, Heeded
<1>2. SaidInOrder(All)
  BY <1>1, OrderedIs DEF Tale
<1>3. Rising(All, "key") /\ Rising(All \o mouse_arr, "pointer")
  BY <1>1 DEF Tale
<1> QED
  BY <1>2, <1>3 DEF ServerHears, All

LEMMA AllIs ==
  ASSUME ClientTypes
  PROVE  All \in Seq(Heards) /\ sent \in Seq(Heards) /\ sQ \in Seq(Heards) /\ SentTypes
BY JoinIs DEF ClientTypes, All, SentTypes

LEMMA SetupDue == \A p : "setup" \in DueOf(p)
BY DEF DueOf

(* In a connection, all that is said stays said.                            *)
LEMMA SendHears ==
  ASSUME ClientTypes, Heeded, rfb_state \notin Closing, NEW ms \in Seq(Heards), Sends(ms),
         Tale(All \o ms, mouse_arr', events', partner), UNCHANGED <<cur, partner>>, Hushed,
         rfb_state' \notin Closing => Knows(All \o ms, SaidAt(rfb_state'), partner),
         rfb_state' # "connect",
         cur \in asking' => SaysSetup(All)
  PROVE  Heeded'
<1>1. cur # 0 /\ socks[cur] = "open"
  BY DEF Heeded
<1>2. All \in Seq(Heards)
  BY AllIs
<1>3. Thinned(All', All \o ms)
  BY <1>1 DEF Sends, All
<1>4. \A m : m # "request" => (SaysWord(m, All') <=> SaysWord(m, All \o ms))
  BY <1>3, SaysThinned
<1>5. Tale(All', mouse_arr', events', partner)
  BY <1>3, ThinClips, TaleClips
<1>6. ASSUME rfb_state' \notin Closing PROVE socks' = socks /\ Knows(All', SaidAt(rfb_state'), partner)
  <2>1. socks' = socks /\ Knows(All \o ms, SaidAt(rfb_state'), partner)
    BY <1>6 DEF Hushed
  <2>2. \A m \in DueOf(partner) : m # "request"
    BY NoRequest
  <2> QED
    BY <1>4, <2>1, <2>2 DEF Knows
<1>7. rfb_state' \in Closing => "send" \notin timers'
  BY DEF Hushed
<1>8. cur \in asking' => SaysSetup(All')
  <2>1. SaysSetup(All) => SaysSetup(All \o ms)
    BY <1>2, SaysJoin DEF SaysSetup
  <2> QED
    BY <1>4, <2>1 DEF SaysSetup
<1> QED
  BY <1>1, <1>5, <1>6, <1>7, <1>8 DEF Heeded

LEMMA SpeechHears ==
  ASSUME ClientTypes, HearInv, Speech, Hushed,
         UNCHANGED <<cur, asking, mouse_arr, partner, events, stale, late>>
  PROVE  HearInv'
<1> SUFFICES ASSUME ~stale, ~late PROVE Heeded'
  BY DEF HearInv
<1>0. Heeded
  BY DEF HearInv
<1>1. PICK say \in Seq(Heards) : Send(say) /\ Sends(say) /\ Speaks(say)
  BY DEF Speech
<1>2. All \in Seq(Heards)
  BY AllIs
<1>3. CASE rfb_state \in Closing
  <2>1. rfb_state # "normal" /\ rfb_state \notin Handshake
    BY <1>3 DEF Closing, Handshake
  <2>2. say = <<>> /\ rfb_state' \in {rfb_state, "failed"}
    BY <1>1, <2>1 DEF Speaks, Spoke, Handshake
  <2>3. sent' = sent /\ sQ' = sQ
    BY <1>1, <2>2 DEF Send
  <2>4. All' = All
    BY <2>3 DEF All
  <2>5. rfb_state' \in Closing
    BY <1>3, <2>2 DEF Closing
  <2> QED
    BY <1>0, <1>3, <2>2, <2>4, <2>5 DEF Heeded, Hushed
<1>4. CASE rfb_state \notin Closing
  <2>0. Tale(All, mouse_arr, events, partner) /\ Knows(All, SaidAt(rfb_state), partner)
    BY <1>0, <1>4 DEF Heeded
  <2>1. Told(All, say, mouse_arr, events, partner, rfb_state')
    <3>1. CASE rfb_state = "normal" /\ rfb_state' \in {"normal", "failed"} /\ say \in Seq(Requests)
      <4>1. SaysWord("setup", All)
        BY <2>0, <3>1, SetupDue DEF Knows, SaidAt
      <4>2. ASSUME NEW i \in 1..Len(say) PROVE say[i].m = "request"
        <5>1. say[i] \in Requests
          BY <3>1, ElementOfSeq
        <5> QED
          BY <5>1 DEF Requests
      <4>3. Tale(All \o say, mouse_arr, events, partner)
        BY <2>0, <4>1, <4>2, TaleAsks DEF SaysSetup
      <4>4. Knows(All \o say, SaidAt("normal"), partner)
        <5>1. \A m : m # "request" => ~SaysWord(m, say)
          BY <4>2 DEF SaysWord
        <5>2. \A m : SaysWord(m, All \o say) <=> SaysWord(m, All) \/ SaysWord(m, say)
          BY <1>2, SaysJoin
        <5> QED
          BY <2>0, <3>1, <5>1, <5>2, NoRequest DEF Knows
      <4> QED
        BY <3>1, <4>3, <4>4 DEF Told
    <3>2. CASE Spoke(rfb_state, rfb_state', say, partner)
      <4>1. CASE rfb_state \in Handshake
        BY <2>0, <3>2, <4>1, TaleSpoke
      <4>2. CASE rfb_state \notin Handshake
        <5>1. say = <<>> /\ rfb_state' \in {rfb_state, "failed"}
          BY <3>2, <4>2 DEF Spoke, Handshake
        <5>2. All \o say = All
          BY <1>2, <5>1, ConcatEmptySeq
        <5> QED
          BY <2>0, <5>1, <5>2 DEF Told
      <4> QED
        BY <4>1, <4>2
    <3> QED
      BY <1>1, <3>1, <3>2 DEF Speaks
  <2>2. rfb_state' # "connect"
    <3>1. rfb_state # "connect"
      BY <1>4 DEF Closing
    <3> QED
      BY <1>1, <3>1 DEF Speaks, Spoke
  <2>3. rfb_state' \notin Closing => Knows(All \o say, SaidAt(rfb_state'), partner)
    BY <2>1 DEF Told, Closing
  <2>4. Tale(All \o say, mouse_arr, events, partner)
    BY <2>1 DEF Told
  <2>5. cur \in asking => SaysSetup(All)
    BY <1>0 DEF Heeded
  <2>6. Tale(All \o say, mouse_arr', events', partner) /\ asking' = asking /\ UNCHANGED <<cur, partner>>
    BY <2>4
  <2> QED
    BY <1>0, <1>1, <1>4, <2>2, <2>3, <2>5, <2>6, SendHears
<1> QED
  BY <1>3, <1>4

LEMMA TaleAt ==
  ASSUME ClientTypes, NEW all, NEW arr, NEW p, Tale(all, arr, events, p), events' \in {events, events + 1}
  PROVE  Tale(all, arr, events', p)
<1>1. events \in Nat
  BY DEF ClientTypes
<1> QED
  BY <1>1, TaleLater

LEMMA ShiftHears ==
  ASSUME ClientTypes, HearInv, Shifted, stale => stale'
  PROVE  HearInv'
<1>1. UNCHANGED <<cur, asking, sQ, mouse_arr, partner, sent, late>>
  BY DEF Shifted, Aside
<1> SUFFICES ASSUME ~stale, ~late PROVE Heeded'
  BY <1>1 DEF HearInv
<1>2. Heeded
  BY DEF HearInv
<1>3. All' = All
  BY <1>1 DEF All
<1>4. Tale(All', mouse_arr', events', partner')
  <2>1. Tale(All, mouse_arr, events', partner)
    BY <1>2, TaleAt DEF Heeded, Shifted
  <2> QED
    BY <1>1, <1>3, <2>1
<1>5. cur' \in asking' => SaysSetup(All')
  BY <1>1, <1>2, <1>3 DEF Heeded
<1>6. CASE /\ rfb_state' \in {"failed", "disconnected", "disconnect"}
           /\ "send" \in timers' => rfb_state \in Closing /\ "send" \in timers
  <2>1. rfb_state' \in Closing /\ rfb_state' # "connect"
    BY <1>6 DEF Closing
  <2>2. "send" \notin timers'
    BY <1>2, <1>6 DEF Heeded
  <2> QED
    BY <1>4, <1>5, <2>1, <2>2 DEF Heeded
<1>7. CASE rfb_state = "connect" /\ rfb_state' = "ProtocolVersion" /\ cur # 0 /\ socks'[cur] = "open"
  <2>1. All = <<>>
    BY <1>2, <1>7 DEF Heeded
  <2>2. \A m : ~SaysWord(m, <<>>)
    BY EmptySeq DEF SaysWord
  <2>3. Knows(All', SaidAt(rfb_state'), partner')
    BY <1>3, <1>7, <2>1, <2>2 DEF Knows, SaidAt
  <2>4. rfb_state' \notin Closing /\ rfb_state' # "connect"
    BY <1>7 DEF Closing
  <2> QED
    BY <1>1, <1>4, <1>5, <1>7, <2>3, <2>4 DEF Heeded
<1> QED
  BY <1>6, <1>7 DEF Shifted
-----------------------------------------------------------------------------
(* What the user does, and the timers that ask and send.                    *)
Unmoved == UNCHANGED <<rfb_state, password, socks, cur, timers, fbu, todo, avail, lost, partner, srv, form, late>>
Chatter(ms) == ms \in Seq(Heards) /\ \A i \in 1..Len(ms) : ms[i].m \in {"request", "key", "pointer"}

LEMMA UserKeeps ==
  ASSUME ClientSafe, Unmoved, NEW ms \in Seq(Heards), Sends(ms),
         SaysSetup(ms) => SaysSetup(All) \/ rfb_state = "normal",
         mouse_arr' \in Seq(Heards), asking' \subseteq 0..cur, events' \in Nat, stale' \in BOOLEAN
  PROVE  ClientSafe'
<1>1. ClientTypes /\ OnScript /\ Asked /\ NothingForgotten
  BY DEF ClientSafe
<1>2. UNCHANGED <<rfb_state, password, socks, cur, timers, fbu, todo, avail, lost, partner, srv, form, late>>
  BY DEF Unmoved
<1>3. ClientTypes'
  <2>1. sent' \in Seq(Heards) /\ sQ' \in Seq(Heards)
    BY DEF Sends, SentTypes
  <2> QED
    BY <1>1, <1>2, <2>1 DEF ClientTypes
<1>4. OnScript'
  <2> SUFFICES ASSUME lost = "nothing" PROVE OnScript'
    BY <1>2 DEF OnScript
  <2>1. PICK pt \in Points : Runs(pt, todo, Point(Comes(srv), Between(0)), partner) /\ At(pt)
    BY <1>1 DEF OnScript
  <2>2. ASSUME pt.stage # "messages" PROVE ~SaysSetup(All')
    <3>1. ~SaysSetup(All) /\ rfb_state # "normal"
      BY <2>1, <2>2 DEF At, Stands, All
    <3>2. All \in Seq(Heards)
      BY <1>1, AllIs
    <3>3. ~SaysSetup(All \o ms)
      BY <3>1, <3>2, SaysJoin DEF SaysSetup
    <3>4. Clipped(All', All \o ms)
      BY DEF Sends, All
    <3> QED
      BY <3>3, <3>4, SaysClipped DEF SaysSetup
  <2>3. At(pt)'
    BY <1>2, <2>1, <2>2 DEF At, All
  <2> QED
    BY <1>1, <1>2, <2>1, <2>3 DEF OnScript
<1>5. Asked'
  BY <1>1, <1>2 DEF Asked, Sends
<1>6. NothingForgotten'
  BY <1>1, <1>2 DEF NothingForgotten, OffTrack
<1> QED
  BY <1>3, <1>4, <1>5, <1>6 DEF ClientSafe

LEMMA UserHears ==
  ASSUME ClientTypes, Heeded, rfb_state \notin Closing, Unmoved, NEW ms, Chatter(ms), Sends(ms),
         Tale(All \o ms, mouse_arr', events', partner), cur \in asking' => SaysSetup(All)
  PROVE  Heeded'
<1>1. UNCHANGED <<rfb_state, socks, cur, timers, partner>>
  BY DEF Unmoved
<1>2. Hushed
  BY <1>1 DEF Hushed
<1>3. All \in Seq(Heards) /\ ms \in Seq(Heards)
  BY AllIs DEF Chatter
<1>4. Knows(All, SaidAt(rfb_state), partner)
  BY DEF Heeded
<1>5. Knows(All \o ms, SaidAt(rfb_state), partner)
  <2>1. ASSUME NEW m \in DueOf(partner) PROVE ~SaysWord(m, ms)
    <3>1. m \notin {"request", "key", "pointer"}
      BY DEF DueOf
    <3> QED
      BY <3>1 DEF SaysWord, Chatter
  <2>2. \A m : SaysWord(m, All \o ms) <=> SaysWord(m, All) \/ SaysWord(m, ms)
    BY <1>3, SaysJoin
  <2> QED
    BY <1>4, <2>1, <2>2 DEF Knows
<1>6. rfb_state' # "connect"
  BY <1>1 DEF Closing
<1>7. rfb_state' \notin Closing => Knows(All \o ms, SaidAt(rfb_state'), partner)
  BY <1>1, <1>5
<1>8. UNCHANGED <<cur, partner>>
  BY <1>1
<1> QED
  BY <1>2, <1>3, <1>6, <1>7, <1>8, SendHears

LEMMA RequestIs == <<Said("request")>> \in Seq(Requests) /\ Chatter(<<Said("request")>>) /\ ~SaysSetup(<<Said("request")>>)
                   /\ \A i \in 1..Len(<<Said("request")>>) : <<Said("request")>>[i].m = "request"
<1> DEFINE ms == <<Said("request")>>
<1>1. Said("request") \in Requests /\ Said("request") \in Heards /\ Said("request").m = "request"
  BY DEF Said, Requests, Heards, Words
<1>2. ms \in Seq(Requests) /\ ms \in Seq(Heards) /\ Len(ms) = 1 /\ ms[1].m = "request"
  BY <1>1
<1>3. \A i \in 1..1 : i = 1
  OBVIOUS
<1> HIDE DEF ms
<1>4. ms \in Seq(Requests) /\ Chatter(ms) /\ ~SaysSetup(ms) /\ \A i \in 1..Len(ms) : ms[i].m = "request"
  BY <1>2, <1>3 DEF Chatter, SaysSetup, SaysWord
<1> QED
  BY <1>4 DEF ms

LEMMA NothingIs == <<>> \in Seq(Heards) /\ Chatter(<<>>) /\ ~SaysSetup(<<>>)
BY EmptySeq DEF Chatter, SaysSetup, SaysWord

LEMMA GrabbedIs ==
  ASSUME ClientTypes, Grabbed
  PROVE  rfb_state \notin Closing /\ SaysSetup(All)
BY AllIs, HeardSays DEF Grabbed, SaysSetup, All

LEMMA InputIs ==
  ASSUME ClientTypes, NEW m \in {"key", "pointer"}
  PROVE  Input(m) \in Heards /\ Input(m).m = m /\ Input(m).n = events /\ events \in Nat /\ events + 1 \in Nat
BY DEF ClientTypes, Input, Heards, Words

LEMMA SendTimerKeeps ==
  ASSUME ClientSafe, SendTimer
  PROVE  ClientSafe' /\ (HearInv => HearInv')
<1>1. ClientTypes
  BY DEF ClientSafe
<1>2. Unmoved /\ UNCHANGED <<mouse_arr, asking, events, stale, late>>
  BY DEF SendTimer, Unmoved, link, queue, server
<1>3. Sends(<<>>)
  BY <1>1, AllIs, TimerSends DEF SendTimer
<1>4. mouse_arr' \in Seq(Heards) /\ asking' \subseteq 0..cur /\ events' \in Nat /\ stale' \in BOOLEAN
  BY <1>1, <1>2 DEF ClientTypes
<1>5. ClientSafe'
  BY <1>2, <1>3, <1>4, NothingIs, UserKeeps
<1>6. ASSUME Heeded PROVE Heeded'
  <2>1. rfb_state \notin Closing
    BY <1>6 DEF Heeded, SendTimer
  <2>2. All \o <<>> = All
    BY <1>1, AllIs, ConcatEmptySeq
  <2>3. Tale(All \o <<>>, mouse_arr', events', partner) /\ (cur \in asking' => SaysSetup(All))
    BY <1>2, <1>6, <2>2 DEF Heeded
  <2> QED
    BY <1>1, <1>2, <1>3, <1>6, <2>1, <2>3, NothingIs, UserHears
<1> QED
  BY <1>2, <1>5, <1>6 DEF HearInv

LEMMA KeyPressKeeps ==
  ASSUME ClientSafe, KeyPress
  PROVE  ClientSafe' /\ (HearInv => HearInv')
<1> DEFINE x == Input("key")
           y == Said("request")
           ms == <<x, y>>
<1>1. ClientTypes /\ Grabbed
  BY DEF ClientSafe, KeyPress
<1>2. Unmoved /\ UNCHANGED <<mouse_arr, asking, stale, late>> /\ events' = events + 1
  BY DEF KeyPress, Spend, user, Unmoved, link, queue, server
<1>3. x \in Heards /\ x.m = "key" /\ x.n = events /\ events \in Nat /\ events + 1 \in Nat
  BY <1>1, InputIs
<1>4. y \in Heards /\ y.m = "request"
  BY DEF Said, Heards, Words
<1>5. Send(ms)
  BY DEF KeyPress
<1> HIDE DEF x, y
<1>6. ms \in Seq(Heards) /\ Len(ms) = 2 /\ ms[1].m = "key" /\ ms[2].m = "request"
  BY <1>3, <1>4
<1>7. \A i \in 1..2 : i = 1 \/ i = 2
  OBVIOUS
<1> HIDE DEF ms
<1>8. Chatter(ms)
  BY <1>6, <1>7 DEF Chatter
<1>9. Sends(ms)
  BY <1>1, <1>5, <1>6, AllIs, SendSends
<1>10. rfb_state \notin Closing /\ SaysSetup(All)
  BY <1>1, GrabbedIs
<1>11. mouse_arr' \in Seq(Heards) /\ asking' \subseteq 0..cur /\ events' \in Nat /\ stale' \in BOOLEAN
  BY <1>1, <1>2, <1>3 DEF ClientTypes
<1>12. ClientSafe'
  BY <1>2, <1>6, <1>9, <1>10, <1>11, UserKeeps
<1>13. ASSUME Heeded PROVE Heeded'
  <2>1. Tale(All, mouse_arr, events, partner)
    BY <1>13 DEF Heeded
  <2>2. Tale(All \o ms, mouse_arr, events + 1, partner)
    BY <1>3, <1>4, <1>10, <2>1, TaleKey DEF ms
  <2>3. Tale(All \o ms, mouse_arr', events', partner)
    BY <1>2, <2>2
  <2> QED
    BY <1>1, <1>2, <1>8, <1>9, <1>10, <1>13, <2>3, UserHears
<1> QED
  BY <1>2, <1>12, <1>13 DEF HearInv

LEMMA MouseMoveKeeps ==
  ASSUME ClientSafe, MouseMove
  PROVE  ClientSafe' /\ (HearInv => HearInv')
<1> DEFINE x == Input("pointer")
           arr == Append(mouse_arr, x)
<1>1. ClientTypes /\ Grabbed /\ mouse_arr \in Seq(Heards)
  BY DEF ClientSafe, MouseMove, ClientTypes
<1>2. /\ Unmoved /\ UNCHANGED <<asking, sQ, sent, stale, late>> /\ events' = events + 1
      /\ mouse_arr' = arr
  BY DEF MouseMove, Spend, user, Unmoved, link, queue, server
<1>3. x \in Heards /\ x.m = "pointer" /\ x.n = events /\ events \in Nat /\ events + 1 \in Nat
  BY <1>1, InputIs
<1> HIDE DEF x
<1>4. arr \in Seq(Heards)
  BY <1>1, <1>3
<1>5. Sends(<<>>)
  BY <1>1, <1>2, AllIs, SilenceSends
<1>6. rfb_state \notin Closing /\ SaysSetup(All)
  BY <1>1, GrabbedIs
<1>7. mouse_arr' \in Seq(Heards) /\ asking' \subseteq 0..cur /\ events' \in Nat /\ stale' \in BOOLEAN
  BY <1>1, <1>2, <1>3, <1>4 DEF ClientTypes
<1>8. ClientSafe'
  BY <1>2, <1>5, <1>7, NothingIs, UserKeeps
<1>9. ASSUME Heeded PROVE Heeded'
  <2>1. Tale(All, mouse_arr, events, partner)
    BY <1>9 DEF Heeded
  <2>2. Tale(All, arr, events + 1, partner)
    BY <1>3, <2>1, TaleMoves
  <2>3. All \o <<>> = All
    BY <1>1, AllIs, ConcatEmptySeq
  <2>4. Tale(All \o <<>>, mouse_arr', events', partner)
    BY <1>2, <2>2, <2>3
  <2> QED
    BY <1>1, <1>2, <1>5, <1>6, <1>9, <2>4, NothingIs, UserHears
<1> QED
  BY <1>2, <1>8, <1>9 DEF HearInv

LEMMA FlushKeeps ==
  ASSUME ClientSafe, Unmoved, NEW ms \in Seq(Heards), FlushClient(ms), rfb_state \notin Closing,
         SaysSetup(All) \/ rfb_state = "normal", UNCHANGED <<stale, late>>, events' \in Nat,
         Heeded => SaysSetup(All) /\ Tale(All, ms, events', partner)
  PROVE  ClientSafe' /\ (HearInv => HearInv')
<1>1. ClientTypes /\ cur \in 0..MaxConnects /\ asking \subseteq 0..cur /\ stale \in BOOLEAN
  BY DEF ClientSafe, ClientTypes
<1>2. Send(ms) /\ mouse_arr' = <<>> /\ asking' = asking \cup {cur}
  BY DEF FlushClient
<1>3. Sends(ms)
  BY <1>1, <1>2, AllIs, SendSends
<1>4. mouse_arr' \in Seq(Heards) /\ stale' \in BOOLEAN
  BY <1>1, <1>2, EmptySeq
<1>5. asking' \subseteq 0..cur
  BY <1>1, <1>2, BoundsAssumption
<1>6. ClientSafe'
  BY <1>3, <1>4, <1>5, UserKeeps
<1>7. ASSUME Heeded PROVE Heeded'
  <2>1. SaysSetup(All) /\ Tale(All, ms, events', partner)
    BY <1>7
  <2>2. Tale(All \o ms, mouse_arr', events', partner)
    BY <1>2, <2>1, TaleFlushes
  <2>3. Chatter(ms)
    BY <2>1 DEF Tale, Chatter
  <2> QED
    BY <1>1, <1>3, <1>7, <2>1, <2>2, <2>3, UserHears
<1> QED
  BY <1>6, <1>7 DEF HearInv

LEMMA MouseButtonKeeps ==
  ASSUME ClientSafe, MouseButton
  PROVE  ClientSafe' /\ (HearInv => HearInv')
<1> DEFINE x == Input("pointer")
           ms == Append(mouse_arr, x)
<1>1. ClientTypes /\ Grabbed /\ mouse_arr \in Seq(Heards)
  BY DEF ClientSafe, MouseButton, ClientTypes
<1>2. Unmoved /\ UNCHANGED <<stale, late>> /\ events' = events + 1 /\ FlushClient(ms)
  BY DEF MouseButton, Spend, user, Unmoved, link, queue, server
<1>3. x \in Heards /\ x.m = "pointer" /\ x.n = events /\ events \in Nat /\ events + 1 \in Nat
  BY <1>1, InputIs
<1> HIDE DEF x
<1>4. ms \in Seq(Heards)
  BY <1>1, <1>3
<1>5. rfb_state \notin Closing /\ SaysSetup(All)
  BY <1>1, GrabbedIs
<1>6. ASSUME Heeded PROVE Tale(All, ms, events', partner)
  <2>1. Tale(All, mouse_arr, events, partner)
    BY <1>6 DEF Heeded
  <2>2. Tale(All, ms, events + 1, partner)
    BY <1>3, <2>1, TaleMoves
  <2> QED
    BY <1>2, <2>2
<1>7. events' \in Nat
  BY <1>2, <1>3
<1> HIDE DEF ms
<1> QED
  BY <1>2, <1>4, <1>5, <1>6, <1>7, FlushKeeps

LEMMA CheckEventsKeeps ==
  ASSUME ClientSafe, CheckEvents
  PROVE  ClientSafe' /\ (HearInv => HearInv')
<1>1. ClientTypes /\ mouse_arr \in Seq(Heards) /\ rfb_state = "normal" /\ rfb_state \notin Closing
  BY DEF ClientSafe, CheckEvents, ClientTypes, Closing
<1>2. Unmoved /\ UNCHANGED <<events, stale, late>>
  BY DEF CheckEvents, user, Unmoved, link, queue, server
<1>3. Heeded => SaysSetup(All) /\ Tale(All, mouse_arr, events', partner)
  <2>1. Heeded => Knows(All, SaidAt("normal"), partner) /\ Tale(All, mouse_arr, events', partner)
    BY <1>1, <1>2 DEF Heeded
  <2> QED
    BY <2>1, SetupDue DEF Knows, SaidAt, SaysSetup
<1>4. events' \in Nat /\ stale' \in BOOLEAN
  BY <1>1, <1>2 DEF ClientTypes
<1>5. CASE FlushClient(mouse_arr)
  BY <1>1, <1>2, <1>3, <1>4, <1>5, FlushKeeps
<1>6. CASE Send(<<Said("request")>>) /\ UNCHANGED <<mouse_arr, asking>>
  <2> DEFINE ms == <<Said("request")>>
  <2>1. Chatter(ms) /\ ~SaysSetup(ms) /\ \A i \in 1..Len(ms) : ms[i].m = "request"
    BY RequestIs
  <2>2. Send(ms)
    BY <1>6
  <2> HIDE DEF ms
  <2>3. ms \in Seq(Heards)
    BY <2>1 DEF Chatter
  <2>4. Sends(ms)
    BY <1>1, <2>2, <2>3, AllIs, SendSends
  <2>5. mouse_arr' \in Seq(Heards) /\ asking' \subseteq 0..cur
    BY <1>1, <1>6 DEF ClientTypes
  <2>6. ClientSafe'
    BY <1>2, <1>4, <2>1, <2>3, <2>4, <2>5, UserKeeps
  <2>7. ASSUME Heeded PROVE Heeded'
    <3>1. SaysSetup(All) /\ Tale(All, mouse_arr, events', partner)
      BY <1>3, <2>7
    <3>2. Tale(All \o ms, mouse_arr, events', partner)
      BY <2>1, <2>3, <3>1, TaleAsks
    <3>3. Tale(All \o ms, mouse_arr', events', partner)
      BY <1>6, <3>2
    <3> QED
      BY <1>1, <1>2, <2>1, <2>4, <2>7, <3>1, <3>3, UserHears
  <2> QED
    BY <1>2, <2>6, <2>7 DEF HearInv
<1> QED
  BY <1>5, <1>6 DEF CheckEvents
LEMMA AskAgainKeeps ==
  ASSUME ClientSafe, NEW c, AskAgain(c)
  PROVE  ClientSafe' /\ (HearInv => HearInv')
<1> DEFINE ms == <<Said("request")>>
<1>1. ClientTypes
  BY DEF ClientSafe
<1>2. /\ Unmoved /\ UNCHANGED <<mouse_arr, events, late>>
      /\ c \in asking /\ asking' = asking \ {c} /\ stale' = (stale \/ c # cur)
  BY DEF AskAgain, Unmoved, link, queue, server
<1>3. Chatter(ms) /\ ~SaysSetup(ms) /\ \A i \in 1..Len(ms) : ms[i].m = "request"
  BY RequestIs
<1>4. Send(ms)
  BY DEF AskAgain
<1> HIDE DEF ms
<1>5. ms \in Seq(Heards)
  BY <1>3 DEF Chatter
<1>6. Sends(ms)
  BY <1>1, <1>4, <1>5, AllIs, SendSends
<1>7. mouse_arr' \in Seq(Heards) /\ asking' \subseteq 0..cur /\ events' \in Nat /\ stale' \in BOOLEAN
  BY <1>1, <1>2 DEF ClientTypes
<1>8. ClientSafe'
  BY <1>2, <1>3, <1>5, <1>6, <1>7, UserKeeps
<1>9. ASSUME Heeded, c = cur PROVE Heeded'
  <2>1. SaysSetup(All) /\ Tale(All, mouse_arr, events, partner)
    BY <1>2, <1>9 DEF Heeded
  <2>2. Tale(All \o ms, mouse_arr', events', partner)
    <3>1. Tale(All \o ms, mouse_arr, events, partner)
      BY <1>3, <1>5, <2>1, TaleAsks
    <3> QED
      BY <1>2, <3>1
  <2>3. cur \notin asking'
    BY <1>2, <1>9
  <2>4. CASE rfb_state \notin Closing
    BY <1>1, <1>2, <1>3, <1>6, <1>9, <2>2, <2>3, <2>4, UserHears
  <2>5. CASE rfb_state \in Closing
    <3>1. Clipped(All', All \o ms)
      BY <1>6 DEF Sends, All
    <3>2. Tale(All', mouse_arr', events', partner)
      BY <2>2, <3>1, TaleClips
    <3>3. rfb_state # "connect"
      <4>1. All # <<>>
        BY <2>1, NothingIs
      <4> QED
        BY <1>9, <4>1 DEF Heeded
    <3>4. UNCHANGED <<rfb_state, cur, timers, partner>>
      BY <1>2 DEF Unmoved
    <3> QED
      BY <1>9, <2>3, <2>5, <3>2, <3>3, <3>4 DEF Heeded
  <2> QED
    BY <2>4, <2>5
<1> QED
  BY <1>2, <1>8, <1>9 DEF HearInv

-----------------------------------------------------------------------------
(* What the server sends follows its script.                                *)
LEMMA OneUnit ==
  ASSUME NEW k \in Kinds, NEW stages \in Seq(Nat), NEW v \in Values \ {"filter"}, NEW n \in Nat, stages # <<>>,
         NEW size \in Nat, Last(stages) = size, \A j \in 1..Len(stages) : stages[j] \in 1..size
  PROVE  Plain(<<Unit(k, stages, v, n)>>) /\ Unit(k, stages, v, n).k = k /\ Unit(k, stages, v, n).v = v
<1> DEFINE u == Unit(k, stages, v, n)
           us == <<u>>
<1>1. /\ u \in Units /\ u.k = k /\ u.stages = stages /\ u.v = v
  BY DEF Unit, Units
<1>2. Size(u) = size
  BY <1>1 DEF Size
<1> HIDE DEF u
<1>3. us \in Seq(Units) /\ Len(us) = 1 /\ us[1] = u /\ DOMAIN us = 1..1
  BY <1>1
<1>4. DOMAIN stages = 1..Len(stages)
  BY LenProperties
<1> HIDE DEF us
<1>5. WellSized(us)
  <2> SUFFICES ASSUME NEW i \in DOMAIN us
               PROVE  /\ us[i] \in Units /\ us[i].stages # <<>>
                      /\ \A j \in DOMAIN us[i].stages : us[i].stages[j] \in 1..Size(us[i])
                      /\ us[i].v # "filter"
    BY DEF WellSized
  <2>1. us[i] = u
    BY <1>3
  <2> QED
    BY <1>1, <1>2, <1>4, <2>1
<1> QED
  BY <1>1, <1>3, <1>5 DEF Plain, us, u

LEMMA GreetsOne ==
  ASSUME NEW stage \in Stages \ {"messages"}, NEW u, NEW p, Admits(Point(stage, Between(0)), u),
         NEW next \in Stages, next = NextStage(stage, u, p)
  PROVE  Runs(Point(stage, Between(0)), <<u>>, Point(next, Between(0)), p)
<1>1. Between(0) \in Places
  BY BetweenIs
<1>2. /\ Point(stage, Between(0)) \in Points /\ Point(next, Between(0)) \in Points
      /\ Point(stage, Between(0)).stage = stage
  BY <1>1, PointIs
<1>3. Onward(Point(stage, Between(0)), u, p) = Point(next, Between(0))
  BY <1>2 DEF Onward
<1> QED
  BY <1>2, <1>3, RunsOne

LEMMA ServerKeeps ==
  ASSUME ClientSafe, NEW us, Plain(us), us # <<>>, NEW next \in Servings, ServerAnswers(us, next),
         Runs(Point(Comes(srv), Between(0)), us, Point(Comes(next), Between(0)), partner),
         next = "answered" => SaysSetup(sent), events' \in {events, events + 1}
  PROVE  ClientSafe' /\ (HearInv => HearInv')
<1>1. ClientTypes /\ OnScript /\ Asked
  BY DEF ClientSafe
<1>2. /\ lost = "nothing" /\ todo' = todo \o us /\ srv' = next
      /\ UNCHANGED <<rfb_state, password, socks, cur, timers, asking, fbu, avail, lost, sQ,
                     mouse_arr, partner, sent, form, stale, late>>
  BY DEF ServerAnswers, link
<1>3. Plain(todo) /\ BytesOf(todo) \in Nat /\ BytesOf(us) \in Nat \ {0}
  BY <1>1, BytesWaiting, BytesSome
<1>4. Plain(todo \o us) /\ BytesOf(todo \o us) = BytesOf(todo) + BytesOf(us)
  BY <1>3, PlainJoin, BytesJoin
<1>5. avail \in Int /\ avail <= BytesOf(todo)
  BY <1>1, <1>2 DEF ClientTypes, OnScript
<1>6. events \in Nat /\ events' \in Nat
  BY <1>1 DEF ClientTypes
<1>7. ClientTypes'
  BY <1>1, <1>2, <1>4, <1>6 DEF ClientTypes, Plain
<1>8. OnScript'
  <2>1. PICK pt \in Points : Runs(pt, todo, Point(Comes(srv), Between(0)), partner) /\ At(pt)
    BY <1>1, <1>2 DEF OnScript
  <2>2. Runs(pt, todo \o us, Point(Comes(next), Between(0)), partner)
    BY <1>3, <2>1, RunsJoin
  <2>3. Stands(rfb_state, fbu, todo, pt)
    BY <2>1 DEF At
  <2>4. Stands(rfb_state, fbu, todo \o us, pt)
    <3>1. Matches(fbu, pt.at, todo) => Matches(fbu, pt.at, todo \o us)
      <4>1. 1..BytesOf(todo) \subseteq 1..BytesOf(todo \o us)
        BY <1>3, <1>4
      <4> QED
        BY <4>1 DEF Matches
    <3> QED
      BY <2>3, <3>1 DEF Stands
  <2>5. At(pt)'
    BY <1>2, <2>1, <2>4 DEF At
  <2>6. avail' <= BytesOf(todo')
    BY <1>2, <1>3, <1>4, <1>5
  <2> QED
    BY <1>2, <2>2, <2>5, <2>6 DEF OnScript
<1>9. Asked'
  BY <1>1, <1>2 DEF Asked
<1>10. NothingForgotten'
  <2>1. avail' # BytesOf(todo')
    BY <1>2, <1>3, <1>4, <1>5
  <2> QED
    BY <2>1 DEF NothingForgotten
<1>11. ASSUME Heeded PROVE Heeded'
  <2>1. All' = All
    BY <1>2 DEF All
  <2>2. Tale(All, mouse_arr, events', partner)
    BY <1>1, <1>11, TaleAt DEF Heeded
  <2> QED
    BY <1>2, <1>11, <2>1, <2>2 DEF Heeded
<1> QED
  BY <1>2, <1>7, <1>8, <1>9, <1>10, <1>11 DEF ClientSafe, HearInv

LEMMA OneKeeps ==
  ASSUME ClientSafe, NEW u, Plain(<<u>>), NEW next \in Servings \ {"answered"}, ServerAnswers(<<u>>, next),
         NEW stage \in Stages \ {"messages"}, stage = Comes(srv), Admits(Point(stage, Between(0)), u),
         Comes(next) \in Stages, Comes(next) = NextStage(stage, u, partner), UNCHANGED events
  PROVE  ClientSafe' /\ (HearInv => HearInv')
<1> DEFINE us == <<u>>
<1>1. Runs(Point(Comes(srv), Between(0)), us, Point(Comes(next), Between(0)), partner)
  BY GreetsOne
<1>2. us # <<>>
  OBVIOUS
<1> HIDE DEF us
<1> QED
  BY <1>1, <1>2, ServerKeeps DEF us
LEMMA JoinTwo ==
  ASSUME NEW x, NEW y
  PROVE  <<x>> \o <<y>> = <<x, y>>
<1> DEFINE S == {x, y}
           xs == <<x>>
<1>1. xs \in Seq(S) /\ y \in S
  OBVIOUS
<1>2. Append(xs, y) = <<x, y>>
  BY TwoIs
<1> HIDE DEF S, xs
<1>3. Append(xs, y) = xs \o <<y>>
  BY <1>1, AppendIsConcat
<1> QED
  BY <1>2, <1>3 DEF xs

LEMMA OneStage ==
  ASSUME NEW k \in Kinds, NEW n \in Nat \ {0}, NEW v \in Values \ {"filter"}
  PROVE  Plain(<<Unit(k, <<n>>, v, 0)>>) /\ Unit(k, <<n>>, v, 0).k = k /\ Unit(k, <<n>>, v, 0).v = v
<1> DEFINE stages == <<n>>
<1>1. stages \in Seq(Nat) /\ stages # <<>> /\ Len(stages) = 1 /\ stages[1] = n
  OBVIOUS
<1>2. \A j \in 1..1 : j = 1
  OBVIOUS
<1> HIDE DEF stages
<1>3. Last(stages) = n /\ \A j \in 1..Len(stages) : stages[j] \in 1..n
  BY <1>1, <1>2 DEF Last
<1>4. n \in Nat /\ 0 \in Nat
  OBVIOUS
<1>5. Plain(<<Unit(k, stages, v, 0)>>) /\ Unit(k, stages, v, 0).k = k /\ Unit(k, stages, v, 0).v = v
  BY <1>1, <1>3, <1>4, OneUnit
<1> QED
  BY <1>5 DEF stages

LEMMA TwoStages ==
  ASSUME NEW k \in Kinds, NEW m \in Nat \ {0}, NEW n \in Nat \ {0}, m <= n, NEW v \in Values \ {"filter"}
  PROVE  Plain(<<Unit(k, <<m, n>>, v, 0)>>) /\ Unit(k, <<m, n>>, v, 0).k = k /\ Unit(k, <<m, n>>, v, 0).v = v
<1> DEFINE stages == <<m, n>>
<1>1. stages \in Seq(Nat) /\ stages # <<>> /\ Len(stages) = 2 /\ stages[1] = m /\ stages[2] = n
  OBVIOUS
<1>2. \A j \in 1..2 : j = 1 \/ j = 2
  OBVIOUS
<1> HIDE DEF stages
<1>3. Last(stages) = n /\ \A j \in 1..Len(stages) : stages[j] \in 1..n
  BY <1>1, <1>2 DEF Last
<1>4. n \in Nat /\ 0 \in Nat
  OBVIOUS
<1>5. Plain(<<Unit(k, stages, v, 0)>>) /\ Unit(k, stages, v, 0).k = k /\ Unit(k, stages, v, 0).v = v
  BY <1>1, <1>3, <1>4, OneUnit
<1> QED
  BY <1>5 DEF stages

LEMMA ThreeStages ==
  ASSUME NEW k \in Kinds, NEW l \in Nat \ {0}, NEW m \in Nat \ {0}, NEW n \in Nat \ {0}, l <= n, m <= n,
         NEW v \in Values \ {"filter"}
  PROVE  /\ Plain(<<Unit(k, <<l, m, n>>, v, 0)>>)
         /\ Unit(k, <<l, m, n>>, v, 0).k = k /\ Unit(k, <<l, m, n>>, v, 0).v = v
<1> DEFINE stages == <<l, m, n>>
<1>1. stages \in Seq(Nat) /\ stages # <<>> /\ Len(stages) = 3 /\ stages[1] = l /\ stages[2] = m /\ stages[3] = n
  OBVIOUS
<1>2. \A j \in 1..3 : j = 1 \/ j = 2 \/ j = 3
  OBVIOUS
<1> HIDE DEF stages
<1>3. Last(stages) = n /\ \A j \in 1..Len(stages) : stages[j] \in 1..n
  BY <1>1, <1>2 DEF Last
<1>4. n \in Nat /\ 0 \in Nat
  OBVIOUS
<1>5. Plain(<<Unit(k, stages, v, 0)>>) /\ Unit(k, stages, v, 0).k = k /\ Unit(k, stages, v, 0).v = v
  BY <1>1, <1>3, <1>4, OneUnit
<1> QED
  BY <1>5 DEF stages

LEMMA StageIs ==
  ASSUME NEW stage \in Stages \ {"messages"}, NEW u
  PROVE  Admits(Point(stage, Between(0)), u) <=>
           \/ stage = "version"   /\ u.k = "version"
           \/ stage = "security"  /\ u.k \in {"scheme", "types"}
           \/ stage = "challenge" /\ u.k = "challenge"
           \/ stage = "result"    /\ u.k = "result"
           \/ stage = "init"      /\ u.k = "init"
           \/ stage = "end"       /\ u.k = "reason"
BY PointIs DEF Admits

LEMMA ServingIs ==
  /\ Comes("version") = "version" /\ Comes("repeater") = "version" /\ Comes("security") = "security"
  /\ Comes("challenge") = "challenge" /\ Comes("result") = "result" /\ Comes("init") = "init"
  /\ Comes("end") = "end" /\ Comes("normal") = "messages" /\ Comes("answered") = "messages"
  /\ {"version", "security", "challenge", "result", "init", "end"} = Stages \ {"messages"} /\ "messages" \in Stages
  /\ Servings \ {"answered"} = {"version", "repeater", "security", "challenge", "result", "init", "normal", "end"}
BY DEF Comes, Stages, Servings

LEMMA SecurityIs ==
  ASSUME NEW p, NEW u
  PROVE  /\ NextStage("security", u, p) = AfterTypes(p)
         /\ AfterTypes(p) \in {"challenge", "result", "init", "end"}
         /\ AfterSecurity = AfterTypes(partner)
         /\ p.auth \notin {"vnc", "none"} => AfterTypes(p) = "end"
         /\ p.auth = "vnc" => AfterTypes(p) = "challenge"
BY Zenon DEF NextStage, AfterTypes, AfterSecurity

LEMMA VersionKeeps ==
  ASSUME ClientSafe, UNCHANGED events,
         \/ /\ srv = "version" /\ partner.repeater
            /\ ServerAnswers(<<Version("repeater")>>, "repeater")
         \/ /\ (srv = "version" /\ ~partner.repeater) \/ (srv = "repeater" /\ Heard("repeater"))
            /\ ServerAnswers(<<Version(partner.version)>>, "security")
  PROVE  ClientSafe' /\ (HearInv => HearInv')
<1>1. PICK v \in Versions, next \in {"repeater", "security"} :
         /\ ServerAnswers(<<Version(v)>>, next) /\ srv \in {"version", "repeater"}
         /\ v = "repeater" <=> next = "repeater"
  <2>1. partner.version \in Versions \ {"repeater"} /\ "repeater" \in Versions
    BY ServerAssumption DEF ClientSafe, ClientTypes, Versions
  <2> QED
    BY <2>1
<1> DEFINE u == Version(v)
<1>2. Plain(<<u>>) /\ u.k = "version" /\ u.v = v
  <2>1. "version" \in Kinds /\ v \in Values \ {"filter"}
    BY <1>1 DEF Kinds, Values, Versions
  <2> QED
    BY <2>1, OneStage DEF Version
<1> HIDE DEF u
<1>3. ServerAnswers(<<u>>, next)
  BY <1>1 DEF u
<1>4. Comes(srv) = "version" /\ Comes(next) \in Stages /\ "version" \in Stages \ {"messages"} /\ next \in Servings \ {"answered"}
  BY <1>1, ServingIs
<1>5. Comes(next) = NextStage("version", u, partner)
  BY <1>1, <1>2, ServingIs DEF NextStage
<1>6. Admits(Point("version", Between(0)), u)
  BY <1>2, <1>4, StageIs
<1> QED
  BY <1>2, <1>3, <1>4, <1>5, <1>6, OneKeeps

LEMMA SchemeKeeps ==
  ASSUME ClientSafe, UNCHANGED events, srv = "security",
         IF partner.auth = "vnc"
         THEN ServerAnswers(<<Scheme, Challenge>>, "result")
         ELSE ServerAnswers(<<Scheme>>
                          \o (IF partner.auth = "refused" THEN <<Unit("reason", <<4, 7>>, "plain", 0)>> ELSE <<>>),
                          AfterSecurity)
  PROVE  ClientSafe' /\ (HearInv => HearInv')
<1> DEFINE u == Scheme
           w == Unit("reason", <<4, 7>>, "plain", 0)
           at(stage) == Point(stage, Between(0))
<1>0. "plain" \in Values \ {"filter"} /\ {"scheme", "reason", "challenge"} \subseteq Kinds
  BY DEF Kinds, Values, Versions, Encodings
<1>1. Plain(<<u>>) /\ u.k = "scheme"
  BY <1>0, OneStage DEF Scheme
<1>2. Plain(<<Challenge>>) /\ Challenge.k = "challenge"
  BY <1>0, OneStage DEF Challenge
<1>3. Plain(<<w>>) /\ w.k = "reason"
  BY <1>0, TwoStages
<1>4. Comes(srv) = "security"
  BY ServingIs
<1> HIDE DEF u, w
<1>5. Runs(at("security"), <<u>>, at(AfterTypes(partner)), partner)
  <2>1. AfterTypes(partner) \in Stages /\ "security" \in Stages \ {"messages"}
    BY SecurityIs DEF Stages
  <2>2. Admits(at("security"), u)
    BY <1>1, <2>1, StageIs
  <2> QED
    BY <2>1, <2>2, SecurityIs, GreetsOne
<1> HIDE DEF at
<1>6. CASE partner.auth = "vnc"
  <2> DEFINE us == <<u>> \o <<Challenge>>
  <2>1. us = <<u, Challenge>>
    BY JoinTwo
  <2>2. ServerAnswers(us, "result")
    BY <1>6, <2>1 DEF u
  <2>3. Plain(us) /\ us # <<>>
    BY <1>1, <1>2, <2>1, PlainJoin
  <2>4. Runs(at("challenge"), <<Challenge>>, at("result"), partner)
    <3>1. "challenge" \in Stages \ {"messages"} /\ "result" \in Stages
      BY ServingIs
    <3>2. Admits(at("challenge"), Challenge)
      BY <1>2, <3>1, StageIs DEF at
    <3>3. NextStage("challenge", Challenge, partner) = "result"
      BY DEF NextStage
    <3> QED
      BY <3>1, <3>2, <3>3, GreetsOne DEF at
  <2>5. Runs(at("security"), us, at("result"), partner)
    BY <1>1, <1>2, <1>5, <1>6, <2>4, RunsJoin, SecurityIs
  <2> HIDE DEF us
  <2>6. Runs(Point(Comes(srv), Between(0)), us, Point(Comes("result"), Between(0)), partner)
    BY <1>4, <2>5, ServingIs DEF at
  <2> QED
    BY <2>2, <2>3, <2>6, ServerKeeps DEF Servings
<1>7. CASE partner.auth = "refused"
  <2> DEFINE us == <<u>> \o <<w>>
  <2>1. ServerAnswers(us, "end")
    BY <1>7, SecurityIs DEF u, w
  <2>2. Plain(us) /\ us # <<>>
    <3>1. us = <<u, w>>
      BY JoinTwo
    <3> QED
      BY <1>1, <1>3, <3>1, PlainJoin
  <2>3. Runs(at("end"), <<w>>, at("end"), partner)
    <3>1. "end" \in Stages \ {"messages"}
      BY ServingIs
    <3>2. Admits(at("end"), w)
      BY <1>3, <3>1, StageIs DEF at
    <3>3. NextStage("end", w, partner) = "end"
      BY DEF NextStage
    <3> QED
      BY <3>1, <3>2, <3>3, GreetsOne DEF at
  <2>4. Runs(at("security"), us, at("end"), partner)
    BY <1>1, <1>3, <1>5, <1>7, <2>3, RunsJoin, SecurityIs
  <2> HIDE DEF us
  <2>5. Runs(Point(Comes(srv), Between(0)), us, Point(Comes("end"), Between(0)), partner)
    BY <1>4, <2>4, ServingIs DEF at
  <2> QED
    BY <2>1, <2>2, <2>5, ServerKeeps DEF Servings
<1>8. CASE partner.auth \notin {"vnc", "refused"}
  <2> DEFINE us == <<u>>
  <2>1. us \in Seq({u}) /\ us \o <<>> = us /\ us # <<>>
    OBVIOUS
  <2>2. ServerAnswers(us, AfterTypes(partner))
    <3>1. ServerAnswers(us \o <<>>, AfterSecurity)
      BY <1>8 DEF u
    <3> QED
      BY <2>1, <3>1, SecurityIs
  <2>3. Comes(AfterTypes(partner)) = AfterTypes(partner) /\ AfterTypes(partner) \in Servings /\ AfterTypes(partner) # "answered"
    BY SecurityIs DEF Comes, Servings
  <2> HIDE DEF us
  <2>4. Runs(Point(Comes(srv), Between(0)), us, Point(Comes(AfterTypes(partner)), Between(0)), partner)
    BY <1>4, <1>5, <2>3 DEF at, us
  <2>5. Plain(us)
    BY <1>1 DEF us
  <2> QED
    BY <2>1, <2>2, <2>3, <2>4, <2>5, ServerKeeps
<1> QED
  BY <1>6, <1>7, <1>8
LEMMA TypesKeeps ==
  ASSUME ClientSafe, UNCHANGED events, srv = "security",
         ServerAnswers(<<Unit("types", <<1, IF partner.auth = "refused" THEN 1 ELSE 3>>, "plain", 0)>>, AfterSecurity)
  PROVE  ClientSafe' /\ (HearInv => HearInv')
<1> DEFINE n == IF partner.auth = "refused" THEN 1 ELSE 3
           u == Unit("types", <<1, n>>, "plain", 0)
           next == AfterTypes(partner)
<1>1. "plain" \in Values \ {"filter"} /\ "types" \in Kinds
  BY DEF Kinds, Values, Versions, Encodings
<1>2. n \in Nat \ {0} /\ 1 <= n
  OBVIOUS
<1>3. ServerAnswers(<<u>>, next)
  BY SecurityIs
<1> HIDE DEF n
<1>4. Plain(<<u>>) /\ u.k = "types"
  BY <1>1, <1>2, TwoStages
<1> HIDE DEF u, next
<1>5. next \in {"challenge", "result", "init", "end"} /\ \A v : next = NextStage("security", v, partner)
  BY SecurityIs DEF next
<1>6. Comes(next) = next /\ next \in Servings \ {"answered"} /\ next \in Stages /\ Comes(srv) = "security"
      /\ "security" \in Stages \ {"messages"}
  BY <1>5 DEF Comes, Servings, Stages
<1>7. Admits(Point("security", Between(0)), u)
  BY <1>4, <1>6, StageIs
<1> QED
  BY <1>3, <1>4, <1>5, <1>6, <1>7, OneKeeps

LEMMA ChallengeKeeps ==
  ASSUME ClientSafe, UNCHANGED events, srv = "challenge", ServerAnswers(<<Challenge>>, "result")
  PROVE  ClientSafe' /\ (HearInv => HearInv')
<1>1. "plain" \in Values \ {"filter"} /\ "challenge" \in Kinds
  BY DEF Kinds, Values, Versions, Encodings
<1>2. Plain(<<Challenge>>) /\ Challenge.k = "challenge"
  BY <1>1, OneStage DEF Challenge
<1>3. Comes("result") = NextStage("challenge", Challenge, partner) /\ Comes(srv) = "challenge"
  BY ServingIs DEF NextStage
<1>4. "result" \in Servings \ {"answered"} /\ Comes("result") \in Stages /\ "challenge" \in Stages \ {"messages"}
  BY ServingIs
<1>5. Admits(Point("challenge", Between(0)), Challenge)
  BY <1>2, <1>4, StageIs
<1> QED
  BY <1>2, <1>3, <1>4, <1>5, OneKeeps

LEMMA ResultKeeps ==
  ASSUME ClientSafe, UNCHANGED events, srv = "result",
         ServerAnswers(<<Result>>, IF partner.grants = "ok" THEN "init" ELSE "end")
  PROVE  ClientSafe' /\ (HearInv => HearInv')
<1> DEFINE next == IF partner.grants = "ok" THEN "init" ELSE "end"
<1>1. partner.grants \in {"ok", "failed"}
  BY ServerAssumption DEF ClientSafe, ClientTypes
<1>2. partner.grants \in Values \ {"filter"} /\ "result" \in Kinds
  BY <1>1 DEF Kinds, Values
<1>3. Plain(<<Result>>) /\ Result.k = "result" /\ Result.v = partner.grants
  <2>1. CASE Result = Unit("result", <<4>>, partner.grants, 0)
    BY <1>2, <2>1, OneStage
  <2>2. CASE Result = Unit("result", <<4, 8, 11>>, partner.grants, 0)
    <3>1. 4 \in Nat \ {0} /\ 8 \in Nat \ {0} /\ 11 \in Nat \ {0} /\ 4 <= 11 /\ 8 <= 11
      OBVIOUS
    <3> QED
      BY <1>2, <2>2, <3>1, ThreeStages
  <2> QED
    BY <2>1, <2>2, Zenon DEF Result
<1>4. Comes(next) = NextStage("result", Result, partner) /\ Comes(srv) = "result"
  BY <1>1, <1>3, ServingIs DEF NextStage
<1>5. next \in Servings \ {"answered"} /\ Comes(next) \in Stages /\ "result" \in Stages \ {"messages"}
  BY ServingIs
<1>6. Admits(Point("result", Between(0)), Result)
  BY <1>3, <1>5, StageIs
<1> HIDE DEF next
<1> QED
  BY <1>3, <1>4, <1>5, <1>6, OneKeeps DEF next

LEMMA InitKeeps ==
  ASSUME ClientSafe, UNCHANGED events, srv = "init",
         ServerAnswers(<<Unit("init", <<24, 26>>, "plain", 0)>>, "normal")
  PROVE  ClientSafe' /\ (HearInv => HearInv')
<1> DEFINE u == Unit("init", <<24, 26>>, "plain", 0)
<1>1. "plain" \in Values \ {"filter"} /\ "init" \in Kinds
  BY DEF Kinds, Values, Versions, Encodings
<1>2. Plain(<<u>>) /\ u.k = "init"
  BY <1>1, TwoStages
<1>3. ServerAnswers(<<u>>, "normal")
  OBVIOUS
<1> HIDE DEF u
<1>4. Comes("normal") = NextStage("init", u, partner) /\ Comes(srv) = "init"
  BY ServingIs DEF NextStage
<1>5. "normal" \in Servings \ {"answered"} /\ Comes("normal") \in Stages /\ "init" \in Stages \ {"messages"}
  BY ServingIs
<1>6. Admits(Point("init", Between(0)), u)
  BY <1>2, <1>5, StageIs
<1> QED
  BY <1>2, <1>3, <1>4, <1>5, <1>6, OneKeeps

LEMMA GreetKeeps ==
  ASSUME ClientSafe, Greet
  PROVE  ClientSafe' /\ (HearInv => HearInv')
<1>1. UNCHANGED events
  BY DEF Greet
<1>2. CASE \/ /\ srv = "version" /\ partner.repeater
              /\ ServerAnswers(<<Version("repeater")>>, "repeater")
           \/ /\ (srv = "version" /\ ~partner.repeater) \/ (srv = "repeater" /\ Heard("repeater"))
              /\ ServerAnswers(<<Version(partner.version)>>, "security")
  BY <1>1, <1>2, VersionKeeps
<1>3. CASE /\ srv = "security" /\ Heard("version") /\ partner.version = "3.3"
           /\ IF partner.auth = "vnc"
              THEN ServerAnswers(<<Scheme, Challenge>>, "result")
              ELSE ServerAnswers(<<Scheme>>
                               \o (IF partner.auth = "refused" THEN <<Unit("reason", <<4, 7>>, "plain", 0)>> ELSE <<>>),
                               AfterSecurity)
  BY <1>1, <1>3, SchemeKeeps
<1>4. CASE /\ srv = "security" /\ Heard("version") /\ partner.version # "3.3"
           /\ ServerAnswers(<<Unit("types", <<1, IF partner.auth = "refused" THEN 1 ELSE 3>>, "plain", 0)>>, AfterSecurity)
  BY <1>1, <1>4, TypesKeeps
<1>5. CASE srv = "challenge" /\ Heard("type") /\ ServerAnswers(<<Challenge>>, "result")
  BY <1>1, <1>5, ChallengeKeeps
<1>6. CASE /\ srv = "result" /\ Heard(IF partner.auth = "vnc" THEN "response" ELSE "type")
           /\ ServerAnswers(<<Result>>, IF partner.grants = "ok" THEN "init" ELSE "end")
  BY <1>1, <1>6, ResultKeeps
<1>7. CASE /\ srv = "init" /\ Heard("clientinit")
           /\ ServerAnswers(<<Unit("init", <<24, 26>>, "plain", 0)>>, "normal")
  BY <1>1, <1>7, InitKeeps
<1> QED
  BY <1>2, <1>3, <1>4, <1>5, <1>6, <1>7, Zenon DEF Greet

LEMMA MessagesKeep ==
  ASSUME ClientSafe, NEW us \in Updates \cup Others, srv \in {"normal", "answered"},
         NEW next \in {"normal", "answered"}, ServerAnswers(us, next), next = "answered" => SaysSetup(sent),
         events' \in {events, events + 1}
  PROVE  ClientSafe' /\ (HearInv => HearInv')
<1>1. us # <<>> /\ Plain(us) /\ Complete(us)
  BY ServerAssumption DEF Plain
<1>2. Parsed(Between(0), us, partner)
  BY <1>1, CompleteRuns
<1>3. Comes(srv) = "messages" /\ Comes(next) = "messages" /\ next \in Servings
  BY ServingIs DEF Servings
<1>4. Runs(Point(Comes(srv), Between(0)), us, Point(Comes(next), Between(0)), partner)
  BY <1>2, <1>3 DEF Parsed
<1> QED
  BY <1>1, <1>3, <1>4, ServerKeeps

LEMMA AnswerKeeps ==
  ASSUME ClientSafe, Answer \/ Talk
  PROVE  ClientSafe' /\ (HearInv => HearInv')
<1>1. CASE Answer
  <2>1. PICK us \in Updates : ServerAnswers(us, "answered")
    BY <1>1 DEF Answer
  <2>2. srv = "normal" /\ Heard("setup") /\ events' = events
    BY <1>1 DEF Answer
  <2>3. SaysSetup(sent)
    BY <2>2, HeardSays DEF Heard, SaysSetup, ClientSafe, ClientTypes
  <2> QED
    BY <2>1, <2>2, <2>3, MessagesKeep
<1>2. CASE Talk
  <2>1. PICK us \in Others : ServerAnswers(us, srv)
    BY <1>2 DEF Talk
  <2>2. srv \in {"normal", "answered"} /\ events' = events + 1
    BY <1>2 DEF Talk, Spend
  <2>3. srv = "answered" => SaysSetup(sent)
    BY DEF ClientSafe, Asked
  <2> QED
    BY <2>1, <2>2, <2>3, MessagesKeep
<1> QED
  BY <1>1, <1>2
-----------------------------------------------------------------------------
(* A connection begins; a password is sent.                                 *)
LEMMA NewConnection ==
  ASSUME NEW p
  PROVE  /\ NoUpdate \in Fbus /\ <<>> \in Seq(Units) /\ WellSized(<<>>) /\ BytesOf(<<>>) = 0
         /\ Point("version", Between(0)) \in Points
         /\ Runs(Point("version", Between(0)), <<>>, Point("version", Between(0)), p)
         /\ \A state \in {"loaded", "connect"} : Stands(state, NoUpdate, <<>>, Point("version", Between(0)))
         /\ ~SaysSetup(<<>> \o <<>>)
<1>1. NoUpdate \in Fbus /\ NoUpdate.rects = 0 /\ NoUpdate.bytes = 0 /\ NoUpdate.left = 0
  BY DEF NoUpdate, Fbus, Codes
<1>2. <<>> \in Seq(Units) /\ WellSized(<<>>) /\ BytesOf(<<>>) = 0
  BY BytesNone DEF Plain
<1> DEFINE pt == Point("version", Between(0))
<1>3. pt \in Points /\ pt.stage = "version" /\ pt.at = Between(0)
  BY BetweenIs, PointIs DEF Stages
<1> HIDE DEF pt
<1>4. Runs(pt, <<>>, pt, p)
  BY <1>3, RunsNone
<1>5. ASSUME NEW state \in {"loaded", "connect"} PROVE Stands(state, NoUpdate, <<>>, pt)
  BY <1>1, <1>3 DEF Stands
<1>6. <<>> \o <<>> = <<>>
  BY EmptySeq, ConcatEmptySeq
<1>7. ~SaysSetup(<<>> \o <<>>)
  BY <1>6, NothingIs
<1> QED
  BY <1>1, <1>2, <1>3, <1>4, <1>5, <1>7 DEF pt

LEMMA NewTale ==
  ASSUME NEW n, NEW p
  PROVE  Tale(<<>> \o <<>>, <<>>, n, p) /\ <<>> \o <<>> = <<>>
<1>1. <<>> \o <<>> = <<>>
  BY EmptySeq, ConcatEmptySeq
<1>2. <<>> \in Seq(Heards) /\ Len(<<>>) = 0 /\ 1..0 = {}
  BY EmptySeq
<1>3. Ordered(<<>>, p) /\ \A m : Rising(<<>>, m)
  BY <1>2 DEF Ordered, Rising
<1>4. Tale(<<>>, <<>>, n, p)
  BY <1>1, <1>2, <1>3 DEF Tale
<1> QED
  BY <1>1, <1>4

LEMMA ConnectKeeps ==
  ASSUME ClientSafe, Connect
  PROVE  ClientSafe' /\ HearInv'
<1>1. ClientTypes
  BY DEF ClientSafe
<1>2. /\ rfb_state' = "connect" /\ timers' = {"conn"}
      /\ fbu' = NoUpdate /\ todo' = <<>> /\ avail' = 0 /\ sQ' = <<>> /\ mouse_arr' = <<>>
      /\ partner' \in Peers /\ srv' = "version"
      /\ sent' = <<>> /\ form' = FALSE /\ lost' = "nothing" /\ stale' = FALSE /\ late' = FALSE
      /\ UNCHANGED <<password, ending, asking, pollers>>
  BY DEF Connect, InitVars
<1>3. /\ cur < MaxConnects /\ cur' = cur + 1
      /\ socks' = [CloseSocket(socks) EXCEPT ![cur + 1] = "connecting"]
      /\ events' = IF cur = 0 THEN 0 ELSE events + 1
  BY DEF Connect, NewSocket
<1>4. CloseSocket(socks) \in [1..MaxConnects -> SocketStates]
  BY <1>1, CloseIs DEF ClientTypes, SocketStates
<1>5. cur' \in 1..MaxConnects /\ asking' \subseteq 0..cur' /\ cur' \notin asking'
  BY <1>1, <1>2, <1>3, BoundsAssumption DEF ClientTypes
<1>6. socks' \in [1..MaxConnects -> {"none", "connecting", "open", "closing", "closed"}]
  BY <1>3, <1>4 DEF SocketStates
<1>7. events' \in Nat
  BY <1>1, <1>3 DEF ClientTypes
<1>8. ClientTypes'
  <2>1. fbu' \in Fbus /\ todo' \in Seq(Units) /\ WellSized(todo')
    BY <1>2, NewConnection
  <2>2. sQ' \in Seq(Heards) /\ mouse_arr' \in Seq(Heards) /\ sent' \in Seq(Heards)
    BY <1>2, NothingIs
  <2>3. rfb_state' \in States /\ srv' \in Servings /\ avail' \in Int /\ cur' \in 0..MaxConnects
    BY <1>2, <1>5 DEF States, Servings
  <2> QED
    BY <1>1, <1>2, <1>5, <1>6, <1>7, <2>1, <2>2, <2>3 DEF ClientTypes
<1>9. OnScript'
  <2> DEFINE pt == Point("version", Between(0))
  <2>1. pt \in Points /\ Runs(pt, <<>>, pt, partner') /\ Stands("connect", NoUpdate, <<>>, pt) /\ BytesOf(<<>>) = 0
    BY NewConnection
  <2>2. Comes(srv') = "version"
    BY <1>2, ServingIs
  <2>3. pt = Point(Comes(srv'), Between(0))
    BY <2>2
  <2> HIDE DEF pt
  <2>4. At(pt)'
    BY <1>2, <2>1, NewConnection DEF At
  <2>5. Runs(pt, todo', Point(Comes(srv'), Between(0)), partner')
    BY <1>2, <2>1, <2>3
  <2>6. avail' <= BytesOf(todo')
    BY <1>2, <2>1
  <2> QED
    BY <2>1, <2>4, <2>5, <2>6 DEF OnScript
<1>10. Asked' /\ NothingForgotten'
  BY <1>2 DEF Asked, NothingForgotten
<1>11. Heeded'
  <2>1. Tale(All', mouse_arr', events', partner') /\ All' = <<>>
    BY <1>2, NewTale DEF All
  <2>2. rfb_state' \in Closing
    BY <1>2 DEF Closing
  <2> QED
    BY <1>2, <1>5, <2>1, <2>2 DEF Heeded
<1> QED
  BY <1>8, <1>9, <1>10, <1>11 DEF ClientSafe, HearInv

LEMMA SendPasswordKeeps ==
  ASSUME ClientSafe, SendPassword
  PROVE  ClientSafe' /\ (HearInv => HearInv')
<1>1. ClientTypes /\ OnScript /\ Asked
  BY DEF ClientSafe
<1>2. /\ form /\ events' = events + 1 /\ password' \in BOOLEAN /\ rfb_state' = "Authentication"
      /\ timers' = timers \cup {"password"} /\ late' = (late \/ rfb_state # "password")
      /\ UNCHANGED <<socks, cur, asking, fbu, todo, avail, lost, sQ, mouse_arr, partner, srv, sent, form, stale>>
  BY DEF SendPassword, Spend, link, queue, server
<1>3. rfb_state' \in States /\ rfb_state' \notin Closing
  BY <1>2 DEF States, Handshake, Closing
<1>4. ClientTypes'
  BY <1>1, <1>2, <1>3 DEF ClientTypes
<1>5. OnScript'
  <2> SUFFICES ASSUME lost = "nothing" PROVE OnScript'
    BY <1>2 DEF OnScript
  <2>1. PICK pt \in Points : Runs(pt, todo, Point(Comes(srv), Between(0)), partner) /\ At(pt)
    BY <1>1 DEF OnScript
  <2>2. Stands("Authentication", fbu, todo, pt)
    BY <2>1, StandsSame DEF At
  <2>3. At(pt)'
    BY <1>2, <2>1, <2>2 DEF At
  <2> QED
    BY <1>1, <1>2, <2>1, <2>3 DEF OnScript
<1>6. Asked' /\ NothingForgotten'
  BY <1>1, <1>2 DEF Asked, NothingForgotten
<1>7. ASSUME Heeded, rfb_state = "password" PROVE Heeded'
  <2>1. rfb_state \notin Closing
    BY <1>7 DEF Closing
  <2>2. SaidAt(rfb_state') = SaidAt(rfb_state)
    BY <1>2, <1>7 DEF SaidAt
  <2>3. All' = All
    BY <1>2 DEF All
  <2>4. Tale(All, mouse_arr, events', partner)
    BY <1>1, <1>2, <1>7, TaleAt DEF Heeded
  <2> QED
    BY <1>2, <1>3, <1>7, <2>1, <2>2, <2>3, <2>4 DEF Heeded
<1> QED
  BY <1>2, <1>4, <1>5, <1>6, <1>7 DEF ClientSafe, HearInv
-----------------------------------------------------------------------------
LEMMA ClientStarts ==
  ASSUME ClientInit
  PROVE  ClientSafe /\ HearInv
<1>1. /\ rfb_state = "loaded" /\ password \in BOOLEAN
      /\ socks = [c \in 1..MaxConnects |-> "none"] /\ cur = 0
      /\ timers = {} /\ ending = {} /\ asking = {} /\ pollers = 0
      /\ fbu = NoUpdate /\ sQ = <<>> /\ mouse_arr = <<>>
      /\ partner \in Peers /\ srv = "version" /\ todo = <<>> /\ avail = 0
      /\ sent = <<>> /\ form = FALSE /\ events = 0
      /\ lost = "nothing" /\ stale = FALSE /\ late = FALSE
  BY DEF ClientInit
<1>2. ClientTypes
  <2>1. fbu \in Fbus /\ todo \in Seq(Units) /\ WellSized(todo)
    BY <1>1, NewConnection
  <2>2. sQ \in Seq(Heards) /\ mouse_arr \in Seq(Heards) /\ sent \in Seq(Heards)
    BY <1>1, NothingIs
  <2>3. rfb_state \in States /\ srv \in Servings /\ avail \in Int /\ cur \in 0..MaxConnects /\ events \in Nat
    BY <1>1, BoundsAssumption DEF States, Servings
  <2>4. socks \in [1..MaxConnects -> {"none", "connecting", "open", "closing", "closed"}]
    BY <1>1
  <2> QED
    BY <1>1, <2>1, <2>2, <2>3, <2>4 DEF ClientTypes
<1>3. OnScript
  <2> DEFINE pt == Point("version", Between(0))
  <2>1. pt \in Points /\ Runs(pt, <<>>, pt, partner) /\ Stands("loaded", NoUpdate, <<>>, pt) /\ BytesOf(<<>>) = 0
    BY NewConnection
  <2>2. pt = Point(Comes(srv), Between(0))
    BY <1>1, ServingIs
  <2> HIDE DEF pt
  <2>3. At(pt)
    BY <1>1, <2>1, NewConnection DEF At
  <2>4. Runs(pt, todo, Point(Comes(srv), Between(0)), partner)
    BY <1>1, <2>1, <2>2
  <2>5. avail <= BytesOf(todo)
    BY <1>1, <2>1
  <2> QED
    BY <2>1, <2>3, <2>4, <2>5 DEF OnScript
<1>4. Asked /\ NothingForgotten
  BY <1>1 DEF Asked, NothingForgotten
<1>5. Heeded
  <2>1. Tale(All, mouse_arr, events, partner) /\ All = <<>>
    BY <1>1, NewTale DEF All
  <2>2. rfb_state \in Closing /\ rfb_state # "connect"
    BY <1>1 DEF Closing
  <2> QED
    BY <1>1, <2>1, <2>2 DEF Heeded
<1> QED
  BY <1>2, <1>3, <1>4, <1>5 DEF ClientSafe, HearInv

LEMMA HandlersKeep ==
  ASSUME ClientSafe, (\E n \in Pieces : Arrive(n)) \/ MessageTimer \/ PasswordTimer
  PROVE  ClientSafe' /\ (HearInv => HearInv')
<1>1. ClientSafe' /\ Speech /\ Hushed
  BY ArriveKeeps, MessageTimerKeeps, PasswordTimerKeeps
<1>2. UNCHANGED <<cur, asking, mouse_arr, partner, events, stale, late>>
  BY DEF Arrive, MessageTimer, PasswordTimer, server
<1>3. ClientTypes
  BY DEF ClientSafe
<1>4. HearInv => HearInv'
  BY <1>1, <1>2, <1>3, SpeechHears
<1> QED
  BY <1>1, <1>4

LEMMA ShiftsKeep ==
  ASSUME ClientSafe,
         \/ \E c \in DOMAIN socks : OnClose(c) \/ AfterFailure(c)
         \/ OnOpen \/ Garbage \/ ConnectTimeout \/ DisconnectTimeout \/ Disconnect
  PROVE  ClientSafe' /\ (HearInv => HearInv')
<1>1. ClientTypes
  BY DEF ClientSafe
<1>2. Shifted
  BY <1>1, OpenShifts, CloseShifts, FailureShifts, EndShifts
<1>3. stale => stale'
  BY DEF OnClose, AfterFailure, OnOpen, Garbage, ConnectTimeout, DisconnectTimeout, Disconnect
<1> QED
  BY <1>1, <1>2, <1>3, ShiftKeeps, ShiftHears

LEMMA SameKeeps ==
  ASSUME ClientSafe, UNCHANGED clientVars
  PROVE  ClientSafe' /\ (HearInv => HearInv')
<1>1. UNCHANGED <<rfb_state, password, socks, cur, timers, asking, fbu, todo, avail, lost, sQ, mouse_arr, partner,
                  srv, sent, form, events, stale, late>>
  BY DEF clientVars, link, queue, server
<1>2. ClientTypes /\ OnScript /\ Asked /\ NothingForgotten
  BY DEF ClientSafe
<1>3. ClientTypes' /\ Asked'
  BY <1>1, <1>2 DEF ClientTypes, Asked
<1>4. OnScript' /\ NothingForgotten'
  BY <1>1, <1>2 DEF OnScript, At, NothingForgotten, OffTrack
<1>5. HearInv => HearInv'
  BY <1>1 DEF HearInv, Heeded, All
<1> QED
  BY <1>3, <1>4, <1>5 DEF ClientSafe

LEMMA ClientGoesOn ==
  ASSUME ClientSafe, [ClientNext]_clientVars
  PROVE  ClientSafe' /\ (HearInv => HearInv')
<1>1. CASE (\E n \in Pieces : Arrive(n)) \/ MessageTimer \/ PasswordTimer
  BY <1>1, HandlersKeep
<1>2. CASE \/ \E c \in DOMAIN socks : OnClose(c) \/ AfterFailure(c)
           \/ OnOpen \/ Garbage \/ ConnectTimeout \/ DisconnectTimeout \/ Disconnect
  BY <1>2, ShiftsKeep
<1>3. CASE \E c \in DOMAIN socks : AskAgain(c)
  BY <1>3, AskAgainKeeps
<1>4. CASE SendTimer
  BY <1>4, SendTimerKeeps
<1>5. CASE Connect
  BY <1>5, ConnectKeeps
<1>6. CASE SendPassword
  BY <1>6, SendPasswordKeeps
<1>7. CASE KeyPress
  BY <1>7, KeyPressKeeps
<1>8. CASE MouseMove
  BY <1>8, MouseMoveKeeps
<1>9. CASE MouseButton
  BY <1>9, MouseButtonKeeps
<1>10. CASE CheckEvents
  BY <1>10, CheckEventsKeeps
<1>11. CASE Greet
  BY <1>11, GreetKeeps
<1>12. CASE Answer \/ Talk
  BY <1>12, AnswerKeeps
<1>13. CASE UNCHANGED clientVars
  BY <1>13, SameKeeps
<1> QED
  BY <1>1, <1>2, <1>3, <1>4, <1>5, <1>6, <1>7, <1>8, <1>9, <1>10, <1>11, <1>12, <1>13 DEF ClientNext

(* The client's state stays of its types, and as long as it has lost nothing *)
(* the client is where the server's script says it is.                       *)
THEOREM ClientKeeps == ClientSpec => []ClientSafe
<1>1. ClientInit => ClientSafe
  BY ClientStarts
<1>2. ClientSafe /\ [ClientNext]_clientVars => ClientSafe'
  BY ClientGoesOn
<1> QED
  BY <1>1, <1>2, PTL DEF ClientSpec

(* The client never reads bytes for something they are not, however the      *)
(* server's bytes are cut into pieces, but for the splits InStep names.      *)
THEOREM ClientStaysInStep == ClientSpec => []InStep
<1>1. ClientSafe => InStep
  BY DEF ClientSafe, ClientTypes, Excused, InStep
<1> QED
  BY <1>1, ClientKeeps, PTL

(* A message that is all there is looked at again, without further bytes.    *)
THEOREM NoMessageIsForgotten == ClientSpec => []NothingForgotten
<1>1. ClientSafe => NothingForgotten
  BY DEF ClientSafe
<1> QED
  BY <1>1, ClientKeeps, PTL

(* The server hears the handshake once and in order, then the user's keys    *)
(* and pointer events as they happened, whichever timer sends them.          *)
THEOREM ServerHearsInOrder == ClientSpec => []ServerHears
<1>1. ClientInit => HearInv
  BY ClientStarts
<1>2. ClientSafe /\ HearInv /\ [ClientNext]_clientVars => HearInv'
  BY ClientGoesOn
<1>3. HearInv => ServerHears
  BY HeededHears
<1> QED
  BY <1>1, <1>2, <1>3, ClientKeeps, PTL DEF ClientSpec
=============================================================================
