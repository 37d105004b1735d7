---------------------------- MODULE ConsoleStream ----------------------------
(***************************************************************************)
(* One console session of Ws::index: a websocket from the browser, a       *)
(* QTcpSocket to the display server of the domain, and the callbacks that  *)
(* copy one into the other on the worker's event loop.                     *)
(*                                                                         *)
(* Bytes are numbered in the order their side sent them, so a stream is a  *)
(* sequence of numbers.  The browser can send before the TCP connection is *)
(* up and go on after it is down; the display server can end the stream at *)
(* any time; the QBuffer between them has a cursor, which is the delicate  *)
(* part.                                                                   *)
(*                                                                         *)
(* A definition named X_Something next to X is X with a fault: it is not   *)
(* part of the specification, it serves to see that the properties notice. *)
(***************************************************************************)
EXTENDS Naturals, Sequences

CONSTANTS
    MaxFrame,      \* the longest websocket frame, in bytes
    MaxTyped,      \* bound: how many bytes the browser sends
    MaxProduced    \* bound: how many bytes the display server sends

ASSUME StreamAssumption ==
    /\ MaxFrame \in Nat \ {0}
    /\ MaxTyped \in Nat /\ MaxProduced \in Nat

VARIABLES
    ws,         \* the websocket: "open", "closing" after webSocketClose, "gone"
    sock,       \* QTcpSocket::state(), or "failedAtOnce"
    buf,        \* the QBuffer: whether it is open, its bytes, its cursor
    typed,      \* how many bytes arrived from the browser
    early,      \* how many of them arrived before the socket was connected
    tcpOut,     \* the bytes written to the display server
    produced,   \* how many bytes the display server sent
    wire,       \* those the socket has yet to read
    fin,        \* how the display server ended the stream, if it did
    wsOut,      \* the bytes sent to the browser
    closeCalls  \* how often webSocketClose was called

browser == <<typed, early>>
upstream == <<browser, buf, tcpOut>>
downstream == <<produced, wire, wsOut>>
vars == <<ws, sock, upstream, downstream, fin, closeCalls>>

Bytes(from, n) == [i \in 1..n |-> from + i]
-----------------------------------------------------------------------------
(* QBuffer. Opening it puts the cursor at the start, writing overwrites at  *)
(* the cursor, reading starts at the cursor, closing keeps the bytes.       *)
OpenBuffer(b) == [open |-> TRUE, data |-> b.data, pos |-> 0]

WriteBuffer(b, bytes) ==
    LET end == b.pos + Len(bytes)
        size == IF end > Len(b.data) THEN end ELSE Len(b.data)
    IN  [open |-> b.open, pos |-> end,
         data |-> [i \in 1..size |-> IF i \in (b.pos + 1)..end THEN bytes[i - b.pos] ELSE b.data[i]]]

ReadAll(b) == SubSeq(b.data, b.pos + 1, Len(b.data))
CloseBuffer(b) == [open |-> FALSE, data |-> b.data, pos |-> 0]

-----------------------------------------------------------------------------
(* Ws::index up to the return of the handler: the handshake is done and     *)
(* connectToHost under way, or failed already, for want of a route say: then *)
(* errorOccurred was emitted before the lambdas were connected to it.       *)
Init ==
    /\ ws = "open" /\ sock \in {"connecting", "failedAtOnce"}
    /\ buf = [open |-> FALSE, data |-> <<>>, pos |-> 0]
    /\ typed = 0 /\ early = 0 /\ tcpOut = <<>>
    /\ produced = 0 /\ wire = <<>> /\ wsOut = <<>>
    /\ fin = "no" /\ closeCalls = 0

WebSocketClose_LogsOnly == UNCHANGED <<ws, closeCalls>>

WebSocketClose ==
    /\ ws' = "closing"
    /\ closeCalls' = closeCalls + 1

(* QTcpSocket::connected *)
TcpConnected ==
    /\ ws # "gone" /\ sock = "connecting"
    /\ sock' = "connected"
    /\ IF buf.open
       THEN /\ tcpOut' = tcpOut \o ReadAll(buf)
            /\ buf' = CloseBuffer(buf)
       ELSE UNCHANGED <<tcpOut, buf>>
    /\ UNCHANGED <<ws, browser, downstream, fin, closeCalls>>

TcpFails_Silently ==
    /\ ws # "gone" /\ sock = "connecting"
    /\ sock' = "unconnected"
    /\ UNCHANGED <<ws, upstream, downstream, fin, closeCalls>>

(* QTcpSocket::errorOccurred for a connection that was never established:   *)
(* disconnected is not emitted.                                             *)
TcpFails ==
    /\ ws # "gone" /\ sock = "connecting"
    /\ sock' = "unconnected"
    /\ WebSocketClose
    /\ UNCHANGED <<upstream, downstream, fin>>

ForwardFrame_ThroughBuffer(bytes) ==
    LET written == WriteBuffer(OpenBuffer(buf), bytes)
    IN  IF sock # "connected"
        THEN buf' = written /\ UNCHANGED tcpOut
        ELSE buf' = CloseBuffer(written) /\ tcpOut' = tcpOut \o ReadAll(written)

(* Request::webSocketBinaryFrame *)
ForwardFrame(bytes) ==
    IF sock # "connected"
    THEN /\ buf' = WriteBuffer(OpenBuffer(buf), bytes)
         /\ UNCHANGED tcpOut
    ELSE /\ tcpOut' = tcpOut \o bytes
         /\ UNCHANGED buf

BrowserSends ==
    /\ ws # "gone"
    /\ \E n \in 1..MaxFrame :
        /\ typed + n <= MaxTyped
        /\ typed' = typed + n
        /\ early' = IF sock = "connecting" THEN typed + n ELSE early
        /\ ForwardFrame(Bytes(typed, n))
    /\ UNCHANGED <<ws, sock, downstream, fin, closeCalls>>

(* The display server sends, or ends the stream: in order ("fin") or not    *)
(* ("rst"), in which case what the socket has not read yet is lost.         *)
ServerSends ==
    /\ ws # "gone" /\ sock = "connected" /\ fin = "no" /\ produced < MaxProduced
    /\ produced' = produced + 1
    /\ wire' = Append(wire, produced + 1)
    /\ UNCHANGED <<ws, sock, upstream, wsOut, fin, closeCalls>>

ServerEnds ==
    /\ ws # "gone" /\ sock = "connected" /\ fin = "no"
    /\ \/ fin' = "fin" /\ UNCHANGED wire
       \/ fin' = "rst" /\ wire' = <<>>
    /\ UNCHANGED <<ws, sock, upstream, produced, wsOut, closeCalls>>

ReadyRead_OneByte ==
    /\ ws # "gone" /\ sock = "connected" /\ wire # <<>>
    /\ wsOut' = Append(wsOut, Head(wire))
    /\ wire' = <<>>
    /\ UNCHANGED <<ws, sock, upstream, produced, fin, closeCalls>>

(* QTcpSocket::readyRead *)
ReadyRead ==
    /\ ws # "gone" /\ sock = "connected" /\ wire # <<>>
    /\ wsOut' = wsOut \o wire
    /\ wire' = <<>>
    /\ UNCHANGED <<ws, sock, upstream, produced, fin, closeCalls>>

(* The socket reads the end of the stream: errorOccurred, and disconnected  *)
(* at once or when the bytes still to be written are gone.                  *)
TcpEnds ==
    /\ ws # "gone" /\ sock = "connected" /\ wire = <<>> /\ fin # "no"
    /\ sock' = "closing"
    /\ WebSocketClose
    /\ UNCHANGED <<upstream, downstream, fin>>

TcpDisconnected ==
    /\ ws # "gone" /\ sock = "closing"
    /\ sock' = "unconnected"
    /\ WebSocketClose
    /\ UNCHANGED <<upstream, downstream, fin>>

(* The browser leaves or answers the close: the Context and all it owns,    *)
(* the socket and the buffer with it, are destroyed.                        *)
WebSocketGone ==
    /\ ws # "gone"
    /\ ws' = "gone" /\ sock' = "unconnected"
    /\ UNCHANGED <<upstream, downstream, fin, closeCalls>>

Next ==
    \/ TcpConnected \/ TcpFails \/ TcpEnds \/ TcpDisconnected
    \/ BrowserSends \/ WebSocketGone
    \/ ServerSends \/ ServerEnds \/ ReadyRead

Spec == Init /\ [][Next]_vars

(* The event loop delivers the socket's signals; the browser, the network   *)
(* and the display server promise nothing.                                  *)
StreamFairness == WF_vars(ReadyRead) /\ WF_vars(TcpEnds) /\ WF_vars(TcpDisconnected)

FairSpec == Spec /\ StreamFairness
-----------------------------------------------------------------------------
TypeOK ==
    /\ ws \in {"open", "closing", "gone"}
    /\ sock \in {"connecting", "connected", "closing", "unconnected", "failedAtOnce"}
    /\ buf \in [open : BOOLEAN, data : Seq(1..MaxTyped), pos : 0..MaxFrame]
    /\ typed \in 0..MaxTyped /\ early \in 0..typed
    /\ tcpOut \in Seq(1..MaxTyped)
    /\ produced \in 0..MaxProduced
    /\ wire \in Seq(1..MaxProduced) /\ wsOut \in Seq(1..MaxProduced)
    /\ fin \in {"no", "fin", "rst"}
    /\ closeCalls \in 0..2

(* What the display server gets is some bytes left over from before the     *)
(* connection, then every byte that arrived while the socket was connected, *)
(* in order and once, whatever the buffer did before: the lambda on         *)
(* webSocketBinaryFrame decides by the socket's state alone.                *)
DirectBytesInOrder ==
    \E leftover \in 0..Len(tcpOut) :
        /\ \A i \in 1..leftover : tcpOut[i] <= early
        /\ \A i \in (leftover + 1)..Len(tcpOut) : tcpOut[i] = early + i - leftover
        /\ sock = "connected" => Len(tcpOut) - leftover = typed - early

(* Frames that arrive while the socket is not connected, before the         *)
(* connection or after its end, never take more memory than the longest of  *)
(* them: opening the QBuffer again rewinds it.                              *)
BufferHoldsOneFrame == Len(buf.data) <= MaxFrame

(* The browser is told whenever the TCP connection is over, by whichever of *)
(* errorOccurred and disconnected the socket emits, unless it left itself.  *)
(* (A connection that failed at once is the exception.)                     *)
BrowserIsTold ==
    /\ sock \in {"closing", "unconnected"} /\ ws # "gone" => ws = "closing"
    /\ ws = "closing" => closeCalls > 0

(* A stream the display server ended is closed towards the browser.         *)
EndedStreamCloses == fin # "no" ~> ws # "open"

(* The direction from the display server to the browser is a pipe.          *)
Pipe == INSTANCE ConsolePipe
    WITH delivered <- wsOut,
         source <- CASE fin = "no" -> "open" [] fin = "fin" -> "ended" [] fin = "rst" -> "aborted",
         closed <- fin # "no" /\ closeCalls > 0
ImplementsPipe == Pipe!Spec
=============================================================================
