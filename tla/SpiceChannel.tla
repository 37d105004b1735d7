---------------------------- MODULE SpiceChannel ----------------------------
(* A SPICE channel at the browser's end: spice-html5/spiceconn.js and        *)
(* wire.js, which every channel of the SPICE console is built on.  The bytes *)
(* come in WebSocket frames cut anywhere; the reader collects as many as     *)
(* were asked for, the connection takes them as the piece its state expects  *)
(* and asks for the next.                                                    *)
(* A definition X_Name before Name is Name with a fault, for the mutants.    *)
EXTENDS Integers, Sequences, SequencesExt

CONSTANTS
    Mini,          \* SpiceMiniData.buffer_size(), in cells of the model
    BodySizes,     \* of the messages the server sends; 0 is a message without body
    Windows,       \* that a SET_ACK may ask for
    MaxSent        \* bound: pieces the server sends

ASSUME ChannelAssumption ==
    /\ Mini \in Nat \ {0} /\ MaxSent \in Nat
    /\ BodySizes \subseteq Nat /\ Windows \subseteq Nat

VARIABLES
    main,          \* this is the main channel, whose errors the page is told
    ws,            \* readyState of the WebSocket
    state,         \* spiceconn.js: the same
    rd,            \* the reader: needed, buffers, saved (the size of the saved
                   \* header's body, 0 if there is none)
    timeout,       \* the timer of SPICE_CONNECT_TIMEOUT is running
    ack,           \* ack_window and msgs_until_ack
    owed,          \* external: pieces sent and not handed over yet, in order
    srv,           \* external: pieces sent, its window and messages it waits for
    threw,         \* history: a handler threw
    garbled        \* history: a piece was taken for another

channelVars == <<main, ws, state, rd, timeout, ack, owed, srv, threw, garbled>>

(* What the server sends: the pieces of the link, then a header and a body   *)
(* for every message.  "does" is what its handler does.                      *)
Piece(kind, len, size, does, n) == [kind |-> kind, len |-> len, size |-> size, does |-> does, n |-> n]
Link(kind, does) == Piece(kind, 1, 1, does, 0)
Message(size, does, n) ==
    <<Piece("mini", Mini, size, IF size = 0 THEN does ELSE "", n)>>
    \o IF size = 0 THEN <<>> ELSE <<Piece("body", size, size, does, n)>>

Total(lens) == FoldLeft(LAMBDA sum, l : sum + l, 0, lens)
InFlight == Total([i \in DOMAIN owed |-> owed[i].len]) - Total(rd.buffers)
-----------------------------------------------------------------------------
(* process_inbound and what it calls, on a record of the channel's state: a  *)
(* handler that throws leaves by way of the reader and skips all that was    *)
(* still to be done.                                                         *)
Channel == [ws |-> ws, state |-> state, needed |-> rd.needed, saved |-> rd.saved,
            buffers |-> rd.buffers, ack |-> ack, owed |-> owed, srv |-> srv, timeout |-> timeout,
            threw |-> threw, thrown |-> FALSE, garbled |-> garbled]

Become(s) ==
    /\ ws' = s.ws /\ state' = s.state /\ timeout' = s.timeout
    /\ rd' = [needed |-> s.needed, buffers |-> s.buffers, saved |-> s.saved]
    /\ ack' = s.ack /\ owed' = s.owed /\ srv' = s.srv
    /\ threw' = (s.threw \/ s.thrown) /\ garbled' = s.garbled
    /\ UNCHANGED main

(* stop and cleanup; report_error tells the page of the main channel, which  *)
(* then stops the connection, and throws on a channel that has no onerror.   *)
Stopped(s) == [s EXCEPT !.state = "closing", !.ws = "closed", !.timeout = FALSE]
Report(s) == IF main THEN Stopped(s) ELSE [s EXCEPT !.thrown = TRUE]

Expected(s) == CASE s.state = "start"  -> "hdr"
                 [] s.state = "link"   -> "reply"
                 [] s.state = "ticket" -> "auth"
                 [] OTHER -> IF s.saved = 0 THEN "mini" ELSE "body"

Request(s, n) == [s EXCEPT !.needed = n]
Failed(s) == Report([s EXCEPT !.state = "error"])

(* The server hears an ack at once; one of an older window does not count.   *)
SendAck(s) == IF s.srv.synced THEN [s EXCEPT !.srv.unacked = @ - s.srv.window] ELSE s

(* process_message, with process_common_messages for SET_ACK.  The answer     *)
(* names the SET_ACK it is to, and the server goes by the last it sent.      *)
X_CountMessage(s) ==                      \* the count starts over too late
    IF s.ack.window = 0 THEN s
    ELSE IF s.ack.until > 0 THEN [s EXCEPT !.ack.until = @ - 1]
    ELSE SendAck([s EXCEPT !.ack.until = s.ack.window])

CountMessage(s) ==
    IF s.ack.window = 0 THEN s
    ELSE IF s.ack.until - 1 > 0 THEN [s EXCEPT !.ack.until = @ - 1]
    ELSE SendAck([s EXCEPT !.ack.until = s.ack.window])

Answered(s) == \A i \in DOMAIN s.owed : s.owed[i].does # "set_ack"
ProcessMessage(s, p) ==
    CASE p.does = "throw"   -> [s EXCEPT !.thrown = TRUE]
      [] p.does = "set_ack" -> CountMessage([s EXCEPT !.ack = [window |-> p.n, until |-> p.n],
                                                      !.srv.synced = Answered(s)])
      [] OTHER -> CountMessage(s)

(* "ready": a header without a body is a message, another is saved until its *)
(* body is there.                                                            *)
Then(s, next) == IF s.thrown THEN s ELSE next
Mini0(s, p) == IF p.size = 0
               THEN LET t == ProcessMessage(s, p) IN Then(t, Request(t, Mini))
               ELSE [Request(s, p.size) EXCEPT !.saved = p.size]
X_Body(s, p) == LET t == ProcessMessage(s, p) IN Then(t, Request(t, Mini))
Body(s, p) == LET t == ProcessMessage(s, p) IN Then(t, [Request(t, Mini) EXCEPT !.saved = 0])

Hdr(s, p)   == IF p.does = "refuse" THEN Failed(s) ELSE [Request(s, p.size) EXCEPT !.state = "link"]
Reply(s, p) == IF p.does = "refuse" THEN Failed(s)
               ELSE [Request(s, 1) EXCEPT !.state = "ticket", !.srv.ticket = TRUE]
Auth(s, p)  == IF p.does = "refuse" THEN Failed(s)
               ELSE [Request(s, Mini) EXCEPT !.state = "ready", !.timeout = FALSE]

ProcessInbound(s) ==
    LET p == Head(s.owed)
        t == [s EXCEPT !.owed = Tail(@)]
    IN  IF s.garbled \/ s.owed = <<>> \/ p.len # s.needed \/ p.kind # Expected(s)
        THEN [Stopped(s) EXCEPT !.garbled = TRUE]      \* no telling what it does from here
        ELSE CASE p.kind = "hdr"   -> Hdr(t, p)
               [] p.kind = "reply" -> Reply(t, p)
               [] p.kind = "auth"  -> Auth(t, p)
               [] p.kind = "mini"  -> Mini0(t, p)
               [] OTHER            -> Body(t, p)
-----------------------------------------------------------------------------
(* SpiceWireReader.inbound: a lone block goes through as it is, fragments    *)
(* are combined until the first is long enough, and then cut.                *)
Enough(s) == s.buffers # <<>> /\ Head(s.buffers) >= s.needed /\ ~s.thrown /\ s.ws = "open"
TakeFirst(s) ==
    LET rest == Head(s.buffers) - s.needed
    IN  ProcessInbound([s EXCEPT !.buffers = (IF rest > 0 THEN <<rest>> ELSE <<>>) \o Tail(@)])

Combine(s) ==
    LET sums == [i \in DOMAIN s.buffers |-> Total(SubSeq(s.buffers, 1, i))]
        i    == SelectInSeq(sums, LAMBDA sum : sum >= s.needed)
        n    == IF i = 0 THEN Len(sums) ELSE i
    IN  IF s.buffers = <<>> THEN s
        ELSE [s EXCEPT !.buffers = <<sums[n]>> \o SubSeq(@, n + 1, Len(@))]

Times(op(_), s, n) == FoldLeft(LAMBDA t, i : op(t), s, [i \in 1..n |-> i])
Serve(s) == IF Enough(s) THEN TakeFirst(s) ELSE s

X_Inbound(s, n) ==                 \* the first block only, the rest waits
    IF s.needed = 0 THEN [s EXCEPT !.buffers = Append(@, n)]
    ELSE Serve(Combine([s EXCEPT !.buffers = Append(@, n)]))

Inbound(s, n) ==
    LET pushed == [s EXCEPT !.buffers = Append(@, n)]
        first  == IF s.buffers = <<>> THEN Serve(pushed) ELSE pushed
    IN  IF s.needed = 0 THEN pushed
        ELSE IF first.thrown THEN first
        ELSE Times(Serve, Combine(first), n + Mini)
-----------------------------------------------------------------------------
ChannelInit ==
    /\ main \in BOOLEAN
    /\ ws = "connecting" /\ state = "connecting"
    /\ rd = [needed |-> 0, buffers |-> <<>>, saved |-> 0]
    /\ timeout = TRUE
    /\ ack = [window |-> 0, until |-> 0]
    /\ owed = <<>>
    /\ srv = [sent |-> 0, ticket |-> FALSE, window |-> 0, unacked |-> 0, synced |-> FALSE]
    /\ threw = FALSE /\ garbled = FALSE

(* The open event: send_hdr, and the server answers with header and reply.   *)
Open ==
    /\ ws = "connecting"
    /\ ws' = "open" /\ state' = "start" /\ rd' = [rd EXCEPT !.needed = 1]
    /\ \/ owed' = <<Link("hdr", "refuse")>>
       \/ \E does \in {"", "refuse"} : owed' = <<Link("hdr", ""), Link("reply", does)>>
    /\ UNCHANGED <<main, timeout, ack, srv, threw, garbled>>

(* External: the answer to the ticket, then messages.  A server that waits   *)
(* for acks sends no more than two windows ahead of them.                    *)
SendAuth ==
    /\ ws = "open" /\ srv.ticket /\ srv.sent = 0
    /\ \E does \in {"", "refuse"} :
          /\ owed' = Append(owed, Link("auth", does))
          /\ srv' = [srv EXCEPT !.sent = 1, !.ticket = (does = "")]
    /\ UNCHANGED <<main, ws, state, rd, timeout, ack, threw, garbled>>

MaySend == ws = "open" /\ srv.ticket /\ srv.sent \in 1..MaxSent /\ (srv.window = 0 \/ srv.unacked <= 2 * srv.window)
SendMessage ==
    /\ MaySend
    /\ \E size \in BodySizes, does \in {"", "throw"} : owed' = owed \o Message(size, does, 0)
    /\ srv' = [srv EXCEPT !.sent = @ + 1, !.unacked = @ + 1]
    /\ UNCHANGED <<main, ws, state, rd, timeout, ack, threw, garbled>>
SendSetAck ==
    /\ MaySend
    /\ \E w \in Windows :
          /\ owed' = owed \o Message(1, "set_ack", w)
          /\ srv' = [srv EXCEPT !.sent = @ + 1, !.window = w, !.unacked = 1, !.synced = FALSE]
    /\ UNCHANGED <<main, ws, state, rd, timeout, ack, threw, garbled>>

(* A message event with n cells, and all the handling it sets off.           *)
Arrive(n) == ws = "open" /\ n <= InFlight /\ Become(Inbound(Channel, n))

X_Timeout == timeout /\ Become([Channel EXCEPT !.timeout = FALSE])
Timeout == timeout /\ Become(Report([Channel EXCEPT !.timeout = FALSE]))

(* The socket ends: with an error event first, or with close alone, which    *)
(* only says so to a channel with an onerror.                                *)
SocketError == ws # "closed" /\ Become([Report(Channel) EXCEPT !.ws = "closed"])
SocketClose ==
    /\ ws # "closed"
    /\ Become(IF main /\ state # "error" THEN Report(Channel) ELSE [Channel EXCEPT !.ws = "closed"])

Stop == ws # "closed" /\ Become(Stopped(Channel))

ChannelNext ==
    \/ Open \/ SendAuth \/ SendMessage \/ SendSetAck
    \/ \E n \in 1..InFlight : Arrive(n)
    \/ Timeout \/ SocketError \/ SocketClose \/ Stop

ChannelSpec == ChannelInit /\ [][ChannelNext]_channelVars /\ WF_channelVars(Timeout)
-----------------------------------------------------------------------------
(* However the frames are cut, every run of bytes the reader hands over is   *)
(* the piece its state expects, whole, unless a handler threw before: a      *)
(* throw skips the requests at the end of process_inbound.                   *)
InStep == garbled => threw

(* And no piece that has arrived waits in the reader for a later frame.      *)
NothingWaits ==
    ws = "open" /\ rd.needed > 0 /\ ~threw => Total(rd.buffers) < rd.needed

(* When all the server sent has been handled, it does not have a whole       *)
(* window of messages it got no ack for: its count and msgs_until_ack agree. *)
AcksKeepUp ==
    state = "ready" /\ owed = <<>> /\ srv.window > 0 /\ ~threw => srv.unacked < srv.window

(* A main channel that does not become ready is given up, and the page hears *)
(* of it, or has stopped it itself: the timer runs until then.               *)
Settles == main ~> (state = "ready" \/ state = "closing")
=============================================================================
