------------------------------ MODULE RfbClient ------------------------------
(* The noVNC client of console-vnc.html: the state machine, the timers and   *)
(* the sockets of novnc/rfb.js and novnc/websock.js around the message       *)
(* handlers of RfbProtocol.  The server's bytes arrive in pieces of any      *)
(* size; every event runs to completion.  A pending timer fires at any time. *)
(* Left out: test mode, the Flash fall-back, viewport dragging and view-only *)
(* mode, which no page turns on.                                             *)
(* A definition X_Name before Name is Name with a fault, for the mutants.    *)
EXTENDS RfbProtocol

CONSTANTS
    MaxConnects,    \* bound: calls of connect
    MaxEvents,      \* bound: connects after the first, disconnects, inputs,
                    \* passwords, and messages of servers but their first update
    Peers,          \* what a server may be: [version, auth, repeater, grants]
    Updates,        \* what it may answer a request for an update: units
    Others          \* what else it may send

ASSUME BoundsAssumption ==
    /\ MaxConnects \in Nat \ {0}
    /\ MaxEvents \in Nat

(* A server follows the protocol: its version is not the repeater's, and it  *)
(* sends whole messages.                                                     *)
ASSUME ServerAssumption ==
    /\ \A p \in Peers : /\ p.version \in Versions \ {"repeater"} /\ p.repeater \in BOOLEAN
                         /\ p.auth \in {"vnc", "none", "refused", "other"}
                         /\ p.grants \in {"ok", "failed"}
    /\ \A us \in Updates \cup Others :
           us # <<>> /\ us \in Seq(Units) /\ WellSized(us) /\ Complete(us)

VARIABLES
    rfb_state, password,        \* rfb.js: rfb_state; rfb_password is not empty
    socks, cur,                 \* the WebSockets opened; the last one
    timers,                     \* which of the timers the code keeps are pending
    ending, asking,             \* sockets whose 50 ms timers are pending
    pollers,                    \* chains of checkEvents
    fbu, sQ, mouse_arr,         \* rfb.js, websock.js: the same
    partner, srv, todo, avail,  \* the server, how far it is, its bytes
    sent,                       \* what the server was sent
    form,                       \* the page shows its password form
    events,                     \* counts up to MaxEvents
    lost, stale, late           \* history: see the properties

link   == <<socks, cur, ending>>
server == <<partner, srv>>
queue  == <<fbu, todo, avail, lost>>
clientVars == <<rfb_state, password, link, timers, asking, pollers, queue, sQ,
            mouse_arr, server, sent, form, events, stale, late>>

Handshake == {"ProtocolVersion", "Security", "Authentication", "password",
              "SecurityResult", "ServerInitialisation"}
Closing   == {"disconnected", "loaded", "connect", "disconnect", "failed"}

ClientInit ==
    /\ rfb_state = "loaded" /\ password \in BOOLEAN
    /\ socks = [c \in 1..MaxConnects |-> "none"] /\ cur = 0
    /\ timers = {} /\ ending = {} /\ asking = {} /\ pollers = 0
    /\ fbu = NoUpdate /\ sQ = <<>> /\ mouse_arr = <<>>
    /\ partner \in Peers /\ srv = "version" /\ todo = <<>> /\ avail = 0
    /\ sent = <<>> /\ form = FALSE /\ events = 0
    /\ lost = "nothing" /\ stale = FALSE /\ late = FALSE
-----------------------------------------------------------------------------
(* updateState: k are the sockets and t the timers pending when it is called,*)
(* set the timers its caller sets afterwards.                                *)
CloseSocket(k) == IF cur # 0 /\ k[cur] \in {"connecting", "open"}
                  THEN [k EXCEPT ![cur] = "closing"] ELSE k

UpdateState(new, k, t, set) ==
    IF new = rfb_state
    THEN timers' = t \cup set /\ socks' = k /\ UNCHANGED <<rfb_state, ending>>
    ELSE /\ rfb_state' = IF rfb_state = "failed" /\ new = "disconnected"
                         THEN "failed" ELSE new
         /\ timers' = (t \ ({"conn", "disconn"} \cup
                            IF new \in Closing THEN {"send", "msg"} ELSE {})) \cup set
         /\ socks' = IF new \in Closing THEN CloseSocket(k) ELSE k
         /\ ending' = IF new = "failed" THEN ending \cup {cur} ELSE ending

(* ws.send(ms): sQ goes out whole, unless the socket has too much buffered.  *)
(* A socket being closed swallows it; one that is not open yet throws, and   *)
(* leaves it in sQ.  Requests for updates are kept only where they should    *)
(* not be: before the handshake is over.                                     *)
Without(ms, dropped) ==
    FoldLeft(LAMBDA kept, m : IF m = dropped THEN kept ELSE Append(kept, m), <<>>, ms)
Squeeze(ms) == IF Said("setup") \in ToSet(sent \o ms) THEN Without(ms, Said("request")) ELSE ms
Flush(q) ==
    \/ /\ socks[cur] # "connecting" /\ sQ' = <<>>
       /\ sent' = IF socks[cur] = "open" THEN sent \o Squeeze(q) ELSE sent
    \/ /\ socks[cur] = "connecting" \/ sent # <<>>
       /\ sQ' = Squeeze(q) /\ sent' = sent
Send(ms) == IF ms = <<>> THEN UNCHANGED <<sQ, sent>> ELSE Flush(sQ \o ms)

-----------------------------------------------------------------------------
(* handle_message with a bytes in rQ; t are the timers pending.              *)
Handled(a) ==
    LET s == [state |-> rfb_state, todo |-> todo, avail |-> a, fbu |-> fbu,
              out |-> "go", say |-> <<>>, lost |-> "nothing"]
    IN  IF rfb_state = "normal" THEN NormalMsg(s) ELSE InitMsg(s, partner, password)

(* After a whole message, 10 ms later comes the next.                       *)
X_Again(r) == {}
Again(r) == IF rfb_state = "normal" /\ r.out = "done" /\ r.avail > 0 THEN {"msg"} ELSE {}

Effects(r, t) ==
    /\ IF r.lost = "nothing"
       THEN todo' = r.todo /\ avail' = r.avail /\ fbu' = r.fbu /\ lost' = lost
       ELSE todo' = <<>> /\ avail' = 0 /\ fbu' = NoUpdate /\ lost' = r.lost
    /\ form' = (form \/ r.state = "password")
    /\ pollers' = IF r.state = "normal" /\ rfb_state # r.state THEN pollers + 1 ELSE pollers
    /\ UpdateState(r.state, socks, t,
          (IF r.state = "Security" /\ rfb_state # r.state THEN {"send"} ELSE {}) \cup
          Again(r))
    /\ Send(r.say)

Ignored(a, t) ==
    /\ timers' = t /\ avail' = a
    /\ UNCHANGED <<rfb_state, socks, ending, fbu, todo, lost, form, pollers, sQ, sent>>

HandleMessage(a, t) ==
    IF a = 0 \/ rfb_state \in {"disconnected", "failed"} \/ lost # "nothing"
    THEN Ignored(a, t) ELSE Effects(Handled(a), t)

(* recv_message: bytes of the present socket arrive, in pieces of any size.  *)
(* A handler can only tell whether a stage of a unit is complete: pieces end *)
(* with a stage or a byte before that.                                       *)
Pieces == LET Ends(i) == {BytesOf(SubSeq(todo, 1, i - 1)) + n : n \in ToSet(todo[i].stages)}
              cuts == UNION {Ends(i) \cup {n - 1 : n \in Ends(i)} : i \in DOMAIN todo}
          IN  {n - avail : n \in {c \in cuts : c > avail}}

Arrive(n) ==
    /\ cur # 0 /\ socks[cur] = "open"
    /\ IF avail + n > 0 THEN HandleMessage(avail + n, timers)
       ELSE Ignored(avail + n, timers)
    /\ UNCHANGED <<password, cur, asking, mouse_arr, server, events, stale, late>>

(* A client that has lost its place may find anything in the bytes.          *)
Garbage ==
    /\ lost # "nothing" /\ socks[cur] = "open" /\ rfb_state \notin {"disconnected", "failed"}
    /\ UpdateState("failed", socks, timers, {})
    /\ UNCHANGED <<password, cur, asking, pollers, queue, sQ, mouse_arr, server, sent, form,
                   events, stale, late>>

(* ws.on("open") and ws.on("close"), of any socket ever opened.              *)
OnOpen ==
    /\ cur # 0 /\ socks[cur] = "connecting"
    /\ UpdateState(IF rfb_state = "connect" THEN "ProtocolVersion" ELSE "failed",
                   [socks EXCEPT ![cur] = "open"], timers, {})
    /\ UNCHANGED <<password, cur, asking, pollers, queue, sQ, mouse_arr, server, sent,
                   form, events, stale, late>>

OnClose(c) ==
    /\ socks[c] \in {"connecting", "open", "closing"}
    /\ LET new == IF rfb_state = "disconnect" THEN "disconnected"
                  ELSE IF rfb_state \in {"failed", "disconnected"} THEN rfb_state
                  ELSE "failed"
       IN  /\ UpdateState(new, [socks EXCEPT ![c] = "closed"], timers, {})
           /\ stale' = (stale \/ (c # cur /\ new # rfb_state))
    /\ UNCHANGED <<password, cur, asking, pollers, queue, sQ, mouse_arr, server, sent,
                   form, events, late>>
-----------------------------------------------------------------------------
(* The timers.                                                               *)

rest == <<password, cur, asking, pollers, queue, sQ, mouse_arr, server, sent, form, late>>

ConnectTimeout ==
    /\ "conn" \in timers /\ UpdateState("failed", socks, timers \ {"conn"}, {})
    /\ UNCHANGED <<rest, events, stale>>

DisconnectTimeout ==
    /\ "disconn" \in timers /\ UpdateState("failed", socks, timers \ {"disconn"}, {})
    /\ UNCHANGED <<rest, events, stale>>

(* 50 ms after updateState("failed"); nothing cancels it.                    *)
AfterFailure(c) ==
    /\ c \in ending
    /\ LET now == IF rfb_state \in {"failed", "disconnected"} THEN rfb_state ELSE "disconnected"
       IN  /\ rfb_state' = now
           /\ timers' = IF rfb_state = "disconnected" THEN timers
                        ELSE timers \ {"conn", "disconn", "send", "msg"}
           /\ socks' = IF rfb_state = "disconnected" THEN socks ELSE CloseSocket(socks)
           /\ stale' = (stale \/ (c # cur /\ now # rfb_state))
    /\ ending' = ending \ {c}
    /\ UNCHANGED <<rest, events>>

MessageTimer ==
    /\ "msg" \in timers /\ HandleMessage(avail, timers \ {"msg"})
    /\ UNCHANGED <<password, cur, asking, mouse_arr, server, events, stale, late>>

(* init_msg, 1 ms after sendPassword.                                        *)
PasswordTimer ==
    /\ "password" \in timers
    /\ IF lost = "nothing" /\ rfb_state # "normal" THEN Effects(Handled(avail), timers \ {"password"})
       ELSE Ignored(avail, timers \ {"password"})
    /\ UNCHANGED <<password, cur, asking, mouse_arr, server, events, stale, late>>

SendTimer ==
    /\ "send" \in timers /\ sQ # <<>> /\ Flush(sQ)
    /\ UNCHANGED <<rfb_state, password, link, timers, asking, pollers, queue, mouse_arr,
                   server, form, events, stale, late>>
-----------------------------------------------------------------------------
(* The page and its user.                                                    *)

(* init_vars and open: the queues are emptied, and there is a new socket with *)
(* the handlers of the one connection.                                       *)
InitVars == fbu' = NoUpdate /\ todo' = <<>> /\ avail' = 0 /\ sQ' = <<>> /\ mouse_arr' = <<>>
NewSocket(k) == cur' = cur + 1 /\ socks' = [k EXCEPT ![cur + 1] = "connecting"]

(* The page connects when it is loaded; a form of an earlier connection is   *)
(* not sent any more.                                                        *)
Connect ==
    /\ rfb_state \in {"loaded", "disconnected", "failed"} /\ cur < MaxConnects
    /\ events' = IF cur = 0 THEN 0 ELSE events + 1
    /\ events < MaxEvents
    /\ rfb_state' = "connect" /\ timers' = {"conn"}
    /\ InitVars /\ NewSocket(CloseSocket(socks))
    /\ partner' \in Peers /\ srv' = "version"
    /\ sent' = <<>> /\ form' = FALSE /\ lost' = "nothing" /\ stale' = FALSE /\ late' = FALSE
    /\ UNCHANGED <<password, ending, asking, pollers>>

Spend == events < MaxEvents /\ events' = events + 1

Disconnect ==
    /\ Spend
    /\ rfb_state \notin {"loaded", "disconnected", "failed", "disconnect"}
    /\ UpdateState("disconnect", socks, timers, {"disconn"})
    /\ UNCHANGED <<rest, stale>>

(* The form stays on the page when it is sent with the Enter key, and when   *)
(* the connection ends; sendPassword does not look at rfb_state.             *)
SendPassword ==
    /\ form /\ Spend
    /\ password' \in BOOLEAN /\ rfb_state' = "Authentication"
    /\ timers' = timers \cup {"password"}
    /\ late' = (late \/ rfb_state # "password")
    /\ UNCHANGED <<link, asking, pollers, queue, sQ, mouse_arr, server, sent, form, stale>>

(* keyboard.grab and mouse.grab, until a closing state                       *)
Grabbed == rfb_state \notin Closing /\ Said("setup") \in ToSet(sent \o sQ)

Input(m) == [m |-> m, n |-> events]
user == <<rfb_state, password, link, timers, pollers, queue, server, form, stale, late>>

KeyPress ==
    /\ Grabbed /\ Spend
    /\ Send(<<Input("key"), Said("request")>>)
    /\ UNCHANGED <<user, asking, mouse_arr>>

MouseMove ==
    /\ Grabbed /\ Spend
    /\ mouse_arr' = Append(mouse_arr, Input("pointer"))
    /\ UNCHANGED <<user, asking, sQ, sent>>

X_FlushClient(ms) ==          \* mouse_arr is not emptied
    /\ ms # <<>> /\ Send(ms) /\ mouse_arr' = ms /\ asking' = asking \cup {cur}

FlushClient(ms) ==
    /\ ms # <<>> /\ Send(ms) /\ mouse_arr' = <<>> /\ asking' = asking \cup {cur}

MouseButton ==
    /\ Grabbed /\ Spend
    /\ FlushClient(Append(mouse_arr, Input("pointer")))
    /\ UNCHANGED user

CheckEvents ==
    /\ pollers > 0 /\ rfb_state = "normal"
    /\ \/ FlushClient(mouse_arr)
       \/ mouse_arr = <<>> /\ Send(<<Said("request")>>) /\ UNCHANGED <<mouse_arr, asking>>
    /\ UNCHANGED <<user, events>>

(* 50 ms after flushClient; nothing cancels it.                              *)
AskAgain(c) ==
    /\ c \in asking /\ asking' = asking \ {c} /\ Send(<<Said("request")>>)
    /\ stale' = (stale \/ c # cur)
    /\ UNCHANGED <<rfb_state, password, link, timers, pollers, queue, mouse_arr, server,
                   form, events, late>>
-----------------------------------------------------------------------------
(* The server: what it sends in answer to what it was sent.                  *)
Heard(m) == Said(m) \in ToSet(sent)

ServerAnswers(us, next) ==
    /\ cur # 0 /\ socks[cur] = "open" /\ lost = "nothing"
    /\ todo' = todo \o us /\ srv' = next
    /\ UNCHANGED <<rfb_state, password, link, timers, asking, pollers, fbu, avail, lost, sQ,
                   mouse_arr, partner, sent, form, stale, late>>

Version(v) == Unit("version", <<12>>, v, 0)
Scheme == Unit("scheme", <<4>>, "plain", 0)
Challenge == Unit("challenge", <<16>>, "plain", 0)
AfterSecurity == CASE partner.auth = "vnc"  -> "challenge"
                   [] partner.auth = "none" -> IF partner.version = "3.8" THEN "result" ELSE "init"
                   [] OTHER -> "end"
Result == Unit("result", IF partner.grants = "failed" /\ partner.version = "3.8" THEN <<4, 8, 11>> ELSE <<4>>,
               partner.grants, 0)

Greet ==
    /\ \/ /\ srv = "version" /\ partner.repeater
          /\ ServerAnswers(<<Version("repeater")>>, "repeater")
       \/ /\ (srv = "version" /\ ~partner.repeater) \/ (srv = "repeater" /\ Heard("repeater"))
          /\ ServerAnswers(<<Version(partner.version)>>, "security")
       \/ /\ srv = "security" /\ Heard("version") /\ partner.version = "3.3"
          /\ IF partner.auth = "vnc"
             THEN ServerAnswers(<<Scheme, Challenge>>, "result")
             ELSE ServerAnswers(<<Scheme>>
                              \o (IF partner.auth = "refused" THEN <<Unit("reason", <<4, 7>>, "plain", 0)>> ELSE <<>>),
                              AfterSecurity)
       \/ /\ srv = "security" /\ Heard("version") /\ partner.version # "3.3"
          /\ ServerAnswers(<<Unit("types", <<1, IF partner.auth = "refused" THEN 1 ELSE 3>>, "plain", 0)>>, AfterSecurity)
       \/ srv = "challenge" /\ Heard("type") /\ ServerAnswers(<<Challenge>>, "result")
       \/ /\ srv = "result" /\ Heard(IF partner.auth = "vnc" THEN "response" ELSE "type")
          /\ ServerAnswers(<<Result>>, IF partner.grants = "ok" THEN "init" ELSE "end")
       \/ /\ srv = "init" /\ Heard("clientinit")
          /\ ServerAnswers(<<Unit("init", <<24, 26>>, "plain", 0)>>, "normal")
    /\ UNCHANGED events

(* It answers the first request for an update, and then sends what it likes. *)
Answer ==
    /\ srv = "normal" /\ Heard("setup")
    /\ \E us \in Updates : ServerAnswers(us, "answered")
    /\ UNCHANGED events

Talk ==
    /\ srv \in {"normal", "answered"} /\ Spend
    /\ \E us \in Others : ServerAnswers(us, srv)
-----------------------------------------------------------------------------
ClientNext ==
    \/ \E n \in Pieces : Arrive(n)
    \/ \E c \in DOMAIN socks : OnClose(c) \/ AfterFailure(c) \/ AskAgain(c)
    \/ OnOpen \/ Garbage \/ ConnectTimeout \/ DisconnectTimeout \/ MessageTimer
    \/ PasswordTimer \/ SendTimer \/ Connect \/ Disconnect \/ SendPassword
    \/ KeyPress \/ MouseMove \/ MouseButton \/ CheckEvents \/ Greet \/ Answer \/ Talk

ClientSpec == ClientInit /\ [][ClientNext]_clientVars
-----------------------------------------------------------------------------
(* The client never takes bytes for something they are not, unless the four  *)
(* or eight bytes behind a COPYRECT or RRE header, or the header of a colour *)
(* map, were split between two events, or a password was sent late.          *)
InStep == lost \in {"nothing", "COPYRECT", "RRE", "SetColourMapEntries", "password"}

(* What the client has to say in the handshake, and what comes before what.  *)
Due == {"version", "clientinit", "setup"}
       \cup (IF partner.version = "3.3" THEN {} ELSE {"type"})
       \cup (IF partner.auth = "vnc" THEN {"response"} ELSE {})
Previous(m) ==
    CASE m = "setup" -> "clientinit"
      [] m = "clientinit" /\ partner.auth = "vnc" -> "response"
      [] m = "type" -> "version"
      [] OTHER -> IF partner.version = "3.3" THEN "version" ELSE "type"
Before(m, i, ms) == \E j \in 1..i-1 : ms[j].m = m

Rising(ms, m) == \A i, j \in 1..Len(ms) : i < j /\ ms[i].m = m /\ ms[j].m = m => ms[i].n < ms[j].n
SaidInOrder(ms) ==
    \A i \in 1..Len(ms) :
        \/ ms[i].m = "repeater"
        \/ ms[i].m \in {"request", "key", "pointer"} /\ Before("setup", i, ms)
        \/ /\ ms[i].m \in Due /\ ~Before(ms[i].m, i, ms)
           /\ ms[i].m = "version" \/ Before(Previous(ms[i].m), i, ms)
(* The handshake is said once and in order, nothing of a user before it is   *)
(* over, and key and pointer events in the order they happened, whatever     *)
(* waits in sQ and in mouse_arr and whichever timer fires between.           *)
ServerHears ==
    stale \/ late \/
    LET all == sent \o sQ
    IN  SaidInOrder(all) /\ Rising(all, "key") /\ Rising(all \o mouse_arr, "pointer")

OffTrack == \/ lost # "nothing"
            \/ fbu.rects > 0 /\ fbu.bytes = 0 /\ todo # <<>> /\ Head(todo).k # "rect"
(* A message that is all there is not left lying in rQ: unless the first     *)
(* update is still to come, a timer will look at it again.  The exceptions   *)
(* are a client off its track and a filter that is waited for for ever.      *)
NothingForgotten ==
    rfb_state = "normal" /\ ~OffTrack /\ todo # <<>> /\ avail = BytesOf(todo) =>
        "msg" \in timers \/ srv = "normal" \/ Head(todo).v = "filter"
=============================================================================
