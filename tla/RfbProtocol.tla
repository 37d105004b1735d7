----------------------------- MODULE RfbProtocol -----------------------------
(* What the message handlers of novnc/rfb.js do to the receive queue of      *)
(* novnc/websock.js, as operators on a record s:                             *)
(*   todo   the units the server sent and the client has not taken           *)
(*   avail  how many of their bytes are in rQ (rQlen; negative when rQi has  *)
(*          run past the end of rQ)                                          *)
(*   fbu    rfb.js: FBU, of which lines, subrects and tiles are left         *)
(*   state  rfb_state                                                        *)
(*   out    how far the handler is: "go", "wait" (it returned false), "done" *)
(*          (it returned true), "thrown"                                     *)
(*   say    what it sends                                                    *)
(*   lost   what made it read bytes for something they are not               *)
(* A unit [k, stages, v, n] is of kind k and says v and n; its handler waits *)
(* for stages[1] bytes, then stages[2], ..., and takes it whole: its last    *)
(* stage is its length.       A queue position is a position between units:  *)
(* compaction of rQ and going back to where a message began do not show.     *)
(* A definition X_Name before Name is Name with a fault, for the mutants.    *)
EXTENDS Integers, Sequences, SequencesExt, FiniteSetsExt

Unit(k, stages, v, n) == [k |-> k, stages |-> stages, v |-> v, n |-> n]
Size(u) == Last(u.stages)
BytesOf(us) == FoldLeft(LAMBDA sum, n : sum + n, 0, [i \in DOMAIN us |-> Size(us[i])])

Bpp == 4          \* fb_Bpp; every page asks for true colour
NoUpdate == [rects |-> 0, bytes |-> 0, left |-> 0, enc |-> "none", n |-> 0]

Take(s) == [s EXCEPT !.todo = Tail(@), !.avail = @ - Size(Head(s.todo))]
Wait(s) == [s EXCEPT !.out = "wait"]
Done(s) == [s EXCEPT !.out = "done"]
Fail(s) == [s EXCEPT !.out = "wait", !.state = "failed"]
Said(m) == [m |-> m, n |-> 0]
Say(s, m) == [s EXCEPT !.say = Append(@, Said(m))]

(* A loop that is left early leaves s as it is from then on.                 *)
Times(op(_), s, n) == FoldLeft(LAMBDA t, i : op(t), s, [i \in 1..n |-> i])

(* rQwait                                                                    *)
Lacks(s, n) == s.avail < n
Missing(s) == {i \in DOMAIN Head(s.todo).stages : Lacks(s, Head(s.todo).stages[i])}

-----------------------------------------------------------------------------
(* The encodings: s is in a rectangle whose header has been taken.           *)

X_Await(s, n) == Wait(s)                  \* what is missing is not recorded
Await(s, n) == [Wait(s) EXCEPT !.fbu.bytes = n]
Finished(s) == [s EXCEPT !.fbu.bytes = 0, !.fbu.left = 0, !.fbu.rects = @ - 1]

Raw(s) ==
    LET w     == Size(Head(s.todo))
        lines == IF s.fbu.left = 0 THEN s.fbu.n ELSE s.fbu.left
        k     == Min({lines, s.avail \div w})
        t     == [s EXCEPT !.todo = SubSeq(@, k + 1, Len(@)), !.avail = @ - k * w]
    IN  IF Lacks(s, w) THEN [Await(s, w) EXCEPT !.fbu.left = lines]
        ELSE IF k = lines THEN Finished(t)
        ELSE [t EXCEPT !.fbu.bytes = w, !.fbu.left = lines - k]

CopyRect(s) == IF Lacks(s, 4) THEN Wait(s) ELSE Finished(Take(s))

RreChunk == 100
Rre(s) ==
    IF s.fbu.left = 0 /\ Lacks(s, 4 + Bpp) THEN Wait(s)
    ELSE LET h == IF s.fbu.left # 0 THEN s
                  ELSE [Take(s) EXCEPT !.fbu.left = s.fbu.n]
             k == Min({h.fbu.left, h.avail \div (Bpp + 8)})
             t == [h EXCEPT !.todo = SubSeq(@, k + 1, Len(@)),
                            !.avail = @ - k * (Bpp + 8), !.fbu.left = @ - k]
         IN  IF t.fbu.left = 0 THEN Finished(t)
             ELSE [t EXCEPT !.fbu.bytes = (Bpp + 8) * Min({RreChunk, t.fbu.left})]

(* One tile of HEXTILE, or the whole of a TIGHT or Cursor rectangle: what is *)
(* looked at stays in rQ until all of it is there.                           *)
Whole(s) ==
    LET u == Head(s.todo) IN
    IF u.v = "illegal" /\ ~Lacks(s, u.stages[1]) THEN Fail(s)
    ELSE IF u.v = "filter" /\ ~Lacks(s, u.stages[2])
    THEN [Await(s, u.stages[2]) EXCEPT !.out = "thrown"]
    ELSE IF Missing(s) # {} THEN Await(s, u.stages[Min(Missing(s))])
    ELSE Take(s)

Tile(s) ==
    IF s.out # "go" \/ s.fbu.left = 0 THEN s
    ELSE LET t == Whole(s) IN
         IF t.out # "go" THEN t ELSE [t EXCEPT !.fbu.bytes = 0, !.fbu.left = @ - 1]
Hextile(s) ==
    LET tiles == IF s.fbu.left = 0 THEN s.fbu.n ELSE s.fbu.left
        t == Times(Tile, [s EXCEPT !.fbu.left = tiles], tiles)
    IN  IF t.out = "go" THEN Finished(t) ELSE t

Tight(s) == LET t == Whole(s) IN IF t.out = "go" THEN Finished(t) ELSE t

Cursor(s) == Tight(s)

LastRect(s) == [s EXCEPT !.fbu.rects = 0]

DesktopSize(s) == Say(Finished(s), "request")

Handler(s) ==
    CASE s.fbu.enc = "RAW"         -> Raw(s)
      [] s.fbu.enc = "COPYRECT"    -> CopyRect(s)
      [] s.fbu.enc = "RRE"         -> Rre(s)
      [] s.fbu.enc = "HEXTILE"     -> Hextile(s)
      [] s.fbu.enc = "TIGHT"       -> Tight(s)
      [] s.fbu.enc = "Cursor"      -> Cursor(s)
      [] s.fbu.enc = "last_rect"   -> LastRect(s)
      [] s.fbu.enc = "DesktopSize" -> DesktopSize(s)
      [] OTHER                     -> Fail(s)
-----------------------------------------------------------------------------
(* framebufferUpdate, from its loop on.  A header is read whenever FBU.bytes *)
(* is 0, also when a handler that returned false has left it so.             *)

RectHeader(s) ==
    LET u == Head(s.todo) IN
    IF u.k # "rect" THEN [Done(s) EXCEPT !.lost = s.fbu.enc]
    ELSE [Take(s) EXCEPT !.fbu.enc = u.v, !.fbu.n = u.n]

Rect(s) ==
    IF s.out # "go" THEN s
    ELSE IF s.fbu.rects = 0 THEN Done(s)
    ELSE IF Lacks(s, s.fbu.bytes) \/ (s.fbu.bytes = 0 /\ Lacks(s, 12)) THEN Wait(s)
    ELSE LET h == IF s.fbu.bytes = 0 THEN RectHeader(s) ELSE s
         IN  IF h.out = "go" THEN Handler(h) ELSE h

FramebufferUpdate(s) == Times(Rect, s, 2 * s.fbu.rects + 1)

(* The first unit of a message holds its type: a handler that has to wait    *)
(* has put that back.  SetColourMapEntries does not wait for its header: it  *)
(* computes with bytes that are not there and goes on behind them.  Behind   *)
(* the end of rQ there is no type: an illegal one.                           *)
WhenWhole(s) == IF Missing(s) = {} THEN Done(Take(s)) ELSE Wait(s)
NormalMsg(s) ==
    LET u == Head(s.todo) IN
    IF s.fbu.rects > 0 THEN FramebufferUpdate(s)
    ELSE IF Lacks(s, 1) THEN [Done(s) EXCEPT !.state = "failed"]
    ELSE CASE u.k = "FramebufferUpdate" ->
                IF Lacks(s, 4) THEN Wait(s)
                ELSE FramebufferUpdate([Take(s) EXCEPT !.fbu.rects = u.n, !.fbu.bytes = 0])
           [] u.k = "SetColourMapEntries" ->
                IF ~Lacks(s, 6) THEN WhenWhole(s)
                ELSE IF u.n = 0 THEN Done(Take(s)) ELSE [Done(s) EXCEPT !.lost = u.k]
           [] u.k \in {"Bell", "ServerCutText"} -> WhenWhole(s)
           [] u.k = "illegal" -> [Done(Take(s)) EXCEPT !.state = "failed"]
           [] OTHER -> [Done(s) EXCEPT !.lost = s.fbu.enc]
-----------------------------------------------------------------------------
(* The handshake with a server p: the version it speaks (3.3 for all older   *)
(* ones), and the password, of which "none" is known at first.  A handler    *)
(* falls through to the next state, where the code calls init_msg again.     *)

ClientInitialisation(s) ==
    Say([s EXCEPT !.state = "ServerInitialisation"], "clientinit")

Authentication(s, p, known) ==
    CASE p.auth = "refused" -> IF Lacks(s, 4) THEN Wait(s) ELSE Fail(s)
      [] p.auth = "none" -> IF p.version = "3.8" THEN [s EXCEPT !.state = "SecurityResult"]
                            ELSE ClientInitialisation(s)
      [] p.auth = "vnc" ->
           IF ~known THEN [s EXCEPT !.state = "password"]
           ELSE IF Lacks(s, 16) THEN Wait(s)
           ELSE Say(IF Head(s.todo).k = "challenge"
                    THEN [Take(s) EXCEPT !.state = "SecurityResult"]
                    ELSE [s EXCEPT !.state = "SecurityResult", !.lost = "password"],
                    "response")
      [] p.auth = "other" -> Fail(s)

ProtocolVersion(s, p) ==
    IF Lacks(s, 12) \/ Head(s.todo).v = "unknown" THEN Fail(s)
    ELSE IF Head(s.todo).v = "repeater" THEN Say(Take(s), "repeater")
    ELSE Say([Take(s) EXCEPT !.state = "Security"], "version")

Security(s, p, known) ==
    IF Missing(s) # {} THEN Wait(s)
    ELSE IF p.version # "3.3" /\ p.auth \in {"refused", "other"} THEN Fail(s)
    ELSE LET t == [Take(s) EXCEPT !.state = "Authentication"]
         IN  Authentication(IF p.version = "3.3" THEN t ELSE Say(t, "type"), p, known)

SecurityResult(s, p) ==
    IF Lacks(s, 4) THEN Wait(s)
    ELSE IF Head(s.todo).v = "ok" THEN ClientInitialisation(Take(s))
    ELSE IF p.version = "3.8" /\ ~Lacks(s, 8) /\ Missing(s) # {} THEN Wait(s)
    ELSE Fail(s)

(* Only 24 bytes are waited for, but the name behind them is taken too.      *)
ServerInitialisation(s) ==
    IF Lacks(s, 24) THEN Wait(s)
    ELSE Say([Take(s) EXCEPT !.state = "normal"], "setup")

InitMsg(s, p, known) ==
    CASE s.state = "ProtocolVersion"      -> ProtocolVersion(s, p)
      [] s.state = "Security"             -> Security(s, p, known)
      [] s.state = "Authentication"       -> Authentication(s, p, known)
      [] s.state = "SecurityResult"       -> SecurityResult(s, p)
      [] s.state = "ServerInitialisation" -> ServerInitialisation(s)
      [] OTHER                            -> s
-----------------------------------------------------------------------------
(* External: the messages of a server that follows the protocol.  Each unit  *)
(* of a message is at a place in it: how many rectangles are to come, and    *)
(* how many units of the present one, of which encoding and of which size    *)
(* (0 if of any).  Rectangles have at least one pixel.                       *)
Versions  == {"3.3", "3.7", "3.8", "unknown", "repeater"}
Encodings == {"RAW", "COPYRECT", "RRE", "HEXTILE", "TIGHT", "Cursor", "last_rect", "DesktopSize", "other"}
Kinds == {"version", "scheme", "types", "challenge", "reason", "result", "init",
          "FramebufferUpdate", "SetColourMapEntries", "Bell", "ServerCutText", "illegal",
          "rect", "part", "tile", "tight"}
Values == {"plain", "illegal", "filter", "ok", "failed"} \cup Versions \cup Encodings
Units == [k : Kinds, stages : Seq(Nat), v : Values, n : Nat]
WellSized(us) ==
    \A i \in DOMAIN us :
        /\ us[i] \in Units /\ us[i].stages # <<>>
        /\ \A j \in DOMAIN us[i].stages : us[i].stages[j] \in 1..Size(us[i])
        /\ us[i].v = "filter" => Len(us[i].stages) >= 2

Place(rects, enc, left, size) == [rects |-> rects, enc |-> enc, left |-> left, size |-> size]
Between(rects) == Place(rects, "none", 0, 0)

Suits(p, u) ==
    IF p.left > 0 THEN u.k \in {"part", "tile", "tight"} /\ p.size \in {0, Size(u)}
    ELSE IF p.rects > 0
    THEN /\ u.k = "rect" /\ Size(u) = 12
         /\ u.v \in {"COPYRECT", "TIGHT", "Cursor"} => u.n = 1
         /\ u.v \in {"RRE", "last_rect", "DesktopSize"} \/ u.n > 0
    ELSE /\ u.k \in {"FramebufferUpdate", "SetColourMapEntries", "Bell", "ServerCutText", "illegal"}
         /\ u.k = "FramebufferUpdate" => Size(u) = 4

Inside(p, u) ==         \* after the header of a rectangle
    CASE u.v = "last_rect"   -> Between(0)
      [] u.v = "DesktopSize" -> Between(p.rects - 1)
      [] u.v = "COPYRECT"    -> Place(p.rects, u.v, 1, 4)
      [] u.v = "RRE"         -> Place(p.rects, u.v, u.n + 1, 4 + Bpp)
      [] OTHER               -> Place(p.rects, u.v, u.n, 0)

After(p, u) ==
    CASE p.left > 1  -> Place(p.rects, p.enc, p.left - 1,
                              CASE p.enc = "RAW" -> Size(u) [] p.enc = "RRE" -> Bpp + 8 [] OTHER -> 0)
      [] p.left = 1  -> Between(p.rects - 1)
      [] p.left = 0 /\ p.rects > 0 -> Inside(p, u)
      [] OTHER -> IF u.k = "FramebufferUpdate" THEN Between(u.n) ELSE p

PlacesOf(us) == LET g[i \in 0..Len(us)] == IF i = 0 THEN Between(0) ELSE After(g[i-1], us[i]) IN g
Follows(g, us) == \A i \in 1..Len(us) : Suits(g[i-1], us[i]) /\ g[i] = After(g[i-1], us[i])
Complete(us) == LET g == PlacesOf(us)
                IN  Follows(g, us) /\ g[0] = Between(0) /\ g[Len(us)] = Between(0)
=============================================================================
