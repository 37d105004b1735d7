-------------------------------- MODULE MCVnc --------------------------------
(* The parts of the VNC page in one run: the protocol, keyboard and mouse,   *)
(* the drawing queue, the viewport.  They share no state, so that the run    *)
(* explores one at a time.                                                   *)
EXTENDS RfbClient, VncInput, RenderQueue, Viewport

Peer(v, a, r, g) == [version |-> v, auth |-> a, repeater |-> r, grants |-> g]
Servers == {Peer("3.8", "vnc", FALSE, "ok"), Peer("3.8", "none", TRUE, "ok"),
            Peer("3.3", "vnc", FALSE, "failed"), Peer("3.7", "none", FALSE, "ok"),
            Peer("3.8", "vnc", FALSE, "failed"), Peer("3.3", "refused", FALSE, "ok"),
            Peer("3.8", "other", FALSE, "ok"), Peer("unknown", "none", FALSE, "ok")}

Header(enc, n) == Unit("rect", <<12>>, enc, n)
Part(n) == Unit("part", <<n>>, "plain", 0)
Fbu(n, us) == <<Unit("FramebufferUpdate", <<4>>, "plain", n)>> \o us
(* One pixel wide and two high, copied, of two subrectangles; a tile with a  *)
(* background and one with two subrectangles, or one of no legal kind; a     *)
(* TIGHT fill, a JPEG, a palette, or a filter the client does not know.      *)
RawRect    == <<Header("RAW", 2), Part(4), Part(4)>>
CopyIt     == <<Header("COPYRECT", 1), Part(4)>>
RreRect    == <<Header("RRE", 2), Part(8), Part(12), Part(12)>>
HexRect    == <<Header("HEXTILE", 2), Unit("tile", <<1, 5>>, "plain", 0), Unit("tile", <<1, 2, 6>>, "plain", 0)>>
HexBad     == <<Header("HEXTILE", 1), Unit("tile", <<1>>, "illegal", 0)>>
TightFill  == <<Header("TIGHT", 1), Unit("tight", <<1, 4>>, "plain", 0)>>
TightJpeg  == <<Header("TIGHT", 1), Unit("tight", <<1, 4, 9>>, "plain", 0)>>
TightPal   == <<Header("TIGHT", 1), Unit("tight", <<1, 3, 9, 12>>, "plain", 0)>>
TightBad   == <<Header("TIGHT", 1), Unit("tight", <<1, 3, 9>>, "filter", 0)>>
CursorRect == <<Header("Cursor", 1), Part(5)>>
Resized    == <<Header("DesktopSize", 0)>>
LastOne    == <<Header("last_rect", 0)>>
Unknown    == <<Header("other", 1), Part(3)>>

Drawn == {Fbu(2, RawRect \o CopyIt), Fbu(2, RreRect \o Resized), Fbu(1, HexRect),
            Fbu(3, TightFill \o LastOne), Fbu(2, TightJpeg \o CursorRect), Fbu(1, TightPal),
          Fbu(1, HexBad), Fbu(1, TightBad), Fbu(1, Unknown)}
Besides == {<<Unit("Bell", <<1>>, "plain", 0)>>, <<Unit("ServerCutText", <<8, 10>>, "plain", 0)>>,
           <<Unit("SetColourMapEntries", <<6, 12>>, "plain", 1)>>,
           <<Unit("SetColourMapEntries", <<6>>, "plain", 0)>>, <<Unit("illegal", <<1>>, "plain", 0)>>}

SmallLogo == [w |-> 2, h |-> 1]

(* The parts that have left their initial state.                             *)
ClientUsed == cur # 0
KeysUsed   == keyDownList # <<>> \/ pressed # {} \/ held # {} \/ orphans # {}
MouseUsed  == buttons # {} \/ mask # {} \/ captured \/ chord \/ cut
InputUsed  == grabbed \/ KeysUsed \/ MouseUsed
QueueUsed  == ~QueueInit

(* After the handshake servers are alike: one of them goes on to updates.    *)
Alike == srv' = "answered" => partner'.version = "3.7"
(* One server is enough where none is needed.                                *)
Aside == ~ClientUsed /\ ~password /\ partner = Peer("3.8", "vnc", FALSE, "ok")
Init == ClientInit /\ InputInit /\ QueueInit /\ ViewInit
vars == <<clientVars, inputVars, queueVars, viewVars>>
Next ==
    \/ /\ ~InputUsed /\ ~QueueUsed /\ fb.w = 0 /\ ~clip /\ ClientNext /\ Alike
       /\ UNCHANGED <<inputVars, queueVars, viewVars>>
    \/ /\ Aside /\ ~QueueUsed /\ fb.w = 0 /\ ~clip /\ InputNext /\ ~(KeysUsed' /\ MouseUsed')
       /\ UNCHANGED <<clientVars, queueVars, viewVars>>
    \/ /\ Aside /\ ~InputUsed /\ fb.w = 0 /\ ~clip /\ QueueNext
       /\ UNCHANGED <<clientVars, inputVars, viewVars>>
    \/ /\ Aside /\ ~InputUsed /\ ~QueueUsed /\ ViewNext
       /\ UNCHANGED <<clientVars, inputVars, queueVars>>
Spec == Init /\ [][Next]_vars
=============================================================================
