------------------------------ MODULE MCConsole ------------------------------
(* The two halves of a console in the server: what one session does with     *)
(* bytes, and how sessions find their displays.  They meet in a connection   *)
(* that the one starts from and the other ends in and share no state, so     *)
(* that the run explores one at a time.                                      *)
EXTENDS ConsoleStream, ConsoleTunnel

CONSTANTS s1, s2, w1, w2, here, h1, h2, p1, p2

(* Displays that clash, and displays that do not.                            *)
Clashing == {<<h1, p1>>, <<h2, p1>>, <<h2, p2>>, <<here, p2>>}

(* No fair action of a half is enabled before its first step, so that the    *)
(* fairness of the half that rests demands nothing.                          *)
StreamRests == Init /\ sock = "connecting"
TunnelRests == TunnelInit

ConsoleInit == Init /\ TunnelInit
ConsoleNext ==
    \/ TunnelRests /\ Next /\ UNCHANGED tunnelVars
    \/ StreamRests /\ TunnelNext /\ UNCHANGED vars
ConsoleSpec ==
    /\ ConsoleInit /\ [][ConsoleNext]_<<vars, tunnelVars>>
    /\ StreamFairness /\ TunnelFairness
=============================================================================
