----------------------------- MODULE ConsolePipe -----------------------------
(***************************************************************************)
(* What one direction of a console proxy promises: a pipe that delivers    *)
(* the bytes of a source in order, each once, and that, when the source    *)
(* ends the stream itself, closes only after it delivered all of them.     *)
(* Bytes are numbered in the order the source produces them.               *)
(***************************************************************************)
EXTENDS Naturals, Sequences

VARIABLES
    produced,   \* how many bytes the source has produced
    delivered,  \* the bytes delivered
    source,     \* "open", "ended" by the source itself, or "aborted"
    closed      \* the pipe told the other side that it is closed

vars == <<produced, delivered, source, closed>>

FirstBytes(n) == [i \in 1..n |-> i]

Init ==
    /\ produced = 0 /\ delivered = <<>>
    /\ source = "open" /\ closed = FALSE

(* The source produces some bytes. *)
Produce ==
    /\ source = "open"
    /\ produced' \in Nat /\ produced' > produced
    /\ UNCHANGED <<delivered, source, closed>>

(* The pipe delivers some of the bytes that are next. *)
Deliver ==
    /\ ~closed
    /\ \E n \in 0..produced : n > Len(delivered) /\ delivered' = FirstBytes(n)
    /\ UNCHANGED <<produced, source, closed>>

(* The source ends the stream, or something cuts it. *)
End ==
    /\ source = "open"
    /\ source' \in {"ended", "aborted"}
    /\ UNCHANGED <<produced, delivered, closed>>

Close ==
    /\ source # "open" /\ ~closed
    /\ source = "ended" => Len(delivered) = produced
    /\ closed' = TRUE
    /\ UNCHANGED <<produced, delivered, source>>

Next == Produce \/ Deliver \/ End \/ Close

Spec == Init /\ [][Next]_vars
=============================================================================
