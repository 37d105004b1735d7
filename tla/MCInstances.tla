----------------------------- MODULE MCInstances -----------------------------
(* Instance of Instances for TLC.                                           *)
EXTENDS Instances, TLC

CONSTANTS r1, r2, d1, d2, d3

(* A domain that createDomain made has no description; one made elsewhere   *)
(* may be without graphics or CD drive too.                                 *)
MissingParts == {{"description", "console", "media"}}

Symmetric == Permutations(Requests) \cup Permutations(Files)
=============================================================================
