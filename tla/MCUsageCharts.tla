---------------------------- MODULE MCUsageCharts ----------------------------
(* Instance of UsageCharts for TLC.                                          *)
EXTENDS UsageCharts, TLC

CONSTANTS h, d1, d2, p1, p2, w1

(* Both domains have a disk vda, one of them a second.                       *)
TwoDisks == [d \in Domains |-> IF d = d1 THEN {"vda"} ELSE {"vda", "vdb"}]

Symmetric == Permutations(Polls)
=============================================================================
