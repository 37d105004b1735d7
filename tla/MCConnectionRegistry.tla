------------------------ MODULE MCConnectionRegistry ------------------------
(* Values of the constants of ConnectionRegistry for TLC. *)
EXTENDS ConnectionRegistry, TLC
CONSTANTS w1, w2, r1, r2, a, b
OneWorker == {w1}
TwoWorkers == {w1, w2}
TwoRequests == {r1, r2}
OneId == {1}
TwoIds == {1, 2}
TwoConfigs == {a, b}
(* Workers, requests and configurations are interchangeable: the only CHOOSE *)
(* of the specification is over Handles, which is left out.                  *)
Symmetric == Permutations(Workers) \cup Permutations(Requests) \cup Permutations(Configs)

(* Either one worker serves everybody, with two hosts, or two workers share  *)
(* a table of one row: what nesting and what sharing can do, without their   *)
(* product.                                                                  *)
OneServes ==
    \E w \in Workers : (\A r \in Requests : on[r] = w) /\ \A v \in Workers \ {w} : servers[v] = NoRows
OneHost ==
    \A id \in Ids \ {1} : /\ db[id] = NoRow
                         /\ \A w \in Workers : servers[w][id] = NoRow
                         /\ \A r \in Requests : rows[r][id] = NoRow
MaxDisturbances == 2     \* edits, outages and failed queries together
Small == (~OneServes => OneHost) /\ edits + outages + failures <= MaxDisturbances
SmallInit == Init /\ Small
SmallSpec == SmallInit /\ [][Next /\ Small']_vars

(* For what must happen in the end, with one row: on one worker a host goes  *)
(* down, the query fails and the row changes, once each; or the row changes  *)
(* twice, on two workers, of which one may delete it and give its id out     *)
(* again while the other still has it.  The fair actions that this forbids   *)
(* leave the handler another: to go on without an edit, a query that works.  *)
Few == (OneServes /\ edits <= 1) \/ outages + failures = 0
LiveInit == Init /\ Few
LiveSpec == LiveInit /\ [][Next /\ Few']_vars /\ Fairness
=============================================================================
