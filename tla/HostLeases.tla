----------------------------- MODULE HostLeases -----------------------------
(***************************************************************************)
(* What Virtlyst promises a request about libvirt hosts, with no registry, *)
(* no cached connections and no reference counts: a request reads the      *)
(* table of hosts once, when it arrives, and each connection it is given   *)
(* leads to the host the table named for that id and stays usable until    *)
(* the request gives it back.  ConnectionRegistry implements this.         *)
(***************************************************************************)
CONSTANTS Requests, Ids, Configs, NoRow

VARIABLES
    table,   \* the row of each id
    read,    \* the rows a request read when it arrived
    lease    \* the configuration a request is connected to, per id

NoRows == [id \in Ids |-> NoRow]

Init ==
    /\ table \in [Ids -> Configs \cup {NoRow}]
    /\ read = [r \in Requests |-> NoRows]
    /\ lease = [r \in Requests |-> NoRows]

Write(id, row) ==
    /\ table' = [table EXCEPT ![id] = row]
    /\ UNCHANGED <<read, lease>>

Read(r) ==
    /\ read[r] = NoRows
    /\ read' = [read EXCEPT ![r] = table]
    /\ UNCHANGED <<table, lease>>

Take(r, id) ==
    /\ read[r][id] # NoRow
    /\ lease' = [lease EXCEPT ![r][id] = read[r][id]]
    /\ UNCHANGED <<table, read>>

GiveBack(r, id) ==
    /\ lease[r][id] # NoRow
    /\ lease' = [lease EXCEPT ![r][id] = NoRow]
    /\ UNCHANGED <<table, read>>

Leave(r) ==
    /\ lease[r] = NoRows
    /\ read' = [read EXCEPT ![r] = NoRows]
    /\ UNCHANGED <<table, lease>>

Next ==
    \/ \E r \in Requests :
          \/ Read(r) \/ Leave(r)
          \/ \E id \in Ids : Take(r, id) \/ GiveBack(r, id)
    \/ \E id \in Ids, row \in Configs \cup {NoRow} : Write(id, row)

Spec == Init /\ [][Next]_<<table, read, lease>>
=============================================================================
