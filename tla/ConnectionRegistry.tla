------------------------- MODULE ConnectionRegistry -------------------------
(***************************************************************************)
(* The connection registry of Virtlyst: Virtlyst::m_connections of every   *)
(* worker thread, the servers_compute table the workers share, the libvirt *)
(* connections (virConnectPtr, reference counted by libvirt) and the       *)
(* requests that borrow them.                                              *)
(*                                                                         *)
(* Every worker thread runs one Qt event loop over its own Virtlyst object *)
(* and its own m_connections.  A request is handled synchronously on its   *)
(* worker: Root::Auto brings the registry up to date with the table, row   *)
(* by row, and then the controller's handler looks hosts up.  A handler    *)
(* gets clones: Connection objects of its own that share the registry's    *)
(* virConnectPtr and count one reference each.  That matters because a     *)
(* request can outlive the registry entry it was served from:              *)
(*   - the usage handlers wait for one second in a nested event loop       *)
(*     (Connection::allCpusUsage, Domain::getStats), in which the same     *)
(*     worker serves further requests, on top of the waiting one;          *)
(*   - a console request becomes a websocket, whose context stays alive    *)
(*     after its handler returned.                                         *)
(* Meanwhile any worker may edit the table, hosts may go down and come     *)
(* back, and the query of the table may fail.                              *)
(*                                                                         *)
(* A Connection object is named by its owner: the registry's entry for a   *)
(* row, a request's context, or a ServerConn a request removed from the    *)
(* registry with deleteLater.  mconn gives each owner its m_conn.          *)
(*                                                                         *)
(* A definition named X_Something next to X is X with a fault: it is not   *)
(* part of the specification, it serves to see that the properties notice. *)
(***************************************************************************)
EXTENDS Naturals, Sequences, FiniteSets

CONSTANTS
    Workers,      \* the worker threads, each with its own registry
    Requests,     \* the request contexts that may be alive at the same time
    Ids,          \* the row ids of servers_compute, numbers from 1
    Configs,      \* contents of a row: name, hostname, login, password and type
    Handles,      \* the virConnectPtr values libvirt can hand out
    NoRow,        \* no such row in the table, no such key in m_connections
    Null,         \* a NULL pointer
    MaxEdits,     \* bound: how often the table is written
    MaxOutages,   \* bound: how often a host goes down
    MaxFailures   \* bound: how often the query of the table fails

Row == Configs \cup {NoRow}
Pointer == Handles \cup {Null}

(* The owners of Connection objects. *)
Registry(w, id) == <<"registry", w, id>>
Context(r, id)  == <<"context", r, id>>
Doomed(r, id)   == <<"doomed", r, id>>
Owners == ({"registry"} \X Workers \X Ids)
            \cup ({"context", "doomed"} \X Requests \X Ids)

ASSUME RegistryAssumption ==
    /\ IsFiniteSet(Workers) /\ IsFiniteSet(Requests) /\ IsFiniteSet(Ids)
    /\ Ids \subseteq Nat \ {0}
    /\ NoRow \notin Configs
    /\ Null \notin Handles
    /\ MaxEdits \in Nat /\ MaxOutages \in Nat /\ MaxFailures \in Nat

VARIABLES
    db,         \* the table servers_compute: the row of each id
    up,         \* the configurations whose libvirt daemon is reachable
    virConn,    \* libvirt: references, peer and link of each virConnectPtr
    servers,    \* the fields of each worker's ServerConn for each id
    mconn,      \* Connection::m_conn of each owner
    stack,      \* each worker's handlers, the running or innermost one first
    on,         \* the worker a request is served by
    phase,      \* how far the handling of a request is
    rows,       \* the rows the request's updateConnections read
    todo,       \* the ids a loop of the request has yet to visit
    edits, outages, failures   \* how much of each bound is used

vars == <<db, up, virConn, servers, mconn, stack, on, phase, rows, todo,
          edits, outages, failures>>
conns    == <<virConn, mconn>>
world    == <<db, up>>
bounds   == <<edits, outages, failures>>

Phases == {"idle",      \* no such request
           "update",    \* in Virtlyst::updateConnections
           "action",    \* the controller's handler starts
           "listing",   \* in Virtlyst::servers
           "using",     \* has a Connection, about to call libvirt
           "served",    \* libvirt answered
           "nested",    \* waits in the one-second nested event loop
           "expired",   \* the second is over, the loop is to return
           "socket",    \* the handler returned, the websocket is open
           "return"}    \* the context is being destroyed
-----------------------------------------------------------------------------
(* libvirt's side. A link is "ok", "broken" (the host went away and libvirt *)
(* has not tried to use it yet, so virConnectIsAlive still answers 1) or    *)
(* "dead" (libvirt noticed); a closed handle has no references.             *)
Links == {"ok", "broken", "dead", "closed"}
Closed == [refs |-> 0, peer |-> NoRow, link |-> "closed"]

FreeHandles == {h \in Handles : virConn[h].refs = 0}
NewHandle == CHOOSE h \in Handles : virConn[h].refs = 0

(* virConnectClose *)
Release(vc, h) ==
    IF h = Null THEN vc
    ELSE IF vc[h].refs = 1 THEN [vc EXCEPT ![h] = Closed]
    ELSE [vc EXCEPT ![h].refs = @ - 1]

(* virConnectRef *)
AddRef_Missing(vc, h) == vc
AddRef(vc, h) ==
    IF h = Null THEN vc ELSE [vc EXCEPT ![h].refs = @ + 1]

(* virConnectOpenAuth, when it succeeds *)
Opened(vc, h, cfg) == [vc EXCEPT ![h] = [refs |-> 1, peer |-> cfg, link |-> "ok"]]

(* Connection::isAlive *)
IsAlive_PointerOnly(h) == h # Null
IsAlive(h) == h # Null /\ virConn[h].link \in {"ok", "broken"}

Reconnect_Leaks(o, cfg) ==
    IF cfg \in up
    THEN /\ FreeHandles # {}
         /\ virConn' = Opened(virConn, NewHandle, cfg)
         /\ mconn' = [mconn EXCEPT ![o] = NewHandle]
    ELSE /\ virConn' = virConn
         /\ mconn' = [mconn EXCEPT ![o] = Null]

(* delete conn; conn = new Connection(url, name, this): the Connection of   *)
(* owner o is replaced by one to cfg, with a NULL m_conn if that host is    *)
(* not reachable.                                                           *)
Reconnect(o, cfg) ==
    IF cfg \in up
    THEN /\ FreeHandles # {}
         /\ virConn' = Opened(Release(virConn, mconn[o]), NewHandle, cfg)
         /\ mconn' = [mconn EXCEPT ![o] = NewHandle]
    ELSE /\ virConn' = Release(virConn, mconn[o])
         /\ mconn' = [mconn EXCEPT ![o] = Null]

-----------------------------------------------------------------------------
(* The worker's thread. It takes up an event when no handler runs on it or  *)
(* when the innermost one waits in its nested event loop.                   *)
Dispatching(w) == stack[w] # <<>> => phase[Head(stack[w])] = "nested"
Running(r) == stack[on[r]] # <<>> /\ Head(stack[on[r]]) = r

Goto(r, p) == phase' = [phase EXCEPT ![r] = p]
Push(w, r) == stack' = [stack EXCEPT ![w] = <<r>> \o @]
Pop(w)     == stack' = [stack EXCEPT ![w] = Tail(@)]

NoRows == [id \in Ids |-> NoRow]

(* A request arrives: Root::Auto of an authenticated user, up to the query  *)
(* of updateConnections. A failed query reads no row at all. (A worker's    *)
(* postFork is a request whose handler looks nothing up.)                   *)
Arrive(w, r) ==
    /\ phase[r] = "idle"
    /\ \A id \in Ids : mconn[Doomed(r, id)] = Null
    /\ Dispatching(w)
    /\ \/ /\ rows' = [rows EXCEPT ![r] = db]
          /\ UNCHANGED failures
       \/ /\ rows' = [rows EXCEPT ![r] = NoRows]
          /\ failures < MaxFailures /\ failures' = failures + 1
    /\ todo' = [todo EXCEPT ![r] = {id \in Ids : rows'[r][id] # NoRow}]
    /\ on' = [on EXCEPT ![r] = w]
    /\ Push(w, r)
    /\ Goto(r, "update")
    /\ UNCHANGED <<world, conns, servers, edits, outages>>

UpdateRow_KeepsOld(r, id) ==
    /\ Running(r) /\ phase[r] = "update" /\ id \in todo[r]
    /\ todo' = [todo EXCEPT ![r] = @ \ {id}]
    /\ IF servers[on[r]][id] # NoRow
       THEN UNCHANGED <<servers, conns>>
       ELSE /\ servers' = [servers EXCEPT ![on[r]][id] = rows[r][id]]
            /\ Reconnect(Registry(on[r], id), rows[r][id])
    /\ UNCHANGED <<world, stack, on, phase, rows, bounds>>

(* One turn of updateConnections' loop over the rows read. *)
UpdateRow(r, id) ==
    /\ Running(r) /\ phase[r] = "update" /\ id \in todo[r]
    /\ todo' = [todo EXCEPT ![r] = @ \ {id}]
    /\ IF servers[on[r]][id] = rows[r][id]
       THEN UNCHANGED <<servers, conns>>
       ELSE /\ servers' = [servers EXCEPT ![on[r]][id] = rows[r][id]]
            /\ Reconnect(Registry(on[r], id), rows[r][id])
    /\ UNCHANGED <<world, stack, on, phase, rows, bounds>>

(* The servers of the registry whose id the query did not return. *)
Vanished(r) == {id \in Ids : servers[on[r]][id] # NoRow /\ rows[r][id] = NoRow}

(* One turn of the loop that erases them: the ServerConn is deleted later. *)
EraseServer(r, id) ==
    /\ Running(r) /\ phase[r] = "update" /\ todo[r] = {} /\ id \in Vanished(r)
    /\ servers' = [servers EXCEPT ![on[r]][id] = NoRow]
    /\ mconn' = [mconn EXCEPT ![Doomed(r, id)] = mconn[Registry(on[r], id)],
                              ![Registry(on[r], id)] = Null]
    /\ UNCHANGED <<world, virConn, stack, on, phase, rows, todo, bounds>>

(* updateConnections and Auto return, the controller's handler runs. *)
StartAction(r) ==
    /\ Running(r) /\ phase[r] = "update" /\ todo[r] = {} /\ Vanished(r) = {}
    /\ Goto(r, "action")
    /\ UNCHANGED <<world, conns, servers, stack, on, rows, todo, bounds>>

(* The ServerConns a handler erased go with their Connections when control  *)
(* is back in the event loop the handler was called from.                   *)
DeleteLater(r, id) ==
    /\ phase[r] \in {"idle", "socket"}
    /\ mconn[Doomed(r, id)] # Null
    /\ virConn' = Release(virConn, mconn[Doomed(r, id)])
    /\ mconn' = [mconn EXCEPT ![Doomed(r, id)] = Null]
    /\ UNCHANGED <<world, servers, stack, on, phase, rows, todo, bounds>>
-----------------------------------------------------------------------------
(* The handlers. *)

(* A page without libvirt, or an edit of the table that the database refused *)
(* (logged, the user is redirected all the same).                            *)
OtherPage(r) ==
    /\ Running(r) /\ phase[r] = "action"
    /\ Goto(r, "return")
    /\ UNCHANGED <<world, conns, servers, stack, on, rows, todo, bounds>>

WriteRow(r, id, row) ==
    /\ Running(r) /\ phase[r] = "action" /\ edits < MaxEdits
    /\ edits' = edits + 1
    /\ db' = [db EXCEPT ![id] = row]
    /\ Goto(r, "return")
    /\ UNCHANGED <<up, conns, servers, stack, on, rows, todo, outages, failures>>

(* INSERT without an id: SQLite takes one more than the largest in use, so  *)
(* the id of a deleted last row is given out again.                         *)
NextRowId(id) ==
    /\ \A i \in Ids : db[i] # NoRow => i < id
    /\ id > 1 => db[id - 1] # NoRow

CreateServer(r, id, cfg) == NextRowId(id) /\ WriteRow(r, id, cfg)
UpdateServer(r, id, cfg) == db[id] # NoRow /\ WriteRow(r, id, cfg)
DeleteServer(r, id) == db[id] # NoRow /\ WriteRow(r, id, NoRow)

(* The context of r gets a clone of the worker's connection to id. One that *)
(* is not alive is reconnected first; if the host is unreachable too, the   *)
(* registry keeps a Connection with a NULL m_conn and so does the clone.    *)
Borrow(r, id) ==
    LET entry == Registry(on[r], id)
        clone == Context(r, id)
        h     == mconn[entry]
        cfg   == servers[on[r]][id]
    IN  \/ /\ IsAlive(h)
           /\ virConn' = AddRef(virConn, h)
           /\ mconn' = [mconn EXCEPT ![clone] = h]
        \/ /\ ~IsAlive(h) /\ cfg \in up /\ FreeHandles # {}
           /\ virConn' = AddRef(Opened(Release(virConn, h), NewHandle, cfg), NewHandle)
           /\ mconn' = [mconn EXCEPT ![entry] = NewHandle, ![clone] = NewHandle]
        \/ /\ ~IsAlive(h) /\ cfg \notin up
           /\ virConn' = Release(virConn, h)
           /\ mconn' = [mconn EXCEPT ![entry] = Null]

(* The page of one host: Virtlyst::connection, which answers nullptr for an *)
(* unknown id and for a host that cannot be reached.                        *)
GetConnection(r, id) ==
    /\ Running(r) /\ phase[r] = "action"
    /\ IF servers[on[r]][id] = NoRow THEN UNCHANGED conns ELSE Borrow(r, id)
    /\ Goto(r, IF mconn'[Context(r, id)] = Null THEN "return" ELSE "using")
    /\ UNCHANGED <<world, servers, stack, on, rows, todo, bounds>>

(* The list of hosts: Virtlyst::servers, one turn of its loop per entry.    *)
ListServers(r) ==
    /\ Running(r) /\ phase[r] = "action"
    /\ todo' = [todo EXCEPT ![r] = {id \in Ids : servers[on[r]][id] # NoRow}]
    /\ Goto(r, "listing")
    /\ UNCHANGED <<world, conns, servers, stack, on, rows, bounds>>

ListServer(r, id) ==
    /\ Running(r) /\ phase[r] = "listing" /\ id \in todo[r]
    /\ todo' = [todo EXCEPT ![r] = @ \ {id}]
    /\ Borrow(r, id)
    /\ UNCHANGED <<world, servers, stack, on, phase, rows, bounds>>

ServersListed(r) ==
    /\ Running(r) /\ phase[r] = "listing" /\ todo[r] = {}
    /\ Goto(r, "return")
    /\ UNCHANGED <<world, conns, servers, stack, on, rows, todo, bounds>>

(* Any libvirt call on a broken link makes libvirt notice. *)
Held(r) == {mconn[Context(r, id)] : id \in Ids} \ {Null}
Noticed(vc, hs) ==
    [h \in Handles |-> IF h \in hs /\ vc[h].link = "broken"
                       THEN [vc[h] EXCEPT !.link = "dead"]
                       ELSE vc[h]]

CallLibvirt(r) ==
    /\ Running(r) /\ phase[r] = "using"
    /\ virConn' = Noticed(virConn, Held(r))
    /\ Goto(r, "served")
    /\ UNCHANGED <<world, mconn, servers, stack, on, rows, todo, bounds>>

(* Most handlers render and return; the usage handlers wait a second in a   *)
(* nested event loop and call libvirt again; Ws::index returns with the     *)
(* websocket open.                                                          *)
Respond(r) ==
    /\ Running(r) /\ phase[r] = "served"
    /\ Goto(r, "return")
    /\ UNCHANGED <<world, conns, servers, stack, on, rows, todo, bounds>>

EnterNestedLoop(r) ==
    /\ Running(r) /\ phase[r] = "served"
    /\ Goto(r, "nested")
    /\ UNCHANGED <<world, conns, servers, stack, on, rows, todo, bounds>>

TimerFires_OnlyInnermost(r) ==
    /\ phase[r] = "nested" /\ Running(r)
    /\ Goto(r, "expired")
    /\ UNCHANGED <<world, conns, servers, stack, on, rows, todo, bounds>>

(* The single-shot timer quits the loop; the handler goes on once it is the *)
(* innermost one.                                                           *)
TimerFires(r) ==
    /\ phase[r] = "nested"
    /\ Goto(r, "expired")
    /\ UNCHANGED <<world, conns, servers, stack, on, rows, todo, bounds>>

LeaveNestedLoop(r) ==
    /\ Running(r) /\ phase[r] = "expired"
    /\ virConn' = Noticed(virConn, Held(r))
    /\ Goto(r, "return")
    /\ UNCHANGED <<world, mconn, servers, stack, on, rows, todo, bounds>>

KeepWebSocket(r) ==
    /\ Running(r) /\ phase[r] = "served"
    /\ Pop(on[r])
    /\ Goto(r, "socket")
    /\ UNCHANGED <<world, conns, servers, on, rows, todo, bounds>>

WebSocketCloses(r) ==
    /\ phase[r] = "socket" /\ Dispatching(on[r])
    /\ Push(on[r], r)
    /\ Goto(r, "return")
    /\ UNCHANGED <<world, conns, servers, on, rows, todo, bounds>>

(* ~Context deletes its children, the clones among them. *)
DeleteClone(r, id) ==
    /\ Running(r) /\ phase[r] = "return"
    /\ mconn[Context(r, id)] # Null
    /\ virConn' = Release(virConn, mconn[Context(r, id)])
    /\ mconn' = [mconn EXCEPT ![Context(r, id)] = Null]
    /\ UNCHANGED <<world, servers, stack, on, phase, rows, todo, bounds>>

Finish(r) ==
    /\ Running(r) /\ phase[r] = "return" /\ Held(r) = {}
    /\ Pop(on[r])
    /\ Goto(r, "idle")
    /\ rows' = [rows EXCEPT ![r] = NoRows]
    /\ UNCHANGED <<world, conns, servers, on, todo, bounds>>
-----------------------------------------------------------------------------
(* The hosts. When one goes down its connections break, unnoticed. *)
HostDown(cfg) ==
    /\ cfg \in up /\ outages < MaxOutages
    /\ outages' = outages + 1
    /\ up' = up \ {cfg}
    /\ virConn' = [h \in Handles |->
                     IF virConn[h].peer = cfg /\ virConn[h].link = "ok"
                     THEN [virConn[h] EXCEPT !.link = "broken"]
                     ELSE virConn[h]]
    /\ UNCHANGED <<db, mconn, servers, stack, on, phase, rows, todo, edits, failures>>

HostUp(cfg) ==
    /\ cfg \in Configs \ up
    /\ up' = up \cup {cfg}
    /\ UNCHANGED <<db, conns, servers, stack, on, phase, rows, todo, bounds>>
-----------------------------------------------------------------------------
Init ==
    /\ db \in [Ids -> Row]
    /\ up = Configs
    /\ virConn = [h \in Handles |-> Closed]
    /\ servers = [w \in Workers |-> NoRows]
    /\ mconn = [o \in Owners |-> Null]
    /\ stack = [w \in Workers |-> <<>>]
    /\ on \in [Requests -> Workers]
    /\ phase = [r \in Requests |-> "idle"]
    /\ rows = [r \in Requests |-> NoRows]
    /\ todo = [r \in Requests |-> {}]
    /\ edits = 0 /\ outages = 0 /\ failures = 0

(* What the handler of request r does next on its worker's thread. *)
Step(r) ==
    \/ StartAction(r) \/ OtherPage(r) \/ ListServers(r) \/ ServersListed(r)
    \/ CallLibvirt(r) \/ Respond(r) \/ EnterNestedLoop(r) \/ LeaveNestedLoop(r)
    \/ KeepWebSocket(r) \/ Finish(r)
    \/ \E id \in Ids :
          \/ UpdateRow(r, id) \/ EraseServer(r, id)
          \/ DeleteServer(r, id)
          \/ \E cfg \in Configs : CreateServer(r, id, cfg) \/ UpdateServer(r, id, cfg)
          \/ GetConnection(r, id) \/ ListServer(r, id) \/ DeleteClone(r, id)

Next ==
    \/ \E r \in Requests :
          \/ \E w \in Workers : Arrive(w, r)
          \/ Step(r)
          \/ TimerFires(r)
          \/ WebSocketCloses(r)
          \/ \E id \in Ids : DeleteLater(r, id)
    \/ \E cfg \in Configs : HostDown(cfg) \/ HostUp(cfg)

(* The threads run, timers fire and posted deletions are carried out. No    *)
(* request, edit, outage or repair has to happen, and no websocket to close.*)
Fairness ==
    \A r \in Requests :
        /\ WF_vars(Step(r))
        /\ WF_vars(TimerFires(r))
        /\ \A id \in Ids : WF_vars(DeleteLater(r, id))

Spec == Init /\ [][Next]_vars
FairSpec == Spec /\ Fairness
-----------------------------------------------------------------------------
TypeOK ==
    /\ db \in [Ids -> Row]
    /\ up \subseteq Configs
    /\ virConn \in [Handles -> [refs : Nat, peer : Row, link : Links]]
    /\ servers \in [Workers -> [Ids -> Row]]
    /\ mconn \in [Owners -> Pointer]
    /\ stack \in [Workers -> Seq(Requests)]
    /\ on \in [Requests -> Workers]
    /\ phase \in [Requests -> Phases]
    /\ rows \in [Requests -> [Ids -> Row]]
    /\ todo \in [Requests -> SUBSET Ids]
    /\ edits \in 0..MaxEdits /\ outages \in 0..MaxOutages /\ failures \in 0..MaxFailures

Holders(h) == {o \in Owners : mconn[o] = h}

(* Every virConnectPtr has exactly one reference per Connection object that *)
(* points to it, whichever of registry, context or pending deletion owns    *)
(* the object: none is closed while somebody can still use it, and none     *)
(* stays open once nobody can (connection.cpp:79-113, virtlyst.cpp:167-184, *)
(* 262, 324, 431-435).                                                      *)
RefCountExact == \A h \in Handles : virConn[h].refs = Cardinality(Holders(h))

(* A clone points, until its context is gone, to an open connection to the  *)
(* host that was configured for that id when the request arrived: editing,  *)
(* deleting, reconnecting and id reuse by requests served while it waits    *)
(* never close or retarget it (instances keep their host in info.cpp and    *)
(* ws.cpp although the registry moves on).                                  *)
ClonesKeepTheirHost ==
    \A r \in Requests, id \in Ids :
        LET h == mconn[Context(r, id)]
        IN  h # Null => /\ virConn[h].refs > 0
                        /\ virConn[h].peer = rows[r][id]

(* While a handler runs, its worker's registry holds exactly the rows its   *)
(* request read: no host deleted from the table can be looked up any more,  *)
(* none is missing, and none is connected elsewhere than its row says,      *)
(* although the registry was filled, emptied by failed queries and reused   *)
(* by other requests before (root.cpp:98, virtlyst.cpp:256-262, 321-329).   *)
RegistryIsSnapshot ==
    \A r \in Requests : phase[r] \in {"action", "listing", "using", "served"} =>
        /\ servers[on[r]] = rows[r]
        /\ \A id \in Ids :
              LET h == mconn[Registry(on[r], id)]
              IN  h # Null => virConn[h].peer = rows[r][id]

(* Every request gets its answer or its websocket: no handler is left       *)
(* waiting, however the requests on its worker nest.                        *)
RequestsComplete ==
    \A r \in Requests : phase[r] # "idle" ~> phase[r] \in {"idle", "socket"}

(* A host that keeps being asked for ends up with a working connection in   *)
(* the worker's registry, to what its row says, once edits and outages have *)
(* stopped: the request that runs into a broken link makes libvirt notice,  *)
(* and a later one reconnects (connection.cpp:194-202, virtlyst.cpp:169-178)*)
Healthy(w, id) ==
    LET h == mconn[Registry(w, id)]
    IN  db[id] \in up => h # Null /\ virConn[h].peer = db[id] /\ virConn[h].link = "ok"
HostsRecover ==
    \A w \in Workers, r \in Requests, id \in Ids :
        []<><<on[r] = w /\ GetConnection(r, id)>>_vars => <>[]Healthy(w, id)

(* A worker that keeps serving requests ends up with exactly the hosts of   *)
(* the table and connected to no other, although every request refreshes    *)
(* only its own worker's registry, another worker may have given a host's   *)
(* id to a new one meanwhile, and a failed query empties the registry       *)
(* (virtlyst.cpp:237-330).                                                  *)
Current(w, id) ==
    LET h == mconn[Registry(w, id)]
    IN  servers[w][id] = db[id] /\ (h # Null => virConn[h].peer = db[id])
RegistriesConverge ==
    \A w \in Workers :
        []<>(\E r \in Requests : on[r] = w /\ phase[r] = "update")
            => <>[](\A id \in Ids : Current(w, id))

(* The registry implements HostLeases: caching, reconnecting and counting   *)
(* references are invisible to requests. A clone whose virConnectPtr was    *)
(* closed under it would be a revoked lease, which HostLeases has not.      *)
LeaseOf(r, id) ==
    LET h == mconn[Context(r, id)]
    IN  IF h = Null THEN NoRow
        ELSE IF virConn[h].refs = 0 THEN "revoked" ELSE virConn[h].peer
Leases == INSTANCE HostLeases WITH
    table <- db, read <- rows,
    lease <- [r \in Requests |-> [id \in Ids |-> LeaseOf(r, id)]]
ImplementsLeases == Leases!Spec
=============================================================================
