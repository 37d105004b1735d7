----------------------------- MODULE Provisioning -----------------------------
(***************************************************************************)
(* How domains, storage pools and volumes come into being on one host:     *)
(* Create::index and Connection::createDomain, Storages::index and         *)
(* Connection::createStoragePool*, Storages::storage, StoragePool and      *)
(* StorageVol.                                                             *)
(*                                                                         *)
(* A creation is a sequence of libvirt calls, each of which libvirt may    *)
(* refuse, and nothing is undone when a later one is.  The requests of     *)
(* several workers interleave between the calls; the operations of the     *)
(* page of one pool are single calls.                                      *)
(*                                                                         *)
(* A volume is known by its path, <<pool, name>>.                          *)
(*                                                                         *)
(* A definition named X_Something next to X is X with a fault: it is not   *)
(* part of the specification, it serves to see that the properties notice. *)
(***************************************************************************)
EXTENDS Naturals, FiniteSets

CONSTANTS
    Requests,      \* the requests that may be served at the same time
    Pools,         \* names of storage pools
    Logical,       \* those of type logical: they are built before they start
    Names,         \* names of domains and volumes
    Posted(_),     \* bound: which of the forms are posted
    None,          \* no domain, no form
    MaxRequests,   \* bound: how many requests there are in all
    MaxChanges     \* bound: how often something else changes the host

Paths == Pools \X Names
Given == 0                          \* the uuid an XML may carry
Uuids == {Given} \cup 1..MaxRequests    \* and those made for a request
Domain == [uuid : Uuids, disks : SUBSET Paths, picked : BOOLEAN]

(* What is posted: a domain on a new volume of a pool, on a clone of a      *)
(* template, or on existing images; a domain's XML; a pool.                 *)
NewVolume == [op : {"new"}, name : Names, pool : Pools]
Template == [op : {"template"}, name : Names, template : Paths]
Images == [op : {"images"}, name : Names, images : SUBSET Paths]
Xml == [op : {"create_xml"}, name : Names, given : BOOLEAN, disks : SUBSET Paths]
NewPool == [op : {"create_pool"}, pool : Pools]
Forms == NewVolume \cup Template \cup Images \cup Xml \cup NewPool

ASSUME ProvisioningAssumption ==
    /\ Logical \subseteq Pools
    /\ MaxRequests \in Nat /\ MaxChanges \in Nat
    /\ None \notin Domain /\ None \notin Forms

VARIABLES
    (* libvirt *)
    pool,       \* each pool: "none", "off" or "on"
    built,      \* the logical pools that were built
    autostart,  \* the pools that start with the host
    vols,       \* the volumes in the pools, whether on or off
    doms,       \* the domains by name. picked: somebody chose its disks
    (* the requests *)
    phase,      \* the next step of each request
    form,       \* what was posted
    id,         \* its number
    todo,       \* the images that are still to be looked up
    images,     \* the volumes that have been found or made for it
    listed,     \* the names conn->domains() returned
    failed,     \* it has errors to show, or createStoragePool returned false
    fault,      \* libvirt refused one of its calls without a reason modelled here
    quiet,      \* nobody else has changed the host since it began
    requests, changes

libvirt == <<pool, built, autostart, vols, doms>>
handler == <<form, id, todo, images, listed>>
vars == <<libvirt, phase, handler, failed, fault, quiet, requests, changes>>

Phases == {"idle", "volume", "lookup", "define", "xml",
           "pool", "build", "start", "autostart", "done"}

Goto(r, p) == phase' = [phase EXCEPT ![r] = p]
Disturb(r) ==
    quiet' = [q \in Requests |-> quiet[q] /\ (q = r \/ libvirt' = libvirt)]

(* The volumes libvirt finds.                                               *)
Visible == {path \in vols : pool[path[1]] = "on"}

(* virDomainDefineXML: the uuid of a known domain and another name, or its  *)
(* name and another uuid, are refused.                                      *)
Definable(name, uuid) ==
    IF doms[name] # None THEN doms[name].uuid = uuid
    ELSE \A other \in Names : doms[other] = None \/ doms[other].uuid # uuid
-----------------------------------------------------------------------------
Init ==
    /\ pool \in [Pools -> {"none", "off", "on"}]
    /\ built = {p \in Logical : pool[p] # "none"}
    /\ autostart = {p \in Pools : pool[p] # "none"}
    /\ vols \in SUBSET {path \in Paths : pool[path[1]] # "none"}
    /\ doms = [n \in Names |-> None]
    /\ phase = [r \in Requests |-> "idle"]
    /\ form = [r \in Requests |-> None]
    /\ id = [r \in Requests |-> 0]
    /\ todo = [r \in Requests |-> {}] /\ images = [r \in Requests |-> {}]
    /\ listed = [r \in Requests |-> {}]
    /\ failed = [r \in Requests |-> FALSE] /\ fault = [r \in Requests |-> FALSE]
    /\ quiet = [r \in Requests |-> FALSE]
    /\ requests = 0 /\ changes = 0

FirstPhase(f) ==
    CASE f.op \in {"new", "template"} -> "volume"
      [] f.op = "images" -> "lookup"
      [] f.op = "create_xml" -> "xml"
      [] f.op = "create_pool" -> "pool"

(* A form arrives; Create::index lists the domains.                         *)
Post(r, f) ==
    /\ phase[r] = "idle" /\ requests < MaxRequests
    /\ requests' = requests + 1
    /\ form' = [form EXCEPT ![r] = f]
    /\ id' = [id EXCEPT ![r] = requests + 1]
    /\ todo' = [todo EXCEPT ![r] = IF f.op = "images" THEN f.images ELSE {}]
    /\ listed' = [listed EXCEPT ![r] = {n \in Names : doms[n] # None}]
    /\ Goto(r, FirstPhase(f))
    /\ quiet' = [quiet EXCEPT ![r] = TRUE]
    /\ UNCHANGED <<libvirt, images, failed, fault, changes>>

(* The next call of r is refused for a reason of libvirt's own (no space,   *)
(* bad XML, no permission): what follows a refusal.                         *)
AfterRefusal(p) ==
    CASE p = "build" -> "start"
      [] p = "start" -> "autostart"
      [] OTHER -> "done"

Refused(r) ==
    /\ phase[r] \in {"volume", "define", "xml", "pool", "build", "start", "autostart"}
    /\ Goto(r, AfterRefusal(phase[r]))
    /\ fault' = [fault EXCEPT ![r] = TRUE]
    /\ failed' = [failed EXCEPT ![r] = @ \/ phase[r] \in {"volume", "define", "xml", "pool"}]
    /\ UNCHANGED <<libvirt, handler, quiet, requests, changes>>

NewPath_OneName(f) ==
    <<IF f.op = "new" THEN f.pool ELSE f.template[1], CHOOSE name \in Names : TRUE>>
(* The volume gets the name of the domain, in the pool that was chosen or   *)
(* in the one of the template.                                              *)
NewPath(f) == IF f.op = "new" THEN <<f.pool, f.name>> ELSE <<f.template[1], f.name>>

(* StoragePool::createStorageVolume, StorageVol::clone. A template that is  *)
(* not found is no error: the domain is created without it.                 *)
MakeVolume(r) ==
    LET f == form[r]
        path == NewPath(f)
    IN  /\ phase[r] = "volume"
        /\ IF f.op = "template" /\ f.template \notin Visible
           THEN Goto(r, "define") /\ UNCHANGED <<vols, images, failed>>
           ELSE IF pool[path[1]] # "on" \/ path \in vols
           THEN /\ Goto(r, "done")
                /\ failed' = [failed EXCEPT ![r] = TRUE]
                /\ UNCHANGED <<vols, images>>
           ELSE /\ Goto(r, "define")
                /\ vols' = vols \cup {path}
                /\ images' = [images EXCEPT ![r] = {path}]
                /\ UNCHANGED failed
        /\ UNCHANGED <<pool, built, autostart, doms>>
        /\ Disturb(r)
        /\ UNCHANGED <<form, id, todo, listed, fault, requests, changes>>

(* The images are looked up one by one; one that is not found is left out.  *)
LookUpImage(r) ==
    /\ phase[r] = "lookup"
    /\ \E path \in todo[r] :
        /\ todo' = [todo EXCEPT ![r] = @ \ {path}]
        /\ images' = [images EXCEPT ![r] = IF path \in Visible THEN @ \cup {path} ELSE @]
    /\ UNCHANGED <<libvirt, phase, form, id, listed, failed, fault, quiet, requests, changes>>

ImagesFound(r) ==
    /\ phase[r] = "lookup" /\ todo[r] = {}
    /\ Goto(r, "define")
    /\ UNCHANGED <<libvirt, handler, failed, fault, quiet, requests, changes>>

(* Connection::createDomain, with a new uuid                                *)
CreateDomain_Diskless(r) ==
    LET name == form[r].name IN
    /\ phase[r] = "define"
    /\ IF Definable(name, id[r])
       THEN /\ doms' = [doms EXCEPT ![name] = [uuid |-> id[r], disks |-> {},
                                               picked |-> form[r].op = "images"]]
            /\ UNCHANGED failed
       ELSE failed' = [failed EXCEPT ![r] = TRUE] /\ UNCHANGED doms
    /\ UNCHANGED <<pool, built, autostart, vols>>
    /\ Goto(r, "done")
    /\ Disturb(r)
    /\ UNCHANGED <<handler, fault, requests, changes>>

CreateDomain(r) ==
    LET name == form[r].name IN
    /\ phase[r] = "define"
    /\ IF Definable(name, id[r])
       THEN /\ doms' = [doms EXCEPT ![name] = [uuid |-> id[r], disks |-> images[r],
                                               picked |-> form[r].op = "images"]]
            /\ UNCHANGED failed
       ELSE failed' = [failed EXCEPT ![r] = TRUE] /\ UNCHANGED doms
    /\ UNCHANGED <<pool, built, autostart, vols>>
    /\ Goto(r, "done")
    /\ Disturb(r)
    /\ UNCHANGED <<handler, fault, requests, changes>>

(* create_xml, unless the name was listed                                   *)
CreateXml(r) ==
    LET f == form[r]
        uuid == IF f.given THEN Given ELSE id[r]
    IN  /\ phase[r] = "xml"
        /\ IF f.name \notin listed[r] /\ Definable(f.name, uuid)
           THEN /\ doms' = [doms EXCEPT ![f.name] =
                                [uuid |-> uuid, disks |-> f.disks, picked |-> TRUE]]
                /\ UNCHANGED failed
           ELSE failed' = [failed EXCEPT ![r] = TRUE] /\ UNCHANGED doms
        /\ UNCHANGED <<pool, built, autostart, vols>>
        /\ Goto(r, "done")
        /\ Disturb(r)
        /\ UNCHANGED <<handler, fault, requests, changes>>

(* Connection::createStoragePool, -Ceph, -NetFs                             *)
AfterDefinition_Start(p) == "start"
AfterDefinition(p) == IF p \in Logical THEN "build" ELSE "start"

DefinePool(r) ==
    LET p == form[r].pool IN
    /\ phase[r] = "pool"
    /\ IF pool[p] = "none"
       THEN /\ pool' = [pool EXCEPT ![p] = "off"]
            /\ Goto(r, AfterDefinition(p))
            /\ UNCHANGED failed
       ELSE /\ Goto(r, "done")
            /\ failed' = [failed EXCEPT ![r] = TRUE]
            /\ UNCHANGED pool
    /\ UNCHANGED <<built, autostart, vols, doms>>
    /\ Disturb(r)
    /\ UNCHANGED <<handler, fault, requests, changes>>

BuildPool(r) ==
    /\ phase[r] = "build"
    /\ built' = IF pool[form[r].pool] = "off" THEN built \cup {form[r].pool} ELSE built
    /\ UNCHANGED <<pool, autostart, vols, doms>>
    /\ Goto(r, "start")
    /\ Disturb(r)
    /\ UNCHANGED <<handler, failed, fault, requests, changes>>

(* virStoragePoolCreate                                                     *)
Startable(p) == pool[p] = "off" /\ (p \in Logical => p \in built)

StartNewPool(r) ==
    LET p == form[r].pool IN
    /\ phase[r] = "start"
    /\ pool' = IF Startable(p) THEN [pool EXCEPT ![p] = "on"] ELSE pool
    /\ UNCHANGED <<built, autostart, vols, doms>>
    /\ Goto(r, "autostart")
    /\ Disturb(r)
    /\ UNCHANGED <<handler, failed, fault, requests, changes>>

AutostartNewPool(r) ==
    LET p == form[r].pool IN
    /\ phase[r] = "autostart"
    /\ autostart' = IF pool[p] # "none" THEN autostart \cup {p} ELSE autostart
    /\ UNCHANGED <<pool, built, vols, doms>>
    /\ Goto(r, "done")
    /\ Disturb(r)
    /\ UNCHANGED <<handler, failed, fault, requests, changes>>

(* The response: a redirection, with the errors of Create::index.           *)
Finish(r) ==
    /\ phase[r] = "done"
    /\ Goto(r, "idle")
    /\ form' = [form EXCEPT ![r] = None]
    /\ id' = [id EXCEPT ![r] = 0]
    /\ images' = [images EXCEPT ![r] = {}] /\ listed' = [listed EXCEPT ![r] = {}]
    /\ failed' = [failed EXCEPT ![r] = FALSE] /\ fault' = [fault EXCEPT ![r] = FALSE]
    /\ quiet' = [quiet EXCEPT ![r] = FALSE]
    /\ UNCHANGED <<libvirt, todo, requests, changes>>

(* Storages::storage of pool p. A pool that is on is not undefined, and one *)
(* that is off has its volumes neither found nor changed. The volumes of a  *)
(* pool outlive its definition.                                             *)
PoolPage(p) ==
    /\ pool[p] # "none"
    /\ \/ /\ pool' = IF Startable(p) THEN [pool EXCEPT ![p] = "on"] ELSE pool
          /\ UNCHANGED <<built, autostart, vols>>
       \/ pool[p] = "on" /\ pool' = [pool EXCEPT ![p] = "off"] /\ UNCHANGED <<built, autostart, vols>>
       \/ /\ pool[p] = "off"
          /\ pool' = [pool EXCEPT ![p] = "none"] /\ autostart' = autostart \ {p}
          /\ UNCHANGED <<built, vols>>
       \/ autostart' \in {autostart \cup {p}, autostart \ {p}} /\ UNCHANGED <<pool, built, vols>>
       \/ /\ pool[p] = "on"      \* add_volume and cln_volume, del_volume
          /\ \E name \in Names : vols' \in {vols \cup {<<p, name>>}, vols \ {<<p, name>>}}
          /\ UNCHANGED <<pool, built, autostart>>
    /\ UNCHANGED doms

(* The page of a domain undefines it (see Instances).                       *)
UndefineDomain(name) ==
    /\ doms[name] # None
    /\ doms' = [doms EXCEPT ![name] = None]
    /\ UNCHANGED <<pool, built, autostart, vols>>

OtherPage ==
    /\ changes < MaxChanges
    /\ changes' = changes + 1
    /\ (\E p \in Pools : PoolPage(p)) \/ (\E name \in Names : UndefineDomain(name))
    /\ quiet' = [r \in Requests |-> quiet[r] /\ libvirt' = libvirt]
    /\ UNCHANGED <<phase, handler, failed, fault, requests>>

CreateStep(r) ==
    \/ MakeVolume(r) \/ LookUpImage(r) \/ ImagesFound(r)
    \/ CreateDomain(r) \/ CreateXml(r)
CreatePoolStep(r) ==
    DefinePool(r) \/ BuildPool(r) \/ StartNewPool(r) \/ AutostartNewPool(r)

Next ==
    \/ \E r \in Requests : \/ \E f \in Forms : Posted(f) /\ Post(r, f)
                           \/ CreateStep(r) \/ CreatePoolStep(r) \/ Refused(r) \/ Finish(r)
    \/ OtherPage

Spec == Init /\ [][Next]_vars
-----------------------------------------------------------------------------

(* Two domains never end up on the same disk unless somebody picked the     *)
(* disks of one of them, whatever was created, deleted and created again.   *)
NoAccidentalSharing ==
    \A m, n \in Names :
        m # n /\ doms[m] # None /\ doms[n] # None
              /\ ~doms[m].picked /\ ~doms[n].picked
        => doms[m].disks \cap doms[n].disks = {}

(* When the browser is sent to the new domain, undisturbed, the domain is   *)
(* there and has exactly the disks that were asked for, and they exist,     *)
(* provided that the template or the images do.                             *)
Asked(f) == IF f.op = "images" THEN f.images ELSE {NewPath(f)}
Needed(f) == CASE f.op = "new" -> {} [] f.op = "template" -> {f.template}
               [] f.op = "images" -> f.images
CreatedAsAsked ==
    \A r \in Requests :
        /\ phase[r] = "done" /\ quiet[r] /\ ~failed[r]
        /\ form[r].op \in {"new", "template", "images"}
        /\ Needed(form[r]) \subseteq Visible
        => /\ doms[form[r].name].uuid = id[r]
           /\ doms[form[r].name].disks = Asked(form[r])
           /\ Asked(form[r]) \subseteq Visible

(* A pool that was created, undisturbed and without a refusal, is on and    *)
(* starts with its host: what each of its steps needs has been done before. *)
PoolComesUp ==
    \A r \in Requests :
        /\ phase[r] = "done" /\ quiet[r] /\ ~failed[r] /\ ~fault[r]
        /\ form[r].op = "create_pool"
        => pool[form[r].pool] = "on" /\ form[r].pool \in autostart

=============================================================================
