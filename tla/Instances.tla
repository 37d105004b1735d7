------------------------------ MODULE Instances ------------------------------
(***************************************************************************)
(* What the instance pages do to one libvirt domain (Instances::index,     *)
(* Instances::instance, Domain, DomainSnapshot and StorageVol).            *)
(*                                                                         *)
(* A handler is a sequence of libvirt calls whose results it mostly        *)
(* ignores.  Handlers of different workers, and other clients of libvirt,  *)
(* interleave between the calls, so what a handler read may be stale when  *)
(* it uses it: the status before a deletion, the XML before a redefinition.*)
(*                                                                         *)
(* A definition of the domain is abstracted to the four parts that the     *)
(* pages change separately; the value of a part is the request that last   *)
(* wrote it, Original, Empty for the medium of an ejected CD drive, or     *)
(* Absent where the XML has no such element: createDomain writes no        *)
(* description, and a domain may be without graphics or CD drive.          *)
(*                                                                         *)
(* A definition named X_Something next to X is X with a fault: it is not   *)
(* part of the specification, it serves to see that the properties notice. *)
(***************************************************************************)
EXTENDS Naturals, FiniteSets

CONSTANTS
    Requests,     \* the requests that may be served at the same time
    Disks,        \* the storage volumes the domain's disks are on
    Files,        \* those whose disk names a file, not a block or network device
    Missing,      \* which parts may be missing from the domain's definition
    Original, Empty, Absent,
    None,         \* no definition, no snapshot, no such domain
    MaxRequests   \* bound: how many requests there are in all

ASSUME InstancesAssumption ==
    /\ MaxRequests \in Nat
    /\ IsFiniteSet(Disks) /\ Files \subseteq Disks
    /\ {Original, Empty, Absent} \cap Requests = {}
    /\ Original # Empty /\ Original # Absent /\ Empty # Absent
    /\ None \notin Requests \cup {Original, Empty, Absent}
    /\ \A parts \in Missing : "settings" \notin parts

Parts == {"description", "settings", "console", "media"}
Values == Requests \cup {Original, Empty, Absent}
Definition == [Parts -> Values]
NoDefinition == [p \in {} |-> Original]
MaybeDefinition == Definition \cup {NoDefinition}

RunStates == {"off", "running", "paused"}
Snapshot == [run : RunStates, def : Definition]

VARIABLES
    (* libvirt *)
    run,        \* the state of the domain
    def,        \* its persistent definition
    live,       \* the definition of the running domain
    saved,      \* its managed save image
    snap,       \* its snapshot
    vols,       \* the volumes that exist
    (* the requests *)
    phase,      \* the next libvirt call of each request
    op,         \* the operation the request asks for
    xml,        \* Domain::m_xml
    status,     \* Domain::m_info.state, once read
    todo,       \* the disks whose volumes are to be deleted
    requests,   \* how many requests there were
    (* what happened to them, for the properties alone *)
    quiet,      \* of a deletion: nobody else has changed the domain since it began
    moved,      \* of an edit: the parts changed by others since, or live and defined apart
    refused     \* of a deletion: the calls that libvirt refused, the volumes it kept

libvirt == <<run, def, live, saved, snap, vols>>
handler == <<op, xml, status, todo>>
history == <<quiet, moved, refused>>
vars == <<libvirt, phase, handler, requests, history>>

Powers == {"start", "shutdown", "destroy", "managedsave", "deletesaveimage",
           "suspend", "resume"}
Snapshots == {"snapshot", "revert_snapshot", "delete_snapshot"}
Edits == {"change_settings", "set_console", "change_xml"}
Media == {"mount_iso", "umount_iso"}
Deletions == {"delete", "delete_disk"}
Operations == Powers \cup Snapshots \cup Edits \cup Media \cup Deletions

PartsOf(o) == CASE o = "change_settings" -> {"description", "settings"}
                [] o = "change_xml" -> {"description"}
                [] o = "set_console" -> {"console"}
                [] OTHER -> {"media"}

(* The parts in which two definitions differ                                *)
Part(d, p) == IF d = NoDefinition THEN None ELSE d[p]
Differ(d, e) == {p \in Parts : Part(d, p) # Part(e, p)}

Phases == {"idle", "call", "read", "write", "status", "destroy", "disks",
           "volumes", "undefine", "done"}
-----------------------------------------------------------------------------
(* libvirt's calls. A call that libvirt refuses, because of the state the   *)
(* domain is in or for a reason of its own, changes nothing.                *)
Active == run # "off"
Persistent == def # NoDefinition
Exists == Active \/ Persistent

(* virDomainGetXMLDesc without VIR_DOMAIN_XML_INACTIVE *)
CurrentXml == IF Active THEN live ELSE def

virDomainCreate ==
    IF Persistent /\ ~Active /\ Disks \subseteq vols
    THEN /\ run' = "running"
         /\ live' = IF saved # NoDefinition THEN saved ELSE def
         /\ saved' = NoDefinition
         /\ UNCHANGED <<def, snap, vols>>
    ELSE UNCHANGED libvirt

(* virDomainDestroy, and a guest that shuts down *)
Stop ==
    /\ run' = "off" /\ live' = NoDefinition
    /\ UNCHANGED <<def, saved, snap, vols>>

virDomainManagedSave ==
    IF Persistent /\ Active
    THEN /\ saved' = live
         /\ run' = "off" /\ live' = NoDefinition
         /\ UNCHANGED <<def, snap, vols>>
    ELSE UNCHANGED libvirt

virDomainManagedSaveRemove ==
    saved' = NoDefinition /\ UNCHANGED <<run, def, live, snap, vols>>

SetRun(from, to) ==
    /\ run' = IF run = from THEN to ELSE run
    /\ UNCHANGED <<def, live, saved, snap, vols>>

(* A domain with a managed save image, or inactive with snapshots, is not   *)
(* undefined; an active one goes on without a persistent definition.        *)
virDomainUndefine ==
    IF Persistent /\ saved = NoDefinition /\ (Active \/ snap = None)
    THEN def' = NoDefinition /\ UNCHANGED <<run, live, saved, snap, vols>>
    ELSE UNCHANGED libvirt

(* Defining the domain of a uuid that is gone makes a new one.              *)
virDomainDefineXML(d) ==
    IF d # NoDefinition
    THEN def' = d /\ UNCHANGED <<run, live, saved, snap, vols>>
    ELSE UNCHANGED libvirt

(* virDomainUpdateDeviceFlags of the CD drive with VIR_DOMAIN_AFFECT_CONFIG *)
virDomainUpdateDeviceFlags(medium) ==
    IF Persistent /\ def["media"] # Absent
    THEN def' = [def EXCEPT !["media"] = medium]
         /\ UNCHANGED <<run, live, saved, snap, vols>>
    ELSE UNCHANGED libvirt

virDomainSnapshotCreateXML ==
    /\ snap' = IF Exists /\ snap = None THEN [run |-> run, def |-> CurrentXml] ELSE snap
    /\ UNCHANGED <<run, def, live, saved, vols>>

virDomainRevertToSnapshot ==
    IF snap # None /\ Persistent
    THEN /\ run' = snap.run
         /\ def' = snap.def
         /\ live' = IF snap.run = "off" THEN NoDefinition ELSE snap.def
         /\ UNCHANGED <<saved, snap, vols>>
    ELSE UNCHANGED libvirt

virDomainSnapshotDelete ==
    snap' = None /\ UNCHANGED <<run, def, live, saved, vols>>

virStorageVolDelete(v) ==
    vols' = vols \ {v} /\ UNCHANGED <<run, def, live, saved, snap>>
-----------------------------------------------------------------------------
Init ==
    /\ run \in RunStates
    /\ \E parts \in Missing \cup {{}} :
          def = [p \in Parts |-> IF p \in parts THEN Absent ELSE Original]
    /\ live = IF run = "off" THEN NoDefinition ELSE def
    /\ saved = NoDefinition /\ snap = None /\ vols = Disks
    /\ phase = [r \in Requests |-> "idle"]
    /\ op = [r \in Requests |-> None]
    /\ xml = [r \in Requests |-> NoDefinition]
    /\ status = [r \in Requests |-> None]
    /\ todo = [r \in Requests |-> {}]
    /\ requests = 0
    /\ quiet = [r \in Requests |-> FALSE]
    /\ moved = [r \in Requests |-> {}]
    /\ refused = [r \in Requests |-> {}]

Goto(r, p) == phase' = [phase EXCEPT ![r] = p]

(* A step of the requests rs, of one or of none, disturbs all others if it  *)
(* changes the domain.                                                      *)
Disturb(rs) ==
    /\ quiet' = [q \in Requests |-> quiet[q] /\ (q \in rs \/ libvirt' = libvirt)]
    /\ moved' = [q \in Requests |->
          IF q \in rs \/ phase[q] \notin {"read", "write"} THEN {}
          ELSE moved[q] \cup Differ(def, def') \cup Differ(def', CurrentXml')]

(* A call of request r: what it does, or nothing since libvirt refuses it.  *)
Try(r, call, Effect) ==
    \/ Effect /\ UNCHANGED refused
    \/ UNCHANGED libvirt /\ refused' = [refused EXCEPT ![r] = @ \cup {call}]

FirstPhase(o) ==
    CASE o \in {"change_settings", "set_console"} \cup Media -> "read"
      [] o = "change_xml" -> "write"
      [] o \in Deletions -> "status"
      [] OTHER -> "call"

(* getDomainByName finds the domain: the request has a Domain object whose  *)
(* m_xml is null and whose m_gotInfo is false.  The text of change_xml is   *)
(* the XML the page showed, edited.                                         *)
Begin(r, o) ==
    /\ phase[r] = "idle" /\ requests < MaxRequests
    /\ requests' = requests + 1
    /\ Exists
    /\ Goto(r, FirstPhase(o))
    /\ op' = [op EXCEPT ![r] = o]
    /\ xml' = [xml EXCEPT ![r] = IF o = "change_xml" THEN CurrentXml ELSE xml[r]]
    /\ quiet' = [quiet EXCEPT ![r] = o \in Deletions]
    /\ moved' = [moved EXCEPT ![r] = IF o \in Edits \cup Media THEN Differ(def, CurrentXml)
                                    ELSE {}]
    /\ UNCHANGED <<libvirt, status, todo, refused>>

(* Instances::index and Instances::instance                                 *)
PostList(r) == \E o \in Powers : Begin(r, o)
PostInstance(r) == \E o \in Operations : Begin(r, o)

(* The operations that are one libvirt call.                                *)
Call(r) ==
    /\ phase[r] = "call"
    /\ Goto(r, "done")
    /\ \/ UNCHANGED libvirt
       \/ CASE op[r] = "start"           -> virDomainCreate
            [] op[r] = "shutdown"        -> UNCHANGED libvirt
            [] op[r] = "destroy"         -> IF Active THEN Stop ELSE UNCHANGED libvirt
            [] op[r] = "managedsave"     -> virDomainManagedSave
            [] op[r] = "deletesaveimage" -> virDomainManagedSaveRemove
            [] op[r] = "suspend"         -> SetRun("running", "paused")
            [] op[r] = "resume"          -> SetRun("paused", "running")
            [] op[r] = "snapshot"        -> virDomainSnapshotCreateXML
            [] op[r] = "revert_snapshot" -> virDomainRevertToSnapshot
            [] op[r] = "delete_snapshot" -> virDomainSnapshotDelete
    /\ Disturb({r})
    /\ UNCHANGED <<handler, requests, refused>>

(* Domain::xmlDoc: read once, then from the cache; reading it may fail      *)
LoadXml(r) ==
    \E doc \in {CurrentXml, NoDefinition} :
        xml' = [xml EXCEPT ![r] = IF xml[r] = NoDefinition THEN doc ELSE xml[r]]

ReadXml(r) ==
    /\ phase[r] = "read"
    /\ LoadXml(r)
    /\ Goto(r, "write")
    /\ UNCHANGED <<libvirt, op, status, todo, requests, history>>

(* Domain::setDescription to setCurrentVcpu, setConsolePassword, -Keymap    *)
(* and -Type, on the cached document: nothing if it could not be read, and  *)
(* an element it does not have is not made.  A description may be given or  *)
(* left empty, which is as good as none; the text of change_xml has the     *)
(* elements its author wants.                                               *)
Edited(r, description) ==
    IF xml[r] = NoDefinition THEN NoDefinition
    ELSE [p \in Parts |->
            IF \/ p \notin PartsOf(op[r])
               \/ xml[r][p] = Absent /\ op[r] # "change_xml" THEN xml[r][p]
            ELSE IF p = "description" THEN description ELSE r]

(* Domain::saveXml, Connection::domainDefineXml: libvirt may refuse the XML *)
SaveXml(r) ==
    /\ phase[r] = "write" /\ op[r] \in Edits
    /\ \/ UNCHANGED libvirt
       \/ \E description \in {r, Absent} : virDomainDefineXML(Edited(r, description))
    /\ xml' = [xml EXCEPT ![r] = NoDefinition]
    /\ Goto(r, "done")
    /\ Disturb({r})
    /\ UNCHANGED <<op, status, todo, requests, refused>>

(* Domain::mountIso, Domain::umountIso of the image the page showed, if the *)
(* XML has the drive                                                        *)
MountIso(r) ==
    /\ phase[r] = "write" /\ op[r] = "mount_iso"
    /\ IF xml[r] # NoDefinition /\ xml[r]["media"] # Absent
       THEN /\ virDomainUpdateDeviceFlags(r) \/ UNCHANGED libvirt
            /\ xml' = [xml EXCEPT ![r] = NoDefinition]
       ELSE UNCHANGED <<libvirt, xml>>
    /\ Goto(r, "done")
    /\ Disturb({r})
    /\ UNCHANGED <<op, status, todo, requests, refused>>

UmountIso(r) ==
    /\ phase[r] = "write" /\ op[r] = "umount_iso"
    /\ \E image \in Requests \cup {Original, Empty} :
        IF xml[r] # NoDefinition /\ xml[r]["media"] = image
        THEN /\ virDomainUpdateDeviceFlags(Empty) \/ UNCHANGED libvirt
             /\ xml' = [xml EXCEPT ![r] = NoDefinition]
        ELSE UNCHANGED <<libvirt, xml>>
    /\ Goto(r, "done")
    /\ Disturb({r})
    /\ UNCHANGED <<op, status, todo, requests, refused>>

(* The deletion: Domain::status, destroy, disks, StorageVol::undefine,      *)
(* Domain::undefine                                                         *)
AfterStatus(state) == IF state = "running" THEN "destroy" ELSE "disks"

ReadStatus(r) ==
    /\ phase[r] = "status"
    /\ \E state \in {IF Exists THEN run ELSE "unknown", "unknown"} :
        /\ status' = [status EXCEPT ![r] = state]
        /\ Goto(r, AfterStatus(state))
    /\ UNCHANGED <<libvirt, op, xml, todo, requests, history>>

DestroyFirst(r) ==
    /\ phase[r] = "destroy"
    /\ IF Active THEN Try(r, "destroy", Stop) ELSE UNCHANGED <<libvirt, refused>>
    /\ Goto(r, "disks")
    /\ Disturb({r})
    /\ UNCHANGED <<handler, requests>>

(* All disks are listed, with an empty path where the source is no file.    *)
ListDisks(r) ==
    /\ phase[r] = "disks"
    /\ IF op[r] = "delete_disk"
       THEN /\ LoadXml(r)
            /\ todo' = [todo EXCEPT ![r] = IF xml'[r] = NoDefinition THEN {} ELSE Disks]
            /\ Goto(r, "volumes")
       ELSE Goto(r, "undefine") /\ UNCHANGED <<xml, todo>>
    /\ UNCHANGED <<libvirt, op, status, requests, history>>

DeleteVolume_OrStop(r) ==
    /\ phase[r] = "volumes"
    /\ \E v \in todo[r] :
          \/ /\ v \in Files
             /\ virStorageVolDelete(v)
             /\ todo' = [todo EXCEPT ![r] = @ \ {v}]
             /\ UNCHANGED refused
          \/ /\ UNCHANGED libvirt
             /\ todo' = [todo EXCEPT ![r] = {}]
             /\ refused' = [refused EXCEPT ![r] = @ \cup {v}]
    /\ Disturb({r})
    /\ UNCHANGED <<phase, op, xml, status, requests>>

(* getStorageVolByPath finds no volume for an empty path, and may find none *)
(* for another (its pool is stopped, or was not refreshed): the disk is     *)
(* passed over.  That libvirt refuses to delete a volume goes unnoticed.    *)
DeleteVolume(r) ==
    /\ phase[r] = "volumes"
    /\ \E v \in todo[r] :
        /\ Try(r, v, v \in Files /\ virStorageVolDelete(v))
        /\ todo' = [todo EXCEPT ![r] = @ \ {v}]
    /\ Disturb({r})
    /\ UNCHANGED <<phase, op, xml, status, requests>>

VolumesDeleted(r) ==
    /\ phase[r] = "volumes" /\ todo[r] = {}
    /\ Goto(r, "undefine")
    /\ UNCHANGED <<libvirt, handler, requests, history>>

Undefine(r) ==
    /\ phase[r] = "undefine"
    /\ Try(r, "undefine", virDomainUndefine)
    /\ Goto(r, "done")
    /\ Disturb({r})
    /\ UNCHANGED <<handler, requests>>

Forget_Nothing(r) == UNCHANGED <<op, xml, status, todo>>

(* The context is destroyed with its Domain object.                         *)
Forget(r) ==
    /\ op' = [op EXCEPT ![r] = None]
    /\ xml' = [xml EXCEPT ![r] = NoDefinition]
    /\ status' = [status EXCEPT ![r] = None]
    /\ todo' = [todo EXCEPT ![r] = {}]

Finish(r) ==
    /\ phase[r] = "done"
    /\ Goto(r, "idle")
    /\ Forget(r)
    /\ quiet' = [quiet EXCEPT ![r] = FALSE]
    /\ refused' = [refused EXCEPT ![r] = {}]
    /\ UNCHANGED <<libvirt, requests, moved>>

(* The guest shuts down, because it was asked to or by itself.              *)
GuestStops ==
    /\ Active /\ Stop
    /\ Disturb({})
    /\ UNCHANGED <<phase, handler, requests, refused>>

Step(r) ==
    \/ PostList(r) \/ PostInstance(r) \/ Call(r)
    \/ ReadXml(r) \/ SaveXml(r) \/ MountIso(r) \/ UmountIso(r)
    \/ ReadStatus(r) \/ DestroyFirst(r) \/ ListDisks(r) \/ DeleteVolume(r)
    \/ VolumesDeleted(r) \/ Undefine(r) \/ Finish(r)

Next == GuestStops \/ \E r \in Requests : Step(r)

Spec == Init /\ [][Next]_vars
-----------------------------------------------------------------------------

(* Whatever the requests do at the same time, an edit that is saved writes  *)
(* its own parts - the description or none, the rest unless the definition  *)
(* has no such element - and loses another's change to a part, or takes an  *)
(* older value of it into the definition, only if that part was changed by  *)
(* somebody since the request began, or was then or later one thing in the  *)
(* running domain and another in the persistent definition.  A domain that  *)
(* is gone comes back only if it went since then, or was never persistent.  *)
EditsCompose ==
    [][\A r \in Requests :
        phase[r] = "write" /\ phase'[r] = "done" /\ def' # def =>
        /\ \A p \in Parts \ PartsOf(op[r]) : Part(def', p) = Part(def, p) \/ p \in moved[r]
        /\ \A p \in PartsOf(op[r]) :
              \/ def'[p] = r
              \/ def'[p] = Empty /\ op[r] = "umount_iso"
              \/ def'[p] = Absent
                 /\ (p = "description" \/ Part(def, p) = Absent \/ p \in moved[r])]_vars

(* What a deletion leaves.  The volumes of the disks, if they were to be    *)
(* deleted and the XML could be read, but for those without a file, those   *)
(* no volume was found for, and those libvirt would not delete: whatever    *)
(* the others do, one of these does not save the volumes after it.  The     *)
(* definition, if libvirt refused to undefine it, as it does with snapshots *)
(* or a managed save image.  The running domain, if it was paused when its  *)
(* status was read, or the status could not be read, or libvirt refused to  *)
(* destroy it, or somebody changed the domain in between.                   *)
DeletionIsComplete ==
    [][\A r \in Requests :
        phase[r] = "undefine" /\ phase'[r] = "done" =>
        /\ op[r] = "delete_disk" /\ xml[r] # NoDefinition => vols \subseteq refused[r]
        /\ Persistent' => "undefine" \in refused'[r] \/ snap # None \/ saved # NoDefinition
        /\ Active' => \/ status[r] \in {"paused", "unknown"}
                      \/ "destroy" \in refused[r]
                      \/ ~quiet[r]]_vars
=============================================================================
