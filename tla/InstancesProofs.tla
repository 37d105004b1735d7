--------------------------- MODULE InstancesProofs ---------------------------
(***************************************************************************)
(* Proofs about Instances, for any requests, disks, kinds of domains and   *)
(* number of requests: its types, what a deletion leaves, and that an edit *)
(* loses nothing but what overlapped with it.                              *)
(***************************************************************************)
EXTENDS Instances, TLAPS

(* A domain that is not active has no live definition.                      *)
LibvirtOK ==
    /\ run \in RunStates
    /\ def \in MaybeDefinition
    /\ live \in MaybeDefinition
    /\ saved \in MaybeDefinition
    /\ snap = None \/ snap \in Snapshot
    /\ vols \subseteq Disks
    /\ Active <=> live # NoDefinition

Refusals == Disks \cup {"destroy", "undefine"}

HandlersOK ==
    /\ phase \in [Requests -> Phases]
    /\ op \in [Requests -> Operations \cup {None}]
    /\ xml \in [Requests -> MaybeDefinition]
    /\ status \in [Requests -> RunStates \cup {"unknown", None}]
    /\ todo \in [Requests -> SUBSET Disks]
    /\ requests \in 0..MaxRequests
    /\ quiet \in [Requests -> BOOLEAN]
    /\ moved \in [Requests -> SUBSET Parts]
    /\ refused \in [Requests -> SUBSET Refusals]

(* Which operations take a request to a phase.                              *)
Way(r) ==
    /\ phase[r] = "call" => op[r] \in Powers \cup Snapshots
    /\ phase[r] = "read" => op[r] \in {"change_settings", "set_console"} \cup Media
    /\ phase[r] = "write" => op[r] \in Edits \cup Media
    /\ phase[r] \in {"status", "destroy", "disks", "volumes", "undefine"} => op[r] \in Deletions
    /\ phase[r] = "volumes" => op[r] = "delete_disk"
    /\ phase[r] \in {"idle", "read"} => xml[r] = NoDefinition

TypeInv == LibvirtOK /\ HandlersOK /\ \A r \in Requests : Way(r)

(* How far a deletion is: the volumes it has yet to come to or could not    *)
(* delete are all that is left; once it is past the destruction the domain  *)
(* is off, if nobody disturbed it.                                          *)
VolumesLeft(r) ==
    /\ phase[r] = "volumes" /\ xml[r] # NoDefinition => vols \subseteq todo[r] \cup refused[r]
    /\ phase[r] = "undefine" /\ op[r] = "delete_disk" /\ xml[r] # NoDefinition
          => vols \subseteq refused[r]
StoppedBefore(r) ==
    phase[r] \in {"disks", "volumes", "undefine"} /\ Active
    => \/ status[r] \in {"paused", "unknown"}
       \/ "destroy" \in refused[r]
       \/ ~quiet[r]

(* The XML an edit is about to write back differs from the persistent       *)
(* definition in nothing that did not move.                                 *)
XmlFresh(r) ==
    /\ phase[r] \in {"read", "write"} => Differ(def, CurrentXml) \subseteq moved[r]
    /\ phase[r] = "write" /\ xml[r] # NoDefinition => Differ(def, xml[r]) \subseteq moved[r]

Progress(r) == VolumesLeft(r) /\ StoppedBefore(r) /\ XmlFresh(r)

DInv == TypeInv /\ \A r \in Requests : Progress(r)
-----------------------------------------------------------------------------
(* A definition has all the parts, no definition has none.                  *)
LEMMA Definitions ==
    /\ NoDefinition \notin Definition /\ NoDefinition \in MaybeDefinition
    /\ \A d \in MaybeDefinition : d # NoDefinition => d \in Definition
    /\ \A d \in Definition : d \in MaybeDefinition
<1>1. ASSUME NoDefinition \in Definition PROVE FALSE
  <2>1. DOMAIN NoDefinition = {} BY DEF NoDefinition
  <2>2. DOMAIN NoDefinition = Parts BY <1>1 DEF Definition
  <2> QED BY <2>1, <2>2 DEF Parts
<1> QED BY <1>1 DEF MaybeDefinition

(* The current XML is there as long as the domain exists.                   *)
LEMMA CurrentXmlType ==
    ASSUME LibvirtOK
    PROVE  CurrentXml \in MaybeDefinition /\ (Exists <=> CurrentXml # NoDefinition)
BY DEF LibvirtOK, CurrentXml, Exists, Persistent

(* An edited document is a definition.                                      *)
LEMMA EditedType ==
    ASSUME HandlersOK, NEW r \in Requests, NEW description \in {r, Absent}
    PROVE  /\ Edited(r, description) \in MaybeDefinition
           /\ Edited(r, description) # NoDefinition => xml[r] # NoDefinition
<1>1. CASE xml[r] = NoDefinition BY <1>1, Definitions DEF Edited
<1>2. CASE xml[r] # NoDefinition
  <2>1. xml[r] \in Definition BY <1>2, Definitions DEF HandlersOK
  <2>2. \A p \in Parts : xml[r][p] \in Values /\ r \in Values /\ description \in Values
    BY <2>1 DEF Definition, Values
  <2>3. Edited(r, description) \in Definition BY <1>2, <2>2 DEF Edited, Definition
  <2> QED BY <1>2, <2>3, Definitions
<1> QED BY <1>1, <1>2

(* Every libvirt call keeps the domain well-formed, and makes no volume.    *)
LEMMA LibvirtCalls ==
    ASSUME LibvirtOK,
           \/ virDomainCreate \/ Stop \/ virDomainManagedSave
           \/ virDomainManagedSaveRemove \/ virDomainUndefine
           \/ SetRun("running", "paused") \/ SetRun("paused", "running")
           \/ \E d \in MaybeDefinition : virDomainDefineXML(d)
           \/ \E v \in Requests \cup {Empty} : virDomainUpdateDeviceFlags(v)
           \/ virDomainSnapshotCreateXML \/ virDomainRevertToSnapshot
           \/ virDomainSnapshotDelete
           \/ \E v \in Disks : virStorageVolDelete(v)
           \/ UNCHANGED libvirt
    PROVE  LibvirtOK' /\ vols' \subseteq vols
<1> USE Definitions
<1>1. CASE virDomainCreate
  BY <1>1 DEF virDomainCreate, LibvirtOK, Active, Persistent, RunStates, libvirt
<1>2. CASE Stop
  BY <1>2 DEF Stop, LibvirtOK, Active, RunStates
<1>3. CASE virDomainManagedSave
  BY <1>3 DEF virDomainManagedSave, LibvirtOK, Active, RunStates, libvirt
<1>4. CASE virDomainManagedSaveRemove \/ virDomainUndefine \/ virDomainSnapshotDelete
           \/ \E v \in Disks : virStorageVolDelete(v)
  BY <1>4 DEF virDomainManagedSaveRemove, virDomainUndefine, virDomainSnapshotDelete,
              virStorageVolDelete, LibvirtOK, Active, libvirt
<1>5. CASE SetRun("running", "paused") \/ SetRun("paused", "running")
  BY <1>5 DEF SetRun, LibvirtOK, Active, RunStates
<1>6. CASE \E d \in MaybeDefinition : virDomainDefineXML(d)
  BY <1>6 DEF virDomainDefineXML, LibvirtOK, Active, libvirt
<1>7. CASE \E v \in Requests \cup {Empty} : virDomainUpdateDeviceFlags(v)
  <2>1. PICK v \in Requests \cup {Empty} : virDomainUpdateDeviceFlags(v) BY <1>7
  <2>2. def # NoDefinition => [def EXCEPT !["media"] = v] \in MaybeDefinition
    <3>1. def # NoDefinition => def \in Definition BY DEF LibvirtOK
    <3>2. def \in Definition => [def EXCEPT !["media"] = v] \in Definition
      BY DEF Definition, Values
    <3> QED BY <3>1, <3>2
  <2> QED BY <2>1, <2>2 DEF virDomainUpdateDeviceFlags, LibvirtOK, Active, Persistent, libvirt
<1>8. CASE virDomainSnapshotCreateXML
  <2>1. Exists => [run |-> run, def |-> CurrentXml] \in Snapshot
    BY CurrentXmlType DEF Snapshot, LibvirtOK
  <2> QED BY <1>8, <2>1 DEF virDomainSnapshotCreateXML, LibvirtOK, Active
<1>9. CASE virDomainRevertToSnapshot
  BY <1>9 DEF virDomainRevertToSnapshot, LibvirtOK, Active, Snapshot, libvirt
<1>10. CASE UNCHANGED libvirt
  BY <1>10 DEF LibvirtOK, Active, libvirt
<1> QED BY <1>1, <1>2, <1>3, <1>4, <1>5, <1>6, <1>7, <1>8, <1>9, <1>10

-----------------------------------------------------------------------------
(* What a step of request r leaves alone of the others, and what it leaves  *)
(* in their histories.                                                      *)
Alone(q) ==
    /\ phase'[q] = phase[q] /\ op'[q] = op[q] /\ xml'[q] = xml[q]
    /\ status'[q] = status[q] /\ todo'[q] = todo[q] /\ refused'[q] = refused[q]
Noted(q) ==
    /\ quiet'[q] => quiet[q] /\ UNCHANGED libvirt
    /\ phase[q] \in {"read", "write"} =>
          \/ UNCHANGED libvirt /\ moved'[q] = moved[q]
          \/ moved'[q] = moved[q] \cup Differ(def, def') \cup Differ(def', CurrentXml')

LEMMA DisturbNoted ==
    ASSUME NEW rs, Disturb(rs), NEW q \in Requests \ rs
    PROVE  Noted(q)
BY DEF Disturb, Noted

LEMMA OthersAlone ==
    ASSUME TypeInv, NEW r \in Requests, Step(r), NEW q \in Requests, q # r
    PROVE  Alone(q) /\ Noted(q)
<1> USE DEF TypeInv, HandlersOK, Goto, Alone
<1>0. Disturb({r}) => Noted(q) BY DisturbNoted
<1>1. CASE PostList(r) \/ PostInstance(r)
  <2>1. PICK o : Begin(r, o) BY <1>1 DEF PostList, PostInstance
  <2>2. Alone(q) BY <2>1 DEF Begin
  <2>3. moved'[q] = moved[q] /\ quiet'[q] = quiet[q] BY <2>1 DEF Begin
  <2> QED BY <2>1, <2>2, <2>3 DEF Begin, Noted
<1>2. CASE Call(r) BY <1>0, <1>2 DEF Call, handler
<1>3. CASE ReadXml(r)
  <2>1. Alone(q) BY <1>3 DEF ReadXml, LoadXml, history
  <2> QED BY <1>3, <2>1 DEF ReadXml, history, Noted
<1>4. CASE SaveXml(r) BY <1>0, <1>4 DEF SaveXml
<1>5. CASE MountIso(r)
  <2>1. xml' = xml \/ xml' = [xml EXCEPT ![r] = NoDefinition] BY <1>5 DEF MountIso
  <2> QED BY <1>0, <1>5, <2>1 DEF MountIso
<1>6. CASE UmountIso(r)
  <2>1. xml' = xml \/ xml' = [xml EXCEPT ![r] = NoDefinition] BY <1>6 DEF UmountIso
  <2> QED BY <1>0, <1>6, <2>1 DEF UmountIso
<1>7. CASE ReadStatus(r)
  <2>1. Alone(q) BY <1>7 DEF ReadStatus, history
  <2> QED BY <1>7, <2>1 DEF ReadStatus, history, Noted
<1>8. CASE DestroyFirst(r)
  <2>1. refused'[q] = refused[q] BY <1>8 DEF DestroyFirst, Try
  <2> QED BY <1>0, <1>8, <2>1 DEF DestroyFirst, handler
<1>9. CASE ListDisks(r)
  <2>1. xml'[q] = xml[q] /\ todo'[q] = todo[q] /\ phase'[q] = phase[q]
    BY <1>9 DEF ListDisks, LoadXml
  <2> QED BY <1>9, <2>1 DEF ListDisks, history, Noted
<1>10. CASE DeleteVolume(r)
  <2>1. refused'[q] = refused[q] /\ todo'[q] = todo[q] BY <1>10 DEF DeleteVolume, Try
  <2> QED BY <1>0, <1>10, <2>1 DEF DeleteVolume
<1>11. CASE VolumesDeleted(r) BY <1>11 DEF VolumesDeleted, handler, history, Noted
<1>12. CASE Undefine(r)
  <2>1. refused'[q] = refused[q] BY <1>12 DEF Undefine, Try
  <2> QED BY <1>0, <1>12, <2>1 DEF Undefine, handler
<1>13. CASE Finish(r)
  <2>1. Alone(q) BY <1>13 DEF Finish, Forget
  <2> QED BY <1>13, <2>1 DEF Finish, Noted
<1> QED BY <1>1, <1>2, <1>3, <1>4, <1>5, <1>6, <1>7, <1>8, <1>9, <1>10, <1>11, <1>12, <1>13
        DEF Step

LEMMA DisturbTypes ==
    ASSUME HandlersOK, NEW rs, Disturb(rs)
    PROVE  quiet' \in [Requests -> BOOLEAN] /\ moved' \in [Requests -> SUBSET Parts]
<1>1. \A d, e : Differ(d, e) \subseteq Parts BY DEF Differ
<1>2. Differ(def, def') \subseteq Parts /\ Differ(def', CurrentXml') \subseteq Parts BY <1>1
<1>3. \A q \in Requests : moved[q] \subseteq Parts BY DEF HandlersOK
<1> QED BY <1>2, <1>3 DEF Disturb, HandlersOK

(* A step keeps libvirt and the requests well-formed, and makes no volume.  *)
LEMMA TypesOfStep ==
    ASSUME TypeInv, NEW r \in Requests, Step(r)
    PROVE  LibvirtOK' /\ HandlersOK' /\ Way(r)' /\ vols' \subseteq vols
<1> DEFINE Kept == LibvirtOK' /\ vols' \subseteq vols
<1> USE Definitions, CurrentXmlType DEF TypeInv, HandlersOK, Goto
<1>0. UNCHANGED libvirt => Kept BY LibvirtCalls
<1>a. Disturb({r}) => quiet' \in [Requests -> BOOLEAN] /\ moved' \in [Requests -> SUBSET Parts]
  BY DisturbTypes
<1>b. ASSUME NEW call \in Refusals, refused' = [refused EXCEPT ![r] = @ \cup {call}]
      PROVE  refused' \in [Requests -> SUBSET Refusals]
  BY <1>b
<1>c. LoadXml(r) => xml' \in [Requests -> MaybeDefinition]
  BY DEF LoadXml
<1>1. ASSUME NEW o \in Operations, Begin(r, o)
      PROVE  Kept /\ HandlersOK' /\ Way(r)'
  <2>1. /\ FirstPhase(o) \in {"call", "read", "write", "status"}
        /\ FirstPhase(o) = "call" => o \in Powers \cup Snapshots
        /\ FirstPhase(o) = "read" => o \in {"change_settings", "set_console"} \cup Media
        /\ FirstPhase(o) = "write" => o \in Edits \cup Media
        /\ FirstPhase(o) = "status" => o \in Deletions
    BY DEF FirstPhase, Operations, Powers, Snapshots, Edits, Media, Deletions
  <2>2. HandlersOK'
    <3>1. phase' \in [Requests -> Phases] BY <1>1, <2>1 DEF Begin, Phases
    <3>2. op' \in [Requests -> Operations \cup {None}] BY <1>1 DEF Begin
    <3>3. xml' \in [Requests -> MaybeDefinition] BY <1>1 DEF Begin
    <3>4. quiet' \in [Requests -> BOOLEAN] BY <1>1 DEF Begin
    <3>5. requests' \in 0..MaxRequests BY <1>1, InstancesAssumption DEF Begin
    <3>6. status' = status /\ todo' = todo /\ refused' = refused BY <1>1 DEF Begin
    <3>7. moved' \in [Requests -> SUBSET Parts]
      <4>1. Differ(def, CurrentXml) \subseteq Parts BY DEF Differ
      <4> QED BY <1>1, <4>1 DEF Begin
    <3> QED BY <3>1, <3>2, <3>3, <3>4, <3>5, <3>6, <3>7
  <2>3. Way(r)'
    <3>1. phase'[r] = FirstPhase(o) /\ op'[r] = o BY <1>1 DEF Begin
    <3>2. FirstPhase(o) = "read" => xml'[r] = NoDefinition
      <4>1. FirstPhase(o) = "read" => o # "change_xml"
        BY <2>1 DEF Media
      <4>2. xml[r] = NoDefinition BY <1>1 DEF Begin, Way
      <4> QED BY <1>1, <4>1, <4>2 DEF Begin
    <3> QED BY <2>1, <3>1, <3>2 DEF Way
  <2> QED BY <1>0, <1>1, <2>2, <2>3 DEF Begin
<1>2. CASE Call(r)
  <2>1. op[r] \in Powers \cup Snapshots BY <1>2 DEF Call, Way
  <2>2. Kept
    BY <1>0, <1>2, <2>1, LibvirtCalls DEF Call, Powers, Snapshots
  <2>3. HandlersOK' BY <1>a, <1>2 DEF Call, handler, Phases
  <2>4. Way(r)' BY <1>2 DEF Call, handler, Way
  <2> QED BY <2>2, <2>3, <2>4
<1>3. CASE ReadXml(r)
  <2>1. HandlersOK' BY <1>c, <1>3 DEF ReadXml, history, Phases
  <2>2. Way(r)' BY <1>3 DEF ReadXml, Way, Edits, Media
  <2> QED BY <1>0, <1>3, <2>1, <2>2 DEF ReadXml
<1>4. CASE SaveXml(r)
  <2>1. \A description \in {r, Absent} : Edited(r, description) \in MaybeDefinition
    BY EditedType
  <2>2. Kept BY <1>0, <1>4, <2>1, LibvirtCalls DEF SaveXml
  <2>3. HandlersOK' BY <1>a, <1>4 DEF SaveXml, Phases
  <2> QED BY <1>4, <2>2, <2>3 DEF SaveXml, Way
<1>5. CASE MountIso(r)
  <2>1. Kept BY <1>0, <1>5, LibvirtCalls DEF MountIso
  <2>2. xml' = xml \/ xml' = [xml EXCEPT ![r] = NoDefinition] BY <1>5 DEF MountIso
  <2>3. HandlersOK' BY <1>a, <1>5, <2>2 DEF MountIso, Phases
  <2> QED BY <1>5, <2>1, <2>3 DEF MountIso, Way
<1>6. CASE UmountIso(r)
  <2>1. Kept BY <1>0, <1>6, LibvirtCalls DEF UmountIso
  <2>2. xml' = xml \/ xml' = [xml EXCEPT ![r] = NoDefinition] BY <1>6 DEF UmountIso
  <2>3. HandlersOK' BY <1>a, <1>6, <2>2 DEF UmountIso, Phases
  <2> QED BY <1>6, <2>1, <2>3 DEF UmountIso, Way
<1>7. CASE ReadStatus(r)
  <2>1. op[r] \in Deletions BY <1>7 DEF ReadStatus, Way
  <2>2. PICK st \in RunStates \cup {"unknown"} :
          status' = [status EXCEPT ![r] = st] /\ phase' = [phase EXCEPT ![r] = AfterStatus(st)]
    BY <1>7 DEF ReadStatus, LibvirtOK
  <2>3. AfterStatus(st) \in {"destroy", "disks"} BY DEF AfterStatus
  <2>4. HandlersOK' BY <1>7, <2>2, <2>3 DEF ReadStatus, history, Phases
  <2>5. Way(r)' BY <1>7, <2>1, <2>2, <2>3 DEF ReadStatus, Way
  <2> QED BY <1>0, <1>7, <2>4, <2>5 DEF ReadStatus
<1>8. CASE DestroyFirst(r)
  <2>1. Kept BY <1>0, <1>8, LibvirtCalls DEF DestroyFirst, Try
  <2>2. refused' \in [Requests -> SUBSET Refusals]
    BY <1>b, <1>8 DEF DestroyFirst, Try, Refusals
  <2>3. HandlersOK' BY <1>a, <1>8, <2>2 DEF DestroyFirst, handler, Phases
  <2>4. Way(r)' BY <1>8 DEF DestroyFirst, handler, Way
  <2> QED BY <2>1, <2>3, <2>4
<1>9. CASE ListDisks(r)
  <2>1. op[r] \in Deletions BY <1>9 DEF ListDisks, Way
  <2>2. CASE op[r] = "delete_disk"
    <3>1. phase' = [phase EXCEPT ![r] = "volumes"] /\ LoadXml(r)
          /\ \E vs \in SUBSET Disks : todo' = [todo EXCEPT ![r] = vs]
      BY <1>9, <2>2 DEF ListDisks
    <3>2. HandlersOK' BY <1>c, <1>9, <3>1 DEF ListDisks, history, Phases
    <3>3. Way(r)' BY <1>9, <2>1, <2>2, <3>1 DEF ListDisks, Way
    <3> QED BY <1>0, <1>9, <3>2, <3>3 DEF ListDisks
  <2>3. CASE op[r] # "delete_disk"
    <3>1. HandlersOK' BY <1>9, <2>3 DEF ListDisks, history, Phases
    <3>2. Way(r)' BY <1>9, <2>1, <2>3 DEF ListDisks, Way
    <3> QED BY <1>0, <1>9, <3>1, <3>2 DEF ListDisks
  <2> QED BY <2>2, <2>3
<1>10. CASE DeleteVolume(r)
  <2>1. PICK v \in Disks : /\ Try(r, v, v \in Files /\ virStorageVolDelete(v))
                           /\ todo' = [todo EXCEPT ![r] = @ \ {v}]
    BY <1>10 DEF DeleteVolume
  <2>2. Kept BY <1>0, <2>1, LibvirtCalls DEF Try
  <2>3. todo' \in [Requests -> SUBSET Disks] BY <2>1
  <2>4. refused' \in [Requests -> SUBSET Refusals] BY <1>b, <2>1 DEF Try, Refusals
  <2>5. HandlersOK' BY <1>a, <1>10, <2>3, <2>4 DEF DeleteVolume
  <2>6. Way(r)' BY <1>10 DEF DeleteVolume, Way
  <2> QED BY <2>2, <2>5, <2>6
<1>11. CASE VolumesDeleted(r)
  <2>1. HandlersOK' BY <1>11 DEF VolumesDeleted, handler, history, Phases
  <2>2. Way(r)' BY <1>11 DEF VolumesDeleted, handler, Way
  <2> QED BY <1>0, <1>11, <2>1, <2>2 DEF VolumesDeleted
<1>12. CASE Undefine(r)
  <2>1. Kept BY <1>0, <1>12, LibvirtCalls DEF Undefine, Try
  <2>2. refused' \in [Requests -> SUBSET Refusals] BY <1>b, <1>12 DEF Undefine, Try, Refusals
  <2>3. HandlersOK' BY <1>a, <1>12, <2>2 DEF Undefine, handler, Phases
  <2>4. Way(r)' BY <1>12 DEF Undefine, handler, Way
  <2> QED BY <2>1, <2>3, <2>4
<1>13. CASE Finish(r)
  <2>1. HandlersOK' BY <1>13 DEF Finish, Forget, Phases
  <2>2. Way(r)' BY <1>13 DEF Finish, Forget, Way
  <2> QED BY <1>0, <1>13, <2>1, <2>2 DEF Finish
<1>14. Powers \subseteq Operations BY DEF Operations
<1> QED BY <1>1, <1>2, <1>3, <1>4, <1>5, <1>6, <1>7, <1>8, <1>9, <1>10, <1>11, <1>12, <1>13, <1>14
        DEF Step, PostList, PostInstance

LEMMA TypesStep == TypeInv /\ [Next]_vars => TypeInv'
<1> SUFFICES ASSUME TypeInv, [Next]_vars PROVE TypeInv' OBVIOUS
<1>1. ASSUME NEW r \in Requests, Step(r) PROVE TypeInv'
  <2>1. LibvirtOK' /\ HandlersOK' /\ Way(r)' BY <1>1, TypesOfStep
  <2>2. ASSUME NEW q \in Requests, q # r PROVE Way(q)'
    BY <1>1, <2>2, OthersAlone DEF Alone, TypeInv, Way
  <2> QED BY <2>1, <2>2 DEF TypeInv
<1>2. CASE GuestStops
  <2>1. LibvirtOK' BY <1>2, LibvirtCalls DEF GuestStops, TypeInv
  <2>2. HandlersOK'
    BY <1>2, DisturbTypes DEF GuestStops, TypeInv, HandlersOK, handler
  <2>3. \A r \in Requests : Way(r)' BY <1>2 DEF GuestStops, TypeInv, Way, handler
  <2> QED BY <2>1, <2>2, <2>3 DEF TypeInv
<1>3. CASE UNCHANGED vars
  <2>1. LibvirtOK' BY <1>3, LibvirtCalls DEF vars, TypeInv
  <2> QED BY <1>3, <2>1 DEF vars, handler, history, TypeInv, HandlersOK, Way
<1> QED BY <1>1, <1>2, <1>3 DEF Next

THEOREM InstancesTypes == Spec => []TypeInv
<1>1. Init => TypeInv
  <2> SUFFICES ASSUME Init PROVE TypeInv OBVIOUS
  <2>1. def \in Definition BY DEF Init, Definition, Values
  <2>2. LibvirtOK
    BY <2>1, Definitions DEF Init, LibvirtOK, Active, RunStates
  <2>3. HandlersOK
    BY InstancesAssumption, Definitions DEF Init, HandlersOK, Phases
  <2> QED BY <2>2, <2>3 DEF Init, TypeInv, Way
<1> QED BY <1>1, TypesStep, PTL DEF Spec

-----------------------------------------------------------------------------
(* Each step of a request leads on towards its end.                         *)
LEMMA ProgressOfStep ==
    ASSUME DInv, TypeInv', NEW r \in Requests, Step(r)
    PROVE  Progress(r)'
<1> USE DEF DInv, TypeInv, HandlersOK, Goto
<1> USE DEF Progress, VolumesLeft, StoppedBefore, XmlFresh
<1>1. ASSUME NEW o \in Operations, Begin(r, o)
      PROVE  Progress(r)'
  <2>1. /\ FirstPhase(o) \in {"call", "read", "write", "status"}
        /\ FirstPhase(o) = "write" => o = "change_xml"
        /\ FirstPhase(o) \in {"read", "write"} => o \in Edits \cup Media
    BY DEF FirstPhase, Operations, Powers, Snapshots, Edits, Media, Deletions
  <2>2. phase'[r] = FirstPhase(o) /\ UNCHANGED libvirt BY <1>1 DEF Begin
  <2>3. CurrentXml' = CurrentXml /\ def' = def BY <2>2 DEF CurrentXml, Active, libvirt
  <2>4. o = "change_xml" => xml'[r] = CurrentXml BY <1>1 DEF Begin
  <2>5. o \in Edits \cup Media => moved'[r] = Differ(def, CurrentXml)
    BY <1>1 DEF Begin
  <2>6. Differ(def, CurrentXml)' = Differ(def, CurrentXml) BY <2>3 DEF Differ, Part
  <2>7. o = "change_xml" => Differ(def', xml'[r]) = Differ(def, CurrentXml)
    BY <2>3, <2>4
  <2> QED BY <2>1, <2>2, <2>5, <2>6, <2>7
<1>2. CASE Call(r) BY <1>2 DEF Call
<1>3. CASE ReadXml(r)
  <2>1. phase[r] = "read" /\ phase'[r] = "write" /\ UNCHANGED <<libvirt, moved>>
        /\ xml[r] = NoDefinition
    BY <1>3 DEF ReadXml, Way, history
  <2>2. xml'[r] \in {CurrentXml, NoDefinition} BY <1>3, <2>1 DEF ReadXml, LoadXml
  <2>3. CurrentXml' = CurrentXml /\ def' = def BY <2>1 DEF CurrentXml, Active, libvirt
  <2>4. Differ(def, CurrentXml)' = Differ(def, CurrentXml) BY <2>3 DEF Differ, Part
  <2>5. xml'[r] = CurrentXml => Differ(def', xml'[r]) = Differ(def, CurrentXml)
    BY <2>3
  <2> QED BY <2>1, <2>2, <2>4, <2>5
<1>4. CASE SaveXml(r) \/ MountIso(r) \/ UmountIso(r)
  <2>1. phase'[r] = "done" BY <1>4 DEF SaveXml, MountIso, UmountIso
  <2> QED BY <2>1
<1>5. CASE ReadStatus(r)
  <2>1. PICK state \in {IF Exists THEN run ELSE "unknown", "unknown"} :
          status' = [status EXCEPT ![r] = state] /\ phase' = [phase EXCEPT ![r] = AfterStatus(state)]
    BY <1>5 DEF ReadStatus
  <2>2. status'[r] = state /\ phase'[r] = AfterStatus(state) BY <2>1
  <2>3. phase'[r] = "disks" /\ state \notin {"paused", "unknown"} => ~Active
    BY <2>2 DEF AfterStatus, Exists, Active, LibvirtOK, RunStates
  <2>4. Active' = Active BY <1>5 DEF ReadStatus, Active, libvirt
  <2>5. phase'[r] \in {"destroy", "disks"} BY <2>2 DEF AfterStatus
  <2> QED BY <2>2, <2>3, <2>4, <2>5
<1>6. CASE DestroyFirst(r)
  <2>1. phase'[r] = "disks" BY <1>6 DEF DestroyFirst
  <2>2. ~Active' \/ "destroy" \in refused'[r]
    BY <1>6 DEF DestroyFirst, Try, Stop, Active, libvirt
  <2> QED BY <2>1, <2>2
<1>7. CASE ListDisks(r)
  <2>1. UNCHANGED libvirt /\ status' = status /\ quiet' = quiet /\ refused' = refused
        /\ phase[r] = "disks" /\ op' = op
    BY <1>7 DEF ListDisks, history
  <2>2. Active' = Active /\ vols' = vols BY <2>1 DEF Active, libvirt
  <2>3. CASE op[r] = "delete_disk"
    <3>1. phase'[r] = "volumes" /\ (xml'[r] # NoDefinition => todo'[r] = Disks)
      BY <1>7, <2>3 DEF ListDisks
    <3>2. vols' \subseteq Disks BY DEF LibvirtOK
    <3> QED BY <2>1, <2>2, <3>1, <3>2
  <2>4. CASE op[r] # "delete_disk"
    <3>1. phase'[r] = "undefine" BY <1>7, <2>4 DEF ListDisks
    <3> QED BY <2>1, <2>2, <2>4, <3>1
  <2> QED BY <2>3, <2>4
<1>8. CASE DeleteVolume(r)
  <2>1. /\ phase[r] = "volumes" /\ phase' = phase /\ xml' = xml /\ status' = status
    BY <1>8 DEF DeleteVolume
  <2>2. PICK v \in todo[r] : /\ Try(r, v, v \in Files /\ virStorageVolDelete(v))
                             /\ todo' = [todo EXCEPT ![r] = @ \ {v}]
    BY <1>8 DEF DeleteVolume
  <2>3. run' = run /\ refused[r] \subseteq refused'[r]
    BY <2>2 DEF Try, virStorageVolDelete, libvirt
  <2>4. vols \subseteq todo[r] \cup refused[r] => vols' \subseteq todo'[r] \cup refused'[r]
    <3>1. CASE virStorageVolDelete(v) /\ UNCHANGED refused
      BY <2>2, <3>1 DEF virStorageVolDelete
    <3>2. CASE UNCHANGED libvirt /\ refused' = [refused EXCEPT ![r] = @ \cup {v}]
      BY <2>2, <3>2 DEF libvirt
    <3> QED BY <2>2, <3>1, <3>2 DEF Try
  <2>5. quiet'[r] = quiet[r] BY <1>8 DEF DeleteVolume, Disturb
  <2> QED BY <2>1, <2>3, <2>4, <2>5 DEF Active
<1>9. CASE VolumesDeleted(r)
  <2>1. phase[r] = "volumes" /\ todo[r] = {} /\ phase'[r] = "undefine"
        /\ UNCHANGED <<libvirt, handler, history>>
    BY <1>9 DEF VolumesDeleted
  <2> QED BY <2>1 DEF handler, history, libvirt, Active
<1>10. CASE Undefine(r) BY <1>10 DEF Undefine
<1>11. CASE Finish(r) BY <1>11 DEF Finish
<1>12. Powers \subseteq Operations BY DEF Operations
<1> QED BY <1>1, <1>2, <1>3, <1>4, <1>5, <1>6, <1>7, <1>8, <1>9, <1>10, <1>11, <1>12
        DEF Step, PostList, PostInstance

(* What the others do, or nobody's step, is noted in a request's history.   *)
LEMMA ProgressOfOthers ==
    ASSUME DInv, NEW q \in Requests, Alone(q), Noted(q), vols' \subseteq vols
    PROVE  Progress(q)'
<1>1. VolumesLeft(q)' BY DEF DInv, Progress, VolumesLeft, Alone
<1>2. StoppedBefore(q)'
  <2>1. quiet'[q] => quiet[q] /\ Active' = Active BY DEF Noted, Active, libvirt
  <2> QED BY <2>1 DEF DInv, Progress, StoppedBefore, Alone
<1>3. XmlFresh(q)'
  <2>1. CASE phase[q] \notin {"read", "write"} BY <2>1 DEF Alone, XmlFresh
  <2>2. CASE UNCHANGED libvirt /\ moved'[q] = moved[q]
    <3>1. def' = def /\ CurrentXml' = CurrentXml BY <2>2 DEF libvirt, CurrentXml, Active
    <3>2. /\ Differ(def, CurrentXml)' = Differ(def, CurrentXml)
          /\ Differ(def', xml'[q]) = Differ(def, xml[q])
      BY <3>1 DEF Alone, Differ, Part
    <3> QED BY <2>2, <3>2 DEF DInv, Progress, XmlFresh, Alone
  <2>3. CASE /\ phase[q] \in {"read", "write"}
             /\ moved'[q] = moved[q] \cup Differ(def, def') \cup Differ(def', CurrentXml')
    <3>1. Differ(def', xml[q]) \subseteq Differ(def, def') \cup Differ(def, xml[q])
      BY DEF Differ
    <3>2. Differ(def', xml'[q]) = Differ(def', xml[q]) BY DEF Alone
    <3> QED BY <2>3, <3>1, <3>2 DEF DInv, Progress, XmlFresh, Alone
  <2> QED BY <2>1, <2>2, <2>3 DEF Noted
<1> QED BY <1>1, <1>2, <1>3 DEF Progress

LEMMA DInvStep == DInv /\ TypeInv' /\ [Next]_vars => DInv'
<1> SUFFICES ASSUME DInv, TypeInv', [Next]_vars, NEW q \in Requests
             PROVE  Progress(q)'
  BY DEF DInv
<1>1. ASSUME NEW r \in Requests, Step(r), r # q PROVE Progress(q)'
  <2>1. Alone(q) /\ Noted(q) BY <1>1, OthersAlone DEF DInv
  <2>2. vols' \subseteq vols BY <1>1, TypesOfStep DEF DInv
  <2> QED BY <2>1, <2>2, ProgressOfOthers
<1>2. CASE GuestStops
  <2>1. Alone(q) BY <1>2 DEF GuestStops, handler, Alone
  <2>2. Noted(q) BY <1>2, DisturbNoted DEF GuestStops
  <2>3. vols' = vols BY <1>2 DEF GuestStops, Stop
  <2> QED BY <2>1, <2>2, <2>3, ProgressOfOthers
<1>3. CASE UNCHANGED vars
  <2>1. Alone(q) /\ Noted(q) /\ vols' = vols
    BY <1>3 DEF vars, handler, history, libvirt, Alone, Noted
  <2> QED BY <2>1, ProgressOfOthers
<1> QED BY <1>1, <1>2, <1>3, ProgressOfStep DEF Next

LEMMA DInvariance == Spec => []DInv
<1>1. Init /\ TypeInv => DInv
  BY DEF Init, DInv, Progress, VolumesLeft, StoppedBefore, XmlFresh
<1> QED BY <1>1, DInvStep, InstancesTypes, PTL DEF Spec

(* The step that takes request r from one phase to another is its own.      *)
LEMMA OwnStep ==
    ASSUME DInv, [Next]_vars, NEW r \in Requests, phase'[r] # phase[r]
    PROVE  Step(r)
<1>1. PICK q \in Requests : Step(q) BY DEF Next, GuestStops, vars
<1>2. q # r => phase'[r] = phase[r] BY <1>1, OthersAlone DEF DInv, Alone
<1> QED BY <1>1, <1>2

-----------------------------------------------------------------------------
(* A deletion leaves the volumes libvirt kept, the definition it refused to *)
(* undefine, and the domain that was not destroyed or came back.            *)
THEOREM DeletionsLeaveTheRefused == Spec => DeletionIsComplete
<1> DEFINE Complete(r) ==
        phase[r] = "undefine" /\ phase'[r] = "done" =>
        /\ op[r] = "delete_disk" /\ xml[r] # NoDefinition => vols \subseteq refused[r]
        /\ Persistent' => "undefine" \in refused'[r] \/ snap # None \/ saved # NoDefinition
        /\ Active' => \/ status[r] \in {"paused", "unknown"}
                      \/ "destroy" \in refused[r]
                      \/ ~quiet[r]
<1>1. ASSUME DInv, [Next]_vars, NEW r \in Requests PROVE Complete(r)
  <2> SUFFICES ASSUME phase[r] = "undefine", phase'[r] = "done"
               PROVE  /\ op[r] = "delete_disk" /\ xml[r] # NoDefinition => vols \subseteq refused[r]
                      /\ Persistent' => \/ "undefine" \in refused'[r]
                                        \/ snap # None \/ saved # NoDefinition
                      /\ Active' => \/ status[r] \in {"paused", "unknown"}
                                    \/ "destroy" \in refused[r]
                                    \/ ~quiet[r]
    OBVIOUS
  <2>1. Step(r) BY <1>1, OwnStep
  <2>2. Undefine(r)
    BY <2>1 DEF Step, PostList, PostInstance, Begin, Call, ReadXml, SaveXml, MountIso,
                UmountIso, ReadStatus, DestroyFirst, ListDisks, DeleteVolume,
                VolumesDeleted, Finish
  <2>3. Progress(r) BY <1>1 DEF DInv
  <2>4. Active' = Active
    BY <2>2 DEF Undefine, Try, virDomainUndefine, Active, libvirt
  <2>5. Persistent' => "undefine" \in refused'[r] \/ snap # None \/ saved # NoDefinition
    <3>1. CASE virDomainUndefine
      BY <3>1 DEF virDomainUndefine, Persistent, libvirt
    <3>2. CASE refused' = [refused EXCEPT ![r] = @ \cup {"undefine"}]
      BY <1>1, <3>2 DEF DInv, TypeInv, HandlersOK
    <3> QED BY <2>2, <3>1, <3>2 DEF Undefine, Try
  <2> QED BY <2>3, <2>4, <2>5 DEF Progress, VolumesLeft, StoppedBefore
<1>2. DInv /\ [Next]_vars => [\A r \in Requests : Complete(r)]_vars BY <1>1
<1> QED BY <1>2, DInvariance, PTL DEF Spec, DeletionIsComplete

(* An edit writes its own parts, and loses of the others only what moved    *)
(* since the request began.                                                 *)
THEOREM EditsLoseOnlyWhatMoved == Spec => EditsCompose
<1> DEFINE Own(r, p) ==
        \/ def'[p] = r
        \/ def'[p] = Empty /\ op[r] = "umount_iso"
        \/ def'[p] = Absent
           /\ (p = "description" \/ Part(def, p) = Absent \/ p \in moved[r])
<1> DEFINE Composes(r) ==
        phase[r] = "write" /\ phase'[r] = "done" /\ def' # def =>
        /\ \A p \in Parts \ PartsOf(op[r]) : Part(def', p) = Part(def, p) \/ p \in moved[r]
        /\ \A p \in PartsOf(op[r]) : Own(r, p)
<1>1. ASSUME DInv, [Next]_vars, NEW r \in Requests PROVE Composes(r)
  <2> SUFFICES ASSUME phase[r] = "write", phase'[r] = "done", def' # def
               PROVE  /\ \A p \in Parts \ PartsOf(op[r]) :
                            Part(def', p) = Part(def, p) \/ p \in moved[r]
                      /\ \A p \in PartsOf(op[r]) : Own(r, p)
    OBVIOUS
  <2>1. Step(r) BY <1>1, OwnStep
  <2>2. SaveXml(r) \/ MountIso(r) \/ UmountIso(r)
    BY <2>1 DEF Step, PostList, PostInstance, Begin, Call, ReadXml, ReadStatus, DestroyFirst,
                ListDisks, DeleteVolume, VolumesDeleted, Undefine, Finish
  <2>3. HandlersOK /\ XmlFresh(r) /\ def \in MaybeDefinition
    BY <1>1 DEF DInv, TypeInv, LibvirtOK, Progress
  <2>4. CASE SaveXml(r)
    <3>1. PICK description \in {r, Absent} :
            /\ Edited(r, description) # NoDefinition
            /\ def' = Edited(r, description)
      BY <2>4 DEF SaveXml, virDomainDefineXML, libvirt
    <3>2. xml[r] # NoDefinition BY <2>3, <3>1, EditedType
    <3>3. \A p \in Parts :
            /\ p \notin PartsOf(op[r]) => def'[p] = xml[r][p]
            /\ p \in PartsOf(op[r]) =>
                  \/ def'[p] = xml[r][p] /\ xml[r][p] = Absent
                  \/ def'[p] = description /\ p = "description"
                  \/ def'[p] = r
      BY <3>1, <3>2 DEF Edited
    <3>4. \A p \in Parts : Part(def', p) = def'[p] /\ Part(xml[r], p) = xml[r][p]
      BY <3>1, <3>2 DEF Part
    <3>5. \A p \in Parts : Part(def, p) = Part(xml[r], p) \/ p \in moved[r]
      BY <2>3, <3>2 DEF XmlFresh, Differ
    <3>6. PartsOf(op[r]) \subseteq Parts BY DEF PartsOf, Parts
    <3>7. ASSUME NEW p \in PartsOf(op[r]) PROVE Own(r, p)
      BY <3>1, <3>3, <3>4, <3>5, <3>6
    <3>8. \A p \in Parts \ PartsOf(op[r]) : Part(def', p) = Part(def, p) \/ p \in moved[r]
      BY <3>3, <3>4, <3>5
    <3> QED BY <3>7, <3>8
  <2>5. CASE MountIso(r) \/ UmountIso(r)
    <3>1. PartsOf(op[r]) = {"media"} BY <2>5 DEF MountIso, UmountIso, PartsOf
    <3>2. PICK medium \in {r, Empty} :
            /\ virDomainUpdateDeviceFlags(medium)
            /\ medium = Empty => op[r] = "umount_iso"
      <4>1. CASE MountIso(r) BY <4>1, InstancesAssumption DEF MountIso, libvirt
      <4>2. CASE UmountIso(r)
        <5>1. UNCHANGED libvirt \/ virDomainUpdateDeviceFlags(Empty) BY <4>2 DEF UmountIso
        <5> QED BY <4>2, <5>1 DEF UmountIso, libvirt
      <4> QED BY <2>5, <4>1, <4>2
    <3>3. def # NoDefinition /\ def' = [def EXCEPT !["media"] = medium]
      BY <3>2 DEF virDomainUpdateDeviceFlags, Persistent, libvirt
    <3>4. def \in Definition /\ "media" \in Parts BY <2>3, <3>3, Definitions DEF Parts
    <3>5. def'["media"] = medium /\ \A p \in Parts \ {"media"} : def'[p] = def[p]
      BY <3>3, <3>4 DEF Definition
    <3>6. def' # NoDefinition
      <4>1. def' \in Definition
        BY <3>2, <3>3, <3>4 DEF Definition, Values
      <4> QED BY <4>1, Definitions
    <3> QED BY <3>1, <3>2, <3>3, <3>5, <3>6 DEF Part
  <2> QED BY <2>2, <2>4, <2>5
<1>2. DInv /\ [Next]_vars => [\A r \in Requests : Composes(r)]_vars BY <1>1
<1> QED BY <1>2, DInvariance, PTL DEF Spec, EditsCompose
==============================================================================
