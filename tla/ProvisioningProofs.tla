-------------------------- MODULE ProvisioningProofs --------------------------
(***************************************************************************)
(* Proofs about Provisioning, for any requests, pools and names, whatever  *)
(* forms are posted: its types, that no two domains share a disk that      *)
(* nobody picked, and that what was created undisturbed is there as asked. *)
(***************************************************************************)
EXTENDS Provisioning, TLAPS

Creations == {"new", "template", "images"}

LibvirtOK ==
    /\ pool \in [Pools -> {"none", "off", "on"}]
    /\ built \subseteq Pools /\ autostart \subseteq Pools
    /\ vols \subseteq Paths
    /\ doms \in [Names -> Domain \cup {None}]

HandlersOK ==
    /\ phase \in [Requests -> Phases]
    /\ form \in [Requests -> Forms \cup {None}]
    /\ id \in [Requests -> 0..MaxRequests]
    /\ todo \in [Requests -> SUBSET Paths] /\ images \in [Requests -> SUBSET Paths]
    /\ listed \in [Requests -> SUBSET Names]
    /\ failed \in [Requests -> BOOLEAN] /\ fault \in [Requests -> BOOLEAN]
    /\ quiet \in [Requests -> BOOLEAN]
    /\ requests \in 0..MaxRequests /\ changes \in 0..MaxChanges

(* Which forms take a request to a phase.                                   *)
Way(r) ==
    /\ phase[r] # "idle" => form[r] \in Forms
    /\ phase[r] = "idle" => images[r] = {}
    /\ phase[r] = "volume" => form[r].op \in {"new", "template"} /\ images[r] = {}
    /\ phase[r] = "lookup" => form[r].op = "images"
    /\ phase[r] = "define" => form[r].op \in Creations
    /\ phase[r] = "xml" => form[r].op = "create_xml"
    /\ phase[r] \in {"pool", "build", "start", "autostart"} => form[r].op = "create_pool"

TypeInv == LibvirtOK /\ HandlersOK /\ \A r \in Requests : Way(r)

(* A disk that was made for a domain bears its name.                        *)
OwnDisks(n) == doms[n] # None /\ ~doms[n].picked => \A path \in doms[n].disks : path[2] = n
OwnImages(r) ==
    phase[r] # "idle" /\ form[r].op \in {"new", "template"}
        => \A path \in images[r] : path[2] = form[r].name
SharingInv == (\A n \in Names : OwnDisks(n)) /\ (\A r \in Requests : OwnImages(r))

(* How far the creation of a domain is that nobody disturbed.               *)
ImagesComplete(r) ==
    Needed(form[r]) \subseteq Visible =>
        /\ phase[r] = "lookup" => images[r] \cup todo[r] = Asked(form[r])
        /\ phase[r] = "define" => images[r] = Asked(form[r]) /\ Asked(form[r]) \subseteq Visible
        /\ phase[r] = "done" /\ ~failed[r] => /\ doms[form[r].name].uuid = id[r]
                                              /\ doms[form[r].name].disks = Asked(form[r])
                                              /\ Asked(form[r]) \subseteq Visible
DomainOnItsWay(r) == phase[r] # "idle" /\ form[r].op \in Creations => ImagesComplete(r)

(* How far the creation of a pool is.                                       *)
PoolOnItsWay(r) ==
    phase[r] # "idle" /\ form[r].op = "create_pool" /\ ~fault[r] =>
        LET p == form[r].pool
        IN  /\ phase[r] = "build" => pool[p] = "off"
            /\ phase[r] = "start" => Startable(p)
            /\ phase[r] = "autostart" => pool[p] = "on"
            /\ phase[r] = "done" /\ ~failed[r] => pool[p] = "on" /\ p \in autostart

QInv == \A r \in Requests : quiet[r] => DomainOnItsWay(r) /\ PoolOnItsWay(r)
-----------------------------------------------------------------------------
(* What the forms carry.                                                    *)
LEMMA FormFacts ==
    ASSUME NEW f \in Forms
    PROVE  /\ f.op \in Creations \cup {"create_xml", "create_pool"}
           /\ f.op \in Creations \cup {"create_xml"} => f.name \in Names
           /\ f.op = "new" => f.pool \in Pools
           /\ f.op = "template" => f.template \in Paths
           /\ f.op = "images" => f.images \in SUBSET Paths
           /\ f.op = "create_xml" => f.given \in BOOLEAN /\ f.disks \in SUBSET Paths
           /\ f.op = "create_pool" => f.pool \in Pools
<1>1. CASE f \in NewVolume BY <1>1 DEF NewVolume, Creations
<1>2. CASE f \in Template BY <1>2 DEF Template, Creations
<1>3. CASE f \in Images BY <1>3 DEF Images, Creations
<1>4. CASE f \in Xml BY <1>4 DEF Xml, Creations
<1>5. CASE f \in NewPool BY <1>5 DEF NewPool, Creations
<1> QED BY <1>1, <1>2, <1>3, <1>4, <1>5 DEF Forms

(* The volume made for a domain is in a pool and has the domain's name.     *)
LEMMA NewPathFacts ==
    ASSUME NEW f \in Forms, f.op \in {"new", "template"}
    PROVE  NewPath(f) \in Paths /\ NewPath(f)[1] \in Pools /\ NewPath(f)[2] = f.name
<1>1. f.name \in Names BY FormFacts DEF Creations
<1>2. CASE f.op = "new" BY <1>1, <1>2, FormFacts DEF NewPath, Paths
<1>3. CASE f.op = "template"
  <2>1. f.template[1] \in Pools BY <1>3, FormFacts DEF Paths
  <2> QED BY <1>1, <1>3, <2>1 DEF NewPath, Paths
<1> QED BY <1>2, <1>3

(* A domain that is made is one, whether created or defined by its XML.     *)
LEMMA MadeDomain ==
    ASSUME NEW uuid \in 0..MaxRequests, NEW disks \in SUBSET Paths, NEW picked \in BOOLEAN
    PROVE  LET d == [uuid |-> uuid, disks |-> disks, picked |-> picked]
           IN  d \in Domain /\ d # None
BY ProvisioningAssumption DEF Domain, Uuids, Given

-----------------------------------------------------------------------------
(* What a step of request r leaves alone of the others.                     *)
Alone(q) ==
    /\ phase'[q] = phase[q] /\ form'[q] = form[q] /\ id'[q] = id[q] /\ todo'[q] = todo[q]
    /\ images'[q] = images[q] /\ failed'[q] = failed[q] /\ fault'[q] = fault[q]

Step(r) ==
    \/ \E f \in Forms : Post(r, f)
    \/ CreateStep(r) \/ CreatePoolStep(r) \/ Refused(r) \/ Finish(r)

LEMMA OthersAlone ==
    ASSUME TypeInv, NEW r \in Requests, Step(r), NEW q \in Requests, q # r
    PROVE  Alone(q) /\ (quiet'[q] => quiet[q] /\ UNCHANGED libvirt)
<1> USE DEF TypeInv, HandlersOK, Goto, Alone
<1>1. CASE \E f \in Forms : Post(r, f) BY <1>1 DEF Post
<1>2. CASE MakeVolume(r)
  <2>1. /\ \E p \in {"define", "done"} : phase' = [phase EXCEPT ![r] = p]
        /\ images' = images \/ images' = [images EXCEPT ![r] = {NewPath(form[r])}]
        /\ failed' = failed \/ failed' = [failed EXCEPT ![r] = TRUE]
    BY <1>2 DEF MakeVolume
  <2> QED BY <1>2, <2>1 DEF MakeVolume, Disturb
<1>3. CASE LookUpImage(r) BY <1>3 DEF LookUpImage
<1>4. CASE ImagesFound(r) BY <1>4 DEF ImagesFound, handler
<1>5. CASE CreateDomain(r)
  <2>1. failed' = failed \/ failed' = [failed EXCEPT ![r] = TRUE] BY <1>5 DEF CreateDomain
  <2> QED BY <1>5, <2>1 DEF CreateDomain, Disturb, handler
<1>6. CASE CreateXml(r)
  <2>1. failed' = failed \/ failed' = [failed EXCEPT ![r] = TRUE] BY <1>6 DEF CreateXml
  <2> QED BY <1>6, <2>1 DEF CreateXml, Disturb, handler
<1>7. CASE DefinePool(r)
  <2>1. /\ phase'[q] = phase[q] /\ failed'[q] = failed[q] BY <1>7 DEF DefinePool
  <2> QED BY <1>7, <2>1 DEF DefinePool, Disturb, handler
<1>8. CASE BuildPool(r) \/ StartNewPool(r) \/ AutostartNewPool(r)
  BY <1>8 DEF BuildPool, StartNewPool, AutostartNewPool, Disturb, handler
<1>9. CASE Refused(r) BY <1>9 DEF Refused, handler
<1>10. CASE Finish(r) BY <1>10 DEF Finish
<1> QED BY <1>1, <1>2, <1>3, <1>4, <1>5, <1>6, <1>7, <1>8, <1>9, <1>10
        DEF Step, CreateStep, CreatePoolStep

(* A step keeps libvirt and the requests well-formed.                       *)
LEMMA TypesOfStep ==
    ASSUME TypeInv, NEW r \in Requests, Step(r)
    PROVE  LibvirtOK' /\ HandlersOK' /\ Way(r)'
<1> USE DEF TypeInv, HandlersOK, Goto
<1>0. UNCHANGED libvirt => LibvirtOK' BY DEF libvirt, LibvirtOK
<1>1. ASSUME NEW f \in Forms, Post(r, f)
      PROVE  LibvirtOK' /\ HandlersOK' /\ Way(r)'
  <2>1. /\ FirstPhase(f) \in {"volume", "lookup", "xml", "pool"}
        /\ FirstPhase(f) = "volume" => f.op \in {"new", "template"}
        /\ FirstPhase(f) = "lookup" => f.op = "images"
        /\ FirstPhase(f) = "xml" => f.op = "create_xml"
        /\ FirstPhase(f) = "pool" => f.op = "create_pool"
    BY FormFacts DEF FirstPhase, Creations
  <2>2. HandlersOK'
    <3>1. phase' \in [Requests -> Phases] BY <1>1, <2>1 DEF Post, Phases
    <3>2. form' \in [Requests -> Forms \cup {None}] BY <1>1 DEF Post
    <3>3. requests' \in 0..MaxRequests /\ id' \in [Requests -> 0..MaxRequests]
      <4>1. requests + 1 \in 0..MaxRequests BY <1>1, ProvisioningAssumption DEF Post
      <4> QED BY <1>1, <4>1 DEF Post
    <3>4. todo' \in [Requests -> SUBSET Paths]
      <4>1. (IF f.op = "images" THEN f.images ELSE {}) \in SUBSET Paths BY FormFacts
      <4> QED BY <1>1, <4>1 DEF Post
    <3>5. listed' \in [Requests -> SUBSET Names] BY <1>1 DEF Post
    <3>6. quiet' \in [Requests -> BOOLEAN] BY <1>1 DEF Post
    <3> QED BY <1>1, <3>1, <3>2, <3>3, <3>4, <3>5, <3>6 DEF Post
  <2>3. Way(r)'
    <3>1. phase'[r] = FirstPhase(f) /\ form'[r] = f /\ images'[r] = {}
      BY <1>1 DEF Post, Way
    <3> QED BY <2>1, <3>1 DEF Way, Creations
  <2> QED BY <1>0, <1>1, <2>2, <2>3 DEF Post
<1>2. CASE MakeVolume(r)
  <2>1. form[r] \in Forms /\ form[r].op \in {"new", "template"} BY <1>2 DEF MakeVolume, Way
  <2>2. NewPath(form[r]) \in Paths BY <2>1, NewPathFacts
  <2>3. /\ \E p \in {"define", "done"} : phase' = [phase EXCEPT ![r] = p]
        /\ images' = images \/ images' = [images EXCEPT ![r] = {NewPath(form[r])}]
        /\ failed' = failed \/ failed' = [failed EXCEPT ![r] = TRUE]
        /\ vols' = vols \/ vols' = vols \cup {NewPath(form[r])}
    BY <1>2 DEF MakeVolume
  <2>4. LibvirtOK' BY <1>2, <2>2, <2>3 DEF MakeVolume, LibvirtOK
  <2>5. HandlersOK'
    <3>1. phase' \in [Requests -> Phases] BY <2>3 DEF Phases
    <3>2. images' \in [Requests -> SUBSET Paths] BY <2>2, <2>3
    <3>3. failed' \in [Requests -> BOOLEAN] BY <2>3
    <3> QED BY <1>2, <3>1, <3>2, <3>3 DEF MakeVolume, Disturb
  <2>6. Way(r)' BY <1>2, <2>1, <2>3 DEF MakeVolume, Way, Creations
  <2> QED BY <2>4, <2>5, <2>6
<1>3. CASE LookUpImage(r)
  <2>1. images' \in [Requests -> SUBSET Paths] /\ todo' \in [Requests -> SUBSET Paths]
    BY <1>3 DEF LookUpImage
  <2>2. HandlersOK' BY <1>3, <2>1 DEF LookUpImage
  <2>3. Way(r)' BY <1>3 DEF LookUpImage, Way
  <2> QED BY <1>0, <1>3, <2>2, <2>3 DEF LookUpImage
<1>4. CASE ImagesFound(r)
  <2>1. HandlersOK' BY <1>4 DEF ImagesFound, handler, Phases
  <2>2. Way(r)' BY <1>4 DEF ImagesFound, handler, Way, Creations
  <2> QED BY <1>0, <1>4, <2>1, <2>2 DEF ImagesFound
<1>5. ASSUME NEW name \in Names, NEW d \in Domain,
             doms' = doms \/ doms' = [doms EXCEPT ![name] = d],
             UNCHANGED <<pool, built, autostart, vols>>
      PROVE  LibvirtOK'
  BY <1>5 DEF LibvirtOK
<1>6. CASE CreateDomain(r)
  <2>1. form[r].name \in Names /\ form[r].op \in Creations
    BY <1>6, FormFacts DEF CreateDomain, Way
  <2>2. [uuid |-> id[r], disks |-> images[r], picked |-> form[r].op = "images"] \in Domain
    BY MadeDomain
  <2>3. LibvirtOK' BY <1>5, <1>6, <2>1, <2>2 DEF CreateDomain
  <2>4. failed' = failed \/ failed' = [failed EXCEPT ![r] = TRUE] BY <1>6 DEF CreateDomain
  <2>5. HandlersOK' BY <1>6, <2>4 DEF CreateDomain, Disturb, handler, Phases
  <2>6. Way(r)' BY <1>6 DEF CreateDomain, handler, Way
  <2> QED BY <2>3, <2>5, <2>6
<1>7. CASE CreateXml(r)
  <2>1. form[r].name \in Names /\ form[r].disks \in SUBSET Paths
    BY <1>7, FormFacts DEF CreateXml, Way
  <2> DEFINE uuid == IF form[r].given THEN Given ELSE id[r]
             d == [uuid |-> uuid, disks |-> form[r].disks, picked |-> TRUE]
  <2>2. uuid \in 0..MaxRequests BY ProvisioningAssumption DEF Given
  <2>3. d \in Domain BY <2>1, <2>2, MadeDomain
  <2>4. doms' = doms \/ doms' = [doms EXCEPT ![form[r].name] = d] BY <1>7 DEF CreateXml
  <2>5. LibvirtOK' BY <1>5, <1>7, <2>1, <2>3, <2>4 DEF CreateXml
  <2>6. failed' = failed \/ failed' = [failed EXCEPT ![r] = TRUE] BY <1>7 DEF CreateXml
  <2>7. HandlersOK' BY <1>7, <2>6 DEF CreateXml, Disturb, handler, Phases
  <2>8. Way(r)' BY <1>7 DEF CreateXml, handler, Way
  <2> QED BY <2>5, <2>7, <2>8
<1>8. CASE DefinePool(r)
  <2>1. form[r].pool \in Pools /\ form[r].op = "create_pool" /\ form[r] \in Forms
    BY <1>8, FormFacts DEF DefinePool, Way
  <2>2. LibvirtOK' BY <1>8, <2>1 DEF DefinePool, LibvirtOK
  <2>3. /\ \E p \in {"build", "start", "done"} : phase' = [phase EXCEPT ![r] = p]
        /\ failed' = failed \/ failed' = [failed EXCEPT ![r] = TRUE]
    BY <1>8 DEF DefinePool, AfterDefinition
  <2>4. HandlersOK' BY <1>8, <2>3 DEF DefinePool, Disturb, handler, Phases
  <2>5. Way(r)' BY <1>8, <2>1, <2>3 DEF DefinePool, handler, Way
  <2> QED BY <2>2, <2>4, <2>5
<1>9. CASE BuildPool(r) \/ StartNewPool(r) \/ AutostartNewPool(r)
  <2>1. form[r].pool \in Pools /\ form[r].op = "create_pool" /\ form[r] \in Forms
    BY <1>9, FormFacts DEF BuildPool, StartNewPool, AutostartNewPool, Way
  <2>2. LibvirtOK'
    BY <1>9, <2>1 DEF BuildPool, StartNewPool, AutostartNewPool, LibvirtOK
  <2>3. \E p \in {"start", "autostart", "done"} : phase' = [phase EXCEPT ![r] = p]
    BY <1>9 DEF BuildPool, StartNewPool, AutostartNewPool
  <2>4. HandlersOK'
    BY <1>9, <2>3 DEF BuildPool, StartNewPool, AutostartNewPool, Disturb, handler, Phases
  <2>5. Way(r)'
    BY <1>9, <2>1, <2>3 DEF BuildPool, StartNewPool, AutostartNewPool, handler, Way
  <2> QED BY <2>2, <2>4, <2>5
<1>10. CASE Refused(r)
  <2>1. /\ \E p \in {"start", "autostart", "done"} : phase' = [phase EXCEPT ![r] = p]
        /\ phase'[r] \in {"start", "autostart"} => phase[r] \in {"build", "start"}
        /\ phase[r] # "idle"
    BY <1>10 DEF Refused, AfterRefusal
  <2>2. HandlersOK' BY <1>10, <2>1 DEF Refused, handler, Phases
  <2>3. Way(r)' BY <1>10, <2>1 DEF Refused, handler, Way
  <2> QED BY <1>0, <1>10, <2>2, <2>3 DEF Refused
<1>11. CASE Finish(r)
  <2>1. HandlersOK' BY <1>11, ProvisioningAssumption DEF Finish, Phases
  <2>2. Way(r)' BY <1>11 DEF Finish, Way
  <2> QED BY <1>0, <1>11, <2>1, <2>2 DEF Finish
<1> QED BY <1>1, <1>2, <1>3, <1>4, <1>6, <1>7, <1>8, <1>9, <1>10, <1>11
        DEF Step, CreateStep, CreatePoolStep

LEMMA TypesStep == TypeInv /\ [Next]_vars => TypeInv'
<1> SUFFICES ASSUME TypeInv, [Next]_vars PROVE TypeInv' OBVIOUS
<1>1. ASSUME NEW r \in Requests, Step(r) PROVE TypeInv'
  <2>1. LibvirtOK' /\ HandlersOK' /\ Way(r)' BY <1>1, TypesOfStep
  <2>2. ASSUME NEW q \in Requests, q # r PROVE Way(q)'
    BY <1>1, <2>2, OthersAlone DEF Alone, TypeInv, Way
  <2> QED BY <2>1, <2>2 DEF TypeInv
<1>2. CASE OtherPage
  <2>1. LibvirtOK'
    <3>1. ASSUME NEW p \in Pools, PoolPage(p) PROVE LibvirtOK'
      <4>1. pool' \in [Pools -> {"none", "off", "on"}]
        BY <3>1 DEF PoolPage, TypeInv, LibvirtOK
      <4>2. \A name \in Names : <<p, name>> \in Paths BY DEF Paths
      <4>3. vols' \subseteq Paths BY <3>1, <4>2 DEF PoolPage, TypeInv, LibvirtOK
      <4>4. built' \subseteq Pools /\ autostart' \subseteq Pools /\ doms' = doms
        BY <3>1 DEF PoolPage, TypeInv, LibvirtOK
      <4> QED BY <4>1, <4>3, <4>4 DEF TypeInv, LibvirtOK
    <3>2. ASSUME NEW name \in Names, UndefineDomain(name) PROVE LibvirtOK'
      BY <3>2 DEF UndefineDomain, TypeInv, LibvirtOK
    <3> QED BY <1>2, <3>1, <3>2 DEF OtherPage
  <2>2. HandlersOK' BY <1>2, ProvisioningAssumption DEF OtherPage, TypeInv, HandlersOK, handler
  <2>3. \A r \in Requests : Way(r)' BY <1>2 DEF OtherPage, TypeInv, Way, handler
  <2> QED BY <2>1, <2>2, <2>3 DEF TypeInv
<1>3. CASE UNCHANGED vars
  <2>1. LibvirtOK' BY <1>3 DEF vars, libvirt, TypeInv, LibvirtOK
  <2> QED BY <1>3, <2>1 DEF vars, handler, TypeInv, HandlersOK, Way
<1> QED BY <1>1, <1>2, <1>3 DEF Next, Step

THEOREM ProvisioningTypes == Spec => []TypeInv
<1>1. Init => TypeInv
  <2> SUFFICES ASSUME Init PROVE TypeInv OBVIOUS
  <2>1. LibvirtOK BY ProvisioningAssumption DEF Init, LibvirtOK
  <2>2. HandlersOK BY ProvisioningAssumption DEF Init, HandlersOK, Phases
  <2> QED BY <2>1, <2>2 DEF Init, TypeInv, Way
<1> QED BY <1>1, TypesStep, PTL DEF Spec

-----------------------------------------------------------------------------
(* A disk that was made for a domain keeps the name of its domain.          *)
LEMMA SharingStep == TypeInv /\ TypeInv' /\ SharingInv /\ [Next]_vars => SharingInv'
<1> SUFFICES ASSUME TypeInv, TypeInv', SharingInv, [Next]_vars PROVE SharingInv' OBVIOUS
<1> USE DEF TypeInv, HandlersOK, Goto
<1>1. ASSUME NEW r \in Requests, Step(r) PROVE OwnImages(r)'
  <2>1. CASE \E f \in Forms : Post(r, f)
    <3>1. images'[r] = {} BY <2>1 DEF Post, Way
    <3> QED BY <3>1 DEF OwnImages
  <2>2. CASE MakeVolume(r)
    <3>1. form[r] \in Forms /\ form[r].op \in {"new", "template"} /\ images[r] = {}
      BY <2>2 DEF MakeVolume, Way
    <3>2. NewPath(form[r])[2] = form[r].name BY <3>1, NewPathFacts
    <3>3. images'[r] = {} \/ images'[r] = {NewPath(form[r])} BY <2>2, <3>1 DEF MakeVolume
    <3> QED BY <2>2, <3>2, <3>3 DEF OwnImages, MakeVolume
  <2>3. CASE LookUpImage(r)
    BY <2>3 DEF LookUpImage, Way, OwnImages
  <2>4. CASE Finish(r) BY <2>4 DEF Finish, OwnImages
  <2>5. CASE \/ ImagesFound(r) \/ CreateDomain(r) \/ CreateXml(r) \/ CreatePoolStep(r)
             \/ Refused(r)
    <3>1. phase[r] # "idle" /\ UNCHANGED <<form, images>>
      BY <2>5 DEF ImagesFound, CreateDomain, CreateXml, CreatePoolStep, DefinePool, BuildPool,
                  StartNewPool, AutostartNewPool, Refused, handler
    <3> QED BY <3>1 DEF SharingInv, OwnImages
  <2> QED BY <1>1, <2>1, <2>2, <2>3, <2>4, <2>5 DEF Step, CreateStep
<1>2. ASSUME NEW q \in Requests PROVE OwnImages(q)'
  <2>1. CASE Alone(q) BY <2>1 DEF Alone, SharingInv, OwnImages
  <2>2. CASE OtherPage \/ UNCHANGED vars
    BY <2>1, <2>2 DEF OtherPage, vars, handler, Alone
  <2> QED BY <1>1, <2>1, <2>2, OthersAlone DEF Next, Step
<1>3. ASSUME NEW n \in Names PROVE OwnDisks(n)'
  <2>1. CASE doms'[n] = doms[n] BY <2>1 DEF SharingInv, OwnDisks
  <2>2. ASSUME NEW r \in Requests, CreateDomain(r) PROVE OwnDisks(n)'
    <3> DEFINE d == [uuid |-> id[r], disks |-> images[r], picked |-> form[r].op = "images"]
    <3>1. phase[r] = "define" /\ form[r].op \in Creations BY <2>2 DEF CreateDomain, Way
    <3>2. ~d.picked => \A path \in d.disks : path[2] = form[r].name
      BY <3>1 DEF SharingInv, OwnImages, Creations
    <3>3. doms' = doms \/ doms' = [doms EXCEPT ![form[r].name] = d] BY <2>2 DEF CreateDomain
    <3>4. doms'[n] = doms[n] \/ (n = form[r].name /\ doms'[n] = d)
      BY <3>3 DEF LibvirtOK
    <3> QED BY <2>1, <3>2, <3>4 DEF OwnDisks
  <2>3. ASSUME NEW r \in Requests, CreateXml(r) PROVE OwnDisks(n)'
    <3>1. doms'[n] = doms[n] \/ doms'[n].picked BY <2>3 DEF CreateXml, LibvirtOK
    <3> QED BY <2>1, <3>1 DEF OwnDisks
  <2>4. CASE OtherPage
    <3>1. doms'[n] = doms[n] \/ doms'[n] = None
      BY <2>4 DEF OtherPage, PoolPage, UndefineDomain, LibvirtOK
    <3> QED BY <2>1, <3>1 DEF OwnDisks
  <2>5. ASSUME NEW r \in Requests,
               \/ \E f \in Forms : Post(r, f)
               \/ MakeVolume(r) \/ LookUpImage(r) \/ ImagesFound(r)
               \/ CreatePoolStep(r) \/ Refused(r) \/ Finish(r)
        PROVE  OwnDisks(n)'
    BY <2>1, <2>5 DEF Post, MakeVolume, LookUpImage, ImagesFound, CreatePoolStep, DefinePool,
                      BuildPool, StartNewPool, AutostartNewPool, Refused, Finish, libvirt
  <2>6. CASE UNCHANGED vars BY <2>1, <2>6 DEF vars, libvirt
  <2> HIDE DEF TypeInv, HandlersOK, Goto
  <2>7. ASSUME NEW r \in Requests, Step(r) PROVE OwnDisks(n)'
    BY <2>2, <2>3, <2>5, <2>7 DEF Step, CreateStep
  <2> QED BY <2>4, <2>6, <2>7 DEF Next, Step
<1> QED BY <1>2, <1>3 DEF SharingInv

(* Two domains never end up on the same disk unless somebody picked the     *)
(* disks of one of them (Create::index names the volume as the domain).     *)
THEOREM DisksAreNotShared == Spec => []NoAccidentalSharing
<1>1. Init => SharingInv BY DEF Init, SharingInv, OwnDisks, OwnImages
<1>2. SharingInv => NoAccidentalSharing BY DEF SharingInv, OwnDisks, NoAccidentalSharing
<1> QED BY <1>1, <1>2, SharingStep, ProvisioningTypes, PTL DEF Spec

-----------------------------------------------------------------------------
(* Each step of an undisturbed creation leads on towards what was asked.    *)
LEMMA DomainOfStep ==
    ASSUME TypeInv, TypeInv', NEW r \in Requests, Step(r),
           quiet[r] => DomainOnItsWay(r), quiet'[r]
    PROVE  DomainOnItsWay(r)'
<1> USE DEF TypeInv, HandlersOK, Goto
<1> SUFFICES ASSUME phase'[r] # "idle", form'[r].op \in Creations,
                    (Needed(form[r]) \subseteq Visible)'
             PROVE  /\ phase'[r] = "lookup" => images'[r] \cup todo'[r] = Asked(form'[r])
                    /\ phase'[r] = "define" => images'[r] = Asked(form'[r])
                                               /\ Asked(form'[r]) \subseteq Visible'
                    /\ phase'[r] = "done" /\ ~failed'[r] =>
                          /\ doms'[form'[r].name].uuid = id'[r]
                          /\ doms'[form'[r].name].disks = Asked(form'[r])
                          /\ Asked(form'[r]) \subseteq Visible'
  BY DEF DomainOnItsWay, ImagesComplete
<1>1. ASSUME NEW f \in Forms, Post(r, f)
      PROVE  phase'[r] = "lookup" => images'[r] \cup todo'[r] = Asked(form'[r])
  <2>1. /\ form'[r] = f /\ phase'[r] = FirstPhase(f) /\ images'[r] = {}
        /\ f.op = "images" => todo'[r] = f.images
    BY <1>1 DEF Post, Way
  <2>2. FirstPhase(f) = "lookup" => f.op = "images"
    BY FormFacts DEF FirstPhase, Creations
  <2> QED BY <2>1, <2>2 DEF Asked
<1>2. ASSUME NEW f \in Forms, Post(r, f)
      PROVE  phase'[r] \notin {"define", "done"}
  BY <1>2, FormFacts DEF Post, FirstPhase, Creations
<1>3. CASE MakeVolume(r)
  <2> DEFINE f == form[r]
  <2>1. f \in Forms /\ f.op \in {"new", "template"} /\ form' = form
    BY <1>3 DEF MakeVolume, Way
  <2>2. Asked(f) = {NewPath(f)} /\ NewPath(f) \in Paths /\ pool' = pool
    BY <1>3, <2>1, NewPathFacts DEF Asked, MakeVolume
  <2>3. CASE f.op = "template" /\ f.template \notin Visible
    <3>1. vols' = vols BY <1>3, <2>3 DEF MakeVolume
    <3>2. Visible' = Visible BY <2>2, <3>1 DEF Visible
    <3> QED BY <2>1, <2>3, <3>2 DEF Needed
  <2>4. CASE ~(f.op = "template" /\ f.template \notin Visible)
    <3>1. CASE pool[NewPath(f)[1]] # "on" \/ NewPath(f) \in vols
      BY <1>3, <2>4, <3>1 DEF MakeVolume
    <3>2. CASE ~(pool[NewPath(f)[1]] # "on" \/ NewPath(f) \in vols)
      <4>1. /\ phase'[r] = "define" /\ images'[r] = {NewPath(f)}
            /\ vols' = vols \cup {NewPath(f)}
        BY <1>3, <2>4, <3>2 DEF MakeVolume
      <4>2. NewPath(f) \in Visible' BY <2>2, <3>2, <4>1 DEF Visible
      <4> QED BY <2>1, <2>2, <4>1, <4>2
    <3> QED BY <3>1, <3>2
  <2> QED BY <2>3, <2>4
<1>4. CASE LookUpImage(r)
  <2>1. /\ phase' = phase /\ phase[r] = "lookup" /\ form' = form /\ quiet' = quiet
        /\ UNCHANGED libvirt
    BY <1>4 DEF LookUpImage
  <2>2. Visible' = Visible BY <2>1 DEF libvirt, Visible
  <2>3. form[r].op = "images" /\ Needed(form[r]) = form[r].images
    BY <2>1 DEF Way, Needed
  <2>4. images[r] \cup todo[r] = Asked(form[r])
    BY <2>1, <2>2 DEF DomainOnItsWay, ImagesComplete
  <2>5. PICK path \in todo[r] :
           /\ todo'[r] = todo[r] \ {path}
           /\ images'[r] = IF path \in Visible THEN images[r] \cup {path} ELSE images[r]
    BY <1>4 DEF LookUpImage
  <2>6. path \in Visible BY <2>1, <2>2, <2>3, <2>4 DEF Asked
  <2> QED BY <2>1, <2>4, <2>5, <2>6
<1>5. CASE ImagesFound(r)
  <2>1. /\ phase[r] = "lookup" /\ phase'[r] = "define" /\ quiet' = quiet /\ todo[r] = {}
        /\ UNCHANGED <<libvirt, handler>>
    BY <1>5 DEF ImagesFound
  <2>2. Visible' = Visible /\ form' = form /\ images' = images
    BY <2>1 DEF libvirt, handler, Visible
  <2>3. form[r].op = "images" /\ Needed(form[r]) = Asked(form[r])
    BY <2>1 DEF Way, Needed, Asked
  <2>4. images[r] \cup todo[r] = Asked(form[r])
    BY <2>1, <2>2 DEF DomainOnItsWay, ImagesComplete
  <2> QED BY <2>1, <2>2, <2>3, <2>4
<1>6. CASE CreateDomain(r)
  <2> DEFINE name == form[r].name
  <2>1. /\ phase[r] = "define" /\ phase'[r] = "done" /\ quiet[r]
        /\ UNCHANGED <<handler, pool, vols>>
    BY <1>6 DEF CreateDomain, Disturb
  <2>2. Visible' = Visible /\ form' = form /\ id' = id
    BY <2>1 DEF handler, Visible
  <2>3. images[r] = Asked(form[r]) /\ Asked(form[r]) \subseteq Visible
    BY <2>1, <2>2 DEF DomainOnItsWay, ImagesComplete
  <2>4. name \in Names BY <2>1, FormFacts DEF Way
  <2>5. ~failed'[r] => doms' = [doms EXCEPT ![name] =
            [uuid |-> id[r], disks |-> images[r], picked |-> form[r].op = "images"]]
    BY <1>6 DEF CreateDomain
  <2>6. ~failed'[r] => doms'[name].uuid = id[r] /\ doms'[name].disks = images[r]
    BY <2>4, <2>5 DEF LibvirtOK
  <2> QED BY <2>1, <2>2, <2>3, <2>6
<1>7. CASE CreateXml(r) \/ CreatePoolStep(r)
  <2>1. form'[r].op \notin Creations
    BY <1>7 DEF CreateXml, CreatePoolStep, DefinePool, BuildPool, StartNewPool,
                AutostartNewPool, Way, handler, Creations
  <2> QED BY <2>1
<1>8. CASE Refused(r)
  <2>1. form' = form /\ phase[r] # "idle" BY <1>8 DEF Refused, handler
  <2>2. phase[r] \in {"volume", "define"}
    BY <1>8, <2>1 DEF Refused, Way, Creations
  <2>3. phase'[r] = "done" /\ failed'[r] BY <1>8, <2>2 DEF Refused, AfterRefusal
  <2> QED BY <2>3
<1>9. CASE Finish(r) BY <1>9 DEF Finish
<1> QED BY <1>1, <1>2, <1>3, <1>4, <1>5, <1>6, <1>7, <1>8, <1>9 DEF Step, CreateStep

LEMMA PoolOfStep ==
    ASSUME TypeInv, TypeInv', NEW r \in Requests, Step(r),
           quiet[r] => PoolOnItsWay(r), quiet'[r]
    PROVE  PoolOnItsWay(r)'
<1> USE DEF TypeInv, HandlersOK, LibvirtOK, Goto
<1>1. ASSUME NEW f \in Forms, Post(r, f) PROVE PoolOnItsWay(r)'
  <2>1. phase'[r] \in {"volume", "lookup", "xml", "pool"}
    BY <1>1, FormFacts DEF Post, FirstPhase, Creations
  <2> QED BY <2>1 DEF PoolOnItsWay
<1>2. CASE CreateStep(r)
  <2>1. form'[r].op # "create_pool"
    BY <1>2 DEF CreateStep, MakeVolume, LookUpImage, ImagesFound, CreateDomain, CreateXml,
                Way, handler, Creations
  <2> QED BY <2>1 DEF PoolOnItsWay
<1>3. CASE CreatePoolStep(r)
  <2> DEFINE p == form[r].pool
  <2>1. /\ form[r] \in Forms /\ form[r].op = "create_pool" /\ phase[r] # "idle"
        /\ UNCHANGED <<form, fault>> /\ quiet[r]
    BY <1>3 DEF CreatePoolStep, DefinePool, BuildPool, StartNewPool, AutostartNewPool, Way,
                handler, Disturb
  <2>2. p \in Pools BY <2>1, FormFacts
  <2> SUFFICES ASSUME ~fault[r]
               PROVE  /\ phase'[r] = "build" => pool'[p] = "off"
                      /\ phase'[r] = "start" => Startable(p)'
                      /\ phase'[r] = "autostart" => pool'[p] = "on"
                      /\ phase'[r] = "done" /\ ~failed'[r] => pool'[p] = "on" /\ p \in autostart'
    BY <2>1 DEF PoolOnItsWay, Startable
  <2>3. /\ phase[r] = "build" => pool[p] = "off"
        /\ phase[r] = "start" => Startable(p)
        /\ phase[r] = "autostart" => pool[p] = "on"
    BY <2>1 DEF PoolOnItsWay
  <2>8. /\ pool \in [Pools -> {"none", "off", "on"}]
        /\ phase \in [Requests -> Phases] /\ failed \in [Requests -> BOOLEAN]
    OBVIOUS
  <2> HIDE DEF TypeInv, HandlersOK, LibvirtOK
  <2>4. CASE DefinePool(r)
    <3>1. CASE pool[p] = "none"
      <4>1. /\ pool'[p] = "off" /\ phase'[r] = AfterDefinition(p)
            /\ UNCHANGED <<built, autostart>>
        BY <2>2, <2>8, <2>4, <3>1 DEF DefinePool
      <4> QED BY <2>1, <4>1 DEF AfterDefinition, Startable
    <3>2. CASE pool[p] # "none"
      <4>1. phase'[r] = "done" /\ failed'[r] BY <2>8, <2>4, <3>2 DEF DefinePool
      <4> QED BY <4>1
    <3> QED BY <3>1, <3>2
  <2>5. CASE BuildPool(r)
    <3>1. /\ phase'[r] = "start" /\ UNCHANGED pool /\ pool[p] = "off"
          /\ built' = built \cup {p}
      BY <2>3, <2>8, <2>5 DEF BuildPool
    <3> QED BY <2>1, <3>1 DEF Startable
  <2>6. CASE StartNewPool(r)
    BY <2>2, <2>3, <2>8, <2>6 DEF StartNewPool
  <2>7. CASE AutostartNewPool(r)
    BY <2>2, <2>3, <2>8, <2>7 DEF AutostartNewPool
  <2> QED BY <1>3, <2>4, <2>5, <2>6, <2>7 DEF CreatePoolStep
<1>4. CASE Refused(r)
  <2>1. fault'[r] BY <1>4 DEF Refused
  <2> QED BY <2>1 DEF PoolOnItsWay
<1>5. CASE Finish(r) BY <1>5 DEF Finish, PoolOnItsWay
<1> QED BY <1>1, <1>2, <1>3, <1>4, <1>5 DEF Step

LEMMA QInvStep == TypeInv /\ TypeInv' /\ QInv /\ [Next]_vars => QInv'
<1> SUFFICES ASSUME TypeInv, TypeInv', QInv, [Next]_vars, NEW q \in Requests, quiet'[q]
             PROVE  (DomainOnItsWay(q) /\ PoolOnItsWay(q))'
  BY DEF QInv
<1>1. ASSUME Alone(q), quiet[q], UNCHANGED libvirt
      PROVE  (DomainOnItsWay(q) /\ PoolOnItsWay(q))'
  <2>1. Visible' = Visible /\ UNCHANGED <<pool, built, autostart, vols, doms>>
    BY <1>1 DEF libvirt, Visible
  <2>2. DomainOnItsWay(q) /\ PoolOnItsWay(q) BY <1>1 DEF QInv
  <2>3. DomainOnItsWay(q)'
    BY <1>1, <2>1, <2>2 DEF Alone, DomainOnItsWay, ImagesComplete
  <2>4. PoolOnItsWay(q)' BY <1>1, <2>1, <2>2 DEF Alone, PoolOnItsWay, Startable
  <2> QED BY <2>3, <2>4
<1>2. ASSUME NEW r \in Requests, Step(r)
      PROVE  (DomainOnItsWay(q) /\ PoolOnItsWay(q))'
  <2>1. CASE r = q BY <1>2, <2>1, DomainOfStep, PoolOfStep DEF QInv
  <2>2. CASE r # q BY <1>1, <1>2, <2>2, OthersAlone
  <2> QED BY <2>1, <2>2
<1>3. CASE OtherPage
  <2>1. Alone(q) /\ quiet[q] /\ UNCHANGED libvirt
    BY <1>3 DEF OtherPage, Alone, handler, TypeInv, HandlersOK
  <2> QED BY <1>1, <2>1
<1>4. CASE UNCHANGED vars BY <1>1, <1>4 DEF vars, handler, Alone
<1> QED BY <1>2, <1>3, <1>4 DEF Next, Step

LEMMA QInvariance == Spec => []QInv
<1>1. Init => QInv BY DEF Init, QInv
<1> QED BY <1>1, QInvStep, ProvisioningTypes, PTL DEF Spec

(* When the browser is sent to the new domain, undisturbed, the domain is   *)
(* there with exactly the disks that were asked for, and they exist,        *)
(* provided that the template or the images do (Create::index).             *)
THEOREM DomainsAreAsAsked == Spec => []CreatedAsAsked
<1>1. QInv => CreatedAsAsked
  BY DEF QInv, DomainOnItsWay, ImagesComplete, CreatedAsAsked, Creations
<1> QED BY <1>1, QInvariance, PTL

(* A pool that was created, undisturbed and without a refusal, is on and    *)
(* starts with its host (Connection::createStoragePool and its callers).    *)
THEOREM PoolsComeUp == Spec => []PoolComesUp
<1>1. QInv => PoolComesUp BY DEF QInv, PoolOnItsWay, PoolComesUp
<1> QED BY <1>1, QInvariance, PTL
===============================================================================
