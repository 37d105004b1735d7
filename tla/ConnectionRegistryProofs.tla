---------------------- MODULE ConnectionRegistryProofs ----------------------
(***************************************************************************)
(* Proofs about ConnectionRegistry, for any workers, requests, ids and     *)
(* configurations.                                                         *)
(***************************************************************************)
EXTENDS ConnectionRegistry, FiniteSetTheorems, SequenceTheorems, TLAPS

VirConns == [Handles -> [refs : Nat, peer : Row, link : Links]]
Pointers == [Owners -> Pointer]
HoldersIn(mc, h) == {o \in Owners : mc[o] = h}

(* RefCountExact of a table of virConnects and a table of owners. *)
Counted(vc, mc) == \A h \in Handles : vc[h].refs = Cardinality(HoldersIn(mc, h))

(* An owner that keeps its pointer keeps its peer. *)
Undisturbed(vc, mc, vc2, mc2) ==
    \A o \in Owners : mc2[o] # Null /\ mc2[o] = mc[o] => vc2[mc2[o]].peer = vc[mc[o]].peer

-----------------------------------------------------------------------------
(* The references of a virConnectPtr are finitely many. *)
LEMMA OwnersFinite == IsFiniteSet(Owners)
<1> DEFINE Who  == Workers \cup Requests
           Kind == {"registry"} \cup ({"context"} \cup {"doomed"})
           Pair == Kind \X (Who \X Ids)
           f    == [o \in Owners |-> <<o[1], <<o[2], o[3]>>>>]
<1>1. IsFiniteSet(Who) BY RegistryAssumption, FS_Union
<1>2. IsFiniteSet(Kind)
  <2>1. IsFiniteSet({"registry"}) /\ IsFiniteSet({"context"}) /\ IsFiniteSet({"doomed"})
    BY FS_Singleton
  <2> QED BY <2>1, FS_Union
<1>3. IsFiniteSet(Pair)
  <2>1. IsFiniteSet(Who \X Ids) BY <1>1, RegistryAssumption, FS_Product
  <2> QED BY <1>2, <2>1, FS_Product
<1>4. f \in Injection(Owners, Pair)
  <2>1. f \in [Owners -> Pair] BY DEF Owners
  <2>2. \A a, b \in Owners : f[a] = f[b] => a = b BY DEF Owners
  <2> QED BY <2>1, <2>2 DEF Injection, IsInjective
<1> QED BY <1>3, <1>4, FS_Injection

(* An owner of a handle is one of its references. *)
LEMMA HeldIsOpen ==
    ASSUME NEW vc \in VirConns, NEW mc \in Pointers, Counted(vc, mc),
           NEW o \in Owners, mc[o] # Null
    PROVE  mc[o] \in Handles /\ vc[mc[o]].refs \in Nat \ {0}
<1> DEFINE S == HoldersIn(mc, mc[o])
<1>1. mc[o] \in Handles BY DEF Pointers, Pointer
<1>2. IsFiniteSet(S) BY OwnersFinite, FS_Subset DEF HoldersIn
<1>3. o \in S BY DEF HoldersIn
<1>4. Cardinality(S) \in Nat /\ Cardinality(S) # 0
  BY <1>2, <1>3, FS_CardinalityType, FS_EmptySet
<1> QED BY <1>1, <1>4 DEF Counted

(* A handle with no reference has no owner. *)
LEMMA FreeIsUnheld ==
    ASSUME NEW vc \in VirConns, NEW mc \in Pointers, Counted(vc, mc),
           NEW h \in Handles, vc[h].refs = 0
    PROVE  \A o \in Owners : mc[o] # h
BY HeldIsOpen, RegistryAssumption

(* Clearing an owner and releasing its reference keeps the count. *)
LEMMA ReleaseCounted ==
    ASSUME NEW vc \in VirConns, NEW mc \in Pointers, Counted(vc, mc),
           NEW o \in Owners
    PROVE  LET vc2 == Release(vc, mc[o])
               mc2 == [mc EXCEPT ![o] = Null]
           IN  /\ vc2 \in VirConns /\ mc2 \in Pointers /\ Counted(vc2, mc2)
               /\ Undisturbed(vc, mc, vc2, mc2)
<1> DEFINE h == mc[o]
           vc2 == Release(vc, h)
           mc2 == [mc EXCEPT ![o] = Null]
<1>1. mc2 \in Pointers BY DEF Pointers, Pointer
<1>2. CASE h = Null
  <2>1. vc2 = vc /\ mc2 = mc BY <1>2 DEF Release, Pointers
  <2> QED BY <1>1, <2>1 DEF Undisturbed
<1>3. CASE h # Null
  <2>1. h \in Handles /\ vc[h].refs \in Nat \ {0} BY <1>3, HeldIsOpen
  <2>2. vc2 \in VirConns
    BY <1>3, <2>1 DEF Release, VirConns, Closed, Row, Links
  <2>3. ASSUME NEW g \in Handles
        PROVE  vc2[g].refs = Cardinality(HoldersIn(mc2, g))
    <3>1. CASE g = h
      <4>1. HoldersIn(mc2, g) = HoldersIn(mc, g) \ {o}
        BY <3>1, <1>3 DEF HoldersIn, Pointers
      <4>2. IsFiniteSet(HoldersIn(mc, g)) BY OwnersFinite, FS_Subset DEF HoldersIn
      <4>3. o \in HoldersIn(mc, g) BY <3>1 DEF HoldersIn
      <4>4. Cardinality(HoldersIn(mc2, g)) = vc[g].refs - 1
        BY <4>1, <4>2, <4>3, FS_RemoveElement DEF Counted
      <4>5. vc2[g].refs = vc[g].refs - 1
        BY <3>1, <1>3, <2>1 DEF Release, VirConns, Closed
      <4> QED BY <4>4, <4>5
    <3>2. CASE g # h
      <4>1. HoldersIn(mc2, g) = HoldersIn(mc, g)
        BY <3>2, RegistryAssumption DEF HoldersIn, Pointers
      <4>2. vc2[g] = vc[g] BY <3>2, <1>3 DEF Release, VirConns
      <4> QED BY <4>1, <4>2 DEF Counted
    <3> QED BY <3>1, <3>2
  <2>4. Undisturbed(vc, mc, vc2, mc2)
    <3> SUFFICES ASSUME NEW p \in Owners, mc2[p] # Null, mc2[p] = mc[p]
                 PROVE  vc2[mc[p]].peer = vc[mc[p]].peer
      BY DEF Undisturbed
    <3>1. mc[p] \in Handles /\ p # o BY DEF Pointers, Pointer
    <3>2. CASE mc[p] = h
      <4>1. IsFiniteSet(HoldersIn(mc2, h)) BY OwnersFinite, FS_Subset DEF HoldersIn
      <4>2. p \in HoldersIn(mc2, h) BY <3>2 DEF HoldersIn
      <4>3. vc2[h].refs # 0
        BY <4>1, <4>2, <2>1, <2>3, FS_EmptySet
      <4> QED BY <4>3, <3>2, <1>3, <2>1 DEF Release, VirConns, Closed
    <3>3. CASE mc[p] # h BY <3>3, <3>1, <1>3 DEF Release, VirConns
    <3> QED BY <3>2, <3>3
  <2> QED BY <1>1, <2>2, <2>3, <2>4 DEF Counted
<1> QED BY <1>2, <1>3

(* Pointing an owner without pointer to a newly opened handle does, too. *)
LEMMA OpenCounted ==
    ASSUME NEW vc \in VirConns, NEW mc \in Pointers, Counted(vc, mc),
           NEW o \in Owners, mc[o] = Null,
           NEW h \in Handles, vc[h].refs = 0, NEW cfg \in Row
    PROVE  LET vc2 == Opened(vc, h, cfg)
               mc2 == [mc EXCEPT ![o] = h]
           IN  /\ vc2 \in VirConns /\ mc2 \in Pointers /\ Counted(vc2, mc2)
               /\ Undisturbed(vc, mc, vc2, mc2)
               /\ vc2[mc2[o]].peer = cfg
<1> DEFINE vc2 == Opened(vc, h, cfg)
           mc2 == [mc EXCEPT ![o] = h]
<1>1. mc2 \in Pointers BY DEF Pointers, Pointer
<1>2. vc2 \in VirConns BY DEF Opened, VirConns, Links
<1>3. \A p \in Owners : mc[p] # h BY FreeIsUnheld
<1>4. h # Null BY RegistryAssumption
<1>5. ASSUME NEW g \in Handles
      PROVE  vc2[g].refs = Cardinality(HoldersIn(mc2, g))
  <2>1. CASE g = h
    <3>1. HoldersIn(mc2, g) = {o} BY <2>1, <1>3 DEF HoldersIn, Pointers
    <3>2. Cardinality({o}) = 1 BY FS_Singleton
    <3> QED BY <2>1, <3>1, <3>2 DEF Opened, VirConns
  <2>2. CASE g # h
    <3>1. HoldersIn(mc2, g) = HoldersIn(mc, g)
      BY <2>2, RegistryAssumption DEF HoldersIn, Pointers
    <3> QED BY <2>2, <3>1 DEF Opened, VirConns, Counted
  <2> QED BY <2>1, <2>2
<1>6. Undisturbed(vc, mc, vc2, mc2)
  BY <1>3 DEF Undisturbed, Opened, VirConns, Pointers, Pointer
<1>7. vc2[mc2[o]].peer = cfg BY DEF Opened, VirConns, Pointers
<1> QED BY <1>1, <1>2, <1>5, <1>6, <1>7 DEF Counted

(* So does cloning into an owner without pointer. *)
LEMMA AddRefCounted ==
    ASSUME NEW vc \in VirConns, NEW mc \in Pointers, Counted(vc, mc),
           NEW o \in Owners, mc[o] = Null, NEW h \in Handles
    PROVE  LET vc2 == AddRef(vc, h)
               mc2 == [mc EXCEPT ![o] = h]
           IN  /\ vc2 \in VirConns /\ mc2 \in Pointers /\ Counted(vc2, mc2)
               /\ Undisturbed(vc, mc, vc2, mc2)
               /\ vc2[h].peer = vc[h].peer
<1> DEFINE vc2 == AddRef(vc, h)
           mc2 == [mc EXCEPT ![o] = h]
<1>1. mc2 \in Pointers BY DEF Pointers, Pointer
<1>2. h # Null BY RegistryAssumption
<1>3. vc2 \in VirConns BY <1>2 DEF AddRef, VirConns
<1>4. ASSUME NEW g \in Handles
      PROVE  vc2[g].refs = Cardinality(HoldersIn(mc2, g))
  <2>1. CASE g = h
    <3>1. HoldersIn(mc2, g) = HoldersIn(mc, g) \cup {o}
      BY <2>1 DEF HoldersIn, Pointers
    <3>2. IsFiniteSet(HoldersIn(mc, g)) BY OwnersFinite, FS_Subset DEF HoldersIn
    <3>3. o \notin HoldersIn(mc, g) BY <2>1, <1>2 DEF HoldersIn
    <3>4. Cardinality(HoldersIn(mc2, g)) = vc[g].refs + 1
      BY <3>1, <3>2, <3>3, FS_AddElement DEF Counted
    <3> QED BY <2>1, <3>4, <1>2 DEF AddRef, VirConns
  <2>2. CASE g # h
    <3>1. HoldersIn(mc2, g) = HoldersIn(mc, g)
      BY <2>2, RegistryAssumption DEF HoldersIn, Pointers
    <3> QED BY <2>2, <3>1, <1>2 DEF AddRef, VirConns, Counted
  <2> QED BY <2>1, <2>2
<1>5. \A g \in Handles : vc2[g].peer = vc[g].peer BY <1>2 DEF AddRef, VirConns
<1>6. Undisturbed(vc, mc, vc2, mc2) BY <1>1, <1>5 DEF Undisturbed, Pointers, Pointer
<1> QED BY <1>1, <1>3, <1>4, <1>5, <1>6 DEF Counted

(* So does handing a pointer over to an owner without one. *)
LEMMA MoveCounted ==
    ASSUME NEW vc \in VirConns, NEW mc \in Pointers, Counted(vc, mc),
           NEW o \in Owners, NEW p \in Owners, o # p, mc[p] = Null
    PROVE  LET mc2 == [mc EXCEPT ![p] = mc[o], ![o] = Null]
           IN  mc2 \in Pointers /\ Counted(vc, mc2) /\ Undisturbed(vc, mc, vc, mc2)
<1> DEFINE mc2 == [mc EXCEPT ![p] = mc[o], ![o] = Null]
<1>1. mc2 \in Pointers BY DEF Pointers, Pointer
<1>2. ASSUME NEW g \in Handles
      PROVE  Cardinality(HoldersIn(mc2, g)) = Cardinality(HoldersIn(mc, g))
  <2>1. IsFiniteSet(HoldersIn(mc, g)) BY OwnersFinite, FS_Subset DEF HoldersIn
  <2>2. g # Null BY RegistryAssumption
  <2>3. CASE mc[o] = g
    <3> DEFINE Rest == HoldersIn(mc, g) \ {o}
    <3>1. o \in HoldersIn(mc, g) /\ p \notin Rest BY <2>2, <2>3 DEF HoldersIn
    <3>2. HoldersIn(mc2, g) = Rest \cup {p} BY <2>2, <2>3 DEF HoldersIn, Pointers
    <3>3. IsFiniteSet(Rest) /\ Cardinality(Rest) = Cardinality(HoldersIn(mc, g)) - 1
      BY <2>1, <3>1, FS_RemoveElement
    <3>4. Cardinality(Rest \cup {p}) = Cardinality(Rest) + 1
      BY <3>1, <3>3, FS_AddElement
    <3>5. Cardinality(HoldersIn(mc, g)) \in Nat BY <2>1, FS_CardinalityType
    <3> HIDE DEF mc2, Rest
    <3> QED BY <3>2, <3>3, <3>4, <3>5
  <2>4. CASE mc[o] # g
    <3>1. HoldersIn(mc2, g) = HoldersIn(mc, g) BY <2>2, <2>4 DEF HoldersIn, Pointers
    <3> QED BY <3>1
  <2> QED BY <2>3, <2>4
<1>3. Undisturbed(vc, mc, vc, mc2) BY DEF Undisturbed
<1> QED BY <1>1, <1>2, <1>3 DEF Counted

-----------------------------------------------------------------------------
(* The inductive invariant. *)
ConnsOK == virConn \in VirConns /\ mconn \in Pointers /\ Counted(virConn, mconn)

ControlOK ==
    /\ db \in [Ids -> Row] /\ up \subseteq Configs
    /\ servers \in [Workers -> [Ids -> Row]]
    /\ stack \in [Workers -> Seq(Requests)] /\ on \in [Requests -> Workers]
    /\ phase \in [Requests -> Phases]
    /\ rows \in [Requests -> [Ids -> Row]] /\ todo \in [Requests -> SUBSET Ids]
    /\ edits \in 0..MaxEdits /\ outages \in 0..MaxOutages /\ failures \in 0..MaxFailures

(* A worker has one handler that executes, the innermost one. *)
Executing == {"update", "action", "listing", "using", "served", "return"}
OneExecutes == \A r \in Requests : phase[r] \in Executing => Running(r)

(* The bookkeeping of request r: updateConnections visits rows it read, a   *)
(* clone is made into a context that has none for that id yet, and the      *)
(* server of an id is erased once.                                          *)
VisitsRows(r) == phase[r] = "update" => \A id \in todo[r] : rows[r][id] # NoRow
ContextFills(r) ==
    \A id \in Ids : mconn[Context(r, id)] # Null =>
        /\ phase[r] \notin {"idle", "update", "action"}
        /\ phase[r] = "listing" => id \notin todo[r]
ErasesOnce(r) ==
    \A id \in Ids : phase[r] = "update" /\ mconn[Doomed(r, id)] # Null => id \notin Vanished(r)
LoopsOK(r) == VisitsRows(r) /\ ContextFills(r) /\ ErasesOnce(r)

IInv == ConnsOK /\ ControlOK /\ OneExecutes /\ \A r \in Requests : LoopsOK(r)
-----------------------------------------------------------------------------
LEMMA OwnerFacts ==
    /\ \A w \in Workers, id \in Ids : Registry(w, id) \in Owners
    /\ \A r \in Requests, id \in Ids : Context(r, id) \in Owners /\ Doomed(r, id) \in Owners
    /\ \A w \in Workers, r \in Requests, i, j \in Ids :
          /\ Registry(w, i) # Context(r, j) /\ Registry(w, i) # Doomed(r, j)
    /\ \A r, q \in Requests, i, j \in Ids :
          /\ Context(r, i) # Doomed(q, j)
          /\ Context(r, i) = Context(q, j) => r = q /\ i = j
          /\ Doomed(r, i) = Doomed(q, j) => r = q /\ i = j
    /\ \A v, w \in Workers, i, j \in Ids : Registry(v, i) = Registry(w, j) => v = w /\ i = j
BY DEF Registry, Context, Doomed, Owners

LEMMA HeldNone ==
    ASSUME NEW r, Held(r) = {}
    PROVE  \A id \in Ids : mconn[Context(r, id)] = Null
<1> SUFFICES ASSUME NEW id \in Ids, mconn[Context(r, id)] # Null PROVE FALSE OBVIOUS
<1>1. mconn[Context(r, id)] \in Held(r) BY DEF Held
<1> QED BY <1>1

LEMMA PushPop ==
    ASSUME NEW S, NEW s \in Seq(S), NEW x \in S
    PROVE  /\ <<x>> \o s \in Seq(S) /\ <<x>> \o s # <<>> /\ Head(<<x>> \o s) = x
           /\ s # <<>> => Tail(s) \in Seq(S)
<1>1. <<x>> \in Seq(S) /\ Len(<<x>>) = 1 /\ <<x>>[1] = x OBVIOUS
<1>2. <<x>> \o s \in Seq(S) /\ Len(<<x>> \o s) = 1 + Len(s) BY <1>1, ConcatProperties
<1>3. Len(s) \in Nat OBVIOUS
<1>4. (<<x>> \o s)[1] = x BY <1>1, <1>3, ConcatProperties
<1>5. s # <<>> => Tail(s) \in Seq(S) BY HeadTailProperties
<1>6. <<x>> \o s # <<>> BY <1>2, <1>3
<1> QED BY <1>2, <1>4, <1>5, <1>6

LEMMA NewHandleFree ==
    ASSUME ConnsOK, FreeHandles # {}
    PROVE  /\ NewHandle \in Handles /\ virConn[NewHandle].refs = 0
           /\ \A o \in Owners : mconn[o] # NewHandle
           /\ \A h : h # NewHandle => Release(virConn, h)[NewHandle].refs = 0
<1>1. NewHandle \in Handles /\ virConn[NewHandle].refs = 0
  BY DEF NewHandle, FreeHandles
<1>2. \A o \in Owners : mconn[o] # NewHandle BY <1>1, FreeIsUnheld DEF ConnsOK
<1>3. \A h : h # NewHandle => Release(virConn, h)[NewHandle] = virConn[NewHandle]
  BY <1>1 DEF Release, ConnsOK, VirConns
<1> QED BY <1>1, <1>2, <1>3

(* Replacing the Connection of an owner. *)
LEMMA ReconnectStep ==
    ASSUME ConnsOK, NEW o \in Owners, NEW cfg \in Row, Reconnect(o, cfg)
    PROVE  /\ ConnsOK' /\ Undisturbed(virConn, mconn, virConn', mconn')
           /\ \A p \in Owners : p # o => mconn'[p] = mconn[p]
           /\ mconn'[o] # Null => virConn'[mconn'[o]].peer = cfg
<1> DEFINE vc1 == Release(virConn, mconn[o])
           mc1 == [mconn EXCEPT ![o] = Null]
<1>1. /\ vc1 \in VirConns /\ mc1 \in Pointers /\ Counted(vc1, mc1)
      /\ Undisturbed(virConn, mconn, vc1, mc1)
  BY ReleaseCounted DEF ConnsOK
<1>2. mc1[o] = Null BY DEF ConnsOK, Pointers
<1>3. CASE cfg \in up
  <2> DEFINE vc2 == Opened(vc1, NewHandle, cfg)
             mc2 == [mc1 EXCEPT ![o] = NewHandle]
  <2>1. /\ NewHandle \in Handles
        /\ \A p \in Owners : mconn[p] # NewHandle
        /\ vc1[NewHandle].refs = 0
    BY <1>3, NewHandleFree DEF Reconnect
  <2>2. /\ vc2 \in VirConns /\ mc2 \in Pointers /\ Counted(vc2, mc2)
        /\ Undisturbed(vc1, mc1, vc2, mc2) /\ vc2[mc2[o]].peer = cfg
    <3> HIDE DEF vc1, mc1
    <3> QED BY <1>1, <1>2, <2>1, OpenCounted
  <2>3. virConn' = vc2 /\ mconn' = mc2 BY <1>3 DEF Reconnect, ConnsOK, Pointers
  <2>4. \A p \in Owners : p # o => mc2[p] = mconn[p] /\ mc1[p] = mconn[p]
    BY DEF ConnsOK, Pointers
  <2>5. mc2[o] = NewHandle BY DEF ConnsOK, Pointers
  <2>6. Undisturbed(virConn, mconn, vc2, mc2)
    <3> HIDE DEF vc1, mc1, vc2, mc2
    <3> QED BY <1>1, <2>1, <2>2, <2>4, <2>5 DEF Undisturbed
  <2> QED BY <2>2, <2>3, <2>4, <2>6 DEF ConnsOK
<1>4. CASE cfg \notin up
  <2>1. virConn' = vc1 /\ mconn' = mc1 BY <1>4 DEF Reconnect
  <2>2. \A p \in Owners : p # o => mc1[p] = mconn[p] BY DEF ConnsOK, Pointers
  <2> QED BY <1>1, <1>2, <2>1, <2>2 DEF ConnsOK
<1> QED BY <1>3, <1>4

(* Lending a connection to a context that has none for that id. *)
LEMMA BorrowStep ==
    ASSUME ConnsOK, NEW r \in Requests, NEW id \in Ids, on[r] \in Workers,
           servers[on[r]][id] \in Row,
           mconn[Context(r, id)] = Null, Borrow(r, id)
    PROVE  LET entry == Registry(on[r], id)
               clone == Context(r, id)
           IN  /\ ConnsOK' /\ Undisturbed(virConn, mconn, virConn', mconn')
               /\ \A p \in Owners \ {entry, clone} : mconn'[p] = mconn[p]
               /\ mconn'[clone] # Null => mconn'[clone] = mconn'[entry]
               /\ mconn'[entry] # mconn[entry] /\ mconn'[entry] # Null
                    => virConn'[mconn'[entry]].peer = servers[on[r]][id]
<1> DEFINE entry == Registry(on[r], id)
           clone == Context(r, id)
           h     == mconn[entry]
           cfg   == servers[on[r]][id]
           vc1   == Release(virConn, h)
           mc1   == [mconn EXCEPT ![entry] = Null]
<1>0. entry \in Owners /\ clone \in Owners /\ entry # clone /\ cfg \in Row BY OwnerFacts
<1>1. CASE IsAlive(h)
  <2>1. h \in Handles BY <1>0, <1>1 DEF IsAlive, ConnsOK, Pointers, Pointer
  <2>2. virConn' = AddRef(virConn, h) /\ mconn' = [mconn EXCEPT ![clone] = h]
    BY <1>1 DEF Borrow
  <2>3. ConnsOK' /\ Undisturbed(virConn, mconn, virConn', mconn')
    BY <1>0, <2>1, <2>2, AddRefCounted DEF ConnsOK
  <2>4. \A p \in Owners \ {clone} : mconn'[p] = mconn[p]
    BY <2>2 DEF ConnsOK, Pointers
  <2>5. mconn'[clone] = h BY <1>0, <2>2 DEF ConnsOK, Pointers
  <2> QED BY <1>0, <2>3, <2>4, <2>5
<1>2. CASE ~IsAlive(h)
  <2>1. /\ vc1 \in VirConns /\ mc1 \in Pointers /\ Counted(vc1, mc1)
        /\ Undisturbed(virConn, mconn, vc1, mc1)
    BY <1>0, ReleaseCounted DEF ConnsOK
  <2>2. /\ mc1[entry] = Null /\ mc1[clone] = Null
        /\ \A p \in Owners \ {entry} : mc1[p] = mconn[p]
    BY <1>0 DEF ConnsOK, Pointers
  <2>3. CASE cfg \in up
    <3> DEFINE n   == NewHandle
               vc2 == Opened(vc1, n, cfg)
               mc2 == [mc1 EXCEPT ![entry] = n]
               vc3 == AddRef(vc2, n)
               mc3 == [mc2 EXCEPT ![clone] = n]
    <3>1. FreeHandles # {} /\ virConn' = vc3
          /\ mconn' = [mconn EXCEPT ![entry] = n, ![clone] = n]
      BY <1>2, <2>3 DEF Borrow
    <3>2. n \in Handles /\ vc1[n].refs = 0 /\ \A p \in Owners : mconn[p] # n
      BY <1>0, <3>1, NewHandleFree
    <3>3. /\ vc2 \in VirConns /\ mc2 \in Pointers /\ Counted(vc2, mc2)
          /\ Undisturbed(vc1, mc1, vc2, mc2) /\ vc2[mc2[entry]].peer = cfg
      <4> HIDE DEF vc1, mc1, n, cfg, entry
      <4> QED BY <1>0, <2>1, <2>2, <3>2, OpenCounted
    <3>4. /\ mc2[entry] = n /\ mc2[clone] = Null
          /\ \A p \in Owners \ {entry, clone} : mc2[p] = mconn[p]
      <4> HIDE DEF mc1, n, entry, clone
      <4> QED BY <1>0, <2>1, <2>2 DEF Pointers
    <3>5. /\ vc3 \in VirConns /\ mc3 \in Pointers /\ Counted(vc3, mc3)
          /\ Undisturbed(vc2, mc2, vc3, mc3) /\ vc3[n].peer = vc2[n].peer
      <4> HIDE DEF vc2, mc2, n, clone
      <4> QED BY <1>0, <3>2, <3>3, <3>4, AddRefCounted
    <3>6. mconn' = mc3
      <4> HIDE DEF n, entry, clone
      <4> QED BY <1>0, <3>1 DEF ConnsOK, Pointers
    <3>7. /\ mc3[entry] = n /\ mc3[clone] = n
          /\ \A p \in Owners \ {entry, clone} : mc3[p] = mconn[p]
      <4> HIDE DEF mc2, n, entry, clone
      <4> QED BY <1>0, <3>3, <3>4 DEF Pointers
    <3>8. Undisturbed(virConn, mconn, vc3, mc3)
      <4> HIDE DEF vc1, mc1, vc2, mc2, vc3, mc3, n, entry, clone
      <4> QED BY <1>0, <2>1, <2>2, <3>2, <3>3, <3>4, <3>5, <3>7 DEF Undisturbed
    <3> HIDE DEF vc3, mc3, n
    <3> QED BY <1>0, <3>1, <3>3, <3>4, <3>5, <3>6, <3>7, <3>8 DEF ConnsOK
  <2>4. CASE cfg \notin up
    <3>1. virConn' = vc1 /\ mconn' = mc1 BY <1>2, <2>4 DEF Borrow
    <3> QED BY <1>0, <2>1, <2>2, <3>1 DEF ConnsOK
  <2> QED BY <2>3, <2>4
<1> QED BY <1>1, <1>2

(* Changing links only. *)
LEMMA RelinkStep ==
    ASSUME ConnsOK, mconn' = mconn, virConn' \in VirConns,
           \A h \in Handles : /\ virConn'[h].refs = virConn[h].refs
                              /\ virConn'[h].peer = virConn[h].peer
    PROVE  ConnsOK' /\ Undisturbed(virConn, mconn, virConn', mconn')
BY DEF ConnsOK, Counted, Undisturbed, HoldersIn, Pointers, Pointer
-----------------------------------------------------------------------------
(* No step miscounts the references, and none closes or retargets a handle  *)
(* under an owner that keeps it.                                            *)
LEMMA ConnsStep ==
    ASSUME IInv, [Next]_vars
    PROVE  ConnsOK' /\ Undisturbed(virConn, mconn, virConn', mconn')
<1> USE OwnerFacts DEF IInv
<1>0. ASSUME UNCHANGED conns
      PROVE  ConnsOK' /\ Undisturbed(virConn, mconn, virConn', mconn')
  BY <1>0 DEF conns, ConnsOK, Counted, HoldersIn, Undisturbed
<1>1. ASSUME NEW o \in Owners, virConn' = Release(virConn, mconn[o]),
             mconn' = [mconn EXCEPT ![o] = Null]
      PROVE  ConnsOK' /\ Undisturbed(virConn, mconn, virConn', mconn')
  BY <1>1, ReleaseCounted DEF ConnsOK
<1>2. ASSUME NEW r \in Requests, virConn' = Noticed(virConn, Held(r)), mconn' = mconn
      PROVE  ConnsOK' /\ Undisturbed(virConn, mconn, virConn', mconn')
  <2>1. \A h \in Handles : /\ virConn'[h].refs = virConn[h].refs
                           /\ virConn'[h].peer = virConn[h].peer
                           /\ virConn'[h] \in [refs : Nat, peer : Row, link : Links]
    BY <1>2 DEF Noticed, ConnsOK, VirConns, Links
  <2>2. virConn' \in VirConns BY <1>2, <2>1 DEF Noticed, VirConns
  <2> QED BY <1>2, <2>1, <2>2, RelinkStep
<1>3. ASSUME NEW r \in Requests, NEW id \in Ids, UpdateRow(r, id)
      PROVE  ConnsOK' /\ Undisturbed(virConn, mconn, virConn', mconn')
  <2>1. CASE servers[on[r]][id] = rows[r][id] BY <1>0, <1>3, <2>1 DEF UpdateRow
  <2>2. CASE servers[on[r]][id] # rows[r][id]
    <3>1. Reconnect(Registry(on[r], id), rows[r][id]) BY <1>3, <2>2 DEF UpdateRow
    <3>2. Registry(on[r], id) \in Owners /\ rows[r][id] \in Row BY DEF ControlOK
    <3> QED BY <3>1, <3>2, ReconnectStep
  <2> QED BY <2>1, <2>2
<1>4. ASSUME NEW r \in Requests, NEW id \in Ids, EraseServer(r, id)
      PROVE  ConnsOK' /\ Undisturbed(virConn, mconn, virConn', mconn')
  <2>1. mconn[Doomed(r, id)] = Null BY <1>4 DEF EraseServer, LoopsOK, ErasesOnce
  <2>2. /\ Registry(on[r], id) \in Owners /\ Doomed(r, id) \in Owners
        /\ Registry(on[r], id) # Doomed(r, id)
    BY DEF ControlOK
  <2>3. /\ virConn' = virConn
        /\ mconn' = [mconn EXCEPT ![Doomed(r, id)] = mconn[Registry(on[r], id)],
                                  ![Registry(on[r], id)] = Null]
    BY <1>4 DEF EraseServer
  <2> QED BY <2>1, <2>2, <2>3, MoveCounted DEF ConnsOK
<1>5. ASSUME NEW r \in Requests, NEW id \in Ids,
             mconn[Context(r, id)] = Null, Borrow(r, id)
      PROVE  ConnsOK' /\ Undisturbed(virConn, mconn, virConn', mconn')
  <2>1. on[r] \in Workers /\ servers[on[r]][id] \in Row BY DEF ControlOK
  <2> QED BY <1>5, <2>1, BorrowStep
<1>6. ASSUME NEW r \in Requests, NEW id \in Ids, GetConnection(r, id)
      PROVE  ConnsOK' /\ Undisturbed(virConn, mconn, virConn', mconn')
  <2>1. mconn[Context(r, id)] = Null BY <1>6 DEF GetConnection, LoopsOK, ContextFills
  <2> QED BY <1>0, <1>5, <1>6, <2>1 DEF GetConnection
<1>7. ASSUME NEW r \in Requests, NEW id \in Ids, ListServer(r, id)
      PROVE  ConnsOK' /\ Undisturbed(virConn, mconn, virConn', mconn')
  <2>1. mconn[Context(r, id)] = Null BY <1>7 DEF ListServer, LoopsOK, ContextFills
  <2> QED BY <1>5, <1>7, <2>1 DEF ListServer
<1>8. ASSUME NEW cfg \in Configs, HostDown(cfg)
      PROVE  ConnsOK' /\ Undisturbed(virConn, mconn, virConn', mconn')
  <2>1. \A h \in Handles : /\ virConn'[h].refs = virConn[h].refs
                           /\ virConn'[h].peer = virConn[h].peer
                           /\ virConn'[h] \in [refs : Nat, peer : Row, link : Links]
    BY <1>8 DEF HostDown, ConnsOK, VirConns, Links
  <2>2. virConn' \in VirConns BY <1>8, <2>1 DEF HostDown, VirConns
  <2> QED BY <1>8, <2>1, <2>2, RelinkStep DEF HostDown
<1>9. ASSUME NEW r \in Requests, NEW id \in Ids, DeleteLater(r, id) \/ DeleteClone(r, id)
      PROVE  ConnsOK' /\ Undisturbed(virConn, mconn, virConn', mconn')
  BY <1>1, <1>9 DEF DeleteLater, DeleteClone
<1>10. ASSUME NEW r \in Requests, CallLibvirt(r) \/ LeaveNestedLoop(r)
       PROVE  ConnsOK' /\ Undisturbed(virConn, mconn, virConn', mconn')
  BY <1>2, <1>10 DEF CallLibvirt, LeaveNestedLoop
<1>11. ASSUME NEW r \in Requests, Step(r)
       PROVE  ConnsOK' /\ Undisturbed(virConn, mconn, virConn', mconn')
  <2>1. \/ UNCHANGED conns
        \/ CallLibvirt(r) \/ LeaveNestedLoop(r)
        \/ \E id \in Ids : \/ UpdateRow(r, id) \/ EraseServer(r, id) \/ GetConnection(r, id)
                           \/ ListServer(r, id) \/ DeleteClone(r, id)
    BY <1>11 DEF Step, StartAction, OtherPage, ListServers, ServersListed, Respond,
                 EnterNestedLoop, KeepWebSocket, Finish, DeleteServer, CreateServer,
                 UpdateServer, WriteRow, conns
  <2> QED BY <1>0, <1>3, <1>4, <1>6, <1>7, <1>9, <1>10, <2>1
<1>12. \/ UNCHANGED conns
       \/ \E r \in Requests : Step(r) \/ \E id \in Ids : DeleteLater(r, id)
       \/ \E cfg \in Configs : HostDown(cfg)
  BY DEF Next, Arrive, TimerFires, WebSocketCloses, HostUp, vars, conns
<1> QED BY <1>0, <1>8, <1>9, <1>11, <1>12

(* The other variables keep their types. *)
LEMMA ControlStep ==
    ASSUME IInv, [Next]_vars
    PROVE  ControlOK'
<1> USE DEF IInv, ControlOK
<1>1. ASSUME NEW w \in Workers, NEW r \in Requests, Arrive(w, r)
      PROVE  ControlOK'
  <2>1. <<r>> \o stack[w] \in Seq(Requests) BY PushPop
  <2>2. rows' \in [Requests -> [Ids -> Row]] /\ todo' \in [Requests -> SUBSET Ids]
    <3>1. NoRows \in [Ids -> Row] BY DEF NoRows, Row
    <3>2. rows' = [rows EXCEPT ![r] = db] \/ rows' = [rows EXCEPT ![r] = NoRows]
      BY <1>1 DEF Arrive
    <3>3. \E ids \in SUBSET Ids : todo' = [todo EXCEPT ![r] = ids] BY <1>1 DEF Arrive
    <3> QED BY <3>1, <3>2, <3>3
  <2>3. stack' \in [Workers -> Seq(Requests)] BY <1>1, <2>1 DEF Arrive, Push
  <2>4. phase' \in [Requests -> Phases] /\ on' \in [Requests -> Workers]
    BY <1>1 DEF Arrive, Goto, Phases
  <2>5. failures' \in 0..MaxFailures BY <1>1, RegistryAssumption DEF Arrive
  <2>6. UNCHANGED <<db, up, servers, edits, outages>> BY <1>1 DEF Arrive, world
  <2> QED BY <2>2, <2>3, <2>4, <2>5, <2>6
<1>2. ASSUME NEW r \in Requests, NEW id \in Ids,
             UpdateRow(r, id) \/ EraseServer(r, id) \/ DeleteLater(r, id)
               \/ GetConnection(r, id) \/ ListServer(r, id) \/ DeleteClone(r, id)
      PROVE  ControlOK'
  <2>1. /\ db' = db /\ up' = up /\ stack' = stack /\ on' = on /\ rows' = rows
        /\ edits' = edits /\ outages' = outages /\ failures' = failures
    BY <1>2 DEF UpdateRow, EraseServer, DeleteLater, GetConnection, ListServer,
                DeleteClone, world, bounds
  <2>2. servers' \in [Workers -> [Ids -> Row]]
    <3>1. CASE UpdateRow(r, id)
      <4>1. servers' = servers \/ servers' = [servers EXCEPT ![on[r]][id] = rows[r][id]]
        BY <3>1 DEF UpdateRow
      <4>2. rows[r][id] \in Row /\ on[r] \in Workers OBVIOUS
      <4>3. [servers EXCEPT ![on[r]][id] = rows[r][id]] \in [Workers -> [Ids -> Row]]
        BY <4>2
      <4> QED BY <4>1, <4>3
    <3>2. CASE EraseServer(r, id)
      <4>1. servers' = [servers EXCEPT ![on[r]][id] = NoRow] /\ NoRow \in Row
        BY <3>2 DEF EraseServer, Row
      <4> QED BY <4>1
    <3>3. CASE \/ DeleteLater(r, id) \/ GetConnection(r, id)
               \/ ListServer(r, id) \/ DeleteClone(r, id)
      BY <3>3 DEF DeleteLater, GetConnection, ListServer, DeleteClone
    <3> QED BY <1>2, <3>1, <3>2, <3>3
  <2>3. phase' \in [Requests -> Phases]
    BY <1>2 DEF UpdateRow, EraseServer, DeleteLater, GetConnection, ListServer,
                DeleteClone, Goto, Phases
  <2>4. todo' \in [Requests -> SUBSET Ids]
    BY <1>2 DEF UpdateRow, EraseServer, DeleteLater, GetConnection, ListServer, DeleteClone
  <2> QED BY <2>1, <2>2, <2>3, <2>4
<1>3. ASSUME NEW r \in Requests, NEW id \in Ids, NEW row \in Row, WriteRow(r, id, row)
      PROVE  ControlOK'
  BY <1>3, RegistryAssumption DEF WriteRow, Goto, Phases, conns
<1>4. ASSUME NEW r \in Requests,
             \/ StartAction(r) \/ OtherPage(r) \/ ListServers(r) \/ ServersListed(r)
             \/ CallLibvirt(r) \/ Respond(r) \/ EnterNestedLoop(r) \/ LeaveNestedLoop(r)
             \/ TimerFires(r)
      PROVE  ControlOK'
  <2>1. /\ db' = db /\ up' = up /\ servers' = servers /\ stack' = stack /\ on' = on
        /\ rows' = rows /\ edits' = edits /\ outages' = outages /\ failures' = failures
    BY <1>4 DEF StartAction, OtherPage, ListServers, ServersListed, CallLibvirt, Respond,
                EnterNestedLoop, LeaveNestedLoop, TimerFires, world, bounds
  <2>2. phase' \in [Requests -> Phases] /\ todo' \in [Requests -> SUBSET Ids]
    BY <1>4 DEF StartAction, OtherPage, ListServers, ServersListed, CallLibvirt, Respond,
                EnterNestedLoop, LeaveNestedLoop, TimerFires, Goto, Phases
  <2> QED BY <2>1, <2>2
<1>5. ASSUME NEW r \in Requests, KeepWebSocket(r) \/ Finish(r)
      PROVE  ControlOK'
  <2>1. Tail(stack[on[r]]) \in Seq(Requests)
    BY <1>5, PushPop DEF KeepWebSocket, Finish, Running
  <2>2. NoRows \in [Ids -> Row] BY DEF NoRows, Row
  <2>3. stack' \in [Workers -> Seq(Requests)] BY <1>5, <2>1 DEF KeepWebSocket, Finish, Pop
  <2>4. rows' \in [Requests -> [Ids -> Row]] BY <1>5, <2>2 DEF KeepWebSocket, Finish
  <2>5. phase' \in [Requests -> Phases] BY <1>5 DEF KeepWebSocket, Finish, Goto, Phases
  <2>6. UNCHANGED <<db, up, servers, on, todo, edits, outages, failures>>
    BY <1>5 DEF KeepWebSocket, Finish, world, bounds
  <2> QED BY <2>3, <2>4, <2>5, <2>6
<1>6. ASSUME NEW r \in Requests, WebSocketCloses(r)
      PROVE  ControlOK'
  <2>1. <<r>> \o stack[on[r]] \in Seq(Requests) BY PushPop
  <2> QED BY <1>6, <2>1 DEF WebSocketCloses, Push, Goto, Phases, world, bounds
<1>7. ASSUME NEW cfg \in Configs, HostDown(cfg) \/ HostUp(cfg)
      PROVE  ControlOK'
  BY <1>7, RegistryAssumption DEF HostDown, HostUp, bounds
<1>8. CASE UNCHANGED vars BY <1>8 DEF vars
<1>9. ASSUME NEW r \in Requests, Step(r)
      PROVE  ControlOK'
  <2>1. \A id \in Ids : /\ DeleteServer(r, id) => WriteRow(r, id, NoRow)
                        /\ \A cfg \in Configs : CreateServer(r, id, cfg) \/ UpdateServer(r, id, cfg)
                                              => WriteRow(r, id, cfg)
    BY DEF DeleteServer, CreateServer, UpdateServer
  <2>2. NoRow \in Row /\ Configs \subseteq Row BY DEF Row
  <2> QED BY <1>2, <1>3, <1>4, <1>5, <1>9, <2>1, <2>2 DEF Step
<1> QED BY <1>1, <1>2, <1>4, <1>6, <1>7, <1>8, <1>9 DEF Next

(* Only the worker's innermost handler executes: a request arrives and a    *)
(* websocket closes only when the innermost one waits in its nested loop.   *)
LEMMA OneExecutesStep ==
    ASSUME IInv, [Next]_vars
    PROVE  OneExecutes'
<1> USE DEF IInv, ControlOK
<1> SUFFICES ASSUME NEW q \in Requests, phase'[q] \in Executing
             PROVE  Running(q)'
  BY DEF OneExecutes
<1>1. ASSUME stack' = stack, on' = on, phase[q] \in Executing
      PROVE  Running(q)'
  BY <1>1 DEF OneExecutes, Running
<1>2. ASSUME NEW w \in Workers, NEW r \in Requests, stack' = [stack EXCEPT ![w] = <<r>> \o @],
             Dispatching(w), on' = [on EXCEPT ![r] = w],
             \A p \in Requests : p # r => phase'[p] = phase[p]
      PROVE  Running(q)'
  <2>1. /\ <<r>> \o stack[w] # <<>> /\ Head(<<r>> \o stack[w]) = r BY PushPop
  <2>2. CASE q = r BY <1>2, <2>1, <2>2 DEF Running
  <2>3. CASE q # r
    <3>1. phase[q] \in Executing /\ on'[q] = on[q] BY <1>2, <2>3
    <3>2. Running(q) BY <3>1 DEF OneExecutes
    <3>3. on[q] # w BY <1>2, <3>1, <3>2 DEF Running, Dispatching, Executing
    <3> QED BY <1>2, <3>1, <3>2, <3>3 DEF Running
  <2> QED BY <2>2, <2>3
<1>3. ASSUME NEW w \in Workers, NEW r \in Requests, Arrive(w, r)
      PROVE  Running(q)'
  BY <1>2, <1>3 DEF Arrive, Push, Goto
<1>4. ASSUME NEW r \in Requests, WebSocketCloses(r)
      PROVE  Running(q)'
  <2>1. on' = [on EXCEPT ![r] = on[r]] BY <1>4 DEF WebSocketCloses
  <2> QED BY <1>2, <1>4, <2>1 DEF WebSocketCloses, Push, Goto
<1>5. ASSUME NEW r \in Requests, KeepWebSocket(r) \/ Finish(r)
      PROVE  Running(q)'
  <2>1. /\ Running(r) /\ phase[r] \in Executing /\ on' = on
        /\ stack' = [stack EXCEPT ![on[r]] = Tail(@)]
        /\ phase' = [phase EXCEPT ![r] = "socket"] \/ phase' = [phase EXCEPT ![r] = "idle"]
    BY <1>5 DEF KeepWebSocket, Finish, Pop, Goto, Executing
  <2>2. q # r /\ phase[q] \in Executing BY <2>1 DEF Executing
  <2>3. Running(q) BY <2>2 DEF OneExecutes
  <2>4. on[q] # on[r] BY <2>1, <2>2, <2>3 DEF Running
  <2> QED BY <2>1, <2>3, <2>4 DEF Running
<1>6. ASSUME NEW r \in Requests, Step(r), ~KeepWebSocket(r), ~Finish(r)
      PROVE  Running(q)'
  <2>1. /\ stack' = stack /\ on' = on /\ Running(r)
        /\ \A p \in Requests : p # r => phase'[p] = phase[p]
    BY <1>6 DEF Step, StartAction, OtherPage, ListServers, ServersListed, CallLibvirt, Respond,
                EnterNestedLoop, LeaveNestedLoop, UpdateRow, EraseServer, DeleteServer,
                CreateServer, UpdateServer, WriteRow, GetConnection, ListServer, DeleteClone, Goto
  <2>2. CASE q = r BY <2>1, <2>2 DEF Running
  <2>3. CASE q # r BY <1>1, <2>1, <2>3
  <2> QED BY <2>2, <2>3
<1>7. ASSUME NEW r \in Requests, TimerFires(r) \/ \E id \in Ids : DeleteLater(r, id)
      PROVE  Running(q)'
  <2>1. stack' = stack /\ on' = on /\ phase[q] \in Executing
    BY <1>7 DEF TimerFires, DeleteLater, Goto, Executing
  <2> QED BY <1>1, <2>1
<1>8. CASE (\E cfg \in Configs : HostDown(cfg) \/ HostUp(cfg)) \/ UNCHANGED vars
  BY <1>1, <1>8 DEF HostDown, HostUp, vars
<1> QED BY <1>3, <1>4, <1>5, <1>6, <1>7, <1>8 DEF Next

(* What a step may change of a request that does not take it. *)
Untouched(q) ==
    /\ phase'[q] = phase[q] /\ todo'[q] = todo[q] /\ rows'[q] = rows[q] /\ on'[q] = on[q]
    /\ \A id \in Ids : /\ mconn'[Context(q, id)] = mconn[Context(q, id)]
                       /\ mconn'[Doomed(q, id)] = mconn[Doomed(q, id)]
    /\ phase[q] \in Executing => servers'[on[q]] = servers[on[q]]

Own(q) ==
    \/ \E w \in Workers : Arrive(w, q)
    \/ Step(q) \/ TimerFires(q) \/ WebSocketCloses(q)
    \/ \E id \in Ids : DeleteLater(q, id)

LEMMA OthersStep ==
    ASSUME IInv, [Next]_vars, NEW q \in Requests
    PROVE  Own(q) \/ Untouched(q)
<1> USE OwnerFacts DEF IInv, ControlOK
<1>1. ASSUME UNCHANGED <<servers, mconn, stack, on, phase, rows, todo>>
      PROVE  Untouched(q)
  BY <1>1 DEF Untouched
<1>2. ASSUME NEW r \in Requests, r # q, UNCHANGED <<servers, mconn>>,
             /\ phase'[q] = phase[q] /\ todo'[q] = todo[q]
             /\ rows'[q] = rows[q] /\ on'[q] = on[q]
      PROVE  Untouched(q)
  BY <1>2 DEF Untouched
<1>3. ASSUME NEW r \in Requests, r # q, NEW id \in Ids,
             UNCHANGED servers,
             mconn' = [mconn EXCEPT ![Context(r, id)] = Null]
               \/ mconn' = [mconn EXCEPT ![Doomed(r, id)] = Null],
             /\ phase'[q] = phase[q] /\ todo'[q] = todo[q]
             /\ rows'[q] = rows[q] /\ on'[q] = on[q]
      PROVE  Untouched(q)
  BY <1>3 DEF Untouched, ConnsOK, Pointers
<1>4. ASSUME NEW r \in Requests, r # q, NEW id \in Ids, UpdateRow(r, id)
      PROVE  Untouched(q)
  <2>1. /\ phase'[q] = phase[q] /\ todo'[q] = todo[q]
        /\ rows'[q] = rows[q] /\ on'[q] = on[q]
    BY <1>4 DEF UpdateRow
  <2>2. \A p \in Owners : p # Registry(on[r], id) => mconn'[p] = mconn[p]
    <3>1. UNCHANGED mconn \/ Reconnect(Registry(on[r], id), rows[r][id])
      BY <1>4 DEF UpdateRow, conns
    <3> QED BY <3>1 DEF Reconnect, ConnsOK, Pointers
  <2>3. phase[q] \in Executing => on[q] # on[r]
    BY <1>4 DEF UpdateRow, OneExecutes, Running
  <2>4. servers' = servers \/ servers' = [servers EXCEPT ![on[r]][id] = rows[r][id]]
    BY <1>4 DEF UpdateRow
  <2>5. phase[q] \in Executing => servers'[on[q]] = servers[on[q]] BY <2>3, <2>4
  <2> QED BY <2>1, <2>2, <2>5 DEF Untouched
<1>5. ASSUME NEW r \in Requests, r # q, NEW id \in Ids, EraseServer(r, id)
      PROVE  Untouched(q)
  <2>1. /\ phase'[q] = phase[q] /\ todo'[q] = todo[q]
        /\ rows'[q] = rows[q] /\ on'[q] = on[q]
    BY <1>5 DEF EraseServer
  <2>2. \A p \in Owners \ {Registry(on[r], id), Doomed(r, id)} : mconn'[p] = mconn[p]
    BY <1>5 DEF EraseServer, ConnsOK, Pointers
  <2>3. phase[q] \in Executing => on[q] # on[r]
    BY <1>5 DEF EraseServer, OneExecutes, Running
  <2>4. servers' = [servers EXCEPT ![on[r]][id] = NoRow] BY <1>5 DEF EraseServer
  <2>5. phase[q] \in Executing => servers'[on[q]] = servers[on[q]] BY <2>3, <2>4
  <2> QED BY <1>5, <2>1, <2>2, <2>5 DEF Untouched
<1>6. ASSUME NEW r \in Requests, r # q, NEW id \in Ids, GetConnection(r, id) \/ ListServer(r, id)
      PROVE  Untouched(q)
  <2>1. /\ phase'[q] = phase[q] /\ todo'[q] = todo[q]
        /\ rows'[q] = rows[q] /\ on'[q] = on[q] /\ servers' = servers
    BY <1>6 DEF GetConnection, ListServer, Goto
  <2>2. \A p \in Owners \ {Registry(on[r], id), Context(r, id)} : mconn'[p] = mconn[p]
    <3>1. UNCHANGED mconn \/ Borrow(r, id) BY <1>6 DEF GetConnection, ListServer, conns
    <3> QED BY <3>1 DEF Borrow, ConnsOK, Pointers
  <2> QED BY <1>6, <2>1, <2>2 DEF Untouched
<1>7. ASSUME NEW r \in Requests, r # q,
             \/ StartAction(r) \/ OtherPage(r) \/ ListServers(r) \/ ServersListed(r)
             \/ CallLibvirt(r) \/ Respond(r) \/ EnterNestedLoop(r) \/ LeaveNestedLoop(r)
             \/ KeepWebSocket(r) \/ Finish(r) \/ TimerFires(r) \/ WebSocketCloses(r)
             \/ \E w \in Workers : Arrive(w, r)
             \/ \E id \in Ids, row \in Row : WriteRow(r, id, row)
      PROVE  Untouched(q)
  <2>1. UNCHANGED <<servers, mconn>>
    BY <1>7 DEF StartAction, OtherPage, ListServers, ServersListed, CallLibvirt, Respond,
                EnterNestedLoop, LeaveNestedLoop, KeepWebSocket, Finish, TimerFires,
                WebSocketCloses, Arrive, WriteRow, conns
  <2>2. /\ phase'[q] = phase[q] /\ todo'[q] = todo[q]
        /\ rows'[q] = rows[q] /\ on'[q] = on[q]
    BY <1>7 DEF StartAction, OtherPage, ListServers, ServersListed, CallLibvirt, Respond,
                EnterNestedLoop, LeaveNestedLoop, KeepWebSocket, Finish, TimerFires,
                WebSocketCloses, Arrive, WriteRow, Goto
  <2> QED BY <1>2, <1>7, <2>1, <2>2
<1>8. ASSUME NEW r \in Requests, r # q, NEW id \in Ids, DeleteClone(r, id) \/ DeleteLater(r, id)
      PROVE  Untouched(q)
  BY <1>3, <1>8 DEF DeleteClone, DeleteLater
<1>9. ASSUME NEW r \in Requests, r # q, Own(r)
      PROVE  Untouched(q)
  <2>1. \A id \in Ids : /\ DeleteServer(r, id) => WriteRow(r, id, NoRow)
                        /\ \A cfg \in Configs : CreateServer(r, id, cfg) \/ UpdateServer(r, id, cfg)
                                              => WriteRow(r, id, cfg)
    BY DEF DeleteServer, CreateServer, UpdateServer
  <2>2. NoRow \in Row /\ Configs \subseteq Row BY DEF Row
  <2> QED BY <1>4, <1>5, <1>6, <1>7, <1>8, <1>9, <2>1, <2>2 DEF Own, Step
<1>10. CASE (\E cfg \in Configs : HostDown(cfg) \/ HostUp(cfg)) \/ UNCHANGED vars
  BY <1>1, <1>10 DEF HostDown, HostUp, vars, conns
<1>11. (\E r \in Requests : Own(r)) \/ (\E cfg \in Configs : HostDown(cfg) \/ HostUp(cfg))
         \/ UNCHANGED vars
  BY DEF Next, Own
<1> QED BY <1>9, <1>10, <1>11

LEMMA LoopsStep ==
    ASSUME IInv, [Next]_vars, NEW q \in Requests
    PROVE  LoopsOK(q)'
<1> USE OwnerFacts DEF IInv, ControlOK
<1>1. CASE Untouched(q)
  <2>1. VisitsRows(q)' /\ ContextFills(q)'
    BY <1>1 DEF Untouched, LoopsOK, VisitsRows, ContextFills
  <2>2. ErasesOnce(q)'
    <3> SUFFICES ASSUME NEW id \in Ids, phase'[q] = "update", mconn'[Doomed(q, id)] # Null
                 PROVE  id \notin Vanished(q)'
      BY DEF ErasesOnce
    <3>1. phase[q] = "update" /\ mconn[Doomed(q, id)] # Null BY <1>1 DEF Untouched
    <3>2. id \notin Vanished(q) BY <3>1 DEF LoopsOK, ErasesOnce
    <3>3. servers'[on'[q]] = servers[on[q]] /\ rows'[q] = rows[q]
      BY <1>1, <3>1 DEF Untouched, Executing
    <3> QED BY <3>2, <3>3 DEF Vanished
  <2> QED BY <2>1, <2>2 DEF LoopsOK
<1>2. CASE phase'[q] \notin {"idle", "update", "action", "listing"}
  BY <1>2 DEF LoopsOK, VisitsRows, ContextFills, ErasesOnce
<1>3. ASSUME NEW w \in Workers, Arrive(w, q)
      PROVE  LoopsOK(q)'
  <2>1. /\ phase[q] = "idle" /\ phase'[q] = "update" /\ mconn' = mconn
        /\ \A id \in Ids : mconn[Doomed(q, id)] = Null
        /\ todo'[q] = {id \in Ids : rows'[q][id] # NoRow}
    BY <1>3 DEF Arrive, Goto, conns
  <2> QED BY <2>1 DEF LoopsOK, VisitsRows, ContextFills, ErasesOnce
<1>4. ASSUME NEW id \in Ids, UpdateRow(q, id)
      PROVE  LoopsOK(q)'
  <2>1. /\ phase[q] = "update" /\ phase' = phase /\ rows' = rows /\ on' = on
        /\ id \in todo[q] /\ todo'[q] = todo[q] \ {id}
    BY <1>4 DEF UpdateRow
  <2>2. \A i \in Ids : /\ mconn'[Context(q, i)] = mconn[Context(q, i)]
                       /\ mconn'[Doomed(q, i)] = mconn[Doomed(q, i)]
    <3>1. mconn' = mconn \/ Reconnect(Registry(on[q], id), rows[q][id])
      BY <1>4 DEF UpdateRow, conns
    <3> QED BY <3>1 DEF Reconnect, ConnsOK, Pointers
  <2>3. VisitsRows(q)' /\ ContextFills(q)'
    BY <2>1, <2>2 DEF LoopsOK, VisitsRows, ContextFills
  <2>4. servers' = servers \/ servers' = [servers EXCEPT ![on[q]][id] = rows[q][id]]
    BY <1>4 DEF UpdateRow
  <2>5. rows[q][id] # NoRow BY <2>1 DEF LoopsOK, VisitsRows
  <2>6. \A i \in Ids : servers'[on[q]][i] = servers[on[q]][i] \/ i = id BY <2>4
  <2>7. ErasesOnce(q)'
    BY <2>1, <2>2, <2>5, <2>6 DEF LoopsOK, ErasesOnce, Vanished
  <2> QED BY <2>3, <2>7 DEF LoopsOK
<1>5. ASSUME NEW id \in Ids, EraseServer(q, id)
      PROVE  LoopsOK(q)'
  <2>1. /\ phase[q] = "update" /\ phase' = phase /\ rows' = rows /\ on' = on
        /\ todo' = todo /\ servers' = [servers EXCEPT ![on[q]][id] = NoRow]
    BY <1>5 DEF EraseServer
  <2>2. \A i \in Ids : /\ mconn'[Context(q, i)] = mconn[Context(q, i)]
                       /\ i # id => mconn'[Doomed(q, i)] = mconn[Doomed(q, i)]
    BY <1>5 DEF EraseServer, ConnsOK, Pointers
  <2>3. VisitsRows(q)' /\ ContextFills(q)'
    BY <2>1, <2>2 DEF LoopsOK, VisitsRows, ContextFills
  <2>4. \A i \in Ids : servers'[on[q]][i] = IF i = id THEN NoRow ELSE servers[on[q]][i]
    BY <2>1
  <2>5. ErasesOnce(q)' BY <2>1, <2>2, <2>4 DEF LoopsOK, ErasesOnce, Vanished
  <2> QED BY <2>3, <2>5 DEF LoopsOK
<1>6. ASSUME StartAction(q) \/ ListServers(q) \/ Finish(q) \/ \E id \in Ids : DeleteLater(q, id)
      PROVE  LoopsOK(q)'
  <2>1. phase'[q] # "update" BY <1>6 DEF StartAction, ListServers, Finish, DeleteLater, Goto
  <2>2. CASE StartAction(q)
    <3>1. phase[q] = "update" /\ mconn' = mconn /\ phase'[q] = "action"
      BY <2>2 DEF StartAction, Goto, conns
    <3> QED BY <2>1, <3>1 DEF LoopsOK, VisitsRows, ContextFills, ErasesOnce
  <2>3. CASE ListServers(q)
    <3>1. phase[q] = "action" /\ mconn' = mconn BY <2>3 DEF ListServers, conns
    <3> QED BY <2>1, <3>1 DEF LoopsOK, VisitsRows, ContextFills, ErasesOnce
  <2>4. CASE Finish(q)
    <3>1. mconn' = mconn /\ Held(q) = {} BY <2>4 DEF Finish, conns
    <3>2. \A id \in Ids : mconn[Context(q, id)] = Null BY <3>1, HeldNone
    <3> QED BY <2>1, <3>1, <3>2 DEF LoopsOK, VisitsRows, ContextFills, ErasesOnce
  <2>5. ASSUME NEW id \in Ids, DeleteLater(q, id)
        PROVE  LoopsOK(q)'
    <3>1. /\ phase' = phase /\ todo' = todo /\ phase[q] # "update"
          /\ \A i \in Ids : mconn'[Context(q, i)] = mconn[Context(q, i)]
      BY <2>5 DEF DeleteLater, ConnsOK, Pointers
    <3> QED BY <3>1 DEF LoopsOK, VisitsRows, ContextFills, ErasesOnce
  <2> QED BY <1>6, <2>2, <2>3, <2>4, <2>5
<1>7. ASSUME NEW id \in Ids, ListServer(q, id)
      PROVE  LoopsOK(q)'
  <2>1. /\ phase[q] = "listing" /\ phase' = phase /\ todo'[q] = todo[q] \ {id}
    BY <1>7 DEF ListServer
  <2>2. \A i \in Ids \ {id} : mconn'[Context(q, i)] = mconn[Context(q, i)]
    BY <1>7 DEF ListServer, Borrow, ConnsOK, Pointers
  <2> QED BY <2>1, <2>2 DEF LoopsOK, VisitsRows, ContextFills, ErasesOnce
<1>8. ASSUME \/ OtherPage(q) \/ ServersListed(q) \/ CallLibvirt(q) \/ Respond(q)
             \/ EnterNestedLoop(q) \/ LeaveNestedLoop(q) \/ KeepWebSocket(q)
             \/ TimerFires(q) \/ WebSocketCloses(q)
             \/ \E id \in Ids : GetConnection(q, id) \/ DeleteClone(q, id)
             \/ \E id \in Ids, row \in Row : WriteRow(q, id, row)
      PROVE  phase'[q] \notin {"idle", "update", "action", "listing"}
  BY <1>8 DEF OtherPage, ServersListed, CallLibvirt, Respond, EnterNestedLoop, LeaveNestedLoop,
              KeepWebSocket, TimerFires, WebSocketCloses, GetConnection, DeleteClone, WriteRow,
              Goto
<1>9. ASSUME Own(q)
      PROVE  LoopsOK(q)'
  <2>1. \A id \in Ids : /\ DeleteServer(q, id) => WriteRow(q, id, NoRow)
                        /\ \A cfg \in Configs : CreateServer(q, id, cfg) \/ UpdateServer(q, id, cfg)
                                              => WriteRow(q, id, cfg)
    BY DEF DeleteServer, CreateServer, UpdateServer
  <2>2. NoRow \in Row /\ Configs \subseteq Row BY DEF Row
  <2> QED BY <1>2, <1>3, <1>4, <1>5, <1>6, <1>7, <1>8, <1>9, <2>1, <2>2 DEF Own, Step
<1> QED BY <1>1, <1>9, OthersStep

-----------------------------------------------------------------------------
LEMMA InitIInv == Init => IInv
<1> SUFFICES ASSUME Init PROVE IInv OBVIOUS
<1>1. ConnsOK
  <2>1. virConn \in VirConns /\ mconn \in Pointers
    BY DEF Init, VirConns, Pointers, Closed, Row, Links, Pointer
  <2>2. \A h \in Handles : HoldersIn(mconn, h) = {}
    BY RegistryAssumption DEF Init, HoldersIn
  <2>3. \A h \in Handles : virConn[h].refs = 0 BY DEF Init, Closed
  <2> QED BY <2>1, <2>2, <2>3, FS_EmptySet DEF ConnsOK, Counted
<1>2. ControlOK BY RegistryAssumption DEF Init, ControlOK, NoRows, Row, Phases
<1>3. OneExecutes BY DEF Init, OneExecutes, Executing
<1>4. \A r \in Requests : LoopsOK(r)
  BY OwnerFacts DEF Init, LoopsOK, VisitsRows, ContextFills, ErasesOnce
<1> QED BY <1>1, <1>2, <1>3, <1>4 DEF IInv

LEMMA NextIInv == IInv /\ [Next]_vars => IInv'
BY ConnsStep, ControlStep, OneExecutesStep, LoopsStep DEF IInv

(* The inductive invariant IInv holds in every reachable state.             *)
THEOREM Invariance == Spec => []IInv
BY InitIInv, NextIInv, PTL DEF Spec

(* Every variable keeps its type: in particular the reference count of a    *)
(* virConnectPtr never falls below zero, whatever is deleted when.          *)
THEOREM TypeCorrect == Spec => []TypeOK
<1>1. IInv => TypeOK BY DEF IInv, ConnsOK, ControlOK, VirConns, Pointers, TypeOK
<1> QED BY <1>1, Invariance, PTL

(* Every virConnectPtr has exactly one reference per Connection object that *)
(* points to it: no connection is closed while registry, request or pending *)
(* deletion can still use it, and none leaks (virConnectRef in              *)
(* Connection(virConnectPtr), virConnectClose in ~Connection).              *)
THEOREM ReferencesExact == Spec => []RefCountExact
<1>1. IInv => RefCountExact BY DEF IInv, ConnsOK, Counted, HoldersIn, RefCountExact, Holders
<1> QED BY <1>1, Invariance, PTL
-----------------------------------------------------------------------------
(* What the requests are served from. *)
PeerIs(h, cfg) == h # Null => virConn[h].peer = cfg
EntryPeers == \A w \in Workers, id \in Ids : PeerIs(mconn[Registry(w, id)], servers[w][id])
ClonePeers(r) == \A id \in Ids : PeerIs(mconn[Context(r, id)], rows[r][id])
Applied(r) ==
    phase[r] = "update" =>
        \A id \in Ids \ todo[r] : rows[r][id] # NoRow => servers[on[r]][id] = rows[r][id]
Matches(r) ==
    phase[r] \in {"action", "listing", "using", "served"} => servers[on[r]] = rows[r]
Served(r) == ClonePeers(r) /\ Applied(r) /\ Matches(r)

SInv == IInv /\ EntryPeers /\ \A r \in Requests : Served(r)

LEMMA EntryPeersStep ==
    ASSUME SInv, [Next]_vars
    PROVE  EntryPeers'
<1> USE OwnerFacts DEF SInv, IInv, ControlOK
<1>0. Undisturbed(virConn, mconn, virConn', mconn') /\ ConnsOK' BY ConnsStep
<1> SUFFICES ASSUME NEW w \in Workers, NEW id \in Ids
             PROVE  PeerIs(mconn[Registry(w, id)], servers[w][id])'
  BY DEF EntryPeers
<1>1. CASE mconn'[Registry(w, id)] = Null BY <1>1 DEF PeerIs
<1>2. CASE /\ mconn'[Registry(w, id)] = mconn[Registry(w, id)]
           /\ servers'[w][id] = servers[w][id]
  BY <1>0, <1>2 DEF Undisturbed, EntryPeers, PeerIs
<1>3. ASSUME NEW r \in Requests, NEW i \in Ids, UpdateRow(r, i)
      PROVE  PeerIs(mconn[Registry(w, id)], servers[w][id])'
  <2>1. CASE servers[on[r]][i] = rows[r][i]
    BY <1>2, <1>3, <2>1 DEF UpdateRow, conns
  <2>2. CASE servers[on[r]][i] # rows[r][i]
    <3>1. /\ servers' = [servers EXCEPT ![on[r]][i] = rows[r][i]]
          /\ Reconnect(Registry(on[r], i), rows[r][i])
      BY <1>3, <2>2 DEF UpdateRow
    <3>2. /\ \A p \in Owners : p # Registry(on[r], i) => mconn'[p] = mconn[p]
          /\ mconn'[Registry(on[r], i)] # Null
               => virConn'[mconn'[Registry(on[r], i)]].peer = rows[r][i]
      <4>1. rows[r][i] \in Row /\ Registry(on[r], i) \in Owners OBVIOUS
      <4> QED BY <3>1, <4>1, ReconnectStep
    <3>3. CASE w = on[r] /\ id = i BY <3>1, <3>2, <3>3 DEF PeerIs
    <3>4. CASE ~(w = on[r] /\ id = i)
      <4>1. servers'[w][id] = servers[w][id] BY <3>1, <3>4
      <4>2. Registry(w, id) # Registry(on[r], i) BY <3>4
      <4> QED BY <1>2, <3>2, <4>1, <4>2
    <3> QED BY <3>3, <3>4
  <2> QED BY <2>1, <2>2
<1>4. ASSUME NEW r \in Requests, NEW i \in Ids, EraseServer(r, i)
      PROVE  PeerIs(mconn[Registry(w, id)], servers[w][id])'
  <2>1. /\ servers' = [servers EXCEPT ![on[r]][i] = NoRow]
        /\ \A p \in Owners \ {Doomed(r, i)} :
              mconn'[p] = IF p = Registry(on[r], i) THEN Null ELSE mconn[p]
    BY <1>4 DEF EraseServer, ConnsOK, Pointers
  <2>2. CASE w = on[r] /\ id = i BY <1>1, <2>1, <2>2
  <2>3. CASE ~(w = on[r] /\ id = i)
    <3>1. servers'[w][id] = servers[w][id] BY <2>1, <2>3
    <3> QED BY <1>2, <2>1, <2>3, <3>1
  <2> QED BY <2>2, <2>3
<1>5. ASSUME NEW r \in Requests, NEW i \in Ids, GetConnection(r, i) \/ ListServer(r, i)
      PROVE  PeerIs(mconn[Registry(w, id)], servers[w][id])'
  <2>1. servers' = servers BY <1>5 DEF GetConnection, ListServer
  <2>2. CASE mconn' = mconn BY <1>2, <2>1, <2>2
  <2>3. CASE Borrow(r, i)
    <3>1. mconn[Context(r, i)] = Null
      BY <1>5 DEF GetConnection, ListServer, LoopsOK, ContextFills
    <3>2. on[r] \in Workers /\ servers[on[r]][i] \in Row OBVIOUS
    <3>3. /\ \A p \in Owners \ {Registry(on[r], i), Context(r, i)} : mconn'[p] = mconn[p]
          /\ mconn'[Registry(on[r], i)] # mconn[Registry(on[r], i)]
               /\ mconn'[Registry(on[r], i)] # Null
               => virConn'[mconn'[Registry(on[r], i)]].peer = servers[on[r]][i]
      BY <2>3, <3>1, <3>2, BorrowStep
    <3>4. CASE w = on[r] /\ id = i BY <1>2, <2>1, <3>3, <3>4 DEF PeerIs
    <3>5. CASE ~(w = on[r] /\ id = i) BY <1>2, <2>1, <3>3, <3>5
    <3> QED BY <3>4, <3>5
  <2> QED BY <1>5, <2>2, <2>3 DEF GetConnection, ListServer, conns
<1>6. ASSUME NEW r \in Requests, NEW i \in Ids, DeleteClone(r, i) \/ DeleteLater(r, i)
      PROVE  PeerIs(mconn[Registry(w, id)], servers[w][id])'
  <2>1. servers' = servers /\ mconn'[Registry(w, id)] = mconn[Registry(w, id)]
    BY <1>6 DEF DeleteClone, DeleteLater, ConnsOK, Pointers
  <2> QED BY <1>2, <2>1
<1>7. CASE servers' = servers /\ mconn' = mconn BY <1>2, <1>7
<1>8. \/ servers' = servers /\ mconn' = mconn
      \/ \E r \in Requests, i \in Ids :
            \/ UpdateRow(r, i) \/ EraseServer(r, i) \/ GetConnection(r, i) \/ ListServer(r, i)
            \/ DeleteClone(r, i) \/ DeleteLater(r, i)
  BY DEF Next, Step, vars, conns, Arrive, TimerFires, WebSocketCloses, HostDown, HostUp,
         StartAction, OtherPage, ListServers, ServersListed, CallLibvirt, Respond,
         EnterNestedLoop, LeaveNestedLoop, KeepWebSocket, Finish, DeleteServer, CreateServer,
         UpdateServer, WriteRow
<1> QED BY <1>3, <1>4, <1>5, <1>6, <1>7, <1>8

LEMMA ServedStep ==
    ASSUME SInv, [Next]_vars, NEW q \in Requests
    PROVE  Served(q)'
<1> USE OwnerFacts DEF SInv, IInv, ControlOK
<1>0. /\ Undisturbed(virConn, mconn, virConn', mconn') /\ ConnsOK' /\ EntryPeers'
      /\ ControlOK'
  BY ConnsStep, EntryPeersStep, ControlStep
<1>1. ASSUME NEW id \in Ids, mconn'[Context(q, id)] \in {Null, mconn[Context(q, id)]},
             rows'[q] = rows[q]
      PROVE  PeerIs(mconn[Context(q, id)], rows[q][id])'
  BY <1>0, <1>1 DEF Undisturbed, PeerIs, Served, ClonePeers
<1>2. CASE Untouched(q)
  <2>1. ClonePeers(q)' BY <1>1, <1>2 DEF Untouched, ClonePeers
  <2>2. Applied(q)' /\ Matches(q)'
    <3>1. CASE phase[q] \in Executing
      BY <1>2, <3>1 DEF Untouched, Served, Applied, Matches
    <3>2. CASE phase[q] \notin Executing
      BY <1>2, <3>2 DEF Untouched, Applied, Matches, Executing
    <3> QED BY <3>1, <3>2
  <2> QED BY <2>1, <2>2 DEF Served
<1>3. ASSUME NEW w \in Workers, Arrive(w, q)
      PROVE  Served(q)'
  <2>1. /\ phase[q] = "idle" /\ phase'[q] = "update" /\ mconn' = mconn
        /\ todo'[q] = {id \in Ids : rows'[q][id] # NoRow}
    BY <1>3 DEF Arrive, Goto, conns
  <2>2. \A id \in Ids : mconn'[Context(q, id)] = Null
    BY <2>1 DEF LoopsOK, ContextFills
  <2> QED BY <2>1, <2>2 DEF Served, ClonePeers, PeerIs, Applied, Matches
<1>4. ASSUME NEW id \in Ids, UpdateRow(q, id)
      PROVE  Served(q)'
  <2>1. /\ phase[q] = "update" /\ phase' = phase /\ rows' = rows /\ on' = on
        /\ id \in todo[q] /\ todo'[q] = todo[q] \ {id}
    BY <1>4 DEF UpdateRow
  <2>2. \A i \in Ids : mconn'[Context(q, i)] = mconn[Context(q, i)]
    <3>1. mconn' = mconn \/ Reconnect(Registry(on[q], id), rows[q][id])
      BY <1>4 DEF UpdateRow, conns
    <3> QED BY <3>1 DEF Reconnect, ConnsOK, Pointers
  <2>3. \A i \in Ids : servers'[on[q]][i] = IF i = id THEN rows[q][id] ELSE servers[on[q]][i]
    BY <1>4 DEF UpdateRow
  <2>4. Applied(q)' /\ Matches(q)' BY <2>1, <2>3 DEF Served, Applied, Matches
  <2> QED BY <1>1, <2>1, <2>2, <2>4 DEF Served, ClonePeers
<1>5. ASSUME NEW id \in Ids, EraseServer(q, id)
      PROVE  Served(q)'
  <2>1. /\ phase[q] = "update" /\ phase' = phase /\ rows' = rows /\ on' = on
        /\ todo' = todo /\ rows[q][id] = NoRow
        /\ servers' = [servers EXCEPT ![on[q]][id] = NoRow]
    BY <1>5 DEF EraseServer, Vanished
  <2>2. \A i \in Ids : mconn'[Context(q, i)] = mconn[Context(q, i)]
    BY <1>5 DEF EraseServer, ConnsOK, Pointers
  <2>3. \A i \in Ids : servers'[on[q]][i] = IF i = id THEN NoRow ELSE servers[on[q]][i]
    BY <2>1
  <2>4. Applied(q)' /\ Matches(q)' BY <2>1, <2>3 DEF Served, Applied, Matches
  <2> QED BY <1>1, <2>1, <2>2, <2>4 DEF Served, ClonePeers
<1>6. ASSUME StartAction(q)
      PROVE  Served(q)'
  <2>1. /\ phase[q] = "update" /\ phase'[q] = "action" /\ rows' = rows /\ on' = on
        /\ servers' = servers /\ mconn' = mconn /\ todo[q] = {} /\ Vanished(q) = {}
    BY <1>6 DEF StartAction, Goto, conns
  <2>2. \A id \in Ids : servers[on[q]][id] = rows[q][id]
    <3> TAKE id \in Ids
    <3>1. rows[q][id] # NoRow => servers[on[q]][id] = rows[q][id]
      BY <2>1 DEF Served, Applied
    <3>2. id \notin Vanished(q) BY <2>1
    <3> QED BY <3>1, <3>2 DEF Vanished
  <2>3. servers[on[q]] = rows[q]
    <3>1. servers[on[q]] \in [Ids -> Row] /\ rows[q] \in [Ids -> Row] OBVIOUS
    <3> QED BY <2>2, <3>1
  <2> QED BY <1>1, <2>1, <2>3 DEF Served, ClonePeers, Applied, Matches
<1>7. ASSUME NEW id \in Ids, GetConnection(q, id) \/ ListServer(q, id)
      PROVE  Served(q)'
  <2>1. /\ phase[q] \in {"action", "listing"} /\ phase'[q] # "update"
        /\ rows' = rows /\ on' = on /\ servers' = servers
    BY <1>7 DEF GetConnection, ListServer, Goto
  <2>2. servers[on[q]] = rows[q] BY <2>1 DEF Served, Matches
  <2>3. mconn' = mconn \/ Borrow(q, id) BY <1>7 DEF GetConnection, ListServer, conns
  <2>4. mconn[Context(q, id)] = Null
    BY <1>7 DEF GetConnection, ListServer, LoopsOK, ContextFills
  <2>5. ASSUME Borrow(q, id)
        PROVE  /\ \A i \in Ids : i # id => mconn'[Context(q, i)] = mconn[Context(q, i)]
               /\ PeerIs(mconn[Context(q, id)], rows[q][id])'
    <3>1. on[q] \in Workers /\ servers[on[q]][id] \in Row OBVIOUS
    <3>2. /\ \A p \in Owners \ {Registry(on[q], id), Context(q, id)} : mconn'[p] = mconn[p]
          /\ mconn'[Context(q, id)] # Null
               => mconn'[Context(q, id)] = mconn'[Registry(on[q], id)]
      BY <2>4, <2>5, <3>1, BorrowStep
    <3>3. PeerIs(mconn[Registry(on[q], id)], servers[on[q]][id])'
      BY <1>0, <2>1 DEF EntryPeers
    <3> QED BY <2>1, <2>2, <3>2, <3>3 DEF PeerIs
  <2>6. ClonePeers(q)' BY <1>1, <2>1, <2>3, <2>5 DEF ClonePeers
  <2> QED BY <2>1, <2>2, <2>6 DEF Served, Applied, Matches
<1>8. ASSUME ListServers(q)
      PROVE  Served(q)'
  <2>1. /\ phase[q] = "action" /\ phase'[q] = "listing" /\ rows' = rows /\ on' = on
        /\ servers' = servers /\ mconn' = mconn
    BY <1>8 DEF ListServers, Goto, conns
  <2> QED BY <1>1, <2>1 DEF Served, ClonePeers, Applied, Matches
<1>9. ASSUME \/ CallLibvirt(q) \/ OtherPage(q) \/ ServersListed(q) \/ Respond(q)
             \/ EnterNestedLoop(q) \/ LeaveNestedLoop(q) \/ KeepWebSocket(q)
             \/ TimerFires(q) \/ WebSocketCloses(q)
             \/ \E id \in Ids, row \in Row : WriteRow(q, id, row)
      PROVE  Served(q)'
  <2>1. /\ phase'[q] \notin {"update", "action", "listing", "using"}
        /\ phase'[q] = "served" => phase[q] = "using"
        /\ rows' = rows /\ on' = on /\ servers' = servers /\ mconn' = mconn
    BY <1>9 DEF CallLibvirt, OtherPage, ServersListed, Respond, EnterNestedLoop,
                LeaveNestedLoop, KeepWebSocket, TimerFires, WebSocketCloses, WriteRow,
                Goto, conns
  <2> QED BY <1>1, <2>1 DEF Served, ClonePeers, Applied, Matches
<1>10. ASSUME NEW id \in Ids, DeleteClone(q, id) \/ DeleteLater(q, id)
       PROVE  Served(q)'
  <2>1. /\ phase' = phase /\ phase[q] \in {"idle", "socket", "return"} /\ rows' = rows
        /\ \A i \in Ids : mconn'[Context(q, i)] \in {Null, mconn[Context(q, i)]}
    BY <1>10 DEF DeleteClone, DeleteLater, ConnsOK, Pointers
  <2> QED BY <1>1, <2>1 DEF Served, ClonePeers, Applied, Matches
<1>11. ASSUME Finish(q)
       PROVE  Served(q)'
  <2>1. phase'[q] = "idle" /\ mconn' = mconn /\ Held(q) = {}
    BY <1>11 DEF Finish, Goto, conns
  <2>2. \A id \in Ids : mconn[Context(q, id)] = Null BY <2>1, HeldNone
  <2> QED BY <2>1, <2>2 DEF Served, ClonePeers, PeerIs, Applied, Matches
<1>12. ASSUME Own(q)
       PROVE  Served(q)'
  <2>1. \A id \in Ids : /\ DeleteServer(q, id) => WriteRow(q, id, NoRow)
                        /\ \A cfg \in Configs : CreateServer(q, id, cfg) \/ UpdateServer(q, id, cfg)
                                              => WriteRow(q, id, cfg)
    BY DEF DeleteServer, CreateServer, UpdateServer
  <2>2. NoRow \in Row /\ Configs \subseteq Row BY DEF Row
  <2> QED BY <1>3, <1>4, <1>5, <1>6, <1>7, <1>8, <1>9, <1>10, <1>11, <1>12, <2>1, <2>2
       DEF Own, Step
<1> QED BY <1>2, <1>12, OthersStep

LEMMA SInvariance == Spec => []SInv
<1>1. Init => SInv
  <2>1. Init => EntryPeers /\ \A r \in Requests : Served(r)
    BY OwnerFacts DEF Init, EntryPeers, Served, ClonePeers, PeerIs, Applied, Matches
  <2> QED BY <2>1, InitIInv DEF SInv
<1>2. SInv /\ [Next]_vars => SInv'
  BY NextIInv, EntryPeersStep, ServedStep DEF SInv
<1> QED BY <1>1, <1>2, PTL DEF Spec

(* While a handler runs, its worker's registry holds exactly the rows its   *)
(* request read, each connected to the host its row names                   *)
(* (Root::Auto, Virtlyst::updateConnections).                               *)
THEOREM HandlersSeeTheirSnapshot == Spec => []RegistryIsSnapshot
<1>1. SInv => RegistryIsSnapshot
  BY DEF SInv, Served, Matches, EntryPeers, PeerIs, RegistryIsSnapshot, IInv, ControlOK
<1> QED BY <1>1, SInvariance, PTL

(* A request's clone stays open, and connected to the host its row named    *)
(* when the request arrived, until the request itself deletes it            *)
(* (Connection::clone for Info's nested event loops and Ws's websockets).   *)
THEOREM ClonesStayConnected == Spec => []ClonesKeepTheirHost
<1>1. SInv => ClonesKeepTheirHost
  <2> SUFFICES ASSUME SInv, NEW r \in Requests, NEW id \in Ids, mconn[Context(r, id)] # Null
               PROVE  /\ virConn[mconn[Context(r, id)]].refs > 0
                      /\ virConn[mconn[Context(r, id)]].peer = rows[r][id]
    BY DEF ClonesKeepTheirHost
  <2>1. virConn[mconn[Context(r, id)]].peer = rows[r][id]
    BY DEF SInv, Served, ClonePeers, PeerIs
  <2>2. virConn[mconn[Context(r, id)]].refs \in Nat \ {0}
    BY HeldIsOpen, OwnerFacts DEF SInv, IInv, ConnsOK
  <2> QED BY <2>1, <2>2
<1> QED BY <1>1, SInvariance, PTL
-----------------------------------------------------------------------------
(* The refinement of HostLeases. A request leases the hosts its clones are  *)
(* connected to, and it has clones only of rows it read.                    *)
ReadsRows(r) ==
    /\ phase[r] = "idle" => rows[r] = NoRows
    /\ phase[r] = "listing" => \A id \in todo[r] : rows[r][id] # NoRow
    /\ \A id \in Ids : mconn[Context(r, id)] # Null => rows[r][id] # NoRow
LInv == SInv /\ \A r \in Requests : ReadsRows(r)

Lent(r, id) == IF mconn[Context(r, id)] = Null THEN NoRow ELSE rows[r][id]
Lease == [r \in Requests |-> [id \in Ids |-> LeaseOf(r, id)]]

LeasesAreLent ==
    /\ Lease \in [Requests -> [Ids -> Row]]
    /\ \A r \in Requests, id \in Ids : Lease[r][id] = Lent(r, id)

LEMMA LeaseIsLent == SInv => LeasesAreLent
<1> SUFFICES ASSUME SInv PROVE LeasesAreLent OBVIOUS
<1>1. ASSUME NEW r \in Requests, NEW id \in Ids
      PROVE  LeaseOf(r, id) = Lent(r, id) /\ Lent(r, id) \in Row
  <2>1. CASE mconn[Context(r, id)] = Null
    BY <2>1 DEF LeaseOf, Lent, Row
  <2>2. CASE mconn[Context(r, id)] # Null
    <3>1. virConn[mconn[Context(r, id)]].refs \in Nat \ {0}
      BY <2>2, HeldIsOpen, OwnerFacts DEF SInv, IInv, ConnsOK
    <3>2. virConn[mconn[Context(r, id)]].peer = rows[r][id] /\ rows[r][id] \in Row
      BY <2>2 DEF SInv, Served, ClonePeers, PeerIs, IInv, ControlOK
    <3> QED BY <2>2, <3>1, <3>2 DEF LeaseOf, Lent
  <2> QED BY <2>1, <2>2
<1> QED BY <1>1 DEF Lease, LeasesAreLent

LEMMA ReadsRowsStep ==
    ASSUME LInv, SInv', [Next]_vars, NEW q \in Requests
    PROVE  ReadsRows(q)'
<1>1. CASE Untouched(q)
  BY <1>1 DEF Untouched, ReadsRows, LInv
<1> USE OwnerFacts DEF LInv, SInv, IInv, ControlOK
<1>2. ASSUME NEW w \in Workers, Arrive(w, q)
      PROVE  ReadsRows(q)'
  <2>1. phase'[q] = "update" /\ mconn' = mconn /\ phase[q] = "idle"
    BY <1>2 DEF Arrive, Goto, conns
  <2> QED BY <2>1 DEF ReadsRows, LoopsOK, ContextFills
<1>3. ASSUME NEW id \in Ids, GetConnection(q, id) \/ ListServer(q, id)
      PROVE  ReadsRows(q)'
  <2>1. /\ phase[q] \in {"action", "listing"} /\ rows' = rows
        /\ phase'[q] # "idle" /\ (phase'[q] = "listing" => phase[q] = "listing")
        /\ todo'[q] \subseteq todo[q]
    BY <1>3 DEF GetConnection, ListServer, Goto
  <2>2. mconn'[Context(q, id)] # mconn[Context(q, id)] => rows[q][id] # NoRow
    <3>1. CASE ListServer(q, id) BY <3>1 DEF ListServer, ReadsRows
    <3>2. CASE GetConnection(q, id)
      <4>1. servers[on[q]] = rows[q] BY <3>2 DEF GetConnection, Served, Matches
      <4> QED BY <3>2, <4>1 DEF GetConnection, conns
    <3> QED BY <1>3, <3>1, <3>2
  <2>3. \A i \in Ids : i # id => mconn'[Context(q, i)] = mconn[Context(q, i)]
    <3>1. mconn' = mconn \/ Borrow(q, id) BY <1>3 DEF GetConnection, ListServer, conns
    <3>2. mconn[Context(q, id)] = Null
      BY <1>3 DEF GetConnection, ListServer, LoopsOK, ContextFills
    <3>3. on[q] \in Workers /\ servers[on[q]][id] \in Row OBVIOUS
    <3>4. CASE Borrow(q, id) BY <3>2, <3>3, <3>4, BorrowStep
    <3> QED BY <3>1, <3>4
  <2> QED BY <2>1, <2>2, <2>3 DEF ReadsRows
<1>4. ASSUME ListServers(q)
      PROVE  ReadsRows(q)'
  <2>1. /\ phase[q] = "action" /\ phase'[q] = "listing" /\ rows' = rows /\ mconn' = mconn
        /\ todo'[q] = {id \in Ids : servers[on[q]][id] # NoRow}
    BY <1>4 DEF ListServers, Goto, conns
  <2>2. servers[on[q]] = rows[q] BY <2>1 DEF Served, Matches
  <2> QED BY <2>1, <2>2 DEF ReadsRows
<1>5. ASSUME Finish(q)
      PROVE  ReadsRows(q)'
  <2>1. phase'[q] = "idle" /\ rows'[q] = NoRows /\ mconn' = mconn /\ Held(q) = {}
    BY <1>5 DEF Finish, Goto, conns
  <2> QED BY <2>1, HeldNone DEF ReadsRows
<1>6. ASSUME /\ rows' = rows /\ (phase'[q] = "idle" => phase[q] = "idle") /\ phase'[q] # "listing"
             /\ \A id \in Ids : mconn'[Context(q, id)] \in {Null, mconn[Context(q, id)]}
      PROVE  ReadsRows(q)'
  BY <1>6 DEF ReadsRows
<1>7. ASSUME \/ CallLibvirt(q) \/ OtherPage(q) \/ ServersListed(q) \/ Respond(q)
             \/ EnterNestedLoop(q) \/ LeaveNestedLoop(q) \/ KeepWebSocket(q)
             \/ TimerFires(q) \/ WebSocketCloses(q) \/ StartAction(q)
             \/ \E id \in Ids, row \in Row : WriteRow(q, id, row)
      PROVE  ReadsRows(q)'
  BY <1>6, <1>7 DEF CallLibvirt, OtherPage, ServersListed, Respond, EnterNestedLoop, StartAction,
                LeaveNestedLoop, KeepWebSocket, TimerFires, WebSocketCloses, WriteRow, Goto, conns
<1>8. ASSUME NEW id \in Ids, UpdateRow(q, id) \/ EraseServer(q, id) \/ DeleteClone(q, id)
                               \/ DeleteLater(q, id)
      PROVE  ReadsRows(q)'
  <2>1. /\ rows' = rows /\ phase' = phase /\ phase[q] # "listing"
    BY <1>8 DEF UpdateRow, EraseServer, DeleteClone, DeleteLater
  <2>2. \A i \in Ids : mconn'[Context(q, i)] \in {Null, mconn[Context(q, i)]}
    <3>1. CASE UpdateRow(q, id)
      <4>1. mconn' = mconn \/ Reconnect(Registry(on[q], id), rows[q][id])
        BY <3>1 DEF UpdateRow, conns
      <4> QED BY <4>1 DEF Reconnect, ConnsOK, Pointers
    <3> QED BY <1>8, <3>1 DEF EraseServer, DeleteClone, DeleteLater, ConnsOK, Pointers
  <2> QED BY <1>6, <2>1, <2>2
<1>9. CASE Own(q)
  <2>1. \A id \in Ids : /\ DeleteServer(q, id) => WriteRow(q, id, NoRow)
                        /\ \A cfg \in Configs : CreateServer(q, id, cfg) \/ UpdateServer(q, id, cfg)
                                              => WriteRow(q, id, cfg)
    BY DEF DeleteServer, CreateServer, UpdateServer
  <2>2. NoRow \in Row /\ Configs \subseteq Row BY DEF Row
  <2> QED BY <1>2, <1>3, <1>4, <1>5, <1>7, <1>8, <1>9, <2>1, <2>2 DEF Own, Step
<1> QED BY <1>1, <1>9, OthersStep

(* A step that gives request r another lease for id only. *)
LEMMA LeaseChange ==
    ASSUME LeasesAreLent, LeasesAreLent', NEW r \in Requests, NEW id \in Ids,
           \A s \in Requests, i \in Ids : s # r \/ i # id => Lent(s, i)' = Lent(s, i)
    PROVE  Lease' = [Lease EXCEPT ![r][id] = Lent(r, id)']
BY DEF LeasesAreLent

LEMMA LeaseSame ==
    ASSUME LeasesAreLent, LeasesAreLent',
           \A s \in Requests, i \in Ids : Lent(s, i)' = Lent(s, i)
    PROVE  Lease' = Lease
BY DEF LeasesAreLent

LEMMA BorrowTakes ==
    ASSUME LInv, LInv', LeasesAreLent, LeasesAreLent',
           NEW r \in Requests, NEW id \in Ids,
           GetConnection(r, id) \/ ListServer(r, id)
    PROVE  Leases!Take(r, id) \/ UNCHANGED <<db, rows, Lease>>
<1> USE OwnerFacts DEF LInv, SInv, IInv, ControlOK
<1>1. db' = db /\ rows' = rows BY DEF GetConnection, ListServer, world
<1>2. mconn[Context(r, id)] = Null
  BY DEF GetConnection, ListServer, LoopsOK, ContextFills
<1>3. \A s \in Requests, i \in Ids :
         s # r \/ i # id => mconn'[Context(s, i)] = mconn[Context(s, i)]
  <2>1. mconn' = mconn \/ Borrow(r, id) BY DEF GetConnection, ListServer, conns
  <2>2. on[r] \in Workers /\ servers[on[r]][id] \in Row OBVIOUS
  <2>3. CASE Borrow(r, id) BY <1>2, <2>2, <2>3, BorrowStep
  <2> QED BY <2>1, <2>3
<1>4. \A s \in Requests, i \in Ids : s # r \/ i # id => Lent(s, i)' = Lent(s, i)
  BY <1>1, <1>3 DEF Lent
<1>5. CASE mconn'[Context(r, id)] = Null
  BY <1>1, <1>2, <1>4, <1>5, LeaseSame DEF Lent
<1>6. CASE mconn'[Context(r, id)] # Null
  <2>1. rows[r][id] # NoRow BY <1>1, <1>6 DEF ReadsRows
  <2>2. Lease' = [Lease EXCEPT ![r][id] = rows[r][id]]
    BY <1>1, <1>4, <1>6, LeaseChange DEF Lent
  <2> QED BY <1>1, <2>1, <2>2 DEF Leases!Take, Lease
<1> QED BY <1>5, <1>6

(* Every step is one of HostLeases, or none that a request could notice. *)
LEMMA StepOfLeases ==
    ASSUME LInv, LInv', LeasesAreLent, LeasesAreLent', [Next]_vars
    PROVE  Leases!Next \/ UNCHANGED <<db, rows, Lease>>
<1> USE OwnerFacts DEF LInv, SInv, IInv, ControlOK
<1>1. ASSUME UNCHANGED <<db, rows>>,
             \A s \in Requests, i \in Ids : mconn'[Context(s, i)] = mconn[Context(s, i)]
      PROVE  UNCHANGED <<db, rows, Lease>>
  BY <1>1, LeaseSame DEF Lent
<1>2. ASSUME NEW w \in Workers, NEW r \in Requests, Arrive(w, r)
      PROVE  Leases!Read(r) \/ UNCHANGED <<db, rows, Lease>>
  <2>1. /\ db' = db /\ mconn' = mconn /\ rows[r] = NoRows
        /\ rows' = [rows EXCEPT ![r] = db] \/ rows' = [rows EXCEPT ![r] = NoRows]
    BY <1>2 DEF Arrive, world, conns, ReadsRows
  <2>2. \A id \in Ids : mconn[Context(r, id)] = Null
    BY <1>2 DEF Arrive, LoopsOK, ContextFills
  <2>3. Lease' = Lease
    <3>1. ASSUME NEW s \in Requests, NEW i \in Ids PROVE Lent(s, i)' = Lent(s, i)
      <4>1. CASE s = r BY <2>1, <2>2, <4>1 DEF Lent
      <4>2. CASE s # r
        <5>1. rows'[s] = rows[s] BY <2>1, <4>2
        <5> QED BY <2>1, <5>1 DEF Lent
      <4> QED BY <4>1, <4>2
    <3> QED BY <3>1, LeaseSame
  <2>4. CASE rows' = [rows EXCEPT ![r] = db]
    BY <2>1, <2>3, <2>4 DEF Leases!Read, Leases!NoRows, NoRows, Lease
  <2>5. CASE rows' = [rows EXCEPT ![r] = NoRows]
    BY <2>1, <2>3, <2>5
  <2> QED BY <2>1, <2>4, <2>5
<1>3. ASSUME NEW r \in Requests, NEW id \in Ids, DeleteClone(r, id)
      PROVE  Leases!GiveBack(r, id)
  <2>1. /\ db' = db /\ rows' = rows /\ mconn[Context(r, id)] # Null
        /\ mconn'[Context(r, id)] = Null
        /\ \A s \in Requests, i \in Ids :
              s # r \/ i # id => mconn'[Context(s, i)] = mconn[Context(s, i)]
    BY <1>3 DEF DeleteClone, world, ConnsOK, Pointers
  <2>2. Lease' = [Lease EXCEPT ![r][id] = NoRow]
    <3>1. \A s \in Requests, i \in Ids : s # r \/ i # id => Lent(s, i)' = Lent(s, i)
      BY <2>1 DEF Lent
    <3>2. Lent(r, id)' = NoRow BY <2>1 DEF Lent
    <3> QED BY <3>1, <3>2, LeaseChange
  <2>3. Lease[r][id] # NoRow BY <2>1 DEF LeasesAreLent, Lent, ReadsRows
  <2> QED BY <2>1, <2>2, <2>3 DEF Leases!GiveBack, Lease
<1>4. ASSUME NEW r \in Requests, Finish(r)
      PROVE  Leases!Leave(r)
  <2>1. /\ db' = db /\ mconn' = mconn /\ rows' = [rows EXCEPT ![r] = NoRows]
        /\ \A id \in Ids : mconn[Context(r, id)] = Null
    BY <1>4, HeldNone DEF Finish, world, conns
  <2>2. Lease' = Lease BY <2>1, LeaseSame DEF Lent
  <2>3. Lease[r] = NoRows BY <2>1 DEF LeasesAreLent, Lent, NoRows
  <2> QED BY <2>1, <2>2, <2>3 DEF Leases!Leave, Leases!NoRows, NoRows, Lease
<1>5. ASSUME NEW r \in Requests, NEW id \in Ids, NEW row \in Row, WriteRow(r, id, row)
      PROVE  Leases!Write(id, row)
  <2>1. db' = [db EXCEPT ![id] = row] /\ rows' = rows /\ mconn' = mconn
    BY <1>5 DEF WriteRow, conns
  <2>2. Lease' = Lease BY <2>1, LeaseSame DEF Lent
  <2> QED BY <2>1, <2>2 DEF Leases!Write, Lease
<1>6. ASSUME NEW r \in Requests, NEW id \in Ids, UpdateRow(r, id)
      PROVE  UNCHANGED <<db, rows, Lease>>
  <2>1. mconn' = mconn \/ Reconnect(Registry(on[r], id), rows[r][id])
    BY <1>6 DEF UpdateRow, conns
  <2>2. \A s \in Requests, i \in Ids : mconn'[Context(s, i)] = mconn[Context(s, i)]
    BY <2>1 DEF Reconnect, ConnsOK, Pointers
  <2> QED BY <1>1, <1>6, <2>2 DEF UpdateRow, world
<1>7. ASSUME NEW r \in Requests, NEW id \in Ids, EraseServer(r, id) \/ DeleteLater(r, id)
      PROVE  UNCHANGED <<db, rows, Lease>>
  <2>1. \A s \in Requests, i \in Ids : mconn'[Context(s, i)] = mconn[Context(s, i)]
    BY <1>7 DEF EraseServer, DeleteLater, ConnsOK, Pointers
  <2> QED BY <1>1, <1>7, <2>1 DEF EraseServer, DeleteLater, world
<1>8. ASSUME NEW r \in Requests,
             \/ StartAction(r) \/ OtherPage(r) \/ ListServers(r) \/ ServersListed(r)
             \/ CallLibvirt(r) \/ Respond(r) \/ EnterNestedLoop(r) \/ LeaveNestedLoop(r)
             \/ KeepWebSocket(r) \/ TimerFires(r) \/ WebSocketCloses(r)
      PROVE  UNCHANGED <<db, rows, Lease>>
  BY <1>1, <1>8 DEF StartAction, OtherPage, ListServers, ServersListed, CallLibvirt, Respond,
                    EnterNestedLoop, LeaveNestedLoop, KeepWebSocket, TimerFires,
                    WebSocketCloses, world, conns
<1>9. ASSUME NEW cfg \in Configs, HostDown(cfg) \/ HostUp(cfg)
      PROVE  UNCHANGED <<db, rows, Lease>>
  BY <1>1, <1>9 DEF HostDown, HostUp, conns
<1>10. CASE UNCHANGED vars BY <1>1, <1>10 DEF vars
<1>11. ASSUME NEW r \in Requests, Step(r)
       PROVE  Leases!Next \/ UNCHANGED <<db, rows, Lease>>
  <2>1. \A id \in Ids : /\ DeleteServer(r, id) => WriteRow(r, id, NoRow)
                        /\ \A cfg \in Configs : CreateServer(r, id, cfg) \/ UpdateServer(r, id, cfg)
                                              => WriteRow(r, id, cfg)
    BY DEF DeleteServer, CreateServer, UpdateServer
  <2>2. NoRow \in Row /\ Configs \subseteq Row /\ Row = Configs \cup {NoRow} BY DEF Row
  <2>3. \/ Leases!Leave(r)
        \/ \E id \in Ids : \/ Leases!Take(r, id) \/ Leases!GiveBack(r, id)
                            \/ \E row \in Row : Leases!Write(id, row)
        \/ UNCHANGED <<db, rows, Lease>>
    BY <1>3, <1>4, <1>5, <1>6, <1>7, <1>8, <1>11, <2>1, <2>2, BorrowTakes DEF Step
  <2> QED BY <2>2, <2>3 DEF Leases!Next
<1>12. ASSUME NEW w \in Workers, NEW r \in Requests, Leases!Read(r)
       PROVE  Leases!Next
  BY <1>12 DEF Leases!Next
<1> QED BY <1>2, <1>7, <1>8, <1>9, <1>10, <1>11, <1>12 DEF Next

(* The registry implements HostLeases: caching, reconnecting and counting   *)
(* references are invisible to requests, and no lease is ever revoked       *)
(* (Virtlyst::connection and Connection::clone).                            *)
THEOREM RegistryImplementsLeases == Spec => ImplementsLeases
<1>1. Init => Leases!Init
  <2> SUFFICES ASSUME Init PROVE Leases!Init OBVIOUS
  <2>1. \A r \in Requests, id \in Ids : LeaseOf(r, id) = NoRow
    BY OwnerFacts DEF Init, LeaseOf
  <2> QED BY <2>1 DEF Init, Leases!Init, Leases!NoRows, NoRows, Row
<1>2. Init => \A r \in Requests : ReadsRows(r)
  BY OwnerFacts DEF Init, ReadsRows
<1>3. LInv /\ SInv' /\ [Next]_vars => LInv'
  BY ReadsRowsStep DEF LInv
<1>4. Init /\ SInv => LInv BY <1>2 DEF LInv
<1>5. Spec => []LInv
  BY <1>3, <1>4, SInvariance, PTL DEF Spec
<1>6. LInv /\ LInv' /\ LeasesAreLent /\ LeasesAreLent' /\ [Next]_vars
        => [Leases!Next]_<<db, rows, Lease>>
  BY StepOfLeases
<1>7. LInv => SInv BY DEF LInv
<1>8. Spec => Leases!Init /\ [][Leases!Next]_<<db, rows, Lease>>
  BY <1>1, <1>5, <1>6, <1>7, LeaseIsLent, PTL DEF Spec
<1> QED BY <1>8, PTL DEF ImplementsLeases, Leases!Spec, Lease
=============================================================================
