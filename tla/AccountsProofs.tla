---------------------------- MODULE AccountsProofs ----------------------------
(***************************************************************************)
(* Accounts, for any names, passwords and bounds: user names stay unique,  *)
(* accounts survive restarts, and only an interrupted createDB leaves an   *)
(* incomplete database.                                                    *)
(***************************************************************************)
EXTENDS Accounts, FiniteSetTheorems, TLAPS

(* The ids in use are the first ones: rows are only ever appended.          *)
Contiguous == \E n \in 0..MaxUsers : UsedIds = 1..n

(* createDB runs only on a database that did not exist, and what it has     *)
(* made so far are the statements it is past.                               *)
Untouched == ~file => users = [id \in Ids |-> NoUser] /\ tables = {}
Creating ==
    server = "creating" =>
        /\ next <= 3 => users = [id \in Ids |-> NoUser]
        /\ failures = 0 =>
            /\ next > 2 => "users" \in tables
            /\ next > 4 => "servers_compute" \in tables
            /\ next > 5 => "create_flavor" \in tables
            /\ \A k \in Flavors : k + 5 < next => k \in flavors
Complete ==
    file /\ server # "creating" /\ failures = 0 => tables = Tables /\ flavors = Flavors
Served == server = "serving" => file
Begun == server = "creating" /\ next > 1 => file

IInv == /\ TypeOK /\ Contiguous /\ UsernamesUnique
        /\ Untouched /\ Creating /\ Complete /\ Served /\ Begun

LEMMA NextIdFree ==
  ASSUME TypeOK, Contiguous, NextId \in Ids
  PROVE  /\ NextId \notin UsedIds
         /\ NextId <= MaxUsers /\ UsedIds = 1..(NextId - 1)
<1>1. PICK n \in 0..MaxUsers : UsedIds = 1..n
  BY DEF Contiguous
<1>2. Cardinality(1..n) = n
  BY FS_Interval, AccountsAssumption, n \in Nat, n >= 1 \/ n = 0, FS_EmptySet
<1> QED
  BY <1>1, <1>2 DEF NextId, Ids

(* Appending a row whose name is not taken. *)
LEMMA Append1 ==
  ASSUME TypeOK, Contiguous, UsernamesUnique, NextId \in Ids,
         NEW u \in User, ~Taken(u.username, 0),
         users' = [users EXCEPT ![NextId] = u]
  PROVE  Contiguous' /\ UsernamesUnique' /\ UsedIds \subseteq UsedIds'
<1> DEFINE n == NextId
<1>1. n \notin UsedIds /\ UsedIds = 1..(n - 1) /\ n \in Ids /\ n \in 1..MaxUsers
  BY NextIdFree, AccountsAssumption DEF Ids
<1>2. u # NoUser
  BY AccountsAssumption DEF User, NoUser
<1> HIDE DEF n
<1>3. users' = [users EXCEPT ![n] = u]
  BY DEF n
<1>4. UsedIds' = UsedIds \cup {n}
  BY <1>1, <1>2, <1>3 DEF UsedIds, TypeOK
<1>5. UsedIds' = 1..n
  BY <1>1, <1>4
<1>6. Contiguous'
  BY <1>1, <1>5, AccountsAssumption DEF Contiguous
<1>7. UsernamesUnique'
  <2> SUFFICES ASSUME NEW i \in UsedIds', NEW j \in UsedIds',
                      users'[i].username = users'[j].username
               PROVE  i = j
    BY DEF UsernamesUnique
  <2>1. \A k \in UsedIds : users'[k] = users[k] /\ users[k].username # u.username
    BY <1>1, <1>3 DEF UsedIds, TypeOK, Taken, Ids
  <2>2. users'[n].username = u.username
    BY <1>1, <1>3 DEF TypeOK
  <2> QED
    BY <1>4, <2>1, <2>2 DEF UsernamesUnique
<1> QED
  BY <1>4, <1>6, <1>7

LEMMA InitIInv == Init => IInv
<1> SUFFICES ASSUME Init PROVE IInv
  OBVIOUS
<1>1. UsedIds = {} /\ UsedIds = 1..0
  BY DEF Init, UsedIds
<1>2. TypeOK
  <2>1. server \in {"stopped", "creating", "serving"} /\ next \in 1..Last
    BY DEF Init, Last
  <2>2. file \in BOOLEAN /\ edited \in BOOLEAN
    BY DEF Init
  <2>3. tables \subseteq Tables /\ flavors \subseteq Flavors
    BY DEF Init
  <2>4. users \in [Ids -> User \cup {NoUser}] /\ session \in [Sessions -> Names \cup {Nobody}]
    BY DEF Init
  <2>5. failures \in 0..MaxFailures
    BY AccountsAssumption DEF Init
  <2> QED
    BY <2>1, <2>2, <2>3, <2>4, <2>5 DEF TypeOK
<1>3. Contiguous /\ UsernamesUnique
  BY <1>1, AccountsAssumption DEF Contiguous, UsernamesUnique
<1> QED
  BY <1>2, <1>3 DEF IInv, Init, Untouched, Creating, Complete, Served, Begun

(* A step that leaves the rows alone. *)
LEMMA RowsKept ==
  ASSUME users' = users, Contiguous, UsernamesUnique
  PROVE  Contiguous' /\ UsernamesUnique'
<1>1. UsedIds' = UsedIds
  BY DEF UsedIds
<1> QED
  BY <1>1 DEF Contiguous, UsernamesUnique

LEMMA NextIInv == IInv /\ [Next]_vars => IInv' /\ UsedIds \subseteq UsedIds'
<1> SUFFICES ASSUME IInv, [Next]_vars PROVE IInv' /\ UsedIds \subseteq UsedIds'
  OBVIOUS
<1> USE AccountsAssumption
<1>0. TypeOK /\ Contiguous /\ UsernamesUnique
  BY DEF IInv
<1>u. users' = users => /\ Contiguous' /\ UsernamesUnique'
                       /\ UsedIds \subseteq UsedIds'
  <2>1. users' = users => UsedIds' = UsedIds
    BY DEF UsedIds
  <2> QED
    BY <1>0, <2>1, RowsKept
<1>1. CASE Start
  <2>1. TypeOK'
    BY <1>1 DEF IInv, Start, TypeOK, database, Last
  <2>2. users' = users
    BY <1>1 DEF Start, database
  <2>3. Untouched' /\ Creating' /\ Complete' /\ Served' /\ Begun'
    BY <1>1 DEF IInv, Start, TypeOK, database, Untouched, Creating, Complete, Served, Begun,
                Flavors
  <2> QED
    BY <1>u, <2>1, <2>2, <2>3 DEF IInv
<1>2. CASE CreateDB
  <2> USE <1>2
  <2>0. /\ server = "creating" /\ next \in 1..11
        /\ Execute(next)
        /\ IF next = 11 THEN server' = "serving" /\ next' = 1
           ELSE next' = next + 1 /\ server' = server
        /\ failures' = failures /\ session' = session /\ edited' = edited
    BY <1>0 DEF CreateDB, Last, TypeOK
  <2>1. /\ file' = TRUE
        /\ tables \subseteq tables' /\ tables' \subseteq Tables
        /\ next = 2 => "users" \in tables'
        /\ next = 4 => "servers_compute" \in tables'
        /\ next = 5 => "create_flavor" \in tables'
        /\ next # 3 => users' = users
        /\ next = 3 => users' = [users EXCEPT ![NextId] = AdminUser]
    BY <1>0, <2>0 DEF Execute, Tables, TypeOK
  <2>2. /\ flavors' \subseteq Flavors /\ flavors \subseteq flavors'
        /\ next > 5 => next - 5 \in flavors'
    BY <1>0, <2>0 DEF Execute, Flavors, TypeOK
  <2>3. AdminUser \in User /\ AdminUser # NoUser
    BY DEF AdminUser, User, NoUser
  <2>4. Contiguous' /\ UsernamesUnique' /\ UsedIds \subseteq UsedIds'
    <3>1. CASE next # 3
      BY <1>u, <2>1, <3>1
    <3>2. CASE next = 3
      <4>1. users = [id \in Ids |-> NoUser] /\ UsedIds = {}
        BY <2>0, <3>2 DEF IInv, Creating, UsedIds
      <4>2. NextId = 1 /\ NextId \in Ids
        BY <4>1, FS_EmptySet DEF NextId, Ids
      <4>3. ~Taken(AdminUser.username, 0)
        BY <4>1 DEF AdminUser, Taken, NoUser
      <4> QED
        BY <1>0, <2>1, <2>3, <3>2, <4>2, <4>3, Append1
    <3> QED
      BY <3>1, <3>2
  <2>5. TypeOK'
    <3>1. users' \in [Ids -> User \cup {NoUser}]
      BY <1>0, <2>1, <2>3 DEF TypeOK
    <3> QED
      BY <1>0, <2>0, <2>1, <2>2, <3>1 DEF TypeOK, Last
  <2>6. Untouched' /\ Served' /\ Begun'
    BY <2>1 DEF Untouched, Served, Begun
  <2>7. server' = "creating" => next \in 1..10 /\ next' = next + 1
    BY <2>0
  <2>8. Creating'
    <3>1. /\ next <= 2 => users = [id \in Ids |-> NoUser]
          /\ failures = 0 =>
              /\ next > 2 => "users" \in tables
              /\ next > 4 => "servers_compute" \in tables
              /\ next > 5 => "create_flavor" \in tables
              /\ \A k \in Flavors : k + 5 < next => k \in flavors
      BY <2>0 DEF IInv, Creating
    <3>2. ASSUME server' = "creating", failures' = 0, NEW k \in Flavors, k + 5 < next'
          PROVE  k \in flavors'
      BY <2>0, <2>2, <2>7, <3>1, <3>2 DEF Flavors
    <3>3. ASSUME server' = "creating", next' <= 3
          PROVE  users' = [id \in Ids |-> NoUser]
      BY <2>1, <2>7, <3>1, <3>3
    <3>4. ASSUME server' = "creating", failures' = 0
          PROVE  /\ next' > 2 => "users" \in tables'
                 /\ next' > 4 => "servers_compute" \in tables'
                 /\ next' > 5 => "create_flavor" \in tables'
      BY <2>0, <2>1, <2>7, <3>1, <3>4
    <3> QED
      BY <3>2, <3>3, <3>4 DEF Creating
  <2>9. Complete'
    <3> SUFFICES ASSUME server' # "creating", failures' = 0
                 PROVE  tables' = Tables /\ flavors' = Flavors
      BY DEF Complete
    <3>1. next = 11
      BY <2>0
    <3>2. /\ "users" \in tables /\ "servers_compute" \in tables
          /\ "create_flavor" \in tables
          /\ \A k \in Flavors : k + 5 < next => k \in flavors
      BY <2>0, <3>1 DEF IInv, Creating
    <3>3. tables' = Tables
      BY <2>1, <3>2 DEF Tables
    <3>4. \A k \in Flavors : k \in flavors'
      BY <2>2, <3>1, <3>2 DEF Flavors
    <3> QED
      BY <2>2, <3>3, <3>4
  <2> QED
    BY <2>4, <2>5, <2>6, <2>8, <2>9 DEF IInv
<1>3. CASE StatementFails
  <2>1. TypeOK'
    BY <1>3 DEF IInv, StatementFails, TypeOK, Last, Ignored
  <2>2. users' = users
    BY <1>3 DEF StatementFails
  <2>3. Untouched' /\ Creating' /\ Complete' /\ Served' /\ Begun'
    BY <1>3 DEF IInv, StatementFails, TypeOK, Untouched, Creating, Complete, Served, Begun,
                Flavors, Ignored, Last
  <2> QED
    BY <1>u, <2>1, <2>2, <2>3 DEF IInv
<1>4. CASE Killed
  <2>1. TypeOK'
    BY <1>4 DEF IInv, Killed, TypeOK, database, Last
  <2>2. users' = users
    BY <1>4 DEF Killed, database
  <2>3. Untouched' /\ Creating' /\ Complete' /\ Served' /\ Begun'
    BY <1>4 DEF IInv, Killed, TypeOK, database, Untouched, Creating, Complete, Served, Begun
  <2> QED
    BY <1>u, <2>1, <2>2, <2>3 DEF IInv
<1>5. ASSUME NEW name \in Names, NEW password \in Passwords, CreateUser(name, password)
      PROVE  IInv' /\ UsedIds \subseteq UsedIds'
  <2> DEFINE u == [username |-> name, password |-> password]
  <2>1. u \in User /\ u.username = name
    BY DEF User
  <2>2. users' = [users EXCEPT ![NextId] = u] /\ NextId \in Ids /\ ~Taken(name, 0)
    BY <1>5 DEF CreateUser
  <2> HIDE DEF u
  <2>3. Contiguous' /\ UsernamesUnique' /\ UsedIds \subseteq UsedIds'
    BY <1>0, <2>1, <2>2, Append1
  <2>4. TypeOK'
    BY <1>0, <1>5, <2>1, <2>2 DEF TypeOK, CreateUser
  <2>5. Untouched' /\ Creating' /\ Complete' /\ Served' /\ Begun'
    BY <1>5 DEF IInv, CreateUser, Untouched, Creating, Complete, Served, Begun
  <2> QED
    BY <2>3, <2>4, <2>5 DEF IInv
<1>6. ASSUME NEW id \in Ids, NEW name \in Names, EditUser(id, name)
      PROVE  IInv' /\ UsedIds \subseteq UsedIds'
  <2> DEFINE u == [username |-> name, password |-> users[id].password]
  <2>1. users[id] \in User
    BY <1>0, <1>6 DEF TypeOK, EditUser, UsedIds
  <2>2. u \in User /\ u.username = name /\ u # NoUser
    BY <2>1 DEF User, NoUser
  <2>3. users' = [users EXCEPT ![id] = u] /\ ~Taken(name, id) /\ id \in UsedIds
    <3>1. [users[id] EXCEPT !.username = name] = u
      BY <2>1 DEF User
    <3> QED
      BY <1>6, <3>1 DEF EditUser
  <2> HIDE DEF u
  <2>4. UsedIds' = UsedIds
    BY <1>0, <2>2, <2>3 DEF TypeOK, UsedIds
  <2>5. UsernamesUnique'
    BY <1>0, <2>2, <2>3, <2>4 DEF TypeOK, UsedIds, UsernamesUnique, Taken
  <2>6. Contiguous'
    BY <1>0, <2>4 DEF Contiguous
  <2>7. TypeOK'
    BY <1>0, <1>6, <2>2, <2>3 DEF TypeOK, EditUser
  <2>8. Untouched' /\ Creating' /\ Complete' /\ Served' /\ Begun'
    BY <1>6 DEF IInv, EditUser, Untouched, Creating, Complete, Served, Begun
  <2> QED
    BY <2>4, <2>5, <2>6, <2>7, <2>8 DEF IInv
<1>7. ASSUME NEW id \in Ids, NEW password \in Passwords, ChangePassword(id, password)
      PROVE  IInv' /\ UsedIds \subseteq UsedIds'
  <2> DEFINE u == [username |-> users[id].username, password |-> password]
  <2>1. users[id] \in User
    BY <1>0, <1>7 DEF TypeOK, ChangePassword, UsedIds
  <2>2. u \in User /\ u.username = users[id].username /\ u # NoUser
    BY <2>1 DEF User, NoUser
  <2>3. users' = [users EXCEPT ![id] = u] /\ id \in UsedIds
    <3>1. [users[id] EXCEPT !.password = password] = u
      BY <2>1 DEF User
    <3> QED
      BY <1>7, <3>1 DEF ChangePassword
  <2> HIDE DEF u
  <2>4. UsedIds' = UsedIds
    BY <1>0, <2>2, <2>3 DEF TypeOK, UsedIds
  <2>5. UsernamesUnique'
    BY <1>0, <2>2, <2>3, <2>4 DEF TypeOK, UsedIds, UsernamesUnique
  <2>6. Contiguous'
    BY <1>0, <2>4 DEF Contiguous
  <2>7. TypeOK'
    BY <1>0, <1>7, <2>2, <2>3 DEF TypeOK, ChangePassword
  <2>8. Untouched' /\ Creating' /\ Complete' /\ Served' /\ Begun'
    BY <1>7 DEF IInv, ChangePassword, Untouched, Creating, Complete, Served, Begun
  <2> QED
    BY <2>4, <2>5, <2>6, <2>7, <2>8 DEF IInv
<1>8. ASSUME NEW s \in Sessions,
             Logout(s) \/ \E n \in Names, p \in Passwords : Login(s, n, p)
      PROVE  IInv' /\ UsedIds \subseteq UsedIds'
  <2>1. TypeOK'
    BY <1>0, <1>8 DEF TypeOK, Login, Logout, database
  <2>2. UNCHANGED <<server, next, database, failures>>
    BY <1>8 DEF Login, Logout
  <2>3. Untouched' /\ Creating' /\ Complete' /\ Served' /\ Begun'
    BY <2>2 DEF IInv, database, Untouched, Creating, Complete, Served, Begun
  <2> QED
    BY <1>u, <2>1, <2>2, <2>3 DEF IInv, database
<1>9. CASE UNCHANGED vars
  <2>1. TypeOK'
    BY <1>0, <1>9 DEF vars, database, TypeOK
  <2>2. Untouched' /\ Creating' /\ Complete' /\ Served' /\ Begun'
    BY <1>9 DEF IInv, vars, database, Untouched, Creating, Complete, Served, Begun
  <2> QED
    BY <1>u, <1>9, <2>1, <2>2 DEF IInv, vars, database
<1> QED
  BY <1>1, <1>2, <1>3, <1>4, <1>5, <1>6, <1>7, <1>8, <1>9 DEF Next

(* The inductive invariant holds in every reachable state. *)
THEOREM AccountsInvariance == Spec => []IInv
  BY InitIInv, NextIInv, PTL DEF Spec

(* The variables of Accounts keep their types. *)
THEOREM AccountsTypes == Spec => []TypeOK
<1>1. IInv => TypeOK
  BY DEF IInv
<1> QED
  BY AccountsInvariance, <1>1, PTL

(* User names stay unique. *)
THEOREM NamesStayUnique == Spec => []UsernamesUnique
<1>1. IInv => UsernamesUnique
  BY DEF IInv
<1> QED
  BY AccountsInvariance, <1>1, PTL

(* No step, a restart in particular, loses an account. *)
THEOREM NoAccountIsLost == Spec => AccountsSurvive
<1>1. IInv /\ [Next]_vars => [UsedIds \subseteq UsedIds']_vars
  BY NextIInv
<1> QED
  BY AccountsInvariance, <1>1, PTL DEF Spec, AccountsSurvive

(* Only a createDB that was cut short or failed leaves an incomplete        *)
(* database to a serving process.                                           *)
THEOREM DatabaseComplete == Spec => []CompleteUnlessInterrupted
<1>1. IInv => CompleteUnlessInterrupted
  BY DEF IInv, Complete, Served, CompleteUnlessInterrupted
<1> QED
  BY AccountsInvariance, <1>1, PTL
=============================================================================
