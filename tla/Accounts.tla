------------------------------- MODULE Accounts -------------------------------
(***************************************************************************)
(* The sqlite database of Virtlyst as far as accounts go: its creation by  *)
(* the first start (Virtlyst::init, createDB), the table users, which the  *)
(* Users pages write, and the logins (Root::login, SqlUserStore).          *)
(*                                                                         *)
(* Every statement is a transaction of its own.  The process may be killed *)
(* between two statements and a statement may fail (the disk is full, the  *)
(* file is locked); the next start only looks whether the file exists.     *)
(*                                                                         *)
(* A definition named X_Something next to X is X with a fault: it is not   *)
(* part of the specification, it serves to see that the properties notice. *)
(***************************************************************************)
EXTENDS Naturals, FiniteSets

CONSTANTS
    Names,         \* user names
    Admin,         \* the name "admin"
    Passwords,     \* passwords
    Short,         \* those of less than ten characters
    Default,       \* the password "admin", one of them
    Sessions,      \* browser sessions
    Nobody,        \* no user
    MaxUsers,      \* bound: how many rows users can have
    MaxFailures    \* bound: how many statements of createDB fail or are cut short

ASSUME AccountsAssumption ==
    /\ Admin \in Names /\ Nobody \notin Names
    /\ Default \in Short /\ Short \subseteq Passwords
    /\ MaxUsers \in Nat \ {0} /\ MaxFailures \in Nat

Ids == 1..MaxUsers
User == [username : Names, password : Passwords]
NoUser == [username |-> Nobody, password |-> Default]
AdminUser == [username |-> Admin, password |-> Default]
Flavors == 1..6    \* micro, mini, small, medium, large, xlarge
Tables == {"users", "servers_compute", "create_flavor"}

VARIABLES
    server,     \* "stopped", "creating" (in createDB) or "serving"
    next,       \* the next statement of createDB
    file,       \* the database file exists
    tables,     \* the tables it has
    flavors,    \* the rows of create_flavor
    users,      \* the rows of users by id, NoUser where there is none
    session,    \* the user each session is logged in as
    edited,     \* the Users pages have changed the table
    failures    \* how many statements of createDB failed or were cut short

database == <<file, tables, flavors, users>>
vars == <<server, next, database, session, edited, failures>>

Last == 5 + 6   \* the statements of createDB: five, and one per flavor

UsedIds == {id \in Ids : users[id] # NoUser}
NextId == Cardinality(UsedIds) + 1     \* AUTOINCREMENT, and no row is deleted
Taken(name, but) == \E id \in Ids \ {but} : users[id].username = name
-----------------------------------------------------------------------------
Init ==
    /\ server = "stopped" /\ next = 1
    /\ file = FALSE /\ tables = {} /\ flavors = {}
    /\ users = [id \in Ids |-> NoUser]
    /\ session = [s \in Sessions |-> Nobody]
    /\ edited = FALSE /\ failures = 0

Start_OnlyComplete ==
    /\ server = "stopped"
    /\ server' = IF ~file THEN "creating" ELSE IF tables = Tables THEN "serving" ELSE "stopped"
    /\ next' = 1
    /\ UNCHANGED <<database, session, edited, failures>>

(* Virtlyst::init                                                           *)
Start ==
    /\ server = "stopped"
    /\ server' = IF file THEN "serving" ELSE "creating"
    /\ next' = 1
    /\ UNCHANGED <<database, session, edited, failures>>

(* Statement k of createDB succeeds: 1 is the pragma, which makes the file, *)
(* 2, 4 and 5 create the tables, 3 inserts admin, the others the flavors.   *)
Execute(k) ==
    /\ file' = TRUE
    /\ tables' = tables \cup (CASE k = 2 -> {"users"} [] k = 4 -> {"servers_compute"}
                                [] k = 5 -> {"create_flavor"} [] OTHER -> {})
    /\ users' = IF k = 3 THEN [users EXCEPT ![NextId] = AdminUser] ELSE users
    /\ flavors' = IF k > 5 THEN flavors \cup {k - 5} ELSE flavors

CreateDB ==
    /\ server = "creating"
    /\ Execute(next)
    /\ IF next = Last THEN server' = "serving" /\ next' = 1
       ELSE next' = next + 1 /\ UNCHANGED server
    /\ UNCHANGED <<session, edited, failures>>

(* A statement fails: the results of the pragma and of createDbFlavor are   *)
(* ignored, any other ends createDB and init.                               *)
Ignored(k) == k = 1 \/ k > 5

StatementFails ==
    /\ server = "creating" /\ failures < MaxFailures
    /\ failures' = failures + 1
    /\ file' = TRUE     \* opening it created it
    /\ IF ~Ignored(next) THEN server' = "stopped" /\ next' = 1
       ELSE IF next = Last THEN server' = "serving" /\ next' = 1
       ELSE next' = next + 1 /\ UNCHANGED server
    /\ UNCHANGED <<tables, flavors, users, session, edited>>

(* The process ends, in the middle of createDB or later.  The sessions are  *)
(* kept by the browsers and the session store.                              *)
Killed ==
    /\ server # "stopped"
    /\ server = "creating" => failures < MaxFailures
    /\ failures' = IF server = "creating" THEN failures + 1 ELSE failures
    /\ server' = "stopped" /\ next' = 1
    /\ UNCHANGED <<database, session, edited>>

(* Users::create. The statement fails without the table or if the name is   *)
(* taken.                                                                   *)
CreateUser(name, password) ==
    /\ server = "serving"
    /\ password \notin Short
    /\ "users" \in tables /\ ~Taken(name, 0) /\ NextId \in Ids
    /\ users' = [users EXCEPT ![NextId] = [username |-> name, password |-> password]]
    /\ edited' = TRUE
    /\ UNCHANGED <<server, next, file, tables, flavors, session, failures>>

(* Users::edit                                                              *)
EditUser(id, name) ==
    /\ server = "serving" /\ id \in UsedIds
    /\ ~Taken(name, id)
    /\ users' = [users EXCEPT ![id].username = name]
    /\ edited' = TRUE
    /\ UNCHANGED <<server, next, file, tables, flavors, session, failures>>

(* Users::change_password, with a password of any length                    *)
ChangePassword(id, password) ==
    /\ server = "serving" /\ id \in UsedIds
    /\ users' = [users EXCEPT ![id].password = password]
    /\ edited' = TRUE
    /\ UNCHANGED <<server, next, file, tables, flavors, session, failures>>

(* Root::login, SqlUserStore::findUser                                      *)
Login(s, name, password) ==
    /\ server = "serving" /\ session[s] = Nobody
    /\ [username |-> name, password |-> password] \in {users[id] : id \in UsedIds}
    /\ session' = [session EXCEPT ![s] = name]
    /\ UNCHANGED <<server, next, database, edited, failures>>

(* Root::logout                                                             *)
Logout(s) ==
    /\ server = "serving" /\ session[s] # Nobody
    /\ session' = [session EXCEPT ![s] = Nobody]
    /\ UNCHANGED <<server, next, database, edited, failures>>

(* Root::Auto lets only a logged in session reach the Users pages.          *)
LoggedIn == \E s \in Sessions : session[s] # Nobody

Next ==
    \/ Start \/ CreateDB \/ StatementFails \/ Killed
    \/ LoggedIn /\ \/ \E name \in Names, password \in Passwords : CreateUser(name, password)
                   \/ \E id \in Ids, name \in Names : EditUser(id, name)
                   \/ \E id \in Ids, password \in Passwords : ChangePassword(id, password)
    \/ \E s \in Sessions : Logout(s) \/ \E n \in Names, p \in Passwords : Login(s, n, p)

Spec == Init /\ [][Next]_vars

(* Whoever runs the server starts it again, and createDB runs to its end.   *)
FairSpec == Spec /\ WF_vars(Start) /\ WF_vars(CreateDB)
-----------------------------------------------------------------------------
TypeOK ==
    /\ server \in {"stopped", "creating", "serving"} /\ next \in 1..Last
    /\ file \in BOOLEAN /\ tables \subseteq Tables /\ flavors \subseteq Flavors
    /\ users \in [Ids -> User \cup {NoUser}]
    /\ session \in [Sessions -> Names \cup {Nobody}]
    /\ edited \in BOOLEAN /\ failures \in 0..MaxFailures

(* No two accounts share a user name, whatever the pages do to them: the    *)
(* UNIQUE constraint of createDB's CREATE TABLE.                            *)
UsernamesUnique ==
    \A i, j \in UsedIds : users[i].username = users[j].username => i = j

(* Accounts survive every restart, and a start that finds a database never  *)
(* makes another one in its place.                                          *)
AccountsSurvive == [][UsedIds \subseteq UsedIds']_vars

(* A server that serves has all tables and flavors, unless the first start  *)
(* was cut short or one of its statements failed.                           *)
CompleteUnlessInterrupted ==
    server = "serving" /\ failures = 0 => tables = Tables /\ flavors = Flavors

(* A server whose createDB went wrong can still be started again.           *)
ServesAgain == server = "stopped" ~> server = "serving"

(* README.md: "Default Username: admin, Password: admin". As long as nobody *)
(* edited the accounts, that is what one can log in with.                   *)
DefaultAccountWorks ==
    server = "serving" /\ ~edited
        => \E id \in Ids : users[id] = AdminUser
=============================================================================
