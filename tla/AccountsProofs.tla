--------------------------- MODULE AccountsProofs ---------------------------
(***************************************************************************)
(* Proofs about Accounts, for any number of servers, slots and names and   *)
(* any bounds.                                                             *)
(***************************************************************************)
EXTENDS Accounts, TLAPS

-----------------------------------------------------------------------------
(* Type correctness *)

\* A row inserted under the next id fits the table.
LEMMA InsertType ==
  ASSUME TypeOK, NEW n \in Name, NEW is_admin \in BOOLEAN,
         NEW registrar \in Name \cup {None}, Insert(n, is_admin, registrar)
  PROVE  /\ users' \in [Name -> User \cup {None}]
         /\ seq' \in Nat
         /\ by' \in [Name -> Name \cup {None}]
<1>1. [id |-> seq + 1, is_admin |-> is_admin] \in User
  BY DEF TypeOK, User
<1> QED
  BY <1>1 DEF TypeOK, Insert

\* login's claims about a row are well-formed.
LEMMA ClaimsType ==
  ASSUME TypeOK, NEW n \in Name, NEW user \in User
  PROVE  ClaimsOf(n, user) \in Claims
BY TimesAssumption DEF TypeOK, ClaimsOf, Claims, User

\* The empty database is well-typed.
LEMMA InitType == Init => TypeOK
BY DEF Init, TypeOK

\* main keeps the types.
LEMMA MainType ==
  ASSUME TypeOK, NEW s \in Server, Main(s)
  PROVE  TypeOK'
<1> USE DEF Goto, tables, clients, Starting, Running
<1>1. CASE init_db_pool(s)
  BY <1>1 DEF TypeOK, init_db_pool
<1>2. CASE admin_exists(s)
  BY <1>2 DEF TypeOK, admin_exists
<1>3. CASE seed_admin(s)
  <2>1. CASE Admin \in Registered
    BY <1>3, <2>1 DEF TypeOK, seed_admin
  <2>2. CASE Admin \notin Registered
    <3>1. Insert(Admin, TRUE, Admin)
      BY <1>3, <2>2 DEF seed_admin
    <3>2. /\ users' \in [Name -> User \cup {None}]
          /\ seq' \in Nat
          /\ by' \in [Name -> Name \cup {None}]
      BY <3>1, InsertType, NamesAssumption
    <3> QED
      BY <1>3, <2>2, <3>2 DEF TypeOK, seed_admin
  <2> QED
    BY <2>1, <2>2
<1>4. CASE bind(s)
  BY <1>4 DEF TypeOK, bind
<1>5. CASE shutdown_signal(s)
  BY <1>5 DEF TypeOK, shutdown_signal
<1>6. CASE Exit(s)
  BY <1>6 DEF TypeOK, Exit
<1>7. CASE Crash(s)
  BY <1>7 DEF TypeOK, Crash
<1> QED
  BY <1>1, <1>2, <1>3, <1>4, <1>5, <1>6, <1>7 DEF Main, StartUp

\* So do the handlers,
LEMMA RequestType ==
  ASSUME TypeOK, NEW k \in Slot, Arrive(k) \/ Serve(k)
  PROVE  TypeOK'
<1> USE DEF Reply, tables, clients
<1>1. ASSUME NEW s \in Server, NEW n \in Name, login(k, s, n)
      PROVE  TypeOK'
  <2>1. [op |-> "login", server |-> s, username |-> n, user |-> users[n]]
          \in LoginRequest
    BY <1>1 DEF TypeOK, login, Registered, LoginRequest
  <2> QED
    BY <1>1, <2>1 DEF TypeOK, login
<1>2. ASSUME NEW s \in Server, NEW n \in Name, NEW t \in tokens,
             NEW is_admin \in BOOLEAN, create_user(k, s, t, n, is_admin)
      PROVE  TypeOK'
  <2>1. [op |-> "create", server |-> s, claims |-> t, username |-> n,
         is_admin |-> is_admin] \in CreateRequest
    BY <1>2 DEF TypeOK, CreateRequest
  <2> QED
    BY <1>2, <2>1 DEF TypeOK, create_user
<1>3. CASE save_pwd_hash(k)
  <2>1. req[k] \in CreateRequest
    BY <1>3 DEF TypeOK, save_pwd_hash, LoginRequest
  <2>2. CASE req[k].username \in Registered
    BY <1>3, <2>2 DEF TypeOK, save_pwd_hash
  <2>3. CASE req[k].username \notin Registered
    <3> DEFINE registrar ==
          IF req[k].claims \in orphans THEN None ELSE req[k].claims.username
    <3>1. registrar \in Name \cup {None}
      BY <2>1 DEF CreateRequest, Claims
    <3>2. Insert(req[k].username, req[k].is_admin, registrar)
      BY <1>3, <2>3 DEF save_pwd_hash
    <3>3. req[k].username \in Name /\ req[k].is_admin \in BOOLEAN
      BY <2>1 DEF CreateRequest
    <3> HIDE DEF registrar
    <3>4. /\ users' \in [Name -> User \cup {None}]
          /\ seq' \in Nat
          /\ by' \in [Name -> Name \cup {None}]
      BY <3>1, <3>2, <3>3, InsertType
    <3> QED
      BY <1>3, <3>4 DEF TypeOK, save_pwd_hash
  <2> QED
    BY <2>2, <2>3
<1>4. CASE auth_and_issue_jwt(k)
  <2>1. req[k] \in LoginRequest
    BY <1>4 DEF TypeOK, auth_and_issue_jwt, CreateRequest
  <2>2. ClaimsOf(req[k].username, req[k].user) \in Claims
    BY <2>1, ClaimsType DEF LoginRequest
  <2> QED
    BY <1>4, <2>2 DEF TypeOK, auth_and_issue_jwt
<1>5. CASE Abandon(k)
  BY <1>5 DEF TypeOK, Abandon
<1> QED
  BY <1>1, <1>2, <1>3, <1>4, <1>5 DEF Arrive, Serve

\* and so do a power loss, which drops rows, and the clock.
LEMMA MachineType ==
  ASSUME TypeOK, PowerLoss \/ Tick
  PROVE  TypeOK'
<1> USE DEF tables, clients, Starting, Running
<1>1. CASE PowerLoss
  <2>1. PICK last \in 0 .. seq :
          LET Lost(n) == users[n] # None /\ users[n].id > last
          IN /\ seq' = last
             /\ users' = [n \in Name |-> IF Lost(n) THEN None ELSE users[n]]
             /\ by' = [n \in Name |-> IF Lost(n) THEN None ELSE by[n]]
    BY <1>1 DEF PowerLoss
  <2> QED
    BY <1>1, <2>1 DEF TypeOK, PowerLoss
<1>2. CASE Tick
  BY <1>2 DEF TypeOK, Tick
<1> QED
  BY <1>1, <1>2

\* Every step keeps the types.
LEMMA NextType == TypeOK /\ [Next]_vars => TypeOK'
<1> SUFFICES ASSUME TypeOK, [Next]_vars PROVE TypeOK'
  OBVIOUS
<1>1. CASE UNCHANGED vars
  BY <1>1 DEF TypeOK, vars, tables, clients
<1> QED
  BY <1>1, MainType, RequestType, MachineType DEF Next

\* Every variable keeps its type: a request past its first await has a token
\* or a row, and orphans are tokens that were issued.
THEOREM AccountsTypeCorrect == Spec => []TypeOK
BY InitType, NextType, PTL DEF Spec

-----------------------------------------------------------------------------
(* The administrator comes first *)

\* Ids are given out in order and never twice; the first one goes to Admin, as
\* an administrator, before a server gets as far as the port; and requests
\* run only in servers that got there.
Seeded ==
  /\ \A n \in Registered : users[n].id <= seq
  /\ \A m, n \in Registered : users[m].id = users[n].id => m = n
  /\ seq > 0 => Admin \in Admins /\ users[Admin].id = 1
  /\ \A s \in Server : pc[s] \in {"bind"} \cup Running => seq > 0
  /\ \A k \in Slot : req[k] # None => pc[req[k].server] \in Running

\* An insertion by a server or a request keeps the order of the ids.
LEMMA InsertSeeded ==
  ASSUME TypeOK, Seeded, NEW n \in Name, NEW is_admin \in BOOLEAN,
         NEW registrar, n \notin Registered, Insert(n, is_admin, registrar),
         seq = 0 => n = Admin /\ is_admin = TRUE
  PROVE  /\ seq' > 0
         /\ \A m \in Registered' : users'[m].id <= seq'
         /\ \A l, m \in Registered' : users'[l].id = users'[m].id => l = m
         /\ Admin \in Admins' /\ users'[Admin].id = 1
<1>1. users' = [users EXCEPT ![n] = [id |-> seq + 1, is_admin |-> is_admin]]
      /\ seq' = seq + 1
  BY DEF Insert
<1>2. [id |-> seq + 1, is_admin |-> is_admin] \in User
  BY DEF TypeOK, User
<1>3. users'[n] = [id |-> seq + 1, is_admin |-> is_admin] /\ users'[n] # None
  BY <1>1, <1>2, NamesAssumption DEF TypeOK
<1>4. \A m \in Name \ {n} : users'[m] = users[m]
  BY <1>1 DEF TypeOK
<1>5. \A m \in Registered : users[m] \in User /\ users[m].id \in Nat
  BY DEF TypeOK, Registered, User
<1>6. \A m \in Registered' : m = n \/ (m \in Registered /\ m # n)
  BY <1>4 DEF Registered
<1>7. seq' > 0 /\ seq \in Nat
  BY <1>1 DEF TypeOK
<1>8. \A m \in Registered' : users'[m].id <= seq'
  BY <1>1, <1>3, <1>4, <1>5, <1>6, <1>7 DEF Seeded, Registered
<1>9. \A l, m \in Registered' : users'[l].id = users'[m].id => l = m
  <2> SUFFICES ASSUME NEW l \in Registered', NEW m \in Registered',
                      users'[l].id = users'[m].id
               PROVE  l = m
    OBVIOUS
  <2>1. \A x \in Registered : users[x].id < seq + 1
    BY <1>5, <1>7 DEF Seeded
  <2>2. CASE l = n /\ m # n
    BY <2>2, <1>3, <1>4, <1>6, <1>5, <2>1 DEF Registered
  <2>3. CASE m = n /\ l # n
    BY <2>3, <1>3, <1>4, <1>6, <1>5, <2>1 DEF Registered
  <2>4. CASE l # n /\ m # n
    BY <2>4, <1>4, <1>6 DEF Registered, Seeded
  <2> QED
    BY <2>2, <2>3, <2>4
<1>10. Admin \in Admins' /\ users'[Admin].id = 1
  <2>1. CASE seq = 0
    <3>1. n = Admin /\ is_admin = TRUE /\ seq + 1 = 1
      BY <2>1
    <3>2. users'[Admin] = [id |-> 1, is_admin |-> TRUE] /\ users'[Admin] # None
      BY <3>1, <1>3, Zenon
    <3> QED
      BY <3>2, NamesAssumption DEF Admins, Registered
  <2>2. CASE seq # 0
    <3>1. Admin \in Admins /\ users[Admin].id = 1 /\ Admin # n
      BY <2>2, <1>7 DEF Seeded, Admins
    <3>2. users'[Admin] = users[Admin]
      BY <3>1, <1>4, NamesAssumption
    <3>3. Admin \in Name /\ users[Admin] # None /\ users[Admin].is_admin
      BY <3>1, NamesAssumption DEF Admins, Registered
    <3> QED
      BY <3>1, <3>2, <3>3 DEF Admins, Registered
  <2> QED
    BY <2>1, <2>2
<1> QED
  BY <1>7, <1>8, <1>9, <1>10

\* main keeps the order: a server that found no administrator is the first.
LEMMA MainSeeded ==
  ASSUME TypeOK, Seeded, NEW s \in Server, Main(s)
  PROVE  Seeded'
<1> USE DEF Goto, tables
<1>1. CASE init_db_pool(s)
  BY <1>1 DEF TypeOK, Seeded, init_db_pool, Registered, Admins, Running
<1>2. CASE admin_exists(s)
  <2>1. Admins # {} => seq > 0
    BY DEF TypeOK, Seeded, Registered, Admins, User
  <2> QED
    BY <1>2, <2>1 DEF TypeOK, Seeded, admin_exists, Registered, Admins, Running
<1>3. CASE seed_admin(s)
  <2>1. CASE Admin \in Registered
    <3>1. pc' = [pc EXCEPT ![s] = "down"] /\ pc[s] = "seed"
          /\ users' = users /\ seq' = seq /\ req' = req
      BY <1>3, <2>1 DEF seed_admin
    <3> QED
      BY <3>1 DEF TypeOK, Seeded, Registered, Admins, Running
  <2>2. CASE Admin \notin Registered
    <3>1. Insert(Admin, TRUE, Admin)
      BY <1>3, <2>2 DEF seed_admin
    <3>2. seq' > 0
          /\ (\A m \in Registered' : users'[m].id <= seq')
          /\ (\A l, m \in Registered' : users'[l].id = users'[m].id => l = m)
          /\ Admin \in Admins' /\ users'[Admin].id = 1
      BY <3>1, <2>2, InsertSeeded, NamesAssumption
    <3>3. pc' = [pc EXCEPT ![s] = "bind"] /\ req' = req /\ pc[s] = "seed"
      BY <1>3, <2>2 DEF seed_admin
    <3>4. \A k \in Slot : req'[k] # None => pc'[req'[k].server] \in Running
      BY <3>3 DEF TypeOK, Seeded, Running
    <3> QED
      BY <3>2, <3>4 DEF Seeded
  <2> QED
    BY <2>1, <2>2
<1>4. CASE bind(s)
  BY <1>4 DEF TypeOK, Seeded, bind, Registered, Admins, Running
<1>5. CASE shutdown_signal(s)
  BY <1>5 DEF TypeOK, Seeded, shutdown_signal, Registered, Admins, Running
<1>6. CASE Exit(s)
  BY <1>6 DEF TypeOK, Seeded, Exit, Registered, Admins, Running
<1>7. CASE Crash(s)
  BY <1>7 DEF TypeOK, Seeded, Crash, Registered, Admins, Running
<1> QED
  BY <1>1, <1>2, <1>3, <1>4, <1>5, <1>6, <1>7 DEF Main, StartUp

\* So do the handlers: the database they insert into has its administrator.
LEMMA RequestSeeded ==
  ASSUME TypeOK, Seeded, NEW k \in Slot, Arrive(k) \/ Serve(k)
  PROVE  Seeded'
<1> USE DEF Reply, tables
<1>1. ASSUME NEW s \in Server, NEW n \in Name, login(k, s, n)
      PROVE  Seeded'
  BY <1>1 DEF TypeOK, Seeded, login, Registered, Admins, Running
<1>2. ASSUME NEW s \in Server, NEW n \in Name, NEW t \in tokens,
             NEW is_admin \in BOOLEAN, create_user(k, s, t, n, is_admin)
      PROVE  Seeded'
  BY <1>2 DEF TypeOK, Seeded, create_user, Registered, Admins, Running
<1>3. CASE save_pwd_hash(k)
  <2>1. pc' = pc /\ req[k] # None /\ req' = [req EXCEPT ![k] = None]
    BY <1>3 DEF save_pwd_hash
  <2>2. \A j \in Slot : req'[j] # None => pc'[req'[j].server] \in Running
    BY <2>1 DEF TypeOK, Seeded
  <2>3. CASE req[k].username \in Registered
    BY <1>3, <2>1, <2>2, <2>3
       DEF TypeOK, Seeded, save_pwd_hash, Registered, Admins
  <2>4. CASE req[k].username \notin Registered
    <3> DEFINE registrar ==
          IF req[k].claims \in orphans THEN None ELSE req[k].claims.username
    <3>1. Insert(req[k].username, req[k].is_admin, registrar)
      BY <1>3, <2>4 DEF save_pwd_hash
    <3>2. req[k].username \in Name /\ req[k].is_admin \in BOOLEAN
      BY <1>3 DEF TypeOK, save_pwd_hash, CreateRequest, LoginRequest
    <3>3. seq > 0 /\ seq # 0
      <4>1. req[k].server \in Server
        BY <2>1 DEF TypeOK, CreateRequest, LoginRequest
      <4> QED
        BY <2>1, <4>1 DEF TypeOK, Seeded
    <3> HIDE DEF registrar
    <3>4. seq' > 0
          /\ (\A m \in Registered' : users'[m].id <= seq')
          /\ (\A l, m \in Registered' : users'[l].id = users'[m].id => l = m)
          /\ Admin \in Admins' /\ users'[Admin].id = 1
      BY <2>4, <3>1, <3>2, <3>3, InsertSeeded
    <3> QED
      BY <2>2, <3>4 DEF Seeded
  <2> QED
    BY <2>3, <2>4
<1>4. CASE auth_and_issue_jwt(k)
  BY <1>4 DEF TypeOK, Seeded, auth_and_issue_jwt, Registered, Admins, Running
<1>5. CASE Abandon(k)
  BY <1>5 DEF TypeOK, Seeded, Abandon, Registered, Admins, Running
<1> QED
  BY <1>1, <1>2, <1>3, <1>4, <1>5 DEF Arrive, Serve

\* A power loss drops the youngest rows, so Admin's goes last.
LEMMA PowerLossSeeded ==
  ASSUME TypeOK, Seeded, PowerLoss
  PROVE  Seeded'
<1>1. PICK last \in 0 .. seq :
        LET Lost(n) == users[n] # None /\ users[n].id > last
        IN /\ seq' = last
           /\ users' = [n \in Name |-> IF Lost(n) THEN None ELSE users[n]]
           /\ by' = [n \in Name |-> IF Lost(n) THEN None ELSE by[n]]
  BY DEF PowerLoss
<1>2. \A n \in Registered' : n \in Registered /\ users'[n] = users[n]
                              /\ users[n].id <= last
  BY <1>1 DEF TypeOK, Registered, User
<1>3. seq' > 0 => Admin \in Admins' /\ users'[Admin].id = 1
  <2> SUFFICES ASSUME seq' > 0 PROVE Admin \in Admins' /\ users'[Admin].id = 1
    OBVIOUS
  <2>1. seq > 0 /\ last >= 1
    BY <1>1 DEF TypeOK
  <2>2. Admin \in Name /\ users[Admin] # None /\ users[Admin].is_admin
        /\ users[Admin].id = 1
    BY <2>1, NamesAssumption DEF Seeded, Admins, Registered
  <2>3. users'[Admin] = users[Admin]
    BY <1>1, <2>1, <2>2
  <2> QED
    BY <2>2, <2>3 DEF Admins, Registered
<1>4. /\ \A s \in Server : pc'[s] = "down"
      /\ \A k \in Slot : req'[k] = None
  BY DEF PowerLoss
<1>5. \A n \in Registered' : users'[n].id <= seq'
  BY <1>1, <1>2
<1>6. \A m, n \in Registered' : users'[m].id = users'[n].id => m = n
  BY <1>2 DEF Seeded
<1> QED
  BY <1>3, <1>4, <1>5, <1>6 DEF Seeded, Running

\* The order of the ids is an invariant.
LEMMA SeededAlways == Spec => []Seeded
<1>1. Init => Seeded
  BY DEF Init, Seeded, Registered, Running
<1>2. TypeOK /\ Seeded /\ [Next]_vars => Seeded'
  <2> SUFFICES ASSUME TypeOK, Seeded, [Next]_vars PROVE Seeded'
    OBVIOUS
  <2>1. CASE UNCHANGED vars \/ Tick
    BY <2>1 DEF Seeded, Registered, Admins, vars, tables, clients, Tick
  <2> QED
    BY <2>1, MainSeeded, RequestSeeded, PowerLossSeeded DEF Next
<1> QED
  BY <1>1, <1>2, AccountsTypeCorrect, PTL DEF Spec

\* A server at the port has an administrator to serve, whatever servers race
\* at start-up and whatever a power loss undoes.
THEOREM ServedHasAdminHolds == Spec => []ServedHasAdmin
<1>1. Seeded => ServedHasAdmin
  BY DEF Seeded, ServedHasAdmin
<1> QED
  BY <1>1, SeededAlways, PTL

-----------------------------------------------------------------------------
(* Tokens and the table *)

\* What a token that is no orphan says, and what a login has read, is still so.
Truthful == \A t \in tokens \ orphans : Tells(t, t.username)
ReadStands ==
  \A k \in Slot :
    req[k] # None /\ req[k].op = "login" => users[req[k].username] = req[k].user

\* A request to register somebody rests on an administrator's token.
Entitled ==
  \A k \in Slot :
    req[k] # None /\ req[k].op = "create" =>
      req[k].claims \in tokens /\ req[k].claims.role = "admin"

TokenInv == Truthful /\ ReadStands /\ Entitled

\* Rows stand: short of a power loss no step changes or removes one.
RowsStand == \A n \in Name : users[n] # None => users'[n] = users[n] /\ by'[n] = by[n]

\* The insertions leave the rows that are there alone.
LEMMA RowsStandStep ==
  ASSUME TypeOK, [Next]_vars, ~PowerLoss
  PROVE  RowsStand
<1>1. \A n \in Name : \A is_admin, registrar :
        n \notin Registered /\ Insert(n, is_admin, registrar) => RowsStand
  BY DEF TypeOK, Insert, RowsStand, Registered
<1>2. users' = users /\ by' = by => RowsStand
  BY DEF RowsStand
<1>3. ASSUME NEW s \in Server, Main(s) PROVE RowsStand
  BY <1>1, <1>2, <1>3, NamesAssumption
     DEF Main, StartUp, init_db_pool, admin_exists, seed_admin, bind,
         shutdown_signal, Exit, Crash, tables
<1>4. ASSUME NEW k \in Slot, Arrive(k) PROVE RowsStand
  BY <1>2, <1>4 DEF Arrive, login, create_user, tables
<1>5. ASSUME NEW k \in Slot, Serve(k) PROVE RowsStand
  <2>1. CASE save_pwd_hash(k)
    <3>1. req[k].username \in Name
      BY <2>1 DEF TypeOK, save_pwd_hash, CreateRequest, LoginRequest
    <3> QED
      BY <1>1, <1>2, <2>1, <3>1 DEF save_pwd_hash, tables
  <2> QED
    BY <1>2, <1>5, <2>1 DEF Serve, auth_and_issue_jwt, Abandon, tables
<1>6. CASE UNCHANGED vars \/ Tick
  BY <1>2, <1>6 DEF vars, tables, Tick
<1> QED
  BY <1>3, <1>4, <1>5, <1>6 DEF Next

\* Where rows stand, what a token tells and what a login read goes on standing.
LEMMA TellsStands ==
  ASSUME TypeOK, RowsStand, NEW t \in Claims, NEW n \in Name, Tells(t, n)
  PROVE  Tells(t, n)'
BY DEF RowsStand, Tells

\* A step that issues no token and takes up no request keeps TokenInv.
LEMMA TokenFrame ==
  ASSUME TypeOK, TokenInv, RowsStand, tokens' = tokens, orphans' = orphans,
         \A k \in Slot : req'[k] # None => req'[k] = req[k]
  PROVE  TokenInv'
<1>1. Truthful'
  <2> SUFFICES ASSUME NEW t \in tokens \ orphans PROVE Tells(t, t.username)'
    BY DEF Truthful
  <2>1. t \in Claims /\ t.username \in Name
    BY DEF TypeOK, Claims
  <2> QED
    BY <2>1, TellsStands DEF TokenInv, Truthful
<1>2. ReadStands'
  <2> SUFFICES ASSUME NEW k \in Slot, req'[k] # None, req'[k].op = "login"
               PROVE  users'[req'[k].username] = req'[k].user
    BY DEF ReadStands
  <2>1. req[k] \in LoginRequest /\ req'[k] = req[k]
    BY DEF TypeOK, CreateRequest
  <2>2. users[req[k].username] = req[k].user /\ req[k].username \in Name
        /\ req[k].user # None
    BY <2>1, NamesAssumption DEF TokenInv, ReadStands, LoginRequest
  <2> QED
    BY <2>1, <2>2 DEF RowsStand
<1>3. Entitled'
  BY DEF TokenInv, Entitled
<1> QED
  BY <1>1, <1>2, <1>3 DEF TokenInv

\* A request that comes in with a token or finds a row keeps TokenInv.
LEMMA TokenArrive ==
  ASSUME TypeOK, TokenInv, NEW k \in Slot, Arrive(k)
  PROVE  TokenInv'
<1>1. users' = users /\ tokens' = tokens /\ orphans' = orphans
  BY DEF Arrive, login, create_user, tables, clients
<1>2. Truthful'
  BY <1>1 DEF TokenInv, Truthful, Tells
<1>3. ASSUME NEW s \in Server, NEW n \in Name, login(k, s, n)
      PROVE  ReadStands' /\ Entitled'
  BY <1>1, <1>3 DEF TypeOK, TokenInv, ReadStands, Entitled, login
<1>4. ASSUME NEW s \in Server, NEW n \in Name, NEW t \in tokens,
             NEW is_admin \in BOOLEAN, create_user(k, s, t, n, is_admin)
      PROVE  ReadStands' /\ Entitled'
  BY <1>1, <1>4 DEF TypeOK, TokenInv, ReadStands, Entitled, create_user, AdminUser
<1> QED
  BY <1>2, <1>3, <1>4 DEF TokenInv, Arrive

\* A token that login issues tells what the row says.
LEMMA TokenIssue ==
  ASSUME TypeOK, TokenInv, NEW k \in Slot, auth_and_issue_jwt(k)
  PROVE  TokenInv'
<1> DEFINE new == ClaimsOf(req[k].username, req[k].user)
<1>1. req[k] \in LoginRequest
  BY DEF TypeOK, auth_and_issue_jwt, CreateRequest
<1>2. /\ req[k].username \in Name
      /\ users[req[k].username] = req[k].user
      /\ users[req[k].username] # None
      /\ req[k].user \in User
  BY <1>1, NamesAssumption
     DEF TokenInv, ReadStands, LoginRequest, auth_and_issue_jwt
<1>3. new.username = req[k].username /\ Tells(new, req[k].username)
  BY <1>2 DEF Tells, ClaimsOf, User
<1>4. /\ tokens' = tokens \cup {new} /\ orphans' = orphans \ {new}
      /\ users' = users /\ req' = [req EXCEPT ![k] = None]
  BY DEF auth_and_issue_jwt, tables, Reply
<1> HIDE DEF new
<1>5. Truthful'
  <2> SUFFICES ASSUME NEW t \in tokens', t \notin orphans'
               PROVE  Tells(t, t.username)'
    BY DEF Truthful
  <2>1. CASE t = new
    BY <2>1, <1>3, <1>4 DEF Tells
  <2>2. CASE t # new
    BY <2>2, <1>4 DEF TokenInv, Truthful, Tells
  <2> QED
    BY <2>1, <2>2
<1>6. ReadStands' /\ Entitled'
  BY <1>4 DEF TypeOK, TokenInv, ReadStands, Entitled
<1> QED
  BY <1>5, <1>6 DEF TokenInv

\* After a power loss every token is an orphan and no request is left.
LEMMA TokenPowerLoss ==
  ASSUME TypeOK, TokenInv, PowerLoss
  PROVE  TokenInv'
<1>1. orphans' = tokens /\ tokens' = tokens
      /\ \A k \in Slot : req'[k] = None
  BY DEF PowerLoss
<1> QED
  BY <1>1 DEF TokenInv, Truthful, ReadStands, Entitled

\* Tokens and reads agree with the table throughout.
LEMMA TokenInvAlways == Spec => []TokenInv
<1>1. Init => TokenInv
  BY DEF Init, TokenInv, Truthful, ReadStands, Entitled
<1>2. TypeOK /\ TokenInv /\ [Next]_vars => TokenInv'
  <2> SUFFICES ASSUME TypeOK, TokenInv, [Next]_vars PROVE TokenInv'
    OBVIOUS
  <2>1. CASE PowerLoss
    BY <2>1, TokenPowerLoss
  <2>2. ASSUME ~PowerLoss, NEW s \in Server, Main(s) PROVE TokenInv'
    <3>1. tokens' = tokens /\ orphans' = orphans
          /\ \A k \in Slot : req'[k] # None => req'[k] = req[k]
      BY <2>2 DEF TypeOK, Main, StartUp, init_db_pool, admin_exists, seed_admin,
                  bind, shutdown_signal, Exit, Crash, clients
    <3> QED
      BY <2>2, <3>1, RowsStandStep, TokenFrame
  <2>3. ASSUME NEW k \in Slot, Arrive(k) PROVE TokenInv'
    BY <2>3, TokenArrive
  <2>4. ASSUME ~PowerLoss, NEW k \in Slot, Serve(k) PROVE TokenInv'
    <3>1. CASE auth_and_issue_jwt(k)
      BY <3>1, TokenIssue
    <3>2. CASE save_pwd_hash(k) \/ Abandon(k)
      <4>1. tokens' = tokens /\ orphans' = orphans
            /\ req' = [req EXCEPT ![k] = None]
        BY <3>2 DEF save_pwd_hash, Abandon, Reply, clients
      <4>2. \A j \in Slot : req'[j] # None => req'[j] = req[j]
        BY <4>1 DEF TypeOK
      <4> QED
        BY <2>4, <4>1, <4>2, RowsStandStep, TokenFrame
    <3> QED
      BY <2>4, <3>1, <3>2 DEF Serve
  <2>5. CASE ~PowerLoss /\ (UNCHANGED vars \/ Tick)
    <3>1. tokens' = tokens /\ orphans' = orphans /\ req' = req
      BY <2>5 DEF vars, clients, Tick
    <3> QED
      BY <2>5, <3>1, RowsStandStep, TokenFrame
  <2> QED
    BY <2>1, <2>2, <2>3, <2>4, <2>5 DEF Next
<1> QED
  BY <1>1, <1>2, AccountsTypeCorrect, PTL DEF Spec

\* A token from after the last power loss names its holder, with the id and
\* the role that the table has, and no other user has that id.
THEOREM TokensTellTheTruthHolds == Spec => []TokensTellTheTruth
<1>1. TypeOK /\ Seeded /\ TokenInv => TokensTellTheTruth
  <2> SUFFICES ASSUME TypeOK, Seeded, TokenInv, NEW t \in tokens \ orphans
               PROVE  /\ Tells(t, t.username)
                      /\ \A n \in Registered : users[n].id = t.sub => n = t.username
    BY DEF TokensTellTheTruth
  <2>1. Tells(t, t.username) /\ t.username \in Name
    BY DEF TypeOK, TokenInv, Truthful, Claims
  <2>2. t.username \in Registered /\ users[t.username].id = t.sub
    BY <2>1 DEF Tells, Registered
  <2> QED
    BY <2>1, <2>2 DEF Seeded
<1> QED
  BY <1>1, AccountsTypeCorrect, SeededAlways, TokenInvAlways, PTL

-----------------------------------------------------------------------------
(* Who registered whom *)

\* An insertion keeps the accounts vouched for when its registrar is unknown
\* or an administrator, or when it is the first one.
LEMMA InsertVouched ==
  ASSUME TypeOK, Seeded, Vouched, NEW n \in Name, NEW is_admin \in BOOLEAN,
         NEW registrar \in Name \cup {None}, n \notin Registered,
         Insert(n, is_admin, registrar),
         n = Admin \/ registrar = None \/ registrar \in Admins
  PROVE  Vouched'
<1>1. /\ users' = [users EXCEPT ![n] = [id |-> seq + 1, is_admin |-> is_admin]]
      /\ by' = [by EXCEPT ![n] = registrar]
  BY DEF Insert
<1>2. \A m \in Name \ {n} : users'[m] = users[m] /\ by'[m] = by[m]
  BY <1>1 DEF TypeOK
<1>3. users'[n].id = seq + 1 /\ by'[n] = registrar
  BY <1>1 DEF TypeOK
<1>4. \A m \in Admins : m \in Name /\ m # n /\ m \in Admins' /\ users'[m] = users[m]
  BY <1>2 DEF Admins, Registered
<1> SUFFICES ASSUME NEW m \in Registered', m # Admin, by'[m] # None
             PROVE  by'[m] \in Admins' /\ users'[by'[m]].id < users'[m].id
  BY DEF Vouched
<1>5. CASE m = n
  <2>1. registrar \in Admins /\ users[registrar].id <= seq
    BY <1>3, <1>5 DEF Seeded, Admins
  <2>2. users[registrar].id \in Nat /\ seq \in Nat
    BY <2>1 DEF TypeOK, Admins, Registered, User
  <2> QED
    BY <1>3, <1>4, <1>5, <2>1, <2>2
<1>6. CASE m # n
  <2>1. m \in Registered /\ users'[m] = users[m] /\ by'[m] = by[m]
    BY <1>2, <1>6 DEF Registered
  <2>2. by[m] \in Admins /\ users[by[m]].id < users[m].id
    BY <2>1 DEF Vouched
  <2> QED
    BY <1>4, <2>1, <2>2
<1> QED
  BY <1>5, <1>6

\* Every account has an administrator, older than itself, who registered it.
THEOREM VouchedHolds == Spec => []Vouched
<1>1. Init => Vouched
  BY DEF Init, Vouched, Registered
<1>2. TypeOK /\ Seeded /\ TokenInv /\ Vouched /\ [Next]_vars => Vouched'
  <2> SUFFICES ASSUME TypeOK, Seeded, TokenInv, Vouched, [Next]_vars
               PROVE  Vouched'
    OBVIOUS
  <2>1. users' = users /\ by' = by => Vouched'
    BY DEF Vouched, Registered, Admins
  <2>2. ASSUME NEW s \in Server, Main(s) PROVE Vouched'
    <3>1. CASE seed_admin(s) /\ Admin \notin Registered
      BY <3>1, InsertVouched, NamesAssumption DEF seed_admin
    <3> QED
      BY <2>1, <2>2, <3>1
         DEF Main, StartUp, init_db_pool, admin_exists, seed_admin, bind,
             shutdown_signal, Exit, Crash, tables
  <2>3. ASSUME NEW k \in Slot, save_pwd_hash(k), req[k].username \notin Registered
        PROVE  Vouched'
    <3> DEFINE registrar ==
          IF req[k].claims \in orphans THEN None ELSE req[k].claims.username
    <3>1. req[k] \in CreateRequest /\ req[k] # None
      BY <2>3 DEF TypeOK, save_pwd_hash, LoginRequest
    <3>2. /\ req[k].username \in Name /\ req[k].is_admin \in BOOLEAN
          /\ registrar \in Name \cup {None}
      BY <3>1 DEF CreateRequest, Claims
    <3>3. registrar = None \/ registrar \in Admins
      <4> SUFFICES ASSUME req[k].claims \notin orphans
                   PROVE  req[k].claims.username \in Admins
        OBVIOUS
      <4>1. req[k].claims \in tokens /\ req[k].claims.role = "admin"
        BY <3>1 DEF TokenInv, Entitled, CreateRequest
      <4>2. Tells(req[k].claims, req[k].claims.username)
        BY <4>1 DEF TokenInv, Truthful
      <4> QED
        BY <3>1, <4>1, <4>2 DEF Tells, Admins, Registered, CreateRequest, Claims
    <3>4. Insert(req[k].username, req[k].is_admin, registrar)
      BY <2>3 DEF save_pwd_hash
    <3> HIDE DEF registrar
    <3> QED
      BY <2>3, <3>2, <3>3, <3>4, InsertVouched
  <2>4. ASSUME NEW k \in Slot, Arrive(k) \/ Serve(k) PROVE Vouched'
    BY <2>1, <2>3, <2>4
       DEF Arrive, Serve, login, create_user, save_pwd_hash,
           auth_and_issue_jwt, Abandon, tables
  <2>5. CASE PowerLoss
    <3>1. PICK last \in 0 .. seq :
            LET Lost(n) == users[n] # None /\ users[n].id > last
            IN /\ seq' = last
               /\ users' = [n \in Name |-> IF Lost(n) THEN None ELSE users[n]]
               /\ by' = [n \in Name |-> IF Lost(n) THEN None ELSE by[n]]
      BY <2>5 DEF PowerLoss
    <3>2. \A n \in Registered' : /\ n \in Registered /\ users[n].id <= last
                                 /\ users'[n] = users[n] /\ by'[n] = by[n]
      BY <3>1 DEF TypeOK, Registered, User
    <3>3. \A n \in Admins : users[n].id <= last => n \in Admins' /\ users'[n] = users[n]
      BY <3>1 DEF TypeOK, Admins, Registered, User
    <3> SUFFICES ASSUME NEW n \in Registered', n # Admin, by'[n] # None
                 PROVE  by'[n] \in Admins' /\ users'[by'[n]].id < users'[n].id
      BY DEF Vouched
    <3>4. /\ n \in Registered /\ users'[n] = users[n] /\ by'[n] = by[n]
          /\ by[n] \in Admins /\ users[by[n]].id < users[n].id
          /\ users[n].id <= last
      BY <3>2 DEF Vouched
    <3>5. users[by[n]].id \in Nat /\ users[n].id \in Nat
      BY <3>4 DEF TypeOK, Admins, Registered, User
    <3>6. users[by[n]].id <= last
      BY <3>1, <3>4, <3>5
    <3> QED
      BY <3>3, <3>4, <3>6
  <2>6. CASE UNCHANGED vars \/ Tick
    BY <2>1, <2>6 DEF vars, tables, Tick
  <2> QED
    BY <2>2, <2>4, <2>5, <2>6 DEF Next
<1> QED
  BY <1>1, <1>2, AccountsTypeCorrect, SeededAlways, TokenInvAlways, PTL DEF Spec

-----------------------------------------------------------------------------
(* Accounts implements Directory *)

\* The server of an insertion has seen to it that the member is the youngest.
LEMMA InsertEnters ==
  ASSUME TypeOK, Seeded, NEW n \in Name, NEW is_admin \in BOOLEAN,
         NEW registrar, n \notin Registered, Insert(n, is_admin, registrar),
         UNCHANGED clients
  PROVE  D!Enter(n, is_admin, registrar)
<1> DEFINE row == [id |-> seq + 1, is_admin |-> is_admin]
<1>1. row \in User /\ row.id = seq + 1 /\ row.is_admin = is_admin
  BY DEF TypeOK, User
<1>2. users' = [users EXCEPT ![n] = row] /\ by' = [by EXCEPT ![n] = registrar]
  BY DEF Insert
<1> HIDE DEF row
<1>3. users'[n] = row /\ row # None
  BY <1>1, <1>2, NamesAssumption DEF TypeOK
<1>4. \A m \in Registered : users[m].id <= seq /\ users[m].id \in Nat
  BY DEF TypeOK, Seeded, Registered, User
<1>5. \A m \in Registered : users[m].id < seq + 1
  BY <1>4 DEF TypeOK
<1>6. D!Members = Registered
  BY DEF D!Members, Registered
<1> QED
  BY <1>1, <1>2, <1>3, <1>5, <1>6 DEF D!Enter, clients

\* main's insertion founds the directory: with no row for Admin there is none.
LEMMA SeedFounds ==
  ASSUME TypeOK, Seeded, NEW s \in Server, seed_admin(s), Admin \notin Registered
  PROVE  D!Found
<1>1. Insert(Admin, TRUE, Admin) /\ UNCHANGED clients
  BY DEF seed_admin
<1>2. seq = 0
  BY DEF TypeOK, Seeded, Admins
<1>3. Registered = {}
  <2>1. \A n \in Registered : users[n].id \in Nat \ {0} /\ users[n].id <= 0
    BY <1>2 DEF TypeOK, Seeded, Registered, User
  <2> QED
    BY <2>1
<1>4. D!Enter(Admin, TRUE, Admin)
  BY <1>1, InsertEnters, NamesAssumption
<1>5. D!Members = {}
  BY <1>3 DEF D!Members, Registered
<1> QED
  BY <1>4, <1>5 DEF D!Found

\* A registration rests on a member who is an administrator when the row is
\* written, or on an administrator's token that is an orphan.
LEMMA SaveEnrols ==
  ASSUME TypeOK, Seeded, TokenInv, NEW k \in Slot, save_pwd_hash(k),
         req[k].username \notin Registered
  PROVE  D!Enrol
<1> DEFINE t == req[k].claims
           registrar == IF t \in orphans THEN None ELSE t.username
<1>1. req[k] \in CreateRequest /\ req[k] # None
  BY DEF TypeOK, save_pwd_hash, LoginRequest
<1>2. /\ req[k].username \in Name /\ req[k].is_admin \in BOOLEAN
      /\ t \in tokens /\ t.role = "admin" /\ t.username \in Name
  BY <1>1 DEF TokenInv, Entitled, CreateRequest, Claims
<1>3. Insert(req[k].username, req[k].is_admin, registrar) /\ UNCHANGED clients
  BY DEF save_pwd_hash
<1> HIDE DEF registrar
<1>4. D!Enter(req[k].username, req[k].is_admin, registrar)
  BY <1>2, <1>3, InsertEnters
<1>5. CASE t \in orphans
  <2>1. registrar = None
    BY <1>5 DEF registrar
  <2> QED
    BY <1>2, <1>4, <1>5, <2>1 DEF D!Enrol
<1>6. CASE t \notin orphans
  <2>1. registrar = t.username
    BY <1>6 DEF registrar
  <2>2. Tells(t, t.username)
    BY <1>2, <1>6 DEF TokenInv, Truthful
  <2>3. t.username \in D!Administrators
    BY <1>2, <2>2 DEF Tells, D!Administrators, D!Members
  <2> QED
    BY <1>2, <1>4, <2>1, <2>3 DEF D!Enrol
<1> QED
  BY <1>5, <1>6

\* A login gives out what the row that it read says, for that row still stands.
LEMMA IssueGrants ==
  ASSUME TypeOK, TokenInv, NEW k \in Slot, auth_and_issue_jwt(k)
  PROVE  D!Grant
<1> DEFINE n == req[k].username
           t == ClaimsOf(n, req[k].user)
<1>1. req[k] \in LoginRequest
  BY DEF TypeOK, auth_and_issue_jwt, CreateRequest
<1>2. n \in Name /\ users[n] = req[k].user /\ users[n] # None
  BY <1>1, NamesAssumption
     DEF TokenInv, ReadStands, LoginRequest, auth_and_issue_jwt
<1>3. n \in D!Members /\ D!Describes(t, n)
  BY <1>2 DEF D!Members, D!Describes, ClaimsOf
<1>4. /\ tokens' = tokens \cup {t} /\ orphans' = orphans \ {t}
      /\ users' = users /\ by' = by
  BY DEF auth_and_issue_jwt, tables
<1> HIDE DEF n, t
<1> QED
  BY <1>3, <1>4 DEF D!Grant

\* What a power loss takes away are the youngest rows.
LEMMA PowerLossUndoes ==
  ASSUME TypeOK, PowerLoss
  PROVE  D!Undo
<1>1. PICK last \in 0 .. seq :
        LET Lost(n) == users[n] # None /\ users[n].id > last
        IN /\ seq' = last
           /\ users' = [n \in Name |-> IF Lost(n) THEN None ELSE users[n]]
           /\ by' = [n \in Name |-> IF Lost(n) THEN None ELSE by[n]]
  BY DEF PowerLoss
<1> DEFINE gone == {n \in Name : users[n] # None /\ users[n].id > last}
<1>2. gone \in SUBSET D!Members
  BY DEF D!Members
<1>3. \A m \in D!Members \ gone, n \in gone : users[m].id < users[n].id
  <2>1. \A m \in D!Members : users[m].id \in Nat
    BY DEF TypeOK, D!Members, User
  <2>2. last \in Nat /\ \A m \in D!Members \ gone : ~(users[m].id > last)
    BY <1>1 DEF TypeOK, D!Members
  <2>3. \A n \in gone : users[n].id > last /\ n \in D!Members
    BY <1>2
  <2> QED
    BY <2>1, <2>2, <2>3
<1>4. /\ users' = [n \in Name |-> IF n \in gone THEN None ELSE users[n]]
      /\ by' = [n \in Name |-> IF n \in gone THEN None ELSE by[n]]
  BY <1>1
<1>5. orphans' = tokens /\ tokens' = tokens
  BY DEF PowerLoss
<1> HIDE DEF gone
<1> QED
  BY <1>2, <1>3, <1>4, <1>5 DEF D!Undo

\* Every step of the servers is one of the directory's or changes nothing there.
LEMMA DirectoryStep ==
  TypeOK /\ Seeded /\ TokenInv /\ [Next]_vars => [D!Next]_(D!directory)
<1> SUFFICES ASSUME TypeOK, Seeded, TokenInv, [Next]_vars
             PROVE  D!Next \/ UNCHANGED D!directory
  OBVIOUS
<1>1. UNCHANGED <<users, by, tokens, orphans>> => UNCHANGED D!directory
  BY DEF D!directory
<1>2. ASSUME NEW s \in Server, Main(s)
      PROVE  D!Next \/ UNCHANGED D!directory
  <2>1. CASE seed_admin(s) /\ Admin \notin Registered
    BY <2>1, SeedFounds DEF D!Next
  <2>2. CASE ~(seed_admin(s) /\ Admin \notin Registered)
    BY <1>1, <1>2, <2>2
       DEF Main, StartUp, init_db_pool, admin_exists, seed_admin, bind,
           shutdown_signal, Exit, Crash, tables, clients
  <2> QED
    BY <2>1, <2>2
<1>3. ASSUME NEW k \in Slot, Arrive(k)
      PROVE  UNCHANGED D!directory
  BY <1>1, <1>3 DEF Arrive, login, create_user, tables, clients
<1>4. ASSUME NEW k \in Slot, Serve(k)
      PROVE  D!Next \/ UNCHANGED D!directory
  <2>1. CASE save_pwd_hash(k) /\ req[k].username \notin Registered
    BY <2>1, SaveEnrols DEF D!Next
  <2>2. CASE auth_and_issue_jwt(k)
    BY <2>2, IssueGrants DEF D!Next
  <2>3. CASE (save_pwd_hash(k) /\ req[k].username \in Registered) \/ Abandon(k)
    BY <1>1, <2>3 DEF save_pwd_hash, Abandon, tables, clients
  <2> QED
    BY <1>4, <2>1, <2>2, <2>3 DEF Serve
<1>5. CASE PowerLoss
  BY <1>5, PowerLossUndoes DEF D!Next
<1>6. CASE UNCHANGED vars \/ Tick
  BY <1>1, <1>6 DEF vars, tables, clients, Tick
<1> QED
  BY <1>2, <1>3, <1>4, <1>5, <1>6 DEF Next

\* Servers that race to seed, registrations that hash while others come and go,
\* logins that take their time and power losses together do what members of a
\* directory do one at a time.
THEOREM AccountsImplementDirectory == Spec => DirectorySpec
<1>1. Init => D!Init
  BY DEF Init, D!Init
<1> QED
  BY <1>1, DirectoryStep, AccountsTypeCorrect, SeededAlways, TokenInvAlways, PTL
     DEF Spec, DirectorySpec, D!Spec
=============================================================================
