------------------------------ MODULE Accounts ------------------------------
(***************************************************************************)
(* The users table, the server processes that share it and the tokens that *)
(* clients hold.  A server makes sure at start-up that there is an         *)
(* administrator, then binds the port; create_user and login run as        *)
(* requests, with awaits between looking and writing.  Tokens are kept by  *)
(* clients alone and outlive every server.                                 *)
(*                                                                         *)
(* SQLite runs in WAL mode with synchronous = NORMAL: a commit survives    *)
(* the death of the process, but a power loss may undo the commits since   *)
(* the last checkpoint.                                                    *)
(***************************************************************************)
EXTENDS Naturals, FiniteSets

CONSTANTS
  Server,     \* processes of one machine, on one database and one port
  Slot,       \* requests in progress at a time
  Name,       \* user names, none of them empty
  Admin,      \* the name that ensure_admin_user inserts
  None,       \* no row, no request
  Day,        \* how far ahead login sets exp
  Leeway,     \* how long after exp the extractor still accepts a token
  MaxTime,    \* bound on the clock
  MaxTokens,  \* bound on the number of different tokens
  MaxCrashes  \* bound on crashes and power losses

\* A row of users.  A name has at most one, so rows are found by name.
User == [id : Nat \ {0}, is_admin : BOOLEAN]

Claims == [sub : Nat \ {0}, username : Name, role : {"admin", "user"},
           iat : Nat, exp : Nat]

\* create_user past its extractor and login past its SELECT.
CreateRequest == [op : {"create"}, server : Server, claims : Claims,
                  username : Name, is_admin : BOOLEAN]
LoginRequest == [op : {"login"}, server : Server, username : Name, user : User]

Starting == {"check", "seed", "bind"}
Running == {"listening", "draining"}

ASSUME NamesAssumption ==
  /\ Admin \in Name
  /\ None \notin User \cup CreateRequest \cup LoginRequest
  /\ None \notin Name

ASSUME TimesAssumption ==
  /\ Day \in Nat /\ Leeway \in Nat /\ MaxTime \in Nat
  /\ MaxTokens \in Nat /\ MaxCrashes \in Nat

VARIABLES
  users,    \* users[n]: the row of user name n, or None
  seq,      \* the last id that AUTOINCREMENT gave out
  pc,       \* pc[s]: how far main of server s has come, "down" if it is not up
  req,      \* req[k]: the request in slot k, or None
  tokens,   \* the claims of every token ever issued
  now,      \* the wall clock
  crashes,  \* how many crashes and power losses there were, for MaxCrashes
  orphans,  \* history: tokens issued before the last power loss
  by        \* history: by[n]: who registered n, None if with an orphan token

tables == <<users, seq, by>>
clients == <<tokens, orphans>>
vars == <<tables, pc, req, clients, now, crashes>>

Registered == {n \in Name : users[n] # None}
Admins == {n \in Registered : users[n].is_admin}

Init ==
  /\ users = [n \in Name |-> None]
  /\ seq = 0
  /\ pc = [s \in Server |-> "down"]
  /\ req = [k \in Slot |-> None]
  /\ tokens = {}
  /\ now = 0
  /\ crashes = 0
  /\ orphans = {}
  /\ by = [n \in Name |-> None]

Goto(s, there) == pc' = [pc EXCEPT ![s] = there]

\* INSERT INTO users; the caller has seen to it that the name is free.
Insert(n, is_admin, registrar) ==
  /\ users' = [users EXCEPT ![n] = [id |-> seq + 1, is_admin |-> is_admin]]
  /\ seq' = seq + 1
  /\ by' = [by EXCEPT ![n] = registrar]

-----------------------------------------------------------------------------
(* main *)

\* The pool opens and the migrations run.
init_db_pool(s) ==
  /\ pc[s] = "down"
  /\ Goto(s, "check")
  /\ UNCHANGED <<tables, req, clients, now, crashes>>

\* Broken variant: every start inserts the administrator.
admin_exists_ignored(s) ==
  /\ pc[s] = "check"
  /\ Goto(s, "seed")
  /\ UNCHANGED <<tables, req, clients, now, crashes>>

\* The COUNT of ensure_admin_user.
admin_exists(s) ==
  /\ pc[s] = "check"
  /\ Goto(s, IF Admins = {} THEN "seed" ELSE "bind")
  /\ UNCHANGED <<tables, req, clients, now, crashes>>

\* Its INSERT.  When another server has inserted the name since the COUNT, the
\* unwrap in main ends this one.
seed_admin(s) ==
  /\ pc[s] = "seed"
  /\ IF Admin \in Registered
     THEN Goto(s, "down") /\ UNCHANGED tables
     ELSE Goto(s, "bind") /\ Insert(Admin, TRUE, Admin)
  /\ UNCHANGED <<req, clients, now, crashes>>

\* TcpListener::bind fails while another server listens.
bind(s) ==
  /\ pc[s] = "bind"
  /\ Goto(s, IF \E t \in Server : pc[t] = "listening"
              THEN "down" ELSE "listening")
  /\ UNCHANGED <<tables, req, clients, now, crashes>>

\* ctrl_c: the listener closes, the requests in progress go on.
shutdown_signal(s) ==
  /\ pc[s] = "listening"
  /\ Goto(s, "draining")
  /\ UNCHANGED <<tables, req, clients, now, crashes>>

\* serve returns when the last request has ended.
Exit(s) ==
  /\ pc[s] = "draining"
  /\ \A k \in Slot : req[k] # None => req[k].server # s
  /\ Goto(s, "down")
  /\ UNCHANGED <<tables, req, clients, now, crashes>>

-----------------------------------------------------------------------------
(* Requests *)

\* jsonwebtoken's test: exp is not earlier than now - Leeway.
Valid(t) == t.exp + Leeway >= now

AdminUser(t) == Valid(t) /\ t.role = "admin"

Reply(k) == req' = [req EXCEPT ![k] = None]

\* Broken variant: any user's token will do.
create_user_anyone(k, s, t, n, is_admin) ==
  /\ pc[s] = "listening" /\ req[k] = None
  /\ t \in tokens /\ Valid(t)
  /\ req' = [req EXCEPT ![k] =
       [op |-> "create", server |-> s, claims |-> t,
        username |-> n, is_admin |-> is_admin]]
  /\ UNCHANGED <<tables, pc, clients, now, crashes>>

\* The AdminUser extractor.  A request that it refuses, or whose name or
\* password is empty, changes nothing.
create_user(k, s, t, n, is_admin) ==
  /\ pc[s] = "listening" /\ req[k] = None
  /\ t \in tokens /\ AdminUser(t)
  /\ req' = [req EXCEPT ![k] =
       [op |-> "create", server |-> s, claims |-> t,
        username |-> n, is_admin |-> is_admin]]
  /\ UNCHANGED <<tables, pc, clients, now, crashes>>

\* Broken variant: INSERT OR REPLACE.
save_pwd_hash_replace(k) ==
  /\ req[k] # None
  /\ req[k].op = "create"
  /\ Insert(req[k].username, req[k].is_admin,
            IF req[k].claims \in orphans THEN None ELSE req[k].claims.username)
  /\ Reply(k)
  /\ UNCHANGED <<pc, clients, now, crashes>>

\* After the hashing, the INSERT: a name that is taken is an error, and nobody
\* looks at the token again.
save_pwd_hash(k) ==
  /\ req[k] # None
  /\ req[k].op = "create"
  /\ IF req[k].username \in Registered
     THEN UNCHANGED tables
     ELSE Insert(req[k].username, req[k].is_admin,
            IF req[k].claims \in orphans THEN None ELSE req[k].claims.username)
  /\ Reply(k)
  /\ UNCHANGED <<pc, clients, now, crashes>>

\* Broken variant: the row is used whether there is one or not.
login_unchecked(k, s, n) ==
  /\ pc[s] = "listening" /\ req[k] = None
  /\ req' = [req EXCEPT ![k] =
       [op |-> "login", server |-> s, username |-> n, user |-> users[n]]]
  /\ UNCHANGED <<tables, pc, clients, now, crashes>>

\* get_user_by_username.  An unknown user and, later, a wrong password get an
\* error and change nothing.
login(k, s, n) ==
  /\ pc[s] = "listening" /\ req[k] = None
  /\ n \in Registered
  /\ req' = [req EXCEPT ![k] =
       [op |-> "login", server |-> s, username |-> n, user |-> users[n]]]
  /\ UNCHANGED <<tables, pc, clients, now, crashes>>

ClaimsOf(n, user) ==
  [sub |-> user.id, username |-> n,
   role |-> IF user.is_admin THEN "admin" ELSE "user",
   iat |-> now, exp |-> now + Day]

\* After the password check, the token is made from the row that was read.
auth_and_issue_jwt(k) ==
  /\ req[k] # None
  /\ req[k].op = "login"
  /\ LET t == ClaimsOf(req[k].username, req[k].user)
     IN /\ t \in tokens \/ Cardinality(tokens) < MaxTokens
        /\ tokens' = tokens \cup {t}
        /\ orphans' = orphans \ {t}
  /\ Reply(k)
  /\ UNCHANGED <<tables, pc, now, crashes>>

\* A wrong password, a hash that fails, a statement that fails, a hang-up.
Abandon(k) ==
  /\ req[k] # None
  /\ Reply(k)
  /\ UNCHANGED <<tables, pc, clients, now, crashes>>

-----------------------------------------------------------------------------
(* The machine *)

\* A server dies, or its start-up fails on the database, and its requests
\* with it.
Crash(s) ==
  /\ crashes < MaxCrashes
  /\ pc[s] # "down"
  /\ Goto(s, "down")
  /\ req' = [k \in Slot |-> IF req[k] # None /\ req[k].server = s
                            THEN None ELSE req[k]]
  /\ crashes' = crashes + 1
  /\ UNCHANGED <<tables, clients, now>>

\* Some of the last commits are undone, the AUTOINCREMENT counter with them.
\* How many is open: the WAL is synced when SQLite checkpoints it, about every
\* thousand pages, which is more than this table ever fills.
PowerLoss ==
  /\ crashes < MaxCrashes
  /\ \E last \in 0 .. seq :
       LET Lost(n) == users[n] # None /\ users[n].id > last
       IN /\ seq' = last
          /\ users' = [n \in Name |-> IF Lost(n) THEN None ELSE users[n]]
          /\ by' = [n \in Name |-> IF Lost(n) THEN None ELSE by[n]]
  /\ pc' = [s \in Server |-> "down"]
  /\ req' = [k \in Slot |-> None]
  /\ orphans' = tokens
  /\ crashes' = crashes + 1
  /\ UNCHANGED <<tokens, now>>

Tick ==
  /\ now < MaxTime
  /\ now' = now + 1
  /\ UNCHANGED <<tables, pc, req, clients, crashes>>

StartUp(s) == admin_exists(s) \/ seed_admin(s) \/ bind(s)

Main(s) ==
  \/ init_db_pool(s) \/ StartUp(s) \/ shutdown_signal(s) \/ Exit(s) \/ Crash(s)

Arrive(k) ==
  \E s \in Server, n \in Name :
    \/ login(k, s, n)
    \/ \E t \in tokens, is_admin \in BOOLEAN : create_user(k, s, t, n, is_admin)

Serve(k) == save_pwd_hash(k) \/ auth_and_issue_jwt(k) \/ Abandon(k)

Next ==
  \/ \E s \in Server : Main(s)
  \/ \E k \in Slot : Arrive(k) \/ Serve(k)
  \/ PowerLoss \/ Tick

Spec == Init /\ [][Next]_vars

-----------------------------------------------------------------------------
(* Properties *)

TypeOK ==
  /\ users \in [Name -> User \cup {None}]
  /\ seq \in Nat
  /\ pc \in [Server -> Starting \cup Running \cup {"down"}]
  /\ req \in [Slot -> CreateRequest \cup LoginRequest \cup {None}]
  /\ tokens \subseteq Claims
  /\ now \in Nat
  /\ crashes \in Nat
  /\ orphans \subseteq tokens
  /\ by \in [Name -> Name \cup {None}]

\* Whoever gets as far as the port serves a database with an administrator in
\* it, whatever other servers, requests, crashes and power losses did since it
\* counted them: without one nobody could ever be registered.
ServedHasAdmin ==
  (\E s \in Server : pc[s] \in {"bind"} \cup Running) => Admins # {}

Tells(t, n) ==
  /\ users[n] # None
  /\ t.sub = users[n].id
  /\ t.username = n
  /\ t.role = "admin" <=> users[n].is_admin

\* What a token says of its holder is what the table says, until it expires:
\* the user, under that id and with that role, is there and nobody else has
\* the id.  Tokens from before a power loss are excepted, see "orphans".
TokensTellTheTruth ==
  \A t \in tokens \ orphans :
    /\ Tells(t, t.username)
    /\ \A n \in Registered : users[n].id = t.sub => n = t.username

\* Every account was registered by an administrator whose own account is older,
\* back to the one of ensure_admin_user.  Orphan tokens are excepted again.
Vouched ==
  \A n \in Registered :
    \/ n = Admin
    \/ by[n] = None
    \/ by[n] \in Admins /\ users[by[n]].id < users[n].id

D == INSTANCE Directory

\* The awaits between looking and writing do not show: a registration, whose
\* token was looked at before its password was hashed, is the act of somebody
\* who is an administrator when the row is written, a login that took its time
\* issues what is so now, and servers that race to seed make one administrator.
DirectorySpec == D!Spec

\* With no more crashes to come, a server that starts while no other is up
\* ends up listening, whatever an earlier start that failed half way left.
LoneStartListens ==
  \A s \in Server :
    LET Alone == \A t \in Server \ {s} : pc[t] = "down"
    IN (pc[s] = "check" /\ Alone /\ crashes = MaxCrashes) ~>
         (pc[s] = "listening" \/ ~Alone)
=============================================================================
