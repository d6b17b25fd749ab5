-------------------------- MODULE ListeningProofs ---------------------------
(***************************************************************************)
(* Proofs about Listening, for any number of servers, users, devices and   *)
(* items and any bounds.  The listening system implements Accounts, so     *)
(* what AccountsProofs shows of the accounts holds here.                   *)
(***************************************************************************)
EXTENDS Listening, AccountsProofs

-----------------------------------------------------------------------------
(* Accounts inside *)

\* Every step is one of Accounts or leaves the accounts alone.
LEMMA StepOfAccounts == [ListenNext]_everything => [Next]_vars
<1> SUFFICES ASSUME [ListenNext]_everything PROVE [Next]_vars
  OBVIOUS
<1>1. CASE Account
  BY <1>1 DEF Account, Next, Main
<1>2. ASSUME NEW s \in Server, Break(s) PROVE [Next]_vars
  BY <1>2 DEF Break, Next, Main
<1>3. CASE LosePower
  BY <1>3 DEF LosePower, Next
<1>4. CASE Checkpoint \/ UNCHANGED everything
  BY <1>4 DEF Checkpoint, everything
<1>5. ASSUME NEW d \in Device, Use(d) PROVE UNCHANGED vars
  BY <1>5 DEF Use, Adopt, Play, SendUpdate, SendGet, Ask, GiveUp, Vanish, Receive
<1>6. ASSUME NEW d \in Device, NEW l \in Line, Handle(d, l) PROVE UNCHANGED vars
  BY <1>6 DEF Handle, AuthUser, upsert_progress, get_progress
<1> QED
  BY <1>1, <1>2, <1>3, <1>4, <1>5, <1>6 DEF ListenNext

\* The server with positions implements the one with accounts alone.
THEOREM ListeningImplementsAccounts == ListenSpec => Spec
<1>1. ListenInit => Init
  BY DEF ListenInit
<1> QED
  BY <1>1, StepOfAccounts, PTL DEF ListenSpec, Spec

-----------------------------------------------------------------------------
(* Type correctness *)

\* The type of the variable call.
Calls == [Device -> [Line -> Call \cup {None}]]

\* Placing a call keeps the type of the calls and leaves the others alone.
LEMMA PlaceType ==
  ASSUME call \in Calls, NEW d \in Device, NEW l \in Line,
         NEW c \in Call \cup {None}, Place(d, l, c)
  PROVE  /\ call' \in Calls
         /\ call'[d][l] = c
         /\ \A e \in Device, m \in Line : <<e, m>> # <<d, l>> => call'[e][m] = call[e][m]
BY DEF Place, Calls

\* An answer is a call again, or none.
LEMMA AnswerType ==
  ASSUME NEW c \in Call, NEW stage \in {"done", "failed", "refused"},
         NEW row \in Row \cup {None}
  PROVE  [c EXCEPT !.stage = stage, !.row = row] \in Call
BY DEF Call

\* A row that upsert_progress writes.
RowOf(d, c) == [user_id |-> c.claims.sub, pos |-> c.pos, device |-> d,
                stamp |-> commits + 1, orphan |-> c.claims \in orphans]

\* It has the type of a row and a key of the table's type.
LEMMA RowType ==
  ASSUME ListenTypeOK, NEW d \in Device, NEW c \in Call
  PROVE  RowOf(d, c) \in Row /\ KeyOf(d, c.claims) \in Key
BY DevicesAssumption DEF ListenTypeOK, RowOf, Row, Call, KeyOf, Key, Claims

\* Writing a row keeps the type of the table.
LEMMA UpsertedType ==
  ASSUME Table(progress), NEW k \in Key, NEW row \in Row
  PROVE  Table(Upserted(k, row))
BY DEF Table, Upserted

\* The devices keep the types.
LEMMA UseType ==
  ASSUME ListenTypeOK, NEW d \in Device, Use(d), TypeOK'
  PROVE  ListenTypeOK'
<1> USE DEF ListenTypeOK, device
<1>0. call \in Calls /\ "live" \in Line /\ "stray" \in Line
  BY DEF Calls, Line
<1>1. ASSUME NEW t \in tokens, Adopt(d, t) PROVE ListenTypeOK'
  BY <1>1 DEF Adopt, TypeOK
<1>2. CASE Play(d)
  BY <1>2 DEF Play
<1>3. ASSUME NEW op \in {"update", "get"}, NEW pos \in Nat, NEW floor \in Nat,
             Ask(d, op, pos, floor)
      PROVE  ListenTypeOK'
  <2> DEFINE c == [op |-> op, pos |-> pos, claims |-> token[d], server |-> None,
                   row |-> None, stage |-> "sent", floor |-> floor]
  <2>1. c \in Call /\ Place(d, "live", c)
    BY <1>3 DEF Ask, Call
  <2> HIDE DEF c
  <2>2. call' \in Calls
    BY <1>0, <2>1, PlaceType
  <2> QED
    BY <1>3, <2>2 DEF Ask, Calls
<1>4. CASE SendUpdate(d)
  BY <1>3, <1>4 DEF SendUpdate
<1>5. CASE SendGet(d)
  <2>1. PICK floor \in Known(d) \cup {0} : Ask(d, "get", 0, floor)
    BY <1>5 DEF SendGet
  <2>2. floor \in Nat
    BY <2>1, DevicesAssumption DEF Known, Row
  <2> QED
    BY <1>3, <2>1, <2>2
<1>6. CASE GiveUp(d)
  <2>1. call' \in Calls
    BY <1>0, <1>6 DEF GiveUp, Calls, Line
  <2> QED
    BY <1>6, <2>1 DEF GiveUp, Calls
<1>7. CASE Vanish(d)
  <2>1. call' \in Calls
    BY <1>0, <1>7, PlaceType DEF Vanish
  <2> QED
    BY <1>7, <2>1 DEF Vanish, Calls
<1>8. CASE Receive(d)
  <2>1. call' \in Calls
    BY <1>0, <1>8, PlaceType DEF Receive
  <2>2. acked' \in [Device -> Row \cup {None}]
    BY <1>0, <1>8 DEF Receive, Calls, Call
  <2>3. token' \in [Device -> Claims \cup {None}]
    BY <1>8 DEF Receive
  <2> QED
    BY <1>8, <2>1, <2>2, <2>3 DEF Receive, Calls
<1> QED
  BY <1>1, <1>2, <1>4, <1>5, <1>6, <1>7, <1>8 DEF Use

\* The handlers keep the types.
LEMMA HandleType ==
  ASSUME ListenTypeOK, NEW d \in Device, NEW l \in Line, Handle(d, l), TypeOK'
  PROVE  ListenTypeOK'
<1> DEFINE c == call[d][l]
<1>0. call \in Calls
  BY DEF ListenTypeOK, Calls
<1>1. c # None /\ c \in Call
  BY <1>0 DEF Handle, AuthUser, upsert_progress, get_progress, InHandler, Calls
<1>2. \A stage \in {"done", "failed", "refused"}, row \in Row \cup {None} :
        Answer(d, l, stage, row) => call' \in Calls
  BY <1>0, <1>1, AnswerType, PlaceType DEF Answer
<1>3. ASSUME NEW s \in Server, AuthUser(d, l, s) PROVE ListenTypeOK'
  <2>1. [c EXCEPT !.server = s, !.stage = "run"] \in Call
    BY <1>1 DEF Call
  <2>2. call' \in Calls
    BY <1>0, <1>2, <1>3, <2>1, PlaceType DEF AuthUser
  <2> QED
    BY <1>3, <2>2 DEF AuthUser, ListenTypeOK, device, Calls
<1>4. CASE upsert_progress(d, l)
  <2>1. RowOf(d, c) \in Row /\ KeyOf(d, c.claims) \in Key
    BY <1>1, RowType
  <2>2. call' \in Calls
    BY <1>2, <1>4, <2>1 DEF upsert_progress, RowOf
  <2>3. Table(progress') /\ commits' \in Nat
    BY <1>4, <2>1, UpsertedType DEF upsert_progress, RowOf, ListenTypeOK
  <2> QED
    BY <1>4, <2>2, <2>3 DEF upsert_progress, ListenTypeOK, device, Calls, Table
<1>5. CASE get_progress(d, l)
  <2>1. call' \in Calls
    BY <1>2, <1>5 DEF get_progress, ListenTypeOK, Table
  <2> QED
    BY <1>5, <2>1 DEF get_progress, ListenTypeOK, device, Calls
<1> QED
  BY <1>3, <1>4, <1>5 DEF Handle

\* The machine keeps the types.
LEMMA BreakType ==
  ASSUME ListenTypeOK, TypeOK',
         \/ Account \/ Checkpoint \/ LosePower \/ UNCHANGED everything
         \/ \E s \in Server : Break(s)
  PROVE  ListenTypeOK'
<1> USE DEF ListenTypeOK, device
<1>1. CASE Account \/ UNCHANGED everything
  BY <1>1 DEF Account, Beside, listening, everything
<1>2. ASSUME NEW s \in Server, Break(s) PROVE ListenTypeOK'
  BY <1>2 DEF Break, Die
<1>3. CASE Checkpoint
  BY <1>3 DEF Checkpoint, TypeOK
<1>4. CASE LosePower
  <2>0. \A c \in Call : [c EXCEPT !.floor = 0] \in Call
    BY DEF Call
  <2>1. call' \in Calls
    BY <1>4, <2>0 DEF LosePower, Calls
  <2> QED
    BY <1>4, <2>1 DEF LosePower, Calls
<1> QED
  BY <1>1, <1>2, <1>3, <1>4

\* Rows, calls and devices stay well-formed.
THEOREM ListenTypeCorrect == ListenSpec => []ListenTypeOK
<1>1. ListenInit => ListenTypeOK
  BY InitType DEF ListenInit, ListenTypeOK, Table
<1>2. ListenTypeOK /\ [ListenNext]_everything => ListenTypeOK'
  <2> SUFFICES ASSUME ListenTypeOK, [ListenNext]_everything PROVE ListenTypeOK'
    OBVIOUS
  <2>1. TypeOK'
    BY StepOfAccounts, NextType DEF ListenTypeOK
  <2> QED
    BY <2>1, UseType, HandleType, BreakType DEF ListenNext
<1> QED
  BY <1>1, <1>2, PTL DEF ListenSpec

-----------------------------------------------------------------------------
(* Confirmed positions *)

\* Rows have key k with a row of commit n or a later one.
UpTo(rows, k, n) == k \in DOMAIN rows /\ rows[k].stamp >= n

\* Somebody has been told, or is about to be told, that device d's row r is
\* in the table.
Holds(d, r) ==
  LET c == call[d].live
  IN r = acked[d] \/ (c # None /\ c.op = "update" /\ c.stage = "done" /\ c.row = r)

\* Stamps are those of commits in the past, a call that was authorised has a
\* server to die with, and the rows that are held are in the table, or have
\* given way to later ones, and the synced table has those up to its commit.
Stamped ==
  /\ synced.commits <= commits
  /\ \A k \in DOMAIN progress : progress[k].stamp <= commits
  /\ \A k \in DOMAIN synced.progress : synced.progress[k].stamp <= synced.commits
  /\ \A d \in Device, l \in Line :
       call[d][l] # None /\ call[d][l].stage \in {"run", "done"} =>
         call[d][l].server # None
Kept ==
  \A d \in Device, r \in Row : Holds(d, r) =>
    LET k == <<r.user_id, ItemOf[d]>>
    IN /\ UpTo(progress, k, r.stamp)
       /\ r.stamp <= synced.commits => UpTo(synced.progress, k, r.stamp)

\* A call that device d may have sent just now.
Fresh(d, c) ==
  /\ c.stage = "sent" /\ c.claims = token[d] /\ token[d] # None
  /\ \/ c.op = "update" /\ c.pos = here[d] /\ c.floor = 0
     \/ c.op = "get" /\ c.floor \in Known(d) \cup {0}

\* What a device does changes no table and holds no new row.
LEMMA UseHolds ==
  ASSUME ListenTypeOK, NEW d \in Device, Use(d)
  PROVE  /\ UNCHANGED <<progress, commits, synced>>
         /\ \A e \in Device, l \in Line : call'[e][l] # None =>
              \/ e = d /\ l = "live" /\ Fresh(d, call'[e][l])
              \/ call'[e][l] = call[e][l]
              \/ /\ e = d /\ l = "stray" /\ call'[e][l] = call[e].live
                 /\ call'[e][l].op = "update" /\ call'[e].live = None
         /\ \A e \in Device, r \in Row : Holds(e, r)' => Holds(e, r)
<1> USE DEF device
<1>0. call \in Calls /\ "live" \in Line /\ "stray" \in Line
  BY DEF ListenTypeOK, Calls, Line
<1>1. ASSUME NEW op, NEW pos, NEW floor, Ask(d, op, pos, floor)
      PROVE  /\ UNCHANGED <<progress, commits, synced, acked>>
             /\ LET c == call'[d].live
                IN /\ token[d] # None /\ c.stage = "sent" /\ c.claims = token[d]
                   /\ c.op = op /\ c.pos = pos /\ c.floor = floor
             /\ \A e \in Device, l \in Line :
                  <<e, l>> # <<d, "live">> => call'[e][l] = call[e][l]
  <2> DEFINE x == [op |-> op, pos |-> pos, claims |-> token[d], server |-> None,
                   row |-> None, stage |-> "sent", floor |-> floor]
  <2>1. Place(d, "live", x)
    BY <1>1 DEF Ask
  <2>2. /\ x.stage = "sent" /\ x.claims = token[d]
        /\ x.op = op /\ x.pos = pos /\ x.floor = floor
    OBVIOUS
  <2> HIDE DEF x
  <2>3. /\ call'[d].live = x
        /\ \A e \in Device, l \in Line :
             <<e, l>> # <<d, "live">> => call'[e][l] = call[e][l]
    BY <1>0, <2>1 DEF Place, Calls
  <2> QED
    BY <1>1, <2>2, <2>3 DEF Ask
<1>2. ASSUME NEW op, NEW pos, NEW floor, Ask(d, op, pos, floor),
             \/ op = "update" /\ pos = here[d] /\ floor = 0
             \/ op = "get" /\ floor \in Known(d) \cup {0}
      PROVE  /\ UNCHANGED <<progress, commits, synced>>
             /\ \A e \in Device, l \in Line : call'[e][l] # None =>
                  \/ e = d /\ l = "live" /\ Fresh(d, call'[e][l])
                  \/ call'[e][l] = call[e][l]
             /\ \A e \in Device, r \in Row : Holds(e, r)' => Holds(e, r)
  <2> DEFINE c == call'[d].live
  <2>0. /\ token[d] # None /\ c.stage = "sent" /\ c.claims = token[d]
        /\ c.op = op /\ c.pos = pos /\ c.floor = floor
    BY <1>1, <1>2
  <2>1. Fresh(d, c)
    BY <1>2, <2>0 DEF Fresh
  <2>2. UNCHANGED <<progress, commits, synced, acked>>
        /\ \A e \in Device, l \in Line :
             <<e, l>> # <<d, "live">> => call'[e][l] = call[e][l]
    BY <1>1, <1>2
  <2> QED
    BY <1>0, <2>0, <2>1, <2>2 DEF Holds
<1>3. CASE SendUpdate(d) \/ SendGet(d)
  BY <1>2, <1>3 DEF SendUpdate, SendGet
<1>4. CASE Play(d) \/ \E t \in tokens : Adopt(d, t)
  BY <1>4 DEF Play, Adopt, Holds
<1>5. CASE GiveUp(d)
  <2>1. /\ call'[d].live = None
        /\ call'[d].stray # None =>
             call'[d].stray = call[d].live /\ call[d].live.op = "update"
        /\ \A e \in Device \ {d}, l \in Line : call'[e][l] = call[e][l]
    BY <1>0, <1>5 DEF GiveUp, Calls
  <2> QED
    BY <1>0, <1>5, <2>1 DEF GiveUp, Holds, Line
<1>6. CASE Vanish(d)
  <2>1. /\ call'[d].stray = None
        /\ \A e \in Device, l \in Line :
             <<e, l>> # <<d, "stray">> => call'[e][l] = call[e][l]
    BY <1>0, <1>6 DEF Vanish, Place, Calls
  <2> QED
    BY <1>0, <1>6, <2>1 DEF Vanish, Holds
<1>7. CASE Receive(d)
  <2>1. /\ call'[d].live = None
        /\ \A e \in Device, l \in Line :
             <<e, l>> # <<d, "live">> => call'[e][l] = call[e][l]
        /\ \A e \in Device \ {d} : acked'[e] = acked[e]
        /\ acked'[d] = IF call[d].live.stage = "done" /\ call[d].live.op = "update"
                       THEN call[d].live.row ELSE acked[d]
    BY <1>0, <1>7 DEF Receive, Place, Calls, ListenTypeOK
  <2> QED
    BY <1>0, <1>7, <2>1 DEF Receive, Holds
<1> QED
  BY <1>3, <1>4, <1>5, <1>6, <1>7 DEF Use

\* What placing a call leaves.
LEMMA PlaceHolds ==
  ASSUME call \in Calls, NEW d \in Device, NEW l \in Line, NEW c, Place(d, l, c)
  PROVE  /\ call'[d][l] = c
         /\ \A e \in Device, m \in Line : <<e, m>> # <<d, l>> => call'[e][m] = call[e][m]
BY DEF Place, Calls

\* c1 is c further on: what was asked stays.
Same(c, c1) ==
  c1.op = c.op /\ c1.claims = c.claims /\ c1.pos = c.pos /\ c1.floor = c.floor

\* An answer is there for the call of a device that waits, and keeps the call.
LEMMA AnswerHolds ==
  ASSUME call \in Calls, NEW d \in Device, NEW l \in Line, call[d][l] \in Call,
         NEW stage, NEW row, Answer(d, l, stage, row)
  PROVE  /\ \A e \in Device, m \in Line : <<e, m>> # <<d, l>> => call'[e][m] = call[e][m]
         /\ l = "stray" => call'[d][l] = None
         /\ call'[d][l] # None =>
              /\ l = "live" /\ Same(call[d][l], call'[d][l])
              /\ call'[d][l].server = call[d][l].server
              /\ call'[d][l].stage = stage /\ call'[d][l].row = row
<1> DEFINE x == [call[d][l] EXCEPT !.stage = stage, !.row = row]
           y == IF l = "stray" THEN None ELSE x
<1>1. /\ x.stage = stage /\ x.row = row /\ Same(call[d][l], x)
      /\ x.server = call[d][l].server
  BY DEF Call, Same
<1>2. Place(d, l, y)
  BY DEF Answer
<1>3. /\ l = "stray" => y = None
      /\ y # None => l = "live" /\ y = x
  BY DEF Line
<1> HIDE DEF x, y
<1> QED
  BY <1>1, <1>2, <1>3, PlaceHolds

\* A handler's call is answered or authorised; only an update that the device
\* waits for holds a new row, the one it wrote.
LEMMA HandleHolds ==
  ASSUME ListenTypeOK, NEW d \in Device, NEW l \in Line, Handle(d, l)
  PROVE  /\ UNCHANGED <<synced, acked>>
         /\ call[d][l] # None /\ call[d][l] \in Call
         /\ \A e \in Device, m \in Line :
              <<e, m>> # <<d, l>> => call'[e][m] = call[e][m]
         /\ l = "stray" /\ call[d][l].stage = "run" => call'[d][l] = None
         /\ call'[d][l] # None =>
              /\ Same(call[d][l], call'[d][l])
              /\ \/ /\ call[d][l].stage = "sent" /\ call'[d][l].stage = "refused"
                    /\ l = "live"
                 \/ /\ call[d][l].stage = "sent" /\ call'[d][l].stage = "run"
                    /\ call'[d][l].server \in Server
                 \/ /\ call[d][l].stage = "run"
                    /\ call'[d][l].stage \in {"done", "failed"}
                    /\ call'[d][l].server = call[d][l].server /\ l = "live"
<1> DEFINE c == call[d][l]
<1>0. call \in Calls
  BY DEF ListenTypeOK, Calls
<1>1. c # None /\ c \in Call
  BY <1>0 DEF Handle, AuthUser, upsert_progress, get_progress, InHandler, Calls
<1>2. CASE upsert_progress(d, l) \/ get_progress(d, l)
  <2>1. /\ c.stage = "run" /\ UNCHANGED <<synced, acked>>
        /\ \E stage \in {"done", "failed"} : \E row : Answer(d, l, stage, row)
    BY <1>2 DEF upsert_progress, get_progress, InHandler, device
  <2>2. PICK stage \in {"done", "failed"} : \E row : Answer(d, l, stage, row)
    BY <2>1
  <2>3. PICK row : Answer(d, l, stage, row)
    BY <2>2
  <2> QED
    BY <1>0, <1>1, <2>1, <2>3, AnswerHolds
<1>3. ASSUME NEW s \in Server, AuthUser(d, l, s), ~Valid(c.claims)
      PROVE  /\ c.stage = "sent" /\ Answer(d, l, "refused", None)
             /\ UNCHANGED <<synced, acked>>
  BY <1>3 DEF AuthUser, device
<1>4. ASSUME NEW s \in Server, AuthUser(d, l, s), Valid(c.claims)
      PROVE  /\ c.stage = "sent" /\ UNCHANGED <<synced, acked>>
             /\ \A e \in Device, m \in Line : <<e, m>> # <<d, l>> => call'[e][m] = call[e][m]
             /\ Same(c, call'[d][l]) /\ call'[d][l].server = s
             /\ call'[d][l].stage = "run"
  <2> DEFINE x == [c EXCEPT !.server = s, !.stage = "run"]
  <2>1. Place(d, l, x) /\ c.stage = "sent" /\ UNCHANGED <<synced, acked>>
    BY <1>4 DEF AuthUser, device
  <2>2. x.stage = "run" /\ Same(c, x) /\ x.server = s
    BY <1>1 DEF Call, Same
  <2> HIDE DEF x
  <2> QED
    BY <1>0, <2>1, <2>2, PlaceHolds
<1>5. ASSUME NEW s \in Server, AuthUser(d, l, s), ~Valid(c.claims)
      PROVE  /\ c.stage = "sent" /\ UNCHANGED <<synced, acked>>
             /\ \A e \in Device, m \in Line : <<e, m>> # <<d, l>> => call'[e][m] = call[e][m]
             /\ call'[d][l] # None =>
                  /\ l = "live" /\ Same(c, call'[d][l])
                  /\ call'[d][l].stage = "refused"
  BY <1>0, <1>1, <1>3, <1>5, AnswerHolds
<1> QED
  BY <1>1, <1>2, <1>4, <1>5 DEF Handle

\* The handler of line l of device d writes its row.
Writes(d, l) ==
  LET c == call[d][l]
  IN /\ c.op = "update" /\ c.stage = "run"
     /\ \E n \in Registered : users[n].id = c.claims.sub
     /\ progress' = Upserted(KeyOf(d, c.claims), RowOf(d, c))
     /\ commits' = commits + 1
     /\ call'[d][l] # None => call'[d][l].row = RowOf(d, c)

\* A get that is answered has the row of its key, if there is one.
Finds(d, l) ==
  LET c == call[d][l]
      k == KeyOf(d, c.claims)
  IN c.op = "get" /\ call'[d][l] # None /\ call'[d][l].stage = "done" =>
       c.stage = "run" /\ (k \in DOMAIN progress => call'[d][l].row = progress[k])

\* A handler writes its row, or no update is done and no table changes.
LEMMA HandleTables ==
  ASSUME ListenTypeOK, NEW d \in Device, NEW l \in Line, Handle(d, l)
  PROVE  /\ \/ Writes(d, l)
            \/ /\ UNCHANGED <<progress, commits>>
               /\ call'[d][l] # None /\ call'[d][l].op = "update" =>
                    call'[d][l].stage # "done"
         /\ Finds(d, l)
<1> DEFINE c == call[d][l]
<1>0. call \in Calls
  BY DEF ListenTypeOK, Calls
<1>1. c # None /\ c \in Call
  BY HandleHolds
<1>2. ASSUME NEW s \in Server, AuthUser(d, l, s)
      PROVE  /\ UNCHANGED <<progress, commits>>
             /\ c.stage = "sent"
  BY <1>2 DEF AuthUser
<1>3. CASE upsert_progress(d, l)
  <2>1. c.op = "update" /\ c.stage = "run"
    BY <1>3 DEF upsert_progress, InHandler
  <2>2. CASE ItemOf[d] \in Shelved /\ \E n \in Registered : users[n].id = c.claims.sub
    <3>1. /\ progress' = Upserted(KeyOf(d, c.claims), RowOf(d, c))
          /\ commits' = commits + 1
          /\ Answer(d, l, "done", RowOf(d, c))
      BY <1>3, <2>2 DEF upsert_progress, RowOf
    <3> QED
      BY <1>0, <1>1, <2>1, <2>2, <3>1, AnswerHolds DEF Writes, Finds
  <2>3. CASE ~(ItemOf[d] \in Shelved /\ \E n \in Registered : users[n].id = c.claims.sub)
    <3>1. UNCHANGED <<progress, commits>> /\ Answer(d, l, "failed", None)
      BY <1>3, <2>3 DEF upsert_progress
    <3> QED
      BY <1>0, <1>1, <2>1, <3>1, AnswerHolds DEF Finds
  <2> QED
    BY <2>2, <2>3
<1>4. CASE get_progress(d, l)
  <2> DEFINE k == KeyOf(d, c.claims)
             row == IF k \in DOMAIN progress THEN progress[k] ELSE None
  <2>1. c.op = "get" /\ c.stage = "run" /\ UNCHANGED <<progress, commits>>
        /\ Answer(d, l, "done", row)
    BY <1>4 DEF get_progress, InHandler
  <2>2. call'[d][l] # None => call'[d][l].op = "get" /\ call'[d][l].row = row
    BY <1>0, <1>1, <2>1, AnswerHolds DEF Same
  <2> QED
    BY <2>1, <2>2 DEF Finds
<1>5. ASSUME NEW s \in Server, AuthUser(d, l, s)
      PROVE  /\ call'[d][l] # None => call'[d][l].stage # "done"
  BY <1>2, <1>5, HandleHolds
<1> QED
  BY <1>2, <1>3, <1>4, <1>5 DEF Handle, Finds

\* Rows only give way to later rows of their key.
LEMMA UpsertedUpTo ==
  ASSUME ListenTypeOK, Stamped, NEW d \in Device, NEW c \in Call,
         NEW k, NEW n \in Nat, UpTo(progress, k, n)
  PROVE  UpTo(Upserted(KeyOf(d, c.claims), RowOf(d, c)), k, n)
<1>1. RowOf(d, c).stamp = commits + 1 /\ commits \in Nat
  BY DEF RowOf, ListenTypeOK
<1>2. progress[k].stamp \in Nat /\ progress[k].stamp <= commits
  BY DEF UpTo, Stamped, ListenTypeOK, Table, Row
<1> QED
  BY <1>1, <1>2 DEF UpTo, Upserted

\* The devices keep the rows that are held.
LEMMA UseKept ==
  ASSUME ListenTypeOK, Stamped, Kept, NEW d \in Device, Use(d)
  PROVE  Stamped' /\ Kept'
<1>1. Stamped'
  BY UseHolds DEF Stamped, Line, Fresh
<1>2. Kept'
  BY UseHolds DEF Kept, UpTo
<1> QED
  BY <1>1, <1>2

\* The handlers do, and what they write is in the table.
LEMMA HandleKept ==
  ASSUME ListenTypeOK, Stamped, Kept, NEW d \in Device, NEW l \in Line, Handle(d, l)
  PROVE  Stamped' /\ Kept'
<1> DEFINE c == call[d][l]
           k0 == KeyOf(d, c.claims)
<1>0. /\ {commits, synced.commits} \subseteq Nat /\ Table(progress) /\ "live" \in Line
      /\ \A r \in Row : r.stamp \in Nat
  BY DEF ListenTypeOK, Row, Line
<1>1. c # None /\ c \in Call /\ UNCHANGED <<synced, acked>>
  BY HandleHolds
<1>2. \A e \in Device, m \in Line :
        call'[e][m] # None /\ call'[e][m].stage \in {"run", "done"} =>
          call'[e][m].server # None
  <2> SUFFICES ASSUME call'[d][l] # None, call'[d][l].stage \in {"run", "done"}
               PROVE  call'[d][l].server # None
    BY HandleHolds DEF Stamped
  <2> QED
    BY HandleHolds, <1>1, DevicesAssumption DEF Stamped
<1>3. CASE Writes(d, l)
  <2>1. /\ progress' = Upserted(k0, RowOf(d, c)) /\ commits' = commits + 1
        /\ RowOf(d, c).stamp = commits + 1
    BY <1>3 DEF Writes, RowOf
  <2>2. Stamped'
    <3>1. \A k \in DOMAIN progress' : progress'[k].stamp <= commits'
      BY <1>0, <2>1 DEF Upserted, Stamped, Table, Row
    <3> QED
      BY <1>0, <1>1, <1>2, <2>1, <3>1 DEF Stamped
  <2>3. \A k, n : n \in Nat /\ UpTo(progress, k, n) => UpTo(progress', k, n)
    BY <1>1, <2>1, UpsertedUpTo
  <2>4. \A e \in Device, r \in Row :
          Holds(e, r)' => Holds(e, r) \/ (e = d /\ r = RowOf(d, c))
    <3>1. \A e \in Device : acked'[e] = acked[e]
      BY <1>1
    <3>2. \A e \in Device : call'[e].live = call[e].live \/ (e = d /\ l = "live")
      BY <1>0, HandleHolds
    <3>3. call'[d][l] # None => call'[d][l].row = RowOf(d, c)
      BY <1>3 DEF Writes
    <3> QED
      BY <3>1, <3>2, <3>3 DEF Holds
  <2>5. UpTo(progress', <<RowOf(d, c).user_id, ItemOf[d]>>, RowOf(d, c).stamp)
    BY <1>0, <2>1 DEF UpTo, Upserted, KeyOf, RowOf
  <2>6. ~ RowOf(d, c).stamp <= synced.commits
    BY <1>0, <2>1 DEF Stamped
  <2> QED
    BY <1>0, <1>1, <2>2, <2>3, <2>4, <2>5, <2>6 DEF Kept
<1>4. CASE UNCHANGED <<progress, commits>>
           /\ (call'[d][l] # None /\ call'[d][l].op = "update" =>
                 call'[d][l].stage # "done")
  <2>1. \A e \in Device, r \in Row : Holds(e, r)' => Holds(e, r)
    BY <1>0, <1>4, HandleHolds DEF Holds
  <2> QED
    BY <1>1, <1>2, <1>4, <2>1 DEF Stamped, Kept, UpTo
<1> QED
  BY <1>3, <1>4, HandleTables

\* The machine does: a power loss takes the rows that were not synced, and
\* whoever held one holds it no more.
LEMMA MachineKept ==
  ASSUME ListenTypeOK, Stamped, Kept,
         \/ Account \/ Checkpoint \/ LosePower \/ UNCHANGED everything
         \/ \E s \in Server : Break(s)
  PROVE  Stamped' /\ Kept'
<1>0. /\ {commits, synced.commits} \subseteq Nat /\ "live" \in Line
      /\ \A r \in Row : r.stamp \in Nat
  BY DEF ListenTypeOK, Row, Line
<1>1. CASE Account \/ UNCHANGED everything
  BY <1>1 DEF Account, Beside, listening, device, everything, Stamped, Kept, Holds, UpTo
<1>2. ASSUME NEW s \in Server, Break(s) PROVE Stamped' /\ Kept'
  <2>1. /\ UNCHANGED <<progress, commits, synced, acked>>
        /\ \A d \in Device, l \in Line : call'[d][l] # None => call'[d][l] = call[d][l]
    BY <1>2 DEF Break, Die, device
  <2>2. \A d \in Device, r \in Row : Holds(d, r)' => Holds(d, r)
    BY <1>0, <2>1 DEF Holds
  <2> QED
    BY <2>1, <2>2 DEF Stamped, Kept, UpTo
<1>3. CASE Checkpoint
  <2>1. /\ UNCHANGED <<progress, commits, call, acked>>
        /\ synced'.progress = progress /\ synced'.commits = commits
    BY <1>3 DEF Checkpoint, device
  <2>2. \A d \in Device, r \in Row : Holds(d, r)' => Holds(d, r)
    BY <2>1 DEF Holds
  <2> QED
    BY <1>0, <2>1, <2>2 DEF Stamped, Kept, UpTo
<1>4. CASE LosePower
  <2>1. /\ UNCHANGED <<commits, synced>> /\ progress' = synced.progress
        /\ \A d \in Device : acked'[d] = None \/
             (acked'[d] = acked[d] /\ acked[d].stamp <= synced.commits)
    BY <1>4 DEF LosePower
  <2>2. \A d \in Device, l \in Line : call'[d][l] # None =>
          call[d][l] # None /\ call[d][l].server = None
    BY <1>4 DEF LosePower
  <2>3. \A d \in Device, l \in Line : call'[d][l] # None =>
          call'[d][l].stage \notin {"run", "done"}
    <3> SUFFICES ASSUME NEW d \in Device, NEW l \in Line, call'[d][l] # None
                 PROVE  call'[d][l].stage \notin {"run", "done"}
      OBVIOUS
    <3>1. call[d][l] \in Call
      BY <2>2 DEF ListenTypeOK
    <3>2. call'[d][l] = [call[d][l] EXCEPT !.floor = 0]
      BY <1>4 DEF LosePower
    <3>3. call'[d][l].stage = call[d][l].stage
      BY <3>1, <3>2 DEF Call
    <3> QED
      BY <2>2, <3>3 DEF Stamped
  <2>4. \A d \in Device, r \in Row : Holds(d, r)' => Holds(d, r) /\ r.stamp <= synced.commits
    BY <1>0, <2>1, <2>3, DevicesAssumption DEF Holds
  <2>5. Stamped'
    <3>1. \A k \in DOMAIN progress' : progress'[k].stamp <= commits'
      BY <1>0, <2>1 DEF Stamped, ListenTypeOK, Table, Row
    <3> QED
      BY <2>1, <2>3, <3>1 DEF Stamped
  <2> QED
    BY <2>1, <2>4, <2>5 DEF Kept, UpTo
<1> QED
  BY <1>1, <1>2, <1>3, <1>4

\* Both hold at all times.
LEMMA KeptAlways == ListenSpec => [](Stamped /\ Kept)
<1>1. ListenInit => Stamped /\ Kept
  <2> SUFFICES ASSUME ListenInit PROVE Stamped /\ Kept
    OBVIOUS
  <2>1. \A d \in Device, r \in Row : ~Holds(d, r)
    BY DevicesAssumption DEF ListenInit, Holds, Line
  <2> QED
    BY <2>1 DEF ListenInit, Stamped, Kept
<1>2. ListenTypeOK /\ (Stamped /\ Kept) /\ [ListenNext]_everything => (Stamped /\ Kept)'
  BY UseKept, HandleKept, MachineKept DEF ListenNext
<1> QED
  BY <1>1, <1>2, ListenTypeCorrect, PTL DEF ListenSpec

\* A position that was confirmed stays, or a later one is in its place, until
\* a power loss undoes it.
THEOREM ConfirmedStaysHolds == ListenSpec => []ConfirmedStays
<1>1. ListenTypeOK /\ Stamped /\ Kept => ConfirmedStays
  <2> SUFFICES ASSUME ListenTypeOK, Kept, NEW d \in Device, acked[d] # None
               PROVE  UpTo(progress, <<acked[d].user_id, ItemOf[d]>>, acked[d].stamp)
    BY DEF ConfirmedStays, UpTo
  <2>1. acked[d] \in Row /\ Holds(d, acked[d])
    BY DEF ListenTypeOK, Holds
  <2> QED
    BY <2>1 DEF Kept
<1> QED
  BY <1>1, ListenTypeCorrect, KeptAlways, PTL

\* A get that must show commit "floor" finds that in the table, or found it.
Floors ==
  \A d \in Device, l \in Line :
    LET c == call[d][l]
    IN c # None /\ c.op = "get" /\ c.floor > 0 =>
         /\ c.stage \in {"sent", "run"} => UpTo(progress, KeyOf(d, c.claims), c.floor)
         /\ c.stage = "done" => c.row # None /\ c.row.stamp >= c.floor

\* What a device asks for is there.
LEMMA UseFloors ==
  ASSUME ListenTypeOK, Kept, Floors, NEW d \in Device, Use(d)
  PROVE  Floors'
<1>1. \A floor \in Known(d) : UpTo(progress, KeyOf(d, token[d]), floor)
  <2> SUFFICES ASSUME NEW e \in Device, acked[e] # None,
                      acked[e].user_id = token[d].sub, ItemOf[e] = ItemOf[d]
               PROVE  UpTo(progress, KeyOf(d, token[d]), acked[e].stamp)
    BY DEF Known
  <2>1. acked[e] \in Row /\ Holds(e, acked[e])
    BY DEF ListenTypeOK, Holds
  <2> QED
    BY <2>1 DEF Kept, KeyOf
<1>2. \A c : Fresh(d, c) /\ c.op = "get" /\ c.floor > 0 =>
        c.stage = "sent" /\ UpTo(progress, KeyOf(d, c.claims), c.floor)
  BY <1>1 DEF Fresh
<1>3. UNCHANGED progress /\ "live" \in Line
  BY UseHolds DEF Line
<1> QED
  BY <1>2, <1>3, UseHolds DEF Floors, UpTo

\* What a handler writes leaves it there, and what it answers has it.
LEMMA HandleFloors ==
  ASSUME ListenTypeOK, Stamped, Floors, NEW d \in Device, NEW l \in Line, Handle(d, l)
  PROVE  Floors'
<1> DEFINE c == call[d][l]
<1>1. c # None /\ c \in Call
  BY HandleHolds
<1>2. \A k, n : n \in Nat /\ UpTo(progress, k, n) => UpTo(progress', k, n)
  <2>1. CASE Writes(d, l)
    BY <1>1, <2>1, UpsertedUpTo DEF Writes
  <2>2. CASE UNCHANGED progress
    BY <2>2
  <2> QED
    BY <2>1, <2>2, HandleTables
<1>3. \A e \in Device, m \in Line : call[e][m] # None => call[e][m].floor \in Nat
  BY DEF ListenTypeOK, Call
<1>4. ASSUME call'[d][l] # None, call'[d][l].op = "get", call'[d][l].floor > 0
      PROVE  LET c1 == call'[d][l]
             IN /\ c1.stage \in {"sent", "run"} =>
                     UpTo(progress', KeyOf(d, c1.claims), c1.floor)
                /\ c1.stage = "done" => c1.row # None /\ c1.row.stamp >= c1.floor
  <2>1. Same(c, call'[d][l]) /\ c.stage \in {"sent", "run"}
    BY <1>4, HandleHolds
  <2>2. UpTo(progress, KeyOf(d, c.claims), c.floor)
    BY <1>1, <1>4, <2>1 DEF Floors, Same
  <2>3. \A k \in DOMAIN progress : progress[k] \in Row /\ progress[k] # None
    BY DevicesAssumption DEF ListenTypeOK, Table
  <2> QED
    BY <1>1, <1>2, <1>3, <1>4, <2>1, <2>2, <2>3, HandleTables DEF Finds, Same, UpTo
<1>5. ASSUME NEW e \in Device, NEW m \in Line, <<e, m>> # <<d, l>>,
             call'[e][m] # None, call'[e][m].op = "get", call'[e][m].floor > 0
      PROVE  LET c1 == call'[e][m]
             IN /\ c1.stage \in {"sent", "run"} =>
                     UpTo(progress', KeyOf(e, c1.claims), c1.floor)
                /\ c1.stage = "done" => c1.row # None /\ c1.row.stamp >= c1.floor
  <2>1. call'[e][m] = call[e][m]
    BY <1>5, HandleHolds
  <2> QED
    BY <1>2, <1>3, <1>5, <2>1 DEF Floors
<1> QED
  BY <1>4, <1>5 DEF Floors, UpTo, KeyOf

\* A power loss releases the gets on their way from what they must show.
LEMMA MachineFloors ==
  ASSUME ListenTypeOK, Floors,
         \/ Account \/ Checkpoint \/ LosePower \/ UNCHANGED everything
         \/ \E s \in Server : Break(s)
  PROVE  Floors'
<1>1. CASE Account \/ Checkpoint \/ UNCHANGED everything
  BY <1>1 DEF Account, Beside, Checkpoint, listening, everything, Floors, UpTo
<1>2. ASSUME NEW s \in Server, Break(s) PROVE Floors'
  <2>1. /\ UNCHANGED progress
        /\ \A d \in Device, l \in Line : call'[d][l] # None => call'[d][l] = call[d][l]
    BY <1>2 DEF Break, Die
  <2> QED
    BY <2>1 DEF Floors, UpTo
<1>3. CASE LosePower
  <2> SUFFICES ASSUME NEW d \in Device, NEW l \in Line, call'[d][l] # None
               PROVE  ~ call'[d][l].floor > 0
    BY DEF Floors
  <2>1. call[d][l] # None /\ call'[d][l] = [call[d][l] EXCEPT !.floor = 0]
    BY <1>3 DEF LosePower
  <2>2. call[d][l] \in Call
    BY <2>1 DEF ListenTypeOK
  <2>3. call'[d][l].floor = 0
    BY <2>1, <2>2 DEF Call
  <2> QED
    BY <2>3
<1> QED
  BY <1>1, <1>2, <1>3

\* Who asks is told a position that is not older than those confirmed before,
\* short of a power loss.
THEOREM SeesConfirmedHolds == ListenSpec => []SeesConfirmed
<1>1. ListenInit => Floors
  BY DEF ListenInit, Floors
<1>2. ListenTypeOK /\ Stamped /\ Kept /\ Floors /\ [ListenNext]_everything => Floors'
  BY UseFloors, HandleFloors, MachineFloors DEF ListenNext
<1>3. Floors => SeesConfirmed
  BY DEF Floors, SeesConfirmed
<1> QED
  BY <1>1, <1>2, <1>3, ListenTypeCorrect, KeptAlways, PTL DEF ListenSpec

-----------------------------------------------------------------------------
(* Positions and their owners *)

\* Devices use tokens of their own user, and so do their calls.
Adopted ==
  /\ \A d \in Device : token[d] # None =>
       token[d] \in tokens /\ token[d].username = OwnerOf[d]
  /\ \A d \in Device, l \in Line : call[d][l] # None =>
       call[d][l].claims \in tokens /\ call[d][l].claims.username = OwnerOf[d]

\* Rows are under ids that were given out up to "last", and under the id of
\* somebody registered there are rows of that user's devices alone.
Owned(rows, last) ==
  \A k \in DOMAIN rows :
    /\ k[1] <= last
    /\ \A n \in Registered :
         users[n].id = k[1] /\ ~rows[k].orphan => OwnerOf[rows[k].device] = n
Own ==
  /\ synced.seq <= seq
  /\ Owned(progress, seq)
  /\ Owned(synced.progress, synced.seq)

\* The steps of Accounts short of a power loss.
Ordinary ==
  \/ \E s \in Server : Main(s)
  \/ \E k \in Slot : Arrive(k) \/ Serve(k)
  \/ Tick \/ UNCHANGED vars

\* In them, whoever is new has a new id.
LEMMA Newcomers ==
  ASSUME TypeOK, Ordinary
  PROVE  /\ seq' >= seq /\ tokens \subseteq tokens'
         /\ \A n \in Registered' : users'[n] = users[n] \/ users'[n].id > seq
<1>1. \A n \in Name : \A is_admin, registrar : Insert(n, is_admin, registrar) =>
        /\ seq' >= seq
        /\ \A m \in Registered' : users'[m] = users[m] \/ users'[m].id > seq
  BY DEF TypeOK, Insert, Registered
<1>2. users' = users /\ seq' = seq =>
        /\ seq' >= seq
        /\ \A m \in Registered' : users'[m] = users[m] \/ users'[m].id > seq
  BY DEF TypeOK
<1>3. ASSUME NEW s \in Server, Main(s)
      PROVE  /\ seq' >= seq /\ tokens' = tokens
             /\ \A m \in Registered' : users'[m] = users[m] \/ users'[m].id > seq
  BY <1>1, <1>2, <1>3, NamesAssumption
     DEF Main, StartUp, init_db_pool, admin_exists, seed_admin, bind,
         shutdown_signal, Exit, Crash, tables, clients
<1>4. ASSUME NEW k \in Slot, Arrive(k) PROVE UNCHANGED <<users, seq, tokens>>
  BY <1>4 DEF Arrive, login, create_user, tables, clients
<1>5. ASSUME NEW k \in Slot, save_pwd_hash(k)
      PROVE  /\ seq' >= seq /\ tokens' = tokens
             /\ \A m \in Registered' : users'[m] = users[m] \/ users'[m].id > seq
  <2>1. req[k].username \in Name
    BY <1>5 DEF TypeOK, save_pwd_hash, CreateRequest, LoginRequest
  <2> QED
    BY <1>1, <1>2, <1>5, <2>1 DEF save_pwd_hash, tables, clients
<1>6. ASSUME NEW k \in Slot, auth_and_issue_jwt(k) \/ Abandon(k)
      PROVE  UNCHANGED <<users, seq>> /\ tokens \subseteq tokens'
  BY <1>6 DEF auth_and_issue_jwt, Abandon, tables, clients
<1>7. CASE UNCHANGED vars \/ Tick
  BY <1>2, <1>7 DEF vars, tables, clients, Tick
<1> QED
  BY <1>2, <1>3, <1>4, <1>5, <1>6, <1>7 DEF Ordinary, Serve

\* Devices go on with their own users' tokens.
LEMMA AdoptedStep ==
  ASSUME ListenTypeOK, Adopted, [ListenNext]_everything
  PROVE  Adopted'
<1>1. tokens \subseteq tokens'
  BY StepOfAccounts, Newcomers DEF ListenTypeOK, Next, Ordinary, PowerLoss
<1>2. ASSUME NEW d \in Device, Use(d) PROVE Adopted'
  <2>1. \A e \in Device : token'[e] # None =>
          token'[e] \in tokens /\ token'[e].username = OwnerOf[e]
    BY <1>2 DEF Use, Adopt, Play, SendUpdate, SendGet, Ask, GiveUp, Vanish, Receive,
                Adopted, ListenTypeOK, device
  <2>2. \A e \in Device, l \in Line : call'[e][l] # None =>
          call'[e][l].claims \in tokens /\ call'[e][l].claims.username = OwnerOf[e]
    BY <1>2, UseHolds DEF Adopted, Fresh, Line
  <2> QED
    BY <1>1, <2>1, <2>2 DEF Adopted
<1>3. ASSUME NEW d \in Device, NEW l \in Line, Handle(d, l) PROVE Adopted'
  <2>1. token' = token
    BY <1>3 DEF Handle, AuthUser, upsert_progress, get_progress, device
  <2>2. \A e \in Device, m \in Line : call'[e][m] # None =>
          call[e][m] # None /\ call'[e][m].claims = call[e][m].claims
    BY <1>3, HandleHolds DEF Same
  <2> QED
    BY <1>1, <2>1, <2>2 DEF Adopted
<1>4. CASE Account \/ Checkpoint \/ UNCHANGED everything
  BY <1>1, <1>4 DEF Account, Beside, Checkpoint, listening, everything, device, Adopted
<1>5. ASSUME NEW s \in Server, Break(s) PROVE Adopted'
  BY <1>1, <1>5 DEF Break, Die, device, Adopted
<1>6. CASE LosePower
  <2>1. token' = token
    BY <1>6 DEF LosePower
  <2>2. ASSUME NEW d \in Device, NEW l \in Line, call'[d][l] # None
        PROVE  call[d][l] # None /\ call'[d][l].claims = call[d][l].claims
    <3>1. call[d][l] # None /\ call'[d][l] = [call[d][l] EXCEPT !.floor = 0]
      BY <1>6, <2>2 DEF LosePower
    <3>2. call[d][l] \in Call
      BY <3>1 DEF ListenTypeOK
    <3> QED
      BY <3>1, <3>2 DEF Call
  <2> QED
    BY <1>1, <2>1, <2>2 DEF Adopted
<1> QED
  BY <1>2, <1>3, <1>4, <1>5, <1>6 DEF ListenNext

\* Rows that stay keep their owners while no power is lost.
LEMMA OwnedStands ==
  ASSUME TypeOK, Ordinary, NEW rows, NEW last \in Nat, last <= seq,
         DOMAIN rows \subseteq Key, Owned(rows, last)
  PROVE  /\ Owned(rows, last)'
         /\ \A k \in DOMAIN rows : k[1] <= seq'
<1>1. \A k \in DOMAIN rows : k[1] \in Nat
  BY DEF Key
<1>2. seq \in Nat /\ seq' \in Nat
  BY NextType DEF TypeOK, Next, Ordinary
<1>3. \A n \in Registered' : users'[n] = users[n] \/ users'[n].id > seq
  BY Newcomers
<1>4. \A n \in Registered' : users'[n] = users[n] => n \in Registered
  BY DEF Registered
<1>5. \A n \in Registered' : users'[n].id \in Nat
  BY NextType DEF TypeOK, Next, Ordinary, Registered, User
<1>6. seq' >= seq
  BY Newcomers
<1> QED
  BY <1>1, <1>2, <1>3, <1>4, <1>5, <1>6 DEF Owned

\* A row is written under the id of its device's own user, unless the token is
\* an orphan.
LEMMA WritesOwned ==
  ASSUME ListenTypeOK, Seeded, TokensTellTheTruth, Adopted, Own,
         NEW d \in Device, NEW l \in Line, call[d][l] # None, Writes(d, l),
         UNCHANGED <<vars, synced>>
  PROVE  Own'
<1> DEFINE c == call[d][l]
           k0 == KeyOf(d, c.claims)
           row == RowOf(d, c)
<1>1. c.claims \in tokens /\ c.claims.username = OwnerOf[d]
  BY DEF Adopted
<1>2. PICK n0 \in Registered : users[n0].id = c.claims.sub
  BY DEF Writes
<1>3. k0[1] = c.claims.sub /\ row.device = d /\ row.orphan = (c.claims \in orphans)
  BY DEF KeyOf, RowOf
<1>4. k0[1] <= seq
  BY <1>2, <1>3 DEF Seeded
<1>5. \A n \in Registered : users[n].id = k0[1] /\ ~row.orphan => OwnerOf[d] = n
  BY <1>1, <1>3 DEF TokensTellTheTruth
<1>6. progress' = Upserted(k0, row)
  BY DEF Writes
<1> HIDE DEF k0, row
<1>7. /\ DOMAIN progress' = DOMAIN progress \cup {k0}
      /\ progress'[k0] = row
      /\ \A k \in DOMAIN progress : k # k0 => progress'[k] = progress[k]
  BY <1>6 DEF Upserted
<1>8. Owned(progress, seq) /\ Owned(synced.progress, synced.seq)
      /\ synced.seq <= seq /\ UNCHANGED <<users, seq>> /\ Registered' = Registered
  BY DEF Own, vars, tables, Registered
<1>9. \A k \in DOMAIN progress' :
        /\ k[1] <= seq'
        /\ \A n \in Registered' :
             users'[n].id = k[1] /\ ~progress'[k].orphan =>
               OwnerOf[progress'[k].device] = n
  BY <1>3, <1>4, <1>5, <1>7, <1>8 DEF Owned
<1> QED
  BY <1>8, <1>9 DEF Own, Owned

\* No step makes a row anybody else's.
LEMMA OwnStep ==
  ASSUME ListenTypeOK, Seeded, TokensTellTheTruth, Adopted, Own,
         [ListenNext]_everything
  PROVE  Own'
<1>0. /\ TypeOK /\ seq \in Nat /\ synced.seq \in Nat /\ synced.seq <= seq
      /\ DOMAIN progress \subseteq Key /\ DOMAIN synced.progress \subseteq Key
      /\ Owned(progress, seq) /\ Owned(synced.progress, synced.seq)
      /\ seq' \in Nat
  BY StepOfAccounts, NextType DEF ListenTypeOK, TypeOK, Table, Own
<1>1. CASE Ordinary /\ UNCHANGED <<progress, synced>>
  <2>1. seq' >= seq
    BY <1>0, <1>1, Newcomers
  <2>2. \A k \in DOMAIN progress : k[1] <= seq'
    BY <1>0, <1>1, OwnedStands
  <2>3. \A k \in DOMAIN progress, n \in Registered' :
          users'[n].id = k[1] /\ ~progress[k].orphan => OwnerOf[progress[k].device] = n
    BY <1>0, <1>1, OwnedStands DEF Owned
  <2>4. \A k \in DOMAIN synced.progress :
          /\ k[1] <= synced.seq
          /\ \A n \in Registered' :
               users'[n].id = k[1] /\ ~synced.progress[k].orphan =>
                 OwnerOf[synced.progress[k].device] = n
    BY <1>0, <1>1, OwnedStands DEF Owned
  <2> QED
    BY <1>0, <1>1, <2>1, <2>2, <2>3, <2>4 DEF Own, Owned
<1>2. CASE Account \/ UNCHANGED everything
  BY <1>1, <1>2 DEF Account, Beside, listening, everything, Ordinary, Main
<1>3. ASSUME NEW s \in Server, Break(s) PROVE Own'
  BY <1>1, <1>3 DEF Break, Ordinary, Main
<1>4. ASSUME NEW d \in Device, Use(d) PROVE Own'
  <2>1. UNCHANGED vars
    BY <1>4 DEF Use, Adopt, Play, SendUpdate, SendGet, Ask, GiveUp, Vanish, Receive
  <2> QED
    BY <1>1, <1>4, <2>1, UseHolds DEF Ordinary
<1>5. ASSUME NEW d \in Device, NEW l \in Line, Handle(d, l) PROVE Own'
  <2>1. UNCHANGED <<vars, synced>> /\ call[d][l] # None
    BY <1>5, HandleHolds DEF Handle, AuthUser, upsert_progress, get_progress
  <2> QED
    BY <1>1, <1>5, <2>1, HandleTables, WritesOwned DEF Ordinary
<1>6. CASE Checkpoint
  <2>1. /\ UNCHANGED <<vars, progress>>
        /\ synced'.progress = progress /\ synced'.seq = seq
    BY <1>6 DEF Checkpoint
  <2>2. UNCHANGED <<users, seq>> /\ Registered' = Registered
    BY <2>1 DEF vars, tables, Registered
  <2> QED
    BY <1>0, <2>1, <2>2 DEF Own, Owned
<1>7. CASE LosePower
  <2>1. /\ UNCHANGED synced /\ progress' = synced.progress /\ seq' = synced.seq
    BY <1>7 DEF LosePower
  <2>2. \A n \in Registered' : n \in Registered /\ users'[n] = users[n]
    BY <1>0, <1>7 DEF LosePower, PowerLoss, Registered, TypeOK
  <2> QED
    BY <1>0, <2>1, <2>2 DEF Own, Owned
<1> QED
  BY <1>2, <1>3, <1>4, <1>5, <1>6, <1>7 DEF ListenNext

\* Nobody registered has another user's positions, orphan tokens apart.
THEOREM OwnPositionsHolds == ListenSpec => []OwnPositions
<1>1. ListenInit => Adopted /\ Own
  BY DEF ListenInit, Init, Adopted, Own, Owned
<1>2. ListenTypeOK /\ Seeded /\ TokensTellTheTruth /\ Adopted /\ Own
        /\ [ListenNext]_everything => Adopted' /\ Own'
  BY AdoptedStep, OwnStep
<1>3. Own => OwnPositions
  BY DEF Own, Owned, OwnPositions
<1> QED
  BY <1>1, <1>2, <1>3, ListenTypeCorrect, ListeningImplementsAccounts, SeededAlways,
     TokensTellTheTruthHolds, PTL DEF ListenSpec

-----------------------------------------------------------------------------
(* Positions go back by strays alone *)

\* No row from device d is further on than p.
Behind(rows, d, p) ==
  \A k \in DOMAIN rows : rows[k].device = d => rows[k].pos <= p

\* Where device d is, its rows and its calls have been at most, and what it
\* waits for is further on than its rows and its stray call.
Ahead(d) ==
  LET live == call[d].live
      stray == call[d].stray
  IN /\ Behind(progress, d, here[d]) /\ Behind(synced.progress, d, here[d])
     /\ stray # None => stray.op = "update" /\ stray.pos <= here[d]
     /\ live # None /\ live.op = "update" => live.pos <= here[d]
     /\ live # None /\ live.op = "update" /\ live.stage \in {"sent", "run"} =>
          /\ Behind(progress, d, live.pos) /\ Behind(synced.progress, d, live.pos)
          /\ stray # None => stray.pos <= live.pos

\* The types that the order of positions needs.
LEMMA PositionTypes ==
  ASSUME ListenTypeOK
  PROVE  /\ \A d \in Device : here[d] \in Nat
         /\ \A d \in Device, l \in Line : call[d][l] # None => call[d][l].pos \in Nat
         /\ \A k \in DOMAIN progress : progress[k].pos \in Nat
         /\ \A k \in DOMAIN synced.progress : synced.progress[k].pos \in Nat
         /\ "live" \in Line /\ "stray" \in Line
BY DEF ListenTypeOK, Call, Row, Table, Line

\* What a device does takes it ahead.
LEMMA UseAhead ==
  ASSUME ListenTypeOK, \A e \in Device : Ahead(e), NEW d \in Device, Use(d),
         NEW e \in Device
  PROVE  Ahead(e)'
<1>1. here'[e] \in Nat /\ here'[e] >= here[e] /\ here[e] \in Nat
  <2>1. here \in [Device -> Nat]
    BY DEF ListenTypeOK
  <2>2. here' = here \/ Play(d)
    BY DEF Use, Adopt, SendUpdate, SendGet, Ask, GiveUp, Vanish, Receive, device
  <2> QED
    BY <2>1, <2>2 DEF Play
<1>2. UNCHANGED <<progress, synced>>
  BY UseHolds
<1>3. Behind(progress, e, here'[e]) /\ Behind(synced.progress, e, here'[e])
  BY <1>1, PositionTypes DEF Ahead, Behind
<1>4. call'[e].stray # None =>
        /\ call'[e].stray.op = "update" /\ call'[e].stray.pos <= here[e]
        /\ call'[e].stray = call[e].stray \/ call'[e].live = None
  BY UseHolds, PositionTypes DEF Ahead
<1>5. call'[e].live # None /\ call'[e].live.op = "update" =>
        \/ call'[e].live = call[e].live
        \/ call'[e].live.pos = here[e]
  BY UseHolds, PositionTypes DEF Fresh
<1> DEFINE p == call'[e].live.pos
<1>6. ASSUME call'[e].live # None, call'[e].live.op = "update",
             call'[e].live.stage \in {"sent", "run"}
      PROVE  /\ Behind(progress, e, p) /\ Behind(synced.progress, e, p)
             /\ call'[e].stray # None => call'[e].stray.pos <= p
  BY <1>4, <1>5, <1>6 DEF Ahead
<1>7. call'[e].live # None /\ call'[e].live.op = "update" => p <= here[e]
  BY <1>1, <1>5 DEF Ahead
<1>8. /\ call'[e].live # None /\ call'[e].live.op = "update" => p <= here'[e]
      /\ call'[e].stray # None => call'[e].stray.pos <= here'[e]
  <2>1. /\ call'[e].live # None /\ call'[e].live.op = "update" => p \in Nat
        /\ call'[e].stray # None => call'[e].stray.pos \in Nat
    BY <1>1, <1>5, UseHolds, PositionTypes
  <2> QED
    BY <1>1, <1>4, <1>7, <2>1
<1> QED
  BY <1>2, <1>3, <1>4, <1>6, <1>8 DEF Ahead, Behind

\* A handler that writes does not pass what the device waits for.
LEMMA HandleAhead ==
  ASSUME ListenTypeOK, \A e \in Device : Ahead(e), NEW d \in Device, NEW l \in Line,
         Handle(d, l), NEW e \in Device
  PROVE  Ahead(e)'
<1> DEFINE c == call[d][l]
           k0 == KeyOf(d, c.claims)
           row == RowOf(d, c)
<1>1. UNCHANGED <<synced, here>>
  BY DEF Handle, AuthUser, upsert_progress, get_progress, device
<1>2. /\ call'[e].stray # None => /\ call[e].stray # None
                                  /\ call'[e].stray.op = call[e].stray.op
                                  /\ call'[e].stray.pos = call[e].stray.pos
      /\ call'[e].live # None => /\ call[e].live # None
                                 /\ call'[e].live.op = call[e].live.op
                                 /\ call'[e].live.pos = call[e].live.pos
                                 /\ call'[e].live.stage \in {"sent", "run"} =>
                                      call[e].live.stage \in {"sent", "run"}
  BY HandleHolds, PositionTypes DEF Same
<1>3. CASE UNCHANGED progress
  BY <1>1, <1>2, <1>3 DEF Ahead, Behind
<1>4. CASE Writes(d, l)
  <2>1. /\ row.device = d /\ row.pos = c.pos /\ c # None /\ c.op = "update"
        /\ c.stage = "run" /\ progress' = Upserted(k0, row)
    BY <1>4, HandleHolds DEF Writes, RowOf
  <2>2. \A x : x \in Nat /\ Behind(progress, e, x) /\ (e = d => c.pos <= x) =>
          Behind(progress', e, x)
    BY <2>1 DEF Behind, Upserted
  <2>3. e = d => c.pos <= here[e]
    BY <2>1 DEF Ahead, Line
  <2>4. Behind(progress', e, here[e])
    BY <2>2, <2>3, PositionTypes DEF Ahead
  <2>5. ASSUME call'[e].live # None, call'[e].live.op = "update",
               call'[e].live.stage \in {"sent", "run"}
        PROVE  Behind(progress', e, call[e].live.pos)
    <3>1. e = d => l = "stray"
      BY <2>1, <2>5, HandleHolds, PositionTypes DEF Line
    <3>2. e = d => c.pos <= call[e].live.pos
      BY <1>2, <2>1, <2>5, <3>1 DEF Ahead
    <3> QED
      BY <1>2, <2>2, <2>5, <3>2, PositionTypes DEF Ahead
  <2> QED
    BY <1>1, <1>2, <2>4, <2>5 DEF Ahead
<1> QED
  BY <1>3, <1>4, HandleTables

\* A checkpoint or a power loss only takes one table for the other.
LEMMA MachineAhead ==
  ASSUME ListenTypeOK, \A e \in Device : Ahead(e), NEW e \in Device,
         \/ Account \/ Checkpoint \/ LosePower \/ UNCHANGED everything
         \/ \E s \in Server : Break(s)
  PROVE  Ahead(e)'
<1>1. CASE Account \/ UNCHANGED everything
  BY <1>1 DEF Account, Beside, listening, device, everything, Ahead, Behind
<1>2. ASSUME NEW s \in Server, Break(s) PROVE Ahead(e)'
  <2>1. /\ UNCHANGED <<progress, synced, here>>
        /\ \A l \in Line : call'[e][l] # None => call'[e][l] = call[e][l]
    BY <1>2 DEF Break, Die, device
  <2> QED
    BY <2>1, PositionTypes DEF Ahead, Behind
<1>3. CASE Checkpoint
  <2>1. UNCHANGED <<progress, call, here>> /\ synced'.progress = progress
    BY <1>3 DEF Checkpoint, device
  <2> QED
    BY <2>1 DEF Ahead, Behind
<1>4. CASE LosePower
  <2>1. UNCHANGED <<synced, here>> /\ progress' = synced.progress
    BY <1>4 DEF LosePower
  <2>2. ASSUME NEW l \in Line, call'[e][l] # None
        PROVE  /\ call[e][l] # None
               /\ call'[e][l].op = call[e][l].op /\ call'[e][l].pos = call[e][l].pos
               /\ call'[e][l].stage = call[e][l].stage
    <3>1. call[e][l] # None /\ call'[e][l] = [call[e][l] EXCEPT !.floor = 0]
      BY <1>4, <2>2 DEF LosePower
    <3>2. call[e][l] \in Call
      BY <3>1 DEF ListenTypeOK
    <3> QED
      BY <3>1, <3>2 DEF Call
  <2> QED
    BY <2>1, <2>2, PositionTypes DEF Ahead, Behind
<1> QED
  BY <1>1, <1>2, <1>3, <1>4

AllAhead == \A d \in Device : Ahead(d)

\* So it is at all times.
LEMMA AheadAlways == ListenSpec => []AllAhead
<1>1. ListenInit => AllAhead
  BY DEF ListenInit, AllAhead, Ahead, Behind, Line
<1>2. ListenTypeOK /\ AllAhead /\ [ListenNext]_everything => AllAhead'
  BY UseAhead, HandleAhead, MachineAhead DEF ListenNext, AllAhead
<1> QED
  BY <1>1, <1>2, ListenTypeCorrect, PTL DEF ListenSpec

\* A position that a device reported goes back only by a call that the device
\* gave up on, or with the power.
THEOREM BackOnlyByStraysHolds == ListenSpec => BackOnlyByStrays
<1> DEFINE Back ==
      \A k \in DOMAIN progress \cap DOMAIN progress' :
        \/ progress'[k].pos >= progress[k].pos
        \/ progress'[k].device # progress[k].device
        \/ crashes' # crashes
        \/ \E d \in Device : /\ call[d].stray # None /\ call[d].stray.stage = "run"
                             /\ call'[d].stray # call[d].stray
<1>1. ListenTypeOK /\ AllAhead /\ [ListenNext]_everything => [Back]_progress
  <2> SUFFICES ASSUME ListenTypeOK, AllAhead, [ListenNext]_everything, progress' # progress
               PROVE  Back
    OBVIOUS
  <2>1. CASE LosePower
    BY <2>1 DEF LosePower, PowerLoss, ListenTypeOK, TypeOK
  <2>2. ASSUME NEW d \in Device, NEW l \in Line, Handle(d, l) PROVE Back
    <3> DEFINE c == call[d][l]
    <3>1. Writes(d, l)
      BY <2>2, HandleTables
    <3>2. CASE l = "stray"
      BY <2>2, <3>1, <3>2, HandleHolds DEF Writes
    <3>3. CASE l = "live"
      <4>1. c # None /\ c.op = "update" /\ c.stage = "run"
        BY <2>2, <3>1, HandleHolds DEF Writes
      <4>2. Behind(progress, d, c.pos)
        BY <3>3, <4>1 DEF AllAhead, Ahead
      <4>3. /\ progress' = Upserted(KeyOf(d, c.claims), RowOf(d, c))
            /\ RowOf(d, c).pos = c.pos /\ RowOf(d, c).device = d
        BY <3>1 DEF Writes, RowOf
      <4>4. \A k \in DOMAIN progress :
              \/ progress'[k] = progress[k]
              \/ progress'[k].pos = c.pos /\ progress'[k].device = d
        BY <4>3 DEF Upserted
      <4>5. c.pos \in Nat /\ \A k \in DOMAIN progress : progress[k].pos \in Nat
        BY <4>1, PositionTypes
      <4> QED
        BY <4>2, <4>4, <4>5 DEF Behind
    <3> QED
      BY <3>2, <3>3 DEF Line
  <2>3. CASE Account \/ Checkpoint \/ UNCHANGED everything \/ \E s \in Server : Break(s)
    BY <2>3 DEF Account, Beside, Checkpoint, Break, listening, everything
  <2>4. ASSUME NEW d \in Device, Use(d) PROVE Back
    BY <2>4, UseHolds
  <2> QED
    BY <2>1, <2>2, <2>3, <2>4 DEF ListenNext
<1> QED
  BY <1>1, AheadAlways, ListenTypeCorrect, PTL DEF ListenSpec, BackOnlyByStrays

-----------------------------------------------------------------------------
(* Bookmarks *)

\* Rows hold no other row of r's commit.
Only(rows, r) == \A k \in DOMAIN rows : rows[k].stamp = r.stamp => rows[k] = r

\* What a device has been told, or is about to be told, is a row of its own,
\* the one of its commit.
Single ==
  \A d \in Device, r \in Row : Holds(d, r) =>
    r.device = d /\ Only(progress, r) /\ Only(synced.progress, r)

\* What device d is about to be told is a row, later than what it was told.
Later(d) ==
  LET c == call[d].live
  IN c # None /\ c.op = "update" /\ c.stage = "done" =>
       c.row \in Row /\ (acked[d] # None => c.row.stamp > acked[d].stamp)

Telling == Single /\ \A d \in Device : Later(d)

\* A device is told of the row that waits for it, or of nothing new.
LEMMA UseTells ==
  ASSUME ListenTypeOK, NEW d \in Device, Use(d)
  PROVE  /\ \/ acked' = acked
            \/ LET c == call[d].live
               IN /\ c # None /\ c.op = "update" /\ c.stage = "done"
                  /\ acked' = [acked EXCEPT ![d] = c.row]
                  /\ call'[d].live = None
                  /\ UNCHANGED here
         /\ UNCHANGED here \/ B!Play(d)
<1>1. CASE Receive(d)
  <2>1. call'[d].live = None
    BY <1>1 DEF Receive, Place, ListenTypeOK, Line
  <2>2. /\ call[d].live # None /\ UNCHANGED here
        /\ acked' = [acked EXCEPT ![d] =
             IF call[d].live.stage = "done" /\ call[d].live.op = "update"
             THEN call[d].live.row ELSE @]
    BY <1>1 DEF Receive
  <2>3. CASE call[d].live.stage = "done" /\ call[d].live.op = "update"
    BY <2>1, <2>2, <2>3
  <2>4. CASE ~(call[d].live.stage = "done" /\ call[d].live.op = "update")
    BY <2>2, <2>4 DEF ListenTypeOK
  <2> QED
    BY <2>2, <2>3, <2>4
<1>2. CASE Play(d)
  BY <1>2 DEF Play, B!Play
<1>3. CASE ~Receive(d) /\ ~Play(d)
  BY <1>3 DEF Use, Adopt, SendUpdate, SendGet, Ask, GiveUp, Vanish, device
<1> QED
  BY <1>1, <1>2, <1>3

LEMMA UseTelling ==
  ASSUME ListenTypeOK, Telling, NEW d \in Device, Use(d)
  PROVE  Telling'
<1>1. Single'
  BY UseHolds DEF Telling, Single, Only
<1>2. ASSUME NEW e \in Device PROVE Later(e)'
  <2>1. call'[e].live # None /\ call'[e].live.stage = "done" =>
          call'[e].live = call[e].live
    BY UseHolds DEF Fresh, Line
  <2>2. acked'[e] = acked[e] \/ call'[e].live = None
    BY UseTells DEF ListenTypeOK
  <2> QED
    BY <2>1, <2>2 DEF Telling, Later
<1> QED
  BY <1>1, <1>2 DEF Telling

\* What is held was committed before.
LEMMA HeldBefore ==
  ASSUME ListenTypeOK, Stamped, Kept, NEW d \in Device, NEW r \in Row, Holds(d, r)
  PROVE  r.stamp \in Nat /\ r.stamp <= commits
<1>1. UpTo(progress, <<r.user_id, ItemOf[d]>>, r.stamp)
  BY DEF Kept
<1> QED
  BY <1>1 DEF UpTo, Stamped, ListenTypeOK, Table, Row

LEMMA HandleTelling ==
  ASSUME ListenTypeOK, Stamped, Kept, Telling,
         NEW d \in Device, NEW l \in Line, Handle(d, l)
  PROVE  Telling'
<1> DEFINE c == call[d][l]
           w == RowOf(d, c)
<1>0. /\ UNCHANGED <<synced, acked>> /\ commits \in Nat /\ "live" \in Line
      /\ c \in Call /\ w \in Row /\ w.stamp = commits + 1 /\ w.device = d
  BY HandleHolds, RowType DEF ListenTypeOK, RowOf, Line
<1>1. CASE Writes(d, l)
  <2>1. /\ progress' = Upserted(KeyOf(d, c.claims), w)
        /\ call'[d][l] # None => call'[d][l].row = w
    BY <1>1 DEF Writes
  <2>2. \A e \in Device : call'[e].live = call[e].live \/ (e = d /\ l = "live")
    BY <1>0, HandleHolds
  <2>3. \A e \in Device, r \in Row : Holds(e, r)' => Holds(e, r) \/ (e = d /\ r = w)
    BY <1>0, <2>1, <2>2 DEF Holds
  <2>4. ASSUME NEW e \in Device, NEW r \in Row, Holds(e, r)
        PROVE  Only(progress', r)
    <3>1. r.stamp # w.stamp /\ Only(progress, r)
      BY <1>0, <2>4, HeldBefore DEF Telling, Single
    <3> QED
      BY <2>1, <3>1 DEF Only, Upserted
  <2>5. Only(progress', w) /\ Only(synced.progress, w)
    <3>1. /\ \A k \in DOMAIN progress : progress[k].stamp \in Nat /\ progress[k].stamp <= commits
          /\ \A k \in DOMAIN synced.progress :
               /\ synced.progress[k].stamp \in Nat
               /\ synced.progress[k].stamp <= synced.commits
          /\ synced.commits \in Nat /\ synced.commits <= commits
      BY DEF Stamped, ListenTypeOK, Table, Row
    <3> QED
      BY <1>0, <2>1, <3>1 DEF Only, Upserted
  <2>6. Single'
    <3>1. \A r \in Row : Only(synced.progress', r) <=> Only(synced.progress, r)
      BY <1>0
    <3> QED
      BY <1>0, <2>3, <2>4, <2>5, <3>1 DEF Telling, Single, Only
  <2>7. ASSUME NEW e \in Device PROVE Later(e)'
    <3>1. CASE call'[e].live = call[e].live
      BY <1>0, <3>1 DEF Telling, Later
    <3>2. CASE e = d /\ l = "live" /\ call'[e].live # None
      <4>1. call'[e].live.row = w
        BY <2>1, <3>2
      <4>2. acked[d] # None => acked[d] \in Row /\ Holds(d, acked[d])
        BY DEF ListenTypeOK, Holds
      <4>3. acked[d] # None => w.stamp > acked[d].stamp
        BY <1>0, <4>2, HeldBefore
      <4> QED
        BY <1>0, <3>2, <4>1, <4>3 DEF Later
    <3> QED
      BY <2>2, <3>1, <3>2 DEF Later
  <2> QED
    BY <2>6, <2>7 DEF Telling
<1>2. CASE UNCHANGED <<progress, commits>>
           /\ (call'[d][l] # None /\ call'[d][l].op = "update" =>
                 call'[d][l].stage # "done")
  <2>1. \A e \in Device, r \in Row : Holds(e, r)' => Holds(e, r)
    BY <1>0, <1>2, HandleHolds DEF Holds
  <2>2. ASSUME NEW e \in Device PROVE Later(e)'
    BY <1>0, <1>2, HandleHolds DEF Telling, Later
  <2> QED
    BY <1>0, <1>2, <2>1, <2>2 DEF Telling, Single, Only
<1> QED
  BY <1>1, <1>2, HandleTables

LEMMA MachineTelling ==
  ASSUME ListenTypeOK, Stamped, Telling,
         \/ Account \/ Checkpoint \/ LosePower \/ UNCHANGED everything
         \/ \E s \in Server : Break(s)
  PROVE  Telling'
<1>0. "live" \in Line
  BY DEF Line
<1>1. CASE Account \/ UNCHANGED everything
  BY <1>1
     DEF Account, Beside, listening, device, everything, Telling, Single, Only, Later, Holds
<1>2. ASSUME \/ \E s \in Server : Break(s)
             \/ Checkpoint
      PROVE  Telling'
  <2>1. /\ UNCHANGED <<progress, acked>>
        /\ synced'.progress \in {synced.progress, progress}
        /\ \A d \in Device, l \in Line : call'[d][l] # None => call'[d][l] = call[d][l]
    BY <1>2 DEF Break, Die, Checkpoint, device
  <2>2. \A d \in Device, r \in Row : Holds(d, r)' => Holds(d, r)
    BY <1>0, <2>1 DEF Holds
  <2>3. \A d \in Device : Later(d)'
    BY <1>0, <2>1 DEF Telling, Later
  <2>4. Single'
    BY <2>1, <2>2 DEF Telling, Single, Only
  <2> QED
    BY <2>3, <2>4 DEF Telling
<1>3. CASE LosePower
  <2>1. /\ UNCHANGED synced /\ progress' = synced.progress
        /\ \A d \in Device : acked'[d] = None \/ acked'[d] = acked[d]
    BY <1>3 DEF LosePower
  <2>2. ASSUME NEW d \in Device, call'[d].live # None
        PROVE  call'[d].live.stage # "done"
    <3>1. call[d].live # None /\ call[d].live.server = None
          /\ call'[d].live = [call[d].live EXCEPT !.floor = 0]
      BY <1>0, <1>3, <2>2 DEF LosePower
    <3>2. call[d].live \in Call
      BY <1>0, <3>1 DEF ListenTypeOK
    <3>3. call'[d].live.stage = call[d].live.stage
      BY <3>1, <3>2 DEF Call
    <3> QED
      BY <1>0, <3>1, <3>3 DEF Stamped
  <2>3. \A d \in Device, r \in Row : Holds(d, r)' => Holds(d, r)
    BY <2>1, <2>2, DevicesAssumption DEF Holds
  <2>4. Single'
    BY <2>1, <2>3 DEF Telling, Single, Only
  <2> QED
    BY <2>2, <2>4 DEF Telling, Later
<1> QED
  BY <1>1, <1>2, <1>3

LEMMA TellingAlways == ListenSpec => []Telling
<1>1. ListenInit => Telling
  BY DevicesAssumption DEF ListenInit, Telling, Single, Later, Holds, Line
<1>2. ListenTypeOK /\ Stamped /\ Kept /\ Telling /\ [ListenNext]_everything => Telling'
  BY UseTelling, HandleTelling, MachineTelling DEF ListenNext
<1> QED
  BY <1>1, <1>2, ListenTypeCorrect, KeptAlways, PTL DEF ListenSpec

\* An update is a bookmark that is set in one instant.
LEMMA WritesMark ==
  ASSUME ListenTypeOK, Stamped, Kept, AllAhead,
         NEW d \in Device, NEW l \in Line, Handle(d, l), Writes(d, l)
  PROVE  B!Mark(d)
<1> DEFINE c == call[d][l]
           w == RowOf(d, c)
           k == KeyOf(d, c.claims)
<1>1. /\ UNCHANGED <<synced, acked, here>> /\ commits \in Nat
      /\ c \in Call /\ c # None /\ c.op = "update"
  BY HandleHolds
     DEF Writes, ListenTypeOK, Handle, AuthUser, upsert_progress, get_progress, device
<1>2. /\ w.stamp = commits + 1 /\ w.device = d /\ w.pos = c.pos
      /\ k = <<w.user_id, ItemOf[d]>>
  BY DEF RowOf, KeyOf
<1>3. c.pos <= here[d]
  BY <1>1 DEF AllAhead, Ahead, Line
<1>4. \A j \in DOMAIN progress : w.stamp > progress[j].stamp
  BY <1>1, <1>2 DEF Stamped, ListenTypeOK, Table, Row
<1>5. \A e \in Device : acked[e] # None => w.stamp > acked[e].stamp
  <2>1. \A e \in Device : acked[e] # None => acked[e] \in Row /\ Holds(e, acked[e])
    BY DEF ListenTypeOK, Holds
  <2> QED
    BY <1>1, <1>2, <2>1, HeldBefore
<1>6. /\ progress' = [j \in DOMAIN progress \cup {k} |-> IF j = k THEN w ELSE progress[j]]
      /\ k \in DOMAIN progress' /\ progress'[k] = w
  BY DEF Writes, Upserted
<1> HIDE DEF w, k
<1> QED
  BY <1>1, <1>2, <1>3, <1>4, <1>5, <1>6 DEF B!Mark

\* The answer to it confirms the bookmark.
LEMMA ReceiveConfirms ==
  ASSUME ListenTypeOK, Kept, Telling, NEW d \in Device, Use(d), acked' # acked
  PROVE  B!Confirm(d)
<1> DEFINE w == call[d].live.row
<1>1. /\ UNCHANGED <<progress, synced, here>>
      /\ call[d].live # None /\ call[d].live.op = "update" /\ call[d].live.stage = "done"
      /\ acked' = [acked EXCEPT ![d] = w]
  BY UseHolds, UseTells
<1>2. /\ w \in Row /\ Holds(d, w) /\ acked'[d] = w
      /\ acked[d] # None => w.stamp > acked[d].stamp
  BY <1>1 DEF Telling, Later, Holds, ListenTypeOK
<1>3. B!Reflected(progress, d, w)
  <2>1. UpTo(progress, <<w.user_id, ItemOf[d]>>, w.stamp) /\ Only(progress, w)
    BY <1>2 DEF Kept, Telling, Single
  <2>2. w.stamp \in Nat /\ \A k \in DOMAIN progress : progress[k].stamp \in Nat
    BY <1>2 DEF ListenTypeOK, Table, Row
  <2> QED
    BY <2>1, <2>2 DEF UpTo, Only, B!Reflected
<1>4. w # None /\ w.device = d
  BY <1>2, DevicesAssumption DEF Telling, Single
<1> HIDE DEF w
<1> QED
  BY <1>1, <1>2, <1>3, <1>4 DEF B!Confirm

\* A power loss undoes what the synced table does not reflect.
LEMMA PowerLoses ==
  ASSUME ListenTypeOK, Stamped, Kept, Telling, LosePower
  PROVE  B!Lose
<1>1. /\ progress' = synced.progress /\ UNCHANGED <<synced, here>>
      /\ acked' = [d \in Device |->
           IF acked[d] # None /\ acked[d].stamp <= synced.commits THEN acked[d] ELSE None]
  BY DEF LosePower
<1>2. ASSUME NEW d \in Device, acked[d] # None
      PROVE  acked[d].stamp <= synced.commits <=> B!Reflected(synced.progress, d, acked[d])
  <2>1. acked[d] \in Row /\ Holds(d, acked[d])
    BY <1>2 DEF ListenTypeOK, Holds
  <2>2. /\ acked[d].stamp <= synced.commits =>
             UpTo(synced.progress, <<acked[d].user_id, ItemOf[d]>>, acked[d].stamp)
        /\ Only(synced.progress, acked[d])
    BY <2>1 DEF Kept, Telling, Single
  <2>3. /\ acked[d].stamp \in Nat /\ synced.commits \in Nat
        /\ \A k \in DOMAIN synced.progress :
             /\ synced.progress[k].stamp \in Nat
             /\ synced.progress[k].stamp <= synced.commits
    BY <2>1 DEF ListenTypeOK, Table, Row, Stamped
  <2> QED
    BY <2>2, <2>3 DEF UpTo, Only, B!Reflected
<1>3. acked' = [d \in Device |->
        IF acked[d] # None /\ B!Reflected(synced.progress, d, acked[d])
        THEN acked[d] ELSE None]
  BY <1>1, <1>2
<1> QED
  BY <1>1, <1>3 DEF B!Lose

\* Every step is one of the bookmarks' or changes nothing there.
LEMMA BookmarksStep ==
  ListenTypeOK /\ Stamped /\ Kept /\ AllAhead /\ Telling /\ [ListenNext]_everything =>
    [B!Next]_(B!bookmarks)
<1> SUFFICES ASSUME ListenTypeOK, Stamped, Kept, AllAhead, Telling, [ListenNext]_everything
             PROVE  B!Next \/ UNCHANGED B!bookmarks
  OBVIOUS
<1>1. UNCHANGED <<progress, synced, acked, here>> => UNCHANGED B!bookmarks
  BY DEF B!bookmarks
<1>2. ASSUME NEW d \in Device, NEW l \in Line, Handle(d, l)
      PROVE  B!Next \/ UNCHANGED B!bookmarks
  <2>1. UNCHANGED <<synced, acked, here>>
    BY <1>2 DEF Handle, AuthUser, upsert_progress, get_progress, device
  <2> QED
    BY <1>1, <1>2, <2>1, HandleTables, WritesMark DEF B!Next
<1>3. ASSUME NEW d \in Device, Use(d)
      PROVE  B!Next \/ UNCHANGED B!bookmarks
  <2>1. UNCHANGED <<progress, synced>>
    BY <1>3, UseHolds
  <2> QED
    BY <1>1, <1>3, <2>1, UseTells, ReceiveConfirms DEF B!Next
<1>4. CASE LosePower
  BY <1>4, PowerLoses DEF B!Next
<1>5. CASE Checkpoint
  <2>1. synced'.progress = progress /\ UNCHANGED <<progress, acked, here>>
    BY <1>5 DEF Checkpoint, device
  <2> QED
    BY <2>1 DEF B!Sync, B!Next
<1>6. CASE Account \/ UNCHANGED everything \/ \E s \in Server : Break(s)
  BY <1>1, <1>6 DEF Account, Beside, Break, listening, device, everything
<1> QED
  BY <1>2, <1>3, <1>4, <1>5, <1>6 DEF ListenNext

\* Through calls that are given up, repeated, answered late or refused, servers
\* that die and a power loss, positions are bookmarks that are set and confirmed
\* one at a time, and every device is told of its own in order.
THEOREM ListeningImplementsBookmarks == ListenSpec => BookmarksSpec
<1>1. ListenInit => B!Init
  BY DEF ListenInit, B!Init
<1> QED
  BY <1>1, BookmarksStep, AheadAlways, TellingAlways, KeptAlways, ListenTypeCorrect, PTL
     DEF ListenSpec, BookmarksSpec, B!Spec
=============================================================================
