----------------------------- MODULE Listening ------------------------------
(***************************************************************************)
(* Playback positions: POST /update_progress and GET /get_progress,        *)
(* between the accounts that authorise them, the database that may lose    *)
(* commits, and devices that give up on a call, repeat it and log in again *)
(* when their token is refused.                                            *)
(*                                                                         *)
(* The module adds the progress table, the calls and the devices to        *)
(* Accounts; its steps are steps of Accounts or leave all of it alone.     *)
(* Servers stop by dying only: one that is shut down answers its calls     *)
(* first, and then its end is a crash with nothing to lose.                *)
(***************************************************************************)
EXTENDS Accounts

CONSTANTS
  Device,   \* players, each with one user and one item
  OwnerOf,  \* OwnerOf[d]: the name that d logs in with
  Item,     \* pairs of a book and a file
  ItemOf,   \* ItemOf[d]: what d plays
  Shelved,  \* items whose book and file are both in the database
  MaxPlay,  \* bound on how far a device plays
  MaxLate   \* bound on the calls that a device gives up

\* A row of progress.  History: device, which one reported it; stamp, the
\* commits before it; orphan, whether the token was one of "orphans".
Row == [user_id : Nat, pos : Nat, device : Device, stamp : Nat, orphan : BOOLEAN]
Key == Nat \X Item

Line == {"live", "stray"}

\* A call on its way: the one that the device waits for, or a stray one.
\* server and row are filled in when it is authorised and when it is done.
Call == [op : {"update", "get"}, pos : Nat, claims : Claims,
         server : Server \cup {None}, row : Row \cup {None},
         stage : {"sent", "run", "done", "failed", "refused"}, floor : Nat]

ASSUME DevicesAssumption ==
  /\ OwnerOf \in [Device -> Name] /\ ItemOf \in [Device -> Item]
  /\ Shelved \subseteq Item
  /\ None \notin Row \cup Call \cup Claims \cup Server
  /\ MaxPlay \in Nat /\ MaxLate \in Nat

VARIABLES
  progress,  \* table progress: a function from keys to rows
  commits,   \* history: how many commits there were
  synced,    \* what a power loss cannot undo: seq and progress at a commit
  call,      \* call[d][l]: the call on line l of device d, or None
  token,     \* token[d]: the claims of the token that d uses, or None
  here,      \* here[d]: how far d has played
  acked,     \* acked[d]: the row that d's last answered update wrote, or None
  late       \* late[d]: how many calls d has given up

device == <<token, here, acked, late>>
listening == <<progress, commits, synced, call, device>>
everything == <<vars, listening>>

\* Broken variants: the user is left out of the key, or always the first.
KeyOf_shared(d, t) == <<ItemOf[d]>>
KeyOf_first(d, t) == <<1, ItemOf[d]>>

\* Where the update or get of device d with token t looks.
KeyOf(d, t) == <<t.sub, ItemOf[d]>>

ListenInit ==
  /\ Init
  /\ progress = << >>
  /\ commits = 0
  /\ synced = [seq |-> 0, progress |-> progress, commits |-> 0]
  /\ call = [d \in Device |-> [l \in Line |-> None]]
  /\ token = [d \in Device |-> None]
  /\ here = [d \in Device |-> 0]
  /\ acked = [d \in Device |-> None]
  /\ late = [d \in Device |-> 0]

-----------------------------------------------------------------------------
(* Devices *)

\* The device has logged in: it holds a token of its user.
Adopt(d, t) ==
  /\ token[d] = None
  /\ t \in tokens /\ t.username = OwnerOf[d]
  /\ token' = [token EXCEPT ![d] = t]
  /\ UNCHANGED <<vars, progress, commits, synced, call, here, acked, late>>

Play(d) ==
  /\ here[d] < MaxPlay
  /\ here' = [here EXCEPT ![d] = @ + 1]
  /\ UNCHANGED <<vars, progress, commits, synced, call, token, acked, late>>

Place(d, l, c) == call' = [call EXCEPT ![d][l] = c]

\* The commits of d's row that some device has been told of.
Known(d) ==
  {acked[e].stamp : e \in {e \in Device : /\ acked[e] # None
                                          /\ acked[e].user_id = token[d].sub
                                          /\ ItemOf[e] = ItemOf[d]}}

Ask(d, op, pos, floor) ==
  /\ token[d] # None
  /\ call[d].live = None
  /\ Place(d, "live", [op |-> op, pos |-> pos, claims |-> token[d], server |-> None,
                       row |-> None, stage |-> "sent", floor |-> floor])
  /\ UNCHANGED <<vars, progress, commits, synced, device>>

\* A device reports each position until that is confirmed, one at a time.
Confirmed(d) == IF acked[d] = None THEN 0 ELSE acked[d].pos

SendUpdate(d) == here[d] # Confirmed(d) /\ Ask(d, "update", here[d], 0)

\* When it has nothing to report it may ask where its user is.
SendGet(d) ==
  /\ token[d] # None /\ here[d] = Confirmed(d)
  /\ \E floor \in Known(d) \cup {0} :
       /\ \A n \in Known(d) : n <= floor
       /\ Ask(d, "get", 0, floor)

\* A timeout or a broken connection: an update goes on without the device.
GiveUp(d) ==
  /\ call[d].live # None
  /\ call[d].stray = None
  /\ late[d] < MaxLate
  /\ late' = [late EXCEPT ![d] = @ + 1]
  /\ call' = [call EXCEPT ![d] = [live |-> None, stray |->
       IF @.live.op = "update" /\ @.live.stage \in {"sent", "run"} THEN @.live ELSE None]]
  /\ UNCHANGED <<vars, progress, commits, synced, token, here, acked>>

\* A stray call is lost on the way.
Vanish(d) ==
  /\ call[d].stray # None /\ call[d].stray.stage = "sent"
  /\ Place(d, "stray", None)
  /\ UNCHANGED <<vars, progress, commits, synced, device>>

\* The answer.  A token that is refused is thrown away.
Receive(d) ==
  LET c == call[d].live
  IN /\ c # None
     /\ c.stage \in {"done", "failed", "refused"}
     /\ acked' = [acked EXCEPT ![d] =
          IF c.stage = "done" /\ c.op = "update" THEN c.row ELSE @]
     /\ token' = [token EXCEPT ![d] = IF c.stage = "refused" THEN None ELSE @]
     /\ Place(d, "live", None)
     /\ UNCHANGED <<vars, progress, commits, synced, here, late>>

-----------------------------------------------------------------------------
(* Handlers *)

\* Nobody hears the answer to a stray call.
Answer(d, l, stage, row) ==
  Place(d, l, IF l = "stray" THEN None
              ELSE [call[d][l] EXCEPT !.stage = stage, !.row = row])

\* The AuthUser extractor.
AuthUser(d, l, s) ==
  LET c == call[d][l]
  IN /\ c # None /\ c.stage = "sent"
     /\ pc[s] = "listening"
     /\ IF Valid(c.claims)
        THEN Place(d, l, [c EXCEPT !.server = s, !.stage = "run"])
        ELSE Answer(d, l, "refused", None)
     /\ UNCHANGED <<vars, progress, commits, synced, device>>

InHandler(d, l, op) == call[d][l] # None /\ call[d][l].stage = "run" /\ call[d][l].op = op

\* Broken variant: ON CONFLICT DO NOTHING.
Upserted_ignore(k, row) ==
  [j \in DOMAIN progress \cup {k} |-> IF j \in DOMAIN progress THEN progress[j] ELSE row]

\* Broken variant: a conflict sets the position back to the default.
Upserted_reset(k, row) ==
  [j \in DOMAIN progress \cup {k} |-> IF j # k THEN progress[j]
     ELSE IF k \in DOMAIN progress THEN [row EXCEPT !.pos = 0] ELSE row]

Upserted(k, row) ==
  [j \in DOMAIN progress \cup {k} |-> IF j = k THEN row ELSE progress[j]]

\* Broken variant: a plain INSERT, which a row of the key makes fail.
upsert_once(d, l) ==
  LET c == call[d][l]
      row == [user_id |-> c.claims.sub, pos |-> c.pos, device |-> d,
              stamp |-> commits + 1, orphan |-> c.claims \in orphans]
  IN /\ InHandler(d, l, "update")
     /\ IF KeyOf(d, c.claims) \notin DOMAIN progress
        THEN /\ progress' = Upserted(KeyOf(d, c.claims), row)
             /\ commits' = commits + 1
             /\ Answer(d, l, "done", row)
        ELSE Answer(d, l, "failed", None) /\ UNCHANGED <<progress, commits>>
     /\ UNCHANGED <<vars, synced, device>>

\* The statement commits, or a foreign key fails: the user of the token is
\* gone, or the book or the file is not there.  One that waits too long for the
\* lock fails as well; short of that answer it is a call that is given up and
\* lost on its way.
upsert_progress(d, l) ==
  LET c == call[d][l]
      row == [user_id |-> c.claims.sub, pos |-> c.pos, device |-> d,
              stamp |-> commits + 1, orphan |-> c.claims \in orphans]
  IN /\ InHandler(d, l, "update")
     /\ IF ItemOf[d] \in Shelved /\ \E n \in Registered : users[n].id = c.claims.sub
        THEN /\ progress' = Upserted(KeyOf(d, c.claims), row)
             /\ commits' = commits + 1
             /\ Answer(d, l, "done", row)
        ELSE Answer(d, l, "failed", None) /\ UNCHANGED <<progress, commits>>
     /\ UNCHANGED <<vars, synced, device>>

\* get_progress_by_fileid; get_progress_by_bookid is this for each file of the
\* book.  No row is an answer too.
get_progress(d, l) ==
  LET k == KeyOf(d, call[d][l].claims)
  IN /\ InHandler(d, l, "get")
     /\ Answer(d, l, "done", IF k \in DOMAIN progress THEN progress[k] ELSE None)
     /\ UNCHANGED <<vars, progress, commits, synced, device>>

-----------------------------------------------------------------------------
(* The machine *)

\* Calls that servers of S have accepted die with them; their devices see the
\* connection break.
Die(S) ==
  call' = [d \in Device |-> [l \in Line |->
             IF call[d][l] # None /\ call[d][l].server \in S THEN None ELSE call[d][l]]]

\* What the handlers and main of Accounts do besides.
Beside == UNCHANGED listening

\* SQLite checkpoints the WAL: what was committed so far is synced.  After the
\* last power loss it does not matter.
Checkpoint ==
  /\ crashes < MaxCrashes
  /\ synced' = [seq |-> seq, progress |-> progress, commits |-> commits]
  /\ UNCHANGED <<vars, progress, commits, call, device>>

Account ==
  /\ \/ \E s \in Server : init_db_pool(s) \/ StartUp(s)
     \/ \E k \in Slot : Arrive(k) \/ Serve(k)
     \/ Tick
  /\ Beside

Break(s) == Crash(s) /\ Die({s}) /\ UNCHANGED <<progress, commits, synced, device>>

\* Broken variant: the positions survive, the accounts do not.
LosePower_keep ==
  /\ PowerLoss
  /\ seq' = synced.seq
  /\ call' = [d \in Device |-> [l \in Line |-> None]]
  /\ UNCHANGED <<progress, commits, synced, device>>

\* The tables go back to the same commit together, and what was confirmed
\* after it is lost.
LosePower ==
  /\ PowerLoss
  /\ seq' = synced.seq
  /\ progress' = synced.progress
  /\ acked' = [d \in Device |->
       IF acked[d] # None /\ acked[d].stamp <= synced.commits THEN acked[d] ELSE None]
  /\ call' = [d \in Device |-> [l \in Line |->
       IF call[d][l] = None \/ call[d][l].server # None THEN None
       ELSE [call[d][l] EXCEPT !.floor = 0]]]
  /\ UNCHANGED <<commits, synced, token, here, late>>

-----------------------------------------------------------------------------
Use(d) ==
  \/ \E t \in tokens : Adopt(d, t)
  \/ Play(d) \/ SendUpdate(d) \/ SendGet(d) \/ GiveUp(d) \/ Vanish(d) \/ Receive(d)

Handle(d, l) ==
  (\E s \in Server : AuthUser(d, l, s)) \/ upsert_progress(d, l) \/ get_progress(d, l)

ListenNext ==
  \/ Account
  \/ \E s \in Server : Break(s)
  \/ Checkpoint \/ LosePower
  \/ \E d \in Device : Use(d) \/ \E l \in Line : Handle(d, l)

ListenSpec == ListenInit /\ [][ListenNext]_everything

\* main runs on until it serves, handlers until they answer, and a device goes
\* on reporting.  Nobody has to start a server, log in, play or ask.
FairListenSpec ==
  /\ ListenSpec
  /\ \A s \in Server : WF_everything(StartUp(s) /\ Beside)
  /\ \A d \in Device :
       /\ WF_everything(Handle(d, "live"))
       /\ WF_everything(SendUpdate(d))
       /\ WF_everything(Receive(d))

-----------------------------------------------------------------------------
(* Properties *)

Table(rows) == DOMAIN rows \subseteq Key /\ \A k \in DOMAIN rows : rows[k] \in Row

ListenTypeOK ==
  /\ TypeOK
  /\ Table(progress) /\ Table(synced.progress)
  /\ {commits, synced.commits, synced.seq} \subseteq Nat
  /\ call \in [Device -> [Line -> Call \cup {None}]]
  /\ token \in [Device -> Claims \cup {None}]
  /\ here \in [Device -> Nat]
  /\ acked \in [Device -> Row \cup {None}]
  /\ late \in [Device -> Nat]

\* A confirmed position is in the table until a later one takes its place,
\* through crashes, repeated calls and other devices; a power loss may undo it.
ConfirmedStays ==
  \A d \in Device : acked[d] # None =>
    LET k == <<acked[d].user_id, ItemOf[d]>>
    IN k \in DOMAIN progress /\ progress[k].stamp >= acked[d].stamp

\* Whoever goes on listening on another device is told a position that is not
\* older than any that was confirmed before it asked.
SeesConfirmed ==
  \A d \in Device, l \in Line :
    LET c == call[d][l]
    IN c # None /\ c.stage = "done" /\ c.op = "get" /\ c.floor > 0 =>
         c.row # None /\ c.row.stamp >= c.floor

\* The positions under a user's id are that user's own.  Orphan tokens are
\* excepted: the id they name may have been given to somebody else.
OwnPositions ==
  \A k \in DOMAIN progress, n \in Registered :
    users[n].id = k[1] /\ ~progress[k].orphan => OwnerOf[progress[k].device] = n

\* The position that a device has reported goes back only when a call that it
\* gave up on comes through late, or with the power.
BackOnlyByStrays ==
  [][\A k \in DOMAIN progress \cap DOMAIN progress' :
       \/ progress'[k].pos >= progress[k].pos
       \/ progress'[k].device # progress[k].device
       \/ crashes' # crashes
       \/ \E d \in Device : /\ call[d].stray # None /\ call[d].stray.stage = "run"
                            /\ call'[d].stray # call[d].stray]_progress

\* Calls that are given up, repeated or answered late, servers that die and a
\* log that loses its end come to this: bookmarks that change in one instant
\* each, and devices that are told of their own, in order.
B == INSTANCE Bookmarks WITH mark <- progress, kept <- synced.progress, told <- acked
BookmarksSpec == B!Spec

\* A device that can reach a server and holds a token of a user who is there
\* has its newest position confirmed in the end, if its statements do not wait
\* in vain for the lock for ever.
PositionArrives ==
  \A d \in Device :
    LET Ready == /\ \E s \in Server : pc[s] = "listening"
                 /\ token[d] # None /\ token[d].exp + Leeway >= now
                 /\ \E n \in Registered : users[n].id = token[d].sub
                 /\ ItemOf[d] \in Shelved
    IN <>[]Ready => <>[](Confirmed(d) = here[d])
=============================================================================
