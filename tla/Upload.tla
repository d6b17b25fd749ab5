------------------------------- MODULE Upload -------------------------------
(***************************************************************************)
(* POST /upload: a file arrives in chunks, one request each.  A request    *)
(* stores its chunk in the directory "<file name>.parts", counts what is   *)
(* there, and, when it finds all the chunks, assembles them and removes    *)
(* the directory.  Requests share nothing but the file system.             *)
(*                                                                         *)
(* A tokio File takes at most one buffer (2 MiB) per write and returns     *)
(* before the bytes reach the file: a blocking thread lands them later,    *)
(* also when the handler is gone.  upload_handler never flushes.           *)
(***************************************************************************)
EXTENDS Naturals, Sequences, FiniteSets

CONSTANTS
  Request,   \* every request that the clients may send, each at most once
  UploadOf,  \* UploadOf[r]: the upload that r belongs to
  IndexOf,   \* IndexOf[r]: its chunkIndex
  SizeOf,    \* SizeOf[r]: the size of its chunk
  Buffer,    \* what one write takes
  After,     \* After[r]: requests whose replies its client awaits before r
  NameOf,    \* NameOf[u]: the fileName of upload u
  TargetOf,  \* TargetOf[u]: folderPath and fileName, where it is assembled
  TotalOf,   \* TotalOf[u]: its totalChunks
  None,      \* absent, nothing pending
  Empty,     \* a chunk file created or truncated and not written yet
  Hole,      \* a stretch of a file that nobody wrote
  Failed,    \* a write that failed
  Faults     \* whether I/O fails and requests are abandoned

Upload == {UploadOf[r] : r \in Request}
Name == {NameOf[u] : u \in Upload}
Target == {TargetOf[u] : u \in Upload}

\* What a chunk file holds once something was written: whole when it is all of
\* one chunk and nothing else, and not a part of it or a mixture of two.
Block == [upload : Upload, index : Nat, size : Nat \ {0}, whole : BOOLEAN]

\* A block on its way to its place in the assembled file.
Write == [place : Nat \ {0}, block : Block]

Active == {"sent", "save", "count", "open", "read", "put", "rmdir"}

\* "refused" and "panicked": an unwrap failed, before or after the chunk was
\* stored; to the client both are a connection that closes.
Answered == {"partial", "complete", "refused", "panicked", "abandoned"}

ASSUME RequestsAssumption ==
  /\ UploadOf \in [Request -> Upload]
  /\ IndexOf \in [Request -> Nat]
  /\ SizeOf \in [Request -> Nat \ {0}]
  /\ Buffer \in Nat \ {0}
  /\ After \in [Request -> SUBSET Request]
  /\ Faults \in BOOLEAN

ASSUME UploadsAssumption ==
  /\ NameOf \in [Upload -> Name]
  /\ TargetOf \in [Upload -> Target]
  /\ TotalOf \in [Upload -> Nat \ {0}]
  /\ \A r \in Request : IndexOf[r] < TotalOf[UploadOf[r]]

ASSUME ValuesAssumption ==
  /\ {None, Empty, Hole} \cap Block = {}
  /\ {None, Failed} \cap Write = {}
  /\ None # Empty /\ None # Failed
  /\ None \notin Seq(Block \cup {Hole})

VARIABLES
  dirs,     \* the file names whose .parts directory exists
  part,     \* part[n][i]: chunk file i of n: None, Empty or a block
  final,    \* final[t]: the assembled file t, None when there is none
  pc,       \* pc[r]: where request r is
  late,     \* requests whose chunk write has yet to land
  next,     \* next[r]: the chunk that r's assembly reads next
  buf,      \* buf[r]: the chunk that it has read
  pos,      \* pos[r]: how many blocks it has handed to write_all
  out,      \* out[r]: the last of them while it has yet to land, None or Failed
  quiet     \* history: assemblies that nobody has disturbed, see OpenFinal

fileSystem == <<dirs, part, final>>
locals == <<next, buf, pos>>
vars == <<fileSystem, pc, late, locals, out, quiet>>

name(r) == NameOf[UploadOf[r]]
target(r) == TargetOf[UploadOf[r]]
total_chunks(r) == TotalOf[UploadOf[r]]

Index == UNION {0 .. total_chunks(r) - 1 : r \in Request}

Larger(a, b) == IF a < b THEN b ELSE a

\* What r's write puts in an empty file.
BlockOf(r) ==
  [upload |-> UploadOf[r], index |-> IndexOf[r],
   size |-> IF SizeOf[r] < Buffer THEN SizeOf[r] ELSE Buffer,
   whole |-> SizeOf[r] <= Buffer]

\* Chunk file c after the first k bytes of r's chunk are written at its start.
\* A longer file keeps its tail: nothing changes when it was the same chunk,
\* sent twice, and it becomes a mixture when it was another one.
Overlay(c, r, k) ==
  IF k = 0 \/ c = BlockOf(r) THEN c
  ELSE LET old == IF c = Empty THEN 0 ELSE c.size
       IN [upload |-> UploadOf[r], index |-> IndexOf[r], size |-> Larger(k, old),
           whole |-> k = SizeOf[r] /\ old <= k]

\* What a reader has of a file that went from b to c while it read.
Torn(b, c) ==
  IF c # Empty THEN [c EXCEPT !.whole = FALSE]
  ELSE IF b # Empty THEN [b EXCEPT !.whole = FALSE] ELSE Empty

\* Chunk files in the .parts directory of n.
Entries(n) == {i \in Index : part[n][i] # None}

\* The file s after block b is written at its k-th place.
WriteAt(s, k, b) ==
  [j \in 1 .. (IF k > Len(s) THEN k ELSE Len(s)) |->
     IF j = k THEN b ELSE IF j <= Len(s) THEN s[j] ELSE Hole]

Init ==
  /\ dirs = {}
  /\ part = [n \in Name |-> [i \in Index |-> None]]
  /\ final = [t \in Target |-> None]
  /\ pc = [r \in Request |-> "unsent"]
  /\ late = {}
  /\ next = [r \in Request |-> 0]
  /\ buf = [r \in Request |-> Empty]
  /\ pos = [r \in Request |-> 0]
  /\ out = [r \in Request |-> None]
  /\ quiet = {}

Goto(r, there) == pc' = [pc EXCEPT ![r] = there]

\* The handler ends, and its locals with it; a write on its way lands.
Leave(r, there) ==
  /\ Goto(r, there)
  /\ next' = [next EXCEPT ![r] = 0]
  /\ buf' = [buf EXCEPT ![r] = Empty]
  /\ pos' = [pos EXCEPT ![r] = 0]
  /\ UNCHANGED out

\* An unwrap() on an error ends the handler without a reply.
Panic(r, there) ==
  /\ Leave(r, there)
  /\ quiet' = quiet \ {r}
  /\ UNCHANGED <<fileSystem, late>>

-----------------------------------------------------------------------------
(* Storing the chunk *)

\* The client sends r once it has the replies that it waits for.
Send(r) ==
  /\ pc[r] = "unsent"
  /\ \A q \in After[r] : pc[q] \in Answered
  /\ Goto(r, "sent")
  /\ UNCHANGED <<fileSystem, late, locals, out, quiet>>

\* create_dir_all, for the first chunk only.
MakeParts(r) ==
  /\ pc[r] = "sent"
  /\ IndexOf[r] = 0
  /\ dirs' = dirs \cup {name(r)}
  /\ Goto(r, "save")
  /\ UNCHANGED <<part, final, late, locals, out, quiet>>

\* Chunk file i of n is made, truncated or written.  Whoever is reading it has
\* had all of it before, gets what is there now, or bits of both.  An assembly
\* that has yet to read it, or is reading it, is quiet no more.
ChangeChunk(n, i, c) ==
  LET readers == {q \in Request : name(q) = n /\ pc[q] = "put" /\ next[q] = i + 1}
      ahead == {q \in Request : name(q) = n /\ pc[q] \in {"read", "put"} /\ next[q] <= i}
      hit == IF part[n][i] \in {None, c} THEN {} ELSE readers
  IN /\ part' = [part EXCEPT ![n][i] = c]
     /\ \E new \in SUBSET hit : \E torn \in SUBSET hit :
          buf' = [q \in Request |-> IF q \in torn THEN Torn(buf[q], c)
                                   ELSE IF q \in new THEN c ELSE buf[q]]
     /\ quiet' = IF part[n][i] = c THEN quiet ELSE quiet \ (readers \cup ahead)

\* File::create truncates a chunk file that is there already; write() then
\* returns with the bytes still on their way.
SaveChunk(r) ==
  /\ pc[r] = (IF IndexOf[r] = 0 THEN "save" ELSE "sent")
  /\ IF name(r) \in dirs
     THEN /\ ChangeChunk(name(r), IndexOf[r], Empty)
          /\ late' = late \cup {r}
          /\ Goto(r, "count")
          /\ UNCHANGED <<dirs, final, next, pos, out>>
     ELSE Panic(r, "refused")

\* The first k bytes of r's chunk reach its file, where others with the same
\* name and index may have written or may yet write.
LandFirst(r, k) ==
  /\ r \in late
  /\ late' = late \ {r}
  /\ ChangeChunk(name(r), IndexOf[r], Overlay(part[name(r)][IndexOf[r]], r, k))
  /\ UNCHANGED <<dirs, final, pc, next, pos, out>>

Land(r) == LandFirst(r, BlockOf(r).size)

\* They never do, or not all of them: the disk is full, or the process died.
\* Nobody is told.
LoseChunk(r) == Faults /\ \E k \in 0 .. BlockOf(r).size - 1 : LandFirst(r, k)

\* Broken variant: whoever brings the last index assembles.
CountParts_last(r) ==
  /\ pc[r] = "count"
  /\ IF name(r) \in dirs
     THEN /\ Goto(r, IF IndexOf[r] + 1 = total_chunks(r) THEN "open" ELSE "partial")
          /\ UNCHANGED <<fileSystem, late, locals, out, quiet>>
     ELSE Panic(r, "panicked")

\* The loop over read_dir takes an error for the end of the directory.
Counts(n) ==
  LET all == Cardinality(Entries(n)) IN IF Faults THEN 0 .. all ELSE {all}

\* The count of the entries, against this request's totalChunks.
CountParts(r) ==
  /\ pc[r] = "count"
  /\ IF name(r) \in dirs
     THEN /\ \E item_count \in Counts(name(r)) :
               Goto(r, IF item_count = total_chunks(r) THEN "open" ELSE "partial")
          /\ UNCHANGED <<fileSystem, late, locals, out, quiet>>
     ELSE Panic(r, "panicked")

-----------------------------------------------------------------------------
(* Assembling the file *)

\* Another request still writes to the file that r assembles.
Contended(r) ==
  \E q \in Request \ {r} :
    /\ target(q) = target(r)
    /\ pc[q] \in {"read", "put"} \/ out[q] \notin {None, Failed}

\* b is all of chunk i of r's own upload.
Own(r, b, i) == b \in Block /\ b.upload = UploadOf[r] /\ b.index = i /\ b.whole

\* File::create truncates whatever is there.  The assembly starts quiet when
\* every chunk file holds its own upload's chunk and no other request writes to
\* the target.  It stays quiet until a chunk file changes that it has not yet
\* read to the end, or another request opens the same target.
OpenFinal(r) ==
  /\ pc[r] = "open"
  /\ final' = [final EXCEPT ![target(r)] = <<>>]
  /\ quiet' = {q \in quiet : target(q) # target(r)} \cup
       (IF /\ ~Contended(r)
           /\ \A i \in 0 .. total_chunks(r) - 1 : Own(r, part[name(r)][i], i)
        THEN {r} ELSE {})
  /\ Goto(r, "read")
  /\ UNCHANGED <<dirs, part, late, locals, out>>

\* Broken variant: a chunk file that is missing is passed over.
ReadChunk_skip(r) ==
  /\ pc[r] = "read"
  /\ next[r] < total_chunks(r)
  /\ buf' = [buf EXCEPT ![r] = IF part[name(r)][next[r]] = None THEN Empty
                                 ELSE part[name(r)][next[r]]]
  /\ next' = [next EXCEPT ![r] = @ + 1]
  /\ Goto(r, "put")
  /\ UNCHANGED <<fileSystem, late, pos, out, quiet>>

\* Broken variant: nobody looks whether the chunk file opened.
ReadChunk_unchecked(r) ==
  /\ pc[r] = "read"
  /\ next[r] < total_chunks(r)
  /\ buf' = [buf EXCEPT ![r] = part[name(r)][next[r]]]
  /\ next' = [next EXCEPT ![r] = @ + 1]
  /\ Goto(r, "put")
  /\ UNCHANGED <<fileSystem, late, pos, out, quiet>>

\* Opens the next chunk file and begins to read it.
ReadChunk(r) ==
  /\ pc[r] = "read"
  /\ next[r] < total_chunks(r)
  /\ IF part[name(r)][next[r]] # None
     THEN /\ buf' = [buf EXCEPT ![r] = part[name(r)][next[r]]]
          /\ next' = [next EXCEPT ![r] = @ + 1]
          /\ Goto(r, "put")
          /\ UNCHANGED <<fileSystem, late, pos, out, quiet>>
     ELSE Panic(r, "panicked")

\* The chunk is read to its end, then write_all: nothing to do for no bytes;
\* else it waits until the block before has landed, and panics when that failed.
PutChunk(r) ==
  /\ pc[r] = "put"
  /\ \/ /\ buf[r] = Empty
        /\ Goto(r, "read")
        /\ UNCHANGED <<fileSystem, late, locals, out, quiet>>
     \/ /\ buf[r] # Empty /\ out[r] = None
        /\ pos' = [pos EXCEPT ![r] = @ + 1]
        /\ out' = [out EXCEPT ![r] = [place |-> pos[r] + 1, block |-> buf[r]]]
        /\ buf' = [buf EXCEPT ![r] = Empty]
        /\ Goto(r, "read")
        /\ UNCHANGED <<fileSystem, late, next, quiet>>
     \/ /\ buf[r] # Empty /\ out[r] = Failed
        /\ Panic(r, "panicked")

\* A block reaches the target, at the place where r's file handle stands.
LandBlock(r) ==
  /\ out[r] \notin {None, Failed}
  /\ final' = [final EXCEPT ![target(r)] = WriteAt(@, out[r].place, out[r].block)]
  /\ out' = [out EXCEPT ![r] = None]
  /\ UNCHANGED <<dirs, part, pc, late, locals, quiet>>

LoseBlock(r) ==
  /\ Faults
  /\ out[r] \notin {None, Failed}
  /\ out' = [out EXCEPT ![r] = Failed]
  /\ UNCHANGED <<fileSystem, pc, late, locals, quiet>>

\* remove_dir_all unlinks the entries first; writes that are still on their
\* way to them are lost.
ClearParts(r) ==
  /\ pc[r] = "read"
  /\ next[r] = total_chunks(r)
  /\ IF name(r) \in dirs
     THEN /\ part' = [part EXCEPT ![name(r)] = [i \in Index |-> None]]
          /\ late' = {q \in late : name(q) # name(r)}
          /\ Goto(r, "rmdir")
          /\ UNCHANGED <<dirs, final, locals, out, quiet>>
     ELSE Panic(r, "panicked")

\* Then the directory: an error when a chunk has come in meanwhile.  When it
\* is gone, the standard library's version decides whether that is one.
RemoveDir(r) ==
  /\ pc[r] = "rmdir"
  /\ \/ /\ Entries(name(r)) = {}
        /\ dirs' = dirs \ {name(r)}
        /\ Leave(r, "complete")
        /\ UNCHANGED <<part, final, late, quiet>>
     \/ /\ Entries(name(r)) # {} \/ name(r) \notin dirs
        /\ Panic(r, "panicked")

\* The client hangs up or the process dies between two awaits, or an unwrap
\* fails on an I/O error: no such call is without one.
Abandon(r) ==
  /\ Faults
  /\ pc[r] \in Active
  /\ Leave(r, "abandoned")
  /\ quiet' = quiet \ {r}
  /\ UNCHANGED <<fileSystem, late>>

Step(r) ==
  \/ MakeParts(r) \/ SaveChunk(r) \/ CountParts(r) \/ OpenFinal(r)
  \/ ReadChunk(r) \/ PutChunk(r) \/ ClearParts(r) \/ RemoveDir(r)

Background(r) == Land(r) \/ LoseChunk(r) \/ LandBlock(r) \/ LoseBlock(r)

Next == \E r \in Request : Send(r) \/ Step(r) \/ Background(r) \/ Abandon(r)

Spec == Init /\ [][Next]_vars

\* tokio polls every handler that is ready, and its blocking threads finish
\* every write that they took on.
FairSpec ==
  Spec /\ \A r \in Request : WF_vars(Step(r)) /\ WF_vars(Background(r))

-----------------------------------------------------------------------------
(* Properties *)

TypeOK ==
  /\ dirs \subseteq Name
  /\ part \in [Name -> [Index -> Block \cup {None, Empty}]]
  /\ final \in [Target -> Seq(Block \cup {Hole}) \cup {None}]
  /\ pc \in [Request -> Active \cup Answered \cup {"unsent"}]
  /\ late \subseteq Request
  /\ next \in [Request -> Nat]
  /\ buf \in [Request -> Block \cup {Empty}]
  /\ pos \in [Request -> Nat]
  /\ out \in [Request -> Write \cup {None, Failed}]
  /\ quiet \subseteq Request

Settled(r) == pc[r] = "complete" /\ out[r] = None

\* An upload is saved whole when every chunk file held its own whole chunk as
\* its assembly opened the target, and upload_complete was reported: whatever
\* was stored again behind the assembly or over what it had read, whatever
\* other uploads of that name stored in other places, whoever else assembled
\* and cleaned up under that name, and whatever failed.
QuietAssemblyWhole ==
  \A r \in quiet : Settled(r) =>
    /\ Len(final[target(r)]) = total_chunks(r)
    /\ \A k \in 1 .. total_chunks(r) : Own(r, final[target(r)][k], k - 1)

RequestsOf(u) == {r \in Request : UploadOf[r] = u}
Stored(r) == pc[r] \notin {"unsent", "sent", "save", "refused"}

\* When every chunk of a file has been stored, once each and with no fault,
\* some request finds them all and assembles the file: counting after storing
\* cannot make all of them miss the last one, nor can two assemblies stop each
\* other.
UploadCompletes ==
  \A u \in Upload :
    (\A r \in RequestsOf(u) : Stored(r)) ~>
      (\E r \in RequestsOf(u) : pc[r] = "complete")

Assembling == {"open", "read", "put", "rmdir"}

\* One request for each chunk of u, and nothing else goes under its name.
Sole(u) ==
  /\ \A v \in Upload : NameOf[v] = NameOf[u] => v = u
  /\ \A i \in 0 .. TotalOf[u] - 1 : \E r \in RequestsOf(u) : IndexOf[r] = i
  /\ \A q, r \in RequestsOf(u) : IndexOf[q] = IndexOf[r] => q = r

\* What UploadCompletes rests on, as an invariant: once all the chunks of such
\* a file are stored and counted, some request assembles it or has done so.
\* The counts cannot all miss the last chunk, and of two assemblies the one
\* that fails does so only after the other has read everything.
LastCountFinds ==
  ~Faults => \A u \in Upload :
    (Sole(u) /\ \A r \in RequestsOf(u) : Stored(r) /\ pc[r] # "count") =>
      \E r \in RequestsOf(u) : pc[r] \in Assembling \cup {"complete"}

\* "File saved to": when upload_complete is reported and all writes have
\* landed, the target holds every chunk of the upload.
SavedFileIsWhole ==
  \A r \in Request :
    (Settled(r) /\ late = {} /\ \A q \in Request : out[q] = None) =>
      /\ Len(final[target(r)]) = total_chunks(r)
      /\ \A k \in 1 .. total_chunks(r) : Own(r, final[target(r)][k], k - 1)
=============================================================================
