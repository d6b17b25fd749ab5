------------------------------ MODULE Catalog ------------------------------
(***************************************************************************)
(* The library catalogue: the file_scan_cache table that scans fill and    *)
(* users edit, the audiobooks and files tables that edits are propagated   *)
(* to, and the progress table that refers to them.  Request handlers run   *)
(* concurrently; they share nothing but the database (and the audio files  *)
(* on disk), and every SQL statement commits on its own, so an action is   *)
(* one statement (or one stretch of file I/O between two awaits).  The     *)
(* audio files on disk may change between any two steps, so every look at  *)
(* them may find anything.                                                 *)
(*                                                                         *)
(* Row ids stand for the unique keys: a cache row is its file_path (rows   *)
(* are upserted on it and never deleted), a book is its (author, title), a *)
(* files row is the pair of its book and its cache row.                    *)
(***************************************************************************)
EXTENDS Naturals, Sequences, FiniteSets

CONSTANTS
  Path,       \* the audio files WalkDir may find (valid extension)
  Name,       \* author and series strings, in tags and in user edits
  Blank,      \* the empty string
  None,       \* SQL NULL, Rust's None, an absent row
  Clean,      \* Clean[n]: the string n after clean_metadata
  User,       \* accounts that listen
  Position,   \* values of (progress_ms, complete)
  Worker,     \* slots for requests served at the same time
  Tag,        \* what a file's tags may say when it can be read
  Batch,      \* the change lists that the web UI may post
  Faults,     \* whether statements fail and requests are abandoned
  MaxPoints   \* bound: resume points stored

Text == Name \cup {None}
Row == [author : Text, clean_series : Text]
Item == [path : Path, row : Row]
Book == Name \X Name
FileRow == Book \X Path
PointKey == User \X Book \X FileRow

\* A statement "UPDATE file_scan_cache SET ... WHERE id IN (...)"; None is a
\* column that its SET list does not mention.
Update ==
  [file_ids : SUBSET Path, author : Text, clean_series : Text, title : Text]

ChangeType == {"rename", "move-title", "merge-title", "file-move"}

Change ==
  [change_type : ChangeType, file_ids : SUBSET Path,
   new_author : Text, new_series : Text, new_filetitle : Text]

ASSUME NamesAssumption ==
  /\ Blank \in Name
  /\ None \notin Name /\ None \notin Row \cup Item \cup Book
  /\ Clean \in [Name -> Name]

ASSUME InputsAssumption ==
  /\ Tag \subseteq [author : Text, series : Text]
  /\ Batch \subseteq Seq(Change)
  /\ Faults \in BOOLEAN
  /\ MaxPoints \in Nat

VARIABLES
  cache,     \* table file_scan_cache: cache[p] is the row of p, or None
  books,     \* table audiobooks: its (author, title) pairs
  files,     \* table files: its (book, cache row) pairs
  progress,  \* table progress: a function from (user, book, files row)
  covers,    \* books for which a cover link was made
  pc,        \* pc[w]: where request w's handler is
  job,       \* job[w]: which handler request w runs
  todo,      \* todo[w]: files its directory walk has yet to visit
  found,     \* found[w]: the (path, row) about to be saved, or None
  queue,     \* queue[w]: changes its apply_dbchanges has yet to start
  pending,   \* pending[w]: statements left of the change it is applying
  touched    \* history: files whose row request w edited, and nobody since

tables == <<cache, books, files, progress, covers>>
locals == <<job, todo, found, queue, pending>>
vars == <<tables, pc, locals, touched>>

\* "saved": replied "Confirmed entry", every step succeeded.  "dropped":
\* replied "Confirmed entry", but save_organized_books returned an error.
Free == {"idle", "saved", "dropped"}
Busy == {"count", "walk", "save", "list", "apply", "files"}

-----------------------------------------------------------------------------
(* Reading one file's tags: create_metadata, extract_metadata, meta_cleanup *)

\* An author that cleans to nothing keeps its raw form.
author_cleanup(a) ==
  IF a = None THEN None ELSE IF Clean[a] = Blank THEN a ELSE Clean[a]

\* A series that cleans to nothing becomes the empty string, not NULL.
series_cleanup(s) ==
  IF s = None THEN None ELSE Clean[s]

meta_cleanup(tag) ==
  [author |-> author_cleanup(tag.author),
   clean_series |-> series_cleanup(tag.series)]

\* A file that is gone, or fails to open or parse, yields metadata without
\* author and series; no error is reported to scan_files.
extract_metadata == Tag \cup {[author |-> None, series |-> None]}

-----------------------------------------------------------------------------
(* The cache as the SQL statements read it *)

Cached == {p \in Path : cache[p] # None}

Labelled(p) ==
  /\ cache[p] # None
  /\ cache[p].author # None
  /\ cache[p].clean_series # None

\* The (author, title) under which propagate_changes files row p.
BookOf(p) == <<cache[p].author, cache[p].clean_series>>

Shelved(p) == Labelled(p) => <<BookOf(p), p>> \in files

\* The rows that get_grouped_files returns: groups of a single file are
\* left out, and NULL joins with nothing.
GroupedFiles ==
  {p \in Path :
     /\ Labelled(p)
     /\ \E q \in Path \ {p} : Labelled(q) /\ BookOf(q) = BookOf(p)}

-----------------------------------------------------------------------------
Init ==
  /\ cache = [p \in Path |-> None]
  /\ books = {}
  /\ files = {}
  /\ progress = [k \in {} |-> Blank]
  /\ covers = {}
  /\ pc = [w \in Worker |-> "idle"]
  /\ job = [w \in Worker |-> "scan"]
  /\ todo = [w \in Worker |-> {}]
  /\ found = [w \in Worker |-> None]
  /\ queue = [w \in Worker |-> <<>>]
  /\ pending = [w \in Worker |-> <<>>]
  /\ touched = [w \in Worker |-> {}]

Goto(w, there) == pc' = [pc EXCEPT ![w] = there]

\* A request arrives in a free slot.
Arrive(w, handler, there) ==
  /\ pc[w] \in Free
  /\ Goto(w, there)
  /\ job' = [job EXCEPT ![w] = handler]
  /\ touched' = [touched EXCEPT ![w] = {}]
  /\ UNCHANGED <<tables, found, pending>>

\* The handler returns or is dropped, and its locals with it.
Leave(w, there) ==
  /\ Goto(w, there)
  /\ job' = [job EXCEPT ![w] = "scan"]
  /\ todo' = [todo EXCEPT ![w] = {}]
  /\ found' = [found EXCEPT ![w] = None]
  /\ queue' = [queue EXCEPT ![w] = <<>>]
  /\ pending' = [pending EXCEPT ![w] = <<>>]
  /\ UNCHANGED touched

\* WalkDir visits the files that its directory streams hold.
BeginWalk(w) == \E present \in SUBSET Path : todo' = [todo EXCEPT ![w] = present]

-----------------------------------------------------------------------------
(* GET /scan_files and the scan inside GET /list_scanned_files *)

scan_files_handler(w) ==
  /\ Arrive(w, "scan", "walk")
  /\ BeginWalk(w)
  /\ UNCHANGED queue

\* Broken variant: the walk does not advance.
ExtractMetadata_stuck(w) ==
  /\ pc[w] = "walk"
  /\ \E p \in todo[w], tag \in extract_metadata :
       found' = [found EXCEPT ![w] = [path |-> p, row |-> meta_cleanup(tag)]]
  /\ Goto(w, "save")
  /\ UNCHANGED <<tables, job, todo, queue, pending, touched>>

ExtractMetadata(w) ==
  /\ pc[w] = "walk"
  /\ \E p \in todo[w], tag \in extract_metadata :
       /\ todo' = [todo EXCEPT ![w] = @ \ {p}]
       /\ found' = [found EXCEPT ![w] = [path |-> p, row |-> meta_cleanup(tag)]]
  /\ Goto(w, "save")
  /\ UNCHANGED <<tables, job, queue, pending, touched>>

\* INSERT ... ON CONFLICT(file_path) DO UPDATE: whatever the row held, a
\* user's edits included, is overwritten.  On an error the walk goes on.
save_meta(w) ==
  /\ pc[w] = "save"
  /\ LET p == found[w].path
     IN \/ /\ cache' = [cache EXCEPT ![p] = found[w].row]
           /\ touched' = [v \in Worker |-> touched[v] \ {p}]
        \/ /\ Faults
           /\ UNCHANGED <<cache, touched>>
  /\ found' = [found EXCEPT ![w] = None]
  /\ Goto(w, "walk")
  /\ UNCHANGED <<books, files, progress, covers, job, todo, queue, pending>>

FinishScan(w) ==
  /\ pc[w] = "walk"
  /\ todo[w] = {}
  /\ job[w] = "scan"
  /\ Leave(w, "idle")
  /\ UNCHANGED tables

-----------------------------------------------------------------------------
(* GET /list_scanned_files *)

list_scanned_files_handler(w) ==
  /\ Arrive(w, "list", "count")
  /\ UNCHANGED <<todo, queue>>

\* Broken variant: every listing scans first.
CountCache_always(w) ==
  /\ pc[w] = "count"
  /\ Goto(w, "walk")
  /\ BeginWalk(w)
  /\ UNCHANGED <<tables, job, found, queue, pending, touched>>

\* scan_cache_count: only an empty cache triggers the scan.
CountCache(w) ==
  /\ pc[w] = "count"
  /\ \/ Cached = {} /\ Goto(w, "walk") /\ BeginWalk(w)
     \/ Cached # {} /\ Goto(w, "list") /\ UNCHANGED todo
  /\ UNCHANGED <<tables, job, found, queue, pending, touched>>

\* Broken variant: links what the scan found, in the library or not.
cover_links_scanned(w) ==
  /\ pc[w] = "walk"
  /\ todo[w] = {}
  /\ job[w] = "list"
  /\ covers' = covers \cup {BookOf(p) : p \in {q \in Path : Labelled(q)}}
  /\ Goto(w, "list")
  /\ UNCHANGED <<cache, books, files, progress, locals, touched>>

\* Every listed book's folder is taken to hold an image.  A source that has
\* gone ends the loop early and the request with an error.
cover_links(w) ==
  /\ pc[w] = "walk"
  /\ todo[w] = {}
  /\ job[w] = "list"
  /\ \/ /\ covers' = covers \cup books
        /\ Goto(w, "list")
        /\ UNCHANGED <<locals, touched>>
     \/ /\ Faults
        /\ \E linked \in SUBSET books : covers' = covers \cup linked
        /\ Leave(w, "idle")
  /\ UNCHANGED <<cache, books, files, progress>>

\* get_grouped_files: the reply is GroupedFiles, the tables stay as they are.
ReplyGrouped(w) ==
  /\ pc[w] = "list"
  /\ Leave(w, "idle")
  /\ UNCHANGED tables

-----------------------------------------------------------------------------
(* POST /save_organized_files: apply_dbchanges, then propagate_changes *)

save_organized_files_handler(w) ==
  /\ Arrive(w, "organize", "apply")
  /\ \E changes \in Batch : queue' = [queue EXCEPT ![w] = changes]
  /\ UNCHANGED todo

Given(value, update) == IF value = None THEN <<>> ELSE <<update>>

\* The statements that one ChangeDto turns into.
Updates(c) ==
  LET Set(a, s, t) == [file_ids |-> c.file_ids, author |-> a,
                       clean_series |-> s, title |-> t]
      SetAuthor == Given(c.new_author, Set(c.new_author, None, None))
  IN CASE c.change_type = "rename" ->
            Given(c.new_filetitle, Set(None, c.new_filetitle, None))
       [] c.change_type = "move-title" -> SetAuthor
       [] c.change_type = "merge-title" ->
            SetAuthor \o Given(c.new_series, Set(None, c.new_series, None))
       [] c.change_type = "file-move" ->
            <<Set(c.new_author, c.new_series, c.new_filetitle)>>

\* A "file-move" that names nothing new has an empty SET list, which SQLite
\* rejects.
Malformed(u) == u.author = None /\ u.clean_series = None /\ u.title = None

Assign(row, u) ==
  [author |-> IF u.author = None THEN row.author ELSE u.author,
   clean_series |->
     IF u.clean_series = None THEN row.clean_series ELSE u.clean_series]

NextChange(w) ==
  /\ pc[w] = "apply"
  /\ pending[w] = <<>>
  /\ queue[w] # <<>>
  /\ pending' = [pending EXCEPT ![w] = Updates(Head(queue[w]))]
  /\ queue' = [queue EXCEPT ![w] = Tail(@)]
  /\ UNCHANGED <<tables, pc, job, todo, found, touched>>

\* One UPDATE commits, on the rows of file_ids that exist.
ExecuteUpdate(w) ==
  /\ pc[w] = "apply"
  /\ pending[w] # <<>>
  /\ LET u == Head(pending[w])
         hit == u.file_ids \cap Cached
     IN /\ ~Malformed(u)
        /\ cache' = [p \in Path |->
                       IF p \in hit THEN Assign(cache[p], u) ELSE cache[p]]
        /\ touched' = [v \in Worker |->
                         IF v = w THEN touched[v] \cup hit ELSE touched[v] \ hit]
  /\ pending' = [pending EXCEPT ![w] = Tail(@)]
  /\ UNCHANGED <<books, files, progress, covers, pc, job, todo, found, queue>>

\* An UPDATE fails: apply_dbchanges and save_organized_books return the error,
\* the handler drops it and replies as if all had gone well.
FailUpdate(w) ==
  /\ pc[w] = "apply"
  /\ pending[w] # <<>>
  /\ Malformed(Head(pending[w])) \/ Faults
  /\ Leave(w, "dropped")
  /\ UNCHANGED tables

\* Broken variant: only the groups shown to the user become books.
UpsertBooks_grouped(w) ==
  /\ pc[w] = "apply"
  /\ pending[w] = <<>>
  /\ queue[w] = <<>>
  /\ books' = books \cup {BookOf(p) : p \in GroupedFiles}
  /\ Goto(w, "files")
  /\ UNCHANGED <<cache, files, progress, covers, locals, touched>>

\* First statement of propagate_changes.  Every row's resolve_status is 0,
\* the only value that the code writes.
UpsertBooks(w) ==
  /\ pc[w] = "apply"
  /\ pending[w] = <<>>
  /\ queue[w] = <<>>
  /\ books' = books \cup {BookOf(p) : p \in {q \in Path : Labelled(q)}}
  /\ Goto(w, "files")
  /\ UNCHANGED <<cache, files, progress, covers, locals, touched>>

\* Broken variant: rows of files that have moved elsewhere are deleted.
UpsertFiles_replace(w) ==
  /\ pc[w] = "files"
  /\ files' =
       {<<BookOf(p), p>> : p \in {q \in Path : Labelled(q) /\ BookOf(q) \in books}}
  /\ Leave(w, "saved")
  /\ UNCHANGED <<cache, books, progress, covers>>

\* Broken variant: the join compares the author only.
UpsertFiles_author(w) ==
  /\ pc[w] = "files"
  /\ files' = files \cup
       UNION {{<<b, p>> : b \in {c \in books : c[1] = cache[p].author}} :
                p \in {q \in Path : Labelled(q)}}
  /\ Leave(w, "saved")
  /\ UNCHANGED <<cache, books, progress, covers>>

\* Broken variant: only the files of this request's changes are propagated.
UpsertFiles_edited(w) ==
  /\ pc[w] = "files"
  /\ files' = files \cup
       {<<BookOf(p), p>> : p \in {q \in touched[w] : Labelled(q) /\ BookOf(q) \in books}}
  /\ Leave(w, "saved")
  /\ UNCHANGED <<cache, books, progress, covers>>

\* Broken variant: the book is taken from the row and not looked up.
UpsertFiles_unjoined(w) ==
  /\ pc[w] = "files"
  /\ files' = files \cup {<<BookOf(p), p>> : p \in {q \in Path : Labelled(q)}}
  /\ Leave(w, "saved")
  /\ UNCHANGED <<cache, books, progress, covers>>

\* Second statement: it joins the cache with the audiobooks as they are now.
UpsertFiles(w) ==
  /\ pc[w] = "files"
  /\ files' = files \cup
       {<<BookOf(p), p>> : p \in {q \in Path : Labelled(q) /\ BookOf(q) \in books}}
  /\ Leave(w, "saved")
  /\ UNCHANGED <<cache, books, progress, covers>>

-----------------------------------------------------------------------------
(* POST /update_progress, and the end of a request *)

\* Broken variant: a resume point may name a file that is not there.
update_progress_loose(u, b, f, pos) ==
  /\ b \in books
  /\ Cardinality(DOMAIN progress \cup {<<u, b, f>>}) <= MaxPoints
  /\ progress' = [k \in DOMAIN progress \cup {<<u, b, f>>} |->
                    IF k = <<u, b, f>> THEN pos ELSE progress[k]]
  /\ UNCHANGED <<cache, books, files, covers, pc, locals, touched>>

\* One upsert; the foreign keys to audiobooks and files must hold, but nothing
\* relates the two: f may be a file of another book.
update_progress(u, b, f, pos) ==
  /\ b \in books /\ f \in files
  /\ Cardinality(DOMAIN progress \cup {<<u, b, f>>}) <= MaxPoints
  /\ progress' = [k \in DOMAIN progress \cup {<<u, b, f>>} |->
                    IF k = <<u, b, f>> THEN pos ELSE progress[k]]
  /\ UNCHANGED <<cache, books, files, covers, pc, locals, touched>>

\* The handler stops at an await: the client hangs up and hyper drops the
\* future, an unwrap in propagate_changes panics, or the process dies.
Abandon(w) ==
  /\ Faults
  /\ pc[w] \in Busy
  /\ Leave(w, "idle")
  /\ UNCHANGED tables

Step(w) ==
  \/ ExtractMetadata(w) \/ save_meta(w) \/ FinishScan(w)
  \/ CountCache(w) \/ cover_links(w) \/ ReplyGrouped(w)
  \/ NextChange(w) \/ ExecuteUpdate(w) \/ FailUpdate(w)
  \/ UpsertBooks(w) \/ UpsertFiles(w)

Request(w) ==
  \/ scan_files_handler(w)
  \/ list_scanned_files_handler(w)
  \/ save_organized_files_handler(w)

Next ==
  \/ \E w \in Worker : Request(w) \/ Step(w) \/ Abandon(w)
  \/ \E u \in User, b \in Book, f \in FileRow, pos \in Position :
       update_progress(u, b, f, pos)

Spec == Init /\ [][Next]_vars

\* tokio polls every handler that is ready and SQLite's busy timeout bounds
\* every statement, so a handler that is not abandoned keeps stepping.
FairSpec == Spec /\ \A w \in Worker : WF_vars(Step(w))

-----------------------------------------------------------------------------
(* Properties *)

TypeOK ==
  /\ cache \in [Path -> Row \cup {None}]
  /\ books \subseteq Book
  /\ files \subseteq FileRow
  /\ DOMAIN progress \subseteq PointKey
  /\ progress \in [DOMAIN progress -> Position]
  /\ covers \subseteq books
  /\ pc \in [Worker -> Free \cup Busy]
  /\ job \in [Worker -> {"scan", "list", "organize"}]
  /\ todo \in [Worker -> SUBSET Path]
  /\ found \in [Worker -> Item \cup {None}]
  /\ queue \in [Worker -> Seq(Change)]
  /\ pending \in [Worker -> Seq(Update)]
  /\ touched \in [Worker -> SUBSET Path]
  /\ \A w \in Worker : pc[w] = "save" => found[w] # None

\* No row dangles: a files row has its book and its cache row, a resume point
\* has its book and its files row, whichever requests overlapped or failed.
ReferentialIntegrity ==
  /\ \A f \in files : f[1] \in books /\ f[2] \in Cached
  /\ \A k \in DOMAIN progress : k[2] \in books /\ k[3] \in files

\* When save_organized_books has succeeded, every file that the request edited
\* is on the shelf of the book that the cache gives it now, unless another
\* request has rewritten that row since; requests that ran in between, in any
\* order, do not matter.
SavedMeansShelved ==
  \A w \in Worker : pc[w] = "saved" => \A p \in touched[w] : Shelved(p)

\* The question that save_organized_books leaves open, whether propagating
\* affects files currently in progress: no step takes away a book, a files row
\* or a resume point.
ResumePointsStay ==
  [][/\ books \subseteq books'
     /\ files \subseteq files'
     /\ DOMAIN progress \subseteq DOMAIN progress']_vars

\* The catalogue implements the abstract shelf.
CurrentLabel == [p \in Path |-> IF Labelled(p) THEN BookOf(p) ELSE None]

S == INSTANCE Shelf WITH
       Label <- Book,
       label <- CurrentLabel,
       shelf <- files,
       marks <- DOMAIN progress

\* Scans and edits only relabel, propagate_changes only shelves files under
\* the label they carry at that statement, and positions are only added.
ShelfSpec == S!Spec

\* A request that is not abandoned gets its reply.
RequestsFinish ==
  \A w \in Worker : (pc[w] \in Busy) ~> (pc[w] \in Free)

(* One request at a time, no faults *)

\* Between requests every book has a file: UpsertBooks and UpsertFiles see the
\* same cache.  (Overlapping requests may leave a book without files.)
NoBareBook ==
  \A b \in books :
    (\A w \in Worker : pc[w] # "files") => \E p \in Path : <<b, p>> \in files

\* A save leaves the whole cache on the shelf, and not just the edited files.
SavedShelvesAll ==
  \A w \in Worker : pc[w] = "saved" => \A p \in Path : Shelved(p)

\* cover_links runs only after a scan of an empty cache, when there are no
\* books yet: no cover is ever linked.
CoversUnreached == covers = {}

(* What the comments and messages of the code say *)

\* "Confirmed entry" means that the files the request edited are on the shelf
\* of their book.
ConfirmedMeansShelved ==
  \A w \in Worker :
    pc[w] \in {"saved", "dropped"} => \A p \in touched[w] : Shelved(p)

\* Moving a file to another series or author takes it from where it was.
FileInOneBook == \A f, g \in files : f[2] = g[2] => f[1] = g[1]
=============================================================================
