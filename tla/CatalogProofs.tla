--------------------------- MODULE CatalogProofs ---------------------------
(***************************************************************************)
(* Proofs about Catalog, for any number of files, names, users and         *)
(* concurrent requests, any change lists, and with or without faults.      *)
(***************************************************************************)
EXTENDS Catalog, TLAPS

-----------------------------------------------------------------------------
(* Helpers *)

\* A change turns into well-formed statements.
LEMMA UpdatesType ==
  ASSUME NEW c \in Change
  PROVE  Updates(c) \in Seq(Update)
<1> DEFINE Set(a, s, t) == [file_ids |-> c.file_ids, author |-> a,
                            clean_series |-> s, title |-> t]
<1>1. \A a, s, t \in Text : Set(a, s, t) \in Update
  BY DEF Change, Update
<1>2. None \in Text /\ c.new_author \in Text /\ c.new_series \in Text
        /\ c.new_filetitle \in Text /\ c.change_type \in ChangeType
  BY DEF Change, Text
<1>3. \A v : \A u \in Update : Given(v, u) \in Seq(Update)
  BY DEF Given
<1>4. \A s, t \in Seq(Update) : s \o t \in Seq(Update)
  OBVIOUS
<1> HIDE DEF Set
<1>5. CASE c.change_type = "rename"
  <2>1. Updates(c) = Given(c.new_filetitle, Set(None, c.new_filetitle, None))
    BY <1>5 DEF Updates, Set
  <2>2. QED BY <1>1, <1>2, <1>3, <2>1
<1>6. CASE c.change_type = "move-title"
  <2>1. Updates(c) = Given(c.new_author, Set(c.new_author, None, None))
    BY <1>6 DEF Updates, Set
  <2>2. QED BY <1>1, <1>2, <1>3, <2>1
<1>7. CASE c.change_type = "merge-title"
  <2>1. Updates(c) = Given(c.new_author, Set(c.new_author, None, None))
                       \o Given(c.new_series, Set(None, c.new_series, None))
    BY <1>7 DEF Updates, Set
  <2>2. QED BY <1>1, <1>2, <1>3, <1>4, <2>1
<1>8. CASE c.change_type = "file-move"
  <2>1. Updates(c) = <<Set(c.new_author, c.new_series, c.new_filetitle)>>
    BY <1>8 DEF Updates, Set
  <2>2. QED BY <1>1, <1>2, <2>1
<1>9. QED BY <1>2, <1>5, <1>6, <1>7, <1>8 DEF ChangeType

\* What a scan finds is a row that the cache table can hold.
LEMMA CleanupType ==
  ASSUME NEW tag \in extract_metadata
  PROVE  meta_cleanup(tag) \in Row
<1>1. tag.author \in Text /\ tag.series \in Text
  BY InputsAssumption DEF extract_metadata, Text
<1>2. \A t \in Text : author_cleanup(t) \in Text /\ series_cleanup(t) \in Text
  BY NamesAssumption DEF Text, author_cleanup, series_cleanup
<1>3. QED BY <1>1, <1>2 DEF meta_cleanup, Row

\* A statement turns a row into a row.
LEMMA AssignType ==
  ASSUME NEW row \in Row, NEW u \in Update
  PROVE  Assign(row, u) \in Row
BY DEF Assign, Row, Update, Text

\* The label of a labelled file is a book.
LEMMA BookOfType ==
  ASSUME TypeOK, NEW p \in Path, Labelled(p)
  PROVE  BookOf(p) \in Book
BY NamesAssumption DEF TypeOK, Labelled, BookOf, Book, Row, Text

\* Leaving a handler puts its locals back to what they were at first.
LEMMA LeaveType ==
  ASSUME TypeOK, NEW w \in Worker, NEW there \in Free, Leave(w, there)
  PROVE  /\ pc' \in [Worker -> Free \cup Busy]
         /\ job' \in [Worker -> {"scan", "list", "organize"}]
         /\ todo' \in [Worker -> SUBSET Path]
         /\ found' \in [Worker -> Item \cup {None}]
         /\ queue' \in [Worker -> Seq(Change)]
         /\ pending' \in [Worker -> Seq(Update)]
         /\ touched' \in [Worker -> SUBSET Path]
         /\ \A v \in Worker : pc'[v] = "save" => found'[v] # None
<1>1. there # "save"
  BY DEF Free
<1>2. <<>> \in Seq(Change) /\ <<>> \in Seq(Update)
  OBVIOUS
<1>3. QED BY <1>1, <1>2 DEF TypeOK, Leave, Goto

-----------------------------------------------------------------------------
(* Type correctness *)

LEMMA TypeInit == Init => TypeOK
<1> SUFFICES ASSUME Init PROVE TypeOK
  OBVIOUS
<1>1. <<>> \in Seq(Change) /\ <<>> \in Seq(Update)
  OBVIOUS
<1>2. DOMAIN progress = {} /\ progress \in [DOMAIN progress -> Position]
  BY DEF Init
<1>3. QED BY <1>1, <1>2 DEF Init, TypeOK, Free, Busy

\* Every step of the system keeps the type of every variable.
LEMMA TypeStep == TypeOK /\ [Next]_vars => TypeOK'
<1> SUFFICES ASSUME TypeOK, [Next]_vars PROVE TypeOK'
  OBVIOUS
<1>1. ASSUME NEW w \in Worker, scan_files_handler(w) PROVE TypeOK'
  BY <1>1 DEF TypeOK, scan_files_handler, Arrive, Goto, BeginWalk, tables, Busy
<1>2. ASSUME NEW w \in Worker, list_scanned_files_handler(w) PROVE TypeOK'
  BY <1>2 DEF TypeOK, list_scanned_files_handler, Arrive, Goto, tables, Busy
<1>3. ASSUME NEW w \in Worker, save_organized_files_handler(w) PROVE TypeOK'
  <2>1. \A changes \in Batch : changes \in Seq(Change)
    BY InputsAssumption
  <2>2. QED BY <1>3, <2>1
       DEF TypeOK, save_organized_files_handler, Arrive, Goto, tables, Busy
<1>4. ASSUME NEW w \in Worker, ExtractMetadata(w) PROVE TypeOK'
  <2>1. PICK p \in todo[w], tag \in extract_metadata :
          /\ todo' = [todo EXCEPT ![w] = @ \ {p}]
          /\ found' = [found EXCEPT ![w] = [path |-> p, row |-> meta_cleanup(tag)]]
    BY <1>4 DEF ExtractMetadata
  <2> DEFINE item == [path |-> p, row |-> meta_cleanup(tag)]
  <2>2. item \in Item /\ item # None
    BY <2>1, CleanupType, NamesAssumption DEF TypeOK, Item
  <2> HIDE DEF item
  <2>3. found' = [found EXCEPT ![w] = item]
    BY <2>1 DEF item
  <2>4. QED BY <1>4, <2>1, <2>2, <2>3 DEF TypeOK, ExtractMetadata, Goto, tables, Busy
<1>5. ASSUME NEW w \in Worker, save_meta(w) PROVE TypeOK'
  <2>1. found[w] \in Item
    BY <1>5 DEF TypeOK, save_meta
  <2> DEFINE p == found[w].path
  <2>2. p \in Path /\ found[w].row \in Row
    BY <2>1 DEF Item
  <2>3. CASE /\ cache' = [cache EXCEPT ![p] = found[w].row]
             /\ touched' = [v \in Worker |-> touched[v] \ {p}]
    BY <1>5, <2>2, <2>3 DEF TypeOK, save_meta, Goto, Busy
  <2>4. CASE UNCHANGED <<cache, touched>>
    BY <1>5, <2>4 DEF TypeOK, save_meta, Goto, Busy
  <2>5. QED BY <1>5, <2>3, <2>4 DEF save_meta
<1>6. ASSUME NEW w \in Worker, FinishScan(w) PROVE TypeOK'
  BY <1>6, LeaveType DEF TypeOK, FinishScan, tables, Free
<1>7. ASSUME NEW w \in Worker, CountCache(w) PROVE TypeOK'
  BY <1>7 DEF TypeOK, CountCache, BeginWalk, Goto, tables, Busy
<1>8. ASSUME NEW w \in Worker, cover_links(w) PROVE TypeOK'
  <2>1. covers' \subseteq books
    BY <1>8 DEF TypeOK, cover_links
  <2>2. CASE Goto(w, "list") /\ UNCHANGED <<locals, touched>>
    BY <1>8, <2>1, <2>2 DEF TypeOK, cover_links, Goto, locals, Busy
  <2>3. CASE Leave(w, "idle")
    BY <1>8, <2>1, <2>3, LeaveType DEF TypeOK, cover_links, Free
  <2>4. QED BY <1>8, <2>2, <2>3 DEF cover_links
<1>9. ASSUME NEW w \in Worker, ReplyGrouped(w) PROVE TypeOK'
  BY <1>9, LeaveType DEF TypeOK, ReplyGrouped, tables, Free
<1>10. ASSUME NEW w \in Worker, NextChange(w) PROVE TypeOK'
  <2>1. Head(queue[w]) \in Change /\ Tail(queue[w]) \in Seq(Change)
    BY <1>10 DEF TypeOK, NextChange
  <2>2. Updates(Head(queue[w])) \in Seq(Update)
    BY <2>1, UpdatesType
  <2>3. QED BY <1>10, <2>1, <2>2 DEF TypeOK, NextChange, tables
<1>11. ASSUME NEW w \in Worker, ExecuteUpdate(w) PROVE TypeOK'
  <2> DEFINE u == Head(pending[w])
             hit == u.file_ids \cap Cached
  <2>1. u \in Update /\ Tail(pending[w]) \in Seq(Update)
    BY <1>11 DEF TypeOK, ExecuteUpdate
  <2>2. \A p \in hit : p \in Path /\ Assign(cache[p], u) \in Row
    BY <2>1, AssignType DEF TypeOK, Cached
  <2> HIDE DEF u, hit
  <2>3. /\ cache' = [p \in Path |-> IF p \in hit THEN Assign(cache[p], u) ELSE cache[p]]
        /\ touched' = [v \in Worker |->
                         IF v = w THEN touched[v] \cup hit ELSE touched[v] \ hit]
    BY <1>11 DEF ExecuteUpdate, u, hit
  <2>4. cache' \in [Path -> Row \cup {None}] /\ touched' \in [Worker -> SUBSET Path]
    BY <2>2, <2>3 DEF TypeOK
  <2>5. QED BY <1>11, <2>1, <2>4 DEF TypeOK, ExecuteUpdate
<1>12. ASSUME NEW w \in Worker, FailUpdate(w) PROVE TypeOK'
  BY <1>12, LeaveType DEF TypeOK, FailUpdate, tables, Free
<1>13. ASSUME NEW w \in Worker, UpsertBooks(w) PROVE TypeOK'
  <2>1. books' \subseteq Book /\ books \subseteq books'
    BY <1>13, BookOfType DEF TypeOK, UpsertBooks
  <2>2. QED BY <1>13, <2>1 DEF TypeOK, UpsertBooks, Goto, locals, Busy
<1>14. ASSUME NEW w \in Worker, UpsertFiles(w) PROVE TypeOK'
  <2>1. files' \subseteq FileRow
    BY <1>14, BookOfType DEF TypeOK, UpsertFiles, FileRow
  <2>2. QED BY <1>14, <2>1, LeaveType DEF TypeOK, UpsertFiles, Free
<1>15. ASSUME NEW w \in Worker, Abandon(w) PROVE TypeOK'
  BY <1>15, LeaveType DEF TypeOK, Abandon, tables, Free
<1>16. ASSUME NEW u \in User, NEW b \in Book, NEW f \in FileRow, NEW pos \in Position,
              update_progress(u, b, f, pos)
       PROVE  TypeOK'
  <2> DEFINE D == DOMAIN progress \cup {<<u, b, f>>}
  <2>1. progress' = [k \in D |-> IF k = <<u, b, f>> THEN pos ELSE progress[k]]
    BY <1>16 DEF update_progress
  <2>2. D \subseteq PointKey
    BY DEF TypeOK, PointKey
  <2>3. DOMAIN progress' = D /\ progress' \in [D -> Position]
    BY <2>1 DEF TypeOK
  <2>4. QED BY <1>16, <2>2, <2>3 DEF TypeOK, update_progress, locals
<1>17. CASE UNCHANGED vars
  BY <1>17 DEF TypeOK, vars, tables, locals
<1>18. QED
  BY <1>1, <1>2, <1>3, <1>4, <1>5, <1>6, <1>7, <1>8, <1>9, <1>10, <1>11, <1>12,
     <1>13, <1>14, <1>15, <1>16, <1>17 DEF Next, Request, Step

\* Every variable keeps its type, whatever the requests and however they
\* overlap.
THEOREM TypeCorrect == Spec => []TypeOK
<1>1. QED BY TypeInit, TypeStep, PTL DEF Spec

-----------------------------------------------------------------------------
(* Nothing is taken away *)

TablesGrow ==
  /\ Cached \subseteq Cached'
  /\ books \subseteq books'
  /\ files \subseteq files'
  /\ DOMAIN progress \subseteq DOMAIN progress'

\* No step loses a cache row, a book, a files row or a resume point.
LEMMA GrowStep == TypeOK /\ [Next]_vars => TablesGrow
<1> SUFFICES ASSUME TypeOK, [Next]_vars PROVE TablesGrow
  OBVIOUS
<1>1. ASSUME UNCHANGED <<cache, books, files, progress>> PROVE TablesGrow
  BY <1>1 DEF TablesGrow, Cached
<1>2. ASSUME NEW w \in Worker, Request(w) PROVE TablesGrow
  BY <1>1, <1>2 DEF Request, scan_files_handler, list_scanned_files_handler,
     save_organized_files_handler, Arrive, tables
<1>3. ASSUME NEW w \in Worker, save_meta(w) PROVE TablesGrow
  <2>1. found[w].row \in Row /\ found[w].row # None
    BY <1>3, NamesAssumption DEF TypeOK, save_meta, Item
  <2> DEFINE p == found[w].path
  <2>2. CASE cache' = [cache EXCEPT ![p] = found[w].row]
    BY <1>3, <2>1, <2>2 DEF TypeOK, TablesGrow, Cached, save_meta
  <2>3. CASE UNCHANGED cache
    BY <1>1, <1>3, <2>3 DEF save_meta
  <2>4. QED BY <1>3, <2>2, <2>3 DEF save_meta
<1>4. ASSUME NEW w \in Worker, ExecuteUpdate(w) PROVE TablesGrow
  <2> DEFINE u == Head(pending[w])
             hit == u.file_ids \cap Cached
  <2>1. u \in Update
    BY <1>4 DEF TypeOK, ExecuteUpdate
  <2>2. \A p \in hit : Assign(cache[p], u) \in Row /\ Assign(cache[p], u) # None
    BY <2>1, AssignType, NamesAssumption DEF TypeOK, Cached
  <2> HIDE DEF u, hit
  <2>3. cache' = [p \in Path |-> IF p \in hit THEN Assign(cache[p], u) ELSE cache[p]]
    BY <1>4 DEF ExecuteUpdate, u, hit
  <2>4. Cached \subseteq Cached'
    BY <2>2, <2>3 DEF Cached
  <2>5. QED BY <1>4, <2>4 DEF TablesGrow, ExecuteUpdate
<1>5. ASSUME NEW w \in Worker, UpsertBooks(w) PROVE TablesGrow
  BY <1>5 DEF TablesGrow, Cached, UpsertBooks
<1>6. ASSUME NEW w \in Worker, UpsertFiles(w) PROVE TablesGrow
  BY <1>6 DEF TablesGrow, Cached, UpsertFiles
<1>7. ASSUME NEW w \in Worker,
             \/ ExtractMetadata(w) \/ FinishScan(w) \/ CountCache(w)
             \/ cover_links(w) \/ ReplyGrouped(w) \/ NextChange(w)
             \/ FailUpdate(w) \/ Abandon(w)
      PROVE  TablesGrow
  BY <1>1, <1>7 DEF ExtractMetadata, FinishScan, CountCache, cover_links,
     ReplyGrouped, NextChange, FailUpdate, Abandon, tables
<1>8. ASSUME NEW u \in User, NEW b \in Book, NEW f \in FileRow, NEW pos \in Position,
             update_progress(u, b, f, pos)
      PROVE  TablesGrow
  <2>1. DOMAIN progress' = DOMAIN progress \cup {<<u, b, f>>}
    BY <1>8 DEF update_progress
  <2>2. QED BY <1>8, <2>1 DEF TablesGrow, Cached, update_progress
<1>9. CASE UNCHANGED vars
  BY <1>1, <1>9 DEF vars, tables
<1>10. QED
  BY <1>2, <1>3, <1>4, <1>5, <1>6, <1>7, <1>8, <1>9 DEF Next, Step

\* Reorganising the library affects no file currently in progress: what a
\* resume point refers to is never taken away.
THEOREM ResumePointsStayHolds == Spec => ResumePointsStay
<1>1. TypeOK /\ [Next]_vars => [/\ books \subseteq books'
                                /\ files \subseteq files'
                                /\ DOMAIN progress \subseteq DOMAIN progress']_vars
  BY GrowStep DEF TablesGrow
<1>2. QED BY <1>1, TypeCorrect, PTL DEF Spec, ResumePointsStay

-----------------------------------------------------------------------------
(* Referential integrity *)

\* Files rows enter only by joining the cache with the books, resume points
\* only under the foreign keys, and GrowStep keeps what both refer to.
THEOREM ReferentialIntegrityHolds == Spec => []ReferentialIntegrity
<1>1. Init => ReferentialIntegrity
  BY DEF Init, ReferentialIntegrity
<1>2. TypeOK /\ ReferentialIntegrity /\ [Next]_vars => ReferentialIntegrity'
  <2> SUFFICES ASSUME TypeOK, ReferentialIntegrity, [Next]_vars
               PROVE  ReferentialIntegrity'
    OBVIOUS
  <2>1. TablesGrow
    BY GrowStep
  <2>2. \A f \in files' \ files : f[1] \in books' /\ f[2] \in Cached'
    <3>1. CASE \E w \in Worker : UpsertFiles(w)
      <4>1. PICK w \in Worker : UpsertFiles(w)
        BY <3>1
      <4>2. \A f \in files' \ files : \E p \in Path :
              f = <<BookOf(p), p>> /\ Labelled(p) /\ BookOf(p) \in books
        BY <4>1 DEF UpsertFiles
      <4>3. \A p \in Path : Labelled(p) => p \in Cached
        BY DEF Labelled, Cached
      <4>4. QED BY <2>1, <4>2, <4>3 DEF TablesGrow
    <3>2. CASE UNCHANGED files
      BY <3>2
    <3>3. (\E w \in Worker : UpsertFiles(w)) \/ UNCHANGED files
      BY DEF Next, Step, Request, Abandon, scan_files_handler,
         list_scanned_files_handler, save_organized_files_handler, Arrive,
         ExtractMetadata, save_meta, FinishScan, CountCache, cover_links,
         ReplyGrouped, NextChange, ExecuteUpdate, FailUpdate, UpsertBooks,
         update_progress, vars, tables
    <3>4. QED BY <3>1, <3>2, <3>3
  <2>3. \A k \in DOMAIN progress' \ DOMAIN progress : k[2] \in books' /\ k[3] \in files'
    <3>1. CASE \E u \in User, b \in Book, f \in FileRow, pos \in Position :
                 update_progress(u, b, f, pos)
      <4>1. PICK u \in User, b \in Book, f \in FileRow, pos \in Position :
              update_progress(u, b, f, pos)
        BY <3>1
      <4>2. DOMAIN progress' = DOMAIN progress \cup {<<u, b, f>>} /\ b \in books /\ f \in files
        BY <4>1 DEF update_progress
      <4>3. QED BY <2>1, <4>2 DEF TablesGrow
    <3>2. CASE UNCHANGED progress
      BY <3>2
    <3>3. \/ \E u \in User, b \in Book, f \in FileRow, pos \in Position :
               update_progress(u, b, f, pos)
          \/ UNCHANGED progress
      BY DEF Next, Step, Request, Abandon, scan_files_handler,
         list_scanned_files_handler, save_organized_files_handler, Arrive,
         ExtractMetadata, save_meta, FinishScan, CountCache, cover_links,
         ReplyGrouped, NextChange, ExecuteUpdate, FailUpdate, UpsertBooks,
         UpsertFiles, vars, tables
    <3>4. QED BY <3>1, <3>2, <3>3
  <2>4. QED BY <2>1, <2>2, <2>3 DEF ReferentialIntegrity, TablesGrow
<1>3. QED BY <1>1, <1>2, TypeCorrect, PTL DEF Spec

-----------------------------------------------------------------------------
(* A save that succeeded *)

\* What makes SavedMeansShelved inductive: between its two upserts a save has
\* already filed the books of the rows it edited.
BooksFiled ==
  \A w \in Worker : pc[w] = "files" =>
    \A p \in touched[w] : Labelled(p) => BookOf(p) \in books

SaveInv == BooksFiled /\ SavedMeansShelved

\* A step that leaves the cache alone, adds to no request's touched rows and
\* puts no request at "files" or "saved" keeps the invariant.
LEMMA SaveFrame ==
  ASSUME SaveInv, TablesGrow, UNCHANGED cache,
         \A v \in Worker : touched'[v] \subseteq touched[v],
         \A v \in Worker : pc'[v] = pc[v] \/ pc'[v] \notin {"files", "saved"}
  PROVE  SaveInv'
BY DEF SaveInv, BooksFiled, SavedMeansShelved, Shelved, Labelled, BookOf, TablesGrow

\* A step that rewrites the rows of hit and takes them from the requests that
\* are at "files" or "saved" keeps the invariant.
LEMMA SaveRewrite ==
  ASSUME TypeOK, SaveInv, TablesGrow, NEW hit \in SUBSET Path,
         \A p \in Path \ hit : cache'[p] = cache[p],
         \A v \in Worker : pc'[v] \in {"files", "saved"} =>
           pc'[v] = pc[v] /\ touched'[v] = touched[v] \ hit
  PROVE  SaveInv'
<1>1. \A v \in Worker : touched[v] \subseteq Path
  BY DEF TypeOK
<1>2. QED BY <1>1 DEF SaveInv, BooksFiled, SavedMeansShelved, Shelved,
                     Labelled, BookOf, TablesGrow

LEMMA SaveStep == TypeOK /\ SaveInv /\ [Next]_vars => SaveInv'
<1> SUFFICES ASSUME TypeOK, SaveInv, [Next]_vars PROVE SaveInv'
  OBVIOUS
<1>1. TablesGrow
  BY GrowStep
<1>2. ASSUME NEW w \in Worker, Request(w) PROVE SaveInv'
  <2>1. UNCHANGED cache /\ touched' = [touched EXCEPT ![w] = {}]
    BY <1>2 DEF Request, scan_files_handler, list_scanned_files_handler,
       save_organized_files_handler, Arrive, tables
  <2>2. \A v \in Worker : pc'[v] = pc[v] \/ pc'[v] \notin {"files", "saved"}
    BY <1>2 DEF TypeOK, Request, scan_files_handler, list_scanned_files_handler,
       save_organized_files_handler, Arrive, Goto
  <2>3. QED BY <1>1, <2>1, <2>2, SaveFrame DEF TypeOK
<1>3. ASSUME NEW w \in Worker, save_meta(w) PROVE SaveInv'
  <2> DEFINE p == found[w].path
  <2>1. p \in Path
    BY <1>3 DEF TypeOK, save_meta, Item
  <2>2. \A v \in Worker : pc'[v] \in {"files", "saved"} => pc'[v] = pc[v]
    BY <1>3 DEF TypeOK, save_meta, Goto
  <2>3. CASE /\ cache' = [cache EXCEPT ![p] = found[w].row]
             /\ touched' = [v \in Worker |-> touched[v] \ {p}]
    BY <1>1, <2>1, <2>2, <2>3, SaveRewrite DEF TypeOK
  <2>4. CASE UNCHANGED <<cache, touched>>
    <3>1. \A v \in Worker : pc'[v] = pc[v] \/ pc'[v] \notin {"files", "saved"}
      BY <2>2
    <3>2. QED BY <1>1, <2>4, <3>1, SaveFrame
  <2>5. QED BY <1>3, <2>3, <2>4 DEF save_meta
<1>4. ASSUME NEW w \in Worker, ExecuteUpdate(w) PROVE SaveInv'
  <2> DEFINE u == Head(pending[w])
             hit == u.file_ids \cap Cached
  <2>1. hit \in SUBSET Path
    BY DEF Cached
  <2>2. cache' = [p \in Path |-> IF p \in hit THEN Assign(cache[p], u) ELSE cache[p]]
    BY <1>4 DEF ExecuteUpdate
  <2>3. touched' = [v \in Worker |->
                      IF v = w THEN touched[v] \cup hit ELSE touched[v] \ hit]
    BY <1>4 DEF ExecuteUpdate
  <2>4. pc' = pc /\ pc[w] = "apply"
    BY <1>4 DEF ExecuteUpdate
  <2> HIDE DEF u, hit
  <2>5. QED BY <1>1, <2>1, <2>2, <2>3, <2>4, SaveRewrite
<1>5. ASSUME NEW w \in Worker, UpsertBooks(w) PROVE SaveInv'
  <2>1. /\ books' = books \cup {BookOf(p) : p \in {q \in Path : Labelled(q)}}
        /\ pc' = [pc EXCEPT ![w] = "files"]
        /\ UNCHANGED <<cache, files, touched>>
    BY <1>5 DEF UpsertBooks, Goto
  <2>2. QED BY <2>1 DEF TypeOK, SaveInv, BooksFiled, SavedMeansShelved, Shelved,
                       Labelled, BookOf
<1>6. ASSUME NEW w \in Worker, UpsertFiles(w) PROVE SaveInv'
  <2>1. /\ pc[w] = "files"
        /\ files' = files \cup
             {<<BookOf(p), p>> : p \in {q \in Path : Labelled(q) /\ BookOf(q) \in books}}
        /\ pc' = [pc EXCEPT ![w] = "saved"]
        /\ UNCHANGED <<cache, books, touched>>
    BY <1>6 DEF UpsertFiles, Leave, Goto
  <2>2. \A p \in touched[w] : Labelled(p) => <<BookOf(p), p>> \in files'
    BY <2>1 DEF TypeOK, SaveInv, BooksFiled
  <2>3. QED BY <2>1, <2>2 DEF TypeOK, SaveInv, BooksFiled, SavedMeansShelved,
                             Shelved, Labelled, BookOf
<1>7. ASSUME NEW w \in Worker,
             \/ ExtractMetadata(w) \/ FinishScan(w) \/ CountCache(w)
             \/ cover_links(w) \/ ReplyGrouped(w) \/ NextChange(w)
             \/ FailUpdate(w) \/ Abandon(w)
      PROVE  SaveInv'
  <2>1. UNCHANGED <<cache, touched>>
    BY <1>7 DEF ExtractMetadata, FinishScan, CountCache, cover_links, Leave,
       ReplyGrouped, NextChange, FailUpdate, Abandon, tables
  <2>2. \A v \in Worker : pc'[v] = pc[v] \/ pc'[v] \notin {"files", "saved"}
    BY <1>7 DEF TypeOK, ExtractMetadata, FinishScan, CountCache, cover_links,
       ReplyGrouped, NextChange, FailUpdate, Abandon, Leave, Goto
  <2>3. QED BY <1>1, <2>1, <2>2, SaveFrame
<1>8. ASSUME NEW u \in User, NEW b \in Book, NEW f \in FileRow, NEW pos \in Position,
             update_progress(u, b, f, pos)
      PROVE  SaveInv'
  BY <1>1, <1>8, SaveFrame DEF update_progress
<1>9. CASE UNCHANGED vars
  BY <1>1, <1>9, SaveFrame DEF vars, tables
<1>10. QED
  BY <1>2, <1>3, <1>4, <1>5, <1>6, <1>7, <1>8, <1>9 DEF Next, Step

\* When every step of a save has succeeded, the files it edited are on the
\* shelf of their book, unless another request rewrote their rows since.
THEOREM SavedMeansShelvedHolds == Spec => []SavedMeansShelved
<1>1. Init => SaveInv
  BY DEF Init, SaveInv, BooksFiled, SavedMeansShelved
<1>2. SaveInv => SavedMeansShelved
  BY DEF SaveInv
<1>3. QED BY <1>1, <1>2, SaveStep, TypeCorrect, PTL DEF Spec

-----------------------------------------------------------------------------
(* The catalogue implements the abstract shelf *)

LEMMA LabelType == TypeOK => CurrentLabel \in [Path -> Book \cup {None}]
BY BookOfType DEF CurrentLabel

\* Every step is a step of the shelf or leaves it as it is.
LEMMA ShelfStep == TypeOK /\ TypeOK' /\ [Next]_vars => [S!Next]_(S!shelfVars)
<1> SUFFICES ASSUME TypeOK, TypeOK', [Next]_vars PROVE [S!Next]_(S!shelfVars)
  OBVIOUS
<1> USE DEF S!Next, S!shelfVars
<1>1. (CurrentLabel \in [Path -> Book \cup {None}])'
  BY LabelType, PTL
<1>2. ASSUME UNCHANGED <<files, progress>> PROVE S!Relabel
  BY <1>1, <1>2 DEF S!Relabel
<1>3. ASSUME UNCHANGED cache PROVE CurrentLabel' = CurrentLabel
  BY <1>3 DEF CurrentLabel, Labelled, BookOf
<1>4. CASE \E w \in Worker : UpsertFiles(w)
  <2>1. PICK w \in Worker : UpsertFiles(w)
    BY <1>4
  <2> DEFINE joined == {q \in Path : Labelled(q) /\ BookOf(q) \in books}
  <2>2. /\ files' = files \cup {<<BookOf(p), p>> : p \in joined}
        /\ UNCHANGED <<cache, progress>>
    BY <2>1 DEF UpsertFiles
  <2>3. \A p \in joined : CurrentLabel[p] = BookOf(p) /\ CurrentLabel[p] # None
    BY BookOfType, NamesAssumption DEF CurrentLabel
  <2>4. {<<BookOf(p), p>> : p \in joined} = {<<CurrentLabel[p], p>> : p \in joined}
    BY <2>3
  <2>5. S!Shelve
    <3>1. joined \in SUBSET {p \in Path : CurrentLabel[p] # None}
      BY <2>3
    <3>2. /\ files' = files \cup {<<CurrentLabel[p], p>> : p \in joined}
          /\ UNCHANGED <<CurrentLabel, DOMAIN progress>>
      BY <1>3, <2>2, <2>4
    <3> HIDE DEF joined
    <3>3. QED BY <3>1, <3>2 DEF S!Shelve
  <2>6. QED BY <2>5
<1>5. CASE \E u \in User, b \in Book, f \in FileRow, pos \in Position :
             update_progress(u, b, f, pos)
  <2>1. PICK u \in User, b \in Book, f \in FileRow, pos \in Position :
          update_progress(u, b, f, pos)
    BY <1>5
  <2>2. DOMAIN progress' = DOMAIN progress \cup {<<u, b, f>>}
    BY <2>1 DEF update_progress
  <2>3. f \in files /\ UNCHANGED <<CurrentLabel, files>>
    BY <1>3, <2>1 DEF TypeOK, update_progress
  <2>4. S!Mark
    BY <2>2, <2>3 DEF S!Mark
  <2>5. QED BY <2>4
<1>6. CASE UNCHANGED <<files, progress>>
  BY <1>2, <1>6
<1>7. \/ \E w \in Worker : UpsertFiles(w)
      \/ \E u \in User, b \in Book, f \in FileRow, pos \in Position :
           update_progress(u, b, f, pos)
      \/ UNCHANGED <<files, progress>>
  BY DEF Next, Step, Request, Abandon, scan_files_handler,
     list_scanned_files_handler, save_organized_files_handler, Arrive,
     ExtractMetadata, save_meta, FinishScan, CountCache, cover_links,
     ReplyGrouped, NextChange, ExecuteUpdate, FailUpdate, UpsertBooks, vars, tables
<1>8. QED BY <1>4, <1>5, <1>6, <1>7

\* Scans and edits only relabel; files are shelved under the label they carry
\* when propagate_changes joins; nothing leaves the shelf.
THEOREM CatalogImplementsShelf == Spec => ShelfSpec
<1>1. Init => S!Init
  BY DEF Init, S!Init, CurrentLabel, Labelled
<1>2. QED BY <1>1, ShelfStep, TypeCorrect, PTL DEF Spec, ShelfSpec, S!Spec

-----------------------------------------------------------------------------
(* One request at a time, without faults *)

Serial == ~Faults /\ \A v, w \in Worker : v = w

\* When no save is between its two statements every book has a file; when one
\* is, the cache has the missing ones, and every row of it has its book.
ShelvedInv ==
  /\ \A b \in books :
       \/ \E p \in Path : <<b, p>> \in files
       \/ \E w \in Worker, p \in Path : pc[w] = "files" /\ Labelled(p) /\ BookOf(p) = b
  /\ \A w \in Worker : pc[w] = "files" => \A p \in Path : Labelled(p) => BookOf(p) \in books
  /\ SavedShelvesAll

\* What requests do before the two statements, and after them, keeps this.
LEMMA ShelvedApart ==
  ASSUME ShelvedInv, UNCHANGED <<books, files>>,
         \A w \in Worker : pc[w] # "files" /\ pc'[w] \notin {"files", "saved"}
  PROVE  ShelvedInv'
BY DEF ShelvedInv, SavedShelvesAll

\* The two statements see one cache: nobody is there to rewrite it in between.
LEMMA ShelvedStep ==
  ASSUME Serial, TypeOK, ShelvedInv, [Next]_vars
  PROVE  ShelvedInv'
<1>1. ASSUME UNCHANGED <<cache, books, files, pc>> PROVE ShelvedInv'
  BY <1>1 DEF ShelvedInv, SavedShelvesAll, Shelved, Labelled, BookOf
<1>2. ASSUME NEW w \in Worker, Request(w) PROVE ShelvedInv'
  <2>1. UNCHANGED <<books, files>> /\ pc[w] # "files"
          /\ pc'[w] \in {"walk", "count", "apply"}
    BY <1>2 DEF TypeOK, Request, scan_files_handler, list_scanned_files_handler,
       save_organized_files_handler, Arrive, Goto, Free, tables
  <2>2. QED BY <2>1, ShelvedApart DEF Serial
<1>3. ASSUME NEW w \in Worker,
             \/ ExtractMetadata(w) \/ save_meta(w) \/ FinishScan(w)
             \/ CountCache(w) \/ cover_links(w) \/ ReplyGrouped(w) \/ FailUpdate(w)
      PROVE  ShelvedInv'
  <2>1. UNCHANGED <<books, files>> /\ pc[w] # "files"
          /\ pc'[w] \in {"walk", "save", "list", "idle", "dropped"}
    BY <1>3 DEF TypeOK, ExtractMetadata, save_meta, FinishScan, CountCache,
       cover_links, ReplyGrouped, FailUpdate, Leave, Goto, tables
  <2>2. QED BY <2>1, ShelvedApart DEF Serial
<1>4. ASSUME NEW w \in Worker, NextChange(w) \/ ExecuteUpdate(w) PROVE ShelvedInv'
  <2>1. UNCHANGED <<books, files, pc>> /\ pc[w] = "apply"
    BY <1>4 DEF NextChange, ExecuteUpdate, tables
  <2>2. QED BY <2>1, ShelvedApart DEF Serial
<1>5. ASSUME NEW w \in Worker, UpsertBooks(w) PROVE ShelvedInv'
  <2>1. /\ books' = books \cup {BookOf(p) : p \in {q \in Path : Labelled(q)}}
        /\ UNCHANGED <<cache, files>>
        /\ pc[w] = "apply" /\ pc'[w] = "files"
    BY <1>5 DEF TypeOK, UpsertBooks, Goto
  <2>2. \A v \in Worker : pc[v] # "files" /\ pc'[v] = "files"
    BY <2>1 DEF Serial
  <2>3. \A p \in Path : Labelled(p)' = Labelled(p) /\ BookOf(p)' = BookOf(p)
    BY <2>1 DEF Labelled, BookOf
  <2>4. \A b \in books : \E p \in Path : <<b, p>> \in files'
    BY <2>1, <2>2 DEF ShelvedInv
  <2>5. \A b \in books' \ books : \E p \in Path : Labelled(p)' /\ BookOf(p)' = b
    BY <2>1, <2>3
  <2>6. \A p \in Path : Labelled(p)' => BookOf(p)' \in books'
    BY <2>1, <2>3
  <2>7. SavedShelvesAll'
    BY <2>2 DEF SavedShelvesAll
  <2>8. \A b \in books' :
          \/ \E p \in Path : <<b, p>> \in files'
          \/ \E v \in Worker, p \in Path : pc'[v] = "files" /\ Labelled(p)' /\ BookOf(p)' = b
    BY <2>1, <2>4, <2>5
  <2>9. QED BY <2>6, <2>7, <2>8 DEF ShelvedInv
<1>6. ASSUME NEW w \in Worker, UpsertFiles(w) PROVE ShelvedInv'
  <2>1. /\ files' = files \cup
             {<<BookOf(p), p>> : p \in {q \in Path : Labelled(q) /\ BookOf(q) \in books}}
        /\ UNCHANGED <<cache, books>>
        /\ pc[w] = "files" /\ pc'[w] = "saved"
    BY <1>6 DEF TypeOK, UpsertFiles, Leave, Goto
  <2>2. \A p \in Path : Labelled(p) => <<BookOf(p), p>> \in files'
    BY <2>1 DEF ShelvedInv
  <2>3. \A p \in Path : Shelved(p)'
    BY <2>1, <2>2 DEF Shelved, Labelled, BookOf
  <2>4. \A b \in books' : \E p \in Path : <<b, p>> \in files'
    BY <2>1, <2>2 DEF ShelvedInv
  <2>5. \A v \in Worker : pc'[v] = "saved"
    BY <2>1 DEF Serial
  <2>6. QED BY <2>3, <2>4, <2>5 DEF ShelvedInv, SavedShelvesAll
<1>7. ASSUME NEW u \in User, NEW b \in Book, NEW f \in FileRow, NEW pos \in Position,
             update_progress(u, b, f, pos)
      PROVE  ShelvedInv'
  BY <1>1, <1>7 DEF update_progress
<1>8. CASE UNCHANGED vars
  BY <1>1, <1>8 DEF vars, tables
<1>9. \A w \in Worker : ~Abandon(w)
  BY DEF Serial, Abandon
<1>10. QED
  BY <1>2, <1>3, <1>4, <1>5, <1>6, <1>7, <1>8, <1>9 DEF Next, Step

LEMMA ShelvedAlways ==
  ASSUME Serial
  PROVE  Spec => []ShelvedInv
<1>1. Init => ShelvedInv
  BY DEF Init, ShelvedInv, SavedShelvesAll
<1>2. TypeOK /\ ShelvedInv /\ [Next]_vars => ShelvedInv'
  BY ShelvedStep
<1>3. QED BY <1>1, <1>2, TypeCorrect, PTL DEF Spec

\* Requests one at a time leave no book without a file.
THEOREM NoBareBookHolds ==
  ASSUME Serial
  PROVE  Spec => []NoBareBook
<1>1. ShelvedInv => NoBareBook
  BY DEF ShelvedInv, NoBareBook
<1>2. QED BY <1>1, ShelvedAlways, PTL

\* A save that nothing interferes with shelves the whole cache.
THEOREM SavedShelvesAllHolds ==
  ASSUME Serial
  PROVE  Spec => []SavedShelvesAll
<1>1. ShelvedInv => SavedShelvesAll
  BY DEF ShelvedInv
<1>2. QED BY <1>1, ShelvedAlways, PTL

\* Books come from rows, rows stay, and the scan of a listing begins with none:
\* it ends before anybody can have made a book.
CoversInv ==
  /\ books # {} => Cached # {}
  /\ \A w \in Worker : job[w] = "list" /\ pc[w] \in {"walk", "save"} => books = {}
  /\ CoversUnreached

LEMMA CoversStep ==
  ASSUME Serial, TypeOK, CoversInv, [Next]_vars
  PROVE  CoversInv'
<1>1. Cached \subseteq Cached'
  BY GrowStep DEF TablesGrow
<1>2. ASSUME UNCHANGED <<books, covers>>,
             \A w \in Worker : job'[w] = "list" /\ pc'[w] \in {"walk", "save"} =>
               job[w] = "list" /\ pc[w] \in {"walk", "save"}
      PROVE  CoversInv'
  BY <1>1, <1>2 DEF CoversInv, CoversUnreached
<1>3. ASSUME NEW w \in Worker, Request(w) PROVE CoversInv'
  <2>1. UNCHANGED <<books, covers>>
          /\ (job'[w] = "list" => pc'[w] = "count")
    BY <1>3 DEF TypeOK, Request, scan_files_handler, list_scanned_files_handler,
       save_organized_files_handler, Arrive, Goto, tables
  <2>2. QED BY <1>2, <2>1 DEF Serial
<1>4. ASSUME NEW w \in Worker, ExtractMetadata(w) \/ save_meta(w) PROVE CoversInv'
  <2>1. UNCHANGED <<books, covers, job>> /\ pc[w] \in {"walk", "save"}
    BY <1>4 DEF ExtractMetadata, save_meta, tables
  <2>2. QED BY <1>2, <2>1 DEF Serial
<1>5. ASSUME NEW w \in Worker, FinishScan(w) \/ ReplyGrouped(w) \/ FailUpdate(w)
      PROVE  CoversInv'
  <2>1. UNCHANGED <<books, covers>> /\ job'[w] = "scan"
    BY <1>5 DEF TypeOK, FinishScan, ReplyGrouped, FailUpdate, Leave, tables
  <2>2. QED BY <1>2, <2>1 DEF Serial
<1>6. ASSUME NEW w \in Worker, CountCache(w) PROVE CoversInv'
  <2>1. UNCHANGED <<books, covers>> /\ (Cached = {} \/ pc'[w] = "list")
    BY <1>6 DEF TypeOK, CountCache, Goto, tables
  <2>2. CASE Cached = {}
    BY <1>1, <2>1, <2>2 DEF CoversInv, CoversUnreached
  <2>3. CASE pc'[w] = "list"
    BY <1>2, <2>1, <2>3 DEF Serial
  <2>4. QED BY <2>1, <2>2, <2>3
<1>7. ASSUME NEW w \in Worker, cover_links(w) PROVE CoversInv'
  <2>1. books = {} /\ covers = {}
    BY <1>7 DEF CoversInv, CoversUnreached, cover_links
  <2>2. UNCHANGED <<books, covers>>
    BY <1>7, <2>1 DEF cover_links
  <2>3. QED BY <2>1, <2>2 DEF CoversInv, CoversUnreached
<1>8. ASSUME NEW w \in Worker, NextChange(w) \/ ExecuteUpdate(w) \/ UpsertFiles(w)
      PROVE  CoversInv'
  <2>1. UNCHANGED <<books, covers>> /\ pc'[w] \notin {"walk", "save"}
    BY <1>8 DEF TypeOK, NextChange, ExecuteUpdate, UpsertFiles, Leave, Goto, tables
  <2>2. QED BY <1>2, <2>1 DEF Serial
<1>9. ASSUME NEW w \in Worker, UpsertBooks(w) PROVE CoversInv'
  <2>1. /\ books' = books \cup {BookOf(p) : p \in {q \in Path : Labelled(q)}}
        /\ UNCHANGED covers /\ pc'[w] = "files"
    BY <1>9 DEF TypeOK, UpsertBooks, Goto
  <2>2. \A p \in Path : Labelled(p) => p \in Cached
    BY DEF Labelled, Cached
  <2>3. books' # {} => Cached' # {}
    BY <1>1, <2>1, <2>2 DEF CoversInv
  <2>4. QED BY <2>1, <2>3 DEF Serial, CoversInv, CoversUnreached
<1>10. ASSUME NEW u \in User, NEW b \in Book, NEW f \in FileRow, NEW pos \in Position,
              update_progress(u, b, f, pos)
       PROVE  CoversInv'
  BY <1>2, <1>10 DEF update_progress, locals
<1>11. CASE UNCHANGED vars
  BY <1>2, <1>11 DEF vars, tables, locals
<1>12. \A w \in Worker : ~Abandon(w)
  BY DEF Serial, Abandon
<1>13. QED
  BY <1>3, <1>4, <1>5, <1>6, <1>7, <1>8, <1>9, <1>10, <1>11, <1>12 DEF Next, Step

\* In a library managed by one client no cover is ever linked.
THEOREM CoversUnreachedHolds ==
  ASSUME Serial
  PROVE  Spec => []CoversUnreached
<1>1. Init => CoversInv
  BY DEF Init, CoversInv, CoversUnreached
<1>2. TypeOK /\ CoversInv /\ [Next]_vars => CoversInv'
  BY CoversStep
<1>3. CoversInv => CoversUnreached
  BY DEF CoversInv
<1>4. QED BY <1>1, <1>2, <1>3, TypeCorrect, PTL DEF Spec
=============================================================================
