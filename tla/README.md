# Verification of else-wer-server

else-wer-server is a Rust server (axum, tokio, sqlx on SQLite) for a library of
audiobooks. It scans a directory of audio files into a table, lets users
reorganise what the scan found, serves the files, takes uploads in chunks and
keeps listening positions. This directory holds TLA+ models of its parts, TLC
configurations that check them, and proofs that TLAPS checks.

Paths below are under `src/src/` of the repository.

## The system

| Component | State it keeps | Operations |
|---|---|---|
| Library catalogue (`file_ops/scan_files.rs`, `db/meta_scan.rs`, `file_ops/org_books.rs`) | tables `file_scan_cache`, `audiobooks`, `files` | `scan_files`, `list_scanned_files`, `save_organized_files`, and the readers `list_books`, `file_metadata` |
| Upload (`api/audiobooks.rs:32-117`) | `.parts` directories, assembled files | `upload`, one request per chunk |
| Listening progress (`api/sync.rs`, `db/sync.rs`) | table `progress` | `update_progress`, `get_file_progress`, `get_book_progress` |
| Cover links (`file_ops/book_cover.rs`) | symlinks under `covers/` | `cover_links`, inside `list_scanned_files` |
| Tag clean-up (`file_ops/meta_cleanup.rs`) | none | `clean_metadata`, `author_cleanup`, `series_cleanup` |
| Accounts (`api/user.rs`, `api/auth_extractor.rs`, `api/middleware.rs`, `services/startup.rs`, `main.rs`) | table `users`, tokens held by clients, how far a server's `main` is | `ensure_admin_user`, `create_user`, `login`, the extractors, start and shutdown |
| Downloads (`api/audiobooks.rs:196-344`) | the audio files, open handles | `download_book`, `download_chunk` |
| Folder-layout scan (`file_ops/file_ops.rs`) | `audiobooks`, `files` | `scan_for_audiobooks`: no caller that runs |

**How they interact.** There is no shared memory: `AppState` is a connection pool
(5 connections) and a constant configuration. Requests run concurrently on
tokio and meet in the database and in the file system. No handler opens a
transaction, so **each SQL statement commits on its own** and a handler is
interleaved with the others at every await. SQLite serialises the statements.
The directory of audio files belongs to its users and may change at any time.

**What is hard.**

* *Interleaving.* `propagate_changes` is two statements; `merge-title` is two;
  a list of changes is one statement after another; a scan is one statement
  per file. A scan overwrites what users edited (`db/meta_scan.rs:35`).
* *Partial failure.* Errors are logged and dropped at several levels
  (`scan_files.rs:183`, `audiobooks.rs:167`), a client that hangs up drops the
  handler at an await, and many I/O errors are `unwrap`ped.
* *Ordering.* tokio's `File::write` returns before the bytes are in the file
  (`audiobooks.rs:74`); the upload handler neither flushes nor looks at the
  number of bytes taken.
* *Crashes.* SQLite runs in WAL mode with `synchronous = NORMAL`
  (`db/mod.rs:17`): a commit survives the process, not always the machine. A
  token, which only its client keeps, survives both.
* *Retries.* A player gives up on a call that is still on its way and sends a
  newer one; rows carry no time of their own, so the last one stored wins.
* *Looking twice.* `download_chunk` asks whether the file is there, opens it,
  measures it and reads it, and the file may change between any two.
* *Machine words.* `file_size - 1`, `end - start + 1` and `as usize` wrap, panic
  or truncate, depending on the build and the target.
* *Shared names.* The `.parts` directory is named by the file name alone.
* *Protocol.* Which requests make a book appear, what a reorganisation does to
  books that somebody is listening to, what a second upload of a name finds.

`PROJECT.json` lists the hazards with their lines and the properties for each.

## Modules

| Module | What it is |
|---|---|
| `Shelf` | Abstract specification of the catalogue: labels, a shelf that only grows, marks on shelved files. |
| `Catalog` | The scan cache, books, files, progress and cover links, with every handler that writes them. |
| `MCCatalog` | Small instances of `Catalog`. |
| `CatalogProofs` | Type correctness, six properties and the refinement of `Shelf`, proved. |
| `Upload` | The chunked upload with the file system and tokio's background writes. |
| `MCUpload` | Small instances of `Upload`. |
| `UploadProofs` | Type correctness, `QuietAssemblyWhole` and `LastCountFinds`, proved. |
| `Directory` | Abstract specification of the accounts: members who are brought in by administrators, and tokens that say what their holder is. |
| `Accounts` | The users table, the servers that share it, their start and stop, requests, tokens, crashes and power losses. |
| `MCAccounts`, `AccountsProofs` | Small instances; its four invariants and the refinement of `Directory`, proved. |
| `Bookmarks` | Abstract specification of the positions: bookmarks set and confirmed in one instant each. |
| `Listening` | `Accounts` with the progress table, calls on their way, and the players that send them. |
| `MCListening`, `ListeningProofs` | Small instances; that `Listening` implements `Accounts` and `Bookmarks`, and five properties, proved. |
| `Fetch` | Abstract specification of a download: a copy that grows while nobody touches the file. |
| `Download` | The two download handlers over audio files that change. |
| `MCDownload`, `DownloadProofs` | Small instances; its five invariants and the refinement of `Fetch`, proved. |

`Listening` composes with `Accounts` by EXTENDS: every step is a step of
`Accounts` with something beside it, or leaves its variables alone. `Catalog`,
`Upload` and `Download` share nothing with them but the extractors, which change
no state.

### Catalog

A request occupies a slot `w \in Worker`; `pc[w]` is where its handler is and
`job[w]` which one it is. An action is one SQL statement, or the file I/O
between two awaits:

| Action | Code |
|---|---|
| `scan_files_handler`, `BeginWalk`, `ExtractMetadata`, `save_meta`, `FinishScan` | `GET /scan_files`: the walk of `scan_files`, per file the tags, their clean-up and one upsert |
| `list_scanned_files_handler`, `CountCache`, the scan's actions, `cover_links`, `ReplyGrouped` | `GET /list_scanned_files`: a scan and the covers only when the cache is empty |
| `save_organized_files_handler`, `NextChange`, `ExecuteUpdate`, `FailUpdate`, `UpsertBooks`, `UpsertFiles` | `POST /save_organized_files`: `apply_dbchanges` statement by statement, then the two statements of `propagate_changes` |
| `update_progress` | `POST /update_progress`: one upsert under its foreign keys |
| `Abandon` | the handler is dropped or panics at an await, or the process dies (the tables are all that survives) |

Rows are identified by their unique keys: a cache row by its path, a book by
(author, title), a files row by (book, cache row). `file_scan_cache` rows are
never deleted, so ids and paths stay paired. Of a row the model keeps `author`
and `clean_series`, the two columns that decide where a file is shelved.
`resolve_status` is always 0: nothing writes another value. The audio files on
disk are an environment that may change between any two steps: a walk may visit
any set of files and a file may or may not be readable when its tags are read.
`touched` is a history variable: the files that a request edited and that no
other statement has rewritten since.

### Upload

A request carries one chunk of an upload. Its handler makes the `.parts`
directory (chunk 0 only), creates the chunk file, writes to it, counts the
directory's entries, and assembles when it finds `totalChunks` of them.
`Land`/`LoseChunk` and `LandBlock`/`LoseBlock` are the blocking threads that
tokio hands writes to; they act after the handler has gone on, or gone.
`write_all` waits for the write before and reports its failure; the single
`write` of the chunk, and the last one of the assembly, report nothing. A chunk
has a size (`SizeOf`, at least 1), and of one that is larger than tokio's 2 MiB
buffer only the first `Buffer` is written; a write that fails may have landed a
beginning of that. A chunk file is known by who wrote to it last, its length and
whether it is `whole`: all of one chunk and nothing else. Two requests that have
both opened one chunk file both write at its start, so the shorter one leaves the
longer one's tail (`Overlay`), and a read during which the file changes has what
was there before, what is there after, or bits of both (`ChangeChunk`, `Torn`).
The loop over `read_dir` takes an error for the end and may count too few
(`Counts`). Any call may fail its `unwrap` (`Abandon`).
`remove_dir_all` is two actions: the entries, then the directory, which fails
when a chunk has come in meanwhile. A panic is a final state of the request
("refused" before its chunk was stored, "panicked" after). `quiet` is a history
variable: assemblies that began with the upload's own whole chunk in every chunk
file and no other request at work on the target, before whose reading no chunk
file changed, and whose target nobody else has opened since. A write that lands
during the reading and changes nothing, as that of the same chunk sent twice,
is no disturbance; one that changes a chunk that is not read to its end is.

### Accounts

A server `s` is a process; `pc[s]` is where its `main` is. A request past its
extractor, or past its SELECT, occupies a slot.

| Action | Code |
|---|---|
| `init_db_pool`, `admin_exists`, `seed_admin`, `bind` | `main` up to the port: the COUNT of `ensure_admin_user`, its INSERT, the listener. An error at any of them is an `unwrap` that ends the process |
| `shutdown_signal`, `Exit` | ctrl-c, and the end of `serve` when the last request has ended |
| `create_user`, `save_pwd_hash` | `POST /create_user`: the `AdminUser` extractor, then, after the hashing, the INSERT |
| `login`, `auth_and_issue_jwt` | `POST /login`: the SELECT, then, after the verification, the token made from the row that was read |
| `Abandon`, `Crash`, `PowerLoss`, `Tick` | hang-ups and errors; the process dies; the machine does, and commits since some checkpoint are undone, the AUTOINCREMENT counter with them |

A user's row is its id and `is_admin`; hashes and salts are left out, since a
wrong password only ends the request. A token is its claims. Two history
variables: `orphans`, the tokens from before the last power loss, which may name
a user who has since been undone, and `by`, who registered whom. Tokens in
`orphans` are excepted from `TokensTellTheTruth` and `Vouched`: after a power
loss an id may be given out again, and nothing in the code could tell. The clock
does not go back, and `JWT_SECRET` is set.

### Listening

A device plays one item of one user, `ItemOf[d]`. A call travels through
`stage`: "sent", "run" once the extractor let it in, then its answer. `live` is
the call that the device waits for, `stray` an update that it gave up on and
that goes on without it. A stray get changes nothing and is dropped at once. A
device never rewinds (`Play` only goes forward), although a real listener may: then
`BackOnlyByStrays` is about a player that does not, where going back is an error
and not a wish. Of the other properties none compares positions but by identity.

| Action | Code |
|---|---|
| `AuthUser` | the extractor: a valid token's call runs, another is refused |
| `upsert_progress` | `POST /update_progress`: one upsert under its foreign keys |
| `get_progress` | `GET /get_file_progress`; `GET /get_book_progress` is this for each file |
| `Adopt`, `Play`, `SendUpdate`, `SendGet`, `GiveUp`, `Receive`, `Vanish` | the environment: a player and its network |
| `Account` | what servers, handlers and the clock do in `Accounts` |
| `Break`, `Checkpoint`, `LosePower` | `Crash` and `PowerLoss` of `Accounts`, with the calls that die and the rows that are undone: both tables go back to one checkpoint |

Rows carry three history fields: the device that reported, the commit's number,
whether the token was an orphan. `upsert_progress` fails on a foreign key only: a
statement that waits in vain for the lock (`busy_timeout`) answers 500 too, which
is to the device what a call is that it gives up and that is lost on its way
(`GiveUp`, `Vanish`), but `PositionArrives` does assume that this does not happen
for ever. Servers stop here only by dying; one that is
shut down first answers its calls. `Catalog` has the same upsert beside the other
tables, where the foreign keys matter and no power is lost.

### Download

A byte is where it stands and which writing put it there, so that a mixture of
two writings shows. A path names an inode and an open handle keeps one:
`Truncate` empties a file under its readers, as `File::create` in the upload
does; `Remove` and `Create` put another in its place.

| Action | Code |
|---|---|
| `Exists`, `Open`, `Measure`, `Read` | `GET /download_chunk`, one action for each look at the file; `Read` is one piece of `read_exact` |
| `IoError` | any other error of the open, the metadata, the seek or the read, or of `exists`: a panic at an `unwrap`, else an error reply |
| `Abort` | the memory for a range or an archive cannot be had: the process ends, with every request in it; replies on their way may be lost; the server is started again |
| `download_book`, `OpenEntry`, `ReadEntry`, `SkipEntry`, `SendBook` | `GET /download_book`: the rows, and for each file its entry and the bytes, read piece by piece; an error of `fs::read`, which `if let Ok` swallows |
| `Begin`, `Continue`, `Receive` | the environment: a device that fetches a file chunk by chunk and begins again after an error |
| `Visit` | the environment: any Range header |
| `Truncate`, `Create`, `Write`, `Remove` | uploads that assemble a file, and the owner of the directory |

Words are `0 .. MaxWord`; `Sub` and `Add` wrap in a release build and give `None`,
a panic, in a debug build. `MaxUsize` is smaller than `MaxWord`, for the 32-bit
target. `Memory` is the largest vector there may be (`isize::MAX`): a longer range
panics in its own request. Up to that the allocation is granted, or it ends the
process, at any moment (`Abort`). Two history variables say what a download has met
since it began: `steady`, the files that nobody wrote to, and `hurt`, the files of
which an I/O error or an abort has cost this client something. `MaxFaults` bounds
how many of those there are.

## Runs

| Run | Instance | What it shows |
|---|---|---|
| `catalog` | 2 requests at a time, 2 files, faults | `TypeOK`; `ReferentialIntegrity`; `SavedMeansShelved`; `ShelfSpec`: every step is a step of `Shelf` |
| `catalog_serial` | 1 request at a time, every kind of change, one listener, no faults, fair | `NoBareBook`, `SavedShelvesAll`, `CoversUnreached` hold when requests do not overlap; `ReferentialIntegrity` with resume points; `ResumePointsStay`; `RequestsFinish` |
| `catalog_confirmed` | as `catalog_serial` | **violated**: "Confirmed entry" after a list of changes that failed half way |
| `catalog_move` | as `catalog_serial` | **violated**: a moved file stays in its old book as well |
| `upload` | a file of 2 chunks, the last one sent twice, and the first chunk of another file of that name, larger than the buffer; one at a time until a client loses patience; faults | `TypeOK`; `QuietAssemblyWhole` |
| `upload_finish` | 1 upload, 3 chunks in parallel, no faults, fair | `LastCountFinds`; `UploadCompletes` |
| `upload_saved` | 1 upload, 3 chunks, each sent after the reply to the one before | **violated**: "File saved to" with a chunk missing, though no write failed |
| `accounts` | 2 servers, 2 requests at a time, 3 names, 2 tokens, 1 crash or power loss | `TypeOK`; `ServedHasAdmin`; `TokensTellTheTruth`; `Vouched`; `DirectorySpec` |
| `listening` | 1 server, 1 device that plays twice and gives up once, 1 crash or power loss, fair | `ListenTypeOK`; `ConfirmedStays`; `BackOnlyByStrays`; `BookmarksSpec`; `PositionArrives`; `LoneStartListens` |
| `listening_two` | 2 devices of one user on one item, a second user, 1 crash or power loss | `SeesConfirmed`; `OwnPositions`; `BookmarksSpec` |
| `download` | 2 devices on one file, 2 inodes, 2 writings, 2 errors or aborts, both builds, fair | `WholeCopy`; `FetchSpec`; `DownloadFinishes` |
| `download_range` | 1 visitor with every header and 1 reader of a book, 3-bit words, 2-bit usize, 2 writings, 2 errors or aborts, both builds | `TypeOK`; `ChunkExact`; `SteadyChunkServed`; `ArchiveFaithful` |

`SavedMeansShelved` is the guarantee that `propagate_changes` gives without a
transaction. It rests on both statements covering every labelled row and on
books never being deleted: a row that nobody rewrote between the two statements
has its book when the second one joins. `SavedShelvesAll`, the same for all
rows, needs requests one at a time. `ResumePointsStay` answers the TODO in
`org_books.rs:15`: propagating takes away nothing that a resume point refers
to, because rows are only upserted; the price is `catalog_move`.
`CoversUnreached` records that, in a library managed by one client,
`cover_links` finds no books: it runs after the scan of an empty cache, and books
come only from a save of cache rows.

`QuietAssemblyWhole` is as much as `upload_handler` guarantees. The count is
taken over file names that may have no bytes yet (`upload_saved`), or the chunks of
another upload, a part of a chunk or a mixture of two; a second assembly truncates
the first. What is left is the assembly that finds its own chunks whole when it
opens the target: that one saves the file or does not reply, whatever is stored
again, in whole or in part, behind it, and whoever clears the directory under it.
Of what a request leaves when it panics or its client hangs up it says nothing:
chunks stay behind then, and the next upload of that name counts them.
`UploadCompletes` says that counting after storing makes somebody assemble, in
every order of three parallel requests, and that a request which loses the race
to remove the directory does not take the winner down with it. `LastCountFinds`
is what that rests on, as an invariant: once all chunks are stored and counted,
somebody is assembling or has done so.

`ServedHasAdmin` is why `ensure_admin_user` may look and then insert without a
transaction: the name is unique, so the server that loses the race fails instead
of adding a second administrator, and nobody deletes users. `LoneStartListens`
says that such a failure is not for ever. `TokensTellTheTruth` is why the
extractors may believe a token without asking the table: the row read before the
password check is never changed. `DirectorySpec` puts this together: the awaits
between looking and writing do not show. A registration, whose token was looked
at before its password was hashed, is the act of somebody who is an administrator
when the row is written; a login that took its time issues what is so when it
answers; members do not change, and a power loss takes away the youngest. After
one, a token of an administrator who is gone is still believed: `Enrol` has that
case, with nobody as the registrar.

`ConfirmedStays` and `SeesConfirmed` hold although nothing orders the updates:
the upsert replaces a row, so a later one takes a confirmed one's place but never
removes it. `BackOnlyByStrays` is the price: a late call does take the position
back, and only that (or a power loss) does. `OwnPositions` says that ids given
out again after a power loss come with an empty set of positions, since both
tables go back to one point of the log; only an update under an orphan token
breaks it, and is excepted by its mark. `BookmarksSpec` says what is left of calls,
servers, time-outs and the log: a position is stored at one instant, later than
every one before it; a device is told only of its own, in the order in which they
were stored, and only of those that are there or have given way; and a power loss
undoes, of what was told, just that which the restored table does not show.

`ChunkExact` holds in every build and on every target as long as the range does
not run backwards and is no longer than a `usize`; ranges that do may wrap to a
short body under a header that announces another. `SteadyChunkServed` shows
that `file_size - 1`, which is computed for every request, harms none on a file
with bytes in it: what comes is right, and what does not come was lost to an I/O
error of this request or to an abort, which another client's range may have
caused; that is the one way in which clients reach each other.
`ArchiveFaithful` says what `download_book` makes of a file that it cannot read: its
entry is there, empty, and the reply is 200, although the comment at
`api/audiobooks.rs:196` speaks of the entire book; what it may not do is to pass a
part of the file for all of it. `FetchSpec` adds to `WholeCopy` that the way there
is straight: on a file with bytes in it that nobody touches, a download goes back only
when an error or an abort hit it, whatever the word sizes. `DownloadFinishes` says
that it ends, whatever was learnt of lengths and editions that have passed, and with
the file itself if its last start came after the last writing; a device that took
its length from an older edition ends with what that length allows.

### Bounds

`Path` has two files: moves, merges, groups of two and groups of one all exist.
`Name` has an author, a series that cleans to nothing and the empty string. The tag
of `catalog` has that series in its series; in the serial runs it is the author as
well (`SerialTag`), so that both clean-ups meet a name that cleans to nothing: one
keeps the raw form, the other the empty string. `Batch` (`MCBatch`, `SerialBatch`) lists the
changes posted: in the concurrent run two saves that meet on one row, one of
which fails after its first change; in the serial runs each kind of change, with
and without what it sets, and the empty list. Two workers give every pairwise
overlap; a slot is used again and again, so sequences of requests are
unbounded. `MaxPoints` caps the stored resume points at one. `catalog` has no
listener (`User = {}`) to stay small; `catalog_serial` has one. `catalog`
uses symmetry over `Worker`; its properties are invariants and a safety
refinement.

In `Upload` each request is sent at most once, which bounds the behaviour
without a constant; a retry is another request with the same index. In `upload`
the second try of the last chunk goes out when the first one is answered or
abandoned, so that the write of the first may come late; the other file, which
begins when this one has come so far, is there to mix its first chunk with this one's, one size against another: it is larger than the
buffer, so that it never is whole. Every fault may come at every step. Three chunks
in `upload_finish` give two requests that race behind the first one.

In `accounts`, two servers race for the administrator and for the port, and
three names give an administrator, one that it makes and one that this one
makes. Two tokens are one of each role, or two of different times: `Day` and
`Leeway` are 0, so a token of time 0 is refused at time 1. One crash or power
loss, between any two steps, is enough to lose any suffix of the commits.
Symmetry is over servers, slots and the names other than the administrator's; the
properties are invariants, an action property and a safety refinement.
In `listening` the device plays twice, so that a stray update may take its
position from 2 back to 1; one server is enough, since the port admits one. In
`listening_two` each device plays once and gives up no call. There is a third name,
so that a power loss may take back the account of the devices' user and the next one
be registered under its id. `LoneAdmin` keeps the registrations to plain users: no
handler of this module looks at a role, and the other run has both. The devices are
alike and the properties are invariants and a safety refinement, so symmetry over
them is sound.
In `download` chunks are of one byte and files of up to two, so a download takes
two requests after the first; two writings are a file and its replacement, under a
second inode or the same one, and two faults hit a device and its next start; the
second device is the one whose range may end the process under the first. In
`download_range` each field of a header has every value of a word, `MaxEntry = 1`
makes the archive fail on a file of two bytes, and there is one inode, so that a file
is truncated, removed and made again, but not replaced while somebody has it open.
The book has one file there; the proof is for every book.

Deadlock is checked in every passing run but those of `Upload` and `download`. It is
off in the upload runs, where every request is answered at last and nothing is left
to do, in `download`, where both devices have their file at last and the writings
and faults are used up, and in `catalog_confirmed` and `catalog_move`, which look for one violation.

### Fairness

`FairSpec` asks for weak fairness of each handler's `Step` (and, in `Upload`, of
the background writes), one condition per request. tokio polls every task that
is ready, SQLite's busy timeout turns a statement that cannot get the lock into
an error, and a blocking thread finishes the write it took. Nothing is assumed
of the clients: requests need not come, and `Send`, `Abandon` and the arrivals
carry no fairness. The fair runs of `Catalog` and `Upload` have no faults, since
an abandoned request has no reply to wait for.

`FairListenSpec` is weakly fair to what follows the opening of the database in
`main`, to the handler of the call that a device waits for (not to stray ones,
which the network may lose), and to a device that reports what is not confirmed
and takes the answer. Nobody has to start a server, log in or play: the
properties have that as a premise (`Ready`, and `pc[s] = "check"`). `Download`'s
`FairSpec` is weakly fair to the handlers of `download_chunk` and to a device that
goes on asking; nobody has to write or to stop writing, so `DownloadFinishes`
has a file that comes to stay, and errors that do not hit this device any more, as
its premise. `listening` has crashes, a power loss and calls that are given up;
`download` has I/O errors and aborts, which lose replies, but no hang-ups besides.

## Proofs

`CatalogProofs` (all constants arbitrary, under `NamesAssumption` and
`InputsAssumption`, which say only what set each constant comes from):

* `TypeCorrect`: `TypeOK` is inductive, with a lemma for each helper
  (`CleanupType`, `UpdatesType`, `AssignType`, `BookOfType`, `LeaveType`).
* `GrowStep`: no step shrinks the cache's set of rows, the books, the files or
  the resume points. `ResumePointsStayHolds` and `ReferentialIntegrityHolds`
  follow from it and from the joins and foreign keys that add rows.
* `SavedMeansShelvedHolds`: the property is not inductive, since it says nothing
  before "saved". `SaveInv` adds `BooksFiled`: between the two statements every
  touched labelled row has its book. Lemmas separate the steps that leave the
  rows alone (`SaveFrame`) from those that rewrite rows and remove them from
  every other `touched` (`SaveRewrite`).
* `NoBareBookHolds`, `SavedShelvesAllHolds`, `CoversUnreachedHolds` assume
  `Serial`: one worker and no faults. `ShelvedInv` says that between the two
  statements of a save every row has its book and every book without a file a row,
  and nobody is there to rewrite the rows; `CoversInv` that books come from rows,
  so that a listing which found no rows links nothing.
* `CatalogImplementsShelf`: each step maps to `Relabel`, `Shelve`, `Mark` or a
  stutter under the mapping at the end of `Catalog`.

`UploadProofs` (under the assumptions of `Upload`): `UploadTypeCorrect` needs
that a request between `OpenFinal` and its last write has a target that exists,
since files are never removed (`Opened`). A write on its way has a chunk file to
land in and that is in its directory (`LateHasFile`, `PartsInDirs`): `ClearParts`
empties `late`. `QuietAssemblyWholeHolds` needs most: `QuietInv` says that a
request which has not opened its target has nothing on its way there (`Fresh`), and,
of each quiet assembly, that nobody else writes to its target (`Alone`), that it has
passed on its own whole chunk for each index that it has read, and that what it has
yet to read is its own or gone (`InStep`), and that the target holds those chunks but
for one still on its way (`Assembled`). Late writes, retries and other uploads change
chunk files through `ChangeChunk` only, which ends the quiet of whoever has not read
them to the end; a chunk file that is gone ends the request. `Bystander` disposes
of the other requests' steps and `OwnStep` of its own. `LastCountFindsHolds` rests on `Gathered`,
for an upload that is alone under its name (`Sole`): a chunk file means that its
request has stored it; nobody assembles before all are stored, since as many
files as chunks are all of them (`CountIsAll`, the one place where cardinalities
matter); a chunk file stays until an assembly has read everything; and what that
one leaves is an empty directory. So a request may fail only when another one
has come that far (`GatheredPanic`).

`AccountsProofs` (under `NamesAssumption` and `TimesAssumption`):
`ServedHasAdminHolds` rests on `Seeded`: ids are at most `seq` and belong to one
name, and once there is a row at all, id 1 is the administrator of start-up; a
server past its check has seen or made a row, and only a power loss, which
takes every server down, takes rows away. For `TokensTellTheTruthHolds`, the row
that a login has read still stands (`ReadStands`, from `RowsStand`: no other step
changes a row), so the token made of it is true (`Truthful`).
`VouchedHolds` adds that a create request in progress rests on a token of an
administrator (`Entitled`), who by `Truthful` is one in the table when the INSERT
comes, with an id that is smaller than the new one. `AccountsImplementDirectory`
takes these invariants and maps `seed_admin` to `Found`, `save_pwd_hash` to `Enrol`
(`Entitled` names the administrator), `auth_and_issue_jwt` to `Grant` (`ReadStands`
makes the token true now) and `PowerLoss` to `Undo`; every other step leaves the
directory alone.

`ListeningProofs` (under `DevicesAssumption` besides) first shows that a step of
`Listening` is one of `Accounts` or a stutter, so that `ListeningImplementsAccounts`
hands on the invariants above. For `ConfirmedStaysHolds`, `Stamped` bounds the
stamps of both copies of the table by their commits, and `Kept` says that every
row a device holds, in an answer on its way or as its acknowledgement, is in the
table or a later one is, and also in the synced copy when it is old enough. For
`SeesConfirmedHolds`, `Floors` says the same of what a get must find. For
`OwnPositionsHolds`, `Adopted` says that tokens of devices and calls are of the
device's owner, and `Own` that ids that have not been given out have no rows, in
the table and in the synced copy (`Owned`), so that a new user's id (`Newcomers`)
has none. For `BackOnlyByStraysHolds`, `Ahead` orders what a device has stored,
what it has on its way and how far it has played. `ListeningImplementsBookmarks`
rests on all of these and on `Telling`: what a device has been told, or is about to
be told, is a row of its own and the only one of its commit (`Single`), and what is
on its way is later than what it knows (`Later`). `upsert_progress` is `Mark`
(`WritesMark`), the answer that reaches the device is `Confirm` (`ReceiveConfirms`),
`Checkpoint` is `Sync` and the power loss `Lose` (`PowerLoses`); of these the last
needs that a stamp up to the synced commit and a row in the synced table come to
the same.

`DownloadProofs` (under `ClientsAssumption` and `WordsAssumption`) settles the
arithmetic in `Numbers`, `WordsClosed`, `UsizeKeeps`, `RangeNumbers` and
`MeasureAnnounces`: what stays within a word, and when nothing wraps. `Sound` is
`TypeOK` with what each `pc` implies of the handle and the reply, and that byte `k`
of an inode was written at offset `k`. `Exact`, for `ChunkExactHolds`, says
that a body under way holds the bytes from `start` on and that the buffer
is as long as the announced range; `Serving`, for `SteadyChunkServedHolds`, that
a handle on a steady file is that file and the body so far its bytes, and that a
reply that is none has its file in `hurt`. What faults do is in four lemmas:
`FaultSpares` (disk, copies and `steady`), `FaultHits` and `FaultCuts` (whom an
error or an abort ends, and that `hurt` tells), `FaultSound`;
`Keeping`, for `WholeCopyHolds`, that a device's copy is the beginning of a steady
file; `Packing`, for `ArchiveFaithfulHolds`, that the entries before `entry` are
whole, or empty with their file in `hurt`, and the present one is a beginning
(`PackedSkip` for an error that is swallowed). `DownloadImplementsFetch` assumes that a
device's stretch fits into memory (`Chunk <= Memory`), without which the server
panics for ever. `FetchInv` adds that a reply under way
begins and ends where the request asked (`Echoed`) and that the request asks for
the stretch behind the copy (`Asking`), so that an answer on a steady file is the next stretch
(`ReceiveTakes`), unless the file is empty, and then the device had nothing yet and
gets nothing (`EmptyRefused`); an answer that is none has come of a fault
(`ReceiveFails`).

**Only model-checked.** The liveness properties (`RequestsFinish`,
`UploadCompletes`, `DownloadFinishes`, `PositionArrives`, `LoneStartListens`) are
out of the prover's reach; `LastCountFinds` and `FetchSpec` are the parts of
`UploadCompletes` and `DownloadFinishes` that are. Every safety property of a passing run is proved.

## What is not modelled

* The folder-layout scan (`file_ops/file_ops.rs`): `cleanup` is commented out in
  `main.rs` and `scan_files_startup` does nothing.
* Columns that no property reads (durations, bit rates, sizes, cover art,
  timestamps), the wording of replies, logging, CORS, request ids.
* `clean_metadata`'s regular expressions: `Clean` is any function on names.
* Link names of covers, and the reply of `get_grouped_files` beyond the rows
  it holds.
* Wrong HTTP input that axum rejects before a handler runs. The readme's own
  example posts a position with a fraction (`readme.md:50`), which an `i64` does not
  take: such a call never reaches the handler.
* Power losses in `Catalog` and `Upload`: the catalogue is rebuilt by the next
  scan, but the saved organisation would be lost with the commits.
* That "valid for 24 hours" (`api/user.rs:87`) leaves out the 60 seconds of leeway:
  `Valid` has them, and no property counts the hours.
* An AUTOINCREMENT counter or a clock that comes to its end, a clock that goes
  back, and a missing `JWT_SECRET`.
* A book and a file in one resume point that do not belong together: `Catalog`
  allows them, no handler relies on it, and `Listening` takes the pair as one item.

## Plan

1. Tag clean-up as pure operators on tokens, checked against a reference
   definition, to replace the constant `Clean` by what `clean_metadata` does.
2. `Catalog` and `Download` together: a reorganisation while a device downloads.
3. Power losses in `Catalog`, with the rows that a later scan brings back.
