------------------------------ MODULE Download ------------------------------
(***************************************************************************)
(* GET /download_chunk and GET /download_book: bytes of the audio files,   *)
(* read while uploads and the library's owner may be writing to them.      *)
(* A handler looks at a file several times (is it there, open it, how long *)
(* is it, read), with an await between any two.  The arithmetic on the     *)
(* Range header is done on machine words.  Any look may fail, and memory   *)
(* that runs out ends the whole process; whoever is hit is remembered.     *)
(*                                                                         *)
(* A byte is <<inode, edition, offset>>: where it stands and which writing *)
(* put it there.                                                           *)
(***************************************************************************)
EXTENDS Integers, Sequences

CONSTANTS
  File,       \* the files of one book, by path
  Book,       \* Book: them in the order of their ids
  Inode,      \* what paths name and open handles hold
  Device,     \* clients that download one file, chunk by chunk
  Visitor,    \* clients that send any Range header
  Reader,     \* clients that download the book as an archive
  FileOf,     \* FileOf[c]: the file that device or visitor c asks for
  Chunk,      \* how many bytes a device asks for at a time
  MaxWord,    \* the largest u64
  MaxUsize,   \* the largest usize, smaller on the 32-bit target of the readme
  MaxSeek,    \* the largest i64, beyond which a file cannot be positioned
  Memory,     \* the largest capacity of a vector, isize::MAX
  MaxEntry,   \* the largest archive entry without the zip64 option
  MaxSize,    \* bound on the length of a file
  MaxEdition, \* bound on the writings of files
  MaxFaults,  \* bound on I/O errors and aborts
  Build,      \* whether arithmetic is checked: TRUE in debug, FALSE in release
  None        \* no file, no header field, no reply

Word == 0 .. MaxWord
Header == [start : Word \cup {None}, end : Word \cup {None}]
Byte == Inode \X Nat \X Nat
Fetcher == Device \cup Visitor
Client == Fetcher \cup Reader

\* status: 206, an error reply, or a connection that closes on a panic.
Response == [status : {"partial", "error", "closed"}, start : Word, end : Word,
             size : 0 .. MaxSize, body : Seq(Byte)]

ASSUME ClientsAssumption ==
  /\ Device \cap Visitor = {} /\ Fetcher \cap Reader = {}
  /\ FileOf \in [Fetcher -> File]
  /\ None \notin Inode \cup Response \cup Nat
  /\ Book \in Seq(File)
  /\ \A f \in File : \E i \in 1 .. Len(Book) : Book[i] = f
  /\ \A i, j \in 1 .. Len(Book) : Book[i] = Book[j] => i = j

ASSUME WordsAssumption ==
  /\ MaxWord \in Nat \ {0} /\ MaxUsize \in Nat /\ MaxSeek \in Nat
  /\ Memory \in Nat /\ MaxEntry \in Nat
  /\ MaxSize \in Nat /\ MaxEdition \in Nat /\ MaxFaults \in Nat /\ Chunk \in Nat \ {0}
  /\ MaxSize <= MaxSeek /\ MaxSeek <= MaxWord /\ MaxUsize <= MaxWord
  /\ Memory <= MaxUsize
  /\ Build \subseteq BOOLEAN

VARIABLES
  at,       \* at[f]: the inode that path f names, or None
  data,     \* data[i]: the bytes of inode i
  edition,  \* how many writings there were
  checked,  \* the build that runs
  pc,       \* pc[c]: where the request of client c is
  header,   \* header[c]: its Range header
  handle,   \* handle[c]: the inode that it has open
  reply,    \* reply[c]: what it answers, filled in on the way; None before
  buffer,   \* buffer[c]: how many bytes read_exact is to read
  copy,     \* copy[d]: the bytes that device d has
  total,    \* total[d]: how many it expects, or None
  entry,    \* entry[r]: which file of the book r's archive is at
  archive,  \* archive[r][f]: the archive's entry for f
  steady,   \* history: files that nobody wrote to since c's download began
  hurt,     \* history: files of which an error cost c something since then
  faults    \* how many I/O errors and aborts there were

disk == <<at, data, edition>>
request == <<header, handle, reply, buffer>>
download == <<copy, total>>
book == <<entry, archive>>
trouble == <<hurt, faults>>
history == <<steady, trouble>>
vars == <<disk, checked, pc, request, download, book, history>>

-----------------------------------------------------------------------------
(* Machine words *)

\* Broken variant: signed words, as in the database's i64.
Sub_signed(a, b) == a - b

\* a - b and a + b on words; None when the build checks and they overflow.
Sub(a, b) == IF b <= a THEN a - b
             ELSE IF checked THEN None ELSE a + MaxWord + 1 - b
Add(a, b) == IF a + b <= MaxWord THEN a + b
             ELSE IF checked THEN None ELSE a + b - MaxWord - 1

\* chunk_size as usize
Usize(n) == n % (MaxUsize + 1)

\* A field that is missing or does not parse has its default.
Field(value, default) == IF value = None THEN default ELSE value

\* Broken variant: end is taken to be the first byte that is not wanted.
ChunkSize_exclusive(start, end) == Sub(end, start)

ChunkSize(start, end) ==
  IF Sub(end, start) = None THEN None ELSE Add(Sub(end, start), 1)

-----------------------------------------------------------------------------
Init ==
  /\ at \in [File -> Inode \cup {None}]
  /\ \A f, g \in File : at[f] = at[g] /\ at[f] # None => f = g
  /\ data = [i \in Inode |-> <<>>]
  /\ edition = 0
  /\ checked \in Build
  /\ pc = [c \in Client |-> "idle"]
  /\ header = [c \in Fetcher |-> [start |-> None, end |-> None]]
  /\ handle = [c \in Client |-> None]
  /\ reply = [c \in Fetcher |-> None]
  /\ buffer = [c \in Fetcher |-> 0]
  /\ copy = [d \in Device |-> <<>>]
  /\ total = [d \in Device |-> None]
  /\ entry = [r \in Reader |-> 1]
  /\ archive = [r \in Reader |-> [f \in File |-> <<>>]]
  /\ steady = [c \in Client |-> {}]
  /\ hurt = [c \in Client |-> {}]
  /\ faults = 0

Goto(c, there) == pc' = [pc EXCEPT ![c] = there]

-----------------------------------------------------------------------------
(* The directory: uploads that assemble a file, and the library's owner *)

Disturb(f) == steady' = [c \in Client |-> steady[c] \ {f}]

\* File::create on a file that is there truncates it under all its handles.
Truncate(f) ==
  /\ at[f] # None
  /\ edition < MaxEdition
  /\ edition' = edition + 1
  /\ data' = [data EXCEPT ![at[f]] = <<>>]
  /\ Disturb(f)
  /\ UNCHANGED <<at, checked, pc, request, download, book, trouble>>

\* File::create, or a file moved in, where none is.
Create(f) ==
  /\ at[f] = None
  /\ edition < MaxEdition
  /\ \E i \in Inode :
       /\ \A g \in File : at[g] # i
       /\ \A c \in Client : handle[c] # i
       /\ at' = [at EXCEPT ![f] = i]
       /\ data' = [data EXCEPT ![i] = <<>>]
  /\ edition' = edition + 1
  /\ Disturb(f)
  /\ UNCHANGED <<checked, pc, request, download, book, trouble>>

\* A block of the writing under way lands.
Write(f) ==
  /\ at[f] # None
  /\ edition > 0
  /\ Len(data[at[f]]) < MaxSize
  /\ data' = [data EXCEPT ![at[f]] = 
       Append(@, <<at[f], edition, Len(@) + 1>>)]
  /\ Disturb(f)
  /\ UNCHANGED <<at, edition, checked, pc, request, download, book, trouble>>

\* The owner takes the file away; open handles keep its bytes.
Remove(f) ==
  /\ at[f] # None
  /\ at' = [at EXCEPT ![f] = None]
  /\ Disturb(f)
  /\ UNCHANGED <<data, edition, checked, pc, request, download, book, trouble>>

-----------------------------------------------------------------------------
(* GET /download_chunk *)

\* A download begins: nothing was touched and nothing went wrong yet.
Start(c) ==
  /\ steady' = [steady EXCEPT ![c] = File]
  /\ hurt' = [hurt EXCEPT ![c] = {}]
  /\ UNCHANGED faults

Failure(status) ==
  [status |-> status, start |-> 0, end |-> 0, size |-> 0, body |-> <<>>]

\* The handler ends with an error reply or a panic.
Fail(c, status) ==
  /\ Goto(c, "answered")
  /\ reply' = [reply EXCEPT ![c] = Failure(status)]
  /\ handle' = [handle EXCEPT ![c] = None]
  /\ buffer' = [buffer EXCEPT ![c] = 0]
  /\ UNCHANGED header

\* A request arrives; its file has a row, and rows stay, so get_file_path
\* finds the path.
Ask(c, h) ==
  /\ header' = [header EXCEPT ![c] = h]
  /\ reply' = [reply EXCEPT ![c] = None]
  /\ Goto(c, "exists")
  /\ UNCHANGED <<disk, checked, handle, buffer, download, book>>

Exists(c) ==
  /\ pc[c] = "exists"
  /\ IF at[FileOf[c]] = None
     THEN Fail(c, "error")
     ELSE Goto(c, "open") /\ UNCHANGED request
  /\ UNCHANGED <<disk, checked, download, book, history>>

\* The unwrap panics when the file has gone since.
Open(c) ==
  /\ pc[c] = "open"
  /\ IF at[FileOf[c]] = None
     THEN Fail(c, "closed")
     ELSE /\ handle' = [handle EXCEPT ![c] = at[FileOf[c]]]
          /\ Goto(c, "measure")
          /\ UNCHANGED <<header, reply, buffer>>
  /\ UNCHANGED <<disk, checked, download, book, history>>

\* metadata, the Range header, the seek and the allocation, which panics when
\* no vector is that large; memory that is not there is Abort's.  file_size - 1
\* is computed for every request, used or not.
Measure(c) ==
  /\ pc[c] = "measure"
  /\ LET size == Len(data[handle[c]])
         last == Sub(size, 1)
         start == Field(header[c].start, 0)
         end == Field(header[c].end, last)
         chunk_size == IF last = None THEN None ELSE ChunkSize(start, end)
     IN \/ /\ chunk_size = None
           /\ Fail(c, "closed")
        \/ /\ chunk_size # None
           /\ start > MaxSeek
           /\ Fail(c, "error")
        \/ /\ chunk_size # None
           /\ start <= MaxSeek
           /\ Usize(chunk_size) > Memory
           /\ Fail(c, "closed")
        \/ /\ chunk_size # None
           /\ start <= MaxSeek
           /\ Usize(chunk_size) <= Memory
           /\ buffer' = [buffer EXCEPT ![c] = Usize(chunk_size)]
           /\ reply' = [reply EXCEPT ![c] =
                [status |-> "partial", start |-> start, end |-> end,
                 size |-> size, body |-> <<>>]]
           /\ Goto(c, "read")
           /\ UNCHANGED <<header, handle>>
  /\ UNCHANGED <<disk, checked, download, book, history>>

\* Broken variant: read instead of read_exact takes what there is.
Read_short(c) ==
  /\ pc[c] = "read"
  /\ LET offset == reply[c].start + Len(reply[c].body) + 1
     IN IF Len(reply[c].body) < buffer[c] /\ offset <= Len(data[handle[c]])
        THEN /\ reply' = [reply EXCEPT ![c].body = Append(@, data[handle[c]][offset])]
             /\ UNCHANGED <<pc, header, handle, buffer>>
        ELSE /\ Goto(c, "answered")
             /\ handle' = [handle EXCEPT ![c] = None]
             /\ UNCHANGED <<header, reply, buffer>>
  /\ UNCHANGED <<disk, checked, download, book, history>>

\* read_exact, piece by piece from its offset on: it fails at the end of the
\* file as that is by then.
ReadAt(c, offset) ==
  /\ pc[c] = "read"
  /\ \/ /\ Len(reply[c].body) = buffer[c]
        /\ Goto(c, "answered")
        /\ handle' = [handle EXCEPT ![c] = None]
        /\ UNCHANGED <<header, reply, buffer>>
     \/ /\ Len(reply[c].body) < buffer[c]
        /\ offset <= Len(data[handle[c]])
        /\ reply' = [reply EXCEPT ![c].body = Append(@, data[handle[c]][offset])]
        /\ UNCHANGED <<pc, header, handle, buffer>>
     \/ /\ Len(reply[c].body) < buffer[c]
        /\ offset > Len(data[handle[c]])
        /\ Fail(c, "error")
  /\ UNCHANGED <<disk, checked, download, book, history>>

\* Broken variant: the seek is forgotten.
Read_unseeked(c) == ReadAt(c, Len(reply[c].body) + 1)

Read(c) == ReadAt(c, reply[c].start + Len(reply[c].body) + 1)

\* What the handler makes of an error at each of its looks at the file: none is
\* there for exists(), the unwraps of open and metadata panic, and the seek and
\* the read give an internal error.
IoError(c) ==
  /\ faults < MaxFaults
  /\ \E status \in {"error", "closed"} :
       /\ <<pc[c], status>> \in {<<"exists", "error">>, <<"open", "closed">>,
            <<"measure", "closed">>, <<"measure", "error">>, <<"read", "error">>}
       /\ Fail(c, status)
  /\ hurt' = [hurt EXCEPT ![c] = @ \cup {FileOf[c]}]
  /\ faults' = faults + 1
  /\ UNCHANGED <<disk, checked, download, book, steady>>

download_chunk(c) == Exists(c) \/ Open(c) \/ Measure(c) \/ Read(c)

\* A client that sends whatever it likes.
Visit(v) ==
  /\ pc[v] \in {"idle", "answered"}
  /\ \E h \in Header : Ask(v, h)
  /\ Start(v)

-----------------------------------------------------------------------------
(* A device: its first request tells it how long the file is, the others     *)
(* ask for what is missing, and an error makes it start again.               *)

Least(a, b) == IF a <= b THEN a ELSE b

Begin(d) ==
  /\ pc[d] = "idle"
  /\ total[d] = None
  /\ Ask(d, [start |-> 0, end |-> 0])
  /\ Start(d)

Continue(d) ==
  /\ pc[d] = "idle"
  /\ total[d] # None
  /\ Len(copy[d]) < total[d]
  /\ Ask(d, [start |-> Len(copy[d]),
             end |-> Least(Len(copy[d]) + Chunk, total[d]) - 1])
  /\ UNCHANGED history

Receive(d) ==
  /\ pc[d] = "answered"
  /\ IF reply[d].status = "partial"
     THEN /\ copy' = [copy EXCEPT ![d] = @ \o reply[d].body]
          /\ total' = [total EXCEPT ![d] = IF @ = None THEN reply[d].size ELSE @]
     ELSE /\ copy' = [copy EXCEPT ![d] = <<>>]
          /\ total' = [total EXCEPT ![d] = None]
  /\ Goto(d, "idle")
  /\ UNCHANGED <<disk, checked, request, book, history>>

Complete(d) == pc[d] = "idle" /\ total[d] # None /\ Len(copy[d]) >= total[d]

-----------------------------------------------------------------------------
(* GET /download_book *)

\* get_file_metadata returns the rows in the order of their ids; no two have
\* one path.  A book without files gets an error.
download_book(r) ==
  /\ Book # <<>>
  /\ pc[r] \in {"idle", "sent", "closed"}
  /\ Goto(r, "entry")
  /\ entry' = [entry EXCEPT ![r] = 1]
  /\ archive' = [archive EXCEPT ![r] = [f \in File |-> <<>>]]
  /\ Start(r)
  /\ UNCHANGED <<disk, checked, request, download>>

NextEntry(r) ==
  /\ entry' = [entry EXCEPT ![r] = @ + 1]
  /\ handle' = [handle EXCEPT ![r] = None]
  /\ Goto(r, "entry")

\* start_file, and the opening of the file.  One that is not there leaves its
\* entry empty.
OpenEntry(r) ==
  /\ pc[r] = "entry"
  /\ entry[r] <= Len(Book)
  /\ IF at[Book[entry[r]]] = None
     THEN NextEntry(r)
     ELSE /\ handle' = [handle EXCEPT ![r] = at[Book[entry[r]]]]
          /\ Goto(r, "read")
          /\ UNCHANGED entry
  /\ UNCHANGED <<disk, checked, header, reply, buffer, download, archive, history>>

\* fs::read goes on until the end of the file; then the bytes enter the
\* archive, unless they are too many for its format and the unwrap panics.
ReadEntry(r) ==
  /\ pc[r] = "read"
  /\ LET f == Book[entry[r]]
         so_far == Len(archive[r][f])
     IN \/ /\ so_far < Len(data[handle[r]])
           /\ archive' = [archive EXCEPT ![r][f] = Append(@, data[handle[r]][so_far + 1])]
           /\ UNCHANGED <<pc, handle, entry>>
        \/ /\ so_far >= Len(data[handle[r]])
           /\ so_far <= MaxEntry
           /\ NextEntry(r)
           /\ UNCHANGED archive
        \/ /\ so_far >= Len(data[handle[r]])
           /\ so_far > MaxEntry
           /\ Goto(r, "closed")
           /\ handle' = [handle EXCEPT ![r] = None]
           /\ UNCHANGED <<entry, archive>>
  /\ UNCHANGED <<disk, checked, header, reply, buffer, download, history>>

\* Broken variant: what was read before the error enters the archive.
SkipEntry_partial(r) ==
  /\ pc[r] = "read"
  /\ faults < MaxFaults
  /\ NextEntry(r)
  /\ hurt' = [hurt EXCEPT ![r] = @ \cup {Book[entry[r]]}]
  /\ faults' = faults + 1
  /\ UNCHANGED <<disk, checked, header, reply, buffer, download, archive, steady>>

\* Any other error of fs::read is swallowed: the entry stays empty.
SkipEntry(r) ==
  /\ pc[r] = "read" \/ (pc[r] = "entry" /\ entry[r] <= Len(Book))
  /\ faults < MaxFaults
  /\ NextEntry(r)
  /\ archive' = [archive EXCEPT ![r][Book[entry[r]]] = <<>>]
  /\ hurt' = [hurt EXCEPT ![r] = @ \cup {Book[entry[r]]}]
  /\ faults' = faults + 1
  /\ UNCHANGED <<disk, checked, header, reply, buffer, download, steady>>

\* finish, and the reply 200.
SendBook(r) ==
  /\ pc[r] = "entry"
  /\ entry[r] > Len(Book)
  /\ Goto(r, "sent")
  /\ UNCHANGED <<disk, checked, request, download, book, history>>

-----------------------------------------------------------------------------
(* Memory that is not there: the buffer of a range or of an archive that      *)
(* cannot be had (or not be filled) ends the process, and with it every       *)
(* request; the server is started again.                                      *)

Abort ==
  LET busy == {c \in Client : pc[c] \in {"exists", "open", "measure", "read", "entry"}}
  IN /\ \E c \in busy : pc[c] = "read" /\ (c \in Fetcher => buffer[c] > 0)
     /\ faults < MaxFaults
     \* of the replies on their way some arrive and some do not
     /\ \E lost \in SUBSET {c \in Client : pc[c] \in {"answered", "sent"}} :
          LET cut == busy \cup lost
          IN /\ pc' = [c \in Client |-> IF c \notin cut THEN pc[c]
                          ELSE IF c \in Reader THEN "closed" ELSE "answered"]
             /\ handle' = [c \in Client |-> IF c \in cut THEN None ELSE handle[c]]
             /\ reply' = [c \in Fetcher |->
                          IF c \in cut THEN Failure("closed") ELSE reply[c]]
             /\ buffer' = [c \in Fetcher |-> IF c \in cut THEN 0 ELSE buffer[c]]
             /\ hurt' = [c \in Client |-> IF c \in cut THEN File ELSE hurt[c]]
     /\ faults' = faults + 1
     /\ UNCHANGED <<disk, checked, header, download, book, steady>>

-----------------------------------------------------------------------------
Owner == \E f \in File : Truncate(f) \/ Create(f) \/ Write(f) \/ Remove(f)
Proceed(d) == Begin(d) \/ Continue(d) \/ Receive(d)
Compose(r) == OpenEntry(r) \/ ReadEntry(r) \/ SkipEntry(r) \/ SendBook(r)
Fault == Abort \/ \E c \in Fetcher : IoError(c)

Next ==
  \/ Owner
  \/ Fault
  \/ \E c \in Fetcher : download_chunk(c)
  \/ \E v \in Visitor : Visit(v)
  \/ \E d \in Device : Proceed(d)
  \/ \E r \in Reader : download_book(r) \/ Compose(r)

Spec == Init /\ [][Next]_vars

\* Handlers run on until they reply, and a device goes on asking.  Nobody has
\* to write files or to visit, and nothing has to go wrong.
FairSpec ==
  /\ Spec
  /\ \A c \in Fetcher : WF_vars(download_chunk(c))
  /\ \A d \in Device : WF_vars(Proceed(d))

-----------------------------------------------------------------------------
(* Properties *)

Page == {"idle", "exists", "open", "measure", "read", "answered",
         "entry", "sent", "closed"}

TypeOK ==
  /\ at \in [File -> Inode \cup {None}]
  /\ data \in [Inode -> Seq(Byte)]
  /\ edition \in Nat
  /\ checked \in BOOLEAN
  /\ pc \in [Client -> Page]
  /\ header \in [Fetcher -> Header]
  /\ handle \in [Client -> Inode \cup {None}]
  /\ reply \in [Fetcher -> Response \cup {None}]
  /\ buffer \in [Fetcher -> Nat]
  /\ copy \in [Device -> Seq(Byte)]
  /\ total \in [Device -> 0 .. MaxSize \cup {None}]
  /\ entry \in [Reader -> 1 .. Len(Book) + 1]
  /\ archive \in [Reader -> [File -> Seq(Byte)]]
  /\ steady \in [Client -> SUBSET File]
  /\ hurt \in [Client -> SUBSET File]
  /\ faults \in Nat

\* The bytes of file f, none when it is not there.
Content(f) == IF at[f] = None THEN <<>> ELSE data[at[f]]

\* The range that header h asks of a file of size bytes.
First(h) == Field(h.start, 0)
Last(h, size) == Field(h.end, size - 1)

\* A 206 carries as many bytes as its Content-Range announces, each from its
\* place, whoever truncates, removes or appends meanwhile.  Ranges that run
\* backwards or are longer than a usize are excepted: their length wraps.
ChunkExact ==
  \A c \in Fetcher :
    LET r == reply[c]
    IN pc[c] = "answered" /\ r.status = "partial" /\ r.start <= r.end
         /\ r.end - r.start < MaxUsize
       => /\ Len(r.body) = r.end - r.start + 1
          /\ \A i \in 1 .. Len(r.body) : r.body[i][3] = r.start + i

\* A range that lies within a file that nobody writes to gets just its bytes,
\* in any build and with any default.  It may fail, but only by an I/O error of
\* its own or because memory ran out under some request, this one or another
\* client's; it is never given other bytes.
SteadyChunkServed ==
  \A c \in Fetcher :
    LET bytes == Content(FileOf[c])
        start == First(header[c])
        end == Last(header[c], Len(bytes))
    IN pc[c] = "answered" /\ FileOf[c] \in steady[c]
         /\ start <= end /\ end < Len(bytes) /\ end - start < Memory
       => IF reply[c].status = "partial"
          THEN reply[c].body = SubSeq(bytes, start + 1, end + 1)
          ELSE FileOf[c] \in hurt[c]

\* A download that nobody wrote into from its first request on is the file,
\* through however many requests, errors and new starts.
WholeCopy ==
  \A d \in Device :
    Complete(d) /\ FileOf[d] \in steady[d] => copy[d] = Content(FileOf[d])

\* In an archive that is sent each file that nobody touched meanwhile is there
\* from its first byte to its last, or, under the same 200, as an empty entry:
\* then an error of its reading was swallowed.  No part of a file passes for it.
ArchiveFaithful ==
  \A r \in Reader :
    pc[r] = "sent" => \A f \in steady[r] :
      \/ archive[r][f] = Content(f)
      \/ archive[r][f] = <<>> /\ f \in hurt[r]

F == INSTANCE Fetch WITH
       file <- [f \in File |-> Content(f)],
       clean <- [d \in Device |-> FileOf[d] \in steady[d]],
       failed <- [d \in Device |-> FileOf[d] \in hurt[d]]

\* What the handler's looks at the file, its arithmetic and the device's own
\* come to: on a file with bytes in it that nobody touches each answer is the
\* next stretch, and the download goes back only when an I/O error or an abort
\* hit it.
FetchSpec == F!Spec

\* Once the file has bytes for good and errors do not hit this device any more,
\* its download ends, whatever lengths and editions it learnt before; and when
\* its last start came after the last writing, it has just the file.
DownloadFinishes ==
  \A d \in Device :
    <>[](Content(FileOf[d]) # <<>> /\ FileOf[d] \notin hurt[d])
      => <>[](/\ Complete(d)
              /\ FileOf[d] \in steady[d] => copy[d] = Content(FileOf[d]))
=============================================================================
