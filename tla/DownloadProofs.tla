--------------------------- MODULE DownloadProofs ---------------------------
(***************************************************************************)
(* Theorems about Download, for every number of clients and files, every   *)
(* size of a machine word and either build.                                *)
(***************************************************************************)
EXTENDS Download, TLAPS

-----------------------------------------------------------------------------
(* Who changes what *)

\* A client's step leaves the files and the other clients alone.
Alone(c) ==
  /\ UNCHANGED <<disk, checked>>
  /\ \A x \in Client \ {c} :
       /\ pc'[x] = pc[x] /\ handle'[x] = handle[x]
       /\ steady'[x] = steady[x] /\ hurt'[x] = hurt[x]
  /\ \A x \in Fetcher \ {c} :
       reply'[x] = reply[x] /\ header'[x] = header[x] /\ buffer'[x] = buffer[x]
  /\ \A x \in Device \ {c} : copy'[x] = copy[x] /\ total'[x] = total[x]
  /\ \A x \in Reader \ {c} : entry'[x] = entry[x] /\ archive'[x] = archive[x]

\* So does a handler its client's own part.
Handled(c) ==
  /\ UNCHANGED <<download, book, history, header>>
  /\ Alone(c)

LEMMA Kinds ==
  /\ Fetcher \subseteq Client /\ Reader \subseteq Client
  /\ Device \subseteq Fetcher /\ Visitor \subseteq Fetcher
  /\ Fetcher \cap Reader = {} /\ Device \cap Visitor = {}
  /\ \A c \in Fetcher : FileOf[c] \in File
BY ClientsAssumption DEF Client, Fetcher

LEMMA ChunkAlone ==
  ASSUME TypeOK, NEW c \in Fetcher, download_chunk(c)
  PROVE  Handled(c)
<1> USE Kinds DEF TypeOK, Handled, Alone, Goto, Fail, request, download, book, disk, history, trouble
<1>1. CASE Exists(c)
  BY <1>1 DEF Exists
<1>2. CASE Open(c)
  BY <1>2 DEF Open
<1>3. CASE Measure(c)
  BY <1>3 DEF Measure
<1>4. CASE Read(c)
  BY <1>4 DEF Read, ReadAt
<1> QED BY <1>1, <1>2, <1>3, <1>4 DEF download_chunk

LEMMA VisitAlone ==
  ASSUME TypeOK, NEW v \in Visitor, Visit(v)
  PROVE  Alone(v)
BY Kinds DEF TypeOK, Alone, Goto, Visit, Ask, Start, request, download, book, disk

LEMMA DeviceAlone ==
  ASSUME TypeOK, NEW d \in Device, Proceed(d)
  PROVE  Alone(d)
<1> USE Kinds DEF TypeOK, Alone, Goto, Ask, Start, request, download, book, disk, history, trouble
<1>1. CASE Begin(d)
  BY <1>1 DEF Begin
<1>2. CASE Continue(d)
  BY <1>2 DEF Continue
<1>3. CASE Receive(d)
  BY <1>3 DEF Receive
<1> QED BY <1>1, <1>2, <1>3 DEF Proceed

LEMMA ReaderAlone ==
  ASSUME TypeOK, NEW r \in Reader, download_book(r) \/ Compose(r)
  PROVE  Alone(r)
<1> USE Kinds DEF TypeOK, Alone, Goto, NextEntry, Start, request, download, book, disk, history, trouble
<1>1. CASE download_book(r)
  BY <1>1 DEF download_book
<1>2. CASE OpenEntry(r)
  BY <1>2 DEF OpenEntry
<1>3. CASE ReadEntry(r)
  BY <1>3 DEF ReadEntry
<1>4. CASE SkipEntry(r)
  BY <1>4 DEF SkipEntry
<1>5. CASE SendBook(r)
  BY <1>5 DEF SendBook
<1> QED BY <1>1, <1>2, <1>3, <1>4, <1>5 DEF Compose

\* What an error or an abort leaves as it was.
LEMMA FaultSpares ==
  ASSUME Fault
  PROVE  UNCHANGED <<disk, checked, header, download, book, steady>>
BY DEF Fault, Abort, IoError, Fail

\* A request that an error or an abort hits ends in a failure, and its client is
\* marked; the others go on.
LEMMA FaultHits ==
  ASSUME TypeOK, Fault, NEW c \in Fetcher
  PROVE  \/ /\ pc'[c] = pc[c] /\ handle'[c] = handle[c] /\ hurt'[c] = hurt[c]
            /\ reply'[c] = reply[c] /\ buffer'[c] = buffer[c]
         \/ /\ pc[c] # "idle" /\ pc'[c] = "answered"
            /\ \E status \in {"error", "closed"} : reply'[c] = Failure(status)
            /\ FileOf[c] \in hurt'[c]
<1> USE Kinds DEF TypeOK
<1>1. CASE Abort
  BY <1>1 DEF Abort
<1>2. ASSUME NEW x \in Fetcher, IoError(x) PROVE x # c => UNCHANGED <<pc[c], handle[c], hurt[c], reply[c], buffer[c]>>
  BY <1>2 DEF IoError, Fail, Goto
<1>3. CASE IoError(c)
  BY <1>3 DEF IoError, Fail, Goto
<1> QED BY <1>1, <1>2, <1>3 DEF Fault

\* A reader's request is cut off by an abort or goes on.
LEMMA FaultCuts ==
  ASSUME TypeOK, Fault, NEW r \in Reader
  PROVE  \/ pc'[r] = pc[r] /\ handle'[r] = handle[r] /\ hurt'[r] = hurt[r]
         \/ pc'[r] = "closed"
<1> USE Kinds DEF TypeOK
<1>1. CASE Abort
  BY <1>1 DEF Abort
<1>2. ASSUME NEW x \in Fetcher, IoError(x)
      PROVE  pc'[r] = pc[r] /\ handle'[r] = handle[r] /\ hurt'[r] = hurt[r]
  BY <1>2 DEF IoError, Fail, Goto
<1> QED BY <1>1, <1>2 DEF Fault

-----------------------------------------------------------------------------
(* Type correctness *)

\* What a handler has in hand at each of its awaits.
FetcherHas(c) ==
  /\ pc[c] \in {"idle", "exists", "open", "measure", "read", "answered"}
  /\ pc[c] \in {"measure", "read"} => handle[c] \in Inode
  /\ pc[c] = "read" => reply[c] \in Response /\ reply[c].status = "partial"
  /\ pc[c] = "answered" => reply[c] \in Response
ReaderHas(r) ==
  /\ pc[r] \in {"idle", "entry", "read", "sent", "closed"}
  /\ pc[r] = "read" => handle[r] \in Inode /\ entry[r] <= Len(Book)

Handling == (\A c \in Fetcher : FetcherHas(c)) /\ (\A r \in Reader : ReaderHas(r))

\* Files are written from their first byte on, and no two paths name one.
Placed ==
  /\ \A i \in Inode :
       Len(data[i]) <= MaxSize /\ \A k \in 1 .. Len(data[i]) : data[i][k][3] = k
  /\ \A f, g \in File : at[f] = at[g] /\ at[f] # None => f = g

Sound == TypeOK /\ Handling /\ Placed

LEMMA Numbers ==
  /\ 0 \in Word /\ Word \subseteq Nat /\ 0 .. MaxSize \subseteq Word
  /\ None \notin Word /\ 1 \in Word
BY WordsAssumption, ClientsAssumption DEF Word

LEMMA WordsClosed ==
  ASSUME NEW a \in Word, NEW b \in Word
  PROVE  /\ Sub(a, b) \in Word \cup {None}
         /\ Add(a, b) \in Word \cup {None}
         /\ b <= a => Sub(a, b) = a - b
         /\ a + b <= MaxWord => Add(a, b) = a + b
<1>1. Sub(a, b) \in Word \cup {None} /\ (b <= a => Sub(a, b) = a - b)
  <2>1. CASE b <= a
    BY <2>1, WordsAssumption DEF Sub, Word
  <2>2. CASE ~(b <= a) /\ checked
    BY <2>2 DEF Sub
  <2>3. CASE ~(b <= a) /\ ~checked
    BY <2>3, WordsAssumption DEF Sub, Word
  <2> QED BY <2>1, <2>2, <2>3
<1>2. Add(a, b) \in Word \cup {None} /\ (a + b <= MaxWord => Add(a, b) = a + b)
  <2>1. CASE a + b <= MaxWord
    BY <2>1, WordsAssumption DEF Add, Word
  <2>2. CASE ~(a + b <= MaxWord) /\ checked
    BY <2>2 DEF Add
  <2>3. CASE ~(a + b <= MaxWord) /\ ~checked
    BY <2>3, WordsAssumption DEF Add, Word
  <2> QED BY <2>1, <2>2, <2>3
<1> QED BY <1>1, <1>2

LEMMA InitSound == Init => Sound
<1> SUFFICES ASSUME Init PROVE Sound
  OBVIOUS
<1> USE Kinds, Numbers
<1>1. TypeOK
  BY ClientsAssumption, WordsAssumption DEF Init, TypeOK, Page, Header, Client
<1>2. Handling
  BY DEF Init, Handling, FetcherHas, ReaderHas
<1>3. Placed
  BY WordsAssumption DEF Init, Placed
<1> QED BY <1>1, <1>2, <1>3 DEF Sound

LEMMA FailureIs ==
  ASSUME NEW status \in {"error", "closed"}
  PROVE  /\ Failure(status) \in Response
         /\ Failure(status).status = status /\ Failure(status).body = <<>>
BY Numbers, WordsAssumption DEF Response, Failure

LEMMA FailTypes ==
  ASSUME TypeOK, NEW c \in Fetcher, NEW status \in {"error", "closed"},
         Fail(c, status)
  PROVE  /\ pc' \in [Client -> Page]
         /\ header' \in [Fetcher -> Header]
         /\ handle' \in [Client -> Inode \cup {None}]
         /\ reply' \in [Fetcher -> Response \cup {None}]
         /\ buffer' \in [Fetcher -> Nat]
         /\ reply'[c] \in Response
         /\ reply'[c].status = status
         /\ reply'[c].body = <<>>
         /\ pc'[c] = "answered"
<1>1. Failure(status) \in Response /\ Failure(status).status = status
      /\ Failure(status).body = <<>>
  BY FailureIs
<1> QED BY <1>1, Kinds DEF TypeOK, Fail, Goto, Page

\* Files change only at the owner's hands.
LEMMA OwnerSound ==
  ASSUME Sound, Owner
  PROVE  Sound' /\ UNCHANGED <<checked, pc, request, download, book, trouble>>
<1> USE DEF Sound, TypeOK, request, download, book, trouble
<1>0. UNCHANGED <<checked, pc, request, download, book, trouble>>
  BY DEF Owner, Truncate, Create, Write, Remove
<1>1. Handling'
  BY <1>0 DEF Handling, FetcherHas, ReaderHas
<1>2. steady' \in [Client -> SUBSET File]
  BY DEF Owner, Truncate, Create, Write, Remove, Disturb
<1>3. ASSUME NEW f \in File, Truncate(f) PROVE TypeOK' /\ Placed'
  BY <1>0, <1>2, <1>3, WordsAssumption DEF Truncate, Placed
<1>4. ASSUME NEW f \in File, Create(f) PROVE TypeOK' /\ Placed'
  BY <1>0, <1>2, <1>4, WordsAssumption DEF Create, Placed
<1>5. ASSUME NEW f \in File, Write(f) PROVE TypeOK' /\ Placed'
  <2> DEFINE i == at[f]
             b == <<i, edition, Len(data[i]) + 1>>
  <2>1. i \in Inode /\ data[i] \in Seq(Byte) /\ Len(data[i]) < MaxSize
    BY <1>5 DEF Write
  <2>2. b \in Byte /\ b[3] = Len(data[i]) + 1
    BY <2>1 DEF Byte
  <2>3. data' = [data EXCEPT ![i] = Append(@, b)]
    BY <1>5 DEF Write
  <2>4. UNCHANGED <<at, edition>>
    BY <1>5 DEF Write
  <2> HIDE DEF i, b
  <2>5. data' \in [Inode -> Seq(Byte)]
    BY <2>1, <2>2, <2>3
  <2>6. ASSUME NEW j \in Inode
        PROVE  Len(data'[j]) <= MaxSize /\ \A k \in 1 .. Len(data'[j]) : data'[j][k][3] = k
    <3>1. CASE j # i
      BY <2>3, <3>1 DEF Placed
    <3>2. CASE j = i
      <4>1. data'[j] = Append(data[i], b)
        BY <2>1, <2>3, <3>2
      <4>2. Len(data'[j]) = Len(data[i]) + 1 /\ data'[j][Len(data[i]) + 1] = b
            /\ \A k \in 1 .. Len(data[i]) : data'[j][k] = data[i][k]
        BY <2>1, <2>2, <4>1
      <4>3. \A k \in 1 .. Len(data[i]) : data[i][k][3] = k
        BY <2>1 DEF Placed
      <4>4. Len(data'[j]) <= MaxSize
        BY <2>1, <4>2, WordsAssumption
      <4>5. ASSUME NEW k \in 1 .. Len(data'[j]) PROVE data'[j][k][3] = k
        <5>1. CASE k = Len(data[i]) + 1
          BY <2>2, <4>2, <5>1
        <5>2. CASE k # Len(data[i]) + 1
          <6>1. k \in 1 .. Len(data[i])
            BY <2>1, <4>2, <5>2
          <6> QED BY <4>2, <4>3, <6>1
        <5> QED BY <5>1, <5>2
      <4> QED BY <4>4, <4>5
    <3> QED BY <3>1, <3>2
  <2>7. Placed'
    BY <2>4, <2>6 DEF Placed
  <2> QED BY <1>0, <1>2, <2>4, <2>5, <2>7
<1>6. ASSUME NEW f \in File, Remove(f) PROVE TypeOK' /\ Placed'
  BY <1>0, <1>2, <1>6 DEF Remove, Placed
<1> QED BY <1>0, <1>1, <1>3, <1>4, <1>5, <1>6 DEF Owner

\* A length that fits a usize keeps its value.
LEMMA UsizeKeeps ==
  ASSUME NEW n \in 0 .. MaxUsize
  PROVE  Usize(n) = n
BY WordsAssumption DEF Usize

\* The range lies within size bytes and its length can be allocated.
Within(h, size) ==
  First(h) <= Last(h, size) /\ Last(h, size) < size /\ Last(h, size) - First(h) < Memory

LEMMA RangeNumbers ==
  ASSUME NEW h \in Header, NEW size \in Nat
  PROVE  First(h) \in Nat /\ Last(h, size) \in Int /\ (Within(h, size) => size > 0)
<1>1. h.start \in Word \cup {None} /\ h.end \in Word \cup {None}
  BY DEF Header
<1>2. First(h) \in Nat
  BY <1>1, Numbers DEF First, Field
<1>3. Last(h, size) \in Int
  <2>1. Last(h, size) = size - 1 \/ Last(h, size) \in Word
    BY <1>1 DEF Last, Field
  <2>2. size - 1 \in Int /\ \A x \in Word : x \in Int
    BY WordsAssumption DEF Word
  <2> QED BY <2>1, <2>2
<1> QED BY <1>2, <1>3 DEF Within

\* How Measure answers the range that header h asks of size bytes.
Announced(c, h, size, end, n) ==
  /\ end \in Word /\ n \in Nat
  /\ First(h) <= end /\ end - First(h) < MaxUsize => n = end - First(h) + 1
  /\ size > 0 \/ h.end # None => end = Last(h, size)
  /\ buffer' = [buffer EXCEPT ![c] = n]
  /\ reply' = [reply EXCEPT ![c] =
       [status |-> "partial", start |-> First(h), end |-> end,
        size |-> size, body |-> <<>>]]
  /\ Goto(c, "read")
  /\ UNCHANGED <<header, handle>>

\* What Measure works out: a failure, or the announcement of a range.  A range
\* within the file does not fail.
LEMMA MeasureAnnounces ==
  ASSUME Sound, NEW c \in Fetcher, Measure(c)
  PROVE  LET size == Len(data[handle[c]])
         IN /\ size \in 0 .. MaxSize /\ First(header[c]) \in Word
            /\ \/ /\ Fail(c, "closed") \/ Fail(c, "error")
                  /\ ~Within(header[c], size)
               \/ \E end, n : Announced(c, header[c], size, end, n)
<1> DEFINE h == header[c]
           size == Len(data[handle[c]])
           last == Sub(size, 1)
           start == First(h)
           end == Field(h.end, last)
           chunk_size == IF last = None THEN None ELSE ChunkSize(start, end)
<1>1. handle[c] \in Inode
  BY DEF Measure, Sound, Handling, FetcherHas
<1>2. size \in 0 .. MaxSize /\ size \in Word /\ size <= MaxSeek
  BY <1>1, Numbers, WordsAssumption DEF Sound, TypeOK, Placed
<1>3. h \in Header
  BY DEF Sound, TypeOK
<1>4. start \in Word
  BY <1>3, Numbers DEF Field, Header, First
<1>5. size > 0 => last = size - 1 /\ last \in Word /\ end = Last(h, size)
  <2> HAVE size > 0
  <2>1. 1 <= size /\ Sub(size, 1) = size - 1
    BY <1>2, Numbers, WordsClosed
  <2>2. size - 1 \in Word
    BY <1>2, WordsAssumption DEF Word
  <2> QED BY <2>1, <2>2 DEF Last
<1>6. ASSUME chunk_size # None
      PROVE  end \in Word /\ Usize(chunk_size) \in Nat
  <2>1. last \in Word
    BY <1>2, <1>6, Numbers, WordsClosed
  <2>2. end \in Word
    BY <1>3, <2>1, Numbers DEF Field, Header
  <2>3. chunk_size \in Word
    BY <1>4, <1>6, <2>1, <2>2, Numbers, WordsClosed DEF ChunkSize
  <2> QED BY <2>2, <2>3, WordsAssumption DEF Usize, Word
<1>7. ASSUME end \in Word, last # None, start <= end, end - start < MaxUsize
      PROVE  chunk_size = end - start + 1 /\ Usize(chunk_size) = end - start + 1
  <2>1. Sub(end, start) = end - start /\ end - start \in Word
    BY <1>4, <1>7, WordsClosed, WordsAssumption DEF Word
  <2>2. Add(end - start, 1) = end - start + 1
    BY <1>4, <1>7, <2>1, Numbers, WordsClosed, WordsAssumption DEF Word
  <2>3. chunk_size = end - start + 1
    BY <1>7, <2>1, <2>2, Numbers DEF ChunkSize
  <2>4. end - start + 1 \in 0 .. MaxUsize
    BY <1>4, <1>7, WordsAssumption DEF Word
  <2> QED BY <2>3, <2>4, UsizeKeeps
<1>8. ASSUME Within(h, size)
      PROVE  /\ chunk_size # None /\ start <= MaxSeek /\ Usize(chunk_size) <= Memory
  <2>1. size > 0 /\ start <= end /\ end < size /\ end - start < Memory /\ last # None
        /\ end \in Nat
    <3>1. start \in Nat /\ Last(h, size) \in Int /\ size > 0
      BY <1>2, <1>3, <1>8, RangeNumbers
    <3>3. start <= Last(h, size) /\ Last(h, size) < size /\ Last(h, size) - start < Memory
      BY <1>8 DEF Within
    <3> HIDE DEF start, size, h, end
    <3>4. size > 0 /\ Last(h, size) \in Nat
      BY <3>1, <3>3
    <3>5. last # None /\ end = Last(h, size)
      BY <1>5, <3>4, Numbers
    <3> QED BY <3>3, <3>4, <3>5
  <2>2. end \in Word
    BY <1>2, <2>1, WordsAssumption DEF Word
  <2>3. chunk_size = end - start + 1 /\ Usize(chunk_size) = end - start + 1
    BY <1>4, <1>7, <2>1, <2>2, WordsAssumption DEF Word
  <2> QED BY <1>2, <1>4, <2>1, <2>2, <2>3, Numbers, WordsAssumption DEF Word
<1>9. /\ start = Field(header[c].start, 0)
      /\ \/ chunk_size = None /\ Fail(c, "closed")
         \/ chunk_size # None /\ start > MaxSeek /\ Fail(c, "error")
         \/ chunk_size # None /\ start <= MaxSeek /\ Usize(chunk_size) > Memory /\ Fail(c, "closed")
         \/ /\ chunk_size # None
            /\ buffer' = [buffer EXCEPT ![c] = Usize(chunk_size)]
            /\ reply' = [reply EXCEPT ![c] =
                 [status |-> "partial", start |-> start, end |-> end,
                  size |-> size, body |-> <<>>]]
            /\ Goto(c, "read")
            /\ UNCHANGED <<header, handle>>
  BY DEF Measure, First
<1>10. CASE /\ chunk_size # None
            /\ buffer' = [buffer EXCEPT ![c] = Usize(chunk_size)]
            /\ reply' = [reply EXCEPT ![c] =
                 [status |-> "partial", start |-> start, end |-> end,
                  size |-> size, body |-> <<>>]]
            /\ Goto(c, "read")
            /\ UNCHANGED <<header, handle>>
  <2>1. last # None
    BY <1>10
  <2>2. Announced(c, h, size, end, Usize(chunk_size))
    <3>1. h.end # None => end = Last(h, size)
      BY DEF Last, Field
    <3>2. size > 0 \/ h.end # None => end = Last(h, size)
      BY <1>5, <3>1
    <3>3. end \in Word /\ Usize(chunk_size) \in Nat
      BY <1>6, <1>10
    <3>4. start <= end /\ end - start < MaxUsize => Usize(chunk_size) = end - start + 1
      BY <1>7, <2>1, <3>3
    <3> HIDE DEF h, size, last, end, chunk_size
    <3> QED BY <1>10, <3>2, <3>3, <3>4 DEF Announced
  <2> HIDE DEF h, size, end, chunk_size
  <2>3. \E e, n : Announced(c, h, size, e, n)
    BY <2>2
  <2> QED BY <1>2, <1>4, <2>3 DEF h, size
<1>11. CASE Fail(c, "closed") \/ Fail(c, "error")
  <2>1. CASE Within(h, size)
    <3>1. /\ chunk_size # None
          /\ buffer' = [buffer EXCEPT ![c] = Usize(chunk_size)]
          /\ reply' = [reply EXCEPT ![c] =
               [status |-> "partial", start |-> start, end |-> end,
                size |-> size, body |-> <<>>]]
          /\ Goto(c, "read")
          /\ UNCHANGED <<header, handle>>
      <4> HIDE DEF chunk_size, start, end, size, h
      <4>1. Usize(chunk_size) \in Nat /\ start \in Nat
        BY <1>4, <1>6, <1>8, <2>1, Numbers
      <4> QED BY <1>8, <1>9, <2>1, <4>1, WordsAssumption
    <3> QED BY <1>10, <3>1
  <2>2. CASE ~Within(h, size)
    BY <1>2, <1>4, <1>11, <2>2
  <2> QED BY <2>1, <2>2
<1> HIDE DEF chunk_size, start, end, size, h
<1> QED BY <1>9, <1>10, <1>11

\* A reply that has grown is a reply.
LEMMA GrownReply ==
  ASSUME NEW p \in Response, NEW b \in Seq(Byte)
  PROVE  /\ [p EXCEPT !.body = b] \in Response
         /\ [p EXCEPT !.body = b].body = b
         /\ [p EXCEPT !.body = b].status = p.status
         /\ [p EXCEPT !.body = b].start = p.start
         /\ [p EXCEPT !.body = b].end = p.end
         /\ [p EXCEPT !.body = b].size = p.size
BY DEF Response

LEMMA ChunkSound ==
  ASSUME Sound, NEW c \in Fetcher, download_chunk(c)
  PROVE  Sound'
<1>1. Handled(c) /\ TypeOK /\ Handling /\ Placed /\ c \in Client
  BY ChunkAlone, Kinds DEF Sound
<1>2. Placed'
  BY <1>1 DEF Placed, Handled, Alone, disk
<1>3. TypeOK' /\ FetcherHas(c)'
  <2> DEFINE Typed == /\ pc' \in [Client -> Page] /\ handle' \in [Client -> Inode \cup {None}]
                      /\ reply' \in [Fetcher -> Response \cup {None}]
                      /\ buffer' \in [Fetcher -> Nat]
  <2>1. ASSUME Typed PROVE TypeOK'
    BY <1>1, <2>1 DEF TypeOK, Handled, Alone, disk, download, book, history, trouble
  <2>2. ASSUME NEW status \in {"error", "closed"}, Fail(c, status) PROVE Typed /\ FetcherHas(c)'
    BY <1>1, <2>2, FailTypes DEF FetcherHas
  <2>3. ASSUME Exists(c) PROVE Typed /\ FetcherHas(c)'
    BY <1>1, <2>2, <2>3 DEF Exists, Goto, request, TypeOK, Page, FetcherHas
  <2>4. ASSUME Open(c) PROVE Typed /\ FetcherHas(c)'
    BY <1>1, <2>2, <2>4, Kinds DEF Open, Goto, TypeOK, Page, FetcherHas
  <2>5. ASSUME Measure(c) PROVE Typed /\ FetcherHas(c)'
    <3>1. CASE Fail(c, "closed") \/ Fail(c, "error")
      BY <2>2, <3>1
    <3> DEFINE size == Len(data[handle[c]])
               start == First(header[c])
    <3>2. size \in 0 .. MaxSize /\ start \in Word
      BY <2>5, MeasureAnnounces
    <3>3. ASSUME NEW end, NEW n, Announced(c, header[c], size, end, n)
          PROVE  Typed /\ FetcherHas(c)'
      <4> DEFINE r == [status |-> "partial", start |-> start, end |-> end,
                       size |-> size, body |-> <<>>]
      <4>1. r \in Response /\ r.status = "partial"
        BY <3>2, <3>3 DEF Response, Announced
      <4>2. /\ reply' = [reply EXCEPT ![c] = r]
            /\ buffer' = [buffer EXCEPT ![c] = n] /\ n \in Nat
            /\ Goto(c, "read") /\ UNCHANGED <<header, handle>>
        BY <3>3 DEF Announced
      <4>3. handle[c] \in Inode
        BY <1>1, <2>5 DEF Measure, Handling, FetcherHas
      <4> HIDE DEF r
      <4>4. Typed
        BY <1>1, <4>1, <4>2 DEF Goto, TypeOK, Page
      <4>5. pc'[c] = "read" /\ handle'[c] \in Inode /\ reply'[c] = r
        BY <1>1, <4>2, <4>3 DEF Goto, TypeOK
      <4> QED BY <4>1, <4>4, <4>5 DEF FetcherHas
    <3> QED BY <2>5, <3>1, <3>3, MeasureAnnounces
  <2>6. ASSUME Read(c) PROVE Typed /\ FetcherHas(c)'
    <3> DEFINE r == reply[c]
               offset == r.start + Len(r.body) + 1
    <3>1. r \in Response /\ r.status = "partial" /\ handle[c] \in Inode
      BY <1>1, <2>6 DEF Read, ReadAt, Handling, FetcherHas
    <3>2. r.body \in Seq(Byte) /\ offset \in Nat \ {0} /\ data[handle[c]] \in Seq(Byte)
      <4>1. r.body \in Seq(Byte) /\ r.start \in Nat
        BY <3>1, Numbers DEF Response
      <4>2. Len(r.body) \in Nat
        BY <4>1
      <4>3. data[handle[c]] \in Seq(Byte)
        BY <1>1, <3>1 DEF TypeOK
      <4>4. \A x, y \in Nat : x + y + 1 \in Nat \ {0}
        OBVIOUS
      <4> QED BY <4>1, <4>2, <4>3, <4>4
    <3>3. CASE pc' = [pc EXCEPT ![c] = "answered"] /\ handle' = [handle EXCEPT ![c] = None]
               /\ UNCHANGED <<header, reply, buffer>>
      BY <1>1, <3>1, <3>3 DEF TypeOK, Page, FetcherHas
    <3>4. CASE /\ offset <= Len(data[handle[c]])
               /\ reply' = [reply EXCEPT ![c].body = Append(@, data[handle[c]][offset])]
               /\ UNCHANGED <<pc, header, handle, buffer>>
      <4>0. Append(r.body, data[handle[c]][offset]) \in Seq(Byte)
        <5>1. data[handle[c]][offset] \in Byte
          BY <3>2, <3>4
        <5> QED BY <3>2, <5>1
      <4>1. [r EXCEPT !.body = Append(@, data[handle[c]][offset])] \in Response
        BY <3>1, <4>0, GrownReply
      <4>2. [r EXCEPT !.body = Append(@, data[handle[c]][offset])].status = "partial"
        BY <3>1 DEF Response
      <4>3. reply' = [reply EXCEPT ![c] = [r EXCEPT !.body = Append(@, data[handle[c]][offset])]]
        BY <3>4
      <4> QED BY <1>1, <3>1, <3>4, <4>1, <4>2, <4>3 DEF TypeOK, FetcherHas, Handling
    <3> QED BY <2>2, <2>6, <3>3, <3>4 DEF Read, ReadAt, Goto
  <2> QED BY <2>1, <2>3, <2>4, <2>5, <2>6 DEF download_chunk
<1>4. Handling'
  BY <1>1, <1>3, Kinds DEF Handling, FetcherHas, ReaderHas, Handled, Alone, book
<1> QED BY <1>2, <1>3, <1>4 DEF Sound

\* A new request, and what is done with the answer.
LEMMA AskSound ==
  ASSUME Sound, NEW c \in Fetcher, NEW h \in Header, Ask(c, h), Alone(c),
         steady' \in [Client -> SUBSET File], hurt' \in [Client -> SUBSET File],
         faults' \in Nat
  PROVE  Sound'
<1> USE DEF Sound
<1>1. TypeOK'
  BY Kinds DEF TypeOK, Ask, Goto, Page, disk, download, book
<1>2. FetcherHas(c)'
  BY Kinds DEF TypeOK, Ask, Goto, FetcherHas
<1>3. Handling'
  BY <1>2, Kinds DEF Handling, FetcherHas, ReaderHas, Alone
<1>4. Placed'
  BY DEF Placed, Ask, disk
<1> QED BY <1>1, <1>3, <1>4

LEMMA VisitSound ==
  ASSUME Sound, NEW v \in Visitor, Visit(v)
  PROVE  Sound'
<1>1. Alone(v) /\ v \in Fetcher /\ v \in Client
  BY VisitAlone, Kinds DEF Sound
<1>2. /\ steady' \in [Client -> SUBSET File] /\ hurt' \in [Client -> SUBSET File]
      /\ faults' \in Nat
  BY <1>1 DEF Visit, Start, Sound, TypeOK
<1> QED BY <1>1, <1>2, AskSound DEF Visit

LEMMA DeviceSound ==
  ASSUME Sound, NEW d \in Device, Proceed(d)
  PROVE  Sound'
<1> USE DEF Sound
<1>1. Alone(d) /\ d \in Fetcher /\ d \in Client /\ d \notin Reader
  BY DeviceAlone, Kinds
<1>2. CASE Begin(d)
  <2>1. [start |-> 0, end |-> 0] \in Header
    BY Numbers DEF Header
  <2>2. /\ steady' \in [Client -> SUBSET File] /\ hurt' \in [Client -> SUBSET File]
        /\ faults' \in Nat
    BY <1>1, <1>2 DEF Begin, Start, TypeOK
  <2> QED BY <1>1, <1>2, <2>1, <2>2, AskSound DEF Begin
<1>3. CASE Continue(d)
  <2> DEFINE start == Len(copy[d])
             end == Least(start + Chunk, total[d]) - 1
  <2>1. start \in Nat /\ total[d] \in 0 .. MaxSize /\ start < total[d]
    BY <1>3 DEF Continue, TypeOK
  <2>2. start \in Word /\ end \in Word
    BY <2>1, WordsAssumption DEF Least, Word
  <2>3. [start |-> start, end |-> end] \in Header
    BY <2>2 DEF Header
  <2> QED BY <1>1, <1>3, <2>3, AskSound DEF Continue, TypeOK, history, trouble
<1>4. CASE Receive(d)
  <2>1. reply[d] \in Response
    BY <1>1, <1>4 DEF Receive, Handling, FetcherHas
  <2>2. reply[d].body \in Seq(Byte) /\ reply[d].size \in 0 .. MaxSize
    BY <2>1 DEF Response
  <2> TypeOK
    OBVIOUS
  <2>3. copy' \in [Device -> Seq(Byte)] /\ total' \in [Device -> 0 .. MaxSize \cup {None}]
    <3>1. copy[d] \o reply[d].body \in Seq(Byte)
      BY <2>2 DEF TypeOK
    <3> HIDE DEF Sound
    <3>2. CASE reply[d].status = "partial"
      <4>1. copy' = [copy EXCEPT ![d] = @ \o reply[d].body]
            /\ total' = [total EXCEPT ![d] = IF @ = None THEN reply[d].size ELSE @]
        BY <1>4, <3>2 DEF Receive
      <4>2. copy' \in [Device -> Seq(Byte)]
        BY <3>1, <4>1 DEF TypeOK
      <4>3. total' \in [Device -> 0 .. MaxSize \cup {None}]
        BY <2>2, <4>1 DEF TypeOK
      <4> QED BY <4>2, <4>3
    <3>3. CASE reply[d].status # "partial"
      <4>1. <<>> \in Seq(Byte)
        OBVIOUS
      <4>2. copy' = [copy EXCEPT ![d] = <<>>] /\ total' = [total EXCEPT ![d] = None]
        BY <1>4, <3>3 DEF Receive
      <4> QED BY <4>1, <4>2 DEF TypeOK
    <3> QED BY <3>2, <3>3
  <2>4. pc' \in [Client -> Page] /\ pc'[d] = "idle"
    BY <1>1, <1>4 DEF Receive, Goto, TypeOK, Page
  <2>5. TypeOK'
    BY <1>4, <2>3, <2>4 DEF Receive, TypeOK, disk, request, book, history, trouble
  <2>6. Handling'
    BY <1>1, <2>4, Kinds DEF Handling, FetcherHas, ReaderHas, Alone
  <2>7. Placed'
    BY <1>4 DEF Receive, Placed, disk
  <2> QED BY <2>5, <2>6, <2>7
<1> QED BY <1>2, <1>3, <1>4 DEF Proceed

LEMMA ReaderSound ==
  ASSUME Sound, NEW r \in Reader, download_book(r) \/ Compose(r)
  PROVE  Sound'
<1> USE DEF Sound, disk, request, download, book, history, trouble
<1>1. Alone(r) /\ r \in Client /\ r \notin Fetcher
  BY ReaderAlone, Kinds
<1>2. Placed'
  BY <1>1 DEF Placed, Alone
<1>3. Len(Book) \in Nat /\ entry[r] \in 1 .. Len(Book) + 1
  BY ClientsAssumption DEF TypeOK
<1>4. \A i \in 1 .. Len(Book) : Book[i] \in File
  BY ClientsAssumption
<1>5. CASE download_book(r)
  <2>1. TypeOK'
    BY <1>1, <1>3, <1>5 DEF download_book, Start, TypeOK, Goto, Page
  <2>2. ReaderHas(r)'
    BY <1>1, <1>5 DEF download_book, TypeOK, Goto, ReaderHas
  <2> QED BY <1>1, <1>2, <2>1, <2>2, Kinds DEF Handling, FetcherHas, ReaderHas, Alone
<1>6. CASE OpenEntry(r)
  <2>1. TypeOK'
    <3>1. entry[r] \in 1 .. Len(Book) /\ Book[entry[r]] \in File
      BY <1>3, <1>4, <1>6 DEF OpenEntry
    <3>2. CASE at[Book[entry[r]]] = None
      <4>1. NextEntry(r) /\ UNCHANGED <<disk, checked, header, reply, buffer, download, archive, history>>
        BY <1>6, <3>2 DEF OpenEntry
      <4>2. entry' \in [Reader -> 1 .. Len(Book) + 1]
        BY <1>3, <3>1, <4>1 DEF NextEntry, TypeOK
      <4> QED BY <1>1, <4>1, <4>2 DEF NextEntry, TypeOK, Goto, Page
    <3>3. CASE at[Book[entry[r]]] # None
      BY <1>1, <1>6, <3>1, <3>3 DEF OpenEntry, TypeOK, Goto, Page
    <3> QED BY <3>2, <3>3
  <2>2. ReaderHas(r)'
    BY <1>1, <1>3, <1>4, <1>6 DEF OpenEntry, NextEntry, TypeOK, Goto, ReaderHas
  <2> QED BY <1>1, <1>2, <2>1, <2>2, Kinds DEF Handling, FetcherHas, ReaderHas, Alone
<1>7. CASE ReadEntry(r)
  <2>1. entry[r] \in 1 .. Len(Book) /\ handle[r] \in Inode
    BY <1>3, <1>7 DEF ReadEntry, Handling, ReaderHas
  <2>2. Book[entry[r]] \in File /\ data[handle[r]] \in Seq(Byte)
        /\ archive[r][Book[entry[r]]] \in Seq(Byte)
    BY <1>4, <2>1 DEF TypeOK
  <2>3. TypeOK' /\ ReaderHas(r)'
    <3>1. CASE /\ Len(archive[r][Book[entry[r]]]) < Len(data[handle[r]])
               /\ archive' = [archive EXCEPT ![r][Book[entry[r]]] =
                    Append(@, data[handle[r]][Len(archive[r][Book[entry[r]]]) + 1])]
               /\ UNCHANGED <<pc, handle, entry>>
      <4> DEFINE b == data[handle[r]][Len(archive[r][Book[entry[r]]]) + 1]
      <4>1. b \in Byte
        BY <2>2, <3>1
      <4>2. archive' \in [Reader -> [File -> Seq(Byte)]]
        BY <2>2, <3>1, <4>1 DEF TypeOK
      <4> QED BY <1>7, <3>1, <4>2 DEF ReadEntry, TypeOK, Handling, ReaderHas
    <3>2. CASE NextEntry(r) /\ UNCHANGED archive
      BY <1>1, <1>3, <1>7, <2>1, <3>2 DEF NextEntry, ReadEntry, TypeOK, Goto, Page, ReaderHas
    <3>3. CASE Goto(r, "closed") /\ handle' = [handle EXCEPT ![r] = None]
               /\ UNCHANGED <<entry, archive>>
      BY <1>1, <1>7, <3>3 DEF ReadEntry, TypeOK, Goto, Page, ReaderHas
    <3> QED BY <1>7, <3>1, <3>2, <3>3 DEF ReadEntry
  <2> QED BY <1>1, <1>2, <2>3, Kinds DEF Handling, FetcherHas, ReaderHas, Alone
<1>9. CASE SkipEntry(r)
  <2>1. entry[r] \in 1 .. Len(Book) /\ Book[entry[r]] \in File
    <3>1. entry[r] \in 1 .. Len(Book)
      BY <1>3, <1>9 DEF SkipEntry, Handling, ReaderHas
    <3> QED BY <1>4, <3>1
  <2>2. entry' \in [Reader -> 1 .. Len(Book) + 1]
    BY <1>3, <1>9, <2>1 DEF SkipEntry, NextEntry, TypeOK
  <2>3. archive' \in [Reader -> [File -> Seq(Byte)]]
    <3>1. <<>> \in Seq(Byte)
      OBVIOUS
    <3> QED BY <1>9, <3>1 DEF SkipEntry, TypeOK
  <2>4. hurt' \in [Client -> SUBSET File] /\ faults' \in Nat
    BY <1>1, <1>9, <2>1 DEF SkipEntry, TypeOK
  <2>5. TypeOK'
    BY <1>1, <1>9, <2>2, <2>3, <2>4 DEF SkipEntry, NextEntry, TypeOK, Goto, Page
  <2>6. ReaderHas(r)'
    BY <1>1, <1>9 DEF SkipEntry, NextEntry, TypeOK, Goto, ReaderHas
  <2> QED BY <1>1, <1>2, <2>5, <2>6, Kinds DEF Handling, FetcherHas, ReaderHas, Alone
<1>8. CASE SendBook(r)
  <2>1. TypeOK'
    BY <1>1, <1>8 DEF SendBook, TypeOK, Goto, Page
  <2>2. ReaderHas(r)'
    BY <1>1, <1>8 DEF SendBook, TypeOK, Goto, ReaderHas
  <2> QED BY <1>1, <1>2, <2>1, <2>2, Kinds DEF Handling, FetcherHas, ReaderHas, Alone
<1> QED BY <1>5, <1>6, <1>7, <1>8, <1>9 DEF Compose

LEMMA FaultSound ==
  ASSUME Sound, Fault
  PROVE  Sound'
<1> USE DEF Sound
<1>1. UNCHANGED <<disk, checked, header, download, book, steady>>
  BY FaultSpares
<1>2. ASSUME NEW c \in Fetcher PROVE FetcherHas(c)'
  BY <1>2, FaultHits, FailureIs, Kinds DEF Handling, FetcherHas
<1>3. ASSUME NEW r \in Reader PROVE ReaderHas(r)'
  BY <1>1, <1>3, FaultCuts DEF Handling, ReaderHas, book
<1>4. TypeOK'
  <2>1. CASE Abort
    <3>1. /\ pc' \in [Client -> Page] /\ hurt' \in [Client -> SUBSET File]
          /\ handle' \in [Client -> Inode \cup {None}] /\ buffer' \in [Fetcher -> Nat]
          /\ faults' \in Nat
      BY <2>1, Kinds DEF Abort, TypeOK, Page
    <3>2. reply' \in [Fetcher -> Response \cup {None}]
      BY <2>1, FailureIs DEF Abort, TypeOK
    <3> QED BY <1>1, <3>1, <3>2 DEF TypeOK, disk, download, book
  <2>2. ASSUME NEW c \in Fetcher, IoError(c) PROVE TypeOK'
    <3>1. PICK status \in {"error", "closed"} : Fail(c, status)
      BY <2>2 DEF IoError
    <3>2. hurt' \in [Client -> SUBSET File] /\ faults' \in Nat
      BY <2>2, Kinds DEF IoError, TypeOK
    <3> QED BY <1>1, <3>1, <3>2, FailTypes DEF TypeOK, disk, download, book
  <2> QED BY <2>1, <2>2 DEF Fault
<1>5. Placed'
  BY <1>1 DEF Placed, disk
<1> QED BY <1>2, <1>3, <1>4, <1>5 DEF Handling

LEMMA SoundStep ==
  ASSUME Sound, [Next]_vars
  PROVE  Sound'
<1>1. CASE UNCHANGED vars
  BY <1>1 DEF vars, disk, request, download, book, history, trouble, Sound, TypeOK,
              Handling, FetcherHas, ReaderHas, Placed
<1> QED BY <1>1, OwnerSound, FaultSound, ChunkSound, VisitSound, DeviceSound, ReaderSound
        DEF Next

LEMMA SoundHolds == Spec => []Sound
BY InitSound, SoundStep, PTL DEF Spec

\* What is asked, opened, measured, sent and kept has its type, in every step
\* of every client.
THEOREM DownloadTypeCorrect == Spec => []TypeOK
<1>1. Sound => TypeOK
  BY DEF Sound
<1> QED BY <1>1, SoundHolds, PTL

-----------------------------------------------------------------------------
(* Chunks *)

\* The three outcomes of a read.
LEMMA ReadSteps ==
  ASSUME Sound, NEW c \in Fetcher, Read(c)
  PROVE  LET r == reply[c]
             n == Len(r.body)
             bytes == data[handle[c]]
         IN /\ pc[c] = "read" /\ r \in Response /\ r.status = "partial" /\ n \in Nat
            /\ handle[c] \in Inode /\ bytes \in Seq(Byte) /\ r.start \in Nat
            /\ \/ n = buffer[c] /\ pc'[c] = "answered" /\ reply'[c] = r
               \/ /\ n < buffer[c] /\ r.start + n + 1 <= Len(bytes)
                  /\ pc'[c] = "read" /\ handle'[c] = handle[c] /\ buffer'[c] = buffer[c]
                  /\ reply'[c] \in Response /\ reply'[c].status = "partial"
                  /\ reply'[c].start = r.start /\ reply'[c].end = r.end
                  /\ reply'[c].size = r.size
                  /\ Len(reply'[c].body) = n + 1
                  /\ reply'[c].body[n + 1] = bytes[r.start + n + 1]
                  /\ \A i \in 1 .. n : reply'[c].body[i] = r.body[i]
               \/ /\ n < buffer[c] /\ r.start + n + 1 > Len(bytes)
                  /\ pc'[c] = "answered" /\ reply'[c].status = "error"
<1> DEFINE r == reply[c]
           n == Len(r.body)
           bytes == data[handle[c]]
           b == bytes[r.start + n + 1]
<1>1. TypeOK /\ FetcherHas(c) /\ c \in Client /\ pc[c] = "read"
  BY Kinds DEF Sound, Handling, Read, ReadAt
<1>2. r \in Response /\ r.status = "partial" /\ handle[c] \in Inode
  BY <1>1 DEF FetcherHas
<1>3. r.body \in Seq(Byte) /\ r.start \in Nat /\ n \in Nat
  <2>1. r.body \in Seq(Byte) /\ r.start \in Nat
    BY <1>2, Numbers DEF Response
  <2> QED BY <2>1
<1>4. bytes \in Seq(Byte)
  BY <1>1, <1>2 DEF TypeOK
<1>5. CASE n = buffer[c] /\ Goto(c, "answered") /\ reply' = reply
  BY <1>1, <1>2, <1>3, <1>4, <1>5 DEF Goto, TypeOK
<1>6. CASE /\ n < buffer[c] /\ r.start + n + 1 <= Len(bytes)
           /\ reply' = [reply EXCEPT ![c].body = Append(@, b)]
           /\ UNCHANGED <<pc, header, handle, buffer>>
  <2>1. b \in Byte
    BY <1>3, <1>4, <1>6
  <2>2. Append(r.body, b) \in Seq(Byte) /\ Len(Append(r.body, b)) = n + 1
        /\ Append(r.body, b)[n + 1] = b /\ \A i \in 1 .. n : Append(r.body, b)[i] = r.body[i]
    BY <1>3, <2>1
  <2>3. reply'[c] = [r EXCEPT !.body = Append(@, b)]
    BY <1>1, <1>6 DEF TypeOK
  <2>4. /\ reply'[c] \in Response /\ reply'[c].body = Append(r.body, b)
        /\ reply'[c].status = r.status /\ reply'[c].start = r.start
        /\ reply'[c].end = r.end /\ reply'[c].size = r.size
    <3> HIDE DEF b, n, r, bytes
    <3>1. [r EXCEPT !.body = Append(@, b)] = [r EXCEPT !.body = Append(r.body, b)]
      OBVIOUS
    <3>2. reply'[c] = [r EXCEPT !.body = Append(r.body, b)]
      BY <2>3, <3>1
    <3>3. r \in Response /\ Append(r.body, b) \in Seq(Byte)
      BY <1>2, <2>2
    <3> DEFINE q == [r EXCEPT !.body = Append(r.body, b)]
    <3>4. /\ q \in Response /\ q.body = Append(r.body, b) /\ q.status = r.status
          /\ q.start = r.start /\ q.end = r.end /\ q.size = r.size
      BY <3>3, GrownReply
    <3>5. reply'[c] = q
      BY <3>2
    <3> HIDE DEF q
    <3> QED BY <3>4, <3>5
  <2> HIDE DEF b, n, r, bytes
  <2>5. pc'[c] = "read" /\ handle'[c] = handle[c] /\ buffer'[c] = buffer[c]
    BY <1>1, <1>6
  <2> QED BY <1>1, <1>2, <1>3, <1>4, <1>6, <2>2, <2>4, <2>5 DEF b, n, r, bytes
<1>7. CASE n < buffer[c] /\ r.start + n + 1 > Len(bytes) /\ Fail(c, "error")
  BY <1>1, <1>2, <1>3, <1>4, <1>7, FailTypes
<1> QED BY <1>5, <1>6, <1>7 DEF Read, ReadAt

\* Before Measure, a handler fails or goes on without a reply.
LEMMA EarlySteps ==
  ASSUME Sound, NEW c \in Fetcher, Exists(c) \/ Open(c)
  PROVE  \/ /\ pc'[c] = "answered" /\ reply'[c].status \in {"error", "closed"}
            /\ at[FileOf[c]] = None
         \/ Exists(c) /\ pc'[c] = "open"
         \/ Open(c) /\ pc'[c] = "measure" /\ handle'[c] = at[FileOf[c]] /\ handle'[c] # None
<1>1. TypeOK /\ c \in Client
  BY Kinds DEF Sound
<1>2. ASSUME NEW status \in {"error", "closed"}, Fail(c, status)
      PROVE  pc'[c] = "answered" /\ reply'[c].status \in {"error", "closed"}
  BY <1>1, <1>2, FailTypes
<1>3. CASE Exists(c)
  <2>1. CASE at[FileOf[c]] = None
    BY <1>2, <1>3, <2>1 DEF Exists
  <2>2. CASE at[FileOf[c]] # None
    BY <1>1, <1>3, <2>2 DEF Exists, Goto, TypeOK
  <2> QED BY <2>1, <2>2
<1>4. CASE Open(c)
  <2>1. CASE at[FileOf[c]] = None
    BY <1>2, <1>4, <2>1 DEF Open
  <2>2. CASE at[FileOf[c]] # None
    BY <1>1, <1>4, <2>2 DEF Open, Goto, TypeOK
  <2> QED BY <2>1, <2>2
<1> QED BY <1>3, <1>4

\* The reply is what it announces; "read" while it is filled in.
Exact(c) ==
  pc[c] \in {"read", "answered"} /\ reply[c].status = "partial" =>
    /\ \A i \in 1 .. Len(reply[c].body) : reply[c].body[i][3] = reply[c].start + i
    /\ reply[c].start <= reply[c].end /\ reply[c].end - reply[c].start < MaxUsize =>
         /\ pc[c] = "read" => buffer[c] = reply[c].end - reply[c].start + 1
         /\ pc[c] = "answered" => Len(reply[c].body) = reply[c].end - reply[c].start + 1

LEMMA ExactChunk ==
  ASSUME Sound, NEW c \in Fetcher, Exact(c), download_chunk(c)
  PROVE  Exact(c)'
<1>1. CASE Exists(c) \/ Open(c)
  BY <1>1, EarlySteps DEF Exact
<1>2. CASE Measure(c)
  <2> DEFINE size == Len(data[handle[c]])
  <2>1. CASE Fail(c, "closed") \/ Fail(c, "error")
    <3>1. reply'[c].status \in {"error", "closed"}
      BY <2>1, FailTypes DEF Sound
    <3> QED BY <3>1 DEF Exact
  <2>2. ASSUME NEW end, NEW n, Announced(c, header[c], size, end, n)
        PROVE  Exact(c)'
    <3>1. /\ reply'[c] = [status |-> "partial", start |-> First(header[c]), end |-> end,
                          size |-> size, body |-> <<>>]
          /\ buffer'[c] = n /\ pc'[c] = "read"
      BY <2>2, Kinds DEF Announced, Goto, Sound, TypeOK
    <3> HIDE DEF size
    <3> QED BY <2>2, <3>1 DEF Exact, Announced
  <2> QED BY <1>2, <2>1, <2>2, MeasureAnnounces
<1>3. CASE Read(c)
  <2> DEFINE r == reply[c]
             n == Len(r.body)
             bytes == data[handle[c]]
  <2>1. CASE n < buffer[c] /\ r.start + n + 1 <= Len(bytes)
    <3>1. bytes[r.start + n + 1][3] = r.start + n + 1
      BY <1>3, <2>1, ReadSteps DEF Sound, Placed
    <3>2. /\ pc[c] = "read" /\ pc'[c] = "read" /\ buffer'[c] = buffer[c] /\ n \in Nat
          /\ r.status = "partial" /\ r.start \in Nat
          /\ reply'[c].start = r.start /\ reply'[c].end = r.end
          /\ Len(reply'[c].body) = n + 1
          /\ reply'[c].body[n + 1] = bytes[r.start + n + 1]
          /\ \A i \in 1 .. n : reply'[c].body[i] = r.body[i]
      BY <1>3, <2>1, ReadSteps
    <3>3. \A i \in 1 .. n : r.body[i][3] = r.start + i
      BY <3>2 DEF Exact
    <3>4. ASSUME NEW i \in 1 .. n + 1
          PROVE  reply'[c].body[i][3] = r.start + i
      <4>1. CASE i = n + 1
        <5>1. reply'[c].body[i] = bytes[r.start + n + 1]
          BY <3>2, <4>1
        <5>2. \A x, y \in Nat : x + y + 1 = x + (y + 1)
          OBVIOUS
        <5> QED BY <3>1, <3>2, <4>1, <5>1, <5>2
      <4>2. CASE i # n + 1
        <5>1. i \in 1 .. n
          BY <3>2, <4>2
        <5> QED BY <3>2, <3>3, <5>1
      <4> QED BY <4>1, <4>2
    <3> QED BY <3>2, <3>4 DEF Exact
  <2>2. CASE ~(n < buffer[c] /\ r.start + n + 1 <= Len(bytes))
    <3>1. pc[c] = "read" /\ r.status = "partial" /\ n \in Nat
          /\ \/ n = buffer[c] /\ pc'[c] = "answered" /\ reply'[c] = r
             \/ pc'[c] = "answered" /\ reply'[c].status = "error"
      BY <1>3, <2>2, ReadSteps
    <3> QED BY <3>1 DEF Exact
  <2> QED BY <2>1, <2>2
<1> QED BY <1>1, <1>2, <1>3 DEF download_chunk

\* A client that asks again has no reply.
LEMMA AskSteps ==
  ASSUME Sound, NEW c \in Fetcher, NEW h, Ask(c, h)
  PROVE  pc'[c] = "exists" /\ header'[c] = h /\ handle'[c] = handle[c]
BY Kinds DEF Sound, TypeOK, Ask, Goto

LEMMA ExactStep ==
  ASSUME Sound, NEW c \in Fetcher, Exact(c), [Next]_vars
  PROVE  Exact(c)'
<1>1. CASE UNCHANGED vars
  BY <1>1 DEF vars, request, Exact
<1>2. CASE Owner
  BY <1>2, OwnerSound DEF request, Exact
<1>3. ASSUME NEW x \in Client \ {c}, Alone(x) PROVE Exact(c)'
  BY <1>3, Kinds DEF Alone, Exact
<1>4. ASSUME NEW x \in Fetcher, download_chunk(x) PROVE Exact(c)'
  BY <1>3, <1>4, ExactChunk, ChunkAlone, Kinds DEF Handled, Sound
<1>5. ASSUME NEW v \in Visitor, Visit(v) PROVE Exact(c)'
  BY <1>3, <1>5, VisitAlone, AskSteps, Kinds DEF Visit, Exact, Sound
<1>6. ASSUME NEW d \in Device, Proceed(d) PROVE Exact(c)'
  <2>1. CASE d = c
    <3>1. pc'[c] \in {"exists", "idle"}
      <4>1. CASE Begin(d) \/ Continue(d)
        BY <2>1, <4>1, AskSteps DEF Begin, Continue
      <4>2. CASE Receive(d)
        BY <2>1, <4>2, Kinds DEF Receive, Goto, Sound, TypeOK
      <4> QED BY <1>6, <4>1, <4>2 DEF Proceed
    <3> QED BY <3>1 DEF Exact
  <2> QED BY <1>3, <1>6, <2>1, DeviceAlone, Kinds DEF Sound
<1>7. ASSUME NEW r \in Reader, download_book(r) \/ Compose(r) PROVE Exact(c)'
  BY <1>3, <1>7, ReaderAlone, Kinds DEF Sound
<1>8. CASE Fault
  BY <1>8, FaultHits, FailureIs DEF Sound, Exact
<1> QED BY <1>1, <1>2, <1>4, <1>5, <1>6, <1>7, <1>8 DEF Next

\* A 206 carries the bytes that its Content-Range announces, each from its
\* place, while others write to the file.
THEOREM ChunkExactHolds == Spec => []ChunkExact
<1> DEFINE IInv == Sound /\ \A c \in Fetcher : Exact(c)
<1>1. Init => IInv
  BY InitSound, Kinds DEF Init, Exact
<1>2. IInv /\ [Next]_vars => IInv'
  BY SoundStep, ExactStep
<1>3. IInv => ChunkExact
  BY DEF ChunkExact, Exact
<1> HIDE DEF IInv
<1> QED BY <1>1, <1>2, <1>3, PTL DEF Spec

-----------------------------------------------------------------------------
(* Files that nobody writes to *)

\* What the owner does to files spares those that stay steady.
LEMMA OwnerSpares ==
  ASSUME Sound, Owner, NEW c \in Client, NEW f \in steady'[c]
  PROVE  /\ f \in steady[c] /\ f \in File
         /\ at'[f] = at[f] /\ Content(f)' = Content(f)
<1> USE DEF Sound, TypeOK
<1>1. ASSUME NEW g \in File, Disturb(g)
      PROVE  f \in steady[c] /\ f \in File /\ f # g
  BY <1>1 DEF Disturb
<1>2. ASSUME NEW g \in File, Truncate(g) \/ Write(g)
      PROVE  f \in steady[c] /\ f \in File /\ at' = at /\ Content(f)' = Content(f)
  <2>1. f # g /\ f \in steady[c] /\ f \in File
    BY <1>1, <1>2 DEF Truncate, Write
  <2>2. at[g] # None /\ at' = at /\ \A i \in Inode : i # at[g] => data'[i] = data[i]
    BY <1>2 DEF Truncate, Write
  <2>3. at[f] # None => at[f] \in Inode /\ at[f] # at[g]
    BY <2>1 DEF Placed
  <2> QED BY <2>1, <2>2, <2>3 DEF Content
<1>3. ASSUME NEW g \in File, Create(g)
      PROVE  f \in steady[c] /\ f \in File /\ at'[f] = at[f] /\ Content(f)' = Content(f)
  <2>1. f # g /\ f \in steady[c] /\ f \in File
    BY <1>1, <1>3 DEF Create
  <2>2. PICK i \in Inode : /\ \A h \in File : at[h] # i
                           /\ at' = [at EXCEPT ![g] = i]
                           /\ data' = [data EXCEPT ![i] = <<>>]
    BY <1>3 DEF Create
  <2>3. at'[f] = at[f] /\ (at[f] # None => data'[at[f]] = data[at[f]])
    BY <2>1, <2>2
  <2> QED BY <2>1, <2>3 DEF Content
<1>4. ASSUME NEW g \in File, Remove(g)
      PROVE  f \in steady[c] /\ f \in File /\ at'[f] = at[f] /\ Content(f)' = Content(f)
  <2>1. f # g /\ f \in steady[c] /\ f \in File
    BY <1>1, <1>4 DEF Remove
  <2>2. at'[f] = at[f] /\ data' = data
    BY <1>4, <2>1 DEF Remove
  <2> QED BY <2>1, <2>2 DEF Content
<1> QED BY <1>2, <1>3, <1>4 DEF Owner

\* The reply carries the bytes of a steady file from First(header) on.
Filled(c) ==
  LET r == reply[c]
      bytes == Content(FileOf[c])
  IN /\ r.start = First(header[c]) /\ r.size = Len(bytes)
     /\ \A i \in 1 .. Len(r.body) :
          r.start + i <= Len(bytes) /\ r.body[i] = bytes[r.start + i]

Wanted(c) == Last(header[c], Len(Content(FileOf[c]))) - First(header[c]) + 1

Serving(c) ==
  FileOf[c] \in steady[c] =>
    /\ pc[c] \in {"measure", "read"} => handle[c] = at[FileOf[c]]
    /\ pc[c] = "read" \/ (pc[c] = "answered" /\ reply[c].status = "partial") => Filled(c)
    /\ Within(header[c], Len(Content(FileOf[c]))) =>
         /\ pc[c] = "read" => buffer[c] = Wanted(c)
         /\ pc[c] = "answered" =>
              \/ reply[c].status = "partial" /\ Len(reply[c].body) = Wanted(c)
              \/ reply[c].status # "partial" /\ FileOf[c] \in hurt[c]

LEMMA ServingChunk ==
  ASSUME Sound, NEW c \in Fetcher, Serving(c), download_chunk(c)
  PROVE  Serving(c)'
<1> SUFFICES ASSUME FileOf[c] \in steady'[c] PROVE Serving(c)'
  BY DEF Serving
<1> DEFINE f == FileOf[c]
           h == header[c]
           bytes == Content(f)
<1>1. Handled(c) /\ TypeOK /\ FetcherHas(c) /\ c \in Client /\ f \in File
  BY ChunkAlone, Kinds DEF Sound, Handling
<1>2. f \in steady[c] /\ at' = at /\ data' = data /\ header' = header
  BY <1>1 DEF Handled, Alone, disk, history
<1>3. h \in Header /\ First(h) \in Nat
  <2>1. h \in Header
    BY <1>1 DEF TypeOK
  <2> QED BY <2>1, RangeNumbers
<1>4. bytes \in Seq(Byte) /\ Content(f)' = bytes
  BY <1>1, <1>2 DEF TypeOK, Content
<1>5. Within(h, Len(bytes))' = Within(h, Len(bytes)) /\ Wanted(c)' = Wanted(c)
  BY <1>2, <1>4 DEF Within, Wanted
<1>6. CASE Exists(c) \/ Open(c)
  <2>1. CASE at[f] = None
    <3>1. ~Within(h, Len(bytes))
      <4>1. Len(bytes) = 0
        BY <2>1 DEF Content
      <4> HIDE DEF bytes, h
      <4> QED BY <1>3, <4>1, RangeNumbers
    <3>2. pc'[c] # "read" /\ pc'[c] # "measure"
          /\ (pc'[c] = "answered" => reply'[c].status # "partial")
      BY <1>6, <2>1, EarlySteps
    <3> QED BY <1>5, <3>1, <3>2 DEF Serving
  <2>2. CASE at[f] # None
    BY <1>2, <1>6, <2>2, EarlySteps DEF Serving
  <2> QED BY <2>1, <2>2
<1>7. CASE Measure(c)
  <2> DEFINE size == Len(data[handle[c]])
  <2>1. handle[c] = at[f] /\ handle[c] \in Inode /\ handle[c] # None
    BY <1>1, <1>2, <1>7, ClientsAssumption DEF Measure, Serving, FetcherHas
  <2>2. size = Len(bytes)
    BY <2>1 DEF Content
  <2>3. CASE Fail(c, "closed") \/ Fail(c, "error")
    <3>1. pc'[c] = "answered" /\ reply'[c].status # "partial"
      BY <1>1, <2>3, FailTypes
    <3>2. ASSUME NEW end, NEW n, Announced(c, h, size, end, n) PROVE FALSE
      BY <1>1, <3>1, <3>2 DEF Announced, Goto, TypeOK
    <3>3. ~Within(h, Len(bytes))
      BY <1>7, <2>2, <3>2, MeasureAnnounces
    <3> QED BY <1>5, <3>1, <3>3 DEF Serving
  <2>4. ASSUME NEW end, NEW n, Announced(c, h, size, end, n)
        PROVE  Serving(c)'
    <3>1. /\ reply'[c] = [status |-> "partial", start |-> First(h), end |-> end,
                          size |-> size, body |-> <<>>]
          /\ buffer'[c] = n /\ pc'[c] = "read" /\ handle' = handle
      BY <1>1, <2>4 DEF Announced, Goto, TypeOK
    <3>2. Filled(c)'
      BY <1>2, <1>4, <2>2, <3>1 DEF Filled
    <3>3. ASSUME Within(h, Len(bytes)) PROVE n = Wanted(c)
      <4>1. Len(bytes) > 0 /\ Last(h, Len(bytes)) \in Int
        BY <1>3, <1>4, <3>3, RangeNumbers
      <4>2. end = Last(h, Len(bytes))
        BY <2>2, <2>4, <4>1 DEF Announced
      <4>3. First(h) <= end /\ end - First(h) < Memory
        BY <3>3, <4>2 DEF Within
      <4>4. end - First(h) < MaxUsize
        BY <1>3, <4>1, <4>2, <4>3, WordsAssumption
      <4> QED BY <2>4, <4>2, <4>3, <4>4 DEF Announced, Wanted
    <3> QED BY <1>2, <1>5, <2>1, <3>1, <3>2, <3>3 DEF Serving
  <2> QED BY <1>7, <2>3, <2>4, MeasureAnnounces
<1>8. CASE Read(c)
  <2> DEFINE r == reply[c]
             n == Len(r.body)
  <2>1. /\ pc[c] = "read" /\ r.status = "partial" /\ n \in Nat /\ handle[c] = at[f]
        /\ handle[c] \in Inode /\ Filled(c) /\ r.start = First(h)
        /\ Within(h, Len(bytes)) => buffer[c] = Wanted(c)
    BY <1>2, <1>8, ReadSteps DEF Serving, Filled
  <2>2. data[handle[c]] = bytes
    BY <2>1, ClientsAssumption DEF Content
  <2>3. CASE /\ n < buffer[c] /\ First(h) + n + 1 <= Len(bytes)
    <3>1. /\ pc'[c] = "read" /\ handle'[c] = handle[c] /\ buffer'[c] = buffer[c]
          /\ reply'[c].start = r.start /\ reply'[c].size = r.size
          /\ Len(reply'[c].body) = n + 1
          /\ reply'[c].body[n + 1] = bytes[First(h) + n + 1]
          /\ \A i \in 1 .. n : reply'[c].body[i] = r.body[i]
      BY <1>8, <2>1, <2>2, <2>3, ReadSteps
    <3>2. \A i \in 1 .. n : First(h) + i <= Len(bytes) /\ r.body[i] = bytes[First(h) + i]
      BY <2>1 DEF Filled
    <3>3. ASSUME NEW i \in 1 .. n + 1
          PROVE  First(h) + i <= Len(bytes) /\ reply'[c].body[i] = bytes[First(h) + i]
      <4>1. CASE i = n + 1
        <5>1. First(h) + n + 1 = First(h) + i
          BY <1>3, <2>1, <4>1
        <5> QED BY <2>3, <3>1, <4>1, <5>1
      <4>2. CASE i # n + 1
        <5>1. i \in 1 .. n
          BY <2>1, <4>2
        <5> QED BY <3>1, <3>2, <5>1
      <4> QED BY <4>1, <4>2
    <3>4. Filled(c)'
      BY <1>2, <1>4, <2>1, <3>1, <3>3 DEF Filled
    <3> QED BY <1>2, <1>5, <2>1, <3>1, <3>4 DEF Serving
  <2>4. CASE n = buffer[c] /\ pc'[c] = "answered" /\ reply'[c] = r
    <3>1. Filled(c)'
      BY <1>2, <1>4, <2>1, <2>4 DEF Filled
    <3> QED BY <1>2, <1>5, <2>1, <2>4, <3>1 DEF Serving
  <2>5. CASE /\ n < buffer[c] /\ First(h) + n + 1 > Len(bytes)
             /\ pc'[c] = "answered" /\ reply'[c].status = "error"
    <3>1. ~Within(h, Len(bytes))
      <4> SUFFICES ASSUME Within(h, Len(bytes)) PROVE FALSE
        OBVIOUS
      <4>1. Last(h, Len(bytes)) \in Int /\ Len(bytes) \in Nat
        BY <1>3, <1>4, RangeNumbers
      <4>2. n < Last(h, Len(bytes)) - First(h) + 1 /\ Last(h, Len(bytes)) < Len(bytes)
        BY <2>1, <2>5 DEF Wanted, Within
      <4> HIDE DEF n, bytes, h
      <4> QED BY <1>3, <2>1, <2>5, <4>1, <4>2
    <3> QED BY <1>5, <2>5, <3>1 DEF Serving
  <2> QED BY <1>8, <2>1, <2>2, <2>3, <2>4, <2>5, ReadSteps
<1> QED BY <1>6, <1>7, <1>8 DEF download_chunk

\* Between requests nothing is promised.
LEMMA ServingStep ==
  ASSUME Sound, NEW c \in Fetcher, Serving(c), [Next]_vars
  PROVE  Serving(c)'
<1>1. CASE UNCHANGED vars
  BY <1>1 DEF vars, disk, request, history, trouble, Serving, Filled, Wanted, Within, Content
<1>2. CASE Owner
  <2> SUFFICES ASSUME FileOf[c] \in steady'[c] PROVE Serving(c)'
    BY DEF Serving
  <2>1. /\ FileOf[c] \in steady[c] /\ at'[FileOf[c]] = at[FileOf[c]]
        /\ Content(FileOf[c])' = Content(FileOf[c])
    BY <1>2, OwnerSpares, Kinds
  <2> QED BY <1>2, <2>1, OwnerSound DEF request, trouble, Serving, Filled, Wanted
<1>3. ASSUME NEW x \in Client \ {c}, Alone(x) PROVE Serving(c)'
  BY <1>3, Kinds DEF Alone, disk, Serving, Filled, Wanted, Within, Content
<1>4. ASSUME NEW x \in Fetcher, download_chunk(x) PROVE Serving(c)'
  BY <1>3, <1>4, ServingChunk, ChunkAlone, Kinds DEF Handled, Sound
<1>5. ASSUME NEW v \in Visitor, Visit(v) PROVE Serving(c)'
  BY <1>3, <1>5, VisitAlone, AskSteps, Kinds DEF Visit, Serving, Sound
<1>6. ASSUME NEW d \in Device, Proceed(d) PROVE Serving(c)'
  <2>1. CASE d = c
    <3>1. pc'[c] \in {"exists", "idle"}
      <4>1. CASE Begin(d) \/ Continue(d)
        BY <2>1, <4>1, AskSteps DEF Begin, Continue
      <4>2. CASE Receive(d)
        BY <2>1, <4>2, Kinds DEF Receive, Goto, Sound, TypeOK
      <4> QED BY <1>6, <4>1, <4>2 DEF Proceed
    <3> QED BY <3>1 DEF Serving
  <2> QED BY <1>3, <1>6, <2>1, DeviceAlone, Kinds DEF Sound
<1>7. ASSUME NEW r \in Reader, download_book(r) \/ Compose(r) PROVE Serving(c)'
  BY <1>3, <1>7, ReaderAlone, Kinds DEF Sound
<1>8. CASE Fault
  <2>1. /\ UNCHANGED <<at, data, header, steady>>
        /\ Content(FileOf[c])' = Content(FileOf[c])
    BY <1>8, FaultSpares DEF disk, Content
  <2> QED BY <1>8, <2>1, FaultHits, FailureIs DEF Sound, Serving, Filled, Wanted
<1> QED BY <1>1, <1>2, <1>4, <1>5, <1>6, <1>7, <1>8 DEF Next

LEMMA SubSeqIs ==
  ASSUME NEW s \in Seq(Byte), NEW b \in Seq(Byte), NEW m \in Nat, NEW n \in Nat,
         m <= n, n < Len(s), Len(b) = n - m + 1,
         \A i \in 1 .. Len(b) : b[i] = s[m + i]
  PROVE  b = SubSeq(s, m + 1, n + 1)
<1>1. SubSeq(s, m + 1, n + 1) = [i \in 1 .. n - m + 1 |-> s[m + i]]
  OBVIOUS
<1>2. b = [i \in 1 .. Len(b) |-> b[i]]
  OBVIOUS
<1> QED BY <1>1, <1>2

\* A range within a file that nobody writes to gets its bytes, or fails by an
\* error or an abort that hit its client.
THEOREM SteadyChunkServedHolds == Spec => []SteadyChunkServed
<1> DEFINE IInv == Sound /\ \A c \in Fetcher : Serving(c)
<1>1. Init => IInv
  BY InitSound, Kinds DEF Init, Serving
<1>2. IInv /\ [Next]_vars => IInv'
  BY SoundStep, ServingStep
<1>3. IInv => SteadyChunkServed
  <2> SUFFICES ASSUME IInv, NEW c \in Fetcher, pc[c] = "answered", FileOf[c] \in steady[c],
                      Within(header[c], Len(Content(FileOf[c])))
               PROVE  IF reply[c].status = "partial"
                      THEN reply[c].body =
                             SubSeq(Content(FileOf[c]), First(header[c]) + 1,
                                    Last(header[c], Len(Content(FileOf[c]))) + 1)
                      ELSE FileOf[c] \in hurt[c]
    BY DEF SteadyChunkServed, Within
  <2> DEFINE h == header[c]
             bytes == Content(FileOf[c])
             b == reply[c].body
  <2>0. CASE reply[c].status # "partial"
    BY <2>0 DEF Serving
  <2> SUFFICES ASSUME reply[c].status = "partial"
               PROVE  b = SubSeq(bytes, First(h) + 1, Last(h, Len(bytes)) + 1)
    BY <2>0
  <2>1. Len(b) = Wanted(c) /\ Filled(c)
    BY DEF Serving
  <2>2. reply[c] \in Response /\ h \in Header /\ FileOf[c] \in File
    BY Kinds DEF Sound, Handling, FetcherHas, TypeOK
  <2>3. b \in Seq(Byte) /\ bytes \in Seq(Byte)
    BY <2>2 DEF Response, Content, Sound, TypeOK
  <2>4. First(h) \in Nat /\ Last(h, Len(bytes)) \in Int
    BY <2>2, <2>3, RangeNumbers
  <2>5. First(h) <= Last(h, Len(bytes)) /\ Last(h, Len(bytes)) < Len(bytes)
    BY DEF Within
  <2>6. Last(h, Len(bytes)) \in Nat
    BY <2>4, <2>5
  <2>7. \A i \in 1 .. Len(b) : b[i] = bytes[First(h) + i]
    BY <2>1 DEF Filled
  <2>8. Len(b) = Last(h, Len(bytes)) - First(h) + 1
    BY <2>1 DEF Wanted
  <2> HIDE DEF IInv, h, bytes, b
  <2> QED BY <2>3, <2>4, <2>5, <2>6, <2>7, <2>8, SubSeqIs
<1> HIDE DEF IInv
<1> QED BY <1>1, <1>2, <1>3, PTL DEF Spec

-----------------------------------------------------------------------------
(* Devices *)

\* What a device has of a steady file is its beginning, and its next request
\* asks for what follows.
Keeping(d) ==
  LET bytes == Content(FileOf[d])
  IN /\ total[d] = None => copy[d] = <<>>
     /\ FileOf[d] \in steady[d] =>
          /\ Len(copy[d]) <= Len(bytes)
          /\ \A i \in 1 .. Len(copy[d]) : copy[d][i] = bytes[i]
          /\ total[d] # None => total[d] = Len(bytes)
          /\ pc[d] # "idle" => First(header[d]) = Len(copy[d])

LEMMA KeepingReceive ==
  ASSUME Sound, NEW d \in Device, Serving(d), Keeping(d), Receive(d)
  PROVE  Keeping(d)'
<1> DEFINE f == FileOf[d]
           bytes == Content(f)
           b == reply[d].body
           n == Len(copy[d])
<1>1. /\ TypeOK /\ FetcherHas(d) /\ d \in Fetcher /\ d \in Client /\ f \in File
      /\ pc[d] = "answered" /\ reply[d] \in Response
  BY Kinds DEF Sound, Handling, FetcherHas, Receive
<1>2. /\ pc'[d] = "idle" /\ Content(f)' = bytes /\ steady' = steady /\ header' = header
  BY <1>1 DEF Receive, Goto, TypeOK, Content, disk, request, history
<1>3. CASE reply[d].status # "partial"
  <2>1. copy'[d] = <<>> /\ total'[d] = None
    BY <1>1, <1>3 DEF Receive, TypeOK
  <2>2. bytes \in Seq(Byte)
    BY <1>1 DEF TypeOK, Content
  <2> QED BY <1>2, <2>1, <2>2 DEF Keeping
<1>4. CASE reply[d].status = "partial"
  <2>1. b \in Seq(Byte) /\ reply[d].size \in Nat /\ copy[d] \in Seq(Byte) /\ bytes \in Seq(Byte)
    BY <1>1, WordsAssumption DEF TypeOK, Response, Content
  <2>2. /\ copy'[d] = copy[d] \o b
        /\ total'[d] = IF total[d] = None THEN reply[d].size ELSE total[d]
    BY <1>1, <1>4 DEF Receive, TypeOK
  <2>3. total'[d] # None
    BY <2>1, <2>2, ClientsAssumption
  <2>4. ASSUME f \in steady[d]
        PROVE  /\ Len(copy'[d]) <= Len(bytes) /\ total'[d] = Len(bytes)
               /\ \A i \in 1 .. Len(copy'[d]) : copy'[d][i] = bytes[i]
    <3>1. /\ n <= Len(bytes) /\ \A i \in 1 .. n : copy[d][i] = bytes[i]
          /\ total[d] # None => total[d] = Len(bytes)
          /\ First(header[d]) = n
      BY <1>1, <2>4 DEF Keeping
    <3>2. reply[d].size = Len(bytes) /\ reply[d].start = n
          /\ \A i \in 1 .. Len(b) : n + i <= Len(bytes) /\ b[i] = bytes[n + i]
      BY <1>1, <1>4, <2>4, <3>1 DEF Serving, Filled
    <3> HIDE DEF b, n, bytes, f
    <3>3. n \in Nat /\ Len(b) \in Nat /\ Len(bytes) \in Nat
      BY <2>1 DEF n
    <3>4. Len(copy'[d]) = n + Len(b)
          /\ (\A i \in 1 .. n : copy'[d][i] = copy[d][i])
          /\ \A i \in 1 .. Len(b) : copy'[d][n + i] = b[i]
      BY <2>1, <2>2 DEF n
    <3>5. Len(copy'[d]) <= Len(bytes)
      <4>1. CASE Len(b) = 0
        BY <3>1, <3>3, <3>4, <4>1
      <4>2. CASE Len(b) # 0
        <5>1. Len(b) \in 1 .. Len(b)
          BY <3>3, <4>2
        <5> QED BY <3>2, <3>4, <5>1
      <4> QED BY <4>1, <4>2
    <3>6. ASSUME NEW i \in 1 .. Len(copy'[d]) PROVE copy'[d][i] = bytes[i]
      <4>1. CASE i <= n
        BY <3>1, <3>3, <3>4, <4>1
      <4>2. CASE i > n
        <5>1. i - n \in 1 .. Len(b) /\ n + (i - n) = i
          BY <3>3, <3>4, <4>2
        <5> QED BY <3>2, <3>4, <5>1
      <4> QED BY <3>3, <4>1, <4>2
    <3> QED BY <2>2, <3>1, <3>2, <3>5, <3>6
  <2> QED BY <1>2, <2>3, <2>4 DEF Keeping
<1> QED BY <1>3, <1>4

LEMMA KeepingStep ==
  ASSUME Sound, NEW d \in Device, Serving(d), Keeping(d), [Next]_vars
  PROVE  Keeping(d)'
<1>1. CASE UNCHANGED vars
  BY <1>1 DEF vars, disk, request, download, history, Keeping, Content
<1>2. CASE Owner
  <2>1. \/ Content(FileOf[d])' = Content(FileOf[d]) /\ FileOf[d] \in steady[d]
        \/ FileOf[d] \notin steady'[d]
    BY <1>2, OwnerSpares, Kinds
  <2> QED BY <1>2, <2>1, OwnerSound DEF request, download, Keeping
<1>3. ASSUME NEW x \in Client \ {d}, Alone(x) PROVE Keeping(d)'
  BY <1>3, Kinds DEF Alone, disk, Keeping, Content
<1>4. ASSUME NEW x \in Fetcher, download_chunk(x) PROVE Keeping(d)'
  <2>1. Handled(x) /\ x \in Client
    BY <1>4, ChunkAlone, Kinds DEF Sound
  <2>2. CASE x = d
    <3>1. pc[d] # "idle"
      BY <1>4, <2>2 DEF download_chunk, Exists, Open, Measure, Read, ReadAt
    <3> QED BY <2>1, <2>2, <3>1 DEF Handled, Alone, disk, download, history, Keeping, Content
  <2> QED BY <1>3, <2>1, <2>2 DEF Handled
<1>5. ASSUME NEW v \in Visitor, Visit(v) PROVE Keeping(d)'
  BY <1>3, <1>5, VisitAlone, Kinds DEF Sound
<1>6. ASSUME NEW x \in Device, Proceed(x) PROVE Keeping(d)'
  <2>1. CASE Begin(d)
    <3>1. /\ UNCHANGED <<at, data, copy, total>> /\ total[d] = None
          /\ header'[d] = [start |-> 0, end |-> 0]
      BY <2>1, AskSteps, Kinds DEF Begin, Ask, disk, download
    <3>2. copy[d] = <<>> /\ Len(copy[d]) = 0 /\ First(header'[d]) = 0
      BY <3>1, Numbers DEF Keeping, First, Field
    <3>3. Content(FileOf[d]) \in Seq(Byte) /\ Content(FileOf[d])' = Content(FileOf[d])
      BY <3>1, Kinds DEF Content, Sound, TypeOK
    <3> QED BY <3>1, <3>2, <3>3 DEF Keeping, First
  <2>2. CASE Continue(d)
    <3>1. /\ UNCHANGED <<at, data, copy, total, steady>> /\ total[d] # None
          /\ header'[d].start = Len(copy[d])
      BY <2>2, AskSteps, Kinds DEF Continue, Ask, disk, download, history
    <3>2. First(header'[d]) = Len(copy[d])
      <4>1. Len(copy[d]) \in Nat
        BY DEF Sound, TypeOK
      <4> QED BY <3>1, <4>1, ClientsAssumption DEF First, Field
    <3> QED BY <3>1, <3>2 DEF Keeping, Content, First
  <2>3. CASE Receive(d)
    BY <2>3, KeepingReceive
  <2>4. CASE x # d
    BY <1>3, <1>6, <2>4, DeviceAlone, Kinds DEF Sound
  <2> QED BY <1>6, <2>1, <2>2, <2>3, <2>4 DEF Proceed
<1>7. ASSUME NEW r \in Reader, download_book(r) \/ Compose(r) PROVE Keeping(d)'
  BY <1>3, <1>7, ReaderAlone, Kinds DEF Sound
<1>8. CASE Fault
  BY <1>8, FaultSpares, FaultHits, Kinds DEF Sound, Keeping, Content, disk, download
<1> QED BY <1>1, <1>2, <1>4, <1>5, <1>6, <1>7, <1>8 DEF Next

\* A download that nobody wrote into is the file.
THEOREM WholeCopyHolds == Spec => []WholeCopy
<1> DEFINE IInv == /\ Sound /\ \A c \in Fetcher : Serving(c)
                   /\ \A d \in Device : Keeping(d)
<1>1. Init => IInv
  BY InitSound, Kinds DEF Init, Serving, Keeping
<1>2. IInv /\ [Next]_vars => IInv'
  BY SoundStep, ServingStep, KeepingStep, Kinds
<1>3. IInv => WholeCopy
  <2> SUFFICES ASSUME IInv, NEW d \in Device, Complete(d), FileOf[d] \in steady[d]
               PROVE  copy[d] = Content(FileOf[d])
    BY DEF WholeCopy
  <2> DEFINE bytes == Content(FileOf[d])
  <2>1. copy[d] \in Seq(Byte) /\ bytes \in Seq(Byte)
    BY Kinds DEF Sound, TypeOK, Content
  <2>2. Len(copy[d]) = Len(bytes) /\ \A i \in 1 .. Len(copy[d]) : copy[d][i] = bytes[i]
    BY <2>1 DEF Keeping, Complete
  <2> HIDE DEF bytes, IInv
  <2>3. copy[d] = bytes
    BY <2>1, <2>2
  <2> QED BY <2>3 DEF bytes
<1> HIDE DEF IInv
<1> QED BY <1>1, <1>2, <1>3, PTL DEF Spec

-----------------------------------------------------------------------------
(* Archives *)

\* How far the archive has come with the file at place p of the book.
PackedAt(r, p) ==
  LET f == Book[p]
      a == archive[r][f]
      bytes == Content(f)
  IN f \in steady[r] /\ pc[r] \in {"entry", "read", "sent"} =>
       /\ p < entry[r] => a = bytes \/ (a = <<>> /\ f \in hurt[r])
       /\ p > entry[r] \/ (p = entry[r] /\ pc[r] = "entry") => a = <<>>
       /\ p = entry[r] /\ pc[r] = "read" =>
            /\ handle[r] = at[f]
            /\ Len(a) <= Len(bytes)
            /\ \A i \in 1 .. Len(a) : a[i] = bytes[i]

Packing(r) ==
  /\ pc[r] = "sent" => entry[r] > Len(Book)
  /\ \A p \in 1 .. Len(Book) : PackedAt(r, p)

LEMMA BookNumbers ==
  /\ Len(Book) \in Nat
  /\ \A p \in 1 .. Len(Book) : Book[p] \in File /\ p \in Nat
  /\ \A e \in 1 .. Len(Book) + 1 : e \in Nat
BY ClientsAssumption

LEMMA PackedOpen ==
  ASSUME Sound, NEW r \in Reader, NEW p \in 1 .. Len(Book), PackedAt(r, p), OpenEntry(r)
  PROVE  PackedAt(r, p)'
<1>1. TypeOK /\ r \in Client /\ pc[r] = "entry" /\ entry[r] \in Nat /\ p \in Nat
  BY Kinds DEF Sound, TypeOK, OpenEntry
<1>2. UNCHANGED <<at, data, archive, steady, hurt>> /\ Content(Book[p])' = Content(Book[p])
  BY DEF OpenEntry, disk, history, trouble, Content
<1>3. CASE at[Book[entry[r]]] = None
  <2>1. entry'[r] = entry[r] + 1 /\ pc'[r] = "entry"
    BY <1>1, <1>3 DEF OpenEntry, NextEntry, Goto, TypeOK
  <2>2. p < entry'[r] => p < entry[r] \/ p = entry[r]
    BY <1>1, <2>1
  <2>3. p >= entry'[r] => p > entry[r]
    BY <1>1, <2>1
  <2>4. p = entry[r] => Content(Book[p]) = <<>>
    BY <1>3 DEF Content
  <2>5. p = entry'[r] \/ p > entry'[r] => p >= entry'[r]
    BY <1>1, <2>1
  <2> QED BY <1>1, <1>2, <2>1, <2>2, <2>3, <2>4, <2>5 DEF PackedAt
<1>4. CASE at[Book[entry[r]]] # None
  <2>1. entry' = entry /\ pc'[r] = "read" /\ handle'[r] = at[Book[entry[r]]]
    BY <1>1, <1>4 DEF OpenEntry, Goto, TypeOK
  <2>2. Content(Book[p]) \in Seq(Byte)
    <3>1. Book[p] \in File
      BY BookNumbers
    <3> HIDE DEF Sound
    <3>2. CASE at[Book[p]] = None
      BY <3>2 DEF Content
    <3>3. CASE at[Book[p]] # None
      BY <1>1, <3>1, <3>3 DEF Content, TypeOK
    <3> QED BY <3>2, <3>3
  <2>3. Len(<<>>) <= Len(Content(Book[p]))
    BY <2>2
  <2> QED BY <1>1, <1>2, <2>1, <2>3 DEF PackedAt
<1> QED BY <1>3, <1>4

LEMMA PackedRead ==
  ASSUME Sound, NEW r \in Reader, NEW p \in 1 .. Len(Book), PackedAt(r, p), ReadEntry(r)
  PROVE  PackedAt(r, p)'
<1> DEFINE g == Book[entry[r]]
           n == Len(archive[r][g])
           f == Book[p]
           a == archive[r][f]
           bytes == Content(f)
<1> SUFFICES ASSUME f \in steady'[r] PROVE PackedAt(r, p)'
  BY DEF PackedAt
<1>1. /\ TypeOK /\ r \in Client /\ pc[r] = "read" /\ p \in Nat
      /\ entry[r] \in 1 .. Len(Book) /\ handle[r] \in Inode
  BY Kinds DEF Sound, TypeOK, ReadEntry, Handling, ReaderHas
<1>2. f \in File /\ g \in File /\ (f = g => p = entry[r])
  <2>1. p \in 1 .. Len(Book) /\ entry[r] \in 1 .. Len(Book)
    BY <1>1
  <2>2. \A i \in 1 .. Len(Book) : Book[i] \in File
    BY ClientsAssumption
  <2> QED BY <2>1, <2>2, ClientsAssumption
<1>3. /\ UNCHANGED <<at, data, steady, hurt>> /\ Content(f)' = bytes /\ f \in steady[r]
  BY DEF ReadEntry, disk, history, trouble, Content
<1>4. a \in Seq(Byte) /\ bytes \in Seq(Byte) /\ archive[r][g] \in Seq(Byte) /\ n \in Nat
      /\ data[handle[r]] \in Seq(Byte)
  BY <1>1, <1>2 DEF TypeOK, Content
<1>5. p = entry[r] => /\ a = archive[r][g] /\ data[handle[r]] = bytes /\ n <= Len(bytes)
                      /\ handle[r] = at[f] /\ \A i \in 1 .. n : a[i] = bytes[i]
  BY <1>1, <1>3, ClientsAssumption DEF PackedAt, Content
<1>6. CASE /\ n < Len(data[handle[r]])
           /\ archive' = [archive EXCEPT ![r][g] = Append(@, data[handle[r]][n + 1])]
           /\ UNCHANGED <<pc, handle, entry>>
  <2>1. CASE p = entry[r]
    <3> DEFINE b == Append(a, bytes[n + 1])
    <3>1. archive'[r][f] = b
      BY <1>1, <1>2, <1>5, <1>6, <2>1 DEF TypeOK
    <3>2. bytes[n + 1] \in Byte /\ n < Len(bytes) /\ n = Len(a)
      BY <1>4, <1>5, <1>6, <2>1
    <3>3. Len(b) = n + 1 /\ b[n + 1] = bytes[n + 1] /\ \A i \in 1 .. n : b[i] = a[i]
      BY <1>4, <3>2
    <3>4. Len(b) <= Len(bytes) /\ \A i \in 1 .. Len(b) : b[i] = bytes[i]
      <4>1. ASSUME NEW i \in 1 .. n + 1 PROVE b[i] = bytes[i]
        <5>1. CASE i = n + 1
          BY <3>3, <5>1
        <5>2. CASE i # n + 1
          <6>1. i \in 1 .. n
            BY <1>4, <5>2
          <6> QED BY <1>5, <2>1, <3>3, <6>1
        <5> QED BY <5>1, <5>2
      <4> QED BY <1>4, <3>2, <3>3, <4>1
    <3> HIDE DEF b
    <3> QED BY <1>1, <1>3, <1>5, <1>6, <2>1, <3>1, <3>4 DEF PackedAt
  <2>2. CASE p # entry[r]
    <3>1. archive'[r][f] = a
      BY <1>2, <1>6, <2>2 DEF Sound, TypeOK
    <3> QED BY <1>1, <1>3, <1>6, <2>2, <3>1 DEF PackedAt
  <2> QED BY <2>1, <2>2
<1>7. CASE n >= Len(data[handle[r]]) /\ NextEntry(r) /\ UNCHANGED archive
  <2>1. entry'[r] = entry[r] + 1 /\ pc'[r] = "entry"
    BY <1>1, <1>7 DEF NextEntry, Goto, TypeOK
  <2>2. p = entry[r] => a = bytes
    <3>1. ASSUME p = entry[r]
          PROVE  Len(a) = Len(bytes) /\ \A i \in 1 .. Len(a) : a[i] = bytes[i]
      BY <1>4, <1>5, <1>7, <3>1
    <3> HIDE DEF a, bytes
    <3> QED BY <1>4, <3>1
  <2>3. p < entry'[r] => p < entry[r] \/ p = entry[r]
    BY <1>1, <2>1
  <2>4. p = entry'[r] \/ p > entry'[r] => p > entry[r]
    BY <1>1, <2>1
  <2> QED BY <1>1, <1>3, <1>7, <2>1, <2>2, <2>3, <2>4 DEF PackedAt
<1>8. CASE Goto(r, "closed")
  BY <1>1, <1>8 DEF Goto, TypeOK, PackedAt
<1> QED BY <1>6, <1>7, <1>8 DEF ReadEntry

\* The entry whose reading failed is empty, and it is marked.
LEMMA PackedSkip ==
  ASSUME Sound, NEW r \in Reader, NEW p \in 1 .. Len(Book), PackedAt(r, p), SkipEntry(r)
  PROVE  PackedAt(r, p)'
<1> DEFINE g == Book[entry[r]]
           f == Book[p]
<1>1. /\ TypeOK /\ r \in Client /\ pc[r] \in {"read", "entry"} /\ p \in Nat
      /\ entry[r] \in 1 .. Len(Book) /\ entry[r] \in Nat
  BY Kinds DEF Sound, TypeOK, SkipEntry, Handling, ReaderHas
<1>2. f \in File /\ g \in File /\ (f = g => p = entry[r])
  <2>1. p \in 1 .. Len(Book) /\ entry[r] \in 1 .. Len(Book)
    BY <1>1
  <2>2. \A i \in 1 .. Len(Book) : Book[i] \in File
    BY ClientsAssumption
  <2> QED BY <2>1, <2>2, ClientsAssumption
<1>3. UNCHANGED <<at, data, steady>> /\ Content(f)' = Content(f)
  BY DEF SkipEntry, disk, Content
<1>4. entry'[r] = entry[r] + 1 /\ pc'[r] = "entry"
  BY <1>1 DEF SkipEntry, NextEntry, Goto, TypeOK
<1>5. /\ hurt'[r] = hurt[r] \cup {g}
      /\ archive'[r][f] = IF f = g THEN <<>> ELSE archive[r][f]
  BY <1>1, <1>2 DEF SkipEntry, TypeOK
<1>6. p < entry'[r] => p < entry[r] \/ p = entry[r]
  BY <1>1, <1>4
<1>7. p = entry'[r] \/ p > entry'[r] => p > entry[r]
  BY <1>1, <1>4
<1> QED BY <1>1, <1>2, <1>3, <1>4, <1>5, <1>6, <1>7 DEF PackedAt

LEMMA PackingStep ==
  ASSUME Sound, NEW r \in Reader, Packing(r), [Next]_vars
  PROVE  Packing(r)'
<1> USE Kinds DEF Sound
<1>1. CASE UNCHANGED vars
  BY <1>1 DEF vars, disk, request, book, history, trouble, Packing, PackedAt, Content
<1>2. CASE Owner
  <2> SUFFICES ASSUME NEW p \in 1 .. Len(Book), Book[p] \in steady'[r]
               PROVE  PackedAt(r, p)'
    BY <1>2, OwnerSound DEF Packing, PackedAt, book
  <2>1. /\ Book[p] \in steady[r] /\ at'[Book[p]] = at[Book[p]]
        /\ Content(Book[p])' = Content(Book[p])
    BY <1>2, OwnerSpares
  <2> QED BY <1>2, <2>1, OwnerSound DEF request, book, trouble, Packing, PackedAt
<1>3. ASSUME NEW x \in Client \ {r}, Alone(x) PROVE Packing(r)'
  BY <1>3 DEF Alone, disk, Packing, PackedAt, Content
<1>4. ASSUME NEW x \in Fetcher, download_chunk(x) PROVE Packing(r)'
  BY <1>3, <1>4, ChunkAlone DEF Handled
<1>5. ASSUME NEW v \in Visitor, Visit(v) PROVE Packing(r)'
  BY <1>3, <1>5, VisitAlone
<1>6. ASSUME NEW d \in Device, Proceed(d) PROVE Packing(r)'
  BY <1>3, <1>6, DeviceAlone
<1>7. ASSUME NEW x \in Reader, download_book(x) \/ Compose(x) PROVE Packing(r)'
  <2>1. CASE x # r
    BY <1>3, <1>7, <2>1, ReaderAlone
  <2>2. CASE download_book(r)
    <3>1. /\ pc'[r] = "entry" /\ entry'[r] = 1
          /\ \A f \in File : archive'[r][f] = <<>>
      BY <2>2 DEF download_book, Goto, TypeOK
    <3>2. \A p \in 1 .. Len(Book) : Book[p] \in File /\ ~(p < 1)
      BY ClientsAssumption
    <3> QED BY <3>1, <3>2 DEF Packing, PackedAt
  <2>3. CASE OpenEntry(r)
    <3>1. pc'[r] # "sent"
      BY <2>3 DEF OpenEntry, NextEntry, Goto, TypeOK
    <3> QED BY <2>3, <3>1, PackedOpen DEF Packing
  <2>4. CASE ReadEntry(r)
    <3>1. pc'[r] # "sent"
      BY <2>4 DEF ReadEntry, NextEntry, Goto, TypeOK
    <3> QED BY <2>4, <3>1, PackedRead DEF Packing
  <2>5. CASE SendBook(r)
    <3>1. /\ pc'[r] = "sent" /\ pc[r] = "entry" /\ entry[r] > Len(Book)
          /\ UNCHANGED <<at, data, entry, archive, steady, hurt>>
      BY <2>5 DEF SendBook, Goto, TypeOK, disk, book, history, trouble
    <3>2. \A p \in 1 .. Len(Book) : p < entry[r] /\ ~(p > entry[r]) /\ p # entry[r]
      <4>1. entry[r] \in Nat
        BY BookNumbers DEF TypeOK
      <4> QED BY <3>1, <4>1, BookNumbers
    <3> QED BY <3>1, <3>2 DEF Packing, PackedAt, Content
  <2>6. CASE SkipEntry(r)
    <3>1. pc'[r] # "sent"
      BY <2>6 DEF SkipEntry, NextEntry, Goto, TypeOK
    <3> QED BY <2>6, <3>1, PackedSkip DEF Packing
  <2> QED BY <1>7, <2>1, <2>2, <2>3, <2>4, <2>5, <2>6 DEF Compose
<1>8. CASE Fault
  BY <1>8, FaultSpares, FaultCuts DEF Packing, PackedAt, Content, disk, book
<1> QED BY <1>1, <1>2, <1>4, <1>5, <1>6, <1>7, <1>8 DEF Next

\* An archive that is sent holds every file that nobody touched, whole and in
\* its place, or nothing of it when its reading failed.
THEOREM ArchiveFaithfulHolds == Spec => []ArchiveFaithful
<1> DEFINE IInv == Sound /\ \A r \in Reader : Packing(r)
<1>1. Init => IInv
  BY InitSound, Kinds DEF Init, Packing, PackedAt
<1>2. IInv /\ [Next]_vars => IInv'
  BY SoundStep, PackingStep
<1>3. IInv => ArchiveFaithful
  <2> SUFFICES ASSUME IInv, NEW r \in Reader, pc[r] = "sent", NEW f \in steady[r]
               PROVE  archive[r][f] = Content(f) \/ (archive[r][f] = <<>> /\ f \in hurt[r])
    BY DEF ArchiveFaithful
  <2>1. f \in File
    BY Kinds DEF Sound, TypeOK
  <2>2. PICK p \in 1 .. Len(Book) : Book[p] = f
    BY <2>1, ClientsAssumption
  <2>3. entry[r] > Len(Book) /\ entry[r] \in Nat /\ Len(Book) \in Nat
    <3>1. entry[r] \in 1 .. Len(Book) + 1
      BY DEF Sound, TypeOK
    <3> QED BY <3>1, BookNumbers DEF Packing
  <2>4. p < entry[r]
    BY <2>3
  <2> QED BY <2>2, <2>4 DEF Packing, PackedAt
<1> HIDE DEF IInv
<1> QED BY <1>1, <1>2, <1>3, PTL DEF Spec

-----------------------------------------------------------------------------
(* Download implements Fetch *)

\* A range whose end is given is announced as it was asked for.
Echoed(c) ==
  pc[c] \in {"read", "answered"} /\ reply[c].status = "partial" /\ header[c].end # None =>
    reply[c].start = First(header[c]) /\ reply[c].end = header[c].end

LEMMA EchoedStep ==
  ASSUME Sound, NEW c \in Fetcher, Echoed(c), [Next]_vars
  PROVE  Echoed(c)'
<1>1. CASE UNCHANGED vars
  BY <1>1 DEF vars, request, Echoed, First, Field
<1>2. CASE Owner
  BY <1>2, OwnerSound DEF request, Echoed, First, Field
<1>3. ASSUME NEW x \in Client \ {c}, Alone(x) PROVE Echoed(c)'
  BY <1>3, Kinds DEF Alone, Echoed, First, Field
<1>4. CASE download_chunk(c)
  <2>1. Handled(c) /\ c \in Client /\ header' = header
    BY <1>4, ChunkAlone, Kinds DEF Sound, Handled
  <2>2. CASE Exists(c) \/ Open(c)
    BY <2>2, EarlySteps DEF Echoed
  <2>3. CASE Measure(c)
    <3> DEFINE size == Len(data[handle[c]])
    <3>1. CASE Fail(c, "closed") \/ Fail(c, "error")
      <4>1. reply'[c].status \in {"error", "closed"}
        BY <3>1, FailTypes DEF Sound
      <4> QED BY <4>1 DEF Echoed
    <3>2. ASSUME NEW end, NEW n, Announced(c, header[c], size, end, n)
          PROVE  Echoed(c)'
      <4>1. reply'[c] = [status |-> "partial", start |-> First(header[c]), end |-> end,
                         size |-> size, body |-> <<>>]
        BY <3>2 DEF Announced, Sound, TypeOK
      <4>2. header[c].end # None => end = header[c].end
        BY <3>2 DEF Announced, Last, Field
      <4> HIDE DEF size
      <4> QED BY <2>1, <4>1, <4>2 DEF Echoed, First
    <3> QED BY <2>3, <3>1, <3>2, MeasureAnnounces
  <2>4. CASE Read(c)
    <3>1. pc[c] = "read" /\ reply[c].status = "partial"
          /\ \/ reply'[c].start = reply[c].start /\ reply'[c].end = reply[c].end
             \/ reply'[c].status = "error"
      BY <2>4, ReadSteps
    <3> QED BY <2>1, <3>1 DEF Echoed, First
  <2> QED BY <1>4, <2>2, <2>3, <2>4 DEF download_chunk
<1>5. ASSUME NEW x \in Fetcher, x # c, download_chunk(x) PROVE Echoed(c)'
  BY <1>3, <1>5, ChunkAlone, Kinds DEF Handled, Sound
<1>6. ASSUME NEW v \in Visitor, Visit(v) PROVE Echoed(c)'
  BY <1>3, <1>6, VisitAlone, AskSteps, Kinds DEF Visit, Echoed, Sound
<1>7. ASSUME NEW d \in Device, Proceed(d) PROVE Echoed(c)'
  <2>1. CASE d = c
    <3>1. pc'[c] \in {"exists", "idle"}
      <4>1. CASE Begin(d) \/ Continue(d)
        BY <2>1, <4>1, AskSteps DEF Begin, Continue
      <4>2. CASE Receive(d)
        BY <2>1, <4>2, Kinds DEF Receive, Goto, Sound, TypeOK
      <4> QED BY <1>7, <4>1, <4>2 DEF Proceed
    <3> QED BY <3>1 DEF Echoed
  <2> QED BY <1>3, <1>7, <2>1, DeviceAlone, Kinds DEF Sound
<1>8. ASSUME NEW r \in Reader, download_book(r) \/ Compose(r) PROVE Echoed(c)'
  BY <1>3, <1>8, ReaderAlone, Kinds DEF Sound
<1>9. CASE Fault
  BY <1>9, FaultSpares, FaultHits, FailureIs DEF Sound, Echoed, First, Field
<1> QED BY <1>1, <1>2, <1>4, <1>5, <1>6, <1>7, <1>8, <1>9 DEF Next

\* What a device waits for is the stretch behind what it has.
Asking(d) ==
  pc[d] # "idle" =>
    /\ header[d].start = Len(copy[d])
    /\ header[d].end = IF total[d] = None THEN 0
                       ELSE Least(Len(copy[d]) + Chunk, total[d]) - 1
    /\ total[d] # None => Len(copy[d]) < total[d]

LEMMA AskingStep ==
  ASSUME Sound, NEW d \in Device, Keeping(d), Asking(d), [Next]_vars
  PROVE  Asking(d)'
<1>1. CASE UNCHANGED vars
  BY <1>1 DEF vars, request, download, Asking
<1>2. CASE Owner
  BY <1>2, OwnerSound DEF request, download, Asking
<1>3. ASSUME NEW x \in Client \ {d}, Alone(x) PROVE Asking(d)'
  BY <1>3, Kinds DEF Alone, Asking
<1>4. ASSUME NEW x \in Fetcher, download_chunk(x) PROVE Asking(d)'
  <2>1. Handled(x) /\ x \in Client
    BY <1>4, ChunkAlone, Kinds DEF Sound
  <2>2. CASE x = d
    <3>1. pc[d] # "idle"
      BY <1>4, <2>2 DEF download_chunk, Exists, Open, Measure, Read, ReadAt
    <3> QED BY <2>1, <2>2, <3>1 DEF Handled, download, Asking
  <2> QED BY <1>3, <2>1, <2>2 DEF Handled
<1>5. ASSUME NEW v \in Visitor, Visit(v) PROVE Asking(d)'
  BY <1>3, <1>5, VisitAlone, Kinds DEF Sound
<1>6. ASSUME NEW x \in Device, Proceed(x) PROVE Asking(d)'
  <2>1. CASE Begin(d)
    <3>1. /\ UNCHANGED <<copy, total>> /\ total[d] = None
          /\ header'[d] = [start |-> 0, end |-> 0]
      BY <2>1, AskSteps, Kinds DEF Begin, Ask, download
    <3>2. Len(copy[d]) = 0
      BY <3>1 DEF Keeping
    <3> QED BY <3>1, <3>2 DEF Asking
  <2>2. CASE Continue(d)
    <3>1. /\ UNCHANGED <<copy, total>> /\ total[d] # None /\ Len(copy[d]) < total[d]
          /\ header'[d] = [start |-> Len(copy[d]),
                           end |-> Least(Len(copy[d]) + Chunk, total[d]) - 1]
      BY <2>2, AskSteps, Kinds DEF Continue, Ask, download
    <3>2. /\ header'[d].start = Len(copy[d])
          /\ header'[d].end = Least(Len(copy[d]) + Chunk, total[d]) - 1
      BY <3>1
    <3> QED BY <3>1, <3>2 DEF Asking
  <2>3. CASE Receive(d)
    <3>1. pc'[d] = "idle"
      BY <2>3, Kinds DEF Receive, Goto, Sound, TypeOK
    <3> QED BY <3>1 DEF Asking
  <2>4. CASE x # d
    BY <1>3, <1>6, <2>4, DeviceAlone, Kinds DEF Sound
  <2> QED BY <1>6, <2>1, <2>2, <2>3, <2>4 DEF Proceed
<1>7. ASSUME NEW r \in Reader, download_book(r) \/ Compose(r) PROVE Asking(d)'
  BY <1>3, <1>7, ReaderAlone, Kinds DEF Sound
<1>8. CASE Fault
  BY <1>8, FaultSpares, FaultHits, Kinds DEF Sound, Asking, download
<1> QED BY <1>1, <1>2, <1>4, <1>5, <1>6, <1>7, <1>8 DEF Next

FetchInv ==
  /\ Sound
  /\ \A c \in Fetcher : Exact(c) /\ Serving(c) /\ Echoed(c)
  /\ \A d \in Device : Keeping(d) /\ Asking(d)

LEMMA FetchInvHolds == Spec => []FetchInv
<1>1. Init => FetchInv
  BY InitSound, Kinds DEF Init, FetchInv, Exact, Serving, Echoed, Keeping, Asking
<1>2. FetchInv /\ [Next]_vars => FetchInv'
  BY SoundStep, ExactStep, ServingStep, EchoedStep, KeepingStep, AskingStep, Kinds
     DEF FetchInv
<1> QED BY <1>1, <1>2, PTL DEF Spec

\* The owner's writings touch one file.
LEMMA OwnerTouches ==
  ASSUME Sound, Owner
  PROVE  \E f \in File : F!Touch(f)
<1> USE DEF Sound, TypeOK
<1>1. ASSUME NEW f \in File, Disturb(f), UNCHANGED <<download, trouble>>,
             \A g \in File \ {f} : Content(g)' = Content(g)
      PROVE  F!Touch(f)
  <2>1. [g \in File |-> Content(g)]' =
          [[g \in File |-> Content(g)] EXCEPT ![f] = [g \in File |-> Content(g)]'[f]]
    BY <1>1
  <2>2. \A d \in Device :
          FileOf[d] \in steady'[d] <=> FileOf[d] \in steady[d] /\ FileOf[d] # f
    BY <1>1, Kinds DEF Disturb
  <2>3. [d \in Device |-> FileOf[d] \in steady'[d]] =
          [d \in Device |-> FileOf[d] \in steady[d] /\ FileOf[d] # f]
    BY <2>2
  <2>4. [d \in Device |-> FileOf[d] \in steady[d] /\ FileOf[d] # f] =
          [d \in Device |-> [e \in Device |-> FileOf[e] \in steady[e]][d] /\ FileOf[d] # f]
    OBVIOUS
  <2>5. UNCHANGED [d \in Device |-> FileOf[d] \in hurt[d]]
    BY <1>1 DEF trouble
  <2> QED BY <1>1, <2>1, <2>3, <2>4, <2>5 DEF F!Touch, download
<1>2. ASSUME NEW f \in File, Truncate(f) \/ Write(f)
      PROVE  F!Touch(f)
  <2>1. /\ at' = at /\ at[f] \in Inode /\ Disturb(f) /\ UNCHANGED <<download, trouble>>
        /\ \A i \in Inode \ {at[f]} : data'[i] = data[i]
    BY <1>2, ClientsAssumption DEF Truncate, Write
  <2>2. ASSUME NEW g \in File \ {f} PROVE Content(g)' = Content(g)
    <3>1. at[g] = None \/ at[g] \in Inode \ {at[f]}
      BY <2>1, ClientsAssumption DEF Placed
    <3> QED BY <2>1, <3>1 DEF Content
  <2> QED BY <1>1, <2>1, <2>2
<1>3. ASSUME NEW f \in File, Create(f)
      PROVE  F!Touch(f)
  <2>1. PICK i \in Inode : /\ \A g \in File : at[g] # i
                           /\ at' = [at EXCEPT ![f] = i]
                           /\ data' = [data EXCEPT ![i] = <<>>]
    BY <1>3 DEF Create
  <2>2. \A g \in File \ {f} : Content(g)' = Content(g)
    BY <2>1 DEF Content
  <2> QED BY <1>1, <1>3, <2>2 DEF Create
<1>4. ASSUME NEW f \in File, Remove(f)
      PROVE  F!Touch(f)
  <2>1. \A g \in File \ {f} : Content(g)' = Content(g)
    BY <1>4 DEF Remove, Content
  <2> QED BY <1>1, <1>4, <2>1 DEF Remove
<1> QED BY <1>2, <1>3, <1>4 DEF Owner

\* What is asked for from a clean file that is not empty lies within it.
LEMMA AskedWithin ==
  ASSUME Sound, Chunk <= Memory, NEW d \in Device, Keeping(d), Asking(d),
         pc[d] # "idle", FileOf[d] \in steady[d], Content(FileOf[d]) # <<>>
  PROVE  LET size == Len(Content(FileOf[d]))
             more == Len(copy[d]) + (IF total[d] = None THEN 1 ELSE Chunk)
         IN /\ Within(header[d], size) /\ First(header[d]) = Len(copy[d])
            /\ Wanted(d) = (IF more <= size THEN more ELSE size) - Len(copy[d])
            /\ Len(copy[d]) < size
<1> DEFINE bytes == Content(FileOf[d])
           size == Len(bytes)
           n == Len(copy[d])
           h == header[d]
           end == IF total[d] = None THEN 0 ELSE Least(n + Chunk, size) - 1
<1>1. bytes \in Seq(Byte) /\ copy[d] \in Seq(Byte) /\ h \in Header
  BY Kinds DEF Sound, TypeOK, Content
<1>2. size \in Nat /\ n \in Nat /\ size > 0
  BY <1>1
<1>3. /\ h.start = n
      /\ h.end = IF total[d] = None THEN 0 ELSE Least(n + Chunk, total[d]) - 1
      /\ total[d] # None => n < total[d] /\ total[d] = size
      /\ total[d] = None => n = 0
  BY DEF Keeping, Asking
<1>4. h.end = end /\ n < size
  BY <1>2, <1>3
<1> HIDE DEF size, n, bytes, h
<1>5. Chunk \in Nat \ {0} /\ Memory \in Nat
  BY WordsAssumption
<1>6. /\ end \in Nat /\ n <= end /\ end < size /\ end - n < Memory
      /\ end - n + 1 = (IF n + (IF total[d] = None THEN 1 ELSE Chunk) <= size
                        THEN n + (IF total[d] = None THEN 1 ELSE Chunk)
                        ELSE size) - n
  <2>1. CASE total[d] = None
    BY <1>2, <1>3, <1>5, <2>1
  <2>2. CASE total[d] # None
    BY <1>2, <1>3, <1>5, <2>2 DEF Least
  <2> QED BY <2>1, <2>2
<1>7. First(h) = n /\ Last(h, size) = end
  BY <1>2, <1>3, <1>4, <1>6, ClientsAssumption DEF First, Last, Field
<1> QED BY <1>4, <1>6, <1>7 DEF Within, Wanted, size, n, bytes, h

\* With its file empty a device is not given anything.
LEMMA EmptyRefused ==
  ASSUME FetchInv, Chunk <= Memory, NEW d \in Device, pc[d] = "answered",
         FileOf[d] \in steady[d], Content(FileOf[d]) = <<>>
  PROVE  total[d] = None /\ copy[d] = <<>> /\ reply[d].status # "partial"
<1>1. /\ d \in Fetcher /\ Exact(d) /\ Serving(d) /\ Echoed(d) /\ Keeping(d) /\ Asking(d)
  BY Kinds DEF FetchInv
<1>2. copy[d] \in Seq(Byte) /\ Len(Content(FileOf[d])) = 0
  BY DEF FetchInv, Sound, TypeOK
<1>3. total[d] = None /\ copy[d] = <<>> /\ Len(copy[d]) = 0
  BY <1>1, <1>2 DEF Keeping, Asking
<1>4. header[d].start = 0 /\ header[d].end = 0 /\ 0 # None
  BY <1>1, <1>3, Numbers DEF Asking
<1>5. ASSUME reply[d].status = "partial" PROVE FALSE
  <2>1. reply[d].start = 0 /\ reply[d].end = 0
    BY <1>1, <1>4, <1>5 DEF Echoed, First, Field
  <2>2. 0 < MaxUsize
    BY WordsAssumption
  <2>3. Len(reply[d].body) = 1
    BY <1>1, <1>5, <2>1, <2>2 DEF Exact
  <2>4. Filled(d)
    BY <1>1, <1>5 DEF Serving
  <2>5. 1 \in 1 .. Len(reply[d].body)
    BY <2>3
  <2>6. 0 + 1 <= 0
    BY <1>2, <2>1, <2>4, <2>5 DEF Filled
  <2> QED BY <2>6
<1> QED BY <1>3, <1>5

\* A clean file that is not empty: the answer is its next stretch.
LEMMA ReceiveTakes ==
  ASSUME FetchInv, Chunk <= Memory, NEW d \in Device, Receive(d),
         FileOf[d] \in steady[d], Content(FileOf[d]) # <<>>,
         reply[d].status = "partial"
  PROVE  LET bytes == Content(FileOf[d])
             more == Len(copy[d]) + (IF total[d] = None THEN 1 ELSE Chunk)
             n == IF more <= Len(bytes) THEN more ELSE Len(bytes)
         IN /\ Len(copy[d]) < Len(bytes)
            /\ copy' = [copy EXCEPT ![d] = SubSeq(bytes, 1, n)]
            /\ total' = [total EXCEPT ![d] = Len(bytes)]
<1> DEFINE bytes == Content(FileOf[d])
           more == Len(copy[d]) + (IF total[d] = None THEN 1 ELSE Chunk)
           n == IF more <= Len(bytes) THEN more ELSE Len(bytes)
           b == reply[d].body
<1>1. /\ d \in Fetcher /\ Sound /\ Serving(d) /\ Keeping(d) /\ Asking(d)
      /\ Sound' /\ Keeping(d)'
  <2>1. d \in Fetcher /\ Sound /\ Serving(d) /\ Keeping(d) /\ Asking(d)
    BY Kinds DEF FetchInv
  <2>2. [Next]_vars
    BY DEF Next, Proceed
  <2> QED BY <2>1, <2>2, SoundStep, KeepingStep
<1>2. /\ TypeOK /\ pc[d] = "answered" /\ copy[d] \in Seq(Byte) /\ copy'[d] \in Seq(Byte)
      /\ bytes \in Seq(Byte) /\ reply[d] \in Response /\ b \in Seq(Byte)
  <2>1. TypeOK /\ TypeOK' /\ pc[d] = "answered" /\ reply[d] \in Response
    BY <1>1, Kinds DEF Sound, Handling, FetcherHas, Receive
  <2>2. b \in Seq(Byte)
    BY <2>1 DEF Response
  <2> QED BY <2>1, <2>2, Kinds DEF TypeOK, Content
<1>3. /\ Within(header[d], Len(bytes)) /\ Wanted(d) = n - Len(copy[d])
      /\ Len(copy[d]) < Len(bytes)
  BY <1>1, <1>2, AskedWithin
<1>4. Len(b) = n - Len(copy[d]) /\ reply[d].size = Len(bytes)
  BY <1>1, <1>2, <1>3 DEF Serving, Filled
<1>5. /\ copy' = [copy EXCEPT ![d] = @ \o b]
      /\ total' = [total EXCEPT ![d] = IF @ = None THEN reply[d].size ELSE @]
  BY <1>4 DEF Receive
<1>6. total' = [total EXCEPT ![d] = Len(bytes)]
  BY <1>1, <1>2, <1>4, <1>5 DEF Keeping, TypeOK
<1>7. copy'[d] = copy[d] \o b /\ Len(copy'[d]) = n /\ n \in Nat /\ n <= Len(bytes)
  <2>1. copy'[d] = copy[d] \o b
    BY <1>2, <1>5 DEF TypeOK
  <2>2. Len(copy[d]) \in Nat /\ Len(bytes) \in Nat
        /\ Len(copy'[d]) = Len(copy[d]) + Len(b)
    BY <1>2, <2>1
  <2>3. n \in Nat /\ n <= Len(bytes)
    <3>1. (IF total[d] = None THEN 1 ELSE Chunk) \in Nat
      BY WordsAssumption
    <3>2. more \in Nat
      BY <2>2, <3>1
    <3> HIDE DEF more, bytes
    <3> QED BY <2>2, <3>2
  <2> HIDE DEF n, bytes
  <2> QED BY <1>4, <2>1, <2>2, <2>3
<1>8. \A i \in 1 .. n : copy'[d][i] = bytes[i]
  <2>1. FileOf[d] \in steady'[d] /\ Content(FileOf[d])' = bytes
    BY DEF Receive, disk, history, Content
  <2> QED BY <1>1, <1>7, <2>1 DEF Keeping
<1> HIDE DEF n, bytes, b
<1>9. copy'[d] = SubSeq(bytes, 1, n)
  <2>1. SubSeq(bytes, 1, n) = [i \in 1 .. n |-> bytes[i]]
    BY <1>2, <1>7
  <2>2. copy'[d] = [i \in 1 .. Len(copy'[d]) |-> copy'[d][i]]
    BY <1>2
  <2> QED BY <1>7, <1>8, <2>1, <2>2
<1>10. copy' = [copy EXCEPT ![d] = SubSeq(bytes, 1, n)]
  BY <1>2, <1>5, <1>7, <1>9 DEF TypeOK
<1> QED BY <1>3, <1>6, <1>10 DEF n, bytes

\* What is appended to leaves the beginning as it was.
LEMMA PrefixStays ==
  ASSUME NEW a \in Seq(Byte), NEW b \in Seq(Byte)
  PROVE  Len(a \o b) >= Len(a) /\ SubSeq(a \o b, 1, Len(a)) = a
<1> DEFINE s == a \o b
           m == Len(a)
<1>1. /\ s \in Seq(Byte) /\ m \in Nat /\ Len(b) \in Nat /\ Len(s) = m + Len(b)
      /\ \A i \in 1 .. m : s[i] = a[i]
  OBVIOUS
<1>2. a = [i \in 1 .. m |-> a[i]]
  OBVIOUS
<1> HIDE DEF s, m
<1>3. m <= Len(s)
  BY <1>1
<1>4. SubSeq(s, 1, m) = [i \in 1 .. m |-> s[i]]
  BY <1>1, <1>3
<1>5. SubSeq(s, 1, m) = a
  BY <1>1, <1>2, <1>4
<1> QED BY <1>3, <1>5 DEF s, m

\* Without its bytes a device that asks of a clean file was hit.
LEMMA ReceiveFails ==
  ASSUME FetchInv, Chunk <= Memory, NEW d \in Device, Receive(d),
         FileOf[d] \in steady[d], Content(FileOf[d]) # <<>>,
         reply[d].status # "partial"
  PROVE  FileOf[d] \in hurt[d]
<1>1. Sound /\ Serving(d) /\ Keeping(d) /\ Asking(d) /\ pc[d] = "answered"
  BY Kinds DEF FetchInv, Receive
<1> QED BY <1>1, AskedWithin DEF Serving

\* The answer to a device: its next stretch, nothing, a new start when an error
\* hit it, or, when its file was touched, a mixture or a new start.
LEMMA ReceiveFetches ==
  ASSUME FetchInv, Chunk <= Memory, NEW d \in Device, Receive(d)
  PROVE  F!Next \/ UNCHANGED F!fetchVars
<1>1. /\ TypeOK /\ pc[d] = "answered" /\ copy[d] \in Seq(Byte)
      /\ (reply[d].status = "partial" => reply[d].body \in Seq(Byte) /\ reply[d].size \in Nat)
  <2>1. TypeOK /\ pc[d] = "answered" /\ reply[d] \in Response
    BY Kinds DEF FetchInv, Sound, Handling, FetcherHas, Receive
  <2> QED BY <2>1, WordsAssumption DEF TypeOK, Response
<1>2. UNCHANGED <<at, data, steady, hurt>>
  BY DEF Receive, disk, history, trouble
<1>3. /\ [f \in File |-> Content(f)]' = [f \in File |-> Content(f)]
      /\ [e \in Device |-> FileOf[e] \in steady[e]]' = [e \in Device |-> FileOf[e] \in steady[e]]
      /\ [e \in Device |-> FileOf[e] \in hurt[e]]' = [e \in Device |-> FileOf[e] \in hurt[e]]
  BY <1>2 DEF Content
<1>4. CASE FileOf[d] \in steady[d] /\ Content(FileOf[d]) # <<>> /\ reply[d].status = "partial"
  <2>1. F!Take(d)
    BY <1>3, <1>4, ReceiveTakes, Kinds DEF F!Take
  <2> QED BY <2>1 DEF F!Next
<1>5. CASE FileOf[d] \in steady[d] /\ Content(FileOf[d]) = <<>>
  <2>1. total[d] = None /\ copy[d] = <<>> /\ reply[d].status # "partial"
    BY <1>1, <1>5, EmptyRefused
  <2>2. copy' = copy /\ total' = total
    BY <1>1, <2>1 DEF Receive, TypeOK
  <2> QED BY <1>3, <2>2 DEF F!fetchVars
<1>6. CASE reply[d].status # "partial"
           /\ (FileOf[d] \notin steady[d] \/ Content(FileOf[d]) # <<>>)
  <2>1. FileOf[d] \notin steady[d] \/ FileOf[d] \in hurt[d]
    BY <1>6, ReceiveFails
  <2>2. F!Restart(d)
    BY <1>3, <1>6, <2>1 DEF Receive, F!Restart
  <2> QED BY <2>2 DEF F!Next
<1>7. CASE FileOf[d] \notin steady[d] /\ reply[d].status = "partial"
  <2>1. /\ copy' = [copy EXCEPT ![d] = copy[d] \o reply[d].body]
        /\ total' = [total EXCEPT ![d] = IF total[d] = None THEN reply[d].size ELSE total[d]]
    BY <1>7 DEF Receive
  <2>2. /\ copy'[d] = copy[d] \o reply[d].body
        /\ total'[d] = IF total[d] = None THEN reply[d].size ELSE total[d]
    BY <1>1, <2>1 DEF TypeOK
  <2>3. Len(copy'[d]) >= Len(copy[d]) /\ SubSeq(copy'[d], 1, Len(copy[d])) = copy[d]
    BY <1>1, <1>7, <2>2, PrefixStays
  <2>4. /\ copy' = [copy EXCEPT ![d] = copy'[d]] /\ total' = [total EXCEPT ![d] = total'[d]]
        /\ total[d] \in {None, total'[d]}
    BY <2>1, <2>2
  <2>5. F!Mix(d)
    BY <1>3, <1>7, <2>3, <2>4 DEF F!Mix
  <2> QED BY <2>5 DEF F!Next
<1> QED BY <1>4, <1>5, <1>6, <1>7

\* Every step is a touch, an error, a beginning, an answer, or nothing that shows.
LEMMA FetchStep ==
  ASSUME Chunk <= Memory
  PROVE  FetchInv /\ [Next]_vars => [F!Next]_(F!fetchVars)
<1> SUFFICES ASSUME FetchInv, [Next]_vars
             PROVE  F!Next \/ UNCHANGED F!fetchVars
  OBVIOUS
<1>1. Sound /\ TypeOK
  BY DEF FetchInv, Sound
<1>2. ASSUME UNCHANGED <<at, data, copy, total>>,
             \A d \in Device : steady'[d] = steady[d] /\ hurt'[d] = hurt[d]
      PROVE  UNCHANGED F!fetchVars
  <2>1. [f \in File |-> Content(f)]' = [f \in File |-> Content(f)]
    BY <1>2 DEF Content
  <2>2. [e \in Device |-> FileOf[e] \in steady[e]]' = [e \in Device |-> FileOf[e] \in steady[e]]
    BY <1>2
  <2>3. [e \in Device |-> FileOf[e] \in hurt[e]]' = [e \in Device |-> FileOf[e] \in hurt[e]]
    BY <1>2
  <2> QED BY <1>2, <2>1, <2>2, <2>3 DEF F!fetchVars
<1>3. CASE UNCHANGED vars
  BY <1>2, <1>3 DEF vars, disk, download, history, trouble
<1>4. CASE Owner
  BY <1>1, <1>4, OwnerTouches DEF F!Next
<1>5. ASSUME NEW c \in Fetcher, download_chunk(c) PROVE UNCHANGED F!fetchVars
  BY <1>1, <1>2, <1>5, ChunkAlone DEF Handled, Alone, disk, download, history, trouble
<1>6. ASSUME NEW v \in Visitor, Visit(v) PROVE UNCHANGED F!fetchVars
  <2>1. v \notin Device
    BY <1>6, Kinds
  <2> QED BY <1>2, <1>1, <1>6, <2>1, VisitAlone, Kinds
          DEF Visit, Start, Ask, Alone, disk, download
<1>7. ASSUME NEW d \in Device, Proceed(d) PROVE F!Next \/ UNCHANGED F!fetchVars
  <2>1. CASE Begin(d)
    <3>1. /\ UNCHANGED <<at, data, copy, total>> /\ total[d] = None
          /\ steady' = [steady EXCEPT ![d] = File] /\ hurt' = [hurt EXCEPT ![d] = {}]
      BY <2>1 DEF Begin, Start, Ask, disk, download
    <3>2. [f \in File |-> Content(f)]' = [f \in File |-> Content(f)]
      BY <3>1 DEF Content
    <3>3. \A e \in Device : e # d => steady'[e] = steady[e] /\ hurt'[e] = hurt[e]
      BY <1>1, <3>1, Kinds DEF TypeOK
    <3>4. FileOf[d] \in steady'[d] /\ (FileOf[d] \in hurt'[d]) = FALSE
      BY <1>1, <3>1, Kinds DEF TypeOK
    <3>5. [e \in Device |-> FileOf[e] \in steady'[e]] =
            [[e \in Device |-> FileOf[e] \in steady[e]] EXCEPT ![d] = TRUE]
      BY <3>3, <3>4
    <3>6. [e \in Device |-> FileOf[e] \in hurt'[e]] =
            [[e \in Device |-> FileOf[e] \in hurt[e]] EXCEPT ![d] = FALSE]
      BY <3>3, <3>4
    <3>7. F!Begin(d)
      BY <3>1, <3>2, <3>5, <3>6 DEF F!Begin
    <3> QED BY <3>7 DEF F!Next
  <2>2. CASE Continue(d)
    BY <1>2, <2>2 DEF Continue, Ask, disk, download, history, trouble
  <2>3. CASE Receive(d)
    BY <2>3, ReceiveFetches
  <2> QED BY <1>7, <2>1, <2>2, <2>3 DEF Proceed
<1>8. ASSUME NEW r \in Reader, download_book(r) \/ Compose(r)
      PROVE  UNCHANGED F!fetchVars
  <2>1. Alone(r)
    BY <1>1, <1>8, ReaderAlone
  <2>2. UNCHANGED <<copy, total>>
    BY <1>8 DEF download, download_book, Compose, OpenEntry, ReadEntry, SkipEntry, SendBook
  <2>3. \A d \in Device : d \in Client \ {r}
    BY Kinds
  <2> QED BY <1>2, <2>1, <2>2, <2>3 DEF Alone, disk
<1>9. CASE Fault
  <2>1. UNCHANGED <<at, data, copy, total, steady>>
    BY <1>9, FaultSpares DEF disk, download
  <2>2. /\ [f \in File |-> Content(f)]' = [f \in File |-> Content(f)]
        /\ [e \in Device |-> FileOf[e] \in steady[e]]' = [e \in Device |-> FileOf[e] \in steady[e]]
    BY <2>1 DEF Content
  <2>3. \A e \in Device : FileOf[e] \in hurt[e] => FileOf[e] \in hurt'[e]
    BY <1>1, <1>9, FaultHits, Kinds
  <2>4. [e \in Device |-> FileOf[e] \in hurt[e]]' \in [Device -> BOOLEAN]
    OBVIOUS
  <2>5. \A d \in Device : [e \in Device |-> FileOf[e] \in hurt[e]][d]
                         => [e \in Device |-> FileOf[e] \in hurt[e]]'[d]
    BY <2>3
  <2>6. F!Trouble
    BY <2>1, <2>2, <2>4, <2>5 DEF F!Trouble
  <2> QED BY <2>6 DEF F!Next
<1> QED BY <1>3, <1>4, <1>5, <1>6, <1>7, <1>8, <1>9 DEF Next

\* A device whose stretches fit a vector reads its file as if it had it in hand,
\* whatever the words, the builds and the other clients: as long as nobody
\* touches the file the copy only grows, but for new starts after an error or an
\* abort that hit it.
THEOREM DownloadImplementsFetch ==
  ASSUME Chunk <= Memory
  PROVE  Spec => FetchSpec
<1>1. Init => F!Init
  <2> SUFFICES ASSUME Init PROVE F!Init
    OBVIOUS
  <2>1. \A f \in File : Content(f) = <<>>
    BY DEF Init, Content
  <2>2. \A d \in Device : (FileOf[d] \in steady[d]) = FALSE
    BY Kinds DEF Init
  <2>3. \A d \in Device : (FileOf[d] \in hurt[d]) = FALSE
    BY Kinds DEF Init
  <2> QED BY <2>1, <2>2, <2>3 DEF Init, F!Init
<1>2. FetchInv /\ [Next]_vars => [F!Next]_(F!fetchVars)
  BY FetchStep
<1> QED
  BY <1>1, <1>2, FetchInvHolds, PTL DEF Spec, FetchSpec, F!Spec
=============================================================================
