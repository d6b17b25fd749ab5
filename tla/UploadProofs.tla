---------------------------- MODULE UploadProofs ----------------------------
(***************************************************************************)
(* Proofs about Upload, for any number of uploads, chunks, names, targets  *)
(* and retries, in any order, with or without faults.                      *)
(***************************************************************************)
EXTENDS Upload, TLAPS, FiniteSetTheorems

-----------------------------------------------------------------------------
(* Helpers *)

\* The requests' constants have the types that the operators need.
LEMMA RequestTypes ==
  ASSUME NEW r \in Request
  PROVE  /\ UploadOf[r] \in Upload
         /\ name(r) \in Name
         /\ target(r) \in Target
         /\ total_chunks(r) \in Nat \ {0}
         /\ IndexOf[r] \in 0 .. total_chunks(r) - 1
         /\ 0 .. total_chunks(r) - 1 \subseteq Index
         /\ BlockOf(r) \in Block
         /\ BlockOf(r).size \in Nat \ {0}
<1>1. UploadOf[r] \in Upload
  BY RequestsAssumption
<1>2. name(r) \in Name /\ target(r) \in Target /\ total_chunks(r) \in Nat \ {0}
  BY <1>1, UploadsAssumption DEF name, target, total_chunks
<1>3. IndexOf[r] \in 0 .. total_chunks(r) - 1
  BY <1>2, RequestsAssumption, UploadsAssumption DEF total_chunks
<1>4. 0 .. total_chunks(r) - 1 \subseteq Index
  BY DEF Index
<1>5. BlockOf(r) \in Block /\ BlockOf(r).size \in Nat \ {0}
  BY <1>1, RequestsAssumption DEF BlockOf, Block
<1>6. QED BY <1>1, <1>2, <1>3, <1>4, <1>5

\* Writing a block anywhere in a file gives a file, with that block in place
\* and every other one as it was.
LEMMA WriteAtType ==
  ASSUME NEW s \in Seq(Block \cup {Hole}), NEW k \in Nat \ {0}, NEW b \in Block
  PROVE  /\ WriteAt(s, k, b) \in Seq(Block \cup {Hole})
         /\ Len(WriteAt(s, k, b)) = IF k > Len(s) THEN k ELSE Len(s)
         /\ WriteAt(s, k, b)[k] = b
         /\ \A j \in 1 .. Len(s) : j # k => WriteAt(s, k, b)[j] = s[j]
<1> DEFINE n == IF k > Len(s) THEN k ELSE Len(s)
<1>1. n \in Nat /\ k \in 1 .. n /\ 1 .. Len(s) \subseteq 1 .. n
  OBVIOUS
<1>2. WriteAt(s, k, b) = [j \in 1 .. n |->
                            IF j = k THEN b ELSE IF j <= Len(s) THEN s[j] ELSE Hole]
  BY DEF WriteAt
<1> HIDE DEF n
<1>3. \A j \in 1 .. n : WriteAt(s, k, b)[j] \in Block \cup {Hole}
  BY <1>1, <1>2
<1>4. WriteAt(s, k, b) \in Seq(Block \cup {Hole}) /\ Len(WriteAt(s, k, b)) = n
  BY <1>1, <1>2, <1>3
<1>5. QED BY <1>1, <1>2, <1>4 DEF n

\* Writing the first bytes of a chunk over a chunk file leaves a chunk file.
LEMMA OverlayType ==
  ASSUME NEW r \in Request, NEW k \in Nat, k <= BlockOf(r).size,
         NEW c \in Block \cup {Empty}
  PROVE  Overlay(c, r, k) \in Block \cup {Empty}
<1>1. CASE k = 0 \/ c = BlockOf(r)
  BY <1>1 DEF Overlay
<1>2. CASE ~(k = 0 \/ c = BlockOf(r))
  <2> DEFINE old == IF c = Empty THEN 0 ELSE c.size
  <2>1. old \in Nat
    BY DEF Block
  <2> HIDE DEF old
  <2>2. Larger(k, old) \in Nat \ {0}
    BY <1>2, <2>1 DEF Larger
  <2>3. /\ UploadOf[r] \in Upload /\ IndexOf[r] \in Nat
        /\ (k = SizeOf[r] /\ old <= k) \in BOOLEAN
    BY RequestTypes, RequestsAssumption
  <2>4. Overlay(c, r, k) =
          [upload |-> UploadOf[r], index |-> IndexOf[r], size |-> Larger(k, old),
           whole |-> k = SizeOf[r] /\ old <= k]
    BY <1>2 DEF Overlay, old
  <2>5. QED BY <2>2, <2>3, <2>4 DEF Block
<1>3. QED BY <1>1, <1>2

LEMMA TornType ==
  ASSUME NEW b \in Block \cup {Empty}, NEW c \in Block \cup {Empty}
  PROVE  Torn(b, c) \in Block \cup {Empty}
BY DEF Torn, Block

Content == Block \cup {None, Empty}

\* Storing in one chunk file leaves the other ones as they are.
LEMMA StoreType ==
  ASSUME part \in [Name -> [Index -> Content]],
         NEW n \in Name, NEW i \in Index, NEW c \in Content
  PROVE  /\ [part EXCEPT ![n][i] = c] \in [Name -> [Index -> Content]]
         /\ [part EXCEPT ![n][i] = c][n][i] = c
         /\ \A m \in Name, j \in Index :
              m # n \/ j # i => [part EXCEPT ![n][i] = c][m][j] = part[m][j]
OBVIOUS

\* What a step does that changes one chunk file: the others stay, a reader's
\* chunk stays a chunk, and an assembly that stays quiet has what it had read
\* and has what it has yet to read.
LEMMA ChangeType ==
  ASSUME TypeOK, NEW r \in Request, NEW c \in Block \cup {Empty},
         ChangeChunk(name(r), IndexOf[r], c)
  PROVE  /\ part' \in [Name -> [Index -> Content]]
         /\ part'[name(r)][IndexOf[r]] = c /\ c # None
         /\ \A m \in Name, j \in Index :
              m # name(r) \/ j # IndexOf[r] => part'[m][j] = part[m][j]
         /\ buf' \in [Request -> Block \cup {Empty}]
         /\ quiet' \subseteq quiet
         /\ \A q \in quiet' :
              /\ buf'[q] = buf[q]
              /\ pc[q] \in {"read", "put"} =>
                   \A j \in Index : next[q] <= j => part'[name(q)][j] = part[name(q)][j]
<1> DEFINE n == name(r)
           i == IndexOf[r]
           readers == {q \in Request : name(q) = n /\ pc[q] = "put" /\ next[q] = i + 1}
           ahead == {q \in Request : name(q) = n /\ pc[q] \in {"read", "put"} /\ next[q] <= i}
           hit == IF part[n][i] \in {None, c} THEN {} ELSE readers
<1>1. n \in Name /\ i \in Index /\ c \in Content /\ c # None
  BY RequestTypes, ValuesAssumption DEF Content
<1>2. part' = [part EXCEPT ![n][i] = c]
  BY DEF ChangeChunk
<1>3. /\ part' \in [Name -> [Index -> Content]]
      /\ part'[n][i] = c
      /\ \A m \in Name, j \in Index : m # n \/ j # i => part'[m][j] = part[m][j]
  <2> HIDE DEF n, i
  <2>1. part \in [Name -> [Index -> Content]]
    BY DEF TypeOK, Content
  <2>2. QED BY <1>1, <1>2, <2>1, StoreType
<1>4. PICK new \in SUBSET hit, torn \in SUBSET hit :
        buf' = [q \in Request |-> IF q \in torn THEN Torn(buf[q], c)
                                  ELSE IF q \in new THEN c ELSE buf[q]]
  BY DEF ChangeChunk
<1>5. buf' \in [Request -> Block \cup {Empty}]
  <2>1. \A q \in Request : buf[q] \in Block \cup {Empty}
    BY DEF TypeOK
  <2>2. \A q \in Request : Torn(buf[q], c) \in Block \cup {Empty}
    BY <2>1, TornType
  <2>3. QED BY <1>4, <2>1, <2>2
<1>6. quiet' = IF part[n][i] = c THEN quiet ELSE quiet \ (readers \cup ahead)
  BY DEF ChangeChunk
<1>7. quiet' \subseteq quiet
  BY <1>6
<1>8. ASSUME NEW q \in quiet' PROVE buf'[q] = buf[q]
  <2>1. q \in Request
    BY <1>7 DEF TypeOK
  <2>2. q \notin hit
    BY <1>6
  <2> HIDE DEF hit
  <2>3. QED BY <1>4, <2>1, <2>2
<1>9. ASSUME NEW q \in quiet', pc[q] \in {"read", "put"}, NEW j \in Index, next[q] <= j
      PROVE  part'[name(q)][j] = part[name(q)][j]
  <2>1. q \in Request /\ name(q) \in Name
    BY <1>7, RequestTypes DEF TypeOK
  <2>2. CASE name(q) = n /\ j = i
    <3>1. q \in ahead
      BY <1>9, <2>1, <2>2
    <3>2. part[n][i] = c
      BY <1>6, <3>1
    <3>3. QED BY <1>3, <2>2, <3>2
  <2>3. CASE ~(name(q) = n /\ j = i)
    <3> HIDE DEF n, i
    <3>1. QED BY <1>3, <2>1, <2>3
  <2>4. QED BY <2>2, <2>3
<1> HIDE DEF n, i, hit, readers, ahead
<1>10. QED BY <1>1, <1>3, <1>5, <1>7, <1>8, <1>9 DEF n, i

-----------------------------------------------------------------------------
(* Chunk files live in directories *)

\* A chunk file is in the directory of its name, and a write that has yet to
\* land has its chunk file.
PartsInDirs == \A n \in Name : Entries(n) # {} => n \in dirs
LateHasFile == \A r \in late : part[name(r)][IndexOf[r]] # None

PartsInv == PartsInDirs /\ LateHasFile

\* Some bytes of a late write land in its chunk file.
LEMMA LandType ==
  ASSUME TypeOK, LateHasFile, NEW r \in Request, NEW k \in Nat, k <= BlockOf(r).size,
         LandFirst(r, k)
  PROVE  \E c \in Block \cup {Empty} : ChangeChunk(name(r), IndexOf[r], c)
<1>1. name(r) \in Name /\ IndexOf[r] \in Index
  BY RequestTypes
<1>2. part[name(r)][IndexOf[r]] \in Block \cup {Empty}
  BY <1>1 DEF LandFirst, LateHasFile, TypeOK
<1>3. Overlay(part[name(r)][IndexOf[r]], r, k) \in Block \cup {Empty}
  BY <1>2, OverlayType
<1>4. QED BY <1>3 DEF LandFirst

\* Both background steps of a chunk write let some of its bytes land.
LEMMA LandSteps ==
  ASSUME NEW r \in Request, Land(r) \/ LoseChunk(r)
  PROVE  \E k \in Nat : k <= BlockOf(r).size /\ LandFirst(r, k)
<1>1. BlockOf(r).size \in Nat \ {0}
  BY RequestTypes
<1>2. QED BY <1>1 DEF Land, LoseChunk

LEMMA PartsStep == TypeOK /\ PartsInv /\ [Next]_vars => PartsInv'
<1> SUFFICES ASSUME TypeOK, PartsInv, [Next]_vars PROVE PartsInv'
  OBVIOUS
<1> USE DEF fileSystem, locals
<1>1. ASSUME UNCHANGED part, dirs \subseteq dirs', late' \subseteq late
      PROVE  PartsInv'
  BY <1>1 DEF PartsInv, PartsInDirs, LateHasFile, Entries
<1>2. ASSUME NEW r \in Request, NEW c \in Block \cup {Empty}, UNCHANGED dirs,
             name(r) \in dirs, ChangeChunk(name(r), IndexOf[r], c),
             late' \subseteq late \cup {r}
      PROVE  PartsInv'
  <2>1. \A q \in Request : name(q) \in Name /\ IndexOf[q] \in Index
    BY RequestTypes
  <2>2. /\ part'[name(r)][IndexOf[r]] # None
        /\ \A m \in Name, j \in Index :
             m # name(r) \/ j # IndexOf[r] => part'[m][j] = part[m][j]
    BY <1>2, ChangeType
  <2>3. PartsInDirs'
    BY <1>2, <2>2 DEF PartsInv, PartsInDirs, Entries
  <2>4. LateHasFile'
    BY <1>2, <2>1, <2>2 DEF PartsInv, LateHasFile, TypeOK
  <2>5. QED BY <2>3, <2>4 DEF PartsInv
<1>3. ASSUME NEW r \in Request, SaveChunk(r) PROVE PartsInv'
  <2>1. CASE name(r) \in dirs
    BY <1>2, <1>3, <2>1 DEF SaveChunk
  <2>2. CASE name(r) \notin dirs
    BY <1>1, <1>3, <2>2 DEF SaveChunk, Panic
  <2>3. QED BY <2>1, <2>2
<1>4. ASSUME NEW r \in Request, Land(r) \/ LoseChunk(r) PROVE PartsInv'
  <2>1. PICK k \in Nat : k <= BlockOf(r).size /\ LandFirst(r, k)
    BY <1>4, LandSteps
  <2>2. PICK c \in Block \cup {Empty} : ChangeChunk(name(r), IndexOf[r], c)
    BY <2>1, LandType DEF PartsInv
  <2>3. name(r) \in dirs
    BY <2>1, RequestTypes DEF LandFirst, PartsInv, PartsInDirs, LateHasFile, Entries
  <2>4. UNCHANGED dirs /\ late' \subseteq late \cup {r}
    BY <2>1 DEF LandFirst
  <2>5. QED BY <1>2, <2>2, <2>3, <2>4
<1>5. ASSUME NEW r \in Request, ClearParts(r) PROVE PartsInv'
  <2>1. CASE name(r) \in dirs
    <3>1. /\ part' = [part EXCEPT ![name(r)] = [i \in Index |-> None]]
          /\ late' = {q \in late : name(q) # name(r)}
          /\ dirs' = dirs
      BY <1>5, <2>1 DEF ClearParts
    <3>2. \A n \in Name : n # name(r) => part'[n] = part[n]
      BY <3>1 DEF TypeOK
    <3>3. PartsInDirs'
      BY <2>1, <3>1, <3>2 DEF PartsInv, PartsInDirs, Entries
    <3>4. LateHasFile'
      BY <3>1, <3>2, RequestTypes DEF TypeOK, PartsInv, LateHasFile
    <3>5. QED BY <3>3, <3>4 DEF PartsInv
  <2>2. CASE name(r) \notin dirs
    BY <1>1, <1>5, <2>2 DEF ClearParts, Panic
  <2>3. QED BY <2>1, <2>2
<1>6. ASSUME NEW r \in Request, RemoveDir(r) PROVE PartsInv'
  <2>1. CASE Entries(name(r)) = {} /\ dirs' = dirs \ {name(r)} /\ UNCHANGED <<part, late>>
    BY <2>1 DEF PartsInv, PartsInDirs, LateHasFile, Entries
  <2>2. CASE Panic(r, "panicked")
    BY <1>1, <2>2 DEF Panic
  <2>3. QED BY <1>6, <2>1, <2>2 DEF RemoveDir
<1>7. ASSUME NEW r \in Request,
             \/ Send(r) \/ MakeParts(r) \/ CountParts(r)
             \/ OpenFinal(r) \/ ReadChunk(r) \/ PutChunk(r) \/ LandBlock(r)
             \/ LoseBlock(r) \/ Abandon(r)
      PROVE  PartsInv'
  BY <1>1, <1>7 DEF Send, MakeParts, CountParts, OpenFinal, ReadChunk,
     PutChunk, LandBlock, LoseBlock, Abandon, Panic
<1>8. CASE UNCHANGED vars
  BY <1>1, <1>8 DEF vars
<1>9. QED
  BY <1>3, <1>4, <1>5, <1>6, <1>7, <1>8 DEF Next, Step, Background

-----------------------------------------------------------------------------
(* Type correctness *)

\* What makes TypeOK inductive: a file that is being written exists.
Opened ==
  \A r \in Request :
    (pc[r] \in {"read", "put"} \/ out[r] \in Write) => final[target(r)] # None

LEMMA TypeInit == Init => TypeOK
BY DEF Init, TypeOK

\* Leaving a handler keeps the types of the variables it resets.
LEMMA LeaveType ==
  ASSUME TypeOK, NEW r \in Request, NEW there \in Answered, Leave(r, there)
  PROVE  /\ pc' \in [Request -> Active \cup Answered \cup {"unsent"}]
         /\ next' \in [Request -> Nat]
         /\ buf' \in [Request -> Block \cup {Empty}]
         /\ pos' \in [Request -> Nat]
         /\ out' = out
BY DEF TypeOK, Leave, Goto

LEMMA PanicType ==
  ASSUME TypeOK, NEW r \in Request, NEW there \in {"refused", "panicked"}, Panic(r, there)
  PROVE  TypeOK'
<1>1. there \in Answered
  BY DEF Answered
<1>2. QED BY <1>1, LeaveType DEF TypeOK, Panic, fileSystem

\* Every step of the system keeps the type of every variable.
LEMMA TypeStep == TypeOK /\ Opened /\ PartsInv /\ [Next]_vars => TypeOK'
<1> SUFFICES ASSUME TypeOK, Opened, PartsInv, [Next]_vars PROVE TypeOK'
  OBVIOUS
<1> USE DEF fileSystem, locals
<1>1. ASSUME NEW r \in Request, Send(r) PROVE TypeOK'
  BY <1>1 DEF TypeOK, Send, Goto, Active
<1>2. ASSUME NEW r \in Request, MakeParts(r) PROVE TypeOK'
  BY <1>2, RequestTypes DEF TypeOK, MakeParts, Goto, Active
<1>3. ASSUME NEW r \in Request, SaveChunk(r) PROVE TypeOK'
  <2>1. CASE name(r) \in dirs
    <3>1. ChangeChunk(name(r), IndexOf[r], Empty)
      BY <1>3, <2>1 DEF SaveChunk
    <3>2. /\ part' \in [Name -> [Index -> Content]]
          /\ buf' \in [Request -> Block \cup {Empty}] /\ quiet' \subseteq quiet
      BY <3>1, ChangeType
    <3>3. QED BY <1>3, <2>1, <3>2 DEF TypeOK, SaveChunk, Goto, Active, Content
  <2>2. CASE name(r) \notin dirs
    BY <1>3, <2>2, PanicType DEF SaveChunk
  <2>3. QED BY <2>1, <2>2
<1>4. ASSUME NEW r \in Request, Land(r) \/ LoseChunk(r) PROVE TypeOK'
  <2>1. PICK k \in Nat : k <= BlockOf(r).size /\ LandFirst(r, k)
    BY <1>4, LandSteps
  <2>2. PICK c \in Block \cup {Empty} : ChangeChunk(name(r), IndexOf[r], c)
    BY <2>1, LandType DEF PartsInv
  <2>3. /\ part' \in [Name -> [Index -> Content]]
        /\ buf' \in [Request -> Block \cup {Empty}] /\ quiet' \subseteq quiet
    BY <2>2, ChangeType
  <2>4. QED BY <2>1, <2>3 DEF TypeOK, LandFirst, Content
<1>6. ASSUME NEW r \in Request, CountParts(r) PROVE TypeOK'
  <2>1. CASE name(r) \in dirs
    BY <1>6, <2>1 DEF TypeOK, CountParts, Goto, Active, Answered
  <2>2. CASE name(r) \notin dirs
    BY <1>6, <2>2, PanicType DEF CountParts
  <2>3. QED BY <2>1, <2>2
<1>7. ASSUME NEW r \in Request, OpenFinal(r) PROVE TypeOK'
  <2>1. <<>> \in Seq(Block \cup {Hole})
    OBVIOUS
  <2>2. quiet' \subseteq Request
    BY <1>7 DEF TypeOK, OpenFinal
  <2>3. final' \in [Target -> Seq(Block \cup {Hole}) \cup {None}]
    BY <1>7, <2>1 DEF TypeOK, OpenFinal
  <2>4. QED BY <1>7, <2>2, <2>3 DEF TypeOK, OpenFinal, Goto, Active
<1>8. ASSUME NEW r \in Request, ReadChunk(r) PROVE TypeOK'
  <2>1. CASE part[name(r)][next[r]] # None
    <3>1. next[r] \in Index
      BY <1>8, RequestTypes DEF TypeOK, ReadChunk
    <3>2. part[name(r)][next[r]] \in Block \cup {Empty}
      BY <2>1, <3>1, RequestTypes DEF TypeOK
    <3>3. buf' \in [Request -> Block \cup {Empty}]
      BY <1>8, <2>1, <3>2 DEF TypeOK, ReadChunk
    <3>4. /\ next' = [next EXCEPT ![r] = @ + 1] /\ pc' = [pc EXCEPT ![r] = "put"]
          /\ UNCHANGED <<dirs, part, final, late, pos, out, quiet>>
      BY <1>8, <2>1 DEF ReadChunk, Goto
    <3>5. QED BY <3>3, <3>4 DEF TypeOK, Active
  <2>2. CASE part[name(r)][next[r]] = None
    BY <1>8, <2>2, PanicType DEF ReadChunk
  <2>3. QED BY <2>1, <2>2
<1>9. ASSUME NEW r \in Request, PutChunk(r) PROVE TypeOK'
  <2>1. CASE buf[r] = Empty /\ UNCHANGED <<fileSystem, late, locals, out, quiet>>
    BY <1>9, <2>1 DEF TypeOK, PutChunk, Goto, Active
  <2>2. CASE /\ buf[r] # Empty
             /\ pos' = [pos EXCEPT ![r] = @ + 1]
             /\ out' = [out EXCEPT ![r] = [place |-> pos[r] + 1, block |-> buf[r]]]
             /\ Goto(r, "read")
             /\ buf' = [buf EXCEPT ![r] = Empty]
             /\ UNCHANGED <<fileSystem, late, next, quiet>>
    <3>1. [place |-> pos[r] + 1, block |-> buf[r]] \in Write
      BY <2>2 DEF TypeOK, Write
    <3>2. QED BY <2>2, <3>1 DEF TypeOK, Goto, Active
  <2>3. CASE Panic(r, "panicked")
    BY <2>3, PanicType
  <2>4. QED BY <1>9, <2>1, <2>2, <2>3 DEF PutChunk
<1>10. ASSUME NEW r \in Request, LandBlock(r) PROVE TypeOK'
  <2> DEFINE f == WriteAt(final[target(r)], out[r].place, out[r].block)
  <2>1. out[r] \in Write /\ out[r].place \in Nat \ {0} /\ out[r].block \in Block
    BY <1>10 DEF TypeOK, LandBlock, Write
  <2>2. final[target(r)] \in Seq(Block \cup {Hole}) => f \in Seq(Block \cup {Hole})
    BY <2>1, WriteAtType
  <2>3. final[target(r)] \in Seq(Block \cup {Hole})
    BY <2>1, RequestTypes DEF TypeOK, Opened
  <2>4. QED BY <1>10, <2>2, <2>3 DEF TypeOK, LandBlock
<1>11. ASSUME NEW r \in Request, LoseBlock(r) PROVE TypeOK'
  BY <1>11 DEF TypeOK, LoseBlock
<1>12. ASSUME NEW r \in Request, ClearParts(r) PROVE TypeOK'
  <2>1. CASE name(r) \in dirs
    <3> DEFINE cleared == [i \in Index |-> None]
    <3>1. part' = [part EXCEPT ![name(r)] = cleared]
      BY <1>12, <2>1 DEF ClearParts
    <3>2. cleared \in [Index -> Block \cup {None, Empty}]
      OBVIOUS
    <3> HIDE DEF cleared
    <3>3. part' \in [Name -> [Index -> Block \cup {None, Empty}]]
      BY <3>1, <3>2 DEF TypeOK
    <3>4. QED BY <1>12, <2>1, <3>3 DEF TypeOK, ClearParts, Goto, Active
  <2>2. CASE name(r) \notin dirs
    BY <1>12, <2>2, PanicType DEF ClearParts
  <2>3. QED BY <2>1, <2>2
<1>13. ASSUME NEW r \in Request, RemoveDir(r) PROVE TypeOK'
  <2>1. "complete" \in Answered
    BY DEF Answered
  <2>2. QED BY <1>13, <2>1, LeaveType, PanicType DEF TypeOK, RemoveDir
<1>14. ASSUME NEW r \in Request, Abandon(r) PROVE TypeOK'
  <2>1. "abandoned" \in Answered
    BY DEF Answered
  <2>2. QED BY <1>14, <2>1, LeaveType DEF TypeOK, Abandon
<1>15. CASE UNCHANGED vars
  BY <1>15 DEF TypeOK, vars
<1>16. QED
  BY <1>1, <1>2, <1>3, <1>4, <1>6, <1>7, <1>8, <1>9, <1>10, <1>11, <1>12,
     <1>13, <1>14, <1>15 DEF Next, Step, Background

LEMMA OpenedStep == TypeOK /\ Opened /\ [Next]_vars => Opened'
<1> SUFFICES ASSUME TypeOK, Opened, [Next]_vars PROVE Opened'
  OBVIOUS
<1> USE DEF fileSystem, locals
<1>1. ASSUME \A q \in Request : pc'[q] \in {"read", "put"} => pc[q] \in {"read", "put"},
             \A q \in Request : out'[q] \in Write => out[q] \in Write,
             \A t \in Target : final[t] # None => final'[t] # None
      PROVE  Opened'
  BY <1>1, RequestTypes DEF Opened
<1>2. ASSUME NEW r \in Request, OpenFinal(r) PROVE Opened'
  <2>1. <<>> # None
    <3>1. <<>> \in Seq(Block \cup {Hole})
      OBVIOUS
    <3>2. QED BY <3>1, ValuesAssumption
  <2>2. final'[target(r)] # None /\ \A t \in Target : final[t] # None => final'[t] # None
    BY <1>2, <2>1, RequestTypes DEF TypeOK, OpenFinal
  <2>3. \A q \in Request \ {r} : pc'[q] = pc[q]
    BY <1>2 DEF TypeOK, OpenFinal, Goto
  <2>4. out' = out
    BY <1>2 DEF OpenFinal
  <2>5. QED BY <2>2, <2>3, <2>4, RequestTypes DEF Opened
<1>3. ASSUME NEW r \in Request, PutChunk(r) PROVE Opened'
  <2>1. final' = final /\ pc[r] = "put" /\ final[target(r)] # None
    BY <1>3 DEF PutChunk, Panic, Opened
  <2>2. \A q \in Request \ {r} : pc'[q] = pc[q] /\ out'[q] = out[q]
    BY <1>3 DEF TypeOK, PutChunk, Panic, Leave, Goto
  <2>3. QED BY <2>1, <2>2 DEF Opened
<1>4. ASSUME NEW r \in Request, LandBlock(r) PROVE Opened'
  <2> DEFINE f == WriteAt(final[target(r)], out[r].place, out[r].block)
  <2>1. out[r] \in Write /\ out[r].place \in Nat \ {0} /\ out[r].block \in Block
    BY <1>4 DEF TypeOK, LandBlock, Write
  <2>2. final[target(r)] \in Seq(Block \cup {Hole})
    BY <2>1, RequestTypes DEF TypeOK, Opened
  <2>3. f # None
    BY <2>1, <2>2, WriteAtType, ValuesAssumption
  <2>4. \A t \in Target : final[t] # None => final'[t] # None
    BY <1>4, <2>3 DEF TypeOK, LandBlock
  <2>5. pc' = pc /\ \A q \in Request : out'[q] \in Write => out[q] \in Write
    BY <1>4, ValuesAssumption DEF TypeOK, LandBlock
  <2>6. QED BY <1>1, <2>4, <2>5
<1>5. ASSUME NEW r \in Request, LoseBlock(r) PROVE Opened'
  BY <1>1, <1>5, ValuesAssumption DEF TypeOK, LoseBlock
<1>6. ASSUME NEW r \in Request, ReadChunk(r) PROVE Opened'
  <2>1. final' = final /\ out' = out
    BY <1>6 DEF ReadChunk, Panic, Leave
  <2>2. pc[r] = "read" /\ \A q \in Request \ {r} : pc'[q] = pc[q]
    BY <1>6 DEF TypeOK, ReadChunk, Panic, Leave, Goto
  <2>3. QED BY <1>1, <2>1, <2>2
<1>7. ASSUME NEW r \in Request,
             \/ Send(r) \/ MakeParts(r) \/ SaveChunk(r) \/ CountParts(r)
             \/ ClearParts(r) \/ RemoveDir(r) \/ Abandon(r)
      PROVE  Opened'
  <2>1. final' = final /\ out' = out
    BY <1>7 DEF Send, MakeParts, SaveChunk, CountParts, ClearParts, RemoveDir,
       Abandon, Panic, Leave
  <2>2. \A q \in Request : pc'[q] = pc[q] \/ pc'[q] \notin {"read", "put"}
    BY <1>7 DEF TypeOK, Send, MakeParts, SaveChunk, CountParts, ClearParts,
       RemoveDir, Abandon, Panic, Leave, Goto
  <2>3. QED BY <1>1, <2>1, <2>2
<1>8. ASSUME NEW r \in Request, Land(r) \/ LoseChunk(r) PROVE Opened'
  BY <1>1, <1>8 DEF Land, LoseChunk, LandFirst
<1>9. CASE UNCHANGED vars
  BY <1>1, <1>9 DEF vars
<1>10. QED
  BY <1>2, <1>3, <1>4, <1>5, <1>6, <1>7, <1>8, <1>9 DEF Next, Step, Background

\* Every variable keeps its type, whatever the clients send and in which order.
THEOREM UploadTypeCorrect == Spec => []TypeOK
<1>1. Init => Opened /\ PartsInv
  BY ValuesAssumption DEF Init, Opened, PartsInv, PartsInDirs, LateHasFile, Entries
<1>2. QED BY <1>1, TypeInit, TypeStep, OpenedStep, PartsStep, PTL DEF Spec

-----------------------------------------------------------------------------
(* Undisturbed assemblies *)

\* A request that has not opened the target has written nothing.
Fresh ==
  \A r \in Request :
    pc[r] \in {"unsent", "sent", "save", "count", "open"} =>
      out[r] = None /\ next[r] = 0 /\ pos[r] = 0

\* Nobody else writes to the target of r.
Alone(r) ==
  \A q \in Request \ {r} :
    target(q) = target(r) => pc[q] \notin {"read", "put"} /\ out[q] \notin Write

\* b may stand at place k of the file of r.
Right(r, b, k) == Own(r, b, k - 1)

\* As far as r has read, it has passed on its chunks one by one; what it has
\* yet to read is its own chunk, or is gone.
InStep(r) ==
  /\ pc[r] \in {"read", "put", "rmdir", "complete"}
  /\ next[r] <= total_chunks(r)
  /\ pc[r] \in {"read", "put"} =>
       \A i \in next[r] .. total_chunks(r) - 1 :
         part[name(r)][i] = None \/ Own(r, part[name(r)][i], i)
  /\ pc[r] = "read" => pos[r] = next[r]
  /\ pc[r] = "put" => pos[r] + 1 = next[r] /\ Right(r, buf[r], next[r])
  /\ pc[r] = "rmdir" => pos[r] = total_chunks(r)

Written(r) == IF pc[r] = "complete" THEN total_chunks(r) ELSE pos[r]

Holds(r, n) ==
  /\ Len(final[target(r)]) = n
  /\ \A k \in 1 .. n : Right(r, final[target(r)][k], k)

\* The target holds all that r has written, but for a block on its way.
Assembled(r) ==
  /\ out[r] = None => Holds(r, Written(r))
  /\ out[r] \in Write =>
       /\ out[r].place = Written(r)
       /\ Right(r, out[r].block, Written(r))
       /\ Holds(r, Written(r) - 1)

Undisturbed(r) == Alone(r) /\ InStep(r) /\ Assembled(r)

QuietInv == Fresh /\ \A r \in quiet : Undisturbed(r)

Opening == {"unsent", "sent", "save", "count", "open"}

LEMMA FreshStep == TypeOK /\ Fresh /\ [Next]_vars => Fresh'
<1> SUFFICES ASSUME TypeOK, Fresh, [Next]_vars PROVE Fresh'
  OBVIOUS
<1> USE DEF fileSystem, locals
<1>1. ASSUME NEW r \in Request,
             \A q \in Request \ {r} :
               pc'[q] = pc[q] /\ out'[q] = out[q] /\ next'[q] = next[q] /\ pos'[q] = pos[q],
             \/ pc'[r] \notin Opening
             \/ pc[r] \in Opening /\ out'[r] = out[r] /\ next'[r] = next[r] /\ pos'[r] = pos[r]
      PROVE  Fresh'
  BY <1>1 DEF Fresh, Opening
<1>2. ASSUME NEW r \in Request, NEW there \in Answered, Leave(r, there) PROVE Fresh'
  BY <1>1, <1>2 DEF TypeOK, Leave, Goto, Answered, Opening
<1>3. ASSUME NEW r \in Request, NEW there \in {"refused", "panicked"}, Panic(r, there)
      PROVE  Fresh'
  BY <1>2, <1>3 DEF Panic, Answered
<1>4. ASSUME NEW r \in Request, Send(r) \/ MakeParts(r) \/ OpenFinal(r) PROVE Fresh'
  BY <1>1, <1>4 DEF TypeOK, Send, MakeParts, OpenFinal, Goto, Opening
<1>5. ASSUME NEW r \in Request, SaveChunk(r) \/ CountParts(r) PROVE Fresh'
  <2>1. CASE name(r) \in dirs
    BY <1>1, <1>5, <2>1 DEF TypeOK, SaveChunk, CountParts, Goto, Opening
  <2>2. CASE name(r) \notin dirs
    BY <1>3, <1>5, <2>2 DEF SaveChunk, CountParts
  <2>3. QED BY <2>1, <2>2
<1>6. ASSUME NEW r \in Request, Land(r) \/ LoseChunk(r) PROVE Fresh'
  BY <1>6 DEF Fresh, Land, LoseChunk, LandFirst
<1>7. ASSUME NEW r \in Request, ReadChunk(r) PROVE Fresh'
  <2>1. CASE part[name(r)][next[r]] # None
    BY <1>1, <1>7, <2>1 DEF TypeOK, ReadChunk, Goto, Opening
  <2>2. QED BY <1>3, <1>7, <2>1 DEF ReadChunk
<1>8. ASSUME NEW r \in Request, PutChunk(r) PROVE Fresh'
  <2>1. CASE Panic(r, "panicked")
    BY <1>3, <2>1
  <2>2. CASE ~Panic(r, "panicked")
    BY <1>1, <1>8, <2>2 DEF TypeOK, PutChunk, Goto, Opening
  <2>3. QED BY <2>1, <2>2
<1>9. ASSUME NEW r \in Request, LandBlock(r) \/ LoseBlock(r) PROVE Fresh'
  BY <1>1, <1>9 DEF TypeOK, LandBlock, LoseBlock, Fresh, Opening
<1>10. ASSUME NEW r \in Request, ClearParts(r) PROVE Fresh'
  <2>1. CASE name(r) \in dirs
    BY <1>1, <1>10, <2>1 DEF TypeOK, ClearParts, Goto, Opening
  <2>2. QED BY <1>3, <1>10, <2>1 DEF ClearParts
<1>11. ASSUME NEW r \in Request, RemoveDir(r) \/ Abandon(r) PROVE Fresh'
  BY <1>2, <1>3, <1>11 DEF RemoveDir, Abandon, Answered
<1>12. CASE UNCHANGED vars
  BY <1>12 DEF Fresh, vars
<1>13. QED
  BY <1>4, <1>5, <1>6, <1>7, <1>8, <1>9, <1>10, <1>11, <1>12 DEF Next, Step, Background

\* A step that leaves r's own state and its target alone, and does not start to
\* write there, does not disturb it.
LEMMA Bystander ==
  ASSUME TypeOK, NEW r \in Request, Undisturbed(r),
         pc'[r] = pc[r], next'[r] = next[r], buf'[r] = buf[r], pos'[r] = pos[r],
         out'[r] = out[r], final'[target(r)] = final[target(r)],
         pc[r] \in {"read", "put"} => \A i \in Index : next[r] <= i =>
           part'[name(r)][i] \in {part[name(r)][i], None},
         \A q \in Request \ {r} :
           target(q) = target(r) /\ (pc'[q] \in {"read", "put"} \/ out'[q] \in Write) =>
             pc[q] \in {"read", "put"} \/ out[q] \in Write
  PROVE  Undisturbed(r)'
<1>1. Alone(r)'
  BY DEF Undisturbed, Alone
<1>2. InStep(r)'
  <2>1. \A i \in next[r] .. total_chunks(r) - 1 : i \in Index
    <3>1. next[r] \in Nat /\ total_chunks(r) \in Nat
      BY RequestTypes DEF TypeOK
    <3>2. \A i \in next[r] .. total_chunks(r) - 1 : i \in 0 .. total_chunks(r) - 1
      BY <3>1
    <3>3. QED BY <3>2, RequestTypes
  <2>2. ASSUME pc[r] \in {"read", "put"}, NEW i \in next[r] .. total_chunks(r) - 1
        PROVE  part'[name(r)][i] = None \/ Own(r, part'[name(r)][i], i)
    <3>1. i \in Index /\ next[r] <= i
      BY <2>1, <2>2 DEF TypeOK
    <3>2. part[name(r)][i] = None \/ Own(r, part[name(r)][i], i)
      BY <2>2 DEF Undisturbed, InStep
    <3>3. part'[name(r)][i] \in {part[name(r)][i], None}
      BY <2>2, <3>1
    <3>4. QED BY <3>2, <3>3
  <2>3. pc[r] = "put" => Right(r, buf[r], next[r])'
    BY DEF Undisturbed, InStep, Right, Own
  <2>4. QED BY <2>2, <2>3 DEF Undisturbed, InStep
<1>3. Assembled(r)'
  BY DEF Undisturbed, Assembled, Holds, Right, Own, Written
<1>4. QED BY <1>1, <1>2, <1>3 DEF Undisturbed

\* An undisturbed assembly whose last block has landed holds every chunk.
LEMMA UndisturbedWhole ==
  ASSUME TypeOK, NEW r \in Request, Undisturbed(r), Settled(r)
  PROVE  /\ Len(final[target(r)]) = total_chunks(r)
         /\ \A k \in 1 .. total_chunks(r) : Own(r, final[target(r)][k], k - 1)
BY DEF Undisturbed, Assembled, Settled, Written, Holds, Right

\* Reading and writing on, an assembly stays in step.
LEMMA OwnStep ==
  ASSUME TypeOK, Opened, NEW r \in Request, Undisturbed(r), r \in quiet',
         \/ ReadChunk(r) \/ PutChunk(r) \/ LandBlock(r) \/ LoseBlock(r)
         \/ ClearParts(r) \/ RemoveDir(r)
  PROVE  Undisturbed(r)'
<1> USE DEF fileSystem, locals
<1> DEFINE t == target(r)
           n == total_chunks(r)
<1>1. n \in Nat \ {0} /\ t \in Target /\ name(r) \in Name /\ 0 .. n - 1 \subseteq Index
  BY RequestTypes
<1>2. ~Panic(r, "panicked")
  BY DEF Panic
<1>3. ASSUME \A q \in Request \ {r} : pc'[q] = pc[q] /\ out'[q] = out[q] PROVE Alone(r)'
  BY <1>3 DEF Undisturbed, Alone
<1>4. CASE ReadChunk(r)
  <2>0. /\ pc[r] = "read" /\ next[r] \in 0 .. n - 1
        /\ \/ part[name(r)][next[r]] = None
           \/ Own(r, part[name(r)][next[r]], next[r])
    <3>1. pc[r] = "read" /\ next[r] \in next[r] .. n - 1 /\ next[r] \in 0 .. n - 1
      BY <1>1, <1>4 DEF TypeOK, ReadChunk
    <3>2. \A i \in next[r] .. n - 1 :
            part[name(r)][i] = None \/ Own(r, part[name(r)][i], i)
      BY <3>1 DEF Undisturbed, InStep
    <3>3. QED BY <3>1, <3>2
  <2>1. /\ pc[r] = "read" /\ next[r] < n /\ next[r] \in Index
        /\ part[name(r)][next[r]] # None
        /\ buf' = [buf EXCEPT ![r] = part[name(r)][next[r]]]
        /\ next' = [next EXCEPT ![r] = @ + 1]
        /\ Goto(r, "put")
        /\ UNCHANGED <<fileSystem, late, pos, out, quiet>>
    BY <1>1, <1>2, <1>4, <2>0 DEF ReadChunk
  <2>2. Own(r, part[name(r)][next[r]], next[r])
    BY <2>0, <2>1
  <2>3. /\ buf'[r] = part[name(r)][next[r]] /\ next'[r] = next[r] + 1 /\ pos'[r] = pos[r]
        /\ pc'[r] = "put" /\ out'[r] = out[r] /\ final' = final /\ part' = part
        /\ \A q \in Request \ {r} : pc'[q] = pc[q] /\ out'[q] = out[q]
    BY <2>1 DEF TypeOK, Goto
  <2>4. Right(r, buf'[r], next'[r])
    <3>1. next'[r] - 1 = next[r]
      BY <2>0, <2>3
    <3>2. Own(r, buf'[r], next'[r] - 1)
      BY <2>2, <2>3, <3>1, Zenon
    <3>3. QED BY <3>2 DEF Right
  <2>5. InStep(r)'
    <3>1. pos[r] = next[r] /\ next[r] \in Nat /\ next'[r] <= n
      BY <1>1, <2>1, <2>3 DEF TypeOK, Undisturbed, InStep
    <3>2. \A i \in next'[r] .. n - 1 :
            part'[name(r)][i] = None \/ Own(r, part'[name(r)][i], i)
      <4>1. \A i \in next'[r] .. n - 1 : i \in next[r] .. n - 1
        BY <1>1, <2>3, <3>1
      <4>2. QED BY <2>1, <2>3, <4>1 DEF Undisturbed, InStep
    <3>3. QED BY <2>3, <2>4, <3>1, <3>2 DEF InStep, Right, Own
  <2>6. Assembled(r)'
    BY <2>1, <2>3 DEF Undisturbed, Assembled, Holds, Right, Own, Written
  <2>7. QED BY <1>3, <2>3, <2>5, <2>6 DEF Undisturbed
<1>5. CASE PutChunk(r)
  <2>1. pc[r] = "put" /\ pos[r] + 1 = next[r] /\ Right(r, buf[r], next[r]) /\ buf[r] # Empty
    BY <1>5, ValuesAssumption DEF PutChunk, Undisturbed, InStep, Right, Own
  <2>2. /\ out[r] = None
        /\ pos' = [pos EXCEPT ![r] = @ + 1]
        /\ out' = [out EXCEPT ![r] = [place |-> pos[r] + 1, block |-> buf[r]]]
        /\ Goto(r, "read")
        /\ UNCHANGED <<fileSystem, late, next, quiet>>
    BY <1>2, <1>5, <2>1 DEF PutChunk
  <2>3. /\ pos'[r] = pos[r] + 1 /\ next'[r] = next[r] /\ pc'[r] = "read"
        /\ out'[r].place = pos[r] + 1 /\ out'[r].block = buf[r]
        /\ final' = final /\ part' = part
        /\ \A q \in Request \ {r} : pc'[q] = pc[q] /\ out'[q] = out[q]
    BY <2>2 DEF TypeOK, Goto
  <2>4. out'[r] \in Write /\ out'[r] # None
    <3>1. [place |-> pos[r] + 1, block |-> buf[r]] \in Write
      BY <2>1 DEF TypeOK, Write, Right, Own
    <3>2. out'[r] = [place |-> pos[r] + 1, block |-> buf[r]]
      BY <2>2 DEF TypeOK
    <3>3. QED BY <3>1, <3>2, ValuesAssumption
  <2>5. InStep(r)'
    BY <1>1, <2>1, <2>3 DEF TypeOK, Undisturbed, InStep, Own
  <2>6. Assembled(r)'
    <3>1. Holds(r, pos[r])
      BY <2>1, <2>2 DEF Undisturbed, Assembled, Written
    <3>2. Written(r)' = pos[r] + 1 /\ pos[r] \in Nat
      BY <2>3 DEF TypeOK, Written
    <3>3. Right(r, out'[r].block, Written(r)')
      BY <2>1, <2>3, <3>2 DEF Right
    <3>4. Holds(r, Written(r) - 1)'
      BY <2>3, <3>1, <3>2 DEF Holds, Right, Own
    <3>5. QED BY <2>3, <2>4, <3>2, <3>3, <3>4 DEF Assembled, Right, Own
  <2>7. QED BY <1>3, <2>3, <2>5, <2>6 DEF Undisturbed
<1>6. CASE LandBlock(r)
  <2> DEFINE w == Written(r)
             f == final[t]
             g == WriteAt(f, out[r].place, out[r].block)
  <2>1. out[r] \in Write /\ out[r].place \in Nat \ {0} /\ out[r].block \in Block
    BY <1>6 DEF TypeOK, LandBlock, Write
  <2>2. out[r].place = w /\ Right(r, out[r].block, w) /\ Holds(r, w - 1)
    BY <2>1 DEF Undisturbed, Assembled
  <2>3. f \in Seq(Block \cup {Hole})
    BY <1>1, <2>1 DEF TypeOK, Opened
  <2>4. /\ Len(g) = IF w > Len(f) THEN w ELSE Len(f)
        /\ g[w] = out[r].block
        /\ \A j \in 1 .. Len(f) : j # w => g[j] = f[j]
    BY <2>1, <2>2, <2>3, WriteAtType
  <2>5. Len(g) = w /\ \A k \in 1 .. w : Right(r, g[k], k)
    <3> HIDE DEF g
    <3>1. Len(f) = w - 1 /\ \A k \in 1 .. w - 1 : Right(r, f[k], k)
      BY <2>2 DEF Holds
    <3> HIDE DEF f, w
    <3>2. QED BY <2>1, <2>2, <2>4, <3>1 DEF Right
  <2>6. final'[t] = g /\ out'[r] = None
    BY <1>1, <1>6 DEF TypeOK, LandBlock
  <2>7. /\ UNCHANGED <<part, pc, next, buf, pos>>
        /\ \A q \in Request \ {r} : pc'[q] = pc[q] /\ out'[q] = out[q]
    BY <1>6 DEF TypeOK, LandBlock
  <2>8. InStep(r)'
    BY <2>7 DEF Undisturbed, InStep, Right, Own
  <2>9. Assembled(r)'
    <3> HIDE DEF g
    <3>1. Written(r)' = w
      BY <2>7 DEF Written
    <3>2. Holds(r, w)'
      BY <2>5, <2>6, <2>7, <3>1 DEF Holds, Right, Own, Written
    <3>3. QED BY <2>6, <3>1, <3>2, ValuesAssumption DEF Assembled, Holds
  <2>10. QED BY <1>3, <2>7, <2>8, <2>9 DEF Undisturbed
<1>7. CASE LoseBlock(r)
  <2>1. /\ out'[r] = Failed
        /\ UNCHANGED <<part, final, pc, next, buf, pos>>
        /\ \A q \in Request \ {r} : pc'[q] = pc[q] /\ out'[q] = out[q]
    BY <1>7 DEF TypeOK, LoseBlock
  <2>2. InStep(r)' /\ Assembled(r)'
    BY <2>1, ValuesAssumption DEF Undisturbed, InStep, Assembled, Right, Own
  <2>3. QED BY <1>3, <2>1, <2>2 DEF Undisturbed
<1>8. CASE ClearParts(r)
  <2>1. /\ pc[r] = "read" /\ next[r] = n /\ pc'[r] = "rmdir"
        /\ UNCHANGED <<final, next, buf, pos, out>>
        /\ \A q \in Request \ {r} : pc'[q] = pc[q] /\ out'[q] = out[q]
    BY <1>2, <1>8 DEF TypeOK, ClearParts, Goto
  <2>2. InStep(r)'
    BY <1>1, <2>1 DEF Undisturbed, InStep
  <2>3. Assembled(r)'
    BY <2>1 DEF Undisturbed, Assembled, Holds, Right, Own, Written
  <2>4. QED BY <1>3, <2>1, <2>2, <2>3 DEF Undisturbed
<1>9. CASE RemoveDir(r)
  <2>1. pc[r] = "rmdir" /\ Leave(r, "complete") /\ UNCHANGED <<part, final, late, quiet>>
    BY <1>2, <1>9 DEF RemoveDir
  <2>2. /\ pc'[r] = "complete" /\ next'[r] = 0
        /\ UNCHANGED <<final, out>>
        /\ \A q \in Request \ {r} : pc'[q] = pc[q] /\ out'[q] = out[q]
    BY <2>1 DEF TypeOK, Leave, Goto
  <2>3. InStep(r)'
    BY <1>1, <2>2 DEF InStep
  <2>4. Assembled(r)'
    <3>1. Written(r)' = Written(r)
      BY <2>1, <2>2 DEF Undisturbed, InStep, Written
    <3>2. QED BY <2>2, <3>1 DEF Undisturbed, Assembled, Holds, Right, Own
  <2>5. QED BY <1>3, <2>2, <2>3, <2>4 DEF Undisturbed
<1>10. QED BY <1>4, <1>5, <1>6, <1>7, <1>8, <1>9

LEMMA QuietStep == TypeOK /\ Opened /\ PartsInv /\ QuietInv /\ [Next]_vars => QuietInv'
<1> SUFFICES ASSUME TypeOK, Opened, PartsInv, QuietInv, [Next]_vars, NEW r \in quiet'
             PROVE  Undisturbed(r)'
  BY FreshStep DEF QuietInv
<1> USE DEF fileSystem, locals
<1> DEFINE Others(a) ==
      \A q \in Request \ {a} :
        /\ pc'[q] = pc[q] /\ next'[q] = next[q] /\ buf'[q] = buf[q]
        /\ pos'[q] = pos[q] /\ out'[q] = out[q]
<1>1. /\ r \in Request /\ name(r) \in Name /\ target(r) \in Target
      /\ \A q \in quiet : q \in Request /\ Undisturbed(q) /\ Alone(q) /\ InStep(q)
      /\ Fresh
  <2>1. r \in Request
    BY TypeStep DEF TypeOK
  <2>2. QED BY <2>1, RequestTypes DEF QuietInv, Undisturbed, TypeOK
\* The steps that neither write the target nor start to.
<1>2. ASSUME NEW a \in Request, a # r, r \in quiet, Others(a), final' = final,
             pc[r] \in {"read", "put"} => \A i \in Index : next[r] <= i =>
               part'[name(r)][i] \in {part[name(r)][i], None},
             target(a) = target(r) /\ (pc'[a] \in {"read", "put"} \/ out'[a] \in Write) =>
               pc[a] \in {"read", "put"} \/ out[a] \in Write
      PROVE  Undisturbed(r)'
  BY <1>1, <1>2, Bystander
<1>3. ASSUME NEW a \in Request, NEW there \in Answered, Leave(a, there)
      PROVE  Others(a) /\ out' = out /\ pc'[a] \notin {"read", "put"}
  BY <1>3 DEF TypeOK, Leave, Goto, Answered
<1>4. ASSUME NEW a \in Request, NEW there \in {"refused", "panicked"}, Panic(a, there)
      PROVE  Undisturbed(r)'
  <2>1. there \in Answered /\ Leave(a, there) /\ quiet' = quiet \ {a} /\ UNCHANGED <<part, final>>
    BY <1>4 DEF Panic, Answered
  <2>2. QED BY <1>2, <1>3, <2>1
<1>5. ASSUME NEW a \in Request, Send(a) \/ MakeParts(a) \/ Abandon(a) PROVE Undisturbed(r)'
  <2>1. CASE Abandon(a)
    <3>1. "abandoned" \in Answered
      BY DEF Answered
    <3>2. Leave(a, "abandoned") /\ quiet' = quiet \ {a} /\ UNCHANGED <<part, final>>
      BY <2>1 DEF Abandon
    <3>3. QED BY <1>2, <1>3, <3>1, <3>2
  <2>2. CASE Send(a) \/ MakeParts(a)
    <3>1. /\ pc[a] \in {"unsent", "sent"} /\ UNCHANGED <<part, final, quiet, out>>
          /\ Others(a) /\ pc'[a] \notin {"read", "put"}
      BY <2>2 DEF TypeOK, Send, MakeParts, Goto
    <3>2. a # r
      BY <1>1, <3>1 DEF InStep
    <3>3. QED BY <1>2, <3>1, <3>2
  <2>3. QED BY <1>5, <2>1, <2>2
<1>6. ASSUME NEW a \in Request, SaveChunk(a) PROVE Undisturbed(r)'
  <2>1. CASE name(a) \in dirs
    <3>1. /\ ChangeChunk(name(a), IndexOf[a], Empty) /\ pc[a] \in {"sent", "save"}
          /\ pc'[a] = "count" /\ UNCHANGED <<final, next, pos, out>>
          /\ \A q \in Request \ {a} : pc'[q] = pc[q]
      BY <1>6, <2>1 DEF TypeOK, SaveChunk, Goto
    <3>2. /\ r \in quiet /\ buf'[r] = buf[r]
          /\ pc[r] \in {"read", "put"} => \A i \in Index : next[r] <= i =>
               part'[name(r)][i] \in {part[name(r)][i], None}
      BY <3>1, ChangeType
    <3>3. a # r
      BY <1>1, <3>1, <3>2 DEF InStep
    <3>4. QED BY <1>1, <3>1, <3>2, <3>3, Bystander
  <2>2. CASE name(a) \notin dirs
    BY <1>4, <1>6, <2>2 DEF SaveChunk
  <2>3. QED BY <2>1, <2>2
<1>7. ASSUME NEW a \in Request, Land(a) \/ LoseChunk(a) PROVE Undisturbed(r)'
  <2>1. PICK k \in Nat : k <= BlockOf(a).size /\ LandFirst(a, k)
    BY <1>7, LandSteps
  <2>2. PICK c \in Block \cup {Empty} : ChangeChunk(name(a), IndexOf[a], c)
    BY <2>1, LandType DEF PartsInv
  <2>3. /\ r \in quiet /\ buf'[r] = buf[r]
        /\ pc[r] \in {"read", "put"} => \A i \in Index : next[r] <= i =>
             part'[name(r)][i] \in {part[name(r)][i], None}
    BY <2>2, ChangeType
  <2>4. UNCHANGED <<final, pc, next, pos, out>>
    BY <2>1 DEF LandFirst
  <2>5. QED BY <1>1, <2>3, <2>4, Bystander
<1>8. ASSUME NEW a \in Request, CountParts(a) PROVE Undisturbed(r)'
  <2>1. CASE name(a) \in dirs
    <3>1. /\ pc[a] = "count" /\ UNCHANGED <<part, final, quiet, out>>
          /\ Others(a) /\ pc'[a] \notin {"read", "put"}
      BY <1>8, <2>1 DEF TypeOK, CountParts, Goto
    <3>2. a # r
      BY <1>1, <3>1 DEF InStep
    <3>3. QED BY <1>2, <3>1, <3>2
  <2>2. CASE name(a) \notin dirs
    BY <1>4, <1>8, <2>2 DEF CountParts
  <2>3. QED BY <2>1, <2>2
<1>9. ASSUME NEW a \in Request, OpenFinal(a) PROVE Undisturbed(r)'
  <2>1. /\ pc[a] = "open" /\ pc'[a] = "read" /\ Others(a)
        /\ final' = [final EXCEPT ![target(a)] = <<>>]
        /\ UNCHANGED <<part, next, buf, pos, out>>
    BY <1>9 DEF TypeOK, OpenFinal, Goto
  <2>2. CASE r = a
    <3>1. ~Contended(r) /\ \A i \in 0 .. total_chunks(r) - 1 : Own(r, part[name(r)][i], i)
      <4>1. r \notin {q \in quiet : target(q) # target(a)}
        BY <2>2
      <4>2. r \in {q \in quiet : target(q) # target(a)} \cup
              (IF ~Contended(a) /\ \A i \in 0 .. total_chunks(a) - 1 : Own(a, part[name(a)][i], i)
               THEN {a} ELSE {})
        BY <1>9 DEF OpenFinal
      <4>3. QED BY <2>2, <4>1, <4>2
    <3>2. out[r] = None /\ next[r] = 0 /\ pos[r] = 0
      BY <1>1, <2>1, <2>2 DEF Fresh
    <3>3. Alone(r)'
      <4>1. \A q \in Request \ {r} : target(q) = target(r) =>
              pc[q] \notin {"read", "put"} /\ out[q] \in {None, Failed}
        BY <3>1 DEF Contended
      <4>2. QED BY <2>1, <2>2, <4>1, ValuesAssumption DEF Alone
    <3>4. InStep(r)'
      <4>1. total_chunks(r) \in Nat \ {0}
        BY <1>1, RequestTypes
      <4>2. \A i \in 0 .. total_chunks(r) - 1 : Own(r, part'[name(r)][i], i)
        BY <2>1, <3>1
      <4>3. QED BY <2>1, <2>2, <3>2, <4>1, <4>2 DEF InStep, Own
    <3>5. Assembled(r)'
      <4>1. final'[target(r)] = <<>>
        BY <1>1, <2>1, <2>2 DEF TypeOK
      <4>2. Written(r)' = 0
        BY <2>1, <2>2, <3>2 DEF Written
      <4>3. out'[r] = None /\ None \notin Write
        BY <2>1, <3>2, ValuesAssumption
      <4>4. Len(<<>>) = 0 /\ 1 .. 0 = {}
        OBVIOUS
      <4>5. QED BY <4>1, <4>2, <4>3, <4>4 DEF Assembled, Holds
    <3>6. QED BY <3>3, <3>4, <3>5 DEF Undisturbed
  <2>3. CASE r # a
    <3>1. r \in quiet /\ target(r) # target(a)
      BY <1>9, <2>3 DEF OpenFinal
    <3>2. final'[target(r)] = final[target(r)]
      BY <1>1, <2>1, <3>1 DEF TypeOK
    <3>3. QED BY <1>1, <2>1, <2>3, <3>1, <3>2, Bystander
  <2>4. QED BY <2>2, <2>3
<1>10. ASSUME NEW a \in Request, a # r,
              ReadChunk(a) \/ PutChunk(a) \/ ClearParts(a) \/ RemoveDir(a),
              ~Panic(a, "panicked")
       PROVE  Undisturbed(r)'
  <2>1. final' = final /\ r \in quiet /\ Others(a)
    BY <1>10 DEF TypeOK, ReadChunk, PutChunk, ClearParts, RemoveDir, Leave, Goto
  <2>2. \/ pc[a] \in {"read", "put"}
        \/ pc'[a] \notin {"read", "put"} /\ out' = out
    BY <1>10 DEF TypeOK, ReadChunk, PutChunk, ClearParts, RemoveDir, Leave, Goto
  <2>3. \A i \in Index : part'[name(r)][i] \in {part[name(r)][i], None}
    <3>1. CASE ClearParts(a)
      <4>1. part' = [part EXCEPT ![name(a)] = [i \in Index |-> None]]
        BY <1>10, <3>1 DEF ClearParts
      <4>2. QED BY <1>1, <4>1, ValuesAssumption DEF TypeOK
    <3>2. CASE ReadChunk(a) \/ PutChunk(a) \/ RemoveDir(a)
      BY <1>10, <3>2 DEF ReadChunk, PutChunk, RemoveDir
    <3>3. QED BY <1>10, <3>1, <3>2
  <2>4. QED BY <1>2, <1>10, <2>1, <2>2, <2>3
<1>11. ASSUME NEW a \in Request, a # r, LandBlock(a) \/ LoseBlock(a)
       PROVE  Undisturbed(r)'
  <2>1. /\ out[a] \in Write /\ out'[a] \in {None, Failed}
        /\ Others(a) /\ r \in quiet /\ pc' = pc /\ part' = part
        /\ \/ final' = final
           \/ final' = [final EXCEPT ![target(a)] =
                          WriteAt(@, out[a].place, out[a].block)]
    BY <1>11 DEF TypeOK, LandBlock, LoseBlock
  <2>2. target(a) # target(r)
    BY <1>1, <1>11, <2>1 DEF Alone
  <2>3. final'[target(r)] = final[target(r)]
    BY <1>1, <2>1, <2>2 DEF TypeOK
  <2>4. QED BY <1>1, <1>11, <2>1, <2>2, <2>3, Bystander
<1>12. ASSUME NEW a \in Request,
              \/ ReadChunk(a) \/ PutChunk(a) \/ LandBlock(a) \/ LoseBlock(a)
              \/ ClearParts(a) \/ RemoveDir(a)
       PROVE  Undisturbed(r)'
  <2>1. CASE Panic(a, "panicked")
    BY <1>4, <2>1
  <2>2. CASE a # r /\ ~Panic(a, "panicked")
    BY <1>10, <1>11, <1>12, <2>2
  <2>3. CASE a = r /\ ~Panic(a, "panicked")
    <3>1. r \in quiet
      BY <1>12, <2>3 DEF ReadChunk, PutChunk, LandBlock, LoseBlock, ClearParts, RemoveDir
    <3>2. QED BY <1>1, <1>12, <2>3, <3>1, OwnStep
  <2>4. QED BY <2>1, <2>2, <2>3
<1>13. CASE UNCHANGED vars
  BY <1>1, <1>13, Bystander DEF vars
<1>14. QED
  BY <1>5, <1>6, <1>7, <1>8, <1>9, <1>12, <1>13 DEF Next, Step, Background

\* An upload whose chunk files held its own whole chunks as its assembly opened
\* the target is saved whole, whatever is stored behind the assembly, lost,
\* retried, assembled or cleaned up meanwhile under its name.
THEOREM QuietAssemblyWholeHolds == Spec => []QuietAssemblyWhole
<1>1. Init => Opened /\ PartsInv /\ QuietInv
  BY ValuesAssumption DEF Init, Opened, PartsInv, PartsInDirs, LateHasFile, Entries,
     QuietInv, Fresh
<1>2. TypeOK /\ QuietInv => QuietAssemblyWhole
  BY UndisturbedWhole DEF QuietInv, QuietAssemblyWhole, TypeOK
<1>3. QED
  BY <1>1, <1>2, TypeInit, TypeStep, OpenedStep, PartsStep, QuietStep, PTL DEF Spec

-----------------------------------------------------------------------------
(* The last count finds every chunk *)

Before == {"unsent", "sent", "save", "refused"}
Begun == Assembling \cup {"complete"}
Cleared == {"rmdir", "complete"}

\* Without faults no write fails.
NothingFails == \A r \in Request : out[r] # Failed

\* What makes LastCountFinds inductive, for an upload u that has its name to
\* itself.  A chunk file means that its request has stored it, and the file
\* stays until an assembly that began with all of them clears the directory,
\* which leaves nothing behind.
Gathered(u) ==
  LET n == NameOf[u]
      R == RequestsOf(u)
  IN /\ \A i \in Entries(n) : \E r \in R : IndexOf[r] = i /\ Stored(r)
     /\ (\E r \in R : pc[r] \in Begun) => \A r \in R : Stored(r)
     /\ \A r \in R : Stored(r) =>
          IndexOf[r] \in Entries(n) \/ \E q \in R : pc[q] \in Cleared
     /\ (\E q \in R : pc[q] \in Cleared) => Entries(n) = {}
     /\ (\E r \in R : Stored(r)) => n \in dirs \/ \E q \in R : pc[q] = "complete"
     /\ (\A r \in R : Stored(r) /\ pc[r] # "count") => \E r \in R : pc[r] \in Begun

\* With one request for each chunk, as many chunk files as chunks are all of
\* them.
LEMMA CountIsAll ==
  ASSUME NEW u \in Upload, Sole(u),
         \A i \in Entries(NameOf[u]) :
           \E r \in RequestsOf(u) : IndexOf[r] = i /\ Stored(r)
  PROVE  Cardinality(Entries(NameOf[u])) = TotalOf[u] <=>
           \A r \in RequestsOf(u) : IndexOf[r] \in Entries(NameOf[u])
<1> DEFINE all == 0 .. TotalOf[u] - 1
<1>1. TotalOf[u] \in Nat \ {0}
  BY UploadsAssumption
<1>2. /\ \A r \in RequestsOf(u) : IndexOf[r] \in all
      /\ \A i \in all : \E r \in RequestsOf(u) : IndexOf[r] = i
  BY RequestTypes DEF RequestsOf, total_chunks, Sole
<1>3. Entries(NameOf[u]) \in SUBSET all
  BY <1>2
<1>4. IsFiniteSet(all) /\ Cardinality(all) = TotalOf[u]
  <2>1. 0 \in Int /\ TotalOf[u] - 1 \in Int
    BY <1>1
  <2>2. /\ IsFiniteSet(all)
        /\ Cardinality(all) = IF 0 > TotalOf[u] - 1 THEN 0 ELSE TotalOf[u] - 1 - 0 + 1
    BY <2>1, FS_Interval
  <2>3. QED BY <1>1, <2>2
<1>5. Cardinality(Entries(NameOf[u])) = TotalOf[u] <=> Entries(NameOf[u]) = all
  BY <1>3, <1>4, FS_Subset
<1>6. Entries(NameOf[u]) = all <=> \A r \in RequestsOf(u) : IndexOf[r] \in Entries(NameOf[u])
  BY <1>2, <1>3
<1>7. QED BY <1>5, <1>6

\* A step that neither makes nor removes chunk files of u, and moves its
\* requests only before they store or between opening and clearing.
LEMMA GatheredFrame ==
  ASSUME NEW u \in Upload, Gathered(u),
         Entries(NameOf[u])' = Entries(NameOf[u]),
         NameOf[u] \in dirs => NameOf[u] \in dirs',
         \A r \in RequestsOf(u) :
           \/ pc'[r] = pc[r]
           \/ pc[r] \in Before /\ pc'[r] \in Before
           \/ pc[r] \in {"open", "read", "put"} /\ pc'[r] \in {"open", "read", "put"}
  PROVE  Gathered(u)'
<1> DEFINE R == RequestsOf(u)
<1>1. \A r \in R : /\ Stored(r)' <=> Stored(r)
                   /\ pc'[r] \in Begun <=> pc[r] \in Begun
                   /\ pc'[r] \in Cleared <=> pc[r] \in Cleared
                   /\ pc'[r] = "complete" <=> pc[r] = "complete"
                   /\ pc'[r] = "count" <=> pc[r] = "count"
  BY DEF Stored, Before, Begun, Cleared, Assembling
<1>2. RequestsOf(u)' = RequestsOf(u)
  BY DEF RequestsOf
<1>3. QED
  BY <1>1, <1>2 DEF Gathered

\* A request may fail once another one has read everything.
LEMMA GatheredPanic ==
  ASSUME TypeOK, NEW u \in Upload, Gathered(u), NEW r \in RequestsOf(u),
         pc[r] \in {"count"} \cup Assembling, Goto(r, "panicked"), UNCHANGED fileSystem,
         NEW q \in RequestsOf(u), q # r, pc[q] \in Cleared
  PROVE  Gathered(u)'
<1> DEFINE R == RequestsOf(u)
<1>1. /\ r \in Request /\ pc'[r] = "panicked"
      /\ \A p \in R : p # r => pc'[p] = pc[p]
  BY DEF TypeOK, Goto, RequestsOf
<1>2. Entries(NameOf[u])' = Entries(NameOf[u]) /\ dirs' = dirs
  BY DEF fileSystem, Entries
<1>3. \A p \in R : /\ Stored(p)' <=> Stored(p)
                   /\ pc'[p] = "complete" <=> pc[p] = "complete"
  BY <1>1 DEF Stored, Assembling
<1>4. pc'[q] \in Cleared /\ pc'[q] \in Begun /\ pc[q] \in Begun
  BY <1>1 DEF Cleared, Begun, Assembling
<1>5. RequestsOf(u)' = RequestsOf(u)
  BY DEF RequestsOf
<1>6. QED
  BY <1>2, <1>3, <1>4, <1>5 DEF Gathered

\* A step of a request of u.
LEMMA GatheredOwn ==
  ASSUME TypeOK, ~Faults, NothingFails, NEW u \in Upload, Sole(u), Gathered(u),
         NEW r \in RequestsOf(u), Step(r)
  PROVE  Gathered(u)'
<1> USE DEF fileSystem
<1> DEFINE n == NameOf[u]
           R == RequestsOf(u)
<1>1. /\ r \in Request /\ name(r) = n /\ n \in Name /\ total_chunks(r) = TotalOf[u]
      /\ RequestsOf(u)' = R /\ UploadOf[r] = u
      /\ IndexOf[r] \in Index
  BY RequestTypes DEF RequestsOf, name, total_chunks
<1>2. ASSUME NEW there, Goto(r, there)
      PROVE  pc'[r] = there /\ \A p \in R : p # r => pc'[p] = pc[p]
  BY <1>1, <1>2 DEF Goto, TypeOK, RequestsOf
<1>3. ASSUME MakeParts(r) PROVE Gathered(u)'
  BY <1>1, <1>2, <1>3, GatheredFrame DEF MakeParts, Entries, Before
<1>4. ASSUME SaveChunk(r) PROVE Gathered(u)'
  <2>1. pc[r] \in {"sent", "save"}
    BY <1>4 DEF SaveChunk
  <2>2. CASE n \in dirs
    <3>1. /\ ChangeChunk(name(r), IndexOf[r], Empty) /\ dirs' = dirs
          /\ pc'[r] = "count" /\ \A p \in R : p # r => pc'[p] = pc[p]
      BY <1>1, <1>2, <1>4, <2>2 DEF SaveChunk
    <3>2. Entries(n)' = Entries(n) \cup {IndexOf[r]}
      <4>1. /\ part'[n][IndexOf[r]] # None
            /\ \A j \in Index : j # IndexOf[r] => part'[n][j] = part[n][j]
        BY <1>1, <3>1, ChangeType
      <4>2. QED BY <1>1, <4>1 DEF Entries
    <3>3. ~Stored(r) /\ Stored(r)' /\ \A p \in R : p # r => (Stored(p)' <=> Stored(p))
      BY <2>1, <3>1 DEF Stored
    <3>4. \A p \in R : pc[p] \notin Begun /\ pc'[p] \notin Begun
      BY <3>1, <3>3 DEF Gathered, Begun, Assembling
    <3>5. \A p \in R : pc'[p] \notin Cleared /\ pc'[p] # "complete"
      BY <3>4 DEF Begun, Assembling, Cleared
    <3>6. \A i \in Entries(n)' : \E p \in R : IndexOf[p] = i /\ Stored(p)'
      BY <3>2, <3>3 DEF Gathered
    <3>7. \A p \in R : Stored(p)' => IndexOf[p] \in Entries(n)'
      BY <3>2, <3>3, <3>4 DEF Gathered, Begun, Assembling, Cleared
    <3>8. ~ \A p \in R : Stored(p)' /\ pc'[p] # "count"
      BY <3>1
    <3>9. QED
      BY <1>1, <2>2, <3>1, <3>4, <3>5, <3>6, <3>7, <3>8 DEF Gathered
  <2>3. CASE n \notin dirs
    BY <1>1, <1>2, <1>4, <2>1, <2>3, GatheredFrame
    DEF SaveChunk, Panic, Leave, Entries, Before
  <2>4. QED BY <2>2, <2>3
<1>5. ASSUME CountParts(r) PROVE Gathered(u)'
  <2>1. pc[r] = "count" /\ UNCHANGED fileSystem /\ Entries(n)' = Entries(n)
    BY <1>5 DEF CountParts, Panic, Entries
  <2>2. CASE n \in dirs
    <3> DEFINE full == Cardinality(Entries(n)) = TotalOf[u]
    <3>1. pc'[r] = (IF full THEN "open" ELSE "partial")
          /\ \A p \in R : p # r => pc'[p] = pc[p]
      BY <1>1, <1>2, <1>5, <2>2 DEF CountParts, Counts
    <3>2. /\ \A p \in R : Stored(p)' <=> Stored(p)
          /\ \A p \in R : pc'[p] \in Cleared <=> pc[p] \in Cleared
          /\ \A p \in R : pc'[p] = "complete" <=> pc[p] = "complete"
          /\ \A p \in R : pc[p] \in Begun => pc'[p] \in Begun
      BY <2>1, <3>1 DEF Stored, Cleared, Begun, Assembling
    <3>3. full <=> \A p \in R : IndexOf[p] \in Entries(n)
      BY CountIsAll DEF Gathered
    <3>4. full => \A p \in R : Stored(p)
      <4>1. ASSUME full, NEW p \in R PROVE Stored(p)
        <5>1. PICK q \in R : IndexOf[q] = IndexOf[p] /\ Stored(q)
          BY <3>3, <4>1 DEF Gathered
        <5>2. QED BY <5>1 DEF Sole
      <4>2. QED BY <4>1
    <3>5. (\E p \in R : pc'[p] \in Begun) => \A p \in R : Stored(p)'
      <4>1. CASE full
        BY <3>2, <3>4, <4>1
      <4>2. CASE ~full
        BY <2>1, <3>1, <3>2, <4>2 DEF Gathered, Begun, Assembling
      <4>3. QED BY <4>1, <4>2
    <3>6. (\A p \in R : Stored(p)' /\ pc'[p] # "count") => \E p \in R : pc'[p] \in Begun
      <4>1. CASE full
        BY <3>1, <4>1 DEF Begun, Assembling
      <4>2. CASE ~full /\ \A p \in R : Stored(p)
        <5>1. \E q \in R : pc[q] \in Cleared
          BY <3>3, <4>2 DEF Gathered
        <5>2. QED BY <3>2, <5>1 DEF Cleared, Begun, Assembling
      <4>3. QED BY <3>2, <4>1, <4>2
    <3>7. QED
      BY <1>1, <2>1, <2>2, <3>2, <3>5, <3>6 DEF Gathered
  <2>3. CASE n \notin dirs
    <3>1. \E q \in R : pc[q] = "complete"
      BY <2>1, <2>3 DEF Gathered, Stored
    <3>2. PICK q \in R : q # r /\ pc[q] \in Cleared
      BY <2>1, <3>1 DEF Cleared
    <3>3. Goto(r, "panicked")
      BY <1>1, <1>5, <2>3 DEF CountParts, Panic, Leave
    <3>4. QED BY <2>1, <3>2, <3>3, GatheredPanic
  <2>4. QED BY <2>2, <2>3
<1>6. ASSUME OpenFinal(r) PROVE Gathered(u)'
  BY <1>1, <1>2, <1>6, GatheredFrame DEF OpenFinal, Entries
<1>7. ASSUME ReadChunk(r) PROVE Gathered(u)'
  <2>1. pc[r] = "read" /\ next[r] \in 0 .. TotalOf[u] - 1
    BY <1>1, <1>7, UploadsAssumption DEF ReadChunk, TypeOK
  <2>2. CASE part[n][next[r]] # None
    BY <1>1, <1>2, <1>7, <2>1, <2>2, GatheredFrame DEF ReadChunk, Entries
  <2>3. CASE part[n][next[r]] = None
    <3>1. PICK p \in R : IndexOf[p] = next[r]
      BY <2>1 DEF Sole
    <3>2. Stored(p) /\ IndexOf[p] \notin Entries(n)
      BY <2>1, <2>3, <3>1 DEF Gathered, Begun, Assembling, Entries
    <3>3. PICK q \in R : q # r /\ pc[q] \in Cleared
      BY <2>1, <3>2 DEF Gathered, Cleared
    <3>4. Goto(r, "panicked") /\ UNCHANGED fileSystem
      BY <1>1, <1>7, <2>3 DEF ReadChunk, Panic, Leave
    <3>5. QED BY <2>1, <3>3, <3>4, GatheredPanic DEF Assembling
  <2>4. QED BY <2>2, <2>3
<1>8. ASSUME PutChunk(r) PROVE Gathered(u)'
  BY <1>1, <1>2, <1>8, GatheredFrame DEF PutChunk, NothingFails, Entries
<1>9. ASSUME ClearParts(r) PROVE Gathered(u)'
  <2>1. pc[r] = "read"
    BY <1>9 DEF ClearParts
  <2>2. CASE n \in dirs
    <3>1. /\ part' = [part EXCEPT ![n] = [i \in Index |-> None]] /\ dirs' = dirs
          /\ pc'[r] = "rmdir" /\ \A p \in R : p # r => pc'[p] = pc[p]
      BY <1>1, <1>2, <1>9, <2>2 DEF ClearParts
    <3>2. Entries(n)' = {}
      BY <1>1, <3>1 DEF Entries, TypeOK
    <3>3. \A p \in R : Stored(p) /\ Stored(p)'
      BY <2>1, <3>1 DEF Gathered, Begun, Assembling, Stored
    <3>4. pc'[r] \in Cleared /\ pc'[r] \in Begun
      BY <3>1 DEF Cleared, Begun, Assembling
    <3>5. QED
      BY <1>1, <2>2, <3>1, <3>2, <3>3, <3>4 DEF Gathered
  <2>3. CASE n \notin dirs
    <3>1. PICK q \in R : q # r /\ pc[q] \in Cleared
      BY <2>1, <2>3 DEF Gathered, Stored, Cleared
    <3>2. Goto(r, "panicked") /\ UNCHANGED fileSystem
      BY <1>1, <1>9, <2>3 DEF ClearParts, Panic, Leave
    <3>3. QED BY <2>1, <3>1, <3>2, GatheredPanic DEF Assembling
  <2>4. QED BY <2>2, <2>3
<1>10. ASSUME RemoveDir(r) PROVE Gathered(u)'
  <2>1. pc[r] = "rmdir" /\ Entries(n) = {} /\ UNCHANGED part
    BY <1>1, <1>10 DEF RemoveDir, Gathered, Cleared, Panic
  <2>2. CASE Goto(r, "complete")
    <3>1. pc'[r] = "complete" /\ \A p \in R : p # r => pc'[p] = pc[p]
      BY <1>2, <2>2
    <3>2. Entries(n)' = {}
      BY <2>1 DEF Entries
    <3>3. \A p \in R : Stored(p) /\ Stored(p)'
      BY <2>1, <3>1 DEF Gathered, Begun, Assembling, Stored
    <3>4. pc'[r] \in Cleared /\ pc'[r] \in Begun
      BY <3>1 DEF Cleared, Begun, Assembling
    <3>5. QED
      BY <1>1, <3>1, <3>2, <3>3, <3>4 DEF Gathered
  <2>3. CASE ~Goto(r, "complete")
    <3>1. n \notin dirs /\ Goto(r, "panicked") /\ UNCHANGED fileSystem
      BY <1>1, <1>10, <2>1, <2>3 DEF RemoveDir, Panic, Leave
    <3>2. PICK q \in R : q # r /\ pc[q] \in Cleared
      BY <2>1, <3>1 DEF Gathered, Stored, Cleared
    <3>3. QED BY <2>1, <3>1, <3>2, GatheredPanic DEF Assembling
  <2>4. QED BY <2>2, <2>3
<1>11. QED
  BY <1>3, <1>4, <1>5, <1>6, <1>7, <1>8, <1>9, <1>10 DEF Step

\* A step of a request of another upload.
LEMMA GatheredOther ==
  ASSUME TypeOK, NEW u \in Upload, Sole(u), Gathered(u),
         NEW r \in Request, UploadOf[r] # u, Step(r)
  PROVE  Gathered(u)'
<1> USE DEF fileSystem
<1>1. NameOf[u] # name(r) /\ name(r) \in Name /\ NameOf[u] \in Name
  <2>1. UploadOf[r] \in Upload /\ NameOf[UploadOf[r]] \in Name
    BY RequestTypes DEF name
  <2>2. NameOf[u] \in Name
    BY UploadsAssumption
  <2>3. NameOf[UploadOf[r]] # NameOf[u]
    BY <2>1 DEF Sole
  <2>4. QED BY <2>1, <2>2, <2>3 DEF name
<1>2. \A p \in RequestsOf(u) : pc'[p] = pc[p]
  BY DEF Step, MakeParts, SaveChunk, CountParts, OpenFinal, ReadChunk, PutChunk,
     ClearParts, RemoveDir, Panic, Leave, Goto, RequestsOf, TypeOK
<1>3. part'[NameOf[u]] = part[NameOf[u]]
  BY <1>1 DEF Step, MakeParts, SaveChunk, ChangeChunk, CountParts, OpenFinal, ReadChunk,
     PutChunk, ClearParts, RemoveDir, Panic, TypeOK
<1>4. NameOf[u] \in dirs => NameOf[u] \in dirs'
  BY <1>1 DEF Step, MakeParts, SaveChunk, CountParts, OpenFinal, ReadChunk, PutChunk,
     ClearParts, RemoveDir, Panic
<1>5. QED BY <1>2, <1>3, <1>4, GatheredFrame DEF Entries

LEMMA GatheredStep ==
  ASSUME TypeOK, LateHasFile, NothingFails, ~Faults, NEW u \in Upload, Sole(u),
         Gathered(u), [Next]_vars
  PROVE  Gathered(u)'
<1> USE DEF fileSystem
<1>1. ASSUME NEW r \in Request, Send(r) PROVE Gathered(u)'
  BY <1>1, GatheredFrame DEF Send, Goto, Entries, Before, RequestsOf, TypeOK
<1>2. ASSUME NEW r \in Request, Step(r) PROVE Gathered(u)'
  BY <1>2, GatheredOwn, GatheredOther DEF RequestsOf
<1>3. ASSUME NEW r \in Request, Land(r) \/ LoseChunk(r) PROVE Gathered(u)'
  <2>1. PICK k \in Nat : k <= BlockOf(r).size /\ LandFirst(r, k)
    BY <1>3, LandSteps
  <2>2. PICK c \in Block \cup {Empty} : ChangeChunk(name(r), IndexOf[r], c)
    BY <2>1, LandType
  <2>3. /\ part[name(r)][IndexOf[r]] # None /\ part'[name(r)][IndexOf[r]] # None
        /\ \A m \in Name, j \in Index :
             m # name(r) \/ j # IndexOf[r] => part'[m][j] = part[m][j]
    BY <2>1, <2>2, ChangeType DEF LandFirst, LateHasFile
  <2>4. NameOf[u] \in Name
    BY UploadsAssumption
  <2>5. Entries(NameOf[u])' = Entries(NameOf[u])
    BY <2>3, <2>4 DEF Entries
  <2>6. UNCHANGED <<dirs, pc>>
    BY <2>1 DEF LandFirst
  <2>7. QED BY <2>5, <2>6, GatheredFrame
<1>4. ASSUME NEW r \in Request, LandBlock(r) PROVE Gathered(u)'
  BY <1>4, GatheredFrame DEF LandBlock, Entries
<1>5. CASE UNCHANGED vars
  BY <1>5, GatheredFrame DEF vars, Entries
<1>6. QED
  BY <1>1, <1>2, <1>3, <1>4, <1>5 DEF Next, Background, LoseBlock, Abandon

LEMMA NothingFailsStep == TypeOK /\ ~Faults /\ NothingFails /\ [Next]_vars => NothingFails'
<1> SUFFICES ASSUME TypeOK, ~Faults, NothingFails, [Next]_vars PROVE NothingFails'
  OBVIOUS
<1>1. ASSUME NEW r \in Request, PutChunk(r) PROVE NothingFails'
  <2>1. CASE out' = [out EXCEPT ![r] = [place |-> pos[r] + 1, block |-> buf[r]]]
             /\ buf[r] # Empty
    <3>1. [place |-> pos[r] + 1, block |-> buf[r]] \in Write
      BY <2>1 DEF TypeOK, Write
    <3>2. QED BY <2>1, <3>1, ValuesAssumption DEF NothingFails, TypeOK
  <2>2. CASE UNCHANGED out
    BY <2>2 DEF NothingFails
  <2>3. QED BY <1>1, <2>1, <2>2 DEF PutChunk, Panic, Leave, locals
<1>2. ASSUME NEW r \in Request, LandBlock(r) PROVE NothingFails'
  BY <1>2, ValuesAssumption DEF LandBlock, NothingFails, TypeOK
<1>3. ASSUME NEW r \in Request,
             \/ Send(r) \/ MakeParts(r) \/ SaveChunk(r) \/ CountParts(r) \/ OpenFinal(r)
             \/ ReadChunk(r) \/ ClearParts(r) \/ RemoveDir(r) \/ Land(r)
      PROVE  NothingFails'
  <2>1. UNCHANGED out
    BY <1>3 DEF Send, MakeParts, SaveChunk, CountParts, OpenFinal, ReadChunk, ClearParts,
       RemoveDir, Land, LandFirst, Panic, Leave
  <2>2. QED BY <2>1 DEF NothingFails
<1>4. CASE UNCHANGED vars
  BY <1>4 DEF vars, NothingFails
<1>5. QED
  BY <1>1, <1>2, <1>3, <1>4 DEF Next, Step, Background, LoseChunk, LoseBlock, Abandon

FinishInv ==
  ~Faults => NothingFails /\ \A u \in Upload : Sole(u) => Gathered(u)

\* When every chunk of a file has been stored and counted, with no fault, some
\* request has found them all and assembles them, or has done so: however many
\* chunks there are, in whatever order they come, and whichever of two
\* assemblies fails when the other one clears the directory.
THEOREM LastCountFindsHolds == Spec => []LastCountFinds
<1>1. Init => FinishInv
  <2> SUFFICES ASSUME Init PROVE FinishInv
    OBVIOUS
  <2>1. NothingFails
    BY ValuesAssumption DEF Init, NothingFails
  <2>2. ASSUME NEW u \in Upload, Sole(u) PROVE Gathered(u)
    <3>1. PICK r \in RequestsOf(u) : TRUE
      <4>1. 0 \in 0 .. TotalOf[u] - 1
        BY UploadsAssumption
      <4>2. QED BY <2>2, <4>1 DEF Sole
    <3>2. NameOf[u] \in Name
      BY UploadsAssumption
    <3>3. QED
      BY <3>1, <3>2 DEF Init, Gathered, Entries, Stored, RequestsOf, Begun, Assembling,
         Cleared
  <2>3. QED BY <2>1, <2>2 DEF FinishInv
<1>2. TypeOK /\ PartsInv /\ FinishInv /\ [Next]_vars => FinishInv'
  <2>1. \A u \in Upload : Sole(u)' <=> Sole(u)
    BY DEF Sole, RequestsOf
  <2>2. QED
    BY <2>1, GatheredStep, NothingFailsStep DEF FinishInv, PartsInv
<1>3. FinishInv => LastCountFinds
  BY DEF FinishInv, LastCountFinds, Gathered, Begun
<1>4. Init => PartsInv
  BY DEF Init, PartsInv, PartsInDirs, LateHasFile, Entries
<1>5. QED
  BY <1>1, <1>2, <1>3, <1>4, PartsStep, UploadTypeCorrect, PTL DEF Spec
=============================================================================
