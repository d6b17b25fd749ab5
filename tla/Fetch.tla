-------------------------------- MODULE Fetch --------------------------------
(***************************************************************************)
(* What downloading chunk by chunk promises a device: as long as nobody    *)
(* touches the file, every answer is the next stretch of it and makes the  *)
(* copy longer, as if the device read the file itself.  It starts again    *)
(* only when an error hit it or the file was touched since the download    *)
(* began; and only a file that was touched may mix editions.               *)
(***************************************************************************)
EXTENDS Naturals, Sequences

CONSTANTS File, Device, FileOf, Chunk, None

VARIABLES
  file,   \* file[f]: the bytes of f, none when it is not there
  copy,   \* copy[d]: what device d has of its file
  total,  \* total[d]: how long d takes that to be, None before it knows
  clean,  \* clean[d]: whether nobody touched the file since d began
  failed  \* failed[d]: whether an error hit d since then

fetchVars == <<file, copy, total, clean, failed>>

Init ==
  /\ file = [f \in File |-> <<>>]
  /\ copy = [d \in Device |-> <<>>]
  /\ total = [d \in Device |-> None]
  /\ clean = [d \in Device |-> FALSE]
  /\ failed = [d \in Device |-> FALSE]

Touch(f) ==
  /\ file' = [file EXCEPT ![f] = file'[f]]
  /\ clean' = [d \in Device |-> clean[d] /\ FileOf[d] # f]
  /\ UNCHANGED <<copy, total, failed>>

\* Errors hit some devices at once.
Trouble ==
  /\ failed' \in [Device -> BOOLEAN]
  /\ \A d \in Device : failed[d] => failed'[d]
  /\ UNCHANGED <<file, copy, total, clean>>

Begin(d) ==
  /\ total[d] = None
  /\ clean' = [clean EXCEPT ![d] = TRUE]
  /\ failed' = [failed EXCEPT ![d] = FALSE]
  /\ UNCHANGED <<file, copy, total>>

\* The next stretch: one byte to learn the length, then Chunk at a time.
Take(d) ==
  LET bytes == file[FileOf[d]]
      more == Len(copy[d]) + (IF total[d] = None THEN 1 ELSE Chunk)
      n == IF more <= Len(bytes) THEN more ELSE Len(bytes)
  IN /\ clean[d]
     /\ Len(copy[d]) < Len(bytes)
     /\ copy' = [copy EXCEPT ![d] = SubSeq(bytes, 1, n)]
     /\ total' = [total EXCEPT ![d] = Len(bytes)]
     /\ UNCHANGED <<file, clean, failed>>

\* Bytes of whatever there is now; the length that was learnt stays.
Mix(d) ==
  /\ ~clean[d]
  /\ copy' = [copy EXCEPT ![d] = copy'[d]]
  /\ Len(copy'[d]) >= Len(copy[d])
  /\ SubSeq(copy'[d], 1, Len(copy[d])) = copy[d]
  /\ total' = [total EXCEPT ![d] = total'[d]]
  /\ total[d] \in {None, total'[d]}
  /\ UNCHANGED <<file, clean, failed>>

Restart(d) ==
  /\ ~clean[d] \/ failed[d]
  /\ copy' = [copy EXCEPT ![d] = <<>>]
  /\ total' = [total EXCEPT ![d] = None]
  /\ UNCHANGED <<file, clean, failed>>

Next ==
  \/ \E f \in File : Touch(f)
  \/ Trouble
  \/ \E d \in Device : Begin(d) \/ Take(d) \/ Mix(d) \/ Restart(d)

Spec == Init /\ [][Next]_fetchVars
=============================================================================
