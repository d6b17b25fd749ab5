------------------------------ MODULE MCUpload ------------------------------
(* Small instances of Upload for TLC. *)
EXTENDS Upload

CONSTANTS Chunks, Client, Total

\* Requests are <<upload, index, try>>, one or two tries for each chunk.
MCRequest == Chunks
MCUploadOf == [r \in MCRequest |-> r[1]]
MCIndexOf == [r \in MCRequest |-> r[2]]
\* The chunks of upload "b" are larger than a buffer of 2.
MCSizeOf == [r \in MCRequest |-> IF r[1] = "b" THEN 3 ELSE 1]

\* "sequential": a chunk goes out when those before it are answered or given up,
\* and "b" begins when "a" has come to its second tries; "parallel": all the
\* chunks go out once the first one is answered.
MCAfter ==
  [r \in MCRequest |->
     {q \in MCRequest :
        IF Client = "parallel" THEN q[2] = 0 /\ r[2] # 0
        ELSE IF q[1] = r[1] THEN q[2] < r[2] \/ (q[2] = r[2] /\ q[3] < r[3])
        ELSE r[1] = "b" /\ q[3] = 1}]

\* Both files have the same name, in two folders.
MCNameOf == [u \in {r[1] : r \in MCRequest} |-> "name"]
MCTargetOf == [u \in {r[1] : r \in MCRequest} |-> u]
MCTotalOf == [u \in {r[1] : r \in MCRequest} |-> Total]

\* "a" with a chunk that is sent again, and the start of "b" under its name.
TwoFiles == {<<"a", 0, 1>>, <<"a", 1, 1>>, <<"a", 1, 2>>, <<"b", 0, 1>>}
OneFile == {<<"a", 0, 1>>, <<"a", 1, 1>>, <<"a", 2, 1>>}
=============================================================================
