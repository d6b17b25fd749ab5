------------------------------ MODULE Bookmarks ------------------------------
(***************************************************************************)
(* What the positions promise: one bookmark for each user and item, set    *)
(* and confirmed as if there were no calls that break, are repeated or     *)
(* overtake each other.  A bookmark is where the device that set it has    *)
(* been.  A device is told only of bookmarks that it set itself, in the    *)
(* order in which it set them, and only of those that are there or have    *)
(* given way to a later one.                                               *)
(*                                                                         *)
(* A power loss puts all bookmarks back to where they were at one moment,  *)
(* and undoes what was confirmed after it and nothing else.                *)
(***************************************************************************)
EXTENDS Naturals

CONSTANTS Device, ItemOf, None

VARIABLES
  mark,  \* mark[k]: the bookmark of the user and the item k
  kept,  \* what a power loss puts back
  told,  \* told[d]: the last bookmark that d was told of, or None
  here   \* here[d]: how far d has played

bookmarks == <<mark, kept, told, here>>

Init ==
  /\ mark = << >> /\ kept = << >>
  /\ told = [d \in Device |-> None]
  /\ here = [d \in Device |-> 0]

\* Bookmark w of device d is among rows, or has given way to a later one.
Reflected(rows, d, w) ==
  LET k == <<w.user_id, ItemOf[d]>>
  IN k \in DOMAIN rows /\ (rows[k] = w \/ rows[k].stamp > w.stamp)

Play(d) ==
  /\ here' = [here EXCEPT ![d] = @ + 1]
  /\ UNCHANGED <<mark, kept, told>>

Mark(d) ==
  \E k \in DOMAIN mark' :
    LET w == mark'[k]
    IN /\ w.device = d /\ w.pos <= here[d]
       /\ k = <<w.user_id, ItemOf[d]>>
       /\ \A j \in DOMAIN mark : w.stamp > mark[j].stamp
       /\ \A e \in Device : told[e] # None => w.stamp > told[e].stamp
       /\ mark' = [j \in DOMAIN mark \cup {k} |-> IF j = k THEN w ELSE mark[j]]
       /\ UNCHANGED <<kept, told, here>>

Confirm(d) ==
  LET w == told'[d]
  IN /\ w # None /\ w.device = d
     /\ Reflected(mark, d, w)
     /\ told[d] # None => w.stamp > told[d].stamp
     /\ told' = [told EXCEPT ![d] = w]
     /\ UNCHANGED <<mark, kept, here>>

Sync == kept' = mark /\ UNCHANGED <<mark, told, here>>

Lose ==
  /\ mark' = kept
  /\ told' = [d \in Device |->
       IF told[d] # None /\ Reflected(kept, d, told[d]) THEN told[d] ELSE None]
  /\ UNCHANGED <<kept, here>>

Next == Sync \/ Lose \/ \E d \in Device : Play(d) \/ Mark(d) \/ Confirm(d)

Spec == Init /\ [][Next]_bookmarks
=============================================================================
