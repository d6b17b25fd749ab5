------------------------------ MODULE Directory ------------------------------
(***************************************************************************)
(* What the accounts promise: members and their tokens as if every request *)
(* happened in one instant, in which who asks, who is there and what       *)
(* changes are all looked at together.  The first member is the            *)
(* administrator; every other one is brought in by a member who is an      *)
(* administrator at that moment; a token says what its holder is when it   *)
(* is given out; and nothing about a member ever changes.                  *)
(*                                                                         *)
(* A power loss takes the youngest members away.  The tokens of that time  *)
(* stay with their holders and prove nothing about the members any more,   *)
(* but whoever holds an administrator's is still believed.                 *)
(***************************************************************************)
EXTENDS Naturals

CONSTANTS Name, Admin, None

VARIABLES
  users,   \* users[n]: the id and the rank of member n, or None
  by,      \* by[n]: the member who brought n in, None if that is not known
  tokens,  \* all tokens that were ever given out
  orphans  \* those from before the last power loss

directory == <<users, by, tokens, orphans>>

Members == {n \in Name : users[n] # None}
Administrators == {n \in Members : users[n].is_admin}

Init ==
  /\ users = [n \in Name |-> None]
  /\ by = [n \in Name |-> None]
  /\ tokens = {}
  /\ orphans = {}

\* n becomes a member, younger than all the others.
Enter(n, is_admin, registrar) ==
  /\ n \notin Members /\ users'[n] # None
  /\ users' = [users EXCEPT ![n] = users'[n]]
  /\ users'[n].is_admin = is_admin
  /\ \A m \in Members : users[m].id < users'[n].id
  /\ by' = [by EXCEPT ![n] = registrar]
  /\ UNCHANGED <<tokens, orphans>>

Found == Members = {} /\ Enter(Admin, TRUE, Admin)

Enrol ==
  \E n \in Name, is_admin \in BOOLEAN :
    \/ \E m \in Administrators : Enter(n, is_admin, m)
    \/ (\E t \in orphans : t.role = "admin") /\ Enter(n, is_admin, None)

Describes(t, n) ==
  /\ t.username = n
  /\ t.sub = users[n].id
  /\ t.role = "admin" <=> users[n].is_admin

Grant ==
  \E n \in Members, t \in tokens' :
    /\ Describes(t, n)
    /\ tokens' = tokens \cup {t}
    /\ orphans' = orphans \ {t}
    /\ UNCHANGED <<users, by>>

Undo ==
  \E gone \in SUBSET Members :
    /\ \A m \in Members \ gone, n \in gone : users[m].id < users[n].id
    /\ users' = [n \in Name |-> IF n \in gone THEN None ELSE users[n]]
    /\ by' = [n \in Name |-> IF n \in gone THEN None ELSE by[n]]
    /\ orphans' = tokens
    /\ UNCHANGED tokens

Next == Found \/ Enrol \/ Grant \/ Undo

Spec == Init /\ [][Next]_directory
=============================================================================
