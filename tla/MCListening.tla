----------------------------- MODULE MCListening ------------------------------
(* Small instances of Listening for TLC. *)
EXTENDS Listening, TLC

CONSTANTS s1, k1, admin, reader, other, d1, d2, it

MCOwnerOf == [d \in Device |-> reader]
MCItemOf == [d \in Device |-> it]

Twins == Permutations(Device)

\* A bound: the first administrator stays the only one.  No handler of this
\* module looks at a role.
LoneAdmin ==
  /\ Admins \subseteq {Admin}
  /\ \A k \in Slot : req[k] # None /\ req[k].op = "create" => ~req[k].is_admin
=============================================================================
