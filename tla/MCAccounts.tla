---------------------------- MODULE MCAccounts -----------------------------
(* Small instances of Accounts for TLC. *)
EXTENDS Accounts, TLC

CONSTANTS s1, s2, k1, k2, admin, reader, other

Symmetry ==
  Permutations(Server) \cup Permutations(Slot) \cup Permutations(Name \ {Admin})
=============================================================================
