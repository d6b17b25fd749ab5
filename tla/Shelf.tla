------------------------------- MODULE Shelf -------------------------------
(***************************************************************************)
(* What the library promises its readers, whatever the scans and the       *)
(* reorganisations do meanwhile.  Every audio file carries at most one     *)
(* label, the <<author, title>> the scan cache gives it now.  Files are    *)
(* put on the shelf of a book only while they carry that book's label,     *)
(* nothing ever leaves the shelf, and listening positions are kept for     *)
(* shelved files only, and kept for good.                                  *)
(***************************************************************************)
EXTENDS FiniteSets

CONSTANTS Path, Label, None, User

VARIABLES
  label,   \* label[p]: the book that file p belongs to now, or None
  shelf,   \* the pairs <<book, p>> that readers can open
  marks    \* the triples <<user, book, shelved file>> with a stored position

shelfVars == <<label, shelf, marks>>

Init ==
  /\ label = [p \in Path |-> None]
  /\ shelf = {}
  /\ marks = {}

\* A scan or a user's change relabels any number of files.
Relabel ==
  /\ label' \in [Path -> Label \cup {None}]
  /\ UNCHANGED <<shelf, marks>>

\* Files enter the book whose label they carry at this moment.
Shelve ==
  \E S \in SUBSET {p \in Path : label[p] # None} :
    /\ shelf' = shelf \cup {<<label[p], p>> : p \in S}
    /\ UNCHANGED <<label, marks>>

\* A reader's position in a shelved file is stored, for good.
Mark ==
  \E u \in User, b \in Label, f \in shelf :
    /\ marks' = marks \cup {<<u, b, f>>}
    /\ UNCHANGED <<label, shelf>>

Next == Relabel \/ Shelve \/ Mark

Spec == Init /\ [][Next]_shelfVars
=============================================================================
