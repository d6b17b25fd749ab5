----------------------------- MODULE MCCatalog -----------------------------
(* Small instances of Catalog for TLC. *)
EXTENDS Catalog, TLC

CONSTANTS p1, p2, w1, w2, author, series

\* A name in brackets only cleans to nothing.
MCName == {author, series, Blank}
MCClean == [n \in MCName |-> IF n = series THEN Blank ELSE n]
\* The series cleans to nothing; in the serial runs the author does too, and
\* keeps its raw form.
MCTag == {[author |-> author, series |-> series]}
SerialTag == {[author |-> series, series |-> series]}

MergeBoth == [change_type |-> "merge-title", file_ids |-> {p1, p2},
  new_author |-> author, new_series |-> series, new_filetitle |-> None]
MoveOne == [change_type |-> "file-move", file_ids |-> {p1},
  new_author |-> None, new_series |-> series, new_filetitle |-> None]
MoveNothing == [MoveOne EXCEPT !.new_series = None]

Rename == [change_type |-> "rename", file_ids |-> {p1, p2},
  new_author |-> None, new_series |-> None, new_filetitle |-> series]
RenameNothing == [Rename EXCEPT !.new_filetitle = None]
MoveTitle == [change_type |-> "move-title", file_ids |-> {p2},
  new_author |-> series, new_series |-> None, new_filetitle |-> None]
MoveRetitled == [MoveOne EXCEPT !.file_ids = {p2}, !.new_filetitle = series]

\* Two saves that meet on a row; the second one fails after its first change.
MCBatch == {<<MergeBoth>>, <<MoveOne, MoveNothing>>}
\* Every kind of change, with and without what it sets.
SerialBatch ==
  {<<>>, <<MergeBoth>>, <<MoveOne, MoveNothing>>, <<RenameNothing, Rename>>,
   <<MoveTitle>>, <<MoveRetitled, MoveTitle>>}
Symmetry == Permutations(Worker)
=============================================================================
