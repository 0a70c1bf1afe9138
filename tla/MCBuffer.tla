------------------------------ MODULE MCBuffer ------------------------------
EXTENDS Buffer

Budget(edits, undos, copies) == [edits |-> edits, undos |-> undos, copies |-> copies]

(* Three writers at once; and two writers, one of whom edits twice, undoes *)
(* and redoes, with a reader to whom all that comes in any order.          *)
Scenarios ==
  {Budget(<<1, 1, 1>>, <<0, 0, 0>>, 1),
   Budget(<<1, 2, 0>>, <<0, 1, 0>>, 0),
   Budget(<<0, 1, 0>>, <<0, 2, 0>>, 1)}
=============================================================================
