--------------------------- MODULE MC_ExploreDriver ---------------------------
(* Instances of ExploreDriver for TLC: two functions over two runs, and one *)
(* over three, whose source or options change twice: with failing writes of *)
(* the summary, and back to the first version.                              *)
EXTENDS ExploreDriver

SomeHistories ==
  {[mishaps |-> {"summary", "artifact"}, targets |-> {1, 2}, runs |-> 2, edits |-> 1],
   [mishaps |-> {"summary", "artifact"}, targets |-> {1}, runs |-> 3, edits |-> 2],
   [mishaps |-> {"artifact", "revert"}, targets |-> {1}, runs |-> 3, edits |-> 2]}
=============================================================================
