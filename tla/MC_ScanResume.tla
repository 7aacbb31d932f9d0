--------------------------- MODULE MC_ScanResume ---------------------------
(* An instance of ScanResume for TLC: a leaf, its caller, and the caller's  *)
(* caller, which the caller calls back: the layers are those build_layers   *)
(* makes of the mutually recursive two.                                     *)
EXTENDS ScanResume

CONSTANTS leaf, caller, entry

Chain == {leaf, caller, entry}
ChainCallees ==
    [f \in Chain |-> CASE f = leaf -> {} [] f = caller -> {leaf, entry} [] f = entry -> {caller}]
ChainLayers == [f \in Chain |-> CASE f = leaf -> 1 [] f = caller -> 2 [] f = entry -> 3]

(* Everything, all but the leaf, and the upper two layers.                  *)
ChainSelections ==
    {[skip |-> {}, first |-> 1, last |-> 3],
     [skip |-> {leaf}, first |-> 1, last |-> 3],
     [skip |-> {}, first |-> 2, last |-> 3]}
=============================================================================
