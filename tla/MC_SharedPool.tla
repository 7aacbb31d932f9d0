--------------------------- MODULE MC_SharedPool ---------------------------
(* Small scans for TLC: two or three tasks in a first layer, one after it. *)
EXTENDS SharedPool

(* One or two layers; the first and the last function share a file.        *)
MCLayerOf == [t \in Tasks |-> IF t = TaskCount THEN 2 ELSE 1]
MCOneLayer == [t \in Tasks |-> 1]
MCFiles == [t \in Tasks |-> IF t = 2 THEN "file_b" ELSE "file_a"]
=============================================================================
