------------------------- MODULE MC_IncrementalSpec -------------------------
(***************************************************************************)
(* IncrementalSpec for TLC, with the cycles that Tarjan's algorithm finds  *)
(* in each of its graphs.                                                  *)
(***************************************************************************)
EXTENDS IncrementalSpec, Tarjan

(* The cycles reported are the sets of functions that reach each other.    *)
CyclesExact ==
  LET g == ProjectGraph IN
  NoRunYet =>
    cycle_groups(g) =
      {{h \in DOMAIN g : h \in Below(g, f) /\ f \in Below(g, h)} :
         f \in {f \in DOMAIN g : f \in Below(g, f)}}
=============================================================================
