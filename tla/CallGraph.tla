----------------------------- MODULE CallGraph -----------------------------
(***************************************************************************)
(* The call graph of a project (shatter-core/src/call_graph.rs) and its    *)
(* layers, from the leaves up.                                             *)
(* Functions are numbers, in the order of the registry.  A graph maps each *)
(* of its functions to the set of functions it calls: a callee named twice *)
(* is counted twice and taken off twice, which a set does not show.        *)
(***************************************************************************)
EXTENDS Integers, Sequences, FiniteSets

(* from_registry: dependencies outside the registry, and on itself, go.    *)
FromRegistry(functions, dependencies) ==
  [f \in functions |-> (dependencies[f] \cap functions) \ {f}]

(* Slip: a caller is queued when one of its callees has its layer.         *)
NextQueueTooSoon(g, done) ==
  {f \in DOMAIN g \ done : g[f] = {} \/ g[f] \cap done # {}}

(* The functions whose out_degree has come down to zero.                   *)
NextQueue(g, done) == {f \in DOMAIN g \ done : g[f] \subseteq done}

(* The functions that have a layer after each turn of the loop; it turns   *)
(* once for every layer.                                                   *)
Visited(g) ==
  LET after[k \in 0 .. Cardinality(DOMAIN g)] ==
        IF k = 0 THEN {} ELSE after[k - 1] \cup NextQueue(g, after[k - 1])
  IN  after

Turns(g) == CHOOSE k \in 0 .. Cardinality(DOMAIN g) :
              /\ NextQueue(g, Visited(g)[k]) = {}
              /\ \A j \in 0 .. k - 1 : NextQueue(g, Visited(g)[j]) # {}

(* What remains without a layer is the last one.                           *)
topological_layers(g) ==
  LET rest == DOMAIN g \ Visited(g)[Turns(g)] IN
  [i \in 1 .. Turns(g) |-> NextQueue(g, Visited(g)[i - 1])]
     \o (IF rest = {} THEN <<>> ELSE <<rest>>)

-----------------------------------------------------------------------------
(* Reference definitions.                                                  *)

(* The functions reached from f by at least one call: the least set with   *)
(* the callees of f and of its own members.                                *)
Closed(g, S) == \A x \in S : g[x] \cap DOMAIN g \subseteq S
Below(g, f) ==
  {h \in DOMAIN g : \A S \in SUBSET DOMAIN g :
                      g[f] \cap DOMAIN g \subseteq S /\ Closed(g, S) => h \in S}

(* On a cycle, or above one.                                               *)
Cyclic(g) == {f \in DOMAIN g : \E c \in {f} \cup Below(g, f) : c \in Below(g, c)}
=============================================================================
