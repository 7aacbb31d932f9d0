------------------------------ MODULE Tarjan ------------------------------
(***************************************************************************)
(* The cycles of a project's call graph, by Tarjan's algorithm             *)
(* (compute_sccs of shatter-core/src/call_graph.rs).                       *)
(***************************************************************************)
EXTENDS CallGraph, SequencesExt

(* TarjanState; a function without an index has the index 0.               *)
NewTarjan(g) ==
  [counter |-> 1, stack |-> <<>>, sccs |-> <<>>,
   index |-> [f \in DOMAIN g |-> 0], lowlink |-> [f \in DOMAIN g |-> 0]]

OnStack(st, f) == Contains(st.stack, f)

Least(a, b) == IF a < b THEN a ELSE b

Open(st, v) ==
  [st EXCEPT !.counter = @ + 1, !.stack = Append(@, v),
             !.index[v] = st.counter, !.lowlink[v] = st.counter]

(* Slip: the component is popped without its root's test.                  *)
CloseAlways(st, v) ==
  LET from == CHOOSE i \in DOMAIN st.stack : st.stack[i] = v IN
  [st EXCEPT !.sccs = Append(@, ToSet(SubSeq(st.stack, from, Len(st.stack)))),
             !.stack = SubSeq(@, 1, from - 1)]

(* If v is a root, its component is what lies above it on the stack.       *)
Close(st, v) ==
  LET from == CHOOSE i \in DOMAIN st.stack : st.stack[i] = v IN
  IF st.lowlink[v] # st.index[v] THEN st
  ELSE [st EXCEPT !.sccs = Append(@, ToSet(SubSeq(st.stack, from, Len(st.stack)))),
                  !.stack = SubSeq(@, 1, from - 1)]

RECURSIVE StrongConnect(_, _, _), Visit(_, _, _, _)
Visit(g, st, v, callees) ==
  IF callees = <<>> THEN st
  ELSE LET w == Head(callees)
           opened == IF st.index[w] = 0 THEN StrongConnect(g, st, w) ELSE st
           low == IF st.index[w] = 0 THEN opened.lowlink[w]
                  ELSE IF OnStack(st, w) THEN st.index[w]
                  ELSE st.lowlink[v]
       IN Visit(g, [opened EXCEPT !.lowlink[v] = Least(@, low)], v, Tail(callees))
StrongConnect(g, st, v) ==
  Close(Visit(g, Open(st, v), v, SetToSortSeq(g[v], <)), v)

RECURSIVE Sccs(_, _, _)
Sccs(g, st, nodes) ==
  IF nodes = <<>> THEN st.sccs
  ELSE Sccs(g, IF st.index[Head(nodes)] = 0 THEN StrongConnect(g, st, Head(nodes)) ELSE st,
            Tail(nodes))

compute_sccs(g) == Sccs(g, NewTarjan(g), SetToSortSeq(DOMAIN g, <))

cycle_groups(g) == {c \in ToSet(compute_sccs(g)) : Cardinality(c) > 1}
=============================================================================
