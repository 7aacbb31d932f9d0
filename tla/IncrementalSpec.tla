-------------------------- MODULE IncrementalSpec --------------------------
(***************************************************************************)
(* The specification bundle of a file, kept up to date by explore -o: deep *)
(* fingerprints tell which functions to explore again                      *)
(* (compute_deep_fingerprints of shatter-core/src/fingerprint.rs and       *)
(* compute_incremental_plan of shatter-core/src/spec.rs), the rest is      *)
(* carried over (merge_file_spec_bundles).                                 *)
(*                                                                         *)
(* A function is its place in the file.  Its source is a version number,   *)
(* which also stands for its parameters and conditions; the shallow        *)
(* fingerprint has the line of each branch too, so what is written higher  *)
(* up in the file goes into it.  A deep fingerprint is the term that is    *)
(* hashed.  Callees in other files are left out: they have no fingerprint  *)
(* here.                                                                   *)
(***************************************************************************)
EXTENDS CallGraph

CONSTANTS
  FunctionCount,   \* functions the file may have
  Branching,       \* those of them with branches
  MaxCalls,        \* bound: dependencies named in the file
  MaxEdits         \* bound: changes of the file

Functions == 1 .. FunctionCount

ASSUME SpecAssumption ==
  FunctionCount \in Nat /\ Branching \subseteq Functions /\ MaxCalls \in Nat /\ MaxEdits \in Nat

VARIABLES
  present,    \* functions the file has
  source,     \* their versions
  calls,      \* the dependencies they name
  height,     \* lines from a function's first to the next function's
  edits,
  spec        \* the bundle

file == <<present, source, calls, height, edits>>
vars == <<file, spec>>

NoSpec == [fp |-> <<>>, seen |-> <<>>, whole |-> FALSE, cyclic |-> FALSE]

(* The lines above a function.                                             *)
LinesAbove(f) ==
  Cardinality({l \in present \X {1, 2} : l[1] < f /\ l[2] <= height[l[1]]})

(* compute_function_fingerprint.                                           *)
Shallow(f) == <<source[f], IF f \in Branching THEN LinesAbove(f) ELSE 0>>

(* The analyses of the functions T, and the calls among them.              *)
Analyses(T) == [f \in T |-> [shallow |-> Shallow(f), calls |-> calls[f]]]
InFile(a) == [f \in DOMAIN a |-> a[f].calls \cap DOMAIN a]

(* What the behaviour of f depends on: the sources of f and of all it      *)
(* calls, with the lines of their branches.                                *)
SeenIn(a, f) == [g \in {f} \cup Below(InFile(a), f) |-> a[g].shallow]

Graph == InFile(Analyses(present))
Seen(f) == SeenIn(Analyses(present), f)

TypeOK ==
  /\ present \subseteq Functions
  /\ source \in [Functions -> 0 .. MaxEdits]
  /\ calls \in [Functions -> SUBSET Functions]
  /\ height \in [Functions -> {1, 2}]
  /\ edits \in 0 .. MaxEdits
  /\ \A f \in Functions :
       \/ spec[f] = NoSpec
       \/ spec[f].whole \in BOOLEAN /\ spec[f].cyclic \in BOOLEAN /\ f \in DOMAIN spec[f].seen

(* The dependencies a file may name.                                       *)
Small(c) == Cardinality({p \in Functions \X Functions : p[2] \in c[p[1]]}) <= MaxCalls

Init ==
  /\ present \in SUBSET Functions
  /\ source = [f \in Functions |-> 0]
  /\ calls \in [Functions -> SUBSET Functions]
  /\ \A f \in Functions \ present : calls[f] = {}
  /\ Small(calls)
  /\ height = [f \in Functions |-> 1]
  /\ edits = 0
  /\ spec = [f \in Functions |-> NoSpec]

-----------------------------------------------------------------------------
(* Slip: the fingerprint is the shallow one.                               *)
DeepShallow(a, f, fps) == <<a[f].shallow, {}>>

(* Slip: the source that is hashed is that of the whole file.              *)
DeepOfFile(a, f, fps) == <<edits, {<<c, fps[c]>> : c \in a[f].calls \cap DOMAIN fps}>>

(* compute_deep_fingerprint: callees without a fingerprint are ignored.    *)
Deep(a, f, fps) == <<a[f].shallow, {<<c, fps[c]>> : c \in a[f].calls \cap DOMAIN fps}>>

Extend(a, fps, S) ==
  [f \in DOMAIN fps \cup S |-> IF f \in S THEN Deep(a, f, fps) ELSE fps[f]]

(* Kahn's algorithm over the analysed functions, leaves first: those whose *)
(* callees have a fingerprint get theirs.                                  *)
Peel(a) ==
  LET round[k \in 0 .. FunctionCount] ==
        IF k = 0 THEN <<>>
        ELSE Extend(a, round[k - 1], NextQueue(InFile(a), DOMAIN round[k - 1]))
  IN  round[FunctionCount]

(* "Cycle remnants", among them every caller of a function on a cycle and  *)
(* every function that calls itself: in the order of the file, with the    *)
(* callees that happen to be there.                                        *)
Remnants(a, peeled) ==
  LET upTo[k \in 0 .. FunctionCount] ==
        IF k = 0 THEN peeled
        ELSE IF k \in DOMAIN a \ DOMAIN peeled THEN Extend(a, upTo[k - 1], {k})
        ELSE upTo[k - 1]
  IN  upTo[FunctionCount]

compute_deep_fingerprints(a) == Remnants(a, Peel(a))

(* The functions that compute_incremental_plan calls fresh.                *)
Fresh(fps) == {f \in DOMAIN fps : spec[f] # NoSpec /\ spec[f].fp = fps[f]}

(* A new specification, with what it was made from.                        *)
Explored(T, f, fps) ==
  [fp |-> fps[f], seen |-> Seen(f), whole |-> T = present, cyclic |-> f \in Cyclic(Graph)]

(* Slip: of the old specifications only the fresh ones are carried over.   *)
MergedFresh(T, explored, fps) ==
  [f \in Functions |->
     IF f \in explored THEN Explored(T, f, fps)
     ELSE IF f \in Fresh(fps) THEN spec[f]
     ELSE NoSpec]

(* merge_file_spec_bundles; without an old bundle, the new specs alone.    *)
Merged(T, explored, fps) ==
  [f \in Functions |->
     IF f \in explored THEN Explored(T, f, fps)
     ELSE IF f \in T THEN spec[f]
     ELSE NoSpec]

(* explore -o bundle, of the file or of one function: only what is asked   *)
(* for is analysed, the fresh functions are skipped, and those in `failed` *)
(* give no specification.  A bundle without functions is the no-target     *)
(* marker.                                                                 *)
Run(T) ==
  LET fps == compute_deep_fingerprints(Analyses(T)) IN
  /\ \E failed \in SUBSET (T \ Fresh(fps)) :
       spec' = Merged(T, (T \ Fresh(fps)) \ failed, fps)
  /\ UNCHANGED file

(* The bundle is removed, cannot be read, or is not looked at (--clean):   *)
(* the run that follows finds none.                                        *)
Discard ==
  /\ spec' = [f \in Functions |-> NoSpec]
  /\ UNCHANGED file

(* A function is written, with any callees, or rewritten: longer or       *)
(* shorter, which moves the functions below it.                            *)
Write(f, callees) ==
  /\ edits < MaxEdits
  /\ edits' = edits + 1
  /\ present' = present \cup {f}
  /\ source' = [source EXCEPT ![f] = edits + 1]
  /\ calls' = [calls EXCEPT ![f] = callees] /\ Small(calls')
  /\ \E h \in {1, 2} : height' = [height EXCEPT ![f] = h]
  /\ UNCHANGED spec

Delete(f) ==
  /\ f \in present /\ edits < MaxEdits
  /\ edits' = edits + 1
  /\ present' = present \ {f}
  /\ calls' = [calls EXCEPT ![f] = {}]
  /\ height' = [height EXCEPT ![f] = 1]
  /\ UNCHANGED <<source, spec>>

(* Lines are added or removed between f and the next function.             *)
Space(f) ==
  /\ f \in present /\ edits < MaxEdits
  /\ edits' = edits + 1
  /\ height' = [height EXCEPT ![f] = 3 - @]
  /\ UNCHANGED <<present, source, calls, spec>>

RunFile == Run(present)
RunFunction == \E f \in present : Run({f})

Next ==
  \/ RunFile \/ RunFunction \/ Discard
  \/ \E f \in Functions, callees \in SUBSET Functions : Write(f, callees)
  \/ \E f \in Functions : Delete(f) \/ Space(f)

Spec == Init /\ [][Next]_vars

-----------------------------------------------------------------------------
FreshNow == Fresh(compute_deep_fingerprints(Analyses(present)))

(* A function that a run over the file would skip was explored under       *)
(* today's source of itself and of everything it calls, branches in        *)
(* today's lines, if a run over the file made its specification and there  *)
(* was and is no cycle in or below it, not even a function that calls      *)
(* itself.                                                                 *)
FreshIsCurrent ==
  \A f \in FreshNow \ Cyclic(Graph) :
    spec[f].whole /\ ~spec[f].cyclic => spec[f].seen = Seen(f)

(* Nothing is explored again for any other reason, cycles or not: a        *)
(* specification made by a run over the file stays fresh while neither the *)
(* source of f or of anything it calls changes nor the line of one of      *)
(* their branches.                                                         *)
CurrentIsFresh ==
  \A f \in {f \in present : spec[f].whole} \ FreshNow : spec[f].seen # Seen(f)

(* A specification of a function that the file still has is kept, replaced *)
(* by a new one, or lost to a run about another function or with the whole *)
(* bundle; a failed exploration never costs one.                           *)
SpecsSurvive ==
  [][\A f \in present :
       \/ spec[f] = NoSpec \/ spec'[f] = spec[f]
       \/ spec'[f] # NoSpec /\ spec'[f].seen = Seen(f)
       \/ spec'[f] = NoSpec /\ (Discard \/ RunFunction)]_vars

ProjectGraph == FromRegistry(present, calls)

(* Each graph is looked at once, before the first run.                     *)
NoRunYet == \A f \in Functions : spec[f] = NoSpec

(* The layers split the functions: each calls only functions of earlier    *)
(* layers, and one of the layer just before it, or has no callee; only the *)
(* last layer may differ, and then holds what is on or above a cycle.      *)
LayersSound ==
  LET g == ProjectGraph
      layers == topological_layers(g)
      layer(i) == layers[i]
      until(i) == UNION {layer(j) : j \in 1 .. i}
  IN
  NoRunYet =>
    /\ until(Len(layers)) = DOMAIN g
    /\ \A i, j \in DOMAIN layers : i # j => layer(i) \cap layer(j) = {}
    /\ \A i \in DOMAIN layers :
         \/ i = Len(layers) /\ layer(i) = Cyclic(g)
         \/ /\ layer(i) # {} /\ layer(i) \cap Cyclic(g) = {}
            /\ \A f \in layer(i) : g[f] \subseteq until(i - 1)
            /\ i > 1 => \A f \in layer(i) : g[f] \cap layer(i - 1) # {}
=============================================================================
