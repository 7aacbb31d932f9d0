----------------------- MODULE IncrementalSpecProofs -----------------------
EXTENDS IncrementalSpec, FiniteSetTheorems, SequenceTheorems, WellFoundedInduction, TLAPS

-----------------------------------------------------------------------------
(* Induction, from the library's theorem that a well-founded relation has  *)
(* minimal elements; the predicate is a set.                               *)

(* A non-empty set of numbers has a least one.                             *)
LEMMA Least ==
  ASSUME NEW S, S \subseteq Nat, S # {}
  PROVE  \E x \in S : \A y \in S : x <= y
<1> DEFINE R == OpToRel(<, Nat)
<1>1. IsWellFoundedOn(R, Nat)
  BY NatLessThanWellFounded
<1>2. \A y, x \in Nat : y < x => <<y, x>> \in R
  BY DEF OpToRel
<1> HIDE DEF R
<1>3. PICK x \in S : \A y \in S : ~(<<y, x>> \in R)
  BY <1>1, WFMin
<1>4. \A y \in S : x <= y
  <2> TAKE y \in S
  <2>1. ~(y < x)
    BY <1>2, <1>3
  <2> QED BY <2>1
<1> QED BY <1>4

(* A set that has 0 and with every number below N its successor has        *)
(* everything up to N.                                                     *)
LEMMA InductionUpTo ==
  ASSUME NEW N \in Nat, NEW S, 0 \in S, \A n \in 1 .. N : n - 1 \in S => n \in S
  PROVE  0 .. N \subseteq S
<1> DEFINE D == (0 .. N) \ S
<1> SUFFICES ASSUME D # {} PROVE FALSE
  OBVIOUS
<1>1. PICK x \in D : \A y \in D : x <= y
  <2>1. D \subseteq Nat
    OBVIOUS
  <2> QED BY <2>1, Least
<1>2. x \in 1 .. N
  OBVIOUS
<1>3. x - 1 \in 0 .. N /\ x - 1 \notin D
  BY <1>1, <1>2
<1> QED BY <1>2, <1>3

(* A recursion over 0 .. N that stays in a set A defines a function.       *)
Recursion(N, A, a, step) == N \in Nat /\ a \in A /\ step \in [1 .. N -> [A -> A]]

Solution(N, A, a, step, r) ==
  r \in [0 .. N -> A] /\ r[0] = a /\ \A n \in 1 .. N : r[n] = step[n][r[n - 1]]

LEMMA PrimitiveRecursion ==
  ASSUME NEW N, NEW A, NEW a, NEW step, Recursion(N, A, a, step)
  PROVE  \E r : Solution(N, A, a, step, r)
<1> USE DEF Recursion
<1> DEFINE Good(n, r) == /\ r \in [0 .. n -> A] /\ r[0] = a
                         /\ \A k \in 1 .. n : r[k] = step[k][r[k - 1]]
           S == {n \in 0 .. N : \E r : Good(n, r)}
<1>1. 0 \in S
  <2>1. Good(0, [n \in 0 .. 0 |-> a])
    OBVIOUS
  <2> HIDE DEF Good
  <2>2. \E r : Good(0, r)
    BY <2>1
  <2> QED BY <2>2
<1>2. \A n \in 1 .. N : n - 1 \in S => n \in S
  <2> SUFFICES ASSUME NEW n \in 1 .. N, n - 1 \in S PROVE n \in S
    OBVIOUS
  <2>1. PICK r : Good(n - 1, r)
    OBVIOUS
  <2> DEFINE q == [k \in 0 .. n |-> IF k = n THEN step[n][r[n - 1]] ELSE r[k]]
  <2>2. r[n - 1] \in A
    BY <2>1
  <2>3. step[n][r[n - 1]] \in A
    BY <2>2
  <2>4. q \in [0 .. n -> A]
    BY <2>1, <2>3
  <2>5. q[0] = a
    BY <2>1
  <2>6. ASSUME NEW k \in 1 .. n PROVE q[k] = step[k][q[k - 1]]
    <3>1. k - 1 \in 0 .. n /\ k - 1 # n /\ q[k - 1] = r[k - 1]
      OBVIOUS
    <3>2. CASE k = n
      BY <3>1, <3>2
    <3>3. CASE k # n
      BY <2>1, <3>1, <3>3
    <3> QED BY <3>2, <3>3
  <2> HIDE DEF q
  <2>7. Good(n, q)
    BY <2>4, <2>5, <2>6
  <2> HIDE DEF Good
  <2>8. \E r0 : Good(n, r0)
    BY <2>7
  <2> QED BY <2>8
<1>3. N \in S
  <2> HIDE DEF S
  <2>1. 0 .. N \subseteq S
    BY <1>1, <1>2, InductionUpTo
  <2> QED BY <2>1
<1>4. PICK r : Good(N, r)
  BY <1>3
<1>5. Solution(N, A, a, step, r)
  BY <1>4 DEF Solution
<1> QED BY <1>5

-----------------------------------------------------------------------------
(* Reachability in a finite graph.                                         *)

IsGraph(g) == IsFiniteSet(DOMAIN g) /\ \A f \in DOMAIN g : g[f] \subseteq DOMAIN g

(* Below is the least closed set with the callees.                         *)
LEMMA BelowFacts ==
  ASSUME NEW g, IsGraph(g), NEW f \in DOMAIN g
  PROVE  /\ Below(g, f) \subseteq DOMAIN g /\ g[f] \subseteq Below(g, f)
         /\ \A x \in Below(g, f) : g[x] \subseteq Below(g, f)
         /\ \A S \in SUBSET DOMAIN g :
              g[f] \subseteq S /\ (\A x \in S : g[x] \subseteq S) => Below(g, f) \subseteq S
<1>1. Below(g, f) \subseteq DOMAIN g
  BY DEF Below
<1>2. g[f] \subseteq Below(g, f)
  BY DEF Below, IsGraph
<1>3. ASSUME NEW x \in Below(g, f), NEW y \in g[x] PROVE y \in Below(g, f)
  <2>1. x \in DOMAIN g /\ y \in DOMAIN g
    BY <1>1, <1>3 DEF IsGraph
  <2>2. ASSUME NEW S \in SUBSET DOMAIN g, g[f] \cap DOMAIN g \subseteq S, Closed(g, S)
        PROVE  y \in S
    <3>1. x \in S
      BY <2>2 DEF Below
    <3> QED BY <2>1, <2>2, <3>1 DEF Closed
  <2> QED BY <2>1, <2>2 DEF Below
<1>4. ASSUME NEW S \in SUBSET DOMAIN g, g[f] \subseteq S, \A x \in S : g[x] \subseteq S
      PROVE  Below(g, f) \subseteq S
  BY <1>4 DEF Below, Closed
<1> QED BY <1>1, <1>2, <1>3, <1>4

LEMMA BelowTransitive ==
  ASSUME NEW g, IsGraph(g), NEW f \in DOMAIN g, NEW h \in Below(g, f)
  PROVE  h \in DOMAIN g /\ Below(g, h) \subseteq Below(g, f)
<1> DEFINE B == Below(g, f)
<1>1. B \in SUBSET DOMAIN g /\ \A x \in B : g[x] \subseteq B
  BY BelowFacts
<1>2. h \in DOMAIN g /\ g[h] \subseteq B
  BY <1>1
<1> HIDE DEF B
<1>3. Below(g, h) \subseteq B
  BY <1>1, <1>2, BelowFacts
<1> QED BY <1>2, <1>3 DEF B

(* Below a function that is not on or above a cycle nothing is, and there  *)
(* is less below it.                                                       *)
LEMMA RankFalls ==
  ASSUME NEW g, IsGraph(g), NEW f \in DOMAIN g \ Cyclic(g), NEW h \in Below(g, f)
  PROVE  /\ h \in DOMAIN g \ Cyclic(g)
         /\ Cardinality(Below(g, f)) \in Nat /\ Cardinality(Below(g, h)) \in Nat
         /\ Cardinality(Below(g, h)) < Cardinality(Below(g, f))
<1>1. h \in DOMAIN g /\ Below(g, h) \subseteq Below(g, f)
  BY BelowTransitive
<1>2. \A c \in {f} \cup Below(g, f) : c \notin Below(g, c)
  BY DEF Cyclic
<1>3. h \notin Cyclic(g)
  BY <1>1, <1>2 DEF Cyclic
<1>4. IsFiniteSet(Below(g, f))
  <2>1. Below(g, f) \in SUBSET DOMAIN g
    BY BelowFacts
  <2> QED BY <2>1, FS_Subset DEF IsGraph
<1>5. h \in Below(g, f) /\ h \notin Below(g, h)
  BY <1>2
<1> DEFINE S == Below(g, f)  T == Below(g, h)
<1>6. IsFiniteSet(S) /\ T \in SUBSET S /\ S # T
  BY <1>1, <1>4, <1>5
<1> HIDE DEF S, T
<1>7. Cardinality(S) \in Nat /\ IsFiniteSet(T) /\ Cardinality(T) \in Nat /\ Cardinality(T) < Cardinality(S)
  BY <1>6, FS_Subset, FS_CardinalityType
<1> QED BY <1>1, <1>3, <1>7 DEF S, T

(* So a set of them has a member below which there is none.                *)
LEMMA Lowest ==
  ASSUME NEW g, IsGraph(g), NEW D, D \subseteq DOMAIN g \ Cyclic(g), D # {}
  PROVE  \E f \in D : Below(g, f) \cap D = {}
<1> DEFINE R == {Cardinality(Below(g, f)) : f \in D}
<1>1. R \subseteq Nat
  <2> SUFFICES ASSUME NEW f \in D PROVE Cardinality(Below(g, f)) \in Nat
    OBVIOUS
  <2>1. Below(g, f) \in SUBSET DOMAIN g
    BY BelowFacts
  <2>2. IsFiniteSet(Below(g, f))
    BY <2>1, FS_Subset DEF IsGraph
  <2> QED BY <2>2, FS_CardinalityType
<1>2. PICK n \in R : \A m \in R : n <= m
  <2>1. R # {}
    OBVIOUS
  <2> HIDE DEF R
  <2> QED BY <1>1, <2>1, Least
<1>3. PICK f \in D : n = Cardinality(Below(g, f))
  OBVIOUS
<1>4. ASSUME NEW h \in Below(g, f), h \in D PROVE FALSE
  <2>1. Cardinality(Below(g, h)) \in R
    BY <1>4
  <2>2. n <= Cardinality(Below(g, h))
    BY <1>2, <2>1
  <2>3. /\ Cardinality(Below(g, f)) \in Nat /\ Cardinality(Below(g, h)) \in Nat
        /\ Cardinality(Below(g, h)) < Cardinality(Below(g, f))
    BY RankFalls
  <2> QED BY <1>3, <2>2, <2>3
<1> QED BY <1>4

-----------------------------------------------------------------------------
(* One turn of Kahn's algorithm.                                           *)

(* What has a layer calls only what has one, and is on or above no cycle.  *)
Peeled(g, S) == /\ S \subseteq DOMAIN g \ Cyclic(g) /\ \A x \in S : g[x] \subseteq S

LEMMA TurnKeeps ==
  ASSUME NEW g, IsGraph(g), NEW S, Peeled(g, S)
  PROVE  Peeled(g, S \cup NextQueue(g, S))
<1> DEFINE Q == NextQueue(g, S)
<1>1. Q \subseteq DOMAIN g \ S /\ \A x \in Q : g[x] \subseteq S
  BY DEF NextQueue
<1>2. ASSUME NEW f \in Q PROVE f \notin Cyclic(g)
  <2>1. Below(g, f) \subseteq S
    <3>1. f \in DOMAIN g /\ g[f] \subseteq S /\ S \in SUBSET DOMAIN g /\ \A x \in S : g[x] \subseteq S
      BY <1>1 DEF Peeled
    <3> QED BY <3>1, BelowFacts
  <2>2. f \notin Below(g, f)
    BY <1>1, <2>1
  <2>3. ASSUME NEW c \in Below(g, f), c \in Below(g, c) PROVE FALSE
    <3>1. c \in S /\ c \in DOMAIN g
      BY <2>1 DEF Peeled
    <3>2. c \in Cyclic(g)
      BY <2>3, <3>1 DEF Cyclic
    <3> QED BY <3>1, <3>2 DEF Peeled
  <2> QED BY <2>2, <2>3 DEF Cyclic
<1> HIDE DEF Q
<1>3. Peeled(g, S \cup Q)
  BY <1>1, <1>2 DEF Peeled
<1> QED BY <1>3 DEF Q

(* When it stops, all that is on or above no cycle has been reached.       *)
LEMMA TurnsEnd ==
  ASSUME NEW g, IsGraph(g), NEW S, Peeled(g, S), NextQueue(g, S) = {}
  PROVE  S = DOMAIN g \ Cyclic(g)
<1> DEFINE D == (DOMAIN g \ Cyclic(g)) \ S
<1> SUFFICES ASSUME D # {} PROVE FALSE
  BY DEF Peeled
<1>1. PICK f \in D : Below(g, f) \cap D = {}
  <2>1. D \subseteq DOMAIN g \ Cyclic(g)
    OBVIOUS
  <2> HIDE DEF D
  <2> QED BY <2>1, Lowest
<1>2. \A h \in Below(g, f) : h \in DOMAIN g \ Cyclic(g)
  BY RankFalls
<1>3. g[f] \subseteq Below(g, f)
  BY BelowFacts
<1>4. g[f] \subseteq S
  BY <1>1, <1>2, <1>3
<1> QED BY <1>4 DEF NextQueue

-----------------------------------------------------------------------------
(* The layers of topological_layers.                                       *)

(* The loop turns while a turn reaches something, and it has stopped       *)
(* before it can have turned more often than there are functions.          *)
LEMMA VisitedFacts ==
  ASSUME NEW g, IsGraph(g)
  PROVE  /\ Cardinality(DOMAIN g) \in Nat /\ Visited(g)[0] = {}
         /\ \A k \in 1 .. Cardinality(DOMAIN g) :
              Visited(g)[k] = Visited(g)[k - 1] \cup NextQueue(g, Visited(g)[k - 1])
<1> DEFINE n == Cardinality(DOMAIN g)
           A == SUBSET DOMAIN g
           step == [k \in 1 .. n |-> [S \in A |-> S \cup NextQueue(g, S)]]
           Is(r) == r = [k \in 0 .. n |->
                           IF k = 0 THEN {} ELSE r[k - 1] \cup NextQueue(g, r[k - 1])]
           c == CHOOSE r : Is(r)
<1>1. n \in Nat
  BY FS_CardinalityType DEF IsGraph
<1>2. \A S \in A : S \cup NextQueue(g, S) \in A
  BY DEF NextQueue
<1>3. PICK r : Solution(n, A, {}, step, r)
  <2>1. Recursion(n, A, {}, step)
    <3> HIDE DEF n
    <3> QED BY <1>1, <1>2 DEF Recursion
  <2> HIDE DEF n, A, step
  <2> QED BY <2>1, PrimitiveRecursion
<1>4. Is(r)
  <2>1. ASSUME NEW k \in 0 .. n, k # 0 PROVE r[k] = r[k - 1] \cup NextQueue(g, r[k - 1])
    <3> HIDE DEF n, A
    <3>1. k \in 1 .. n /\ k - 1 \in 0 .. n
      BY <1>1, <2>1
    <3>2. r[k - 1] \in A
      BY <1>3, <3>1 DEF Solution
    <3>3. step[k][r[k - 1]] = r[k - 1] \cup NextQueue(g, r[k - 1])
      BY <3>1, <3>2
    <3> HIDE DEF step
    <3> QED BY <1>3, <3>1, <3>3 DEF Solution
  <2> HIDE DEF step, n, A
  <2>2. r = [k \in 0 .. n |-> r[k]] /\ r[0] = {}
    BY <1>3 DEF Solution
  <2> QED BY <2>1, <2>2
<1>5. Is(c)
  BY <1>4
<1>6. c = Visited(g)
  BY DEF Visited
<1> HIDE DEF c, n
<1>7. c[0] = {}
  BY <1>1, <1>5
<1>8. ASSUME NEW k \in 1 .. n PROVE c[k] = c[k - 1] \cup NextQueue(g, c[k - 1])
  <2>1. k \in 0 .. n /\ k # 0
    BY <1>1
  <2>2. \A i \in 0 .. n : c[i] = IF i = 0 THEN {} ELSE c[i - 1] \cup NextQueue(g, c[i - 1])
    BY <1>5, Zenon
  <2> QED BY <2>1, <2>2, Zenon
<1> QED BY <1>1, <1>6, <1>7, <1>8 DEF n

LEMMA VisitedPeeled ==
  ASSUME NEW g, IsGraph(g)
  PROVE  \A k \in 0 .. Cardinality(DOMAIN g) : Peeled(g, Visited(g)[k])
<1> DEFINE n == Cardinality(DOMAIN g)
           S == {k \in 0 .. n : Peeled(g, Visited(g)[k])}
<1>1. n \in Nat
  BY VisitedFacts
<1>2. 0 \in S
  BY <1>1, VisitedFacts DEF Peeled
<1>3. ASSUME NEW k \in 1 .. n, k - 1 \in S PROVE k \in S
  <2>1. Peeled(g, Visited(g)[k - 1])
    BY <1>3
  <2>2. Visited(g)[k] = Visited(g)[k - 1] \cup NextQueue(g, Visited(g)[k - 1])
    BY VisitedFacts
  <2>3. Peeled(g, Visited(g)[k])
    BY <2>1, <2>2, TurnKeeps
  <2> QED BY <1>1, <2>3
<1>4. 0 .. n \subseteq S
  <2> HIDE DEF S, n
  <2> QED BY <1>1, <1>2, <1>3, InductionUpTo
<1> QED BY <1>4

LEMMA TurnsFacts ==
  ASSUME NEW g, IsGraph(g)
  PROVE  /\ Turns(g) \in 0 .. Cardinality(DOMAIN g)
         /\ NextQueue(g, Visited(g)[Turns(g)]) = {}
         /\ \A j \in 0 .. Turns(g) - 1 : NextQueue(g, Visited(g)[j]) # {}
<1> DEFINE n == Cardinality(DOMAIN g)
           V == Visited(g)
           Stop == {k \in 0 .. n : NextQueue(g, V[k]) = {}}
           S == {k \in 0 .. n : k <= Cardinality(V[k]) \/ \E j \in 0 .. k : j \in Stop}
<1>1. n \in Nat /\ V[0] = {} /\ \A k \in 1 .. n : V[k] = V[k - 1] \cup NextQueue(g, V[k - 1])
  BY VisitedFacts
<1>2. ASSUME NEW k \in 0 .. n PROVE /\ V[k] \in SUBSET DOMAIN g /\ IsFiniteSet(V[k])
                                    /\ Cardinality(V[k]) \in Nat /\ Cardinality(V[k]) <= n
                                    /\ (Cardinality(V[k]) = n => V[k] = DOMAIN g)
  <2>1. V[k] \in SUBSET DOMAIN g
    BY VisitedPeeled DEF Peeled
  <2>2. IsFiniteSet(DOMAIN g)
    BY DEF IsGraph
  <2> HIDE DEF V
  <2> QED BY <2>1, <2>2, FS_Subset, FS_CardinalityType
<1>3. Stop # {}
  <2>1. 0 \in S
    <3>1. 0 \in 0 .. n /\ 0 <= Cardinality(V[0])
      BY <1>1, <1>2
    <3> QED BY <3>1
  <2>2. ASSUME NEW k \in 1 .. n, k - 1 \in S PROVE k \in S
    <3> HIDE DEF V, n
    <3>1. CASE \E j \in 0 .. k - 1 : j \in Stop
      BY <1>1, <3>1
    <3>2. CASE k - 1 <= Cardinality(V[k - 1]) /\ k - 1 \notin Stop
      <4>1. k - 1 \in 0 .. n /\ k \in 0 .. n
        BY <1>1
      <4>2. PICK x : x \in NextQueue(g, V[k - 1])
        BY <3>2, <4>1
      <4>3. x \notin V[k - 1] /\ x \in V[k] /\ V[k - 1] \in SUBSET V[k]
        BY <1>1, <4>1, <4>2 DEF NextQueue
      <4>4. IsFiniteSet(V[k]) /\ Cardinality(V[k]) \in Nat /\ Cardinality(V[k - 1]) \in Nat
        BY <1>2, <4>1
      <4>5. Cardinality(V[k - 1]) < Cardinality(V[k])
        BY <4>3, <4>4, FS_Subset
      <4>6. k <= Cardinality(V[k])
        BY <3>2, <4>4, <4>5
      <4> QED BY <4>1, <4>6
    <3> QED BY <1>1, <2>2, <3>1, <3>2
  <2>3. n \in S
    <3>1. 0 .. n \subseteq S
      <4> HIDE DEF S, n
      <4> QED BY <1>1, <2>1, <2>2, InductionUpTo
    <3>2. n \in 0 .. n
      BY <1>1
    <3> QED BY <3>1, <3>2
  <2>4. CASE n <= Cardinality(V[n])
    <3>1. n \in 0 .. n
      BY <1>1
    <3> HIDE DEF n, V
    <3>2. V[n] = DOMAIN g
      BY <1>1, <1>2, <2>4, <3>1
    <3>3. NextQueue(g, V[n]) = {}
      BY <3>2 DEF NextQueue
    <3> QED BY <3>1, <3>3
  <2> QED BY <2>3, <2>4
<1>4. PICK k \in Stop : \A j \in Stop : k <= j
  <2>1. Stop \subseteq Nat
    OBVIOUS
  <2> HIDE DEF Stop
  <2> QED BY <1>3, <2>1, Least
<1> DEFINE Is(i) == NextQueue(g, V[i]) = {} /\ \A j \in 0 .. i - 1 : NextQueue(g, V[j]) # {}
<1>5. k \in 0 .. n /\ Is(k)
  <2>1. ASSUME NEW j \in 0 .. k - 1, NextQueue(g, V[j]) = {} PROVE FALSE
    <3> HIDE DEF V, n
    <3>1. k \in 0 .. n
      OBVIOUS
    <3>2. j \in 0 .. n /\ j < k
      BY <1>1, <3>1
    <3> QED BY <1>4, <2>1, <3>1, <3>2
  <2> QED BY <2>1
<1>6. Turns(g) = CHOOSE i \in 0 .. n : Is(i)
  BY DEF Turns
<1>7. Turns(g) \in 0 .. n /\ Is(Turns(g))
  <2> HIDE DEF Is, n
  <2> QED BY <1>5, <1>6
<1> QED BY <1>7

(* Before its last layer the sequence has those of the turns; the last one *)
(* is what is on or above a cycle, if anything is.                         *)
LEMMA LayersFacts ==
  ASSUME NEW g, IsGraph(g)
  PROVE  LET layers == topological_layers(g)
             T == Turns(g)
         IN  /\ layers \in Seq(SUBSET DOMAIN g)
             /\ \A i \in 1 .. T : layers[i] = NextQueue(g, Visited(g)[i - 1])
             /\ \/ Cyclic(g) = {} /\ Len(layers) = T
                \/ Cyclic(g) # {} /\ Len(layers) = T + 1 /\ layers[T + 1] = Cyclic(g)
<1> DEFINE T == Turns(g)
           V == Visited(g)
           rest == DOMAIN g \ V[T]
           turns == [i \in 1 .. T |-> NextQueue(g, V[i - 1])]
           last == IF rest = {} THEN <<>> ELSE <<rest>>
           layers == topological_layers(g)
           A == SUBSET DOMAIN g
<1>1. T \in Nat /\ T \in 0 .. Cardinality(DOMAIN g)
  BY TurnsFacts, VisitedFacts
<1>2. rest = Cyclic(g)
  <2>1. Peeled(g, V[T]) /\ NextQueue(g, V[T]) = {}
    BY <1>1, TurnsFacts, VisitedPeeled
  <2>2. V[T] = DOMAIN g \ Cyclic(g)
    <3> HIDE DEF V, T
    <3> QED BY <2>1, TurnsEnd
  <2>3. Cyclic(g) \subseteq DOMAIN g
    BY DEF Cyclic
  <2> QED BY <2>2, <2>3
<1>3. layers = turns \o last
  BY DEF topological_layers
<1> HIDE DEF T
<1>4. turns \in Seq(A) /\ Len(turns) = T
  <2>1. \A i \in 1 .. T : NextQueue(g, V[i - 1]) \in A
    BY DEF NextQueue
  <2>2. turns \in [1 .. T -> A]
    BY <2>1
  <2> HIDE DEF turns, A
  <2> QED BY <1>1, <2>2
<1>5. last \in Seq(A)
  <2>1. rest \in A
    OBVIOUS
  <2> HIDE DEF rest, A
  <2> QED BY <2>1
<1>6. \A i \in 1 .. T : turns[i] = NextQueue(g, V[i - 1])
  OBVIOUS
<1>7. /\ rest = {} => Len(last) = 0
      /\ rest # {} => Len(last) = 1 /\ last[1] = rest
  <2> HIDE DEF rest
  <2> QED OBVIOUS
<1> HIDE DEF turns, last, layers, A, rest, V
<1>8. /\ layers \in Seq(A) /\ Len(layers) = T + Len(last)
      /\ \A i \in 1 .. T + Len(last) : layers[i] = IF i <= T THEN turns[i] ELSE last[i - T]
  BY <1>3, <1>4, <1>5, ConcatProperties
<1>9. Len(last) \in Nat
  BY <1>7
<1>10. \A i \in 1 .. T : layers[i] = turns[i]
  BY <1>1, <1>8, <1>9
<1>11. rest # {} => layers[T + 1] = rest /\ Len(layers) = T + 1
  BY <1>1, <1>7, <1>8
<1>12. rest = {} => Len(layers) = T
  BY <1>1, <1>7, <1>8
<1> QED BY <1>2, <1>6, <1>8, <1>10, <1>11, <1>12 DEF T, V, layers, A

(* What LayersSound says of one graph.                                     *)
Layering(g) ==
  LET layers == topological_layers(g)
      layer(i) == layers[i]
      until(i) == UNION {layer(j) : j \in 1 .. i}
  IN
  /\ until(Len(layers)) = DOMAIN g
  /\ \A i, j \in DOMAIN layers : i # j => layer(i) \cap layer(j) = {}
  /\ \A i \in DOMAIN layers :
       \/ i = Len(layers) /\ layer(i) = Cyclic(g)
       \/ /\ layer(i) # {} /\ layer(i) \cap Cyclic(g) = {}
          /\ \A f \in layer(i) : g[f] \subseteq until(i - 1)
          /\ i > 1 => \A f \in layer(i) : g[f] \cap layer(i - 1) # {}

LEMMA LayeringHolds ==
  ASSUME NEW g, IsGraph(g)
  PROVE  Layering(g)
<1> DEFINE layers == topological_layers(g)
           T == Turns(g)
           V == Visited(g)
           until(i) == UNION {layers[j] : j \in 1 .. i}
           S == {i \in 0 .. T : until(i) = V[i]}
<1>1. /\ T \in Nat /\ V[0] = {}
      /\ \A i \in 1 .. T : V[i] = V[i - 1] \cup NextQueue(g, V[i - 1])
      /\ \A i \in 0 .. T : Peeled(g, V[i])
      /\ \A i \in 1 .. T : NextQueue(g, V[i - 1]) # {}
      /\ NextQueue(g, V[T]) = {}
  <2>1. T \in 0 .. Cardinality(DOMAIN g) /\ Cardinality(DOMAIN g) \in Nat
    BY TurnsFacts, VisitedFacts
  <2>2. ASSUME NEW i \in 1 .. T PROVE i - 1 \in 0 .. T - 1
    BY <2>1
  <2> HIDE DEF T, V
  <2>3. /\ V[0] = {} /\ \A i \in 1 .. Cardinality(DOMAIN g) : V[i] = V[i - 1] \cup NextQueue(g, V[i - 1])
        /\ \A i \in 0 .. Cardinality(DOMAIN g) : Peeled(g, V[i])
        /\ \A j \in 0 .. T - 1 : NextQueue(g, V[j]) # {}
        /\ NextQueue(g, V[T]) = {}
    BY VisitedFacts, VisitedPeeled, TurnsFacts DEF T, V
  <2> QED BY <2>1, <2>2, <2>3
<1>2. /\ layers \in Seq(SUBSET DOMAIN g)
      /\ \A i \in 1 .. T : layers[i] = NextQueue(g, V[i - 1])
      /\ \/ Cyclic(g) = {} /\ Len(layers) = T
         \/ Cyclic(g) # {} /\ Len(layers) = T + 1 /\ layers[T + 1] = Cyclic(g)
  BY LayersFacts
<1> HIDE DEF layers, T, V
<1>3. ASSUME NEW i \in 0 .. T PROVE until(i) = V[i]
  <2>1. 0 \in S
    <3>1. 1 .. 0 = {}
      OBVIOUS
    <3>2. until(0) = {}
      BY <3>1
    <3> QED BY <1>1, <3>2
  <2>2. ASSUME NEW k \in 1 .. T, k - 1 \in S PROVE k \in S
    <3>1. 1 .. k = (1 .. k - 1) \cup {k}
      OBVIOUS
    <3>2. until(k) = until(k - 1) \cup layers[k]
      BY <3>1
    <3>3. until(k) = V[k]
      BY <1>1, <1>2, <2>2, <3>2
    <3>4. k \in 0 .. T
      BY <1>1
    <3> QED BY <3>3, <3>4
  <2>3. 0 .. T \subseteq S
    <3> HIDE DEF S
    <3> QED BY <1>1, <2>1, <2>2, InductionUpTo
  <2> QED BY <2>3
<1>4. V[T] = DOMAIN g \ Cyclic(g)
  <2>1. T \in 0 .. T
    BY <1>1
  <2>2. Peeled(g, V[T]) /\ NextQueue(g, V[T]) = {}
    BY <1>1, <2>1
  <2> QED BY <2>2, TurnsEnd
<1>5. DOMAIN layers = 1 .. Len(layers) /\ Len(layers) \in Nat
  BY <1>2
<1>0. ASSUME NEW i \in DOMAIN layers
      PROVE  \/ i \in 1 .. T
             \/ i = T + 1 /\ Len(layers) = T + 1 /\ layers[T + 1] = Cyclic(g)
  <2>1. i \in 1 .. Len(layers)
    BY <1>5
  <2>2. CASE Len(layers) = T
    BY <2>1, <2>2
  <2>3. CASE Len(layers) = T + 1 /\ layers[T + 1] = Cyclic(g)
    <3>1. i \in 1 .. T + 1
      BY <2>1, <2>3
    <3>2. i \in 1 .. T \/ i = T + 1
      BY <1>1, <3>1
    <3> QED BY <2>3, <3>2
  <2> QED BY <1>2, <2>2, <2>3
<1>6. until(Len(layers)) = DOMAIN g
  <2>0. T \in 0 .. T /\ Cyclic(g) \subseteq DOMAIN g
    BY <1>1 DEF Cyclic
  <2>1. CASE Len(layers) = T /\ Cyclic(g) = {}
    BY <1>3, <1>4, <2>0, <2>1
  <2>2. CASE Len(layers) = T + 1 /\ layers[T + 1] = Cyclic(g)
    <3>1. 1 .. T + 1 = (1 .. T) \cup {T + 1}
      BY <1>1
    <3>2. until(T + 1) = until(T) \cup layers[T + 1]
      BY <3>1
    <3>3. until(T + 1) = V[T] \cup Cyclic(g)
      BY <1>3, <2>0, <2>2, <3>2
    <3> QED BY <1>4, <2>0, <2>2, <3>3
  <2> QED BY <1>2, <2>1, <2>2
<1>7. ASSUME NEW i \in DOMAIN layers, NEW j \in 1 .. i - 1
      PROVE  layers[i] \cap layers[j] = {}
  <2>1. i \in Nat /\ j \in 1 .. T /\ j \in Nat /\ j <= i - 1 /\ i \in 1 .. T + 1
    BY <1>0, <1>1
  <2>2. i - 1 \in 0 .. T
    BY <1>1, <2>1
  <2>3. layers[j] \subseteq until(i - 1)
    BY <2>1
  <2>4. layers[j] \subseteq V[i - 1]
    BY <1>3, <2>2, <2>3
  <2>5. CASE i \in 1 .. T
    BY <1>2, <2>4, <2>5 DEF NextQueue
  <2>6. CASE i = T + 1 /\ layers[i] = Cyclic(g)
    <3>1. V[i - 1] = DOMAIN g \ Cyclic(g)
      BY <1>1, <1>4, <2>6
    <3> QED BY <2>4, <2>6, <3>1
  <2> QED BY <1>0, <2>5, <2>6
<1>8. \A i, j \in DOMAIN layers : i # j => layers[i] \cap layers[j] = {}
  <2> TAKE i, j \in DOMAIN layers
  <2>1. i \in Int /\ j \in Int /\ 1 <= i /\ 1 <= j
    BY <1>5
  <2>2. CASE j < i
    <3>1. j \in 1 .. i - 1
      BY <2>1, <2>2
    <3> QED BY <1>7, <3>1
  <2>3. CASE i < j
    <3>1. i \in 1 .. j - 1
      BY <2>1, <2>3
    <3> QED BY <1>7, <3>1
  <2> QED BY <2>1, <2>2, <2>3
<1>9. ASSUME NEW i \in 1 .. T
      PROVE  /\ layers[i] # {} /\ layers[i] \cap Cyclic(g) = {}
             /\ \A f \in layers[i] : g[f] \subseteq until(i - 1)
             /\ i > 1 => \A f \in layers[i] : g[f] \cap layers[i - 1] # {}
  <2>1. i \in 0 .. T /\ i - 1 \in 0 .. T
    BY <1>1
  <2>2. layers[i] = NextQueue(g, V[i - 1]) /\ layers[i] # {} /\ V[i] = V[i - 1] \cup layers[i]
    BY <1>1, <1>2
  <2>3. layers[i] \cap Cyclic(g) = {}
    BY <1>1, <2>1, <2>2 DEF Peeled
  <2>4. until(i - 1) = V[i - 1]
    BY <1>3, <2>1
  <2>5. \A f \in layers[i] : g[f] \subseteq until(i - 1)
    BY <2>2, <2>4 DEF NextQueue
  <2>6. ASSUME i > 1, NEW f \in layers[i], g[f] \cap layers[i - 1] = {} PROVE FALSE
    <3> DEFINE k == i - 1
    <3>1. k \in 1 .. T
      BY <1>1, <2>6
    <3> HIDE DEF k
    <3>2. layers[k] = NextQueue(g, V[k - 1]) /\ V[k] = V[k - 1] \cup layers[k]
      BY <1>1, <1>2, <3>1
    <3>3. f \in DOMAIN g /\ f \notin V[k] /\ g[f] \subseteq V[k]
      BY <2>2 DEF k, NextQueue
    <3>4. g[f] \cap layers[k] = {}
      BY <2>6 DEF k
    <3>5. f \in NextQueue(g, V[k - 1])
      BY <3>2, <3>3, <3>4 DEF NextQueue
    <3> QED BY <3>2, <3>3, <3>5
  <2> QED BY <2>2, <2>3, <2>5, <2>6
<1>10. \A i \in DOMAIN layers :
         \/ i = Len(layers) /\ layers[i] = Cyclic(g)
         \/ /\ layers[i] # {} /\ layers[i] \cap Cyclic(g) = {}
            /\ \A f \in layers[i] : g[f] \subseteq until(i - 1)
            /\ i > 1 => \A f \in layers[i] : g[f] \cap layers[i - 1] # {}
  <2> TAKE i \in DOMAIN layers
  <2> HIDE DEF until
  <2>1. CASE i \in 1 .. T
    BY <1>9, <2>1
  <2>2. CASE i = T + 1 /\ Len(layers) = T + 1 /\ layers[T + 1] = Cyclic(g)
    BY <2>2
  <2> QED BY <1>0, <2>1, <2>2
<1> QED BY <1>6, <1>8, <1>10 DEF Layering, layers

-----------------------------------------------------------------------------
(* What the deep fingerprints of a file are made of.                       *)

(* The analyses of a file, of today or of an earlier day.                  *)
IsFile(a) == DOMAIN a \subseteq Functions

LEMMA FileFacts ==
  ASSUME NEW a, IsFile(a)
  PROVE  /\ IsGraph(InFile(a)) /\ DOMAIN InFile(a) = DOMAIN a
         /\ \A f \in DOMAIN a : InFile(a)[f] = a[f].calls \cap DOMAIN a
         /\ FunctionCount \in Nat
         /\ Cardinality(DOMAIN a) \in Nat /\ Cardinality(DOMAIN a) <= FunctionCount
<1>1. FunctionCount \in Nat
  BY SpecAssumption
<1>2. IsFiniteSet(Functions) /\ Cardinality(Functions) = FunctionCount
  BY <1>1, FS_Interval DEF Functions
<1>3. DOMAIN a \in SUBSET Functions
  BY DEF IsFile
<1>4. IsFiniteSet(DOMAIN a) /\ Cardinality(DOMAIN a) <= FunctionCount
  BY <1>2, <1>3, FS_Subset
<1>5. Cardinality(DOMAIN a) \in Nat
  BY <1>4, FS_CardinalityType
<1>6. DOMAIN InFile(a) = DOMAIN a /\ \A f \in DOMAIN a : InFile(a)[f] = a[f].calls \cap DOMAIN a
  BY DEF InFile
<1>7. IsGraph(InFile(a))
  BY <1>4, <1>6 DEF IsGraph
<1> QED BY <1>1, <1>4, <1>5, <1>6, <1>7

(* The fingerprints w are those of u, and new ones for S.                  *)
Extends(a, u, S, w) ==
  /\ DOMAIN w = DOMAIN u \cup S
  /\ \A x \in S : w[x] = Deep(a, x, u)
  /\ \A x \in DOMAIN u \ S : w[x] = u[x]

LEMMA ExtendExtends ==
  ASSUME NEW a, NEW u, NEW S
  PROVE  Extends(a, u, S, Extend(a, u, S))
BY DEF Extends, Extend

Rounds(a, r) ==
  /\ DOMAIN r[0] = {}
  /\ \A k \in 1 .. FunctionCount :
       Extends(a, r[k - 1], NextQueue(InFile(a), DOMAIN r[k - 1]), r[k])

LEMMA PeelRounds ==
  ASSUME NEW a
  PROVE  \E r : Rounds(a, r) /\ Peel(a) = r[FunctionCount]
<1> DEFINE N == FunctionCount
           E(u) == Extend(a, u, NextQueue(InFile(a), DOMAIN u))
           Good(n, r) == r = [k \in 0 .. n |-> IF k = 0 THEN <<>> ELSE E(r[k - 1])]
           S == {n \in 0 .. N : \E r : Good(n, r)}
           c == CHOOSE r : Good(N, r)
<1>0. N \in Nat
  BY SpecAssumption
<1> HIDE DEF N, E
<1>1. 0 \in S
  <2> DEFINE q == [k \in 0 .. 0 |-> <<>>]
  <2>1. ASSUME NEW k \in 0 .. 0 PROVE k = 0
    OBVIOUS
  <2>2. Good(0, q)
    BY <2>1
  <2> HIDE DEF Good, q
  <2>3. \E r : Good(0, r)
    BY <2>2
  <2> QED BY <1>0, <2>3
<1>2. ASSUME NEW n \in 1 .. N, n - 1 \in S PROVE n \in S
  <2>1. PICK r : Good(n - 1, r)
    BY <1>2
  <2> DEFINE q == [k \in 0 .. n |-> IF k = n THEN E(r[n - 1]) ELSE r[k]]
  <2>2. ASSUME NEW k \in 0 .. n PROVE q[k] = IF k = 0 THEN <<>> ELSE E(q[k - 1])
    <3>1. n # 0 /\ n \in 0 .. n /\ 0 \in 0 .. n /\ 0 \in 0 .. n - 1
      BY <1>0
    <3>2. CASE k = 0
      BY <2>1, <3>1, <3>2
    <3>3. CASE k # 0
      <4>1. k - 1 \in 0 .. n /\ k - 1 # n
        BY <1>0, <3>3
      <4>2. q[k - 1] = r[k - 1]
        BY <4>1
      <4>3. CASE k = n
        BY <3>3, <4>2, <4>3
      <4>4. CASE k # n
        <5>1. k \in 0 .. n - 1 /\ k # 0
          BY <1>0, <3>3, <4>4
        <5>2. r[k] = E(r[k - 1])
          BY <2>1, <5>1
        <5>3. q[k] = r[k]
          BY <4>4
        <5> QED BY <3>3, <4>2, <5>2, <5>3
      <4> QED BY <4>3, <4>4
    <3> QED BY <3>2, <3>3
  <2>3. q = [k \in 0 .. n |-> q[k]]
    OBVIOUS
  <2> HIDE DEF q
  <2>4. Good(n, q)
    BY <2>2, <2>3
  <2> HIDE DEF Good
  <2>5. \E p : Good(n, p)
    BY <2>4
  <2>6. n \in 0 .. N
    BY <1>0
  <2> QED BY <2>5, <2>6
<1>3. N \in S
  <2> HIDE DEF S
  <2>1. 0 .. N \subseteq S
    BY <1>0, <1>1, <1>2, InductionUpTo
  <2> QED BY <1>0, <2>1
<1>4. Good(N, c)
  <2>1. \E r : Good(N, r)
    BY <1>3
  <2> HIDE DEF Good
  <2> QED BY <2>1
<1>5. Peel(a) = c[N]
  BY DEF Peel, N, E
<1> HIDE DEF c
<1>6. \A k \in 0 .. N : c[k] = IF k = 0 THEN <<>> ELSE E(c[k - 1])
  BY <1>4, Zenon
<1>7. DOMAIN c[0] = {}
  <2>1. 0 \in 0 .. N
    BY <1>0
  <2>2. c[0] = <<>>
    BY <1>6, <2>1
  <2> QED BY <2>2
<1>8. ASSUME NEW k \in 1 .. N
      PROVE  Extends(a, c[k - 1], NextQueue(InFile(a), DOMAIN c[k - 1]), c[k])
  <2>1. k \in 0 .. N /\ k # 0
    BY <1>0
  <2>2. c[k] = E(c[k - 1])
    BY <1>6, <2>1
  <2> QED BY <2>2, ExtendExtends DEF E
<1>9. Rounds(a, c)
  BY <1>7, <1>8 DEF Rounds, N
<1> QED BY <1>5, <1>9 DEF N

Turn(a, p, k) == {k} \cap (DOMAIN a \ DOMAIN p)

InOrder(a, p, u) ==
  /\ u[0] = p
  /\ \A k \in 1 .. FunctionCount : Extends(a, u[k - 1], Turn(a, p, k), u[k])

LEMMA RemnantsInOrder ==
  ASSUME NEW a, NEW p
  PROVE  \E u : InOrder(a, p, u) /\ Remnants(a, p) = u[FunctionCount]
<1> DEFINE N == FunctionCount
           E(k, u) == IF k \in DOMAIN a \ DOMAIN p THEN Extend(a, u, {k}) ELSE u
           Good(n, r) == r = [k \in 0 .. n |-> IF k = 0 THEN p ELSE E(k, r[k - 1])]
           S == {n \in 0 .. N : \E r : Good(n, r)}
           c == CHOOSE r : Good(N, r)
<1>0. N \in Nat
  BY SpecAssumption
<1> HIDE DEF N, E
<1>1. 0 \in S
  <2> DEFINE q == [k \in 0 .. 0 |-> p]
  <2>1. ASSUME NEW k \in 0 .. 0 PROVE k = 0
    OBVIOUS
  <2>2. Good(0, q)
    BY <2>1
  <2> HIDE DEF Good, q
  <2>3. \E r : Good(0, r)
    BY <2>2
  <2> QED BY <1>0, <2>3
<1>2. ASSUME NEW n \in 1 .. N, n - 1 \in S PROVE n \in S
  <2>1. PICK r : Good(n - 1, r)
    BY <1>2
  <2> DEFINE q == [k \in 0 .. n |-> IF k = n THEN E(n, r[n - 1]) ELSE r[k]]
  <2>2. ASSUME NEW k \in 0 .. n PROVE q[k] = IF k = 0 THEN p ELSE E(k, q[k - 1])
    <3>1. n # 0 /\ n \in 0 .. n /\ 0 \in 0 .. n /\ 0 \in 0 .. n - 1
      BY <1>0
    <3>2. CASE k = 0
      BY <2>1, <3>1, <3>2
    <3>3. CASE k # 0
      <4>1. k - 1 \in 0 .. n /\ k - 1 # n
        BY <1>0, <3>3
      <4>2. q[k - 1] = r[k - 1]
        BY <4>1
      <4>3. CASE k = n
        BY <3>3, <4>2, <4>3
      <4>4. CASE k # n
        <5>1. k \in 0 .. n - 1 /\ k # 0
          BY <1>0, <3>3, <4>4
        <5>2. r[k] = E(k, r[k - 1])
          BY <2>1, <5>1
        <5>3. q[k] = r[k]
          BY <4>4
        <5> QED BY <3>3, <4>2, <5>2, <5>3
      <4> QED BY <4>3, <4>4
    <3> QED BY <3>2, <3>3
  <2>3. q = [k \in 0 .. n |-> q[k]]
    OBVIOUS
  <2> HIDE DEF q
  <2>4. Good(n, q)
    BY <2>2, <2>3
  <2> HIDE DEF Good
  <2>5. \E r0 : Good(n, r0)
    BY <2>4
  <2>6. n \in 0 .. N
    BY <1>0
  <2> QED BY <2>5, <2>6
<1>3. N \in S
  <2> HIDE DEF S
  <2>1. 0 .. N \subseteq S
    BY <1>0, <1>1, <1>2, InductionUpTo
  <2> QED BY <1>0, <2>1
<1>4. Good(N, c)
  <2>1. \E r : Good(N, r)
    BY <1>3
  <2> HIDE DEF Good
  <2> QED BY <2>1
<1>5. Remnants(a, p) = c[N]
  BY DEF Remnants, N, E
<1> HIDE DEF c
<1>6. \A k \in 0 .. N : c[k] = IF k = 0 THEN p ELSE E(k, c[k - 1])
  BY <1>4, Zenon
<1>7. c[0] = p
  <2>1. 0 \in 0 .. N
    BY <1>0
  <2> QED BY <1>6, <2>1
<1>8. ASSUME NEW k \in 1 .. N
      PROVE  Extends(a, c[k - 1], Turn(a, p, k), c[k])
  <2>1. k \in 0 .. N /\ k # 0
    BY <1>0
  <2>2. c[k] = E(k, c[k - 1])
    BY <1>6, <2>1
  <2>3. CASE k \in DOMAIN a \ DOMAIN p
    <3>1. c[k] = Extend(a, c[k - 1], {k}) /\ Turn(a, p, k) = {k}
      BY <2>2, <2>3 DEF E, Turn
    <3> QED BY <3>1, ExtendExtends
  <2>4. CASE k \notin DOMAIN a \ DOMAIN p
    <3>1. c[k] = c[k - 1] /\ Turn(a, p, k) = {}
      BY <2>2, <2>4 DEF E, Turn
    <3> QED BY <3>1 DEF Extends
  <2> QED BY <2>3, <2>4
<1>9. InOrder(a, p, c)
  BY <1>7, <1>8 DEF InOrder, N
<1> QED BY <1>5, <1>9 DEF N

(* The rounds reach what the turns of the layering reach, so all that is   *)
(* on or above no cycle.                                                   *)
LEMMA RoundsReach ==
  ASSUME NEW a, IsFile(a), NEW r, Rounds(a, r)
  PROVE  /\ \A k \in 0 .. FunctionCount : Peeled(InFile(a), DOMAIN r[k])
         /\ DOMAIN r[FunctionCount] = DOMAIN a \ Cyclic(InFile(a))
<1> DEFINE g == InFile(a)
           N == FunctionCount
           V == Visited(g)
           T == Turns(g)
           S == {k \in 0 .. N : /\ k <= T => DOMAIN r[k] = V[k]
                                /\ k > T => DOMAIN r[k] = V[T]}
<1>1. IsGraph(g) /\ DOMAIN g = DOMAIN a /\ N \in Nat /\ Cardinality(DOMAIN g) \in Nat /\ Cardinality(DOMAIN g) <= N
  BY FileFacts
<1> HIDE DEF g, N
<1>2. /\ T \in 0 .. Cardinality(DOMAIN g) /\ NextQueue(g, V[T]) = {} /\ V[0] = {}
      /\ \A k \in 1 .. Cardinality(DOMAIN g) : V[k] = V[k - 1] \cup NextQueue(g, V[k - 1])
      /\ \A k \in 0 .. Cardinality(DOMAIN g) : Peeled(g, V[k])
  BY <1>1, TurnsFacts, VisitedFacts, VisitedPeeled
<1>3. T \in Nat /\ T <= N
  BY <1>1, <1>2
<1> HIDE DEF V, T
<1>4. DOMAIN r[0] = {} /\ \A k \in 1 .. N : DOMAIN r[k] = DOMAIN r[k - 1] \cup NextQueue(g, DOMAIN r[k - 1])
  BY DEF Rounds, Extends, g, N
<1>5. 0 .. N \subseteq S
  <2>1. 0 \in S
    <3>1. 0 \in 0 .. N /\ 0 <= T /\ ~(0 > T)
      BY <1>1, <1>3
    <3>2. DOMAIN r[0] = V[0]
      BY <1>2, <1>4
    <3> QED BY <3>1, <3>2
  <2>2. ASSUME NEW k \in 1 .. N, k - 1 \in S PROVE k \in S
    <3>0. k \in 0 .. N /\ k \in Nat
      BY <1>1
    <3>1. CASE k <= T
      <4>1. k \in 1 .. Cardinality(DOMAIN g) /\ k - 1 <= T
        BY <1>1, <1>2, <3>0, <3>1
      <4>2. DOMAIN r[k - 1] = V[k - 1]
        BY <2>2, <4>1
      <4>3. DOMAIN r[k] = V[k]
        BY <1>2, <1>4, <4>1, <4>2
      <4> QED BY <1>3, <3>0, <3>1, <4>3
    <3>2. CASE k > T
      <4>1. k - 1 = T \/ k - 1 > T
        BY <1>3, <3>0, <3>2
      <4>2. DOMAIN r[k - 1] = V[T]
        BY <1>3, <2>2, <4>1
      <4>3. DOMAIN r[k] = V[T]
        BY <1>2, <1>4, <4>2
      <4> QED BY <1>3, <3>0, <3>2, <4>3
    <3> QED BY <1>3, <3>0, <3>1, <3>2
  <2> HIDE DEF S
  <2> QED BY <1>1, <2>1, <2>2, InductionUpTo
<1>6. ASSUME NEW k \in 0 .. N PROVE Peeled(g, DOMAIN r[k])
  <2>1. k \in S /\ k \in Nat /\ T \in 0 .. Cardinality(DOMAIN g)
    BY <1>2, <1>5
  <2>2. CASE k <= T
    <3>1. k \in 0 .. Cardinality(DOMAIN g)
      BY <1>1, <2>1, <2>2
    <3> QED BY <1>2, <2>1, <2>2, <3>1
  <2>3. CASE k > T
    BY <1>2, <2>1, <2>3
  <2> QED BY <1>3, <2>1, <2>2, <2>3
<1>7. DOMAIN r[N] = V[T]
  <2>1. N \in S
    BY <1>1, <1>5
  <2> QED BY <1>1, <1>3, <2>1
<1>8. V[T] = DOMAIN g \ Cyclic(g)
  <2>1. Peeled(g, V[T]) /\ NextQueue(g, V[T]) = {}
    BY <1>2
  <2> QED BY <1>1, <2>1, TurnsEnd
<1> QED BY <1>1, <1>6, <1>7, <1>8 DEF g, N

(* A fingerprint that hashes those of all callees.                         *)
Hashed(a, u, x) == u[x] = <<a[x].shallow, {<<c, u[c]>> : c \in InFile(a)[x]}>>

LEMMA PeelHashes ==
  ASSUME NEW a, IsFile(a)
  PROVE  /\ DOMAIN Peel(a) = DOMAIN a \ Cyclic(InFile(a))
         /\ \A x \in DOMAIN Peel(a) : InFile(a)[x] \subseteq DOMAIN Peel(a) /\ Hashed(a, Peel(a), x)
<1> DEFINE N == FunctionCount
<1>1. PICK r : Rounds(a, r) /\ Peel(a) = r[N]
  BY PeelRounds
<1> DEFINE S == {k \in 0 .. N : \A x \in DOMAIN r[k] : Hashed(a, r[k], x)}
<1>2. N \in Nat
  BY FileFacts
<1>3. /\ \A k \in 0 .. N : Peeled(InFile(a), DOMAIN r[k])
      /\ DOMAIN r[N] = DOMAIN a \ Cyclic(InFile(a))
  BY <1>1, RoundsReach
<1> HIDE DEF N
<1>4. 0 \in S
  BY <1>1, <1>2 DEF Rounds
<1>5. ASSUME NEW k \in 1 .. N, k - 1 \in S PROVE k \in S
  <2> DEFINE u == r[k - 1]
             w == r[k]
             Q == NextQueue(InFile(a), DOMAIN u)
  <2>1. Extends(a, u, Q, w) /\ k - 1 \in 0 .. N /\ k \in 0 .. N
    BY <1>1, <1>2 DEF Rounds, N
  <2>2. Peeled(InFile(a), DOMAIN u) /\ \A x \in DOMAIN u : Hashed(a, u, x)
    BY <1>3, <1>5, <2>1
  <2>3. DOMAIN InFile(a) = DOMAIN a /\ \A x \in DOMAIN a : InFile(a)[x] = a[x].calls \cap DOMAIN a
    BY FileFacts
  <2> HIDE DEF u, w
  <2>4. /\ \A x \in Q : x \in DOMAIN a /\ x \notin DOMAIN u /\ InFile(a)[x] \subseteq DOMAIN u
        /\ \A x \in DOMAIN u : InFile(a)[x] \subseteq DOMAIN u
        /\ DOMAIN u \subseteq DOMAIN a
    BY <2>2, <2>3 DEF Peeled, NextQueue
  <2> HIDE DEF Q
  <2>5. \A c \in DOMAIN u : w[c] = u[c]
    BY <2>1, <2>4 DEF Extends
  <2>6. ASSUME NEW x \in DOMAIN u PROVE Hashed(a, w, x)
    <3>1. {<<c, u[c]>> : c \in InFile(a)[x]} = {<<c, w[c]>> : c \in InFile(a)[x]}
      BY <2>4, <2>5
    <3> QED BY <2>2, <2>5, <3>1 DEF Hashed
  <2>7. ASSUME NEW x \in Q PROVE Hashed(a, w, x)
    <3>1. a[x].calls \cap DOMAIN u = InFile(a)[x]
      BY <2>3, <2>4
    <3>2. w[x] = <<a[x].shallow, {<<c, u[c]>> : c \in InFile(a)[x]}>>
      BY <2>1, <3>1 DEF Extends, Deep
    <3>3. {<<c, u[c]>> : c \in InFile(a)[x]} = {<<c, w[c]>> : c \in InFile(a)[x]}
      BY <2>4, <2>5
    <3> QED BY <3>2, <3>3 DEF Hashed
  <2>8. DOMAIN w = DOMAIN u \cup Q
    BY <2>1 DEF Extends
  <2>9. \A x \in DOMAIN w : Hashed(a, w, x)
    BY <2>6, <2>7, <2>8
  <2> QED BY <2>1, <2>9 DEF w
<1>6. N \in S
  <2>1. 0 .. N \subseteq S
    <3> HIDE DEF S
    <3> QED BY <1>2, <1>4, <1>5, InductionUpTo
  <2> QED BY <1>2, <2>1
<1>7. N \in 0 .. N
  BY <1>2
<1> QED BY <1>1, <1>3, <1>6, <1>7 DEF Peeled

(* The remnants get theirs, every one of them, and change none.            *)
LEMMA RemnantsKeep ==
  ASSUME NEW a, IsFile(a), NEW p, DOMAIN p \subseteq DOMAIN a
  PROVE  /\ DOMAIN Remnants(a, p) = DOMAIN a
         /\ \A x \in DOMAIN p : Remnants(a, p)[x] = p[x]
<1> DEFINE N == FunctionCount
<1>1. PICK u : InOrder(a, p, u) /\ Remnants(a, p) = u[N]
  BY RemnantsInOrder
<1> DEFINE S == {k \in 0 .. N : /\ DOMAIN p \subseteq DOMAIN u[k] /\ DOMAIN u[k] \subseteq DOMAIN a
                                /\ \A x \in DOMAIN p : u[k][x] = p[x]
                                /\ \A x \in DOMAIN a : x <= k => x \in DOMAIN u[k]}
<1>2. N \in Nat /\ \A x \in DOMAIN a : x \in 1 .. N
  BY FileFacts DEF IsFile, Functions
<1>3. u[0] = p /\ \A k \in 1 .. N : Extends(a, u[k - 1], Turn(a, p, k), u[k])
  BY <1>1 DEF InOrder
<1> HIDE DEF N
<1>4. 0 \in S
  BY <1>2, <1>3
<1>5. ASSUME NEW k \in 1 .. N, k - 1 \in S PROVE k \in S
  <2> DEFINE v == u[k - 1]
             w == u[k]
  <2>1. Extends(a, v, Turn(a, p, k), w) /\ k \in 0 .. N
    BY <1>2, <1>3
  <2>2. /\ DOMAIN p \subseteq DOMAIN v /\ DOMAIN v \subseteq DOMAIN a
        /\ \A x \in DOMAIN p : v[x] = p[x]
        /\ \A x \in DOMAIN a : x <= k - 1 => x \in DOMAIN v
    BY <1>5
  <2> HIDE DEF v, w
  <2>3. DOMAIN w = DOMAIN v \cup Turn(a, p, k)
    BY <2>1 DEF Extends
  <2>4. DOMAIN p \subseteq DOMAIN w /\ DOMAIN w \subseteq DOMAIN a
    BY <2>2, <2>3 DEF Turn
  <2>5. ASSUME NEW x \in DOMAIN p PROVE w[x] = p[x]
    BY <2>1, <2>2 DEF Extends, Turn
  <2>6. ASSUME NEW x \in DOMAIN a, x <= k PROVE x \in DOMAIN w
    <3>1. x <= k - 1 \/ x = k
      BY <1>2, <2>6
    <3> QED BY <2>2, <2>3, <3>1 DEF Turn
  <2> QED BY <2>1, <2>4, <2>5, <2>6 DEF w
<1>6. N \in S
  <2>1. 0 .. N \subseteq S
    <3> HIDE DEF S
    <3> QED BY <1>2, <1>4, <1>5, InductionUpTo
  <2> QED BY <1>2, <2>1
<1>7. \A x \in DOMAIN a : x <= N
  BY <1>2
<1> QED BY <1>1, <1>6, <1>7

LEMMA FingerprintFacts ==
  ASSUME NEW a, IsFile(a)
  PROVE  /\ DOMAIN compute_deep_fingerprints(a) = DOMAIN a
         /\ \A x \in DOMAIN a \ Cyclic(InFile(a)) :
              /\ InFile(a)[x] \subseteq DOMAIN a \ Cyclic(InFile(a))
              /\ Hashed(a, compute_deep_fingerprints(a), x)
<1> DEFINE p == Peel(a)
           F == compute_deep_fingerprints(a)
<1>1. /\ DOMAIN p = DOMAIN a \ Cyclic(InFile(a))
      /\ \A x \in DOMAIN p : InFile(a)[x] \subseteq DOMAIN p /\ Hashed(a, p, x)
  BY PeelHashes
<1>2. F = Remnants(a, p)
  BY DEF compute_deep_fingerprints
<1> HIDE DEF p, F
<1>3. DOMAIN p \subseteq DOMAIN a
  BY <1>1
<1>4. DOMAIN F = DOMAIN a /\ \A x \in DOMAIN p : F[x] = p[x]
  BY <1>2, <1>3, RemnantsKeep
<1>5. ASSUME NEW x \in DOMAIN p PROVE Hashed(a, F, x)
  <2>1. {<<c, p[c]>> : c \in InFile(a)[x]} = {<<c, F[c]>> : c \in InFile(a)[x]}
    BY <1>1, <1>4
  <2> QED BY <1>1, <1>4, <2>1 DEF Hashed
<1> QED BY <1>1, <1>4, <1>5 DEF F

-----------------------------------------------------------------------------
(* Equal fingerprints mean equal sources, away from cycles.                *)

LEMMA BelowUnfold ==
  ASSUME NEW g, IsGraph(g), NEW f \in DOMAIN g
  PROVE  Below(g, f) = UNION {{c} \cup Below(g, c) : c \in g[f]}
<1> DEFINE S == UNION {{c} \cup Below(g, c) : c \in g[f]}
<1>0. g[f] \subseteq DOMAIN g
  BY DEF IsGraph
<1>1. S \subseteq Below(g, f)
  <2> SUFFICES ASSUME NEW c \in g[f] PROVE {c} \cup Below(g, c) \subseteq Below(g, f)
    OBVIOUS
  <2>1. c \in Below(g, f)
    BY BelowFacts
  <2> QED BY <2>1, BelowTransitive
<1>2. S \in SUBSET DOMAIN g
  BY <1>1, BelowFacts
<1>3. g[f] \subseteq S
  OBVIOUS
<1>4. ASSUME NEW x \in S PROVE g[x] \subseteq S
  <2>1. PICK c \in g[f] : x \in {c} \cup Below(g, c)
    BY <1>4
  <2>2. g[x] \subseteq Below(g, c)
    BY <1>0, <2>1, BelowFacts
  <2> QED BY <2>2
<1>5. Below(g, f) \subseteq S
  <2> HIDE DEF S
  <2> QED BY <1>2, <1>3, <1>4, BelowFacts
<1> QED BY <1>1, <1>5

LEMMA SeenFacts ==
  ASSUME NEW a, NEW b, NEW f
  PROVE  SeenIn(a, f) = SeenIn(b, f) <=>
           /\ {f} \cup Below(InFile(a), f) = {f} \cup Below(InFile(b), f)
           /\ \A x \in {f} \cup Below(InFile(a), f) : a[x].shallow = b[x].shallow
<1> DEFINE A == {f} \cup Below(InFile(a), f)
           B == {f} \cup Below(InFile(b), f)
<1>1. SeenIn(a, f) = [x \in A |-> a[x].shallow] /\ SeenIn(b, f) = [x \in B |-> b[x].shallow]
  BY DEF SeenIn
<1> HIDE DEF A, B
<1>2. SeenIn(a, f) = SeenIn(b, f) => A = B /\ \A x \in A : a[x].shallow = b[x].shallow
  <2> SUFFICES ASSUME SeenIn(a, f) = SeenIn(b, f)
               PROVE  A = B /\ \A x \in A : a[x].shallow = b[x].shallow
    OBVIOUS
  <2>1. DOMAIN SeenIn(a, f) = A /\ DOMAIN SeenIn(b, f) = B
    BY <1>1
  <2>2. A = B
    BY <2>1
  <2>3. ASSUME NEW x \in A PROVE a[x].shallow = b[x].shallow
    <3>1. SeenIn(a, f)[x] = a[x].shallow /\ SeenIn(b, f)[x] = b[x].shallow
      BY <1>1, <2>2
    <3> QED BY <3>1
  <2> QED BY <2>2, <2>3
<1>3. A = B /\ (\A x \in A : a[x].shallow = b[x].shallow) => SeenIn(a, f) = SeenIn(b, f)
  BY <1>1
<1> QED BY <1>2, <1>3 DEF A, B

Collide(s, A, u, t, B, w) ==
  <<s, {<<c, u[c]>> : c \in A}>> = <<t, {<<c, w[c]>> : c \in B}>>

LEMMA EqualHashes ==
  ASSUME NEW s, NEW A, NEW u, NEW t, NEW B, NEW w, Collide(s, A, u, t, B, w)
  PROVE  s = t /\ A = B /\ \A c \in A : u[c] = w[c]
<1> DEFINE X == {<<c, u[c]>> : c \in A}
           Y == {<<c, w[c]>> : c \in B}
<1>1. s = t /\ X = Y
  <2>1. <<s, X>> = <<t, Y>>
    BY DEF Collide
  <2> HIDE DEF X, Y
  <2> QED BY <2>1
<1>2. ASSUME NEW c \in A PROVE c \in B /\ u[c] = w[c]
  <2>1. <<c, u[c]>> \in Y
    BY <1>1
  <2>2. PICK d \in B : <<c, u[c]>> = <<d, w[d]>>
    BY <2>1
  <2> QED BY <2>2
<1>3. ASSUME NEW c \in B PROVE c \in A
  <2>1. <<c, w[c]>> \in X
    BY <1>1
  <2>2. PICK d \in A : <<c, w[c]>> = <<d, u[d]>>
    BY <2>1
  <2> QED BY <2>2
<1> QED BY <1>1, <1>2, <1>3

Calm(a) == DOMAIN a \ Cyclic(InFile(a))

LEMMA FingerprintsTell ==
  ASSUME NEW a, IsFile(a), NEW b, IsFile(b), NEW f \in Calm(a), f \in Calm(b),
         compute_deep_fingerprints(a)[f] = compute_deep_fingerprints(b)[f]
  PROVE  SeenIn(a, f) = SeenIn(b, f)
<1> DEFINE A == InFile(a)
           B == InFile(b)
           F == compute_deep_fingerprints(a)
           G == compute_deep_fingerprints(b)
           D == {x \in Calm(a) \cap Calm(b) : F[x] = G[x] /\ SeenIn(a, x) # SeenIn(b, x)}
<1> SUFFICES ASSUME D # {} PROVE FALSE
  OBVIOUS
<1>1. IsGraph(A) /\ IsGraph(B) /\ DOMAIN A = DOMAIN a /\ DOMAIN B = DOMAIN b
  BY FileFacts
<1>2. \A x \in Calm(a) : A[x] \subseteq Calm(a) /\ Hashed(a, F, x)
  BY FingerprintFacts DEF Calm
<1>3. \A x \in Calm(b) : B[x] \subseteq Calm(b) /\ Hashed(b, G, x)
  BY FingerprintFacts DEF Calm
<1>4. Calm(a) = DOMAIN A \ Cyclic(A) /\ Calm(b) = DOMAIN B \ Cyclic(B)
  BY <1>1 DEF Calm
<1>5. PICK h \in D : Below(A, h) \cap D = {}
  <2>1. D \subseteq DOMAIN A \ Cyclic(A)
    BY <1>4
  <2> HIDE DEF D, A
  <2> QED BY <1>1, <2>1, Lowest
<1>6. h \in Calm(a) /\ h \in Calm(b) /\ F[h] = G[h] /\ SeenIn(a, h) # SeenIn(b, h)
  OBVIOUS
<1>7. a[h].shallow = b[h].shallow /\ A[h] = B[h] /\ \A c \in A[h] : F[c] = G[c]
  <2>1. Collide(a[h].shallow, A[h], F, b[h].shallow, B[h], G)
    BY <1>2, <1>3, <1>6 DEF Hashed, Collide
  <2> HIDE DEF A, B, F, G
  <2> QED BY <2>1, EqualHashes
<1>8. ASSUME NEW c \in A[h]
      PROVE  /\ {c} \cup Below(A, c) = {c} \cup Below(B, c)
             /\ \A x \in {c} \cup Below(A, c) : a[x].shallow = b[x].shallow
  <2>1. c \in Calm(a) /\ c \in Calm(b) /\ F[c] = G[c]
    BY <1>2, <1>3, <1>6, <1>7
  <2>2. c \in Below(A, h)
    <3>1. h \in DOMAIN A
      BY <1>4, <1>6
    <3> HIDE DEF A, D
    <3> QED BY <1>1, <3>1, BelowFacts
  <2>3. SeenIn(a, c) = SeenIn(b, c)
    BY <1>5, <2>1, <2>2
  <2> QED BY <2>3, SeenFacts
<1> HIDE DEF A, B, D
<1>9. h \in DOMAIN A /\ h \in DOMAIN B
  BY <1>4, <1>6
<1>10. Below(A, h) = UNION {{c} \cup Below(A, c) : c \in A[h]}
  BY <1>1, <1>9, BelowUnfold
<1>11. Below(B, h) = UNION {{c} \cup Below(B, c) : c \in A[h]}
  BY <1>1, <1>7, <1>9, BelowUnfold
<1>12. Below(A, h) = Below(B, h)
  BY <1>8, <1>10, <1>11
<1>13. \A x \in {h} \cup Below(A, h) : a[x].shallow = b[x].shallow
  BY <1>7, <1>8, <1>10
<1>14. SeenIn(a, h) = SeenIn(b, h)
  BY <1>12, <1>13, SeenFacts DEF A, B
<1> QED BY <1>6, <1>14

-----------------------------------------------------------------------------
(* Fingerprints depend on no more than what is called.                     *)

(* Two files that agree on D and on the calls of D, which stay in D.       *)
Agree(a, b, D) ==
  /\ IsFile(a) /\ IsFile(b) /\ D \subseteq DOMAIN a /\ D \subseteq DOMAIN b
  /\ \A x \in D : /\ a[x].shallow = b[x].shallow
                  /\ InFile(a)[x] = InFile(b)[x] /\ InFile(a)[x] \subseteq D

(* Fingerprints of the two files that agree on D.                          *)
Same(a, b, D, u, v) ==
  /\ DOMAIN u \subseteq DOMAIN a /\ DOMAIN v \subseteq DOMAIN b
  /\ \A x \in D : /\ x \in DOMAIN u <=> x \in DOMAIN v
                  /\ x \in DOMAIN u => u[x] = v[x]

(* Both are extended, on D by the same functions.                          *)
Alike(a, b, D, u, v, S, T, w, z) ==
  /\ Extends(a, u, S, w) /\ Extends(b, v, T, z)
  /\ S \subseteq DOMAIN a /\ T \subseteq DOMAIN b /\ \A x \in D : x \in S <=> x \in T

LEMMA AlikeSame ==
  ASSUME NEW a, NEW b, NEW D, NEW u, NEW v, NEW S, NEW T, NEW w, NEW z,
         Agree(a, b, D), Same(a, b, D, u, v), Alike(a, b, D, u, v, S, T, w, z)
  PROVE  Same(a, b, D, w, z)
<1>1. /\ DOMAIN w = DOMAIN u \cup S /\ DOMAIN z = DOMAIN v \cup T
      /\ \A x \in S : w[x] = Deep(a, x, u)
      /\ \A x \in T : z[x] = Deep(b, x, v)
      /\ \A x \in DOMAIN u \ S : w[x] = u[x]
      /\ \A x \in DOMAIN v \ T : z[x] = v[x]
  BY DEF Alike, Extends
<1>2. DOMAIN w \subseteq DOMAIN a /\ DOMAIN z \subseteq DOMAIN b
  BY <1>1 DEF Same, Alike
<1>3. ASSUME NEW x \in D PROVE (x \in DOMAIN w <=> x \in DOMAIN z) /\ (x \in DOMAIN w => w[x] = z[x])
  <2>1. x \in DOMAIN w <=> x \in DOMAIN z
    BY <1>1 DEF Same, Alike
  <2>2. CASE x \in S
    <3>1. x \in T /\ w[x] = Deep(a, x, u) /\ z[x] = Deep(b, x, v)
      BY <1>1, <2>2 DEF Alike
    <3>2. InFile(a)[x] = a[x].calls \cap DOMAIN a /\ InFile(b)[x] = b[x].calls \cap DOMAIN b
      BY DEF Agree, InFile
    <3>3. /\ a[x].calls \cap DOMAIN u = InFile(a)[x] \cap DOMAIN u
          /\ b[x].calls \cap DOMAIN v = InFile(a)[x] \cap DOMAIN v
          /\ InFile(a)[x] \subseteq D /\ a[x].shallow = b[x].shallow
      BY <3>2 DEF Agree, Same
    <3> DEFINE A == a[x].calls \cap DOMAIN u
               B == b[x].calls \cap DOMAIN v
    <3>4. A = B /\ \A c \in A : u[c] = v[c]
      BY <3>3 DEF Same
    <3>5. Deep(a, x, u) = <<a[x].shallow, {<<c, u[c]>> : c \in A}>>
      BY DEF Deep
    <3>6. Deep(b, x, v) = <<b[x].shallow, {<<c, v[c]>> : c \in B}>>
      BY DEF Deep
    <3> HIDE DEF A, B
    <3>7. {<<c, u[c]>> : c \in A} = {<<c, v[c]>> : c \in B}
      BY <3>4
    <3>8. w[x] = z[x]
      BY <3>1, <3>3, <3>5, <3>6, <3>7
    <3> QED BY <2>1, <3>8
  <2>3. CASE x \notin S
    <3>1. x \notin T
      BY <2>3 DEF Alike
    <3>2. x \in DOMAIN w => x \in DOMAIN u /\ x \in DOMAIN v /\ w[x] = u[x] /\ z[x] = v[x]
      BY <1>1, <2>1, <2>3, <3>1
    <3> QED BY <2>1, <3>2 DEF Same
  <2> QED BY <2>2, <2>3
<1> QED BY <1>2, <1>3 DEF Same

LEMMA PeelSame ==
  ASSUME NEW a, NEW b, NEW D, Agree(a, b, D)
  PROVE  Same(a, b, D, Peel(a), Peel(b))
<1> DEFINE N == FunctionCount
<1>1. PICK r : Rounds(a, r) /\ Peel(a) = r[N]
  BY PeelRounds
<1>2. PICK q : Rounds(b, q) /\ Peel(b) = q[N]
  BY PeelRounds
<1> DEFINE S == {k \in 0 .. N : Same(a, b, D, r[k], q[k])}
<1>3. N \in Nat
  BY SpecAssumption
<1>4. 0 \in S
  BY <1>1, <1>2, <1>3 DEF Rounds, Same
<1>5. ASSUME NEW k \in 1 .. N, k - 1 \in S PROVE k \in S
  <2> DEFINE u == r[k - 1]
             v == q[k - 1]
             Q == NextQueue(InFile(a), DOMAIN u)
             P == NextQueue(InFile(b), DOMAIN v)
  <2>1. Same(a, b, D, u, v)
    BY <1>5
  <2>2. Extends(a, u, Q, r[k]) /\ Extends(b, v, P, q[k])
    BY <1>1, <1>2 DEF Rounds
  <2> HIDE DEF u, v
  <2>3. DOMAIN InFile(a) = DOMAIN a /\ DOMAIN InFile(b) = DOMAIN b
    BY DEF InFile
  <2>4. Q \subseteq DOMAIN a /\ P \subseteq DOMAIN b
    BY <2>3 DEF NextQueue
  <2>5. ASSUME NEW x \in D PROVE x \in Q <=> x \in P
    <3>1. x \in DOMAIN a /\ x \in DOMAIN b /\ (x \in DOMAIN u <=> x \in DOMAIN v)
      BY <2>1 DEF Agree, Same
    <3>2. InFile(a)[x] \subseteq DOMAIN u <=> InFile(b)[x] \subseteq DOMAIN v
      BY <2>1 DEF Agree, Same
    <3> QED BY <2>3, <3>1, <3>2 DEF NextQueue
  <2> HIDE DEF Q, P
  <2>6. Alike(a, b, D, u, v, Q, P, r[k], q[k])
    BY <2>2, <2>4, <2>5 DEF Alike
  <2>7. Same(a, b, D, r[k], q[k])
    BY <2>1, <2>6, AlikeSame
  <2>8. k \in 0 .. N
    BY <1>3
  <2> QED BY <2>7, <2>8
<1>6. N \in S
  <2>1. 0 .. N \subseteq S
    <3> HIDE DEF S, N
    <3> QED BY <1>3, <1>4, <1>5, InductionUpTo
  <2> QED BY <1>3, <2>1
<1> QED BY <1>1, <1>2, <1>6

LEMMA RemnantsSame ==
  ASSUME NEW a, NEW b, NEW D, NEW p, NEW m, Agree(a, b, D), Same(a, b, D, p, m)
  PROVE  Same(a, b, D, Remnants(a, p), Remnants(b, m))
<1> DEFINE N == FunctionCount
<1>1. PICK r : InOrder(a, p, r) /\ Remnants(a, p) = r[N]
  BY RemnantsInOrder
<1>2. PICK q : InOrder(b, m, q) /\ Remnants(b, m) = q[N]
  BY RemnantsInOrder
<1> DEFINE S == {k \in 0 .. N : Same(a, b, D, r[k], q[k])}
<1>3. N \in Nat
  BY SpecAssumption
<1>4. 0 \in S
  BY <1>1, <1>2, <1>3 DEF InOrder
<1>5. ASSUME NEW k \in 1 .. N, k - 1 \in S PROVE k \in S
  <2> DEFINE u == r[k - 1]
             v == q[k - 1]
             Q == Turn(a, p, k)
             P == Turn(b, m, k)
  <2>1. Same(a, b, D, u, v)
    BY <1>5
  <2>2. Extends(a, u, Q, r[k]) /\ Extends(b, v, P, q[k])
    BY <1>1, <1>2 DEF InOrder
  <2> HIDE DEF u, v
  <2>3. Q \subseteq DOMAIN a /\ P \subseteq DOMAIN b /\ \A x \in D : x \in Q <=> x \in P
    BY DEF Turn, Agree, Same
  <2> HIDE DEF Q, P
  <2>4. Alike(a, b, D, u, v, Q, P, r[k], q[k])
    BY <2>2, <2>3 DEF Alike
  <2>5. Same(a, b, D, r[k], q[k])
    BY <2>1, <2>4, AlikeSame
  <2>6. k \in 0 .. N
    BY <1>3
  <2> QED BY <2>5, <2>6
<1>6. N \in S
  <2>1. 0 .. N \subseteq S
    <3> HIDE DEF S, N
    <3> QED BY <1>3, <1>4, <1>5, InductionUpTo
  <2> QED BY <1>3, <2>1
<1> QED BY <1>1, <1>2, <1>6

LEMMA FingerprintsLocal ==
  ASSUME NEW a, IsFile(a), NEW b, IsFile(b), NEW f \in DOMAIN a, f \in DOMAIN b,
         SeenIn(a, f) = SeenIn(b, f),
         \A x \in DOMAIN a \cap DOMAIN b : a[x].shallow = b[x].shallow => a[x].calls = b[x].calls
  PROVE  compute_deep_fingerprints(a)[f] = compute_deep_fingerprints(b)[f]
<1> DEFINE A == InFile(a)
           B == InFile(b)
           D == {f} \cup Below(A, f)
<1>1. /\ IsGraph(A) /\ DOMAIN A = DOMAIN a /\ \A x \in DOMAIN a : A[x] = a[x].calls \cap DOMAIN a
      /\ IsGraph(B) /\ DOMAIN B = DOMAIN b /\ \A x \in DOMAIN b : B[x] = b[x].calls \cap DOMAIN b
  BY FileFacts
<1>2. D = {f} \cup Below(B, f) /\ \A x \in D : a[x].shallow = b[x].shallow
  BY SeenFacts
<1> HIDE DEF A, B
<1>3. Below(A, f) \subseteq DOMAIN A /\ A[f] \subseteq Below(A, f) /\ \A x \in Below(A, f) : A[x] \subseteq Below(A, f)
  BY <1>1, BelowFacts
<1>4. Below(B, f) \subseteq DOMAIN B /\ B[f] \subseteq Below(B, f) /\ \A x \in Below(B, f) : B[x] \subseteq Below(B, f)
  BY <1>1, BelowFacts
<1>5. D \subseteq DOMAIN a /\ D \subseteq DOMAIN b
  BY <1>1, <1>2, <1>3, <1>4
<1>6. ASSUME NEW x \in D PROVE A[x] \subseteq D /\ B[x] \subseteq D /\ a[x].calls = b[x].calls
  BY <1>2, <1>3, <1>4, <1>5
<1>7. ASSUME NEW x \in D PROVE A[x] = B[x]
  BY <1>1, <1>5, <1>6
<1> HIDE DEF D
<1>8. Agree(a, b, D)
  BY <1>2, <1>5, <1>6, <1>7 DEF Agree, A, B
<1>9. Same(a, b, D, compute_deep_fingerprints(a), compute_deep_fingerprints(b))
  BY <1>8, PeelSame, RemnantsSame DEF compute_deep_fingerprints
<1>10. f \in DOMAIN compute_deep_fingerprints(a)
  BY FingerprintFacts
<1> QED BY <1>9, <1>10 DEF Same, D

-----------------------------------------------------------------------------
(* The invariant: where a specification made by a run over the file comes  *)
(* from.                                                                   *)

(* The specification s of f is from a run over the file a.                 *)
MadeFrom(s, f, a) ==
  /\ IsFile(a) /\ f \in DOMAIN a
  /\ s.fp = compute_deep_fingerprints(a)[f] /\ s.seen = SeenIn(a, f)
  /\ s.cyclic = (f \in Cyclic(InFile(a)))

(* Of the versions of that file, those of today have today's calls.        *)
Past(a) ==
  \A x \in DOMAIN a : /\ a[x].shallow[1] \in Int /\ a[x].shallow[1] <= edits
                      /\ x \in present /\ source[x] = a[x].shallow[1] => calls[x] = a[x].calls

(* A version is new when it is written.                                    *)
VersionsInv ==
  /\ present \subseteq Functions
  /\ source \in [Functions -> 0 .. MaxEdits] /\ calls \in [Functions -> SUBSET Functions]
  /\ height \in [Functions -> {1, 2}]
  /\ edits \in 0 .. MaxEdits
  /\ \A f \in Functions : source[f] <= edits

SpecsInv ==
  \A f \in Functions :
    \/ spec[f] = NoSpec
    \/ /\ spec[f].whole \in BOOLEAN /\ spec[f].cyclic \in BOOLEAN
       /\ f \in DOMAIN spec[f].seen
       /\ spec[f].whole => \E a : MadeFrom(spec[f], f, a) /\ Past(a)

BundleInv == VersionsInv /\ SpecsInv

LEMMA BundleInit == ASSUME Init PROVE BundleInv
<1>1. \A f \in Functions : spec[f] = NoSpec
  BY DEF Init
<1>2. VersionsInv
  BY SpecAssumption DEF Init, VersionsInv
<1> QED BY <1>1, <1>2 DEF BundleInv, SpecsInv

(* The analyses of today.                                                  *)
LEMMA TodaysFile ==
  ASSUME VersionsInv
  PROVE  /\ IsFile(Analyses(present)) /\ DOMAIN Analyses(present) = present
         /\ \A x \in present : /\ Analyses(present)[x].shallow = Shallow(x)
                               /\ Analyses(present)[x].calls = calls[x]
         /\ Past(Analyses(present))
<1>1. /\ DOMAIN Analyses(present) = present
      /\ \A x \in present : /\ Analyses(present)[x].shallow = Shallow(x)
                            /\ Analyses(present)[x].calls = calls[x]
  BY DEF Analyses
<1>4. \A x \in present : Shallow(x)[1] = source[x]
  BY DEF Shallow
<1>2. IsFile(Analyses(present))
  BY <1>1 DEF IsFile, VersionsInv
<1>3. \A x \in present : source[x] \in Int /\ source[x] <= edits
  BY DEF VersionsInv
<1> QED BY <1>1, <1>2, <1>3, <1>4 DEF Past

LEMMA ExploredFacts ==
  ASSUME NEW T, NEW f, NEW fps
  PROVE  /\ Explored(T, f, fps) # NoSpec /\ Explored(T, f, fps).seen = Seen(f)
         /\ Explored(T, f, fps).fp = fps[f]
         /\ Explored(T, f, fps).whole = (T = present)
         /\ Explored(T, f, fps).cyclic = (f \in Cyclic(Graph))
         /\ f \in DOMAIN Seen(f)
<1>1. f \in DOMAIN Seen(f)
  BY DEF Seen, SeenIn
<1>2. NoSpec.seen = <<>>
  BY DEF NoSpec
<1>3. /\ Explored(T, f, fps).seen = Seen(f) /\ Explored(T, f, fps).fp = fps[f]
      /\ Explored(T, f, fps).whole = (T = present)
      /\ Explored(T, f, fps).cyclic = (f \in Cyclic(Graph))
  BY DEF Explored
<1> QED BY <1>1, <1>2, <1>3

(* A run keeps the specification of a function, makes a new one, or drops  *)
(* it, and that only if it was about another function.                     *)
LEMMA RunMakes ==
  ASSUME NEW T, Run(T), NEW f \in Functions
  PROVE  \/ spec'[f] = spec[f]
         \/ f \in T /\ spec'[f] = Explored(T, f, compute_deep_fingerprints(Analyses(T)))
         \/ f \notin T /\ spec'[f] = NoSpec
<1> DEFINE fps == compute_deep_fingerprints(Analyses(T))
<1>1. PICK failed \in SUBSET (T \ Fresh(fps)) : spec' = Merged(T, (T \ Fresh(fps)) \ failed, fps)
  BY DEF Run
<1> DEFINE explored == (T \ Fresh(fps)) \ failed
<1>2. explored \subseteq T
  OBVIOUS
<1> HIDE DEF fps, explored
<1>3. spec'[f] = IF f \in explored THEN Explored(T, f, fps)
                 ELSE IF f \in T THEN spec[f] ELSE NoSpec
  BY <1>1 DEF Merged, explored
<1> QED BY <1>2, <1>3 DEF fps

LEMMA RunKeeps ==
  ASSUME BundleInv, NEW T, Run(T)
  PROVE  BundleInv'
<1> USE DEF BundleInv
<1>1. UNCHANGED <<present, source, calls, height, edits>>
  BY DEF Run, file
<1>2. VersionsInv'
  BY <1>1 DEF VersionsInv
<1>0. PICK now : now = Analyses(present)
  OBVIOUS
<1>3. IsFile(now) /\ DOMAIN now = present /\ Past(now)
  BY <1>0, TodaysFile
<1>4. ASSUME NEW a, Past(a) PROVE Past(a)'
  BY <1>1, <1>4 DEF Past
<1>5. ASSUME NEW f \in Functions
      PROVE  \/ spec'[f] = NoSpec
             \/ /\ spec'[f].whole \in BOOLEAN /\ spec'[f].cyclic \in BOOLEAN
                /\ f \in DOMAIN spec'[f].seen
                /\ spec'[f].whole => \E a : MadeFrom(spec'[f], f, a) /\ Past(a)'
  <2>1. CASE spec'[f] = spec[f]
    <3>1. CASE spec[f] = NoSpec
      BY <2>1, <3>1
    <3>2. CASE spec[f] # NoSpec
      BY <1>4, <2>1, <3>2 DEF SpecsInv
    <3> QED BY <3>1, <3>2
  <2>2. CASE f \in T /\ spec'[f] = Explored(T, f, compute_deep_fingerprints(Analyses(T)))
    <3> DEFINE s == Explored(T, f, compute_deep_fingerprints(Analyses(T)))
    <3>1. /\ s.seen = Seen(f) /\ s.fp = compute_deep_fingerprints(Analyses(T))[f]
          /\ s.whole = (T = present) /\ s.cyclic = (f \in Cyclic(Graph)) /\ f \in DOMAIN Seen(f)
      BY ExploredFacts
    <3> HIDE DEF s
    <3>2. ASSUME s.whole PROVE MadeFrom(s, f, now) /\ Past(now)'
      <4>1. T = present
        BY <3>1, <3>2
      <4>2. s.fp = compute_deep_fingerprints(now)[f] /\ f \in DOMAIN now
        BY <1>0, <1>3, <2>2, <3>1, <4>1
      <4>3. s.seen = SeenIn(now, f) /\ s.cyclic = (f \in Cyclic(InFile(now)))
        BY <1>0, <3>1 DEF Seen, Graph
      <4>4. MadeFrom(s, f, now)
        BY <1>3, <4>2, <4>3 DEF MadeFrom
      <4>5. Past(now)'
        BY <1>3, <1>4
      <4> QED BY <4>4, <4>5
    <3>3. s.whole => \E a : MadeFrom(s, f, a) /\ Past(a)'
      BY <3>2
    <3>4. s.whole \in BOOLEAN /\ s.cyclic \in BOOLEAN /\ f \in DOMAIN s.seen /\ spec'[f] = s
      BY <2>2, <3>1 DEF s
    <3> QED BY <3>3, <3>4
  <2>3. CASE spec'[f] = NoSpec
    BY <2>3
  <2> QED BY <2>1, <2>2, <2>3, RunMakes
<1>6. SpecsInv'
  BY <1>5 DEF SpecsInv
<1> QED BY <1>2, <1>6

LEMMA WriteKeeps ==
  ASSUME BundleInv, NEW f \in Functions, NEW callees \in SUBSET Functions, Write(f, callees)
  PROVE  BundleInv'
<1> USE DEF BundleInv
<1>1. /\ edits \in Int /\ edits < MaxEdits /\ edits' = edits + 1 /\ present' = present \cup {f}
      /\ source' = [source EXCEPT ![f] = edits + 1] /\ calls' = [calls EXCEPT ![f] = callees]
      /\ spec' = spec /\ height' \in [Functions -> {1, 2}]
  BY DEF Write, VersionsInv
<1>2. VersionsInv'
  BY <1>1, SpecAssumption DEF VersionsInv
<1>3. ASSUME NEW a, IsFile(a), Past(a) PROVE Past(a)'
  <2> SUFFICES ASSUME NEW x \in DOMAIN a
               PROVE  /\ a[x].shallow[1] \in Int /\ a[x].shallow[1] <= edits'
                      /\ x \in present' /\ source'[x] = a[x].shallow[1] => calls'[x] = a[x].calls
    BY DEF Past
  <2>1. /\ x \in Functions /\ a[x].shallow[1] \in Int /\ a[x].shallow[1] <= edits
        /\ x \in present /\ source[x] = a[x].shallow[1] => calls[x] = a[x].calls
    BY <1>3 DEF Past, IsFile
  <2>2. CASE x = f
    <3>1. source'[x] = edits + 1
      BY <1>1, <2>1, <2>2 DEF VersionsInv
    <3> QED BY <1>1, <2>1, <3>1
  <2>3. CASE x # f
    <3>1. source'[x] = source[x] /\ calls'[x] = calls[x] /\ (x \in present' => x \in present)
      BY <1>1, <2>1, <2>3 DEF VersionsInv
    <3> QED BY <1>1, <2>1, <3>1
  <2> QED BY <2>2, <2>3
<1>4. SpecsInv'
  BY <1>1, <1>3 DEF SpecsInv, MadeFrom
<1> QED BY <1>2, <1>4

LEMMA DeleteKeeps ==
  ASSUME BundleInv, NEW f \in Functions, Delete(f)
  PROVE  BundleInv'
<1> USE DEF BundleInv
<1>1. /\ edits \in Int /\ edits < MaxEdits /\ edits' = edits + 1 /\ present' = present \ {f}
      /\ calls' = [calls EXCEPT ![f] = {}] /\ source' = source /\ spec' = spec
      /\ height' \in [Functions -> {1, 2}]
  BY DEF Delete, VersionsInv
<1>2. VersionsInv'
  BY <1>1, SpecAssumption DEF VersionsInv
<1>3. ASSUME NEW a, IsFile(a), Past(a) PROVE Past(a)'
  <2> SUFFICES ASSUME NEW x \in DOMAIN a
               PROVE  /\ a[x].shallow[1] \in Int /\ a[x].shallow[1] <= edits'
                      /\ x \in present' /\ source'[x] = a[x].shallow[1] => calls'[x] = a[x].calls
    BY DEF Past
  <2>1. /\ x \in Functions /\ a[x].shallow[1] \in Int /\ a[x].shallow[1] <= edits
        /\ x \in present /\ source[x] = a[x].shallow[1] => calls[x] = a[x].calls
    BY <1>3 DEF Past, IsFile
  <2>2. x # f => calls'[x] = calls[x]
    BY <1>1, <2>1 DEF VersionsInv
  <2> QED BY <1>1, <2>1, <2>2
<1>4. SpecsInv'
  BY <1>1, <1>3 DEF SpecsInv, MadeFrom
<1> QED BY <1>2, <1>4

LEMMA SpaceKeeps ==
  ASSUME BundleInv, NEW f \in Functions, Space(f)
  PROVE  BundleInv'
<1> USE DEF BundleInv
<1>1. /\ edits \in Int /\ edits < MaxEdits /\ edits' = edits + 1
      /\ UNCHANGED <<present, source, calls, spec>> /\ height' \in [Functions -> {1, 2}]
  BY DEF Space, VersionsInv
<1>2. VersionsInv'
  BY <1>1, SpecAssumption DEF VersionsInv
<1>3. ASSUME NEW a, Past(a) PROVE Past(a)'
  BY <1>1, <1>3 DEF Past
<1>4. SpecsInv'
  BY <1>1, <1>3 DEF SpecsInv
<1> QED BY <1>2, <1>4

LEMMA BundleNext == ASSUME BundleInv, [Next]_vars PROVE BundleInv'
<1>1. CASE RunFile
  BY <1>1, RunKeeps DEF RunFile
<1>2. CASE RunFunction
  BY <1>2, RunKeeps DEF RunFunction
<1>3. CASE Discard
  <2>1. UNCHANGED <<present, source, calls, height, edits>> /\ \A f \in Functions : spec'[f] = NoSpec
    BY <1>3 DEF Discard, file
  <2>2. VersionsInv'
    BY <2>1 DEF BundleInv, VersionsInv
  <2> QED BY <2>1, <2>2 DEF BundleInv, SpecsInv, NoSpec
<1>4. CASE \E f \in Functions, callees \in SUBSET Functions : Write(f, callees)
  BY <1>4, WriteKeeps
<1>5. CASE \E f \in Functions : Delete(f) \/ Space(f)
  BY <1>5, DeleteKeeps, SpaceKeeps
<1>6. CASE UNCHANGED vars
  <2>1. UNCHANGED <<present, source, calls, height, edits, spec>>
    BY <1>6 DEF vars, file
  <2>2. VersionsInv'
    BY <2>1 DEF BundleInv, VersionsInv
  <2>3. ASSUME NEW a, Past(a) PROVE Past(a)'
    BY <2>1, <2>3 DEF Past
  <2>4. SpecsInv'
    BY <2>1, <2>3 DEF BundleInv, SpecsInv
  <2> QED BY <2>2, <2>4 DEF BundleInv
<1> QED BY <1>1, <1>2, <1>3, <1>4, <1>5, <1>6 DEF Next

LEMMA BundleInvariant == Spec => []BundleInv
<1>1. Init => BundleInv
  BY BundleInit
<1>2. BundleInv /\ [Next]_vars => BundleInv'
  BY BundleNext
<1> QED BY <1>1, <1>2, PTL DEF Spec

-----------------------------------------------------------------------------
(* The variables keep their types, and a specification is never without    *)
(* the source of its function.                                             *)
THEOREM TypeCorrect == Spec => []TypeOK
<1>1. BundleInv => TypeOK
  BY DEF BundleInv, VersionsInv, SpecsInv, TypeOK
<1> QED BY <1>1, BundleInvariant, PTL

(* A function that compute_incremental_plan calls fresh, in a file of any  *)
(* size, was explored under today's sources of itself and of all it calls, *)
(* with their branches in today's lines, when no cycle is or was in or     *)
(* below it.                                                               *)
THEOREM FreshSpecsAreCurrent == Spec => []FreshIsCurrent
<1>1. BundleInv => FreshIsCurrent
  <2> SUFFICES ASSUME BundleInv, NEW f \in FreshNow \ Cyclic(Graph),
                      spec[f].whole, ~spec[f].cyclic
               PROVE  spec[f].seen = Seen(f)
    BY DEF FreshIsCurrent
  <2> DEFINE now == Analyses(present)
  <2>1. IsFile(now) /\ DOMAIN now = present
    BY TodaysFile DEF BundleInv
  <2>2. DOMAIN compute_deep_fingerprints(now) = present
    BY <2>1, FingerprintFacts
  <2>3. f \in present /\ spec[f] # NoSpec /\ spec[f].fp = compute_deep_fingerprints(now)[f]
    BY <2>2 DEF FreshNow, Fresh
  <2>4. f \in Functions
    BY <2>1, <2>3 DEF IsFile
  <2>5. PICK a : MadeFrom(spec[f], f, a)
    BY <2>3, <2>4 DEF BundleInv, SpecsInv
  <2>6. f \in Calm(a) /\ f \in Calm(now)
    BY <2>1, <2>3, <2>5 DEF MadeFrom, Calm, Graph
  <2>7. /\ IsFile(a) /\ spec[f].seen = SeenIn(a, f)
        /\ compute_deep_fingerprints(a)[f] = compute_deep_fingerprints(now)[f]
    BY <2>3, <2>5 DEF MadeFrom
  <2> HIDE DEF now
  <2>8. SeenIn(a, f) = SeenIn(now, f)
    BY <2>1, <2>6, <2>7, FingerprintsTell
  <2> QED BY <2>7, <2>8 DEF Seen, now
<1> QED BY <1>1, BundleInvariant, PTL

(* In a file of any size, with or without cycles, a specification made by  *)
(* a run over the file is carried over while the sources of its function   *)
(* and of all that calls are the same and none of their branches moves to  *)
(* another line of the file.                                               *)
THEOREM CurrentSpecsAreFresh == Spec => []CurrentIsFresh
<1>1. BundleInv => CurrentIsFresh
  <2> SUFFICES ASSUME BundleInv, NEW f \in present, spec[f].whole, f \notin FreshNow,
                      spec[f].seen = Seen(f)
               PROVE  FALSE
    BY DEF CurrentIsFresh
  <2> DEFINE now == Analyses(present)
  <2>1. /\ IsFile(now) /\ DOMAIN now = present
        /\ \A x \in present : now[x].shallow[1] = source[x] /\ now[x].calls = calls[x]
    <3>1. \A x \in present : Shallow(x)[1] = source[x]
      BY DEF Shallow
    <3> QED BY <3>1, TodaysFile DEF BundleInv
  <2>2. DOMAIN compute_deep_fingerprints(now) = present
    BY <2>1, FingerprintFacts
  <2>3. spec[f] # NoSpec
    BY DEF NoSpec
  <2>4. f \in Functions
    BY <2>1 DEF IsFile
  <2>5. PICK a : MadeFrom(spec[f], f, a) /\ Past(a)
    BY <2>3, <2>4 DEF BundleInv, SpecsInv
  <2>6. /\ IsFile(a) /\ f \in DOMAIN a /\ SeenIn(a, f) = SeenIn(now, f)
        /\ spec[f].fp = compute_deep_fingerprints(a)[f]
    BY <2>5 DEF MadeFrom, Seen
  <2> HIDE DEF now
  <2>7. \A x \in DOMAIN a \cap DOMAIN now : a[x].shallow = now[x].shallow => a[x].calls = now[x].calls
    BY <2>1, <2>5 DEF Past
  <2>8. compute_deep_fingerprints(a)[f] = compute_deep_fingerprints(now)[f]
    BY <2>1, <2>6, <2>7, FingerprintsLocal
  <2>9. f \in Fresh(compute_deep_fingerprints(now))
    BY <2>2, <2>3, <2>6, <2>8 DEF Fresh
  <2> QED BY <2>9 DEF FreshNow, now
<1> QED BY <1>1, BundleInvariant, PTL

(* Whatever the calls, topological_layers splits the functions into layers *)
(* that call only earlier ones and come no later than they must, with      *)
(* exactly what is on or above a cycle in a layer of its own at the end.   *)
THEOREM LayersAreSound == Spec => []LayersSound
<1>1. BundleInv => LayersSound
  <2> SUFFICES ASSUME BundleInv PROVE LayersSound
    OBVIOUS
  <2>1. DOMAIN ProjectGraph = present /\ \A f \in present : ProjectGraph[f] \subseteq present
    BY DEF ProjectGraph, FromRegistry
  <2>2. IsFile(Analyses(present)) /\ DOMAIN Analyses(present) = present
    BY TodaysFile DEF BundleInv
  <2>3. IsFiniteSet(present)
    BY <2>2, FileFacts DEF IsGraph
  <2>4. IsGraph(ProjectGraph)
    BY <2>1, <2>3 DEF IsGraph
  <2>5. Layering(ProjectGraph)
    BY <2>4, LayeringHolds
  <2> QED BY <2>5 DEF LayersSound, Layering
<1> QED BY <1>1, BundleInvariant, PTL

(* No run loses a specification of a function that the file still has,     *)
(* except one about another function; a failed exploration keeps the old   *)
(* one.                                                                    *)
THEOREM SpecsAreKept == Spec => SpecsSurvive
<1> DEFINE Kept(f) == \/ spec[f] = NoSpec \/ spec'[f] = spec[f]
                      \/ spec'[f] # NoSpec /\ spec'[f].seen = Seen(f)
                      \/ spec'[f] = NoSpec /\ (Discard \/ RunFunction)
<1>1. BundleInv /\ [Next]_vars => [\A f \in present : Kept(f)]_vars
  <2> SUFFICES ASSUME BundleInv, Next, NEW f \in present PROVE Kept(f)
    OBVIOUS
  <2>0. f \in Functions
    BY DEF BundleInv, VersionsInv
  <2>1. CASE RunFile
    <3>1. Run(present)
      BY <2>1 DEF RunFile
    <3> QED BY <2>0, <3>1, RunMakes, ExploredFacts
  <2>2. CASE RunFunction
    <3>1. PICK g \in present : Run({g})
      BY <2>2 DEF RunFunction
    <3> QED BY <2>0, <2>2, <3>1, RunMakes, ExploredFacts
  <2>3. CASE Discard
    <3>1. spec'[f] = NoSpec
      BY <2>0, <2>3 DEF Discard
    <3> QED BY <2>3, <3>1
  <2>4. CASE \E x \in Functions, callees \in SUBSET Functions : Write(x, callees)
    BY <2>4 DEF Write
  <2>5. CASE \E x \in Functions : Delete(x) \/ Space(x)
    BY <2>5 DEF Delete, Space
  <2> QED BY <2>1, <2>2, <2>3, <2>4, <2>5 DEF Next
<1> QED BY <1>1, BundleInvariant, PTL DEF Spec, SpecsSurvive

=============================================================================
