------------------------- MODULE LayerBudgetProofs -------------------------
EXTENDS LayerBudget, WellFoundedInduction, TLAPS

-----------------------------------------------------------------------------
(* Induction, from the library's theorem that a well-founded relation has  *)
(* minimal elements; the predicate is a set.                               *)

(* A non-empty set of numbers has a least one.                             *)
LEMMA Least ==
  ASSUME NEW S, S \subseteq Nat, S # {}
  PROVE  \E x \in S : \A y \in S : x <= y
<1> DEFINE R == OpToRel(<, Nat)
<1>1. IsWellFoundedOn(R, Nat)
  BY NatLessThanWellFounded
<1>2. \A y, x \in Nat : y < x => <<y, x>> \in R
  BY DEF OpToRel
<1> HIDE DEF R
<1>3. PICK x \in S : \A y \in S : ~(<<y, x>> \in R)
  BY <1>1, WFMin
<1>4. \A y \in S : x <= y
  <2> TAKE y \in S
  <2>1. ~(y < x)
    BY <1>2, <1>3
  <2> QED BY <2>1
<1> QED BY <1>4

(* A set that has 0 and with every number below N its successor has        *)
(* everything up to N.                                                     *)
LEMMA InductionUpTo ==
  ASSUME NEW N \in Nat, NEW S, 0 \in S, \A n \in 1 .. N : n - 1 \in S => n \in S
  PROVE  0 .. N \subseteq S
<1> DEFINE D == (0 .. N) \ S
<1> SUFFICES ASSUME D # {} PROVE FALSE
  OBVIOUS
<1>1. PICK x \in D : \A y \in D : x <= y
  <2>1. D \subseteq Nat
    OBVIOUS
  <2> QED BY <2>1, Least
<1>2. x \in 1 .. N
  OBVIOUS
<1>3. x - 1 \in 0 .. N /\ x - 1 \notin D
  BY <1>1, <1>2
<1> QED BY <1>2, <1>3

(* A recursion over 0 .. N that stays in a set A defines a function.       *)
Recursion(N, A, a, step) == N \in Nat /\ a \in A /\ step \in [1 .. N -> [A -> A]]

Solution(N, A, a, step, r) ==
  r \in [0 .. N -> A] /\ r[0] = a /\ \A n \in 1 .. N : r[n] = step[n][r[n - 1]]

LEMMA PrimitiveRecursion ==
  ASSUME NEW N, NEW A, NEW a, NEW step, Recursion(N, A, a, step)
  PROVE  \E r : Solution(N, A, a, step, r)
<1> USE DEF Recursion
<1> DEFINE Good(n, r) == /\ r \in [0 .. n -> A] /\ r[0] = a
                         /\ \A k \in 1 .. n : r[k] = step[k][r[k - 1]]
           S == {n \in 0 .. N : \E r : Good(n, r)}
<1>1. 0 \in S
  <2>1. Good(0, [n \in 0 .. 0 |-> a])
    OBVIOUS
  <2> HIDE DEF Good
  <2>2. \E r : Good(0, r)
    BY <2>1
  <2> QED BY <2>2
<1>2. \A n \in 1 .. N : n - 1 \in S => n \in S
  <2> SUFFICES ASSUME NEW n \in 1 .. N, n - 1 \in S PROVE n \in S
    OBVIOUS
  <2>1. PICK r : Good(n - 1, r)
    OBVIOUS
  <2> DEFINE q == [k \in 0 .. n |-> IF k = n THEN step[n][r[n - 1]] ELSE r[k]]
  <2>2. r[n - 1] \in A
    BY <2>1
  <2>3. step[n][r[n - 1]] \in A
    BY <2>2
  <2>4. q \in [0 .. n -> A]
    BY <2>1, <2>3
  <2>5. q[0] = a
    BY <2>1
  <2>6. ASSUME NEW k \in 1 .. n PROVE q[k] = step[k][q[k - 1]]
    <3>1. k - 1 \in 0 .. n /\ k - 1 # n /\ q[k - 1] = r[k - 1]
      OBVIOUS
    <3>2. CASE k = n
      BY <3>1, <3>2
    <3>3. CASE k # n
      BY <2>1, <3>1, <3>3
    <3> QED BY <3>2, <3>3
  <2> HIDE DEF q
  <2>7. Good(n, q)
    BY <2>4, <2>5, <2>6
  <2> HIDE DEF Good
  <2>8. \E r0 : Good(n, r0)
    BY <2>7
  <2> QED BY <2>8
<1>3. N \in S
  <2> HIDE DEF S
  <2>1. 0 .. N \subseteq S
    BY <1>1, <1>2, InductionUpTo
  <2> QED BY <2>1
<1>4. PICK r : Good(N, r)
  BY <1>3
<1>5. Solution(N, A, a, step, r)
  BY <1>4 DEF Solution
<1> QED BY <1>5

-----------------------------------------------------------------------------
(* Sums over the functions of the layer.                                   *)

LEMMA IndexFacts == /\ TaskCount \in Nat
                    /\ Tasks = 1 .. TaskCount
                    /\ \A t \in Tasks : t \in Nat /\ t - 1 \in 0 .. TaskCount /\ t \in 0 .. TaskCount
BY BudgetAssumption DEF Tasks

UpTo(f) == CHOOSE r : r = [n \in 0 .. TaskCount |-> IF n = 0 THEN 0 ELSE r[n - 1] + f[n]]

(* The sum of f is the last of its partial sums.                           *)
LEMMA PartialSums ==
  ASSUME NEW f \in [Tasks -> Int]
  PROVE  /\ UpTo(f) \in [0 .. TaskCount -> Int] /\ UpTo(f)[0] = 0
         /\ \A n \in Tasks : UpTo(f)[n] = UpTo(f)[n - 1] + f[n]
         /\ Sum(f) = UpTo(f)[TaskCount] /\ Sum(f) \in Int
<1> DEFINE Is(r) == r = [n \in 0 .. TaskCount |-> IF n = 0 THEN 0 ELSE r[n - 1] + f[n]]
           step == [n \in 1 .. TaskCount |-> [x \in Int |-> x + f[n]]]
           c == CHOOSE r : Is(r)
<1>1. PICK r : Solution(TaskCount, Int, 0, step, r)
  <2>1. Recursion(TaskCount, Int, 0, step)
    BY IndexFacts DEF Recursion
  <2> HIDE DEF step
  <2> QED BY <2>1, PrimitiveRecursion
<1>2. Is(r)
  <2>1. ASSUME NEW n \in 0 .. TaskCount, n # 0
        PROVE  r[n] = r[n - 1] + f[n]
    <3>1. n \in 1 .. TaskCount /\ r[n - 1] \in Int
      BY <1>1, <2>1, IndexFacts DEF Solution
    <3>2. step[n][r[n - 1]] = r[n - 1] + f[n]
      BY <3>1
    <3> HIDE DEF step
    <3> QED BY <1>1, <3>1, <3>2 DEF Solution
  <2> HIDE DEF step
  <2> QED BY <1>1, <2>1 DEF Solution
<1>3. Is(c)
  BY <1>2
<1>4. c = UpTo(f)
  BY DEF UpTo
<1>5. Sum(f) = c[TaskCount]
  BY DEF Sum
<1> HIDE DEF c
<1>6. \A n \in Tasks : c[n] = c[n - 1] + f[n]
  BY <1>3, IndexFacts
<1>7. c[0] = 0
  BY <1>3, IndexFacts
<1>8. 0 .. TaskCount \subseteq {n \in 0 .. TaskCount : c[n] \in Int}
  <2> DEFINE S == {n \in 0 .. TaskCount : c[n] \in Int}
  <2>1. 0 \in S
    BY <1>7, IndexFacts
  <2>2. \A n \in 1 .. TaskCount : n - 1 \in S => n \in S
    BY <1>6, IndexFacts
  <2> HIDE DEF S
  <2>3. 0 .. TaskCount \subseteq S
    BY <2>1, <2>2, IndexFacts, InductionUpTo
  <2> QED BY <2>3 DEF S
<1>9. c \in [0 .. TaskCount -> Int]
  BY <1>3, <1>8
<1> QED BY <1>4, <1>5, <1>6, <1>7, <1>9, IndexFacts

LEMMA SumAtMost ==
  ASSUME NEW f \in [Tasks -> Int], NEW g \in [Tasks -> Int], \A t \in Tasks : f[t] <= g[t]
  PROVE  Sum(f) <= Sum(g)
<1> DEFINE S == {n \in 0 .. TaskCount : UpTo(f)[n] <= UpTo(g)[n]}
<1>1. 0 \in S
  BY PartialSums, IndexFacts
<1>2. \A n \in 1 .. TaskCount : n - 1 \in S => n \in S
  <2> SUFFICES ASSUME NEW n \in 1 .. TaskCount, n - 1 \in S PROVE n \in S
    OBVIOUS
  <2>1. UpTo(f)[n] = UpTo(f)[n - 1] + f[n] /\ UpTo(g)[n] = UpTo(g)[n - 1] + g[n]
    BY PartialSums, IndexFacts
  <2>2. UpTo(f)[n - 1] \in Int /\ UpTo(g)[n - 1] \in Int /\ f[n] \in Int /\ g[n] \in Int /\ f[n] <= g[n]
    BY PartialSums, IndexFacts
  <2> QED BY <2>1, <2>2
<1> HIDE DEF S
<1>3. TaskCount \in S
  <2>1. 0 .. TaskCount \subseteq S
    BY <1>1, <1>2, IndexFacts, InductionUpTo
  <2> QED BY <2>1, IndexFacts
<1> QED BY <1>3, PartialSums DEF S

LEMMA SumAdd ==
  ASSUME NEW f \in [Tasks -> Int], NEW g \in [Tasks -> Int], NEW h \in [Tasks -> Int],
         \A t \in Tasks : h[t] = f[t] + g[t]
  PROVE  Sum(h) = Sum(f) + Sum(g)
<1> DEFINE S == {n \in 0 .. TaskCount : UpTo(h)[n] = UpTo(f)[n] + UpTo(g)[n]}
<1>1. 0 \in S
  <2>1. UpTo(f)[0] = 0 /\ UpTo(g)[0] = 0 /\ UpTo(h)[0] = 0
    BY PartialSums
  <2> QED BY <2>1, IndexFacts
<1>2. \A n \in 1 .. TaskCount : n - 1 \in S => n \in S
  <2> SUFFICES ASSUME NEW n \in 1 .. TaskCount, n - 1 \in S PROVE n \in S
    OBVIOUS
  <2>1. /\ UpTo(f)[n] = UpTo(f)[n - 1] + f[n] /\ UpTo(g)[n] = UpTo(g)[n - 1] + g[n]
        /\ UpTo(h)[n] = UpTo(h)[n - 1] + h[n]
    BY PartialSums, IndexFacts
  <2>2. /\ UpTo(f)[n - 1] \in Int /\ UpTo(g)[n - 1] \in Int /\ f[n] \in Int /\ g[n] \in Int
        /\ h[n] = f[n] + g[n]
    BY PartialSums, IndexFacts
  <2> QED BY <2>1, <2>2
<1> HIDE DEF S
<1>3. TaskCount \in S
  <2>1. 0 .. TaskCount \subseteq S
    BY <1>1, <1>2, IndexFacts, InductionUpTo
  <2> QED BY <2>1, IndexFacts
<1> QED BY <1>3, PartialSums DEF S

LEMMA SumScale ==
  ASSUME NEW f \in [Tasks -> Int], NEW g \in [Tasks -> Int], NEW c \in Int,
         \A t \in Tasks : g[t] = c * f[t]
  PROVE  Sum(g) = c * Sum(f)
<1> DEFINE S == {n \in 0 .. TaskCount : UpTo(g)[n] = c * UpTo(f)[n]}
<1>1. 0 \in S
  <2>1. UpTo(f)[0] = 0 /\ UpTo(g)[0] = 0 /\ c * 0 = 0
    BY PartialSums
  <2> QED BY <2>1, IndexFacts
<1>2. \A n \in 1 .. TaskCount : n - 1 \in S => n \in S
  <2> SUFFICES ASSUME NEW n \in 1 .. TaskCount, n - 1 \in S PROVE n \in S
    OBVIOUS
  <2>1. UpTo(f)[n] = UpTo(f)[n - 1] + f[n] /\ UpTo(g)[n] = UpTo(g)[n - 1] + g[n]
    BY PartialSums, IndexFacts
  <2>2. UpTo(f)[n - 1] \in Int /\ f[n] \in Int /\ g[n] = c * f[n]
    BY PartialSums, IndexFacts
  <2>3. \A x, y \in Int : c * x + c * y = c * (x + y)
    OBVIOUS
  <2>4. UpTo(g)[n - 1] = c * UpTo(f)[n - 1]
    OBVIOUS
  <2>5. UpTo(g)[n] = c * UpTo(f)[n]
    BY <2>1, <2>2, <2>3, <2>4
  <2> QED BY <2>5, IndexFacts
<1> HIDE DEF S
<1>3. TaskCount \in S
  <2>1. 0 .. TaskCount \subseteq S
    BY <1>1, <1>2, IndexFacts, InductionUpTo
  <2> QED BY <2>1, IndexFacts
<1> QED BY <1>3, PartialSums DEF S

LEMMA SumConstant ==
  ASSUME NEW f \in [Tasks -> Int], NEW c \in Int, \A t \in Tasks : f[t] = c
  PROVE  Sum(f) = TaskCount * c
<1> DEFINE S == {n \in 0 .. TaskCount : UpTo(f)[n] = n * c}
<1>1. 0 \in S
  BY PartialSums, IndexFacts
<1>2. \A n \in 1 .. TaskCount : n - 1 \in S => n \in S
  <2> SUFFICES ASSUME NEW n \in 1 .. TaskCount, n - 1 \in S PROVE n \in S
    OBVIOUS
  <2>1. UpTo(f)[n] = UpTo(f)[n - 1] + c
    BY PartialSums, IndexFacts
  <2>2. (n - 1) * c + c = n * c
    BY IndexFacts
  <2> QED BY <2>1, <2>2, IndexFacts
<1> HIDE DEF S
<1>3. TaskCount \in S
  <2>1. 0 .. TaskCount \subseteq S
    BY <1>1, <1>2, IndexFacts, InductionUpTo
  <2> QED BY <2>1, IndexFacts
<1> QED BY <1>3, PartialSums DEF S

LEMMA SumSingle ==
  ASSUME NEW f \in [Tasks -> Int], NEW t \in Tasks, \A u \in Tasks : u # t => f[u] = 0
  PROVE  Sum(f) = f[t]
<1> DEFINE S == {n \in 0 .. TaskCount : UpTo(f)[n] = IF n < t THEN 0 ELSE f[t]}
<1>1. 0 \in S
  BY PartialSums, IndexFacts
<1>2. \A n \in 1 .. TaskCount : n - 1 \in S => n \in S
  <2> SUFFICES ASSUME NEW n \in 1 .. TaskCount, n - 1 \in S PROVE n \in S
    OBVIOUS
  <2>1. UpTo(f)[n] = UpTo(f)[n - 1] + f[n] /\ f[n] \in Int /\ f[t] \in Int
    BY PartialSums, IndexFacts
  <2>2. UpTo(f)[n - 1] = IF n - 1 < t THEN 0 ELSE f[t]
    OBVIOUS
  <2>3. t \in Int /\ n \in Int /\ (n # t => f[n] = 0)
    BY IndexFacts
  <2>4. UpTo(f)[n] = IF n < t THEN 0 ELSE f[t]
    BY <2>1, <2>2, <2>3
  <2> QED BY <2>4, IndexFacts
<1> HIDE DEF S
<1>3. TaskCount \in S
  <2>1. 0 .. TaskCount \subseteq S
    BY <1>1, <1>2, IndexFacts, InductionUpTo
  <2> QED BY <2>1, IndexFacts
<1>4. ~(TaskCount < t)
  BY IndexFacts
<1> QED BY <1>3, <1>4, PartialSums DEF S

LEMMA SumUpdate ==
  ASSUME NEW f \in [Tasks -> Int], NEW g \in [Tasks -> Int], NEW t \in Tasks,
         \A u \in Tasks : u # t => g[u] = f[u]
  PROVE  Sum(g) = Sum(f) + (g[t] - f[t])
<1> DEFINE d == [u \in Tasks |-> IF u = t THEN g[t] - f[t] ELSE 0]
<1>1. d \in [Tasks -> Int] /\ d[t] = g[t] - f[t] /\ \A u \in Tasks : u # t => d[u] = 0
  OBVIOUS
<1>2. \A u \in Tasks : g[u] = f[u] + d[u]
  OBVIOUS
<1> HIDE DEF d
<1>3. Sum(d) = d[t]
  BY <1>1, SumSingle
<1>4. Sum(g) = Sum(f) + Sum(d)
  BY <1>1, <1>2, SumAdd
<1> QED BY <1>1, <1>3, <1>4

LEMMA SumEqual ==
  ASSUME NEW f \in [Tasks -> Int], NEW g \in [Tasks -> Int], \A t \in Tasks : f[t] = g[t]
  PROVE  Sum(f) = Sum(g)
<1>1. f = g
  OBVIOUS
<1> QED BY <1>1

LEMMA SumBounds ==
  ASSUME NEW f \in [Tasks -> Nat]
  PROVE  Sum(f) \in Nat /\ \A t \in Tasks : f[t] <= Sum(f)
<1>0. f \in [Tasks -> Int]
  OBVIOUS
<1>1. Sum(f) \in Nat
  <2> DEFINE z == [t \in Tasks |-> 0]
  <2>1. z \in [Tasks -> Int] /\ \A t \in Tasks : z[t] = 0 /\ z[t] <= f[t]
    OBVIOUS
  <2> HIDE DEF z
  <2>2. Sum(z) = TaskCount * 0
    BY <2>1, SumConstant
  <2>3. Sum(z) <= Sum(f) /\ Sum(f) \in Int
    BY <1>0, <2>1, SumAtMost, PartialSums
  <2> QED BY <2>2, <2>3, IndexFacts
<1>2. ASSUME NEW t \in Tasks PROVE f[t] <= Sum(f)
  <2> DEFINE d == [u \in Tasks |-> IF u = t THEN f[t] ELSE 0]
  <2>1. d \in [Tasks -> Int] /\ d[t] = f[t] /\ (\A u \in Tasks : u # t => d[u] = 0)
    OBVIOUS
  <2>2. \A u \in Tasks : d[u] <= f[u]
    OBVIOUS
  <2> HIDE DEF d
  <2> QED BY <1>0, <2>1, <2>2, SumSingle, SumAtMost
<1> QED BY <1>1, <1>2

-----------------------------------------------------------------------------
(* What the functions of the layer ask for.                                *)

Demands == score \in [Tasks -> Scores] /\ floor \in Floors /\ factor \in Factors

LEMMA FlatFacts ==
  /\ Flat \in [Tasks -> Nat] /\ Flat \in [Tasks -> Int] /\ Total \in Nat
  /\ \A t \in Tasks : MaxIterations <= Flat[t]
<1>1. /\ MaxIterations \in Nat /\ 5 * MaxIterations \in Nat /\ MaxIterations <= 5 * MaxIterations
  BY BudgetAssumption
<1>2. Flat \in [Tasks -> Nat] /\ \A t \in Tasks : MaxIterations <= Flat[t]
  BY <1>1 DEF Flat
<1>3. Flat \in [Tasks -> Int]
  BY <1>2
<1>4. Total \in Nat
  BY <1>2, SumBounds DEF Total
<1> QED BY <1>2, <1>3, <1>4

LEMMA TaskFacts == /\ TaskCount \in Nat /\ Total \in Nat
                   /\ Tasks = 1 .. TaskCount
                   /\ \A t \in Tasks : t \in Nat /\ t - 1 \in 0 .. TaskCount /\ t \in 0 .. TaskCount
BY IndexFacts, FlatFacts

LEMMA Division ==
  ASSUME NEW a \in Nat, NEW b \in Nat \ {0}
  PROVE  a \div b \in Nat /\ b * (a \div b) <= a /\ a < b * (a \div b) + b
OBVIOUS

LEMMA DivisionMonotone ==
  ASSUME NEW a \in Nat, NEW c \in Nat, NEW b \in Nat \ {0}, a <= c
  PROVE  a \div b <= c \div b
OBVIOUS

LEMMA Products ==
  /\ \A a, b, c \in Int : a * (b + c) = a * b + a * c
  /\ \A a \in Nat, b \in Nat : a * b \in Nat
  /\ \A a \in Nat, b, c \in Int : b <= c => a * b <= a * c
  /\ \A a \in Nat \ {0}, b, c \in Int : a * b < a * c => b < c
  /\ \A a \in Nat \ {0}, b, c \in Int : a * b <= a * c => b <= c
  /\ \A a, b \in Int : a * b = b * a
<1>1. \A a, b, c \in Int : a * (b + c) = a * b + a * c
  OBVIOUS
<1>2. \A a \in Nat, b \in Nat : a * b \in Nat
  OBVIOUS
<1>3. ASSUME NEW a \in Nat, NEW b \in Int, NEW c \in Int, b <= c PROVE a * b <= a * c
  <2>1. PICK d \in Nat : c = b + d
    <3>1. c - b \in Nat /\ c = b + (c - b)
      BY <1>3
    <3> QED BY <3>1
  <2>2. a * c = a * b + a * d /\ a * d \in Nat
    BY <1>1, <1>2, <2>1
  <2> QED BY <2>2
<1>4. ASSUME NEW a \in Nat \ {0}, NEW b \in Int, NEW c \in Int, a * b < a * c PROVE b < c
  <2> SUFFICES ASSUME c <= b PROVE FALSE
    OBVIOUS
  <2>1. a * c <= a * b
    BY <1>3
  <2> QED BY <1>4, <2>1
<1>5. ASSUME NEW a \in Nat \ {0}, NEW b \in Int, NEW c \in Int, a * b <= a * c PROVE b <= c
  <2> SUFFICES ASSUME c + 1 <= b PROVE FALSE
    OBVIOUS
  <2>1. a * (c + 1) <= a * b
    BY <1>3
  <2>2. a * (c + 1) = a * c + a
    BY <1>1
  <2> QED BY <1>5, <2>1, <2>2
<1>6. \A a, b \in Int : a * b = b * a
  OBVIOUS
<1> QED BY <1>1, <1>2, <1>3, <1>4, <1>5, <1>6

LEMMA DemandFacts ==
  ASSUME Demands
  PROVE  /\ \A t \in Tasks : score[t] \in Nat \ {0}
         /\ floor \in Nat
         /\ Ceil \in [Tasks -> Nat] /\ Ceil \in [Tasks -> Int] /\ Sum(Ceil) \in Nat
         /\ \A t \in Tasks : Ceil[t] \in Nat /\ floor <= Ceil[t]
<1>1. \A t \in Tasks : score[t] \in Nat \ {0}
  BY BudgetAssumption DEF Demands
<1>2. floor \in Nat /\ factor \in Nat
  BY BudgetAssumption DEF Demands
<1>3. ASSUME NEW t \in Tasks PROVE Ceil[t] \in Nat /\ floor <= Ceil[t]
  <2> DEFINE a == Flat[t] * factor
  <2>1. a \in Nat
    BY <1>2, FlatFacts, Products
  <2>2. Ceil[t] = Larger(Larger(a \div 10, 1), floor)
    BY DEF Ceil
  <2> HIDE DEF a
  <2>3. a \div 10 \in Nat
    BY <2>1, Division
  <2> QED BY <1>2, <2>2, <2>3 DEF Larger
<1>4. Ceil \in [Tasks -> Nat]
  BY <1>3 DEF Ceil
<1>5. Ceil \in [Tasks -> Int] /\ Sum(Ceil) \in Nat
  BY <1>4, SumBounds
<1> QED BY <1>1, <1>2, <1>3, <1>4, <1>5

(* Scaled floors fit into the total and stay below the ceilings.           *)
LEMMA FloorFacts ==
  ASSUME Demands
  PROVE  /\ ScaledFloor \in Nat /\ TaskCount * ScaledFloor <= Total
         /\ \A t \in Tasks : ScaledFloor <= Ceil[t]
<1>0. floor \in Nat /\ \A t \in Tasks : Ceil[t] \in Nat /\ floor <= Ceil[t]
  BY DemandFacts
<1>1. CASE TaskCount * floor > Total
  <2> DEFINE b == TaskCount * floor
             a == floor * Total
             q == a \div b
  <2>1. b \in Nat \ {0} /\ a \in Nat /\ floor \in Nat \ {0}
    BY <1>0, <1>1, TaskFacts, Products
  <2>2. ScaledFloor = q
    BY <1>1 DEF ScaledFloor
  <2>3. q \in Nat /\ b * q <= a
    <3> HIDE DEF a, b
    <3> QED BY <2>1, Division
  <2> HIDE DEF q
  <2>4. q <= floor
    <3>1. a <= floor * b /\ floor * b = b * floor
      BY <1>0, <1>1, <2>1, TaskFacts, Products
    <3>2. b * q \in Int /\ b * floor \in Int
      BY <1>0, <2>1, <2>3
    <3> HIDE DEF a, b
    <3>3. b * q <= b * floor
      BY <2>1, <2>3, <3>1, <3>2
    <3> QED BY <1>0, <2>1, <2>3, <3>3, Products
  <2>5. TaskCount * q <= Total
    <3>1. \A x, y, z \in Nat : (x * y) * z = y * (x * z)
      OBVIOUS
    <3>2. b * q = floor * (TaskCount * q) /\ TaskCount * q \in Nat
      BY <1>0, <2>3, <3>1, TaskFacts, Products
    <3>3. floor * (TaskCount * q) <= floor * Total
      BY <2>3, <3>2
    <3> QED BY <2>1, <3>2, <3>3, TaskFacts, Products
  <2> QED BY <1>0, <2>2, <2>3, <2>4, <2>5
<1>2. CASE ~(TaskCount * floor > Total)
  <2>1. ScaledFloor = floor /\ TaskCount * floor \in Nat
    BY <1>0, <1>2, TaskFacts, Products DEF ScaledFloor
  <2> QED BY <1>0, <1>2, <2>1, TaskFacts
<1> QED BY <1>1, <1>2

-----------------------------------------------------------------------------
(* Sums over a set of functions.                                           *)

One == [t \in Tasks |-> 1]
Count(S) == Sum(Only(One, S))

LEMMA OnlyType ==
  ASSUME NEW f \in [Tasks -> Nat], NEW S \in SUBSET Tasks
  PROVE  /\ Only(f, S) \in [Tasks -> Nat] /\ Only(f, S) \in [Tasks -> Int]
         /\ \A t \in Tasks : Only(f, S)[t] = IF t \in S THEN f[t] ELSE 0
         /\ Sum(Only(f, S)) \in Nat
<1>1. Only(f, S) \in [Tasks -> Nat] /\ \A t \in Tasks : Only(f, S)[t] = IF t \in S THEN f[t] ELSE 0
  BY DEF Only
<1>2. Sum(Only(f, S)) \in Nat
  BY <1>1, SumBounds
<1> QED BY <1>1, <1>2

LEMMA CountFacts ==
  ASSUME NEW S \in SUBSET Tasks
  PROVE  /\ Only(One, S) \in [Tasks -> Int]
         /\ \A t \in Tasks : Only(One, S)[t] = IF t \in S THEN 1 ELSE 0
         /\ Count(S) \in Nat /\ Count(S) <= TaskCount
         /\ \A t \in S : Count(S \ {t}) = Count(S) - 1
         /\ S # {} => Count(S) >= 1
         /\ S = {} => Count(S) = 0
<1>0. One \in [Tasks -> Nat] /\ One \in [Tasks -> Int] /\ \A t \in Tasks : One[t] = 1
  BY DEF One
<1>1. /\ Only(One, S) \in [Tasks -> Nat] /\ Only(One, S) \in [Tasks -> Int]
      /\ \A t \in Tasks : Only(One, S)[t] = IF t \in S THEN 1 ELSE 0
      /\ Count(S) \in Nat
  BY <1>0, OnlyType DEF Count
<1>2. Count(S) <= TaskCount
  <2>1. Sum(One) = TaskCount * 1
    BY <1>0, SumConstant
  <2>2. Sum(Only(One, S)) <= Sum(One)
    BY <1>0, <1>1, SumAtMost
  <2> QED BY <2>1, <2>2, TaskFacts DEF Count
<1>3. ASSUME NEW t \in S PROVE Count(S \ {t}) = Count(S) - 1
  <2> DEFINE g == Only(One, S \ {t})
             f == Only(One, S)
  <2>1. g \in [Tasks -> Int] /\ \A u \in Tasks : g[u] = IF u \in S \ {t} THEN 1 ELSE 0
    BY <1>0, OnlyType
  <2>2. f \in [Tasks -> Int] /\ \A u \in Tasks : f[u] = IF u \in S THEN 1 ELSE 0
    BY <1>1
  <2>3. Count(S) = Sum(f) /\ Count(S \ {t}) = Sum(g)
    BY DEF Count
  <2> HIDE DEF f, g
  <2>4. t \in Tasks /\ (\A u \in Tasks : u # t => g[u] = f[u]) /\ g[t] = 0 /\ f[t] = 1
    BY <2>1, <2>2
  <2>5. Sum(g) = Sum(f) + (g[t] - f[t])
    BY <2>1, <2>2, <2>4, SumUpdate
  <2> QED BY <1>1, <2>3, <2>4, <2>5
<1>4. ASSUME NEW t \in S PROVE Count(S) >= 1
  <2>1. Only(One, S)[t] = 1 /\ Only(One, S)[t] <= Sum(Only(One, S))
    BY <1>1, SumBounds
  <2> QED BY <2>1, <1>1 DEF Count
<1>5. ASSUME S = {} PROVE Count(S) = 0
  <2>1. \A t \in Tasks : Only(One, S)[t] = 0
    BY <1>1, <1>5
  <2>2. Sum(Only(One, S)) = TaskCount * 0
    BY <1>1, <2>1, SumConstant
  <2> QED BY <2>2, TaskFacts DEF Count
<1> QED BY <1>1, <1>2, <1>3, <1>4, <1>5

(* A smaller set counts less.                                              *)
LEMMA CountLess ==
  ASSUME NEW S \in SUBSET Tasks, NEW R \in SUBSET S, R # S
  PROVE  Count(R) < Count(S)
<1>1. PICK t \in S : t \notin R
  OBVIOUS
<1>2. R \in SUBSET Tasks /\ S \ {t} \in SUBSET Tasks
  OBVIOUS
<1>3. /\ Only(One, R) \in [Tasks -> Int] /\ Only(One, S \ {t}) \in [Tasks -> Int]
      /\ \A u \in Tasks : Only(One, R)[u] <= Only(One, S \ {t})[u]
  BY <1>1, <1>2, CountFacts
<1>4. Count(R) <= Count(S \ {t})
  BY <1>3, SumAtMost DEF Count
<1>5. Count(S \ {t}) = Count(S) - 1 /\ Count(R) \in Nat /\ Count(S) \in Nat
  BY <1>2, CountFacts
<1> QED BY <1>4, <1>5

-----------------------------------------------------------------------------
(* One pass.                                                               *)

FillStates == [shares : [Tasks -> Nat], open : SUBSET Tasks, left : Nat, last : BOOLEAN]

FillInv(s) ==
  /\ s \in FillStates
  /\ Sum(s.shares) + s.left = Total
  /\ \A t \in Tasks : /\ ScaledFloor <= s.shares[t] /\ s.shares[t] <= Ceil[t]
                      /\ t \in s.open <=> s.shares[t] < Ceil[t]
  /\ \A t \in s.open, u \in Tasks : score[t] >= score[u] => s.shares[t] >= s.shares[u]
  /\ s.last => s.left < Count(s.open)

(* Proportional shares rounded down: together they are no more than what   *)
(* is left, and less than one per function stays behind.                   *)
LEMMA Proportions ==
  ASSUME Demands, NEW O \in SUBSET Tasks, O # {}, NEW left \in Nat,
         NEW w, w = [t \in Tasks |-> IF t \in O THEN (left * score[t]) \div Sum(Only(score, O)) ELSE 0]
  PROVE  /\ w \in [Tasks -> Nat]
         /\ Sum(w) <= left /\ left < Sum(w) + Count(O)
         /\ \A t, u \in O : score[t] >= score[u] => w[t] >= w[u]
<1> DEFINE W == Sum(Only(score, O))
           p == [t \in Tasks |-> left * Only(score, O)[t]]
           q == [t \in Tasks |-> W * w[t]]
           n == [t \in Tasks |-> W * w[t] + W * Only(One, O)[t]]
           m == [t \in Tasks |-> left * Only(score, O)[t] + Only(One, O)[t]]
<1>1. \A t \in Tasks : score[t] \in Nat \ {0}
  BY DemandFacts
<1>2. score \in [Tasks -> Nat]
  BY <1>1 DEF Demands
<1>3. /\ Only(score, O) \in [Tasks -> Nat] /\ Only(score, O) \in [Tasks -> Int]
      /\ \A t \in Tasks : Only(score, O)[t] = IF t \in O THEN score[t] ELSE 0
      /\ W \in Nat
  BY <1>2, OnlyType
<1>4. W # 0
  <2>1. PICK t \in O : TRUE
    OBVIOUS
  <2>2. Only(score, O)[t] >= 1 /\ Only(score, O)[t] <= W
    BY <1>1, <1>3, SumBounds
  <2> QED BY <1>1, <1>3, <2>2
<1> DEFINE a(t) == left * score[t]
<1>5. \A t \in Tasks : a(t) \in Nat
  BY <1>1, Products
<1>6. ASSUME NEW t \in Tasks
      PROVE  /\ w[t] \in Nat
             /\ t \in O => W * w[t] <= a(t) /\ a(t) < W * w[t] + W
             /\ t \notin O => w[t] = 0
  <2>1. t \in O => w[t] = a(t) \div W
    OBVIOUS
  <2>2. t \notin O => w[t] = 0
    OBVIOUS
  <2> HIDE DEF a, W
  <2>3. a(t) \div W \in Nat /\ W * (a(t) \div W) <= a(t) /\ a(t) < W * (a(t) \div W) + W
    BY <1>3, <1>4, <1>5, Division
  <2> QED BY <2>1, <2>2, <2>3
<1>7. w \in [Tasks -> Nat] /\ w \in [Tasks -> Int] /\ Sum(w) \in Nat
  <2>1. w \in [Tasks -> Nat]
    BY <1>6
  <2> QED BY <2>1, SumBounds
<1>8. /\ Only(One, O) \in [Tasks -> Int]
      /\ \A t \in Tasks : Only(One, O)[t] = IF t \in O THEN 1 ELSE 0
      /\ Count(O) \in Nat /\ Count(O) >= 1
  BY CountFacts
<1> HIDE DEF W
<1>9. /\ p \in [Tasks -> Int] /\ q \in [Tasks -> Int] /\ n \in [Tasks -> Int] /\ m \in [Tasks -> Int]
  BY <1>3, <1>7, <1>8
<1>10. Sum(p) = left * W
  BY <1>3, <1>9, SumScale DEF W
<1>11. Sum(q) = W * Sum(w)
  <2>1. W \in Int /\ \A t \in Tasks : q[t] = W * w[t]
    BY <1>3
  <2>2. q \in [Tasks -> Int]
    BY <1>9
  <2> HIDE DEF p, q, n, m
  <2> QED BY <1>7, <2>1, <2>2, SumScale
<1>12. \A t \in Tasks : q[t] <= p[t] /\ m[t] <= n[t]
  <2> TAKE t \in Tasks
  <2>1. q[t] = W * w[t] /\ p[t] = left * Only(score, O)[t]
    OBVIOUS
  <2>2. n[t] = W * w[t] + W * Only(One, O)[t] /\ m[t] = left * Only(score, O)[t] + Only(One, O)[t]
    OBVIOUS
  <2>3. CASE t \in O
    <3>1. Only(score, O)[t] = score[t] /\ Only(One, O)[t] = 1 /\ left * Only(score, O)[t] = a(t)
      BY <1>3, <1>8, <2>3
    <3> HIDE DEF a, p, q, n, m
    <3>2. a(t) \in Nat /\ W * w[t] \in Nat /\ W * w[t] <= a(t) /\ a(t) < W * w[t] + W
      BY <1>3, <1>5, <1>6, <2>3, Products
    <3>3. W * Only(One, O)[t] = W
      BY <1>3, <3>1
    <3> QED BY <1>3, <2>1, <2>2, <3>1, <3>2, <3>3
  <2>4. CASE t \notin O
    <3>1. Only(score, O)[t] = 0 /\ Only(One, O)[t] = 0 /\ w[t] = 0
      BY <1>3, <1>6, <1>8, <2>4
    <3> QED BY <1>3, <2>1, <2>2, <3>1
  <2> QED BY <2>3, <2>4
<1>13. Sum(w) <= left
  <2>1. Sum(q) <= Sum(p)
    BY <1>9, <1>12, SumAtMost
  <2>2. W * Sum(w) <= W * left
    BY <1>3, <1>10, <1>11, <2>1, Products
  <2> QED BY <1>3, <1>4, <1>7, <2>2, Products
<1>14. left < Sum(w) + Count(O)
  <2> DEFINE c == [t \in Tasks |-> W * Only(One, O)[t]]
  <2>1. c \in [Tasks -> Int] /\ \A t \in Tasks : c[t] = W * Only(One, O)[t] /\ n[t] = q[t] + c[t]
    BY <1>3, <1>8
  <2>2. Sum(c) = W * Count(O)
    <3>1. W \in Int
      BY <1>3
    <3> HIDE DEF c
    <3> QED BY <1>8, <2>1, <3>1, SumScale DEF Count
  <2>3. Sum(n) = Sum(q) + Sum(c)
    BY <1>9, <2>1, SumAdd
  <2>4. \A t \in Tasks : m[t] = p[t] + Only(One, O)[t]
    OBVIOUS
  <2>5. Sum(m) = Sum(p) + Count(O)
    BY <1>8, <1>9, <2>4, SumAdd DEF Count
  <2>6. Sum(m) <= Sum(n)
    BY <1>9, <1>12, SumAtMost
  <2> HIDE DEF c, m, n, p, q
  <2>7. W * (Sum(w) + Count(O)) = W * Sum(w) + W * Count(O)
    BY <1>3, <1>7, <1>8, Products
  <2>8. W * left = left * W /\ W * left \in Nat
    BY <1>3, Products
  <2>9. W * left < W * (Sum(w) + Count(O))
    BY <1>3, <1>7, <1>8, <1>10, <1>11, <2>2, <2>3, <2>5, <2>6, <2>7, <2>8
  <2>10. left \in Int /\ Sum(w) + Count(O) \in Int /\ W \in Nat \ {0}
    BY <1>3, <1>4, <1>7, <1>8
  <2> QED BY <2>9, <2>10, Products
<1>15. ASSUME NEW t \in O, NEW u \in O, score[t] >= score[u] PROVE w[t] >= w[u]
  <2>1. w[t] = a(t) \div W /\ w[u] = a(u) \div W
    BY DEF W
  <2>2. a(u) <= a(t)
    BY <1>1, <1>15, Products
  <2> HIDE DEF a
  <2>3. a(u) \div W <= a(t) \div W
    BY <1>3, <1>4, <1>5, <2>2, DivisionMonotone
  <2> QED BY <1>7, <2>1, <2>3
<1> QED BY <1>7, <1>13, <1>14, <1>15

(* The body of a pass that is not over.                                    *)
LEMMA PassFacts ==
  ASSUME Demands, NEW s, FillInv(s), ~s.last, s.left # 0, s.open # {}
  PROVE  /\ FillInv(Pass(s))
         /\ Pass(s).last \/ Count(Pass(s).open) < Count(s.open)
<1> DEFINE O == s.open
           w == [t \in Tasks |-> IF t \in O THEN (s.left * score[t]) \div Sum(Only(score, O)) ELSE 0]
           closed == {t \in O : w[t] >= Ceil[t] - s.shares[t]}
           next == [t \in Tasks |-> IF t \in closed THEN Ceil[t]
                                    ELSE IF t \in O THEN s.shares[t] + w[t] ELSE s.shares[t]]
           rest == s.left - (Sum(next) - Sum(s.shares))
           given == [t \in Tasks |-> next[t] - s.shares[t]]
<1>1. /\ s.shares \in [Tasks -> Nat] /\ s.shares \in [Tasks -> Int] /\ O \in SUBSET Tasks
      /\ s.left \in Nat /\ s.last \in BOOLEAN
  BY DEF FillInv, FillStates
<1>2. Pass(s) = [shares |-> next, open |-> O \ closed, left |-> rest, last |-> closed = {}]
  <2> DEFINE want(t) == (s.left * score[t]) \div Sum(Only(score, O))
  <2>1. \A t \in O : w[t] = want(t)
    BY <1>1
  <2>2. closed = {t \in O : want(t) >= Ceil[t] - s.shares[t]}
    BY <2>1
  <2>3. next = [t \in Tasks |-> IF t \in {u \in O : want(u) >= Ceil[u] - s.shares[u]} THEN Ceil[t]
                                ELSE IF t \in O THEN s.shares[t] + want(t) ELSE s.shares[t]]
    <3> HIDE DEF want, w, closed
    <3> QED BY <2>1, <2>2
  <2>4. Pass(s) = LET c == {t \in O : want(t) >= Ceil[t] - s.shares[t]}
                      x == [t \in Tasks |-> IF t \in c THEN Ceil[t]
                                            ELSE IF t \in O THEN s.shares[t] + want(t)
                                            ELSE s.shares[t]]
                  IN [shares |-> x, open |-> O \ c,
                      left |-> s.left - (Sum(x) - Sum(s.shares)), last |-> c = {}]
    BY DEF Pass
  <2> HIDE DEF want, w, closed, next
  <2> QED BY <2>2, <2>3, <2>4
<1>3. /\ w \in [Tasks -> Nat] /\ w \in [Tasks -> Int]
      /\ Sum(w) <= s.left /\ s.left < Sum(w) + Count(O)
      /\ \A t, u \in O : score[t] >= score[u] => w[t] >= w[u]
      /\ \A t \in Tasks : t \notin O => w[t] = 0
  <2>1. \A t \in Tasks : t \notin O => w[t] = 0
    OBVIOUS
  <2> DEFINE l == s.left
  <2>2. l \in Nat /\ O \in SUBSET Tasks /\ O # {}
    BY <1>1
  <2>3. w = [t \in Tasks |-> IF t \in O THEN (l * score[t]) \div Sum(Only(score, O)) ELSE 0]
    OBVIOUS
  <2> HIDE DEF O, l, w
  <2>4. /\ w \in [Tasks -> Nat] /\ Sum(w) <= l /\ l < Sum(w) + Count(O)
        /\ \A t, u \in O : score[t] >= score[u] => w[t] >= w[u]
    BY <2>2, <2>3, Proportions
  <2> QED BY <2>1, <2>4 DEF l
<1> HIDE DEF w
<1>4. (\A t \in Tasks : Ceil[t] \in Nat) /\ ScaledFloor \in Nat /\ \A t \in Tasks : score[t] \in Nat
  BY DemandFacts, FloorFacts
<1>5. \A t \in Tasks : /\ s.shares[t] \in Nat /\ ScaledFloor <= s.shares[t] /\ s.shares[t] <= Ceil[t]
                       /\ t \in O <=> s.shares[t] < Ceil[t]
                       /\ w[t] \in Nat
  BY <1>1, <1>3 DEF FillInv
<1>6. \A t \in Tasks : /\ t \in closed => t \in O /\ next[t] = Ceil[t] /\ next[t] <= s.shares[t] + w[t]
                       /\ t \in O \ closed => next[t] = s.shares[t] + w[t] /\ next[t] < Ceil[t]
                       /\ t \notin O => next[t] = s.shares[t] /\ next[t] = Ceil[t]
  BY <1>4, <1>5
<1>7. next \in [Tasks -> Nat] /\ next \in [Tasks -> Int] /\ DOMAIN next = Tasks
  BY <1>4, <1>5
<1>8. given \in [Tasks -> Int] /\ \A t \in Tasks : given[t] = next[t] - s.shares[t]
  BY <1>5, <1>7
<1>9. closed \in SUBSET O
  OBVIOUS
<1> HIDE DEF closed, next, given
<1>10. Sum(next) = Sum(s.shares) + Sum(given) /\ Sum(given) \in Int /\ Sum(s.shares) \in Int
  <2>1. \A t \in Tasks : next[t] = s.shares[t] + given[t]
    BY <1>5, <1>7, <1>8
  <2> QED BY <1>1, <1>7, <1>8, <2>1, SumAdd, PartialSums
<1>11. rest = s.left - Sum(given)
  BY <1>1, <1>10
<1>12. Sum(given) <= Sum(w) /\ Sum(w) \in Int
  <2>1. \A t \in Tasks : given[t] <= w[t]
    BY <1>3, <1>4, <1>5, <1>6, <1>7, <1>8
  <2> QED BY <1>3, <1>8, <2>1, SumAtMost, PartialSums
<1>13. rest \in Nat
  BY <1>1, <1>3, <1>10, <1>11, <1>12
<1>14. Pass(s) \in FillStates
  <2>1. O \ closed \in SUBSET Tasks /\ (closed = {}) \in BOOLEAN
    BY <1>1
  <2> HIDE DEF rest
  <2> QED BY <1>2, <1>7, <1>13, <2>1 DEF FillStates
<1>15. Sum(next) + rest = Total
  <2>1. Sum(s.shares) + s.left = Total
    BY DEF FillInv
  <2> QED BY <1>1, <1>10, <2>1
<1>16. \A t \in Tasks : /\ ScaledFloor <= next[t] /\ next[t] <= Ceil[t]
                        /\ t \in O \ closed <=> next[t] < Ceil[t]
  BY <1>4, <1>5, <1>6, <1>7
<1>17. \A t \in O \ closed, u \in Tasks : score[t] >= score[u] => next[t] >= next[u]
  <2> SUFFICES ASSUME NEW t \in O \ closed, NEW u \in Tasks, score[t] >= score[u]
               PROVE  next[t] >= next[u]
    OBVIOUS
  <2>0. t \in Tasks /\ s.shares[t] >= s.shares[u] /\ next[t] \in Nat /\ next[u] \in Nat
    BY <1>1, <1>7 DEF FillInv
  <2>1. next[t] = s.shares[t] + w[t]
    BY <1>6, <2>0
  <2>2. CASE u \in O
    <3>1. w[t] >= w[u]
      BY <1>3, <2>2
    <3>2. next[u] <= s.shares[u] + w[u]
      BY <1>5, <1>6, <2>0, <2>2
    <3> QED BY <1>5, <2>0, <2>1, <3>1, <3>2
  <2>3. CASE u \notin O
    BY <1>5, <1>6, <2>0, <2>1, <2>3
  <2> QED BY <2>2, <2>3
<1>18. closed = {} => rest < Count(O \ closed)
  <2> SUFFICES ASSUME closed = {} PROVE rest < Count(O)
    <3>1. closed = {} => O \ closed = O
      OBVIOUS
    <3> QED BY <3>1
  <2>1. \A t \in Tasks : given[t] = w[t]
    BY <1>3, <1>5, <1>6, <1>8
  <2>2. Sum(given) = Sum(w)
    BY <1>3, <1>8, <2>1, SumEqual
  <2>3. Count(O) \in Nat
    BY <1>1, CountFacts
  <2> QED BY <1>1, <1>3, <1>11, <1>12, <2>2, <2>3
<1>19. closed # {} => Count(O \ closed) < Count(O)
  <2> SUFFICES ASSUME closed # {} PROVE Count(O \ closed) < Count(O)
    OBVIOUS
  <2>1. O \ closed \in SUBSET O /\ O \ closed # O
    BY <1>9
  <2> QED BY <1>1, <2>1, CountLess
<1> HIDE DEF O, rest
<1>20. /\ Pass(s).shares = next /\ Pass(s).open = O \ closed
       /\ Pass(s).left = rest /\ Pass(s).last = (closed = {})
  BY <1>2
<1>21. FillInv(Pass(s))
  BY <1>14, <1>15, <1>16, <1>17, <1>18, <1>20 DEF FillInv
<1>22. Pass(s).last \/ Count(Pass(s).open) < Count(O)
  BY <1>19, <1>20
<1> QED BY <1>21, <1>22 DEF O

-----------------------------------------------------------------------------
(* The passes together.                                                    *)

Over(s) == s.last \/ s.left = 0 \/ s.open = {}

LEMMA PassKeeps ==
  ASSUME Demands, NEW s, FillInv(s)
  PROVE  FillInv(Pass(s)) /\ (Over(Pass(s)) \/ Count(Pass(s).open) < Count(s.open))
<1>1. CASE Over(s)
  <2>1. Pass(s) = s
    BY <1>1 DEF Pass, Over
  <2> QED BY <1>1, <2>1
<1>2. CASE ~Over(s)
  <2>1. ~s.last /\ s.left # 0 /\ s.open # {}
    BY <1>2 DEF Over
  <2> QED BY <2>1, PassFacts DEF Over
<1> QED BY <1>1, <1>2

(* TaskCount passes are enough.                                            *)
LEMMA FillEnds ==
  ASSUME Demands, NEW start, FillInv(start)
  PROVE  FillInv(Fill(start)) /\ Over(Fill(start))
<1> DEFINE A == {s \in FillStates : FillInv(s)}
           step == [n \in 1 .. TaskCount |-> [s \in A |-> Pass(s)]]
           Is(r) == r = [k \in 0 .. TaskCount |-> IF k = 0 THEN start ELSE Pass(r[k - 1])]
           c == CHOOSE r : Is(r)
<1>1. \A s \in A : FillInv(s)
  OBVIOUS
<1>2. \A s : FillInv(s) => s \in A
  BY DEF FillInv
<1>3. PICK r : Solution(TaskCount, A, start, step, r)
  <2>1. \A s \in A : Pass(s) \in A
    BY <1>1, <1>2, PassKeeps
  <2>2. start \in A
    BY <1>2
  <2> HIDE DEF A
  <2>3. Recursion(TaskCount, A, start, step)
    BY <2>1, <2>2, TaskFacts DEF Recursion
  <2> HIDE DEF step
  <2> QED BY <2>3, PrimitiveRecursion
<1> HIDE DEF A
<1>4. Is(r)
  <2>1. ASSUME NEW k \in 0 .. TaskCount, k # 0
        PROVE  r[k] = Pass(r[k - 1])
    <3>1. k \in 1 .. TaskCount /\ r[k - 1] \in A
      BY <1>3, <2>1, TaskFacts DEF Solution
    <3>2. step[k][r[k - 1]] = Pass(r[k - 1])
      BY <3>1
    <3> HIDE DEF step
    <3> QED BY <1>3, <3>1, <3>2 DEF Solution
  <2> HIDE DEF step
  <2> QED BY <1>3, <2>1 DEF Solution
<1>5. Is(c)
  BY <1>4
<1>6. Fill(start) = c[TaskCount]
  BY DEF Fill
<1> HIDE DEF c
<1>7. c[0] = start /\ \A k \in 1 .. TaskCount : c[k] = Pass(c[k - 1])
  <2>1. 0 \in 0 .. TaskCount /\ \A k \in 1 .. TaskCount : k \in 0 .. TaskCount /\ k # 0
    BY TaskFacts
  <2>2. ASSUME NEW k \in 0 .. TaskCount
        PROVE  c[k] = IF k = 0 THEN start ELSE Pass(c[k - 1])
    BY <1>5
  <2> QED BY <2>1, <2>2
<1> DEFINE Good(k) == FillInv(c[k]) /\ (Over(c[k]) \/ Count(c[k].open) + k <= TaskCount)
           S == {k \in 0 .. TaskCount : Good(k)}
<1>8. 0 \in S
  <2>1. Count(start.open) \in Nat /\ Count(start.open) <= TaskCount
    <3>1. start.open \in SUBSET Tasks
      BY DEF FillInv, FillStates
    <3> QED BY <3>1, CountFacts
  <2> QED BY <1>7, <2>1, TaskFacts
<1>9. \A k \in 1 .. TaskCount : k - 1 \in S => k \in S
  <2> SUFFICES ASSUME NEW k \in 1 .. TaskCount, k - 1 \in S PROVE Good(k)
    BY TaskFacts
  <2> DEFINE s == c[k - 1]
  <2>1. FillInv(s) /\ (Over(s) \/ Count(s.open) + (k - 1) <= TaskCount) /\ c[k] = Pass(s)
    BY <1>7
  <2> HIDE DEF s
  <2>2. FillInv(Pass(s)) /\ (Over(Pass(s)) \/ Count(Pass(s).open) < Count(s.open))
    BY <2>1, PassKeeps
  <2>3. CASE Over(s)
    <3>1. Pass(s) = s
      BY <2>3 DEF Pass, Over
    <3> QED BY <2>1, <2>3, <3>1
  <2>4. CASE ~Over(s)
    <3>1. Count(Pass(s).open) \in Nat /\ Count(s.open) \in Nat
      <4>1. Pass(s).open \in SUBSET Tasks /\ s.open \in SUBSET Tasks
        BY <2>1, <2>2 DEF FillInv, FillStates
      <4> QED BY <4>1, CountFacts
    <3> QED BY <2>1, <2>2, <2>4, <3>1, TaskFacts
  <2> QED BY <2>3, <2>4
<1>10. Good(TaskCount)
  <2> HIDE DEF S
  <2>1. 0 .. TaskCount \subseteq S
    BY <1>8, <1>9, TaskFacts, InductionUpTo
  <2> QED BY <2>1, TaskFacts DEF S
<1> HIDE DEF S
<1>11. Over(c[TaskCount])
  <2> SUFFICES ASSUME Count(c[TaskCount].open) + TaskCount <= TaskCount PROVE Over(c[TaskCount])
    BY <1>10
  <2>1. c[TaskCount].open \in SUBSET Tasks
    BY <1>10 DEF FillInv, FillStates
  <2>2. c[TaskCount].open = {}
    BY <2>1, CountFacts, TaskFacts
  <2> QED BY <2>2 DEF Over
<1> QED BY <1>6, <1>10, <1>11

(* What is left is less than one execution per open function.              *)
LEMMA Leftover ==
  ASSUME Demands, NEW s, FillInv(s), Over(s), Sum(Ceil) >= Total
  PROVE  s.left = 0 \/ s.left < Count(s.open)
<1>0. s.left \in Nat /\ s.shares \in [Tasks -> Int]
  BY DEF FillInv, FillStates
<1>1. CASE s.open = {}
  <2>1. \A t \in Tasks : s.shares[t] = Ceil[t]
    <3>1. \A t \in Tasks : s.shares[t] \in Nat /\ s.shares[t] <= Ceil[t] /\ ~(s.shares[t] < Ceil[t])
      BY <1>1 DEF FillInv, FillStates
    <3> QED BY <3>1, DemandFacts
  <2>2. Sum(s.shares) = Sum(Ceil) /\ Sum(Ceil) \in Nat
    BY <1>0, <2>1, DemandFacts, SumEqual
  <2>3. Sum(s.shares) + s.left = Total
    BY DEF FillInv
  <2> QED BY <1>0, <2>2, <2>3, TaskFacts
<1>2. CASE s.last
  BY <1>2 DEF FillInv
<1> QED BY <1>1, <1>2 DEF Over

LEMMA StartFacts ==
  ASSUME Demands
  PROVE  FillInv([shares |-> ScaledFloors, open |-> {t \in Tasks : ScaledFloors[t] < Ceil[t]},
                  left |-> Total - Sum(ScaledFloors), last |-> FALSE])
<1> DEFINE O == {t \in Tasks : ScaledFloors[t] < Ceil[t]}
           l == Total - Sum(ScaledFloors)
           s == [shares |-> ScaledFloors, open |-> O, left |-> l, last |-> FALSE]
<1>1. /\ ScaledFloor \in Nat /\ TaskCount * ScaledFloor <= Total
      /\ \A t \in Tasks : ScaledFloor <= Ceil[t] /\ Ceil[t] \in Nat
  BY FloorFacts, DemandFacts
<1>2. /\ ScaledFloors \in [Tasks -> Nat] /\ ScaledFloors \in [Tasks -> Int]
      /\ \A t \in Tasks : ScaledFloors[t] = ScaledFloor
  BY <1>1 DEF ScaledFloors
<1>3. Sum(ScaledFloors) = TaskCount * ScaledFloor /\ TaskCount * ScaledFloor \in Nat
  <2>1. ScaledFloor \in Int
    BY <1>1
  <2> QED BY <1>1, <1>2, <2>1, SumConstant, TaskFacts, Products
<1>4. l \in Nat /\ Sum(ScaledFloors) + l = Total
  BY <1>1, <1>3, TaskFacts
<1>5. \A t \in Tasks : t \in O <=> ScaledFloors[t] < Ceil[t]
  OBVIOUS
<1>6. O \in SUBSET Tasks
  OBVIOUS
<1> HIDE DEF O, l
<1>7. s \in FillStates
  BY <1>2, <1>4, <1>6 DEF FillStates
<1>8. \A t \in Tasks : ScaledFloor <= ScaledFloors[t] /\ ScaledFloors[t] <= Ceil[t]
  BY <1>1, <1>2
<1>9. \A t, u \in Tasks : ScaledFloors[t] >= ScaledFloors[u]
  BY <1>1, <1>2
<1>10. FillInv(s)
  BY <1>4, <1>5, <1>6, <1>7, <1>8, <1>9 DEF FillInv
<1> QED BY <1>10 DEF O, l

-----------------------------------------------------------------------------
(* What rounding left over.                                                *)

(* Among the functions of a round one goes before all others.              *)
LEMMA FirstExists ==
  ASSUME Demands, NEW T \in SUBSET Tasks, T # {}
  PROVE  First(T) \in T /\ \A u \in T \ {First(T)} : Before(First(T), u)
<1> DEFINE Best(n, t) == t \in T /\ t <= n /\ \A u \in T \ {t} : u <= n => Before(t, u)
           S == {n \in 0 .. TaskCount : (\A u \in T : u > n) \/ \E t : Best(n, t)}
<1>0. \A t \in T : t \in Nat /\ t \in 1 .. TaskCount /\ score[t] \in Nat
  BY DemandFacts, TaskFacts
<1>1. 0 \in S
  BY <1>0, TaskFacts
<1>2. \A n \in 1 .. TaskCount : n - 1 \in S => n \in S
  <2> SUFFICES ASSUME NEW n \in 1 .. TaskCount, n - 1 \in S PROVE n \in S
    OBVIOUS
  <2>0. n \in Nat /\ n \in 0 .. TaskCount /\ \A u \in T : u <= n <=> u <= n - 1 \/ u = n
    BY <1>0, TaskFacts
  <2>1. CASE n \notin T
    <3>1. CASE \A u \in T : u > n - 1
      <4>1. \A u \in T : u > n
        BY <1>0, <2>0, <2>1, <3>1
      <4> QED BY <2>0, <4>1
    <3>2. CASE \E t : Best(n - 1, t)
      <4>1. PICK t : Best(n - 1, t)
        BY <3>2
      <4>2. Best(n, t)
        BY <1>0, <2>0, <2>1, <4>1
      <4> HIDE DEF Best
      <4>3. \E x : Best(n, x)
        BY <4>2
      <4> QED BY <2>0, <4>3
    <3> QED BY <3>1, <3>2
  <2>2. CASE n \in T /\ \A u \in T : u > n - 1
    <3>1. Best(n, n)
      BY <1>0, <2>0, <2>2
    <3> HIDE DEF Best
    <3>2. \E x : Best(n, x)
      BY <3>1
    <3> QED BY <2>0, <3>2
  <2>3. CASE n \in T /\ \E t : Best(n - 1, t)
    <3>1. PICK t : Best(n - 1, t)
      BY <2>3
    <3>2. CASE score[n] > score[t]
      <4>1. ASSUME NEW u \in T \ {n}, u <= n PROVE Before(n, u)
        <5>1. u <= n - 1 /\ (u = t \/ Before(t, u))
          BY <2>0, <3>1, <4>1
        <5> QED BY <1>0, <2>3, <3>1, <3>2, <5>1 DEF Before
      <4>2. Best(n, n)
        BY <2>0, <2>3, <4>1
      <4> HIDE DEF Best
      <4>3. \E x : Best(n, x)
        BY <4>2
      <4> QED BY <2>0, <4>3
    <3>3. CASE ~(score[n] > score[t])
      <4>1. Before(t, n)
        BY <1>0, <2>0, <2>3, <3>1, <3>3 DEF Before
      <4>2. Best(n, t)
        BY <1>0, <2>0, <3>1, <4>1
      <4> HIDE DEF Best
      <4>3. \E x : Best(n, x)
        BY <4>2
      <4> QED BY <2>0, <4>3
    <3> QED BY <3>2, <3>3
  <2> QED BY <2>1, <2>2, <2>3
<1>3. TaskCount \in S
  <2> HIDE DEF S
  <2>1. 0 .. TaskCount \subseteq S
    BY <1>1, <1>2, TaskFacts, InductionUpTo
  <2> QED BY <2>1, TaskFacts
<1>4. PICK t : Best(TaskCount, t)
  <2>1. ~(\A u \in T : u > TaskCount)
    <3>1. PICK u \in T : TRUE
      OBVIOUS
    <3>2. u \in 1 .. TaskCount
      BY <1>0
    <3> QED BY <3>2, TaskFacts
  <2> HIDE DEF Best
  <2> QED BY <1>3, <2>1
<1>5. t \in T /\ \A u \in T \ {t} : Before(t, u)
  BY <1>0, <1>4, TaskFacts
<1> QED BY <1>5 DEF First

HandStates == [shares : [Tasks -> Nat], open : SUBSET Tasks, left : Nat, turn : SUBSET Tasks]

(* The functions of the first round that were served go before those that  *)
(* were not, and there is no second round.                                 *)
HandInv(filled, h) ==
  /\ h \in HandStates
  /\ h.open = filled.open /\ h.turn \subseteq h.open
  /\ Sum(h.shares) + h.left = Total
  /\ h.left = 0 \/ h.left < Count(h.turn)
  /\ \A t \in Tasks : h.shares[t] = filled.shares[t] + (IF t \in h.open \ h.turn THEN 1 ELSE 0)
  /\ \A t \in h.open \ h.turn, u \in h.turn : Before(t, u)

LEMMA HandKeeps ==
  ASSUME Demands, NEW filled, FillInv(filled), NEW h, HandInv(filled, h)
  PROVE  /\ HandInv(filled, HandOne(h))
         /\ h.left # 0 => HandOne(h).left = h.left - 1
         /\ h.left = 0 => HandOne(h) = h
<1>1. CASE h.left = 0
  BY <1>1 DEF HandOne
<1>2. CASE h.left # 0
  <2> DEFINE t == First(h.turn)
             shares == [h.shares EXCEPT ![t] = @ + 1]
             later == h.turn \ {t}
  <2>1. /\ h.shares \in [Tasks -> Nat] /\ h.shares \in [Tasks -> Int] /\ h.open \in SUBSET Tasks
        /\ h.left \in Nat /\ h.turn \in SUBSET Tasks
    BY DEF HandInv, HandStates
  <2>2. h.left < Count(h.turn) /\ Count(h.turn) \in Nat /\ h.turn # {}
    BY <1>2, <2>1, CountFacts DEF HandInv
  <2>3. t \in h.turn /\ \A u \in later : Before(t, u)
    BY <2>1, <2>2, FirstExists
  <2> HIDE DEF t
  <2>4. Count(later) = Count(h.turn) - 1 /\ later \in SUBSET Tasks
    BY <2>1, <2>3, CountFacts
  <2>5. later # {} /\ h.left - 1 < Count(later) /\ h.left - 1 \in Nat
    BY <1>2, <2>1, <2>2, <2>4, CountFacts
  <2>6. HandOne(h) = [shares |-> shares, open |-> h.open, left |-> h.left - 1, turn |-> later]
    BY <1>2, <2>2, <2>5 DEF HandOne, t
  <2>7. /\ shares \in [Tasks -> Nat] /\ shares \in [Tasks -> Int] /\ shares[t] = h.shares[t] + 1
        /\ \A u \in Tasks : u # t => shares[u] = h.shares[u]
    BY <2>1, <2>3
  <2>8. t \in Tasks /\ h.shares[t] \in Nat /\ Sum(h.shares) \in Int
    BY <2>1, <2>3, PartialSums
  <2> HIDE DEF shares
  <2>9. Sum(shares) = Sum(h.shares) + 1
    <3>1. Sum(shares) = Sum(h.shares) + (shares[t] - h.shares[t])
      BY <2>1, <2>7, <2>8, SumUpdate
    <3> QED BY <2>7, <2>8, <3>1
  <2>10. Sum(shares) + (h.left - 1) = Total
    <3>1. Sum(h.shares) + h.left = Total
      BY DEF HandInv
    <3> QED BY <2>1, <2>8, <2>9, <3>1
  <2>11. h.open \ later = (h.open \ h.turn) \cup {t} /\ later \subseteq h.open
    BY <2>3 DEF HandInv
  <2>12. \A u \in Tasks : shares[u] = filled.shares[u] + (IF u \in h.open \ later THEN 1 ELSE 0)
    <3> TAKE u \in Tasks
    <3>1. h.shares[u] = filled.shares[u] + (IF u \in h.open \ h.turn THEN 1 ELSE 0)
      BY DEF HandInv
    <3>2. filled.shares[u] \in Nat
      BY DEF FillInv, FillStates
    <3>3. CASE u = t
      BY <2>3, <2>7, <2>11, <3>1, <3>2, <3>3
    <3>4. CASE u # t
      BY <2>7, <2>11, <3>1, <3>4
    <3> QED BY <3>3, <3>4
  <2>13. \A u \in h.open \ later, v \in later : Before(u, v)
    BY <2>3, <2>11 DEF HandInv
  <2>14. HandOne(h) \in HandStates
    BY <2>1, <2>4, <2>5, <2>6, <2>7 DEF HandStates
  <2> HIDE DEF later
  <2>15. /\ HandOne(h).shares = shares /\ HandOne(h).open = h.open
         /\ HandOne(h).left = h.left - 1 /\ HandOne(h).turn = later
    BY <2>6
  <2>16. HandInv(filled, HandOne(h))
    BY <2>5, <2>10, <2>11, <2>12, <2>13, <2>14, <2>15 DEF HandInv
  <2> QED BY <1>2, <2>15, <2>16
<1> QED BY <1>1, <1>2

HandStart(filled) == [shares |-> filled.shares, open |-> filled.open, left |-> filled.left,
                      turn |-> filled.open]

(* Total steps hand everything out.                                        *)
LEMMA HandOutEnds ==
  ASSUME Demands, NEW filled, FillInv(filled), filled.left = 0 \/ filled.left < Count(filled.open)
  PROVE  \E h : HandInv(filled, h) /\ h.left = 0 /\ HandOut(filled) = h.shares
<1> DEFINE A == {h \in HandStates : HandInv(filled, h)}
           start == HandStart(filled)
           step == [n \in 1 .. Total |-> [h \in A |-> HandOne(h)]]
           Is(r) == r = [k \in 0 .. Total |-> IF k = 0 THEN start ELSE HandOne(r[k - 1])]
           c == CHOOSE r : Is(r)
<1>1. \A h \in A : HandInv(filled, h)
  OBVIOUS
<1>2. \A h : HandInv(filled, h) => h \in A
  BY DEF HandInv
<1>3. HandInv(filled, start) /\ start.left = filled.left /\ filled.left <= Total /\ filled.left \in Nat
  <2>1. /\ filled.shares \in [Tasks -> Nat] /\ filled.open \in SUBSET Tasks /\ filled.left \in Nat
    BY DEF FillInv, FillStates
  <2>2. Sum(filled.shares) + filled.left = Total /\ Sum(filled.shares) \in Nat
    BY <2>1, SumBounds DEF FillInv
  <2>3. /\ start.shares = filled.shares /\ start.open = filled.open /\ start.left = filled.left
        /\ start.turn = filled.open /\ start \in HandStates
    BY <2>1 DEF HandStart, HandStates
  <2> HIDE DEF start
  <2>4. HandInv(filled, start)
    <3>1. start.open \ start.turn = {}
      BY <2>3
    <3>2. \A t \in Tasks : start.shares[t] = filled.shares[t] + 0
      BY <2>1, <2>3
    <3> QED BY <2>2, <2>3, <3>1, <3>2 DEF HandInv
  <2> QED BY <2>1, <2>2, <2>3, <2>4, TaskFacts
<1> HIDE DEF start
<1>4. PICK r : Solution(Total, A, start, step, r)
  <2>1. \A h \in A : HandOne(h) \in A
    BY <1>1, <1>2, HandKeeps
  <2>2. start \in A
    BY <1>2, <1>3
  <2> HIDE DEF A
  <2>3. Recursion(Total, A, start, step)
    BY <2>1, <2>2, TaskFacts DEF Recursion
  <2> HIDE DEF step
  <2> QED BY <2>3, PrimitiveRecursion
<1> HIDE DEF A
<1>5. Is(r)
  <2>1. ASSUME NEW k \in 0 .. Total, k # 0
        PROVE  r[k] = HandOne(r[k - 1])
    <3>1. k \in 1 .. Total /\ r[k - 1] \in A
      BY <1>4, <2>1, TaskFacts DEF Solution
    <3>2. step[k][r[k - 1]] = HandOne(r[k - 1])
      BY <3>1
    <3> HIDE DEF step
    <3> QED BY <1>4, <3>1, <3>2 DEF Solution
  <2> HIDE DEF step
  <2> QED BY <1>4, <2>1 DEF Solution
<1>6. Is(c)
  BY <1>5
<1>7. HandOut(filled) = c[Total].shares
  BY DEF HandOut, start, HandStart
<1> HIDE DEF c
<1>8. c[0] = start /\ \A k \in 1 .. Total : c[k] = HandOne(c[k - 1])
  <2>1. 0 \in 0 .. Total /\ \A k \in 1 .. Total : k \in 0 .. Total /\ k # 0
    BY TaskFacts
  <2>2. ASSUME NEW k \in 0 .. Total
        PROVE  c[k] = IF k = 0 THEN start ELSE HandOne(c[k - 1])
    BY <1>6
  <2> QED BY <2>1, <2>2
<1> DEFINE Good(k) == HandInv(filled, c[k]) /\ (c[k].left = 0 \/ c[k].left + k <= Total)
           S == {k \in 0 .. Total : Good(k)}
<1>9. 0 \in S
  BY <1>3, <1>8, TaskFacts
<1>10. \A k \in 1 .. Total : k - 1 \in S => k \in S
  <2> SUFFICES ASSUME NEW k \in 1 .. Total, k - 1 \in S PROVE Good(k)
    BY TaskFacts
  <2> DEFINE h == c[k - 1]
  <2>1. HandInv(filled, h) /\ (h.left = 0 \/ h.left + (k - 1) <= Total) /\ c[k] = HandOne(h)
    BY <1>8
  <2> HIDE DEF h
  <2>2. /\ HandInv(filled, HandOne(h))
        /\ h.left # 0 => HandOne(h).left = h.left - 1
        /\ h.left = 0 => HandOne(h) = h
    BY <2>1, HandKeeps
  <2>3. h.left \in Nat
    BY <2>1 DEF HandInv, HandStates
  <2> QED BY <2>1, <2>2, <2>3, TaskFacts
<1>11. Good(Total)
  <2> HIDE DEF S
  <2>1. 0 .. Total \subseteq S
    BY <1>9, <1>10, TaskFacts, InductionUpTo
  <2> QED BY <2>1, TaskFacts DEF S
<1> HIDE DEF S
<1>12. c[Total].left = 0
  <2>1. c[Total].left \in Nat
    BY <1>11 DEF HandInv, HandStates
  <2> QED BY <1>11, <2>1, TaskFacts
<1> QED BY <1>7, <1>11, <1>12

(* Fairness of the shares, whatever the scores and the bounds.             *)
Fair(x) ==
  /\ Sum(x) = Smaller(Total, Sum(Ceil))
  /\ \A t \in Tasks : ScaledFloor <= x[t] /\ x[t] <= Ceil[t]
  /\ \A t, u \in Tasks :
       /\ score[t] > score[u] => x[t] >= x[u] \/ x[t] = Ceil[t]
       /\ score[t] = score[u] => x[t] <= x[u] + 1 \/ x[u] = Ceil[u]

LEMMA AllocateFair ==
  ASSUME Demands
  PROVE  allocate \in [Tasks -> Nat] /\ Fair(allocate)
<1>0. /\ ScaledFloor \in Nat /\ Sum(Ceil) \in Nat
      /\ Ceil \in [Tasks -> Nat] /\ \A t \in Tasks : Ceil[t] \in Nat /\ ScaledFloor <= Ceil[t]
  BY DemandFacts, FloorFacts
<1>1. CASE Sum(Ceil) < Total
  <2>1. allocate = Ceil
    BY <1>1 DEF allocate
  <2>2. Sum(allocate) = Smaller(Total, Sum(Ceil))
    BY <1>0, <1>1, <2>1, TaskFacts DEF Smaller
  <2> QED BY <1>0, <2>1, <2>2 DEF Fair
<1>2. CASE ~(Sum(Ceil) < Total)
  <2> DEFINE start == [shares |-> ScaledFloors, open |-> {t \in Tasks : ScaledFloors[t] < Ceil[t]},
                       left |-> Total - Sum(ScaledFloors), last |-> FALSE]
             filled == Fill(start)
  <2>1. FillInv(start) /\ allocate = HandOut(filled)
    BY <1>2, StartFacts DEF allocate
  <2> HIDE DEF start
  <2>2. FillInv(filled) /\ Over(filled)
    BY <2>1, FillEnds
  <2> HIDE DEF filled
  <2>3. filled.left = 0 \/ filled.left < Count(filled.open)
    <3>1. Sum(Ceil) >= Total
      BY <1>0, <1>2, TaskFacts
    <3> QED BY <2>2, <3>1, Leftover
  <2>4. PICK h : HandInv(filled, h) /\ h.left = 0 /\ HandOut(filled) = h.shares
    BY <2>2, <2>3, HandOutEnds
  <2> DEFINE x == allocate
  <2>5. x = h.shares /\ x \in [Tasks -> Nat] /\ h.open = filled.open
    BY <2>1, <2>4 DEF HandInv, HandStates
  <2> HIDE DEF x
  <2>6. Sum(x) = Total
    <3>1. Sum(h.shares) + h.left = Total
      BY <2>4 DEF HandInv
    <3>2. Sum(h.shares) \in Nat
      BY <2>5, SumBounds
    <3> QED BY <2>4, <2>5, <3>1, <3>2
  <2>7. Sum(x) = Smaller(Total, Sum(Ceil))
    BY <1>0, <1>2, <2>6, TaskFacts DEF Smaller
  <2> DEFINE F == filled.shares
             served == h.open \ h.turn
  <2>8. \A t \in Tasks : /\ F[t] \in Nat /\ ScaledFloor <= F[t] /\ F[t] <= Ceil[t]
                         /\ t \in h.open <=> F[t] < Ceil[t]
    BY <2>2, <2>5 DEF FillInv, FillStates
  <2>9. \A t \in Tasks : x[t] = F[t] + (IF t \in served THEN 1 ELSE 0)
    BY <2>4, <2>5 DEF HandInv
  <2>10. \A t \in h.open, u \in Tasks : score[t] >= score[u] => F[t] >= F[u]
    BY <2>2, <2>5 DEF FillInv
  <2>11. \A t \in Tasks : score[t] \in Nat
    BY DemandFacts
  <2>12. \A t, u \in Tasks : u \in served /\ t \in h.open \ served => score[u] >= score[t]
    <3> SUFFICES ASSUME NEW t \in Tasks, NEW u \in Tasks, u \in served, t \in h.open \ served
                 PROVE  score[u] >= score[t]
      OBVIOUS
    <3>1. t \in h.turn
      OBVIOUS
    <3>2. Before(u, t)
      BY <2>4, <3>1 DEF HandInv
    <3> QED BY <2>11, <3>2 DEF Before
  <2> HIDE DEF F, served
  <2>13. \A t \in Tasks : ScaledFloor <= x[t] /\ x[t] <= Ceil[t]
    <3> TAKE t \in Tasks
    <3>1. t \in served => t \in h.open
      BY DEF served
    <3> QED BY <1>0, <2>8, <2>9, <3>1
  <2>14. ASSUME NEW t \in Tasks, NEW u \in Tasks
         PROVE  /\ score[t] > score[u] => x[t] >= x[u] \/ x[t] = Ceil[t]
                /\ score[t] = score[u] => x[t] <= x[u] + 1 \/ x[u] = Ceil[u]
    <3>0. /\ F[t] \in Nat /\ F[u] \in Nat /\ Ceil[t] \in Nat /\ Ceil[u] \in Nat
          /\ t \notin h.open => F[t] = Ceil[t] /\ t \notin served
          /\ u \notin h.open => F[u] = Ceil[u] /\ u \notin served
      BY <1>0, <2>8 DEF served
    <3>1. ASSUME score[t] > score[u], t \in h.open PROVE x[t] >= x[u]
      <4>1. F[t] >= F[u]
        BY <2>10, <2>11, <3>1
      <4>2. CASE u \in served
        <5>1. t \in served
          BY <2>11, <2>12, <3>1, <4>2
        <5> QED BY <2>9, <3>0, <4>1, <4>2, <5>1
      <4>3. CASE u \notin served
        BY <2>9, <3>0, <4>1, <4>3
      <4> QED BY <4>2, <4>3
    <3>2. ASSUME score[t] = score[u], u \in h.open PROVE x[t] <= x[u] + 1
      <4>1. F[u] >= F[t]
        BY <2>10, <2>11, <3>2
      <4> QED BY <2>9, <3>0, <4>1
    <3>3. t \notin h.open => x[t] = Ceil[t]
      BY <2>9, <3>0
    <3>4. u \notin h.open => x[u] = Ceil[u]
      BY <2>9, <3>0
    <3> QED BY <3>1, <3>2, <3>3, <3>4
  <2>15. Fair(x)
    BY <2>7, <2>13, <2>14 DEF Fair
  <2> QED BY <2>5, <2>15 DEF x
<1> QED BY <1>1, <1>2

-----------------------------------------------------------------------------
(* The surplus.                                                            *)

Owed(t) == IF pc[t] = "done" THEN 0 ELSE Cap(t)
HeldAll == [t \in Tasks |-> Held(t)]
OwedAll == [t \in Tasks |-> Owed(t)]

Labels == {"run", "claim", "load", "cas", "end", "done"}

(* The shares are those that allocate, or the flat policy, made.           *)
SharesInv ==
  /\ mode \in {"static", "flat"} /\ Demands
  /\ share \in [Tasks -> Nat] /\ Sum(share) <= Total
  /\ mode = "static" => Fair(share)

LocalsInv ==
  /\ pc \in [Tasks -> Labels]
  /\ used \in [Tasks -> Nat] /\ unsupported \in [Tasks -> Nat] /\ claimed \in [Tasks -> Nat]
  /\ requested \in [Tasks -> 0 .. Total] /\ current \in [Tasks -> 0 .. Total]
  /\ available \in Nat /\ failed \subseteq Tasks

(* Nobody exceeds its cap; iterations the frontend does not support exist  *)
(* under flat only.                                                        *)
CapsInv ==
  \A t \in Tasks : /\ used[t] <= Cap(t) /\ Cap(t) <= Total
                   /\ unsupported[t] <= used[t]
                   /\ mode = "static" => unsupported[t] = 0

(* The surplus and the caps of the explorations still under way are        *)
(* covered by the shares.                                                  *)
CoveredInv == available + Sum(OwedAll) <= Sum(share)

BudgetInv == SharesInv /\ LocalsInv /\ CapsInv /\ CoveredInv /\ BudgetConserved

LEMMA HeldFacts ==
  ASSUME SharesInv, LocalsInv
  PROVE  /\ HeldAll \in [Tasks -> Nat] /\ HeldAll \in [Tasks -> Int] /\ Sum(HeldAll) \in Nat
         /\ OwedAll \in [Tasks -> Nat] /\ OwedAll \in [Tasks -> Int] /\ Sum(OwedAll) \in Nat
         /\ \A t \in Tasks : HeldAll[t] = Held(t) /\ OwedAll[t] = Owed(t) /\ Owed(t) <= Sum(OwedAll)
         /\ \A t \in Tasks : Cap(t) \in Nat /\ share[t] \in Nat /\ share[t] <= Total
         /\ Sum(share) \in Nat
<1>1. \A t \in Tasks : Cap(t) \in Nat /\ share[t] \in Nat /\ Held(t) \in Nat /\ Owed(t) \in Nat
  BY DEF SharesInv, LocalsInv, Cap, Held, Owed
<1>2. HeldAll \in [Tasks -> Nat] /\ OwedAll \in [Tasks -> Nat]
  BY <1>1 DEF HeldAll, OwedAll
<1>3. HeldAll \in [Tasks -> Int] /\ OwedAll \in [Tasks -> Int]
  BY <1>2
<1>4. \A t \in Tasks : HeldAll[t] = Held(t) /\ OwedAll[t] = Owed(t)
  BY DEF HeldAll, OwedAll
<1>5. Sum(HeldAll) \in Nat /\ Sum(OwedAll) \in Nat /\ \A t \in Tasks : OwedAll[t] <= Sum(OwedAll)
  BY <1>2, SumBounds
<1>6. Sum(share) \in Nat /\ \A t \in Tasks : share[t] <= Total
  <2>1. Sum(share) \in Nat /\ \A t \in Tasks : share[t] <= Sum(share)
    BY SumBounds DEF SharesInv
  <2> QED BY <1>1, <2>1, TaskFacts DEF SharesInv
<1> QED BY <1>1, <1>2, <1>3, <1>4, <1>5, <1>6

(* What a task holds changes the sums by as much.                          *)
LEMMA Transfer ==
  ASSUME SharesInv, LocalsInv, SharesInv', LocalsInv', NEW t \in Tasks, share' = share,
         \A u \in Tasks : u # t => pc'[u] = pc[u] /\ used'[u] = used[u] /\ claimed'[u] = claimed[u]
  PROVE  /\ Sum(HeldAll') = Sum(HeldAll) + (Held(t)' - Held(t))
         /\ Sum(OwedAll') = Sum(OwedAll) + (Owed(t)' - Owed(t))
<1>1. /\ HeldAll \in [Tasks -> Int] /\ OwedAll \in [Tasks -> Int]
      /\ \A u \in Tasks : HeldAll[u] = Held(u) /\ OwedAll[u] = Owed(u)
  BY HeldFacts
<1>2. /\ HeldAll' \in [Tasks -> Int] /\ OwedAll' \in [Tasks -> Int]
  <2>1. \A u \in Tasks : Held(u)' \in Int /\ Owed(u)' \in Int
    BY DEF SharesInv, LocalsInv, Held, Owed, Cap
  <2> QED BY <2>1 DEF HeldAll, OwedAll
<1>3. \A u \in Tasks : HeldAll'[u] = Held(u)' /\ OwedAll'[u] = Owed(u)'
  BY DEF HeldAll, OwedAll
<1>4. \A u \in Tasks : u # t => Held(u)' = Held(u) /\ Owed(u)' = Owed(u)
  BY DEF Held, Owed, Cap
<1>5. \A u \in Tasks : u # t => HeldAll'[u] = HeldAll[u] /\ OwedAll'[u] = OwedAll[u]
  BY <1>1, <1>3, <1>4
<1>6. Sum(HeldAll') = Sum(HeldAll) + (HeldAll'[t] - HeldAll[t])
  BY <1>1, <1>2, <1>5, SumUpdate
<1>7. Sum(OwedAll') = Sum(OwedAll) + (OwedAll'[t] - OwedAll[t])
  BY <1>1, <1>2, <1>5, SumUpdate
<1> QED BY <1>1, <1>3, <1>6, <1>7

(* Steps that neither claim nor end leave the sums alone.                  *)
LEMMA Quiet ==
  ASSUME CoveredInv, BudgetConserved, share' = share, claimed' = claimed, mode' = mode,
         available' = available, failed' = failed,
         \A u \in Tasks : /\ pc'[u] = "done" <=> pc[u] = "done"
                          /\ pc[u] = "done" => used'[u] = used[u]
                          /\ unsupported'[u] = 0 => unsupported[u] = 0
  PROVE  CoveredInv' /\ BudgetConserved'
<1>1. \A u \in Tasks : Held(u)' = Held(u) /\ Owed(u)' = Owed(u)
  BY DEF Held, Owed, Cap
<1>2. HeldAll' = HeldAll /\ OwedAll' = OwedAll
  BY <1>1 DEF HeldAll, OwedAll
<1>3. CoveredInv'
  BY <1>2 DEF CoveredInv
<1>4. BudgetConserved'
  BY <1>2 DEF BudgetConserved, HeldAll
<1> QED BY <1>3, <1>4

LEMMA BudgetInit == ASSUME Init PROVE BudgetInv
<1>1. Demands /\ mode \in {"static", "flat"}
  BY DEF Init, Demands
<1>2. SharesInv
  <2>1. CASE mode = "static"
    <3>1. share = allocate /\ share \in [Tasks -> Nat] /\ Fair(share)
      BY <1>1, <2>1, AllocateFair DEF Init
    <3>2. Sum(Ceil) \in Nat
      BY <1>1, DemandFacts
    <3>3. Sum(share) <= Total
      BY <3>1, <3>2, TaskFacts DEF Fair, Smaller
    <3> QED BY <1>1, <3>1, <3>3 DEF SharesInv
  <2>2. CASE mode = "flat"
    <3>1. /\ share \in [Tasks -> Nat] /\ share \in [Tasks -> Int]
          /\ \A t \in Tasks : share[t] = MaxIterations
      BY <2>2, BudgetAssumption DEF Init
    <3>2. Sum(share) <= Total
      BY <3>1, FlatFacts, SumAtMost DEF Total
    <3> QED BY <1>1, <2>2, <3>1, <3>2, TaskFacts DEF SharesInv
  <2> QED BY <1>1, <2>1, <2>2
<1>3. LocalsInv
  BY TaskFacts DEF Init, LocalsInv, Labels
<1>4. /\ \A t \in Tasks : Cap(t) = share[t] /\ Held(t) = share[t] /\ Owed(t) = share[t]
      /\ \A t \in Tasks : share[t] \in Nat /\ share[t] <= Total
  <2>1. \A t \in Tasks : share[t] \in Nat /\ share[t] <= Total
    BY <1>2, <1>3, HeldFacts
  <2>2. \A t \in Tasks : claimed[t] = 0 /\ pc[t] = "run"
    BY DEF Init
  <2> QED BY <2>1, <2>2 DEF Cap, Held, Owed
<1>5. CapsInv
  BY <1>4 DEF Init, CapsInv
<1>6. HeldAll = share /\ OwedAll = share
  BY <1>2, <1>4 DEF HeldAll, OwedAll, SharesInv
<1>7. Sum(share) \in Nat /\ available = 0
  BY <1>2, <1>3, HeldFacts DEF Init
<1>8. CoveredInv
  BY <1>6, <1>7 DEF CoveredInv
<1>9. BudgetConserved
  BY <1>6, <1>7 DEF BudgetConserved, HeldAll
<1> QED BY <1>2, <1>3, <1>5, <1>8, <1>9 DEF BudgetInv

(* No step changes the demands or the shares.                              *)
LEMMA SharesKept ==
  ASSUME SharesInv, UNCHANGED demand
  PROVE  SharesInv' /\ share' = share /\ mode' = mode
<1>1. Ceil' = Ceil /\ ScaledFloor' = ScaledFloor /\ Demands'
  BY DEF SharesInv, demand, Ceil, ScaledFloor, Demands
<1>2. share' = share /\ mode' = mode /\ score' = score
  BY DEF demand
<1>3. Fair(share) => Fair(share)'
  BY <1>1, <1>2 DEF Fair
<1> QED BY <1>1, <1>2, <1>3 DEF SharesInv

LEMMA StopFacts ==
  ASSUME SharesInv, LocalsInv, CapsInv, NEW t \in Tasks, NEW n \in Stops(t)
  PROVE  n \in Nat /\ used[t] <= n /\ n <= Cap(t)
<1>1. used[t] \in Nat /\ Cap(t) \in Nat /\ used[t] <= Cap(t)
  BY HeldFacts DEF LocalsInv, CapsInv
<1> QED BY <1>1 DEF Stops

LEMMA ExploreKeeps ==
  ASSUME BudgetInv, NEW t \in Tasks, Explore(t)
  PROVE  BudgetInv'
<1> USE DEF BudgetInv
<1>1. PICK n \in Stops(t) :
        /\ Moves(t, "run", IF n = Cap(t) THEN "claim" ELSE "end")
        /\ used' = [used EXCEPT ![t] = n]
        /\ \E u \in Unsupported(n - used[t]) :
             /\ mode = "static" => u = 0
             /\ unsupported' = [unsupported EXCEPT ![t] = @ + u]
        /\ UNCHANGED <<demand, claimed, requested, current, available, failed>>
  BY DEF Explore
<1>2. PICK u \in Unsupported(n - used[t]) :
        /\ mode = "static" => u = 0
        /\ unsupported' = [unsupported EXCEPT ![t] = @ + u]
  BY <1>1
<1>3. n \in Nat /\ used[t] <= n /\ n <= Cap(t)
  BY StopFacts
<1>4. u \in Nat /\ u <= n - used[t]
  <2>1. used[t] \in Nat
    BY DEF LocalsInv
  <2> QED BY <1>2, <1>3, <2>1 DEF Unsupported
<1>5. SharesInv' /\ share' = share /\ mode' = mode
  BY <1>1, SharesKept
<1>6. LocalsInv'
  <2>1. pc' \in [Tasks -> Labels]
    BY <1>1 DEF LocalsInv, Moves, Labels
  <2>2. used' \in [Tasks -> Nat] /\ unsupported' \in [Tasks -> Nat]
    BY <1>1, <1>2, <1>3, <1>4 DEF LocalsInv
  <2> QED BY <1>1, <2>1, <2>2 DEF LocalsInv
<1>7. \A v \in Tasks : Cap(v)' = Cap(v)
  BY <1>1, <1>5 DEF Cap
<1>8. CapsInv'
  <2> SUFFICES ASSUME NEW v \in Tasks
               PROVE  /\ used'[v] <= Cap(v)' /\ Cap(v)' <= Total
                      /\ unsupported'[v] <= used'[v]
                      /\ mode' = "static" => unsupported'[v] = 0
    BY DEF CapsInv
  <2>1. /\ used[v] <= Cap(v) /\ Cap(v) <= Total /\ unsupported[v] <= used[v]
        /\ mode = "static" => unsupported[v] = 0
        /\ used[v] \in Nat /\ unsupported[v] \in Nat
    BY DEF CapsInv, LocalsInv
  <2>2. CASE v = t
    <3>1. used'[v] = n /\ unsupported'[v] = unsupported[v] + u
      BY <1>1, <1>2, <2>2 DEF LocalsInv
    <3> QED BY <1>2, <1>3, <1>4, <1>5, <1>7, <2>1, <2>2, <3>1
  <2>3. CASE v # t
    <3>1. used'[v] = used[v] /\ unsupported'[v] = unsupported[v]
      BY <1>1, <1>2, <2>3 DEF LocalsInv
    <3> QED BY <1>5, <1>7, <2>1, <3>1
  <2> QED BY <2>2, <2>3
<1>9. \A v \in Tasks : /\ pc'[v] = "done" <=> pc[v] = "done"
                       /\ pc[v] = "done" => used'[v] = used[v]
                       /\ unsupported'[v] = 0 => unsupported[v] = 0
  <2> TAKE v \in Tasks
  <2>1. CASE v = t
    <3>1. pc[v] = "run" /\ pc'[v] \in {"claim", "end"} /\ unsupported'[v] = unsupported[v] + u
      BY <1>1, <1>2, <2>1 DEF Moves, LocalsInv
    <3>2. unsupported[v] \in Nat
      BY DEF LocalsInv
    <3> QED BY <1>4, <3>1, <3>2
  <2>2. CASE v # t
    BY <1>1, <1>2, <2>2 DEF Moves, LocalsInv
  <2> QED BY <2>1, <2>2
<1>10. CoveredInv' /\ BudgetConserved'
  BY <1>1, <1>5, <1>9, Quiet
<1> QED BY <1>5, <1>6, <1>8, <1>10

LEMMA ExploreFailsKeeps ==
  ASSUME BudgetInv, NEW t \in Tasks, ExploreFails(t)
  PROVE  BudgetInv'
<1> USE DEF BudgetInv
<1>1. PICK n \in Stops(t) :
        /\ Moves(t, "run", "done")
        /\ used' = [used EXCEPT ![t] = n]
        /\ failed' = failed \cup {t}
        /\ UNCHANGED <<demand, unsupported, claimed, requested, current, available>>
  BY DEF ExploreFails
<1>2. n \in Nat /\ used[t] <= n /\ n <= Cap(t)
  BY StopFacts
<1>3. SharesInv' /\ share' = share /\ mode' = mode
  BY <1>1, SharesKept
<1>4. LocalsInv'
  <2>1. pc' \in [Tasks -> Labels] /\ used' \in [Tasks -> Nat] /\ failed' \subseteq Tasks
    BY <1>1, <1>2 DEF LocalsInv, Moves, Labels
  <2> QED BY <1>1, <2>1 DEF LocalsInv
<1>5. \A v \in Tasks : Cap(v)' = Cap(v)
  BY <1>1, <1>3 DEF Cap
<1>6. CapsInv'
  <2> SUFFICES ASSUME NEW v \in Tasks
               PROVE  /\ used'[v] <= Cap(v)' /\ Cap(v)' <= Total
                      /\ unsupported'[v] <= used'[v]
                      /\ mode' = "static" => unsupported'[v] = 0
    BY DEF CapsInv
  <2>1. /\ used[v] <= Cap(v) /\ Cap(v) <= Total /\ unsupported[v] <= used[v]
        /\ mode = "static" => unsupported[v] = 0
        /\ used[v] \in Nat /\ unsupported[v] \in Nat
    BY DEF CapsInv, LocalsInv
  <2>2. used'[v] = IF v = t THEN n ELSE used[v]
    BY <1>1 DEF LocalsInv
  <2> QED BY <1>1, <1>2, <1>3, <1>5, <2>1, <2>2
<1>7. /\ Sum(HeldAll') = Sum(HeldAll) + (Held(t)' - Held(t))
      /\ Sum(OwedAll') = Sum(OwedAll) + (Owed(t)' - Owed(t))
  <2>1. \A u \in Tasks : u # t => pc'[u] = pc[u] /\ used'[u] = used[u] /\ claimed'[u] = claimed[u]
    BY <1>1 DEF Moves, LocalsInv
  <2> QED BY <1>3, <1>4, <2>1, Transfer
<1>8. Held(t) = Cap(t) /\ Held(t)' = n /\ Owed(t) = Cap(t) /\ Owed(t)' = 0
  <2>1. pc[t] = "run" /\ pc'[t] = "done" /\ used'[t] = n
    BY <1>1 DEF Moves, LocalsInv
  <2> QED BY <2>1 DEF Held, Owed
<1>9. /\ Sum(HeldAll) \in Nat /\ Sum(OwedAll) \in Nat /\ Cap(t) \in Nat /\ Sum(share) \in Nat
      /\ available \in Nat /\ available' = available
  BY <1>1, HeldFacts DEF LocalsInv
<1>10. CoveredInv'
  BY <1>3, <1>7, <1>8, <1>9 DEF CoveredInv
<1>11. BudgetConserved'
  <2>1. (\A u \in Tasks : unsupported[u] = 0) => Sum(HeldAll) + available <= Sum(share)
    BY DEF BudgetConserved, HeldAll
  <2>2. (\A u \in Tasks : unsupported'[u] = 0) => Sum(HeldAll') + available' <= Sum(share')
    BY <1>1, <1>2, <1>3, <1>7, <1>8, <1>9, <2>1
  <2>3. failed' # {}
    BY <1>1
  <2> QED BY <2>2, <2>3 DEF BudgetConserved, HeldAll
<1> QED BY <1>3, <1>4, <1>6, <1>10, <1>11

(* Steps between the exploration and the claim.                            *)
LEMMA LocalKeeps ==
  ASSUME BudgetInv, NEW t \in Tasks,
         Unproductive(t) \/ Request(t) \/ Load(t) \/ NothingThere(t) \/ CasFails(t)
  PROVE  BudgetInv'
<1> USE DEF BudgetInv
<1>1. UNCHANGED <<demand, used, unsupported, claimed, available, failed>>
  BY DEF Unproductive, Request, Load, NothingThere, CasFails, local
<1>2. SharesInv' /\ share' = share /\ mode' = mode
  BY <1>1, SharesKept
<1>3. available \in Nat /\ available <= Total
  <2>1. Sum(OwedAll) \in Nat /\ Sum(share) \in Nat /\ available \in Nat
    BY HeldFacts DEF LocalsInv
  <2> QED BY <2>1, TaskFacts DEF CoveredInv, SharesInv
<1>4. /\ pc' \in [Tasks -> Labels]
      /\ \A v \in Tasks : pc'[v] = "done" <=> pc[v] = "done"
  BY DEF Unproductive, Request, Load, NothingThere, CasFails, Moves, LocalsInv, Labels
<1>5. requested' \in [Tasks -> 0 .. Total]
  <2>1. CASE Request(t)
    <3>1. /\ requested' = [requested EXCEPT
                             ![t] = Smaller(Larger(share[t] \div 4, 1), available \div 2)]
          /\ share[t] \in Nat
      BY <2>1 DEF Request, SharesInv
    <3>2. share[t] \div 4 \in Nat /\ available \div 2 \in Nat /\ available \div 2 <= available
      BY <1>3, <3>1
    <3>3. Smaller(Larger(share[t] \div 4, 1), available \div 2) \in 0 .. Total
      BY <1>3, <3>2, TaskFacts DEF Smaller, Larger
    <3> QED BY <3>1, <3>3 DEF LocalsInv
  <2>2. CASE Unproductive(t) \/ Load(t) \/ NothingThere(t) \/ CasFails(t)
    <3>1. 0 \in 0 .. Total
      BY TaskFacts
    <3>2. requested' \in {requested, [requested EXCEPT ![t] = 0]}
      BY <2>2 DEF Unproductive, Load, NothingThere, CasFails, Forget, local
    <3> QED BY <3>1, <3>2 DEF LocalsInv
  <2> QED BY <2>1, <2>2
<1>6. current' \in [Tasks -> 0 .. Total]
  <2>1. available \in 0 .. Total /\ 0 \in 0 .. Total
    BY <1>3, TaskFacts
  <2> QED BY <2>1 DEF Unproductive, Request, Load, NothingThere, CasFails, Forget, local, LocalsInv
<1>7. LocalsInv'
  BY <1>1, <1>4, <1>5, <1>6 DEF LocalsInv
<1>8. CapsInv'
  BY <1>1, <1>2 DEF CapsInv, Cap
<1>9. CoveredInv' /\ BudgetConserved'
  BY <1>1, <1>2, <1>4, Quiet
<1> QED BY <1>2, <1>7, <1>8, <1>9

(* A claim moves executions from the surplus to a cap.                     *)
LEMMA CasKeeps ==
  ASSUME BudgetInv, NEW t \in Tasks, Cas(t)
  PROVE  BudgetInv'
<1> USE DEF BudgetInv
<1> DEFINE k == ToClaim(t)
<1>1. /\ UNCHANGED <<demand, used, unsupported, failed>> /\ available = current[t]
      /\ pc[t] = "cas" /\ pc' = [pc EXCEPT ![t] = IF k > 0 THEN "run" ELSE "end"]
      /\ available' = current[t] - k
      /\ claimed' = [claimed EXCEPT ![t] = @ + k]
      /\ requested' = [requested EXCEPT ![t] = 0] /\ current' = [current EXCEPT ![t] = 0]
  BY DEF Cas, Moves, Forget
<1>2. k \in Nat /\ k <= available /\ available \in Nat /\ available' = available - k /\ available' \in Nat
  <2>1. current[t] \in Nat /\ requested[t] \in Nat
    BY TaskFacts DEF LocalsInv
  <2>2. k \in Nat /\ k <= current[t]
    BY <2>1 DEF ToClaim, Smaller
  <2> QED BY <1>1, <2>1, <2>2
<1> HIDE DEF k
<1>3. SharesInv' /\ share' = share /\ mode' = mode
  BY <1>1, SharesKept
<1>4. LocalsInv'
  <2>1. pc' \in [Tasks -> Labels] /\ claimed' \in [Tasks -> Nat]
    BY <1>1, <1>2 DEF LocalsInv, Labels
  <2>2. requested' \in [Tasks -> 0 .. Total] /\ current' \in [Tasks -> 0 .. Total]
    BY <1>1, TaskFacts DEF LocalsInv
  <2> QED BY <1>1, <1>2, <2>1, <2>2 DEF LocalsInv
<1>5. claimed'[t] = claimed[t] + k /\ claimed[t] \in Nat /\ share[t] \in Nat
  BY <1>1 DEF LocalsInv, SharesInv
<1>6. Cap(t)' = Cap(t) + k /\ Cap(t) \in Nat
  BY <1>2, <1>3, <1>5 DEF Cap
<1>7. \A v \in Tasks : v # t => Cap(v)' = Cap(v)
  BY <1>1, <1>3 DEF Cap, LocalsInv
<1>8. /\ Held(t) = Cap(t) /\ Held(t)' = Cap(t) + k
      /\ Owed(t) = Cap(t) /\ Owed(t)' = Cap(t) + k
  <2>1. pc[t] = "cas" /\ pc'[t] \in {"run", "end"}
    BY <1>1 DEF LocalsInv
  <2> QED BY <1>6, <2>1 DEF Held, Owed
<1>9. /\ Sum(HeldAll) \in Nat /\ Sum(OwedAll) \in Nat /\ Owed(t) <= Sum(OwedAll)
      /\ Sum(share) \in Nat /\ Sum(share) <= Total
  BY HeldFacts DEF SharesInv
<1>10. /\ Sum(HeldAll') = Sum(HeldAll) + k /\ Sum(OwedAll') = Sum(OwedAll) + k
  <2>1. \A u \in Tasks : u # t => pc'[u] = pc[u] /\ used'[u] = used[u] /\ claimed'[u] = claimed[u]
    BY <1>1 DEF LocalsInv
  <2>2. /\ Sum(HeldAll') = Sum(HeldAll) + (Held(t)' - Held(t))
        /\ Sum(OwedAll') = Sum(OwedAll) + (Owed(t)' - Owed(t))
    BY <1>3, <1>4, <2>1, Transfer
  <2> QED BY <1>2, <1>6, <1>8, <1>9, <2>2
<1>11. CapsInv'
  <2> SUFFICES ASSUME NEW v \in Tasks
               PROVE  /\ used'[v] <= Cap(v)' /\ Cap(v)' <= Total
                      /\ unsupported'[v] <= used'[v]
                      /\ mode' = "static" => unsupported'[v] = 0
    BY DEF CapsInv
  <2>1. /\ used[v] <= Cap(v) /\ Cap(v) <= Total /\ unsupported[v] <= used[v]
        /\ mode = "static" => unsupported[v] = 0 /\ used[v] \in Nat
    BY DEF CapsInv, LocalsInv
  <2>2. used[v] \in Nat
    BY DEF LocalsInv
  <2>3. Cap(t) + k <= Total
    BY <1>2, <1>6, <1>8, <1>9, TaskFacts DEF CoveredInv
  <2>4. CASE v = t
    BY <1>1, <1>2, <1>3, <1>6, <2>1, <2>2, <2>3, <2>4
  <2>5. CASE v # t
    BY <1>1, <1>3, <1>7, <2>1, <2>5
  <2> QED BY <2>4, <2>5
<1>12. CoveredInv'
  BY <1>2, <1>3, <1>9, <1>10 DEF CoveredInv
<1>13. BudgetConserved'
  <2>1. Sum(HeldAll') + available' = Sum(HeldAll) + available
    BY <1>2, <1>9, <1>10
  <2> QED BY <1>1, <1>3, <2>1 DEF BudgetConserved, HeldAll
<1> QED BY <1>3, <1>4, <1>11, <1>12, <1>13

(* What an exploration hands back is at most its cap: the surplus does not *)
(* wrap around.                                                            *)
LEMMA UnusedFacts ==
  ASSUME BudgetInv, NEW t \in Tasks, pc[t] # "done"
  PROVE  /\ Unused(t) \in Nat /\ Unused(t) <= Cap(t)
         /\ (available + Unused(t)) % Width = available + Unused(t)
         /\ mode = "static" => Unused(t) = Cap(t) - used[t]
         /\ unsupported[t] = 0 => used[t] + Unused(t) <= Cap(t)
<1> USE DEF BudgetInv
<1>1. /\ used[t] \in Nat /\ unsupported[t] \in Nat /\ share[t] \in Nat /\ claimed[t] \in Nat
      /\ Cap(t) = share[t] + claimed[t] /\ used[t] <= Cap(t) /\ unsupported[t] <= used[t]
  BY DEF LocalsInv, SharesInv, CapsInv, Cap
<1>2. /\ Unused(t) \in Nat /\ Unused(t) <= Cap(t)
      /\ mode = "static" => Unused(t) = Cap(t) - used[t]
      /\ unsupported[t] = 0 => used[t] + Unused(t) <= Cap(t)
  BY <1>1 DEF Unused
<1>3. /\ Sum(OwedAll) \in Nat /\ Owed(t) = Cap(t) /\ Owed(t) <= Sum(OwedAll)
      /\ Sum(share) \in Nat /\ Sum(share) <= Total /\ available \in Nat
  BY HeldFacts DEF SharesInv, LocalsInv, Owed
<1>4. available + Unused(t) \in Nat /\ available + Unused(t) < Width /\ Width \in Nat
  <2>1. Total < Width /\ Width \in Nat /\ Total \in Nat
    BY BudgetAssumption, TaskFacts
  <2>2. available + Sum(OwedAll) <= Sum(share)
    BY DEF CoveredInv
  <2> HIDE DEF BudgetInv
  <2> QED BY <1>1, <1>2, <1>3, <2>1, <2>2
<1>5. \A a, b \in Nat : a < b => a % b = a
  OBVIOUS
<1> QED BY <1>2, <1>4, <1>5

LEMMA DonateKeeps ==
  ASSUME BudgetInv, NEW t \in Tasks, Donate(t)
  PROVE  BudgetInv'
<1> USE DEF BudgetInv
<1> DEFINE k == Unused(t)
<1>1. /\ UNCHANGED <<demand, used, unsupported, claimed, requested, current, failed>>
      /\ pc[t] = "end" /\ pc' = [pc EXCEPT ![t] = "done"]
      /\ available' = (available + k) % Width
  BY DEF Donate, Moves, local
<1>2. /\ k \in Nat /\ k <= Cap(t) /\ available' = available + k
      /\ mode = "static" => k = Cap(t) - used[t]
      /\ unsupported[t] = 0 => used[t] + k <= Cap(t)
  BY <1>1, UnusedFacts
<1> HIDE DEF k
<1>3. SharesInv' /\ share' = share /\ mode' = mode
  BY <1>1, SharesKept
<1>4. /\ Sum(HeldAll) \in Nat /\ Sum(OwedAll) \in Nat /\ Sum(share) \in Nat /\ Cap(t) \in Nat
      /\ available \in Nat /\ used[t] \in Nat
  BY HeldFacts DEF LocalsInv
<1>5. LocalsInv'
  <2>1. pc' \in [Tasks -> Labels]
    BY <1>1 DEF LocalsInv, Labels
  <2> QED BY <1>1, <1>2, <1>4, <2>1 DEF LocalsInv
<1>6. CapsInv'
  BY <1>1, <1>3 DEF CapsInv, Cap
<1>7. Held(t) = Cap(t) /\ Held(t)' = used[t] /\ Owed(t) = Cap(t) /\ Owed(t)' = 0
  <2>1. pc[t] = "end" /\ pc'[t] = "done" /\ used'[t] = used[t]
    BY <1>1 DEF LocalsInv
  <2> QED BY <2>1 DEF Held, Owed
<1>8. /\ Sum(HeldAll') = Sum(HeldAll) + (used[t] - Cap(t))
      /\ Sum(OwedAll') = Sum(OwedAll) + (0 - Cap(t))
  <2>1. \A u \in Tasks : u # t => pc'[u] = pc[u] /\ used'[u] = used[u] /\ claimed'[u] = claimed[u]
    BY <1>1 DEF LocalsInv
  <2>2. /\ Sum(HeldAll') = Sum(HeldAll) + (Held(t)' - Held(t))
        /\ Sum(OwedAll') = Sum(OwedAll) + (Owed(t)' - Owed(t))
    BY <1>3, <1>5, <2>1, Transfer
  <2> QED BY <1>7, <2>2
<1>9. CoveredInv'
  BY <1>2, <1>3, <1>4, <1>8 DEF CoveredInv
<1>10. BudgetConserved'
  <2>1. unsupported[t] = 0 => Sum(HeldAll') + available' <= Sum(HeldAll) + available
    BY <1>2, <1>4, <1>8
  <2>2. mode = "static" => Sum(HeldAll') + available' = Sum(HeldAll) + available
    BY <1>2, <1>4, <1>8
  <2>3. /\ (\A u \in Tasks : unsupported[u] = 0) => Sum(HeldAll) + available <= Sum(share)
        /\ mode = "static" /\ failed = {} => Sum(HeldAll) + available = Sum(share)
    BY DEF BudgetConserved, HeldAll
  <2>4. Sum(HeldAll') + available' \in Int
    BY <1>2, <1>4, <1>8
  <2>5. /\ (\A u \in Tasks : unsupported'[u] = 0) => Sum(HeldAll') + available' <= Sum(share')
        /\ mode' = "static" /\ failed' = {} => Sum(HeldAll') + available' = Sum(share')
    BY <1>1, <1>3, <1>4, <2>1, <2>2, <2>3, <2>4
  <2> QED BY <2>5 DEF BudgetConserved, HeldAll
<1> QED BY <1>3, <1>5, <1>6, <1>9, <1>10

LEMMA BudgetNext == ASSUME BudgetInv, [Next]_vars PROVE BudgetInv'
<1>1. CASE \E t \in Tasks : Task(t)
  <2>1. PICK t \in Tasks : Task(t)
    BY <1>1
  <2> QED BY <2>1, ExploreKeeps, ExploreFailsKeeps, LocalKeeps, CasKeeps, DonateKeeps DEF Task
<1>2. CASE UNCHANGED vars
  <2>1. UNCHANGED <<demand, pc, used, unsupported, claimed, requested, current, available, failed>>
    BY <1>2 DEF vars, local
  <2>2. SharesInv' /\ share' = share /\ mode' = mode
    BY <2>1, SharesKept DEF BudgetInv
  <2>3. LocalsInv' /\ CapsInv'
    BY <2>1, <2>2 DEF BudgetInv, LocalsInv, CapsInv, Cap
  <2>4. CoveredInv' /\ BudgetConserved'
    BY <2>1, <2>2, Quiet DEF BudgetInv
  <2> QED BY <2>2, <2>3, <2>4 DEF BudgetInv
<1> QED BY <1>1, <1>2 DEF Next

LEMMA BudgetInvariant == Spec => []BudgetInv
<1>1. Init => BudgetInv
  BY BudgetInit
<1>2. BudgetInv /\ [Next]_vars => BudgetInv'
  BY BudgetNext
<1> QED BY <1>1, <1>2, PTL DEF Spec

-----------------------------------------------------------------------------
(* The results.                                                            *)

(* Every variable of the layer's budget keeps its type: nobody makes,      *)
(* claims or asks for more executions than the layer was given in all.     *)
THEOREM TypeCorrect == Spec => []TypeOK
<1>1. BudgetInv => TypeOK
  <2> SUFFICES ASSUME BudgetInv PROVE TypeOK
    OBVIOUS
  <2> USE DEF BudgetInv
  <2>1. \A t \in Tasks : /\ share[t] \in Nat /\ used[t] \in Nat /\ unsupported[t] \in Nat
                         /\ claimed[t] \in Nat /\ Cap(t) = share[t] + claimed[t]
                         /\ used[t] <= Cap(t) /\ Cap(t) <= Total /\ unsupported[t] <= used[t]
    BY DEF SharesInv, LocalsInv, CapsInv, Cap
  <2>2. \A t \in Tasks : /\ share[t] \in 0 .. Total /\ used[t] \in 0 .. Total
                         /\ unsupported[t] \in 0 .. Total /\ claimed[t] \in 0 .. Total
    BY <2>1, TaskFacts
  <2>3. available \in 0 .. Width - 1
    <3>1. Sum(OwedAll) \in Nat /\ Sum(share) \in Nat /\ available \in Nat /\ Sum(share) <= Total
      BY HeldFacts DEF LocalsInv, SharesInv
    <3> QED BY <3>1, TaskFacts, BudgetAssumption DEF CoveredInv
  <2> QED BY <2>2, <2>3 DEF TypeOK, SharesInv, LocalsInv, Demands, Labels
<1> QED BY <1>1, BudgetInvariant, PTL

(* allocate splits the whole total as far as the ceilings allow, within    *)
(* every function's bounds and, below the ceilings, in the order of the    *)
(* scores, for every number of functions with and without custom           *)
(* generators, and every score, floor and ceiling factor.                  *)
THEOREM AllocationIsFair == Spec => []AllocationFair
<1>1. BudgetInv => AllocationFair
  BY DEF BudgetInv, SharesInv, Fair, AllocationFair
<1> QED BY <1>1, BudgetInvariant, PTL

(* Claims, retries and donations of any number of explorations neither     *)
(* make executions up nor, under static, lose any.                         *)
THEOREM BudgetIsConserved == Spec => []BudgetConserved
<1>1. BudgetInv => BudgetConserved
  BY DEF BudgetInv
<1> QED BY <1>1, BudgetInvariant, PTL

(* fetch_add of a donation never wraps around, and an exchange never takes *)
(* more than there is: no count of the surplus is ever off by 2^32.        *)
THEOREM SurplusNeverWraps ==
  Spec => [][\A t \in Tasks : /\ Donate(t) => available' = available + Unused(t)
                              /\ Cas(t) => available' + ToClaim(t) = available]_vars
<1> DEFINE A == \A t \in Tasks : /\ Donate(t) => available' = available + Unused(t)
                                 /\ Cas(t) => available' + ToClaim(t) = available
<1>1. BudgetInv /\ [Next]_vars => [A]_vars
  <2> SUFFICES ASSUME BudgetInv, NEW t \in Tasks
               PROVE  /\ Donate(t) => available' = available + Unused(t)
                      /\ Cas(t) => available' + ToClaim(t) = available
    OBVIOUS
  <2>1. ASSUME Donate(t) PROVE available' = available + Unused(t)
    <3>1. pc[t] # "done" /\ available' = (available + Unused(t)) % Width
      BY <2>1 DEF Donate, Moves
    <3> QED BY <3>1, UnusedFacts
  <2>2. ASSUME Cas(t) PROVE available' + ToClaim(t) = available
    <3>1. current[t] \in Nat /\ requested[t] \in Nat
      BY TaskFacts DEF BudgetInv, LocalsInv
    <3>2. ToClaim(t) \in Nat
      BY <3>1 DEF ToClaim, Smaller
    <3> QED BY <2>2, <3>1, <3>2 DEF Cas
  <2> QED BY <2>1, <2>2
<1> QED BY <1>1, BudgetInvariant, PTL DEF Spec
=============================================================================
