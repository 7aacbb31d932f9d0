------------------------ MODULE BatchSchedulerProofs ------------------------
(***************************************************************************)
(* Theorems about BatchScheduler for any number of functions, any budgets, *)
(* ranks and bounds.                                                       *)
(***************************************************************************)
EXTENDS BatchScheduler, TLAPS

(* The bounds of the integer constants, for the provers.                   *)
LEMMA Constants ==
  /\ TaskCount \in Nat /\ BatchSize \in Nat /\ MaxU32 \in Nat /\ MaxStreak \in Nat
  /\ Unbounded \notin Int /\ Unbounded # 0
  /\ Grants \subseteq Budget /\ Used \subseteq Nat /\ Ranks \subseteq Int
  /\ NoDeferral \notin Budget /\ NoLease \notin Entry
  /\ Tasks \subseteq Nat /\ Budget = (0 .. MaxU32) \cup {Unbounded}
BY SizeAssumption, ValueAssumption, AbsentAssumption DEF Budget, Tasks

(* merge_budgets stays within Option<u32> and never turns work into none.  *)
LEMMA MergeBudgets ==
  ASSUME NEW a \in Budget, NEW b \in Budget
  PROVE  /\ merge_budgets(a, b) \in Budget
         /\ a # 0 => merge_budgets(a, b) # 0
BY Constants DEF merge_budgets, saturating_add

(* deduct stays within Option<u32>.                                        *)
LEMMA Deduct ==
  ASSUME NEW a \in Budget, NEW used \in Nat
  PROVE  deduct(a, used) \in Budget
BY Constants DEF deduct, saturating_sub

(* A selection of a sequence picks different positions of it, in order.    *)
LEMMA SelectionFacts ==
  ASSUME NEW S, NEW q \in Seq(S), NEW keep \in SUBSET DOMAIN q,
         NEW r \in Selections(q, keep)
  PROVE  /\ r \in Seq(S)
         /\ \A i \in DOMAIN r : \E k \in keep : r[i] = q[k]
         /\ \A k \in keep : \E i \in DOMAIN r : r[i] = q[k]
         /\ \A i, j \in DOMAIN r :
              i # j => \E k, m \in keep : k # m /\ r[i] = q[k] /\ r[j] = q[m]
<1>1. PICK n \in 0 .. Len(q) : \E f \in [1 .. n -> keep] :
             IsSelection(q, keep, f) /\ r = [i \in DOMAIN f |-> q[f[i]]]
  BY DEF Selections
<1>2. PICK f \in [1 .. n -> keep] :
             IsSelection(q, keep, f) /\ r = [i \in DOMAIN f |-> q[f[i]]]
  BY <1>1
<1>3. DOMAIN f = 1 .. n /\ DOMAIN r = 1 .. n
  BY <1>2
<1>4. \A i \in 1 .. n : r[i] = q[f[i]] /\ q[f[i]] \in S
  <2>1. \A k \in DOMAIN q : q[k] \in S
    OBVIOUS
  <2> QED BY <1>2, <1>3, <2>1
<1>5. r \in Seq(S)
  <2>1. r \in [1 .. n -> S]
    BY <1>2, <1>3, <1>4
  <2>2. n \in Nat
    OBVIOUS
  <2> QED BY <2>1, <2>2
<1>6. \A i, j \in 1 .. n : f[i] = f[j] => i = j
  <2> SUFFICES ASSUME NEW i \in 1 .. n, NEW j \in 1 .. n, f[i] = f[j], i # j
               PROVE FALSE
    OBVIOUS
  <2>1. f[i] \in Int /\ f[j] \in Int
    BY DOMAIN q = 1 .. Len(q)
  <2>2. i < j \/ j < i
    OBVIOUS
  <2> QED BY <1>2, <1>3, <2>1, <2>2 DEF IsSelection
<1>7. \A i \in 1 .. n : f[i] \in keep
  OBVIOUS
<1>8. \A k \in keep : \E i \in 1 .. n : f[i] = k
  BY <1>2, <1>3 DEF IsSelection
<1>9. \A i, j \in 1 .. n :
        i # j => \E k, m \in keep : k # m /\ r[i] = q[k] /\ r[j] = q[m]
  BY <1>4, <1>6, <1>7
<1>10. \A i \in 1 .. n : \E k \in keep : r[i] = q[k]
  BY <1>4, <1>7
<1>11. \A k \in keep : \E i \in 1 .. n : r[i] = q[k]
  BY <1>4, <1>8
<1>12. DOMAIN r = 1 .. n
  BY <1>3
<1>13. \A i \in DOMAIN r : \E k \in keep : r[i] = q[k]
  BY <1>10, <1>12
<1>14. \A k \in keep : \E i \in DOMAIN r : r[i] = q[k]
  BY <1>11, <1>12
<1>15. \A i, j \in DOMAIN r :
         i # j => \E k, m \in keep : k # m /\ r[i] = q[k] /\ r[j] = q[m]
  <2> TAKE i, j \in DOMAIN r
  <2> HAVE i # j
  <2>1. i \in 1 .. n /\ j \in 1 .. n
    BY <1>12
  <2> QED BY <1>9, <2>1, Zenon
<1> QED BY <1>5, <1>13, <1>14, <1>15

-----------------------------------------------------------------------------
(* What each operation leaves well-typed.                                  *)

LEMMA NewEntryType ==
  ASSUME NEW t \in Tasks, NEW b \in Budget
  PROVE  /\ NewEntry(t, b) \in Entry
         /\ NewEntry(t, b).task = t
         /\ NewEntry(t, b).remaining = b
BY DEF NewEntry, Entry

LEMMA DecayType ==
  ASSUME NEW c \in 0 .. COOLDOWN_PENALTY
  PROVE  Decay(c) \in 0 .. COOLDOWN_PENALTY /\ Decay(c) # COOLDOWN_PENALTY
BY DEF Decay, COOLDOWN_PENALTY

LEMMA CooldownRange ==
  0 \in 0 .. COOLDOWN_PENALTY /\ COOLDOWN_PENALTY \in 0 .. COOLDOWN_PENALTY
BY DEF COOLDOWN_PENALTY

(* The cooldown map after a batch of t: t gets c, the others tick down.    *)
LEMMA TickType ==
  ASSUME TypeOK, NEW t \in Tasks, NEW c \in 0 .. COOLDOWN_PENALTY
  PROVE  [u \in Tasks |-> IF u = t THEN c ELSE Decay(cooldown[u])]
           \in [Tasks -> 0 .. COOLDOWN_PENALTY]
<1>1. \A u \in Tasks : cooldown[u] \in 0 .. COOLDOWN_PENALTY
  BY DEF TypeOK
<1>2. \A u \in Tasks : Decay(cooldown[u]) \in 0 .. COOLDOWN_PENALTY
  BY <1>1, DecayType
<1> QED BY <1>2

LEMMA LeaseType ==
  ASSUME TypeOK, NEW t \in Tasks, IsLeased(t)
  PROVE  in_flight[t] \in Entry /\ in_flight[t].remaining \in Budget
BY DEF TypeOK, IsLeased, Entry

LEMMA QueueType ==
  ASSUME TypeOK
  PROVE  /\ DOMAIN queue = 1 .. Len(queue) /\ Len(queue) \in Nat
         /\ \A i \in DOMAIN queue :
              queue[i] \in Entry /\ queue[i].task \in Tasks /\ queue[i].remaining \in Budget
<1>1. queue \in Seq(Entry)
  BY DEF TypeOK
<1>2. \A i \in DOMAIN queue : queue[i] \in Entry
  BY <1>1
<1> QED BY <1>1, <1>2 DEF Entry

LEMMA InitTypeOK == Init => TypeOK
<1> SUFFICES ASSUME Init PROVE TypeOK
  OBVIOUS
<1>1. PICK n \in 0 .. TaskCount : \E budgets \in [1 .. n -> Grants] :
        queue = [i \in 1 .. n |-> NewEntry(i - 1, budgets[i])]
  BY DEF Init
<1>2. PICK budgets \in [1 .. n -> Grants] :
        queue = [i \in 1 .. n |-> NewEntry(i - 1, budgets[i])]
  BY <1>1
<1>3. \A i \in 1 .. n : NewEntry(i - 1, budgets[i]) \in Entry
  <2> TAKE i \in 1 .. n
  <2>1. i - 1 \in Tasks
    BY Constants DEF Tasks
  <2>2. budgets[i] \in Budget
    BY Constants
  <2> QED BY <2>1, <2>2, NewEntryType
<1>4. queue \in [1 .. n -> Entry]
  BY <1>2, <1>3
<1>5. queue \in Seq(Entry)
  BY <1>4, Constants
<1> QED BY <1>5, Constants DEF Init, TypeOK, COOLDOWN_PENALTY

LEMMA NextTypeOK == TypeOK /\ [Next]_vars => TypeOK'
<1> SUFFICES ASSUME TypeOK, [Next]_vars PROVE TypeOK'
  OBVIOUS
<1>1. CASE NextBatch
  <2>1. PICK k \in DOMAIN queue :
          /\ queue' \in Selections(queue, Live(queue) \ {k})
          /\ in_flight' = [in_flight EXCEPT ![queue[k].task] = queue[k]]
    BY <1>1 DEF NextBatch
  <2>2. queue' \in Seq(Entry)
    BY <2>1, SelectionFacts DEF TypeOK, Live
  <2> QED BY <1>1, <2>1, <2>2, QueueType DEF NextBatch, TypeOK
<1>2. CASE NextBatchNone
  BY <1>2 DEF NextBatchNone, TypeOK
<1>3. ASSUME NEW t \in Tasks, NEW used \in Used, RecordDeferred(t, used) PROVE TypeOK'
  <2> DEFINE b == merge_budgets(deduct(in_flight[t].remaining, used), deferred[t])
  <2>1. b \in Budget
    BY <1>3, LeaseType, Deduct, MergeBudgets, Constants DEF RecordDeferred, TypeOK
  <2>2. queue' \in Seq(Entry)
    BY <1>3, <2>1, NewEntryType DEF RecordDeferred, TypeOK
  <2>3. cooldown' \in [Tasks -> 0 .. COOLDOWN_PENALTY]
    BY <1>3, TickType, CooldownRange DEF RecordDeferred
  <2> QED BY <1>3, <2>2, <2>3, Constants DEF RecordDeferred, TypeOK
<1>4. ASSUME NEW t \in Tasks, NEW used \in Used, NEW exhausted \in BOOLEAN,
             RecordDrop(t, used, exhausted)
      PROVE  TypeOK'
  <2>1. cooldown' \in [Tasks -> 0 .. COOLDOWN_PENALTY]
    BY <1>4, TickType, CooldownRange DEF RecordDrop
  <2> QED BY <1>4, <2>1, Constants DEF RecordDrop, TypeOK
<1>5. ASSUME NEW t \in Tasks, NEW used \in Used, NEW rank \in Ranks, NEW summary \in Summaries,
             RecordRequeue(t, used, rank, summary)
      PROVE  TypeOK'
  <2>1. deduct(in_flight[t].remaining, used) \in Budget
    BY <1>5, LeaseType, Deduct, Constants DEF RecordRequeue
  <2>2. [task |-> t, remaining |-> deduct(in_flight[t].remaining, used),
         ran |-> TRUE, rank |-> rank] \in Entry
    BY <2>1, Constants DEF Entry
  <2>3. queue' \in Seq(Entry)
    BY <1>5, <2>2 DEF RecordRequeue, TypeOK
  <2>4. cooldown' \in [Tasks -> 0 .. COOLDOWN_PENALTY]
    BY <1>5, TickType, CooldownRange DEF RecordRequeue
  <2>5. miss_streak' \in [Tasks -> 0 .. MaxStreak]
    BY <1>5, Constants DEF RecordRequeue, TypeOK
  <2> QED BY <1>5, <2>3, <2>4, <2>5 DEF RecordRequeue, TypeOK
<1>6. ASSUME NEW t \in Tasks, NEW budget \in Grants, EnqueueDeferred(t, budget) PROVE TypeOK'
  <2>1. budget \in Budget
    BY Constants
  <2> QED BY <1>6, <2>1, MergeBudgets DEF EnqueueDeferred, TypeOK
<1>7. ASSUME NEW t \in Tasks, NEW budget \in Grants, EnqueueMerged(t, budget) PROVE TypeOK'
  <2>1. PICK i \in DOMAIN queue :
          queue' = [queue EXCEPT ![i].remaining = merge_budgets(@, budget)]
    BY <1>7 DEF EnqueueMerged
  <2>2. merge_budgets(queue[i].remaining, budget) \in Budget
    BY QueueType, MergeBudgets, Constants
  <2>3. [queue[i] EXCEPT !.remaining = merge_budgets(@, budget)] \in Entry
    BY <2>2, QueueType DEF Entry
  <2>4. queue' \in Seq(Entry)
    BY <2>1, <2>3 DEF TypeOK
  <2> QED BY <1>7, <2>4 DEF EnqueueMerged, TypeOK
<1>8. ASSUME NEW t \in Tasks, NEW budget \in Grants, EnqueueNew(t, budget) PROVE TypeOK'
  <2>1. NewEntry(t, budget) \in Entry
    BY NewEntryType, Constants
  <2> QED BY <1>8, <2>1 DEF EnqueueNew, TypeOK
<1>9. CASE UNCHANGED vars
  BY <1>9 DEF vars, TypeOK
<1> QED BY <1>1, <1>2, <1>3, <1>4, <1>5, <1>6, <1>7, <1>8, <1>9
        DEF Next, RecordOutcome, Enqueue

(* Every reachable scheduler state is well-typed: budgets never leave      *)
(* Option<u32>, cooldowns never leave 0 .. COOLDOWN_PENALTY.               *)
THEOREM TypeCorrect == Spec => []TypeOK
BY InitTypeOK, NextTypeOK, PTL DEF Spec

-----------------------------------------------------------------------------
(* Leases are exclusive.                                                   *)

(* Appending the entry of a function that is not queued and not leased     *)
(* any more keeps the queue free of duplicates and of leased functions.    *)
LEMMA AppendExclusive ==
  ASSUME TypeOK, QueuedOnce, LeasedNotQueued,
         NEW t \in Tasks, NEW e \in Entry, e.task = t, ~IsQueued(t),
         queue' = Append(queue, e),
         in_flight'[t] = NoLease,
         \A u \in Tasks \ {t} : in_flight'[u] = in_flight[u]
  PROVE  QueuedOnce' /\ LeasedNotQueued'
<1> DEFINE n == Len(queue)
<1>1. n \in Nat /\ DOMAIN queue = 1 .. n /\ DOMAIN queue' = 1 .. n + 1
  BY DEF TypeOK
<1>2. queue'[n + 1] = e /\ \A i \in 1 .. n : queue'[i] = queue[i]
  BY <1>1 DEF TypeOK
<1>3. \A i \in 1 .. n : queue[i].task # t /\ queue[i].task \in Tasks
  BY <1>1, QueueType DEF IsQueued
<1> HIDE DEF n
<1>4. QueuedOnce'
  <2> SUFFICES ASSUME NEW i \in 1 .. n + 1, NEW j \in 1 .. n + 1,
                      queue'[i].task = queue'[j].task
               PROVE  i = j
    BY <1>1 DEF QueuedOnce
  <2>1. (i \in 1 .. n \/ i = n + 1) /\ (j \in 1 .. n \/ j = n + 1)
    BY <1>1
  <2> QED BY <1>1, <1>2, <1>3, <2>1 DEF QueuedOnce
<1>5. LeasedNotQueued'
  <2> SUFFICES ASSUME NEW i \in 1 .. n + 1
               PROVE  in_flight'[queue'[i].task] = NoLease
    BY <1>1 DEF LeasedNotQueued, IsLeased
  <2>1. CASE i \in 1 .. n
    BY <1>1, <1>2, <1>3, <2>1 DEF LeasedNotQueued, IsLeased
  <2>2. CASE i = n + 1
    BY <1>2, <2>2
  <2> QED BY <1>1, <2>1, <2>2
<1> QED BY <1>4, <1>5

(* A leased function is not queued.                                        *)
LEMMA LeasedIsNotQueued ==
  ASSUME LeasedNotQueued, NEW t \in Tasks, IsLeased(t)
  PROVE  ~IsQueued(t)
BY DEF LeasedNotQueued, IsQueued

LEMMA InitLeaseExclusive == Init => LeaseExclusive
<1> SUFFICES ASSUME Init PROVE LeaseExclusive
  OBVIOUS
<1>1. PICK n \in 0 .. TaskCount : \E budgets \in [1 .. n -> Grants] :
        queue = [i \in 1 .. n |-> NewEntry(i - 1, budgets[i])]
  BY DEF Init
<1>2. DOMAIN queue = 1 .. n /\ \A i \in 1 .. n : queue[i].task = i - 1 /\ i - 1 \in Tasks
  BY <1>1, Constants DEF NewEntry, Tasks
<1>3. QueuedOnce
  BY <1>2 DEF QueuedOnce
<1>4. LeasedNotQueued
  BY <1>2 DEF LeasedNotQueued, IsLeased, Init
<1> QED BY <1>3, <1>4 DEF LeaseExclusive, DeferredIsLeased, LeaseKeyed, IsLeased, Init

(* next_batch takes the leased function's only entry out of the queue.     *)
LEMMA NextBatchExclusive ==
  ASSUME TypeOK, LeaseExclusive, NextBatch
  PROVE  LeaseExclusive'
<1>1. PICK k \in DOMAIN queue :
        /\ queue' \in Selections(queue, Live(queue) \ {k})
        /\ in_flight' = [in_flight EXCEPT ![queue[k].task] = queue[k]]
  BY DEF NextBatch
<1> DEFINE keep == Live(queue) \ {k}
<1>2. keep \in SUBSET DOMAIN queue
  BY DEF Live
<1>3. queue \in Seq(Entry) /\ queue' \in Selections(queue, keep)
  BY <1>1 DEF TypeOK
<1>4. /\ \A i \in DOMAIN queue' : \E m \in keep : queue'[i] = queue[m]
      /\ \A i, j \in DOMAIN queue' :
           i # j => \E m, l \in keep : m # l /\ queue'[i] = queue[m] /\ queue'[j] = queue[l]
  BY <1>2, <1>3, SelectionFacts
<1>5. \A m \in keep : m \in DOMAIN queue /\ m # k
  BY <1>2
<1> HIDE DEF keep
<1>6. QueuedOnce'
  <2> SUFFICES ASSUME NEW i \in DOMAIN queue', NEW j \in DOMAIN queue', i # j
               PROVE  queue'[i].task # queue'[j].task
    BY DEF QueuedOnce
  <2>1. PICK m \in keep, l \in keep : m # l /\ queue'[i] = queue[m] /\ queue'[j] = queue[l]
    BY <1>4, Zenon
  <2> QED BY <1>5, <2>1 DEF LeaseExclusive, QueuedOnce
<1>7. LeasedNotQueued'
  <2> SUFFICES ASSUME NEW i \in DOMAIN queue'
               PROVE  in_flight'[queue'[i].task] = NoLease
    BY DEF LeasedNotQueued, IsLeased
  <2>1. PICK m \in keep : queue'[i] = queue[m]
    BY <1>4
  <2>2. queue[m].task # queue[k].task
    BY <1>5 DEF LeaseExclusive, QueuedOnce
  <2>3. in_flight[queue[m].task] = NoLease
    BY <1>5 DEF LeaseExclusive, LeasedNotQueued, IsLeased
  <2> QED BY <1>1, <1>5, <2>1, <2>2, <2>3, QueueType DEF TypeOK
<1>8. queue[k] \in Entry /\ queue[k].task \in Tasks /\ NoLease \notin Entry
  BY QueueType, Constants
<1>9. DeferredIsLeased'
  BY <1>1, <1>8 DEF LeaseExclusive, DeferredIsLeased, IsLeased, NextBatch, TypeOK
<1>10. LeaseKeyed'
  BY <1>1, <1>8 DEF LeaseExclusive, LeaseKeyed, IsLeased, TypeOK
<1> QED BY <1>6, <1>7, <1>9, <1>10 DEF LeaseExclusive

LEMMA NextLeaseExclusive == TypeOK /\ LeaseExclusive /\ [Next]_vars => LeaseExclusive'
<1> SUFFICES ASSUME TypeOK, LeaseExclusive, [Next]_vars PROVE LeaseExclusive'
  OBVIOUS
<1> USE DEF LeaseExclusive
<1>1. CASE NextBatch
  BY <1>1, NextBatchExclusive
<1>2. CASE NextBatchNone
  BY <1>2 DEF NextBatchNone, QueuedOnce, LeasedNotQueued, DeferredIsLeased, LeaseKeyed, IsLeased
<1>3. ASSUME NEW t \in Tasks, NEW used \in Used, RecordDeferred(t, used)
      PROVE  LeaseExclusive'
  <2> DEFINE b == merge_budgets(deduct(in_flight[t].remaining, used), deferred[t])
  <2>1. b \in Budget
    BY <1>3, LeaseType, Deduct, MergeBudgets, Constants DEF RecordDeferred, TypeOK
  <2>2. NewEntry(t, b) \in Entry /\ NewEntry(t, b).task = t
    BY <2>1, NewEntryType
  <2>3. QueuedOnce' /\ LeasedNotQueued'
    BY <1>3, <2>2, LeasedIsNotQueued, AppendExclusive DEF RecordDeferred, TypeOK
  <2>4. DeferredIsLeased' /\ LeaseKeyed'
    BY <1>3 DEF RecordDeferred, DeferredIsLeased, LeaseKeyed, IsLeased, TypeOK
  <2> QED BY <2>3, <2>4
<1>4. ASSUME NEW t \in Tasks, NEW used \in Used, NEW exhausted \in BOOLEAN,
             RecordDrop(t, used, exhausted)
      PROVE  LeaseExclusive'
  <2>1. QueuedOnce'
    BY <1>4 DEF RecordDrop, QueuedOnce
  <2>2. LeasedNotQueued'
    BY <1>4, QueueType DEF RecordDrop, LeasedNotQueued, IsLeased, TypeOK
  <2>3. DeferredIsLeased' /\ LeaseKeyed'
    BY <1>4 DEF RecordDrop, DeferredIsLeased, LeaseKeyed, IsLeased, TypeOK
  <2> QED BY <2>1, <2>2, <2>3
<1>5. ASSUME NEW t \in Tasks, NEW used \in Used, NEW rank \in Ranks, NEW summary \in Summaries,
             RecordRequeue(t, used, rank, summary)
      PROVE  LeaseExclusive'
  <2> DEFINE e == [task |-> t, remaining |-> deduct(in_flight[t].remaining, used),
                   ran |-> TRUE, rank |-> rank]
  <2>1. deduct(in_flight[t].remaining, used) \in Budget
    BY <1>5, LeaseType, Deduct, Constants DEF RecordRequeue
  <2>2. e \in Entry /\ e.task = t
    BY <2>1, Constants DEF Entry
  <2>3. QueuedOnce' /\ LeasedNotQueued'
    <3>1. queue' = Append(queue, e) /\ ~IsQueued(t) /\ in_flight'[t] = NoLease
      BY <1>5, LeasedIsNotQueued DEF RecordRequeue, TypeOK
    <3>2. \A u \in Tasks \ {t} : in_flight'[u] = in_flight[u]
      BY <1>5 DEF RecordRequeue, TypeOK
    <3> QED BY <2>2, <3>1, <3>2, AppendExclusive
  <2>4. DeferredIsLeased' /\ LeaseKeyed'
    BY <1>5 DEF RecordRequeue, DeferredIsLeased, LeaseKeyed, IsLeased, TypeOK
  <2> QED BY <2>3, <2>4
<1>6. ASSUME NEW t \in Tasks, NEW budget \in Grants, EnqueueDeferred(t, budget)
      PROVE  LeaseExclusive'
  BY <1>6 DEF EnqueueDeferred, QueuedOnce, LeasedNotQueued, DeferredIsLeased, LeaseKeyed,
              IsLeased, TypeOK
<1>7. ASSUME NEW t \in Tasks, NEW budget \in Grants, EnqueueMerged(t, budget)
      PROVE  LeaseExclusive'
  <2>1. PICK i \in DOMAIN queue :
          queue' = [queue EXCEPT ![i].remaining = merge_budgets(@, budget)]
    BY <1>7 DEF EnqueueMerged
  <2>2. DOMAIN queue' = DOMAIN queue /\ \A j \in DOMAIN queue : queue'[j].task = queue[j].task
    BY <2>1, QueueType DEF Entry
  <2> QED BY <1>7, <2>2 DEF EnqueueMerged, QueuedOnce, LeasedNotQueued, DeferredIsLeased,
                            LeaseKeyed, IsLeased
<1>8. ASSUME NEW t \in Tasks, NEW budget \in Grants, EnqueueNew(t, budget)
      PROVE  LeaseExclusive'
  <2>1. NewEntry(t, budget) \in Entry /\ NewEntry(t, budget).task = t
    BY NewEntryType, Constants
  <2>2. QueuedOnce' /\ LeasedNotQueued'
    BY <1>8, <2>1, AppendExclusive DEF EnqueueNew, IsLeased
  <2> QED BY <1>8, <2>2 DEF EnqueueNew, DeferredIsLeased, LeaseKeyed, IsLeased
<1>9. CASE UNCHANGED vars
  BY <1>9 DEF vars, QueuedOnce, LeasedNotQueued, DeferredIsLeased, LeaseKeyed, IsLeased
<1> QED BY <1>1, <1>2, <1>3, <1>4, <1>5, <1>6, <1>7, <1>8, <1>9
        DEF Next, RecordOutcome, Enqueue

(* next_batch never hands out a function that is in flight, whatever is    *)
(* enqueued meanwhile, and no deferred budget is orphaned.                 *)
THEOREM LeasesExclusive == Spec => []LeaseExclusive
BY InitTypeOK, NextTypeOK, InitLeaseExclusive, NextLeaseExclusive, PTL DEF Spec

-----------------------------------------------------------------------------
(* Penalties belong to functions with work.                                *)

HasWork(t) ==
  \/ IsLeased(t)
  \/ \E i \in DOMAIN queue : queue[i].task = t /\ queue[i].remaining # 0

(* A function other than the one whose batch ended gains no cooldown.      *)
LEMMA DecayKeepsZero ==
  ASSUME TypeOK, NEW t \in Tasks, NEW c, NEW u \in Tasks \ {t},
         cooldown' = [v \in Tasks |-> IF v = t THEN c ELSE Decay(cooldown[v])],
         cooldown'[u] > 0
  PROVE  cooldown[u] > 0
<1>1. cooldown[u] \in 0 .. COOLDOWN_PENALTY
  BY DEF TypeOK
<1>2. cooldown'[u] = Decay(cooldown[u])
  OBVIOUS
<1> QED BY <1>1, <1>2 DEF Decay, COOLDOWN_PENALTY

(* Appending an entry keeps the entries there are, and adds one.           *)
LEMMA AppendFacts ==
  ASSUME TypeOK, NEW e \in Entry, queue' = Append(queue, e)
  PROVE  /\ \A i \in DOMAIN queue : i \in DOMAIN queue' /\ queue'[i] = queue[i]
         /\ \A i \in DOMAIN queue' : i \in DOMAIN queue \/ queue'[i] = e
         /\ \E i \in DOMAIN queue' : queue'[i] = e
<1> DEFINE n == Len(queue)
<1>1. n \in Nat /\ DOMAIN queue = 1 .. n /\ DOMAIN queue' = 1 .. n + 1
  BY DEF TypeOK
<1>2. queue'[n + 1] = e /\ \A i \in 1 .. n : queue'[i] = queue[i]
  BY <1>1 DEF TypeOK
<1> HIDE DEF n
<1>3. n + 1 \in 1 .. n + 1 /\ \A i \in 1 .. n + 1 : i \in 1 .. n \/ i = n + 1
  BY <1>1
<1> QED BY <1>1, <1>2, <1>3

(* What next_batch does to the queue: the entries left are the live ones   *)
(* but the leased one.                                                     *)
LEMMA NextBatchFacts ==
  ASSUME TypeOK, NEW k \in DOMAIN queue, queue' \in Selections(queue, Live(queue) \ {k})
  PROVE  /\ \A i \in DOMAIN queue' : \E m \in Live(queue) \ {k} : queue'[i] = queue[m]
         /\ \A m \in Live(queue) \ {k} : \E i \in DOMAIN queue' : queue'[i] = queue[m]
         /\ Live(queue) \subseteq DOMAIN queue
         /\ queue[k] \in Entry /\ queue[k].task \in Tasks /\ queue[k] # NoLease
<1> DEFINE keep == Live(queue) \ {k}
<1>1. keep \in SUBSET DOMAIN queue /\ Live(queue) \subseteq DOMAIN queue
  BY DEF Live
<1>2. queue \in Seq(Entry) /\ queue' \in Selections(queue, keep)
  BY DEF TypeOK
<1> HIDE DEF keep
<1>3. /\ \A i \in DOMAIN queue' : \E m \in keep : queue'[i] = queue[m]
      /\ \A m \in keep : \E i \in DOMAIN queue' : queue'[i] = queue[m]
  BY <1>1, <1>2, SelectionFacts
<1>4. queue[k] \in Entry /\ queue[k].task \in Tasks /\ queue[k] # NoLease
  BY QueueType, Constants
<1> QED BY <1>1, <1>3, <1>4 DEF keep

(* The functions other than the one whose batch ended keep their work.     *)
LEMMA OthersKeepWork ==
  ASSUME TypeOK, PenaltiesHaveWork, NEW t \in Tasks, NEW c, NEW m, NEW u \in Tasks \ {t},
         cooldown' = [v \in Tasks |-> IF v = t THEN c ELSE Decay(cooldown[v])],
         miss_streak' = [miss_streak EXCEPT ![t] = m],
         in_flight' = [in_flight EXCEPT ![t] = NoLease],
         \A i \in DOMAIN queue : i \in DOMAIN queue' /\ queue'[i] = queue[i],
         cooldown'[u] > 0 \/ miss_streak'[u] > 0
  PROVE  HasWork(u)'
<1>1. cooldown[u] > 0 \/ miss_streak[u] > 0
  <2>1. CASE cooldown'[u] > 0
    BY <2>1, DecayKeepsZero
  <2>2. CASE miss_streak'[u] > 0
    BY <2>2 DEF TypeOK
  <2> QED BY <2>1, <2>2
<1>2. HasWork(u)
  BY <1>1 DEF PenaltiesHaveWork, HasWork
<1>3. in_flight'[u] = in_flight[u]
  BY DEF TypeOK
<1> QED BY <1>2, <1>3 DEF HasWork, IsLeased

LEMMA InitPenalties == Init => PenaltiesHaveWork
BY DEF Init, PenaltiesHaveWork

LEMMA NextPenalties == TypeOK /\ PenaltiesHaveWork /\ [Next]_vars => PenaltiesHaveWork'
<1> SUFFICES ASSUME TypeOK, PenaltiesHaveWork, [Next]_vars,
                    NEW u \in Tasks, cooldown'[u] > 0 \/ miss_streak'[u] > 0
             PROVE  HasWork(u)'
  BY DEF PenaltiesHaveWork, HasWork
<1> DEFINE Kept == \A i \in DOMAIN queue : i \in DOMAIN queue' /\ queue'[i] = queue[i]
<1>1. ASSUME UNCHANGED <<cooldown, miss_streak>> PROVE HasWork(u)
  BY <1>1 DEF PenaltiesHaveWork, HasWork
<1>2. CASE NextBatch
  <2>1. PICK k \in DOMAIN queue :
          /\ queue' \in Selections(queue, Live(queue) \ {k})
          /\ in_flight' = [in_flight EXCEPT ![queue[k].task] = queue[k]]
    BY <1>2 DEF NextBatch
  <2>2. HasWork(u)
    BY <1>1, <1>2 DEF NextBatch
  <2>3. in_flight'[u] = IF u = queue[k].task THEN queue[k] ELSE in_flight[u]
    BY <2>1, NextBatchFacts DEF TypeOK
  <2>4. CASE in_flight'[u] # NoLease
    BY <2>4 DEF HasWork, IsLeased
  <2>5. CASE in_flight'[u] = NoLease
    <3>1. in_flight[u] = NoLease /\ u # queue[k].task
      BY <2>1, <2>3, <2>5, NextBatchFacts
    <3>2. PICK m \in DOMAIN queue : queue[m].task = u /\ queue[m].remaining # 0
      BY <2>2, <3>1 DEF HasWork, IsLeased
    <3>3. m \in Live(queue) \ {k}
      BY <3>1, <3>2 DEF Live
    <3>4. PICK i \in DOMAIN queue' : queue'[i] = queue[m]
      BY <2>1, <3>3, NextBatchFacts
    <3> QED BY <3>2, <3>4 DEF HasWork
  <2> QED BY <2>4, <2>5
<1>3. CASE NextBatchNone
  <2>1. HasWork(u)
    BY <1>1, <1>3 DEF NextBatchNone
  <2> QED BY <1>3, <2>1 DEF NextBatchNone, HasWork, IsLeased, Live
<1>4. ASSUME NEW t \in Tasks, NEW used \in Used, RecordDeferred(t, used) PROVE HasWork(u)'
  <2> DEFINE b == merge_budgets(deduct(in_flight[t].remaining, used), deferred[t])
  <2>1. b \in Budget
    BY <1>4, LeaseType, Deduct, MergeBudgets, Constants DEF RecordDeferred, TypeOK
  <2>2. NewEntry(t, b) \in Entry /\ queue' = Append(queue, NewEntry(t, b))
    BY <1>4, <2>1, NewEntryType DEF RecordDeferred
  <2>3. Kept
    BY <2>2, AppendFacts
  <2>4. u # t
    BY <1>4 DEF RecordDeferred, TypeOK
  <2> QED BY <1>4, <2>3, <2>4, OthersKeepWork DEF RecordDeferred
<1>5. ASSUME NEW t \in Tasks, NEW used \in Used, NEW exhausted \in BOOLEAN,
             RecordDrop(t, used, exhausted)
      PROVE  HasWork(u)'
  <2>1. Kept
    BY <1>5 DEF RecordDrop
  <2>2. u # t
    BY <1>5 DEF RecordDrop, TypeOK
  <2> QED BY <1>5, <2>1, <2>2, OthersKeepWork DEF RecordDrop
<1>6. ASSUME NEW t \in Tasks, NEW used \in Used, NEW rank \in Ranks, NEW summary \in Summaries,
             RecordRequeue(t, used, rank, summary)
      PROVE  HasWork(u)'
  <2> DEFINE left == deduct(in_flight[t].remaining, used)
             e == [task |-> t, remaining |-> left, ran |-> TRUE, rank |-> rank]
             streak == IF IsMiss(summary, rank) THEN miss_streak[t] + 1 ELSE 0
  <2>1. left \in Budget /\ left # 0
    BY <1>6, LeaseType, Deduct, Constants DEF RecordRequeue
  <2>2. e \in Entry /\ e.task = t /\ e.remaining # 0
    BY <2>1, Constants DEF Entry
  <2>3. queue' = Append(queue, e) /\ miss_streak' = [miss_streak EXCEPT ![t] = streak]
    BY <1>6 DEF RecordRequeue
  <2> HIDE DEF e, streak
  <2>4. Kept /\ \E i \in DOMAIN queue' : queue'[i] = e
    BY <2>2, <2>3, AppendFacts
  <2>5. CASE u = t
    BY <2>2, <2>4, <2>5 DEF HasWork
  <2>6. CASE u # t
    <3>1. /\ cooldown' = [v \in Tasks |-> IF v = t THEN COOLDOWN_PENALTY ELSE Decay(cooldown[v])]
          /\ in_flight' = [in_flight EXCEPT ![t] = NoLease]
      BY <1>6 DEF RecordRequeue
    <3>2. \A i \in DOMAIN queue : i \in DOMAIN queue' /\ queue'[i] = queue[i]
      BY <2>4
    <3>3. u \in Tasks \ {t}
      BY <2>6
    <3> QED BY <2>3, <3>1, <3>2, <3>3, OthersKeepWork
  <2> QED BY <2>5, <2>6
<1>7. ASSUME NEW t \in Tasks, NEW budget \in Grants, EnqueueDeferred(t, budget)
      PROVE  HasWork(u)'
  BY <1>1, <1>7 DEF EnqueueDeferred, HasWork, IsLeased
<1>8. ASSUME NEW t \in Tasks, NEW budget \in Grants, EnqueueMerged(t, budget)
      PROVE  HasWork(u)'
  <2>1. PICK i \in DOMAIN queue :
          queue' = [queue EXCEPT ![i].remaining = merge_budgets(@, budget)]
    BY <1>8 DEF EnqueueMerged
  <2>2. DOMAIN queue' = DOMAIN queue /\ \A j \in DOMAIN queue : queue'[j].task = queue[j].task
    BY <2>1, QueueType DEF Entry
  <2>3. \A j \in DOMAIN queue : queue[j].remaining # 0 => queue'[j].remaining # 0
    <3>1. queue[i].remaining # 0 => merge_budgets(queue[i].remaining, budget) # 0
      BY QueueType, MergeBudgets, Constants
    <3>2. queue'[i].remaining = merge_budgets(queue[i].remaining, budget)
      BY <2>1, QueueType DEF Entry
    <3>3. \A j \in DOMAIN queue : j # i => queue'[j] = queue[j]
      BY <2>1
    <3> QED BY <3>1, <3>2, <3>3
  <2>4. HasWork(u)
    BY <1>1, <1>8 DEF EnqueueMerged
  <2> QED BY <1>8, <2>2, <2>3, <2>4 DEF EnqueueMerged, HasWork, IsLeased
<1>9. ASSUME NEW t \in Tasks, NEW budget \in Grants, EnqueueNew(t, budget)
      PROVE  HasWork(u)'
  <2>1. NewEntry(t, budget) \in Entry /\ queue' = Append(queue, NewEntry(t, budget))
    BY <1>9, NewEntryType, Constants DEF EnqueueNew
  <2>2. Kept
    BY <2>1, AppendFacts
  <2> QED BY <1>1, <1>9, <2>2 DEF EnqueueNew, HasWork, IsLeased
<1>10. CASE UNCHANGED vars
  BY <1>1, <1>10 DEF vars, HasWork, IsLeased
<1> QED BY <1>2, <1>3, <1>4, <1>5, <1>6, <1>7, <1>8, <1>9, <1>10
        DEF Next, RecordOutcome, Enqueue

(* A cooldown or a miss streak is never left behind for a later enqueue,   *)
(* although next_batch drops spent entries without touching either map:    *)
(* record_outcome keeps them only for a function it puts back with budget, *)
(* and merge_budgets takes none away.                                      *)
THEOREM PenaltiesBelongToWork == Spec => []PenaltiesHaveWork
BY InitTypeOK, NextTypeOK, InitPenalties, NextPenalties, PTL DEF Spec

-----------------------------------------------------------------------------
(* An exhausted frontier.                                                  *)

(* The same three parts, of the next state.                                *)
LEMMA StaysExhausted ==
  ASSUME queue' # <<>> \/ \E t \in Tasks : in_flight'[t] # NoLease,
         \A t \in Tasks : deferred'[t] = NoDeferral,
         \A i \in DOMAIN queue' : IsRevisit(queue'[i]),
         \A t \in Tasks : in_flight'[t] # NoLease => IsRevisit(in_flight'[t])
  PROVE  IsFrontierExhausted'
BY DEF IsFrontierExhausted, IsLeased

(* An outcome or a next_batch without a lease left behind: all is done.    *)
LEMMA CompleteOrExhausted ==
  ASSUME \A t \in Tasks : deferred'[t] = NoDeferral,
         \A i \in DOMAIN queue' : IsRevisit(queue'[i]),
         \A t \in Tasks : in_flight'[t] # NoLease => IsRevisit(in_flight'[t])
  PROVE  IsComplete' \/ IsFrontierExhausted'
<1>1. CASE queue' # <<>> \/ \E t \in Tasks : in_flight'[t] # NoLease
  BY <1>1, StaysExhausted
<1>2. CASE ~(queue' # <<>> \/ \E t \in Tasks : in_flight'[t] # NoLease)
  BY <1>2 DEF IsComplete, IsLeased
<1> QED BY <1>1, <1>2

Reopening ==
  \/ IsComplete'
  \/ \E t \in Tasks, budget \in Grants : Enqueue(t, budget)
  \/ \E t \in Tasks, used \in Used, rank \in Ranks, summary \in Summaries :
       rank > 0 /\ RecordRequeue(t, used, rank, summary)

LEMMA ReopeningStep ==
  ASSUME TypeOK, [Next]_vars, IsFrontierExhausted, ~IsFrontierExhausted'
  PROVE  Reopening
<1>1. /\ \A t \in Tasks : deferred[t] = NoDeferral
      /\ \A i \in DOMAIN queue : IsRevisit(queue[i])
      /\ \A t \in Tasks : in_flight[t] # NoLease => IsRevisit(in_flight[t])
  BY DEF IsFrontierExhausted, IsLeased
<1>2. CASE NextBatch
  <2>1. PICK k \in DOMAIN queue :
          /\ queue' \in Selections(queue, Live(queue) \ {k})
          /\ in_flight' = [in_flight EXCEPT ![queue[k].task] = queue[k]]
    BY <1>2 DEF NextBatch
  <2>2. \A t \in Tasks : in_flight'[t] = IF t = queue[k].task THEN queue[k] ELSE in_flight[t]
    BY <2>1, NextBatchFacts DEF TypeOK
  <2>3. \A t \in Tasks : in_flight'[t] # NoLease => IsRevisit(in_flight'[t])
    BY <1>1, <2>1, <2>2
  <2>4. \A i \in DOMAIN queue' : IsRevisit(queue'[i])
    <3> TAKE i \in DOMAIN queue'
    <3>1. PICK m \in DOMAIN queue : queue'[i] = queue[m]
      BY <2>1, NextBatchFacts
    <3> QED BY <1>1, <3>1
  <2>5. \A t \in Tasks : deferred'[t] = NoDeferral
    BY <1>1, <1>2 DEF NextBatch
  <2> QED BY <2>3, <2>4, <2>5, CompleteOrExhausted DEF Reopening
<1>3. CASE NextBatchNone
  <2>1. /\ \A t \in Tasks : deferred'[t] = NoDeferral
        /\ \A i \in DOMAIN queue' : IsRevisit(queue'[i])
        /\ \A t \in Tasks : in_flight'[t] # NoLease => IsRevisit(in_flight'[t])
    BY <1>1, <1>3 DEF NextBatchNone
  <2> QED BY <2>1, CompleteOrExhausted DEF Reopening
<1>4. ASSUME NEW t \in Tasks, NEW used \in Used, RecordDeferred(t, used) PROVE Reopening
  BY <1>1, <1>4 DEF RecordDeferred
<1>5. ASSUME NEW t \in Tasks, NEW used \in Used, NEW exhausted \in BOOLEAN,
             RecordDrop(t, used, exhausted)
      PROVE  Reopening
  <2>1. /\ \A u \in Tasks : deferred'[u] = NoDeferral
        /\ \A i \in DOMAIN queue' : IsRevisit(queue'[i])
    BY <1>1, <1>5 DEF RecordDrop
  <2>2. \A u \in Tasks : in_flight'[u] # NoLease => IsRevisit(in_flight'[u])
    BY <1>1, <1>5 DEF RecordDrop, TypeOK
  <2> QED BY <2>1, <2>2, CompleteOrExhausted DEF Reopening
<1>6. ASSUME NEW t \in Tasks, NEW used \in Used, NEW rank \in Ranks, NEW summary \in Summaries,
             RecordRequeue(t, used, rank, summary)
      PROVE  Reopening
  <2>1. CASE rank > 0
    BY <1>6, <2>1 DEF Reopening
  <2>2. CASE ~(rank > 0)
    <3> DEFINE e == [task |-> t, remaining |-> deduct(in_flight[t].remaining, used),
                     ran |-> TRUE, rank |-> rank]
    <3>1. deduct(in_flight[t].remaining, used) \in Budget
      BY <1>6, LeaseType, Deduct, Constants DEF RecordRequeue
    <3>2. e \in Entry /\ IsRevisit(e)
      BY <2>2, <3>1, Constants DEF Entry, IsRevisit
    <3>3. queue' = Append(queue, e)
      BY <1>6 DEF RecordRequeue
    <3> HIDE DEF e
    <3>4. \A i \in DOMAIN queue' : IsRevisit(queue'[i])
      BY <1>1, <3>2, <3>3, AppendFacts
    <3>5. \A u \in Tasks : in_flight'[u] # NoLease => IsRevisit(in_flight'[u])
      BY <1>1, <1>6 DEF RecordRequeue, TypeOK
    <3>6. \A u \in Tasks : deferred'[u] = NoDeferral
      BY <1>1, <1>6 DEF RecordRequeue
    <3> QED BY <3>4, <3>5, <3>6, CompleteOrExhausted DEF Reopening
  <2> QED BY <2>1, <2>2
<1>7. ASSUME NEW t \in Tasks, NEW budget \in Grants, Enqueue(t, budget) PROVE Reopening
  BY <1>7 DEF Reopening
<1>8. CASE UNCHANGED vars
  BY <1>8 DEF vars, IsFrontierExhausted, IsLeased
<1> QED BY <1>2, <1>3, <1>4, <1>5, <1>6, <1>7, <1>8 DEF Next, RecordOutcome

(* is_frontier_exhausted turns false again only for a finished run, new    *)
(* work or a discovery: explore may stop on it without losing anything     *)
(* that next_batch or an outcome alone would have brought back.            *)
THEOREM ExhaustionIsStable == Spec => FrontierReopens
<1>1. TypeOK /\ [Next]_vars =>
        [IsFrontierExhausted /\ ~IsFrontierExhausted' =>
           \/ IsComplete'
           \/ \E t \in Tasks, budget \in Grants : Enqueue(t, budget)
           \/ \E t \in Tasks, used \in Used, rank \in Ranks, summary \in Summaries :
                rank > 0 /\ RecordRequeue(t, used, rank, summary)]_vars
  BY ReopeningStep DEF Reopening
<1> QED BY <1>1, InitTypeOK, NextTypeOK, PTL DEF Spec, FrontierReopens

-----------------------------------------------------------------------------
(* The scheduler implements the lease protocol.                            *)

StatusOf(t) ==
  IF IsLeased(t) THEN IF deferred[t] = NoDeferral THEN "leased" ELSE "leased_again"
  ELSE IF IsQueued(t) THEN "waiting" ELSE "idle"

LEMMA StatusFacts ==
  /\ LeaseStatus = [t \in Tasks |-> StatusOf(t)]
  /\ \A t \in Tasks : StatusOf(t) \in {"idle", "waiting", "leased", "leased_again"}
BY DEF LeaseStatus, StatusOf

LEMMA InitImplements == Init => Protocol!Init
<1> SUFFICES ASSUME Init PROVE \A t \in Tasks : StatusOf(t) \in {"idle", "waiting"}
  BY StatusFacts DEF Protocol!Init
<1> QED BY DEF Init, StatusOf, IsLeased

(* A step that changes the status of one function.                         *)
LEMMA OneChanges ==
  ASSUME NEW t \in Tasks, NEW s, StatusOf(t)' = s,
         \A u \in Tasks \ {t} : StatusOf(u)' = StatusOf(u)
  PROVE  LeaseStatus' = [LeaseStatus EXCEPT ![t] = s]
<1>1. LeaseStatus' = [u \in Tasks |-> StatusOf(u)']
  BY DEF LeaseStatus, StatusOf
<1>2. LeaseStatus = [u \in Tasks |-> StatusOf(u)]
  BY StatusFacts
<1> QED BY <1>1, <1>2

(* A function whose lease, deferral and place in the queue do not change.  *)
LEMMA SameStatus ==
  ASSUME NEW u \in Tasks, in_flight'[u] = in_flight[u], deferred'[u] = deferred[u],
         (\E i \in DOMAIN queue' : queue'[i].task = u)
           <=> (\E i \in DOMAIN queue : queue[i].task = u)
  PROVE  StatusOf(u)' = StatusOf(u)
BY DEF StatusOf, IsLeased, IsQueued

(* After an append the function appended is queued, the others as before.  *)
LEMMA AppendQueued ==
  ASSUME TypeOK, NEW e \in Entry, queue' = Append(queue, e)
  PROVE  \A u \in Tasks : (\E i \in DOMAIN queue' : queue'[i].task = u)
                            <=> (u = e.task \/ \E i \in DOMAIN queue : queue[i].task = u)
<1>1. /\ \A i \in DOMAIN queue : i \in DOMAIN queue' /\ queue'[i] = queue[i]
      /\ \A i \in DOMAIN queue' : i \in DOMAIN queue \/ queue'[i] = e
      /\ \E i \in DOMAIN queue' : queue'[i] = e
  BY AppendFacts
<1> QED BY <1>1

(* Work granted to t.                                                      *)
LEMMA GrantStep ==
  ASSUME NEW t \in Tasks,
         \A u \in Tasks \ {t} : StatusOf(u)' = StatusOf(u),
         StatusOf(t)' = IF StatusOf(t) \in {"leased", "leased_again"}
                        THEN "leased_again" ELSE "waiting"
  PROVE  Protocol!Next
<1>1. LeaseStatus[t] = StatusOf(t)
  BY StatusFacts
<1>2. LeaseStatus' = [LeaseStatus EXCEPT ![t] =
                        IF @ \in {"leased", "leased_again"} THEN "leased_again" ELSE "waiting"]
  BY <1>1, OneChanges
<1> QED BY <1>2 DEF Protocol!Next, Protocol!Grant

(* The lease of t released.                                                *)
LEMMA ReleaseStep ==
  ASSUME NEW t \in Tasks, NEW s \in {"idle", "waiting"},
         \A u \in Tasks \ {t} : StatusOf(u)' = StatusOf(u),
         StatusOf(t) \in {"leased", "leased_again"},
         StatusOf(t) = "leased_again" => s = "waiting",
         StatusOf(t)' = s
  PROVE  Protocol!Next
<1>1. LeaseStatus[t] = StatusOf(t)
  BY StatusFacts
<1>2. LeaseStatus' = [LeaseStatus EXCEPT ![t] = s]
  BY OneChanges
<1> QED BY <1>1, <1>2 DEF Protocol!Next, Protocol!Release

(* next_batch is a Lease of the best function, which takes the functions   *)
(* that wait without budget out of the queue.                              *)
LEMMA NextBatchImplements ==
  ASSUME TypeOK, LeaseExclusive, NextBatch
  PROVE  Protocol!Next
<1>1. PICK k \in DOMAIN queue :
        /\ IsBest(queue, k)
        /\ queue' \in Selections(queue, Live(queue) \ {k})
        /\ in_flight' = [in_flight EXCEPT ![queue[k].task] = queue[k]]
  BY DEF NextBatch
<1>2. queue[k].task \in Tasks /\ queue[k] # NoLease /\ k \in Live(queue) /\ deferred' = deferred
  BY <1>1, NextBatchFacts DEF IsBest, NextBatch
<1> PICK t \in Tasks : t = queue[k].task
  BY <1>2
<1> PICK spent \in SUBSET Tasks :
      spent = {u \in Tasks : \E i \in DOMAIN queue :
                               queue[i].task = u /\ queue[i].remaining = 0}
  OBVIOUS
<1>3. \A i, j \in DOMAIN queue : queue[i].task = queue[j].task => i = j
  BY DEF LeaseExclusive, QueuedOnce
<1>4. \A i \in DOMAIN queue : in_flight[queue[i].task] = NoLease
  BY DEF LeaseExclusive, LeasedNotQueued, IsLeased
<1>5. \A u \in Tasks : in_flight'[u] = IF u = t THEN queue[k] ELSE in_flight[u]
  BY <1>1, <1>2 DEF TypeOK
<1>6. t \notin spent
  BY <1>1, <1>2, <1>3 DEF Live
<1>7. \A u \in Tasks : IsQueued(u) => StatusOf(u) = "waiting"
  BY <1>4 DEF StatusOf, IsQueued, IsLeased
<1>8. spent \in SUBSET Protocol!InStatus({"waiting"})
  BY <1>7, StatusFacts DEF Protocol!InStatus, IsQueued
<1>9. LeaseStatus[t] = "waiting"
  BY <1>1, <1>2, <1>7, StatusFacts DEF IsQueued
<1>10. StatusOf(t)' = "leased"
  <2>1. in_flight[t] = NoLease /\ in_flight'[t] # NoLease
    BY <1>1, <1>2, <1>4, <1>5
  <2>2. deferred[t] = NoDeferral
    BY <2>1 DEF LeaseExclusive, DeferredIsLeased, IsLeased
  <2> QED BY <1>2, <2>1, <2>2 DEF StatusOf, IsLeased
<1>11. \A u \in Tasks \ {t} :
         (\E i \in DOMAIN queue' : queue'[i].task = u) <=> IsQueued(u) /\ u \notin spent
  <2> TAKE u \in Tasks \ {t}
  <2>1. ASSUME NEW i \in DOMAIN queue', queue'[i].task = u PROVE IsQueued(u) /\ u \notin spent
    <3>1. PICK m \in Live(queue) : queue'[i] = queue[m] /\ m \in DOMAIN queue
      BY <1>1, NextBatchFacts
    <3> QED BY <1>3, <2>1, <3>1 DEF IsQueued, Live
  <2>2. ASSUME IsQueued(u), u \notin spent PROVE \E i \in DOMAIN queue' : queue'[i].task = u
    <3>1. PICK m \in DOMAIN queue : queue[m].task = u /\ queue[m].remaining # 0
      BY <2>2 DEF IsQueued
    <3>2. m \in Live(queue) \ {k}
      BY <3>1 DEF Live
    <3> QED BY <1>1, <3>1, <3>2, NextBatchFacts
  <2> QED BY <2>1, <2>2
<1>12. \A u \in Tasks \ {t} : StatusOf(u)' = IF u \in spent THEN "idle" ELSE StatusOf(u)
  <2> TAKE u \in Tasks \ {t}
  <2>1. in_flight'[u] = in_flight[u] /\ deferred'[u] = deferred[u]
    BY <1>2, <1>5
  <2>2. CASE u \in spent
    <3>1. in_flight[u] = NoLease
      BY <1>4, <2>2
    <3> QED BY <1>11, <2>1, <2>2, <3>1 DEF StatusOf, IsLeased, IsQueued
  <2>3. CASE u \notin spent
    BY <1>11, <2>1, <2>3, SameStatus DEF IsQueued
  <2> QED BY <2>2, <2>3
<1>13. LeaseStatus' = [u \in Tasks |-> IF u = t THEN "leased"
                                       ELSE IF u \in spent THEN "idle" ELSE LeaseStatus[u]]
  <2>1. LeaseStatus' = [u \in Tasks |-> StatusOf(u)']
    BY DEF LeaseStatus, StatusOf
  <2>2. \A u \in Tasks : LeaseStatus[u] = StatusOf(u)
    BY StatusFacts
  <2> QED BY <1>10, <1>12, <2>1, <2>2
<1> QED BY <1>6, <1>8, <1>9, <1>13 DEF Protocol!Next, Protocol!Lease

(* next_batch without a live entry discards what waits.                    *)
LEMMA NoneImplements ==
  ASSUME TypeOK, LeaseExclusive, NextBatchNone
  PROVE  Protocol!Next
<1>1. \A i \in DOMAIN queue : in_flight[queue[i].task] = NoLease
  BY DEF LeaseExclusive, LeasedNotQueued, IsLeased
<1>2. queue' = <<>> /\ in_flight' = in_flight /\ deferred' = deferred
  BY DEF NextBatchNone
<1>3. \A u \in Tasks : StatusOf(u)' = IF StatusOf(u) = "waiting" THEN "idle" ELSE StatusOf(u)
  <2> TAKE u \in Tasks
  <2>1. ~\E i \in DOMAIN queue' : queue'[i].task = u
    BY <1>2
  <2> QED BY <1>2, <2>1 DEF StatusOf, IsLeased, IsQueued
<1>4. LeaseStatus' = [u \in Tasks |-> StatusOf(u)']
  BY DEF LeaseStatus, StatusOf
<1>5. \A u \in Tasks : LeaseStatus[u] = StatusOf(u)
  BY StatusFacts
<1>6. LeaseStatus' = [u \in Tasks |-> IF LeaseStatus[u] = "waiting" THEN "idle"
                                      ELSE LeaseStatus[u]]
  BY <1>3, <1>4, <1>5
<1> QED BY <1>6 DEF Protocol!Next, Protocol!Discard

LEMMA NextImplements ==
  TypeOK /\ LeaseExclusive /\ [Next]_vars => [Protocol!Next]_LeaseStatus
<1> SUFFICES ASSUME TypeOK, LeaseExclusive, [Next]_vars, LeaseStatus' # LeaseStatus
             PROVE  Protocol!Next
  OBVIOUS
<1>1. CASE NextBatch
  BY <1>1, NextBatchImplements
<1>2. CASE NextBatchNone
  BY <1>2, NoneImplements
<1>3. ASSUME NEW t \in Tasks, NEW used \in Used, RecordDeferred(t, used) PROVE Protocol!Next
  <2> DEFINE b == merge_budgets(deduct(in_flight[t].remaining, used), deferred[t])
  <2>1. b \in Budget
    BY <1>3, LeaseType, Deduct, MergeBudgets, Constants DEF RecordDeferred, TypeOK
  <2>2. NewEntry(t, b) \in Entry /\ NewEntry(t, b).task = t
          /\ queue' = Append(queue, NewEntry(t, b))
    BY <1>3, <2>1, NewEntryType DEF RecordDeferred
  <2>3. \A u \in Tasks : (\E i \in DOMAIN queue' : queue'[i].task = u)
                           <=> (u = t \/ \E i \in DOMAIN queue : queue[i].task = u)
    BY <2>2, AppendQueued
  <2>4. \A u \in Tasks \ {t} : in_flight'[u] = in_flight[u] /\ deferred'[u] = deferred[u]
    BY <1>3 DEF RecordDeferred, TypeOK
  <2>5. \A u \in Tasks \ {t} : StatusOf(u)' = StatusOf(u)
    BY <2>3, <2>4, SameStatus
  <2>6. StatusOf(t) = "leased_again"
    BY <1>3 DEF RecordDeferred, StatusOf
  <2>7. StatusOf(t)' = "waiting"
    BY <1>3, <2>3 DEF RecordDeferred, StatusOf, IsLeased, IsQueued, TypeOK
  <2> QED BY <2>5, <2>6, <2>7, ReleaseStep
<1>4. ASSUME NEW t \in Tasks, NEW used \in Used, NEW exhausted \in BOOLEAN,
             RecordDrop(t, used, exhausted)
      PROVE  Protocol!Next
  <2>1. \A u \in Tasks \ {t} : in_flight'[u] = in_flight[u] /\ deferred'[u] = deferred[u]
    BY <1>4 DEF RecordDrop, TypeOK
  <2>2. \A u \in Tasks \ {t} : StatusOf(u)' = StatusOf(u)
    BY <1>4, <2>1, SameStatus DEF RecordDrop
  <2>3. StatusOf(t) = "leased"
    BY <1>4 DEF RecordDrop, StatusOf
  <2>4. ~IsQueued(t)
    BY <1>4, LeasedIsNotQueued DEF RecordDrop, LeaseExclusive
  <2>5. StatusOf(t)' = "idle"
    BY <1>4, <2>4 DEF RecordDrop, StatusOf, IsLeased, IsQueued, TypeOK
  <2> QED BY <2>2, <2>3, <2>5, ReleaseStep
<1>5. ASSUME NEW t \in Tasks, NEW used \in Used, NEW rank \in Ranks, NEW summary \in Summaries,
             RecordRequeue(t, used, rank, summary)
      PROVE  Protocol!Next
  <2> DEFINE e == [task |-> t, remaining |-> deduct(in_flight[t].remaining, used),
                   ran |-> TRUE, rank |-> rank]
  <2>1. deduct(in_flight[t].remaining, used) \in Budget
    BY <1>5, LeaseType, Deduct, Constants DEF RecordRequeue
  <2>2. e \in Entry /\ e.task = t
    BY <2>1, Constants DEF Entry
  <2>3. queue' = Append(queue, e)
    BY <1>5 DEF RecordRequeue
  <2> HIDE DEF e
  <2>4. \A u \in Tasks : (\E i \in DOMAIN queue' : queue'[i].task = u)
                           <=> (u = t \/ \E i \in DOMAIN queue : queue[i].task = u)
    BY <2>2, <2>3, AppendQueued
  <2>5. \A u \in Tasks \ {t} : in_flight'[u] = in_flight[u] /\ deferred'[u] = deferred[u]
    BY <1>5 DEF RecordRequeue, TypeOK
  <2>6. \A u \in Tasks \ {t} : StatusOf(u)' = StatusOf(u)
    BY <2>4, <2>5, SameStatus
  <2>7. StatusOf(t) = "leased"
    BY <1>5 DEF RecordRequeue, StatusOf
  <2>8. in_flight'[t] = NoLease
    BY <1>5 DEF RecordRequeue, TypeOK
  <2>9. StatusOf(t)' = "waiting"
    BY <2>4, <2>8 DEF StatusOf, IsLeased, IsQueued
  <2> QED BY <2>6, <2>7, <2>9, ReleaseStep
<1>6. ASSUME NEW t \in Tasks, NEW budget \in Grants, EnqueueDeferred(t, budget)
      PROVE  Protocol!Next
  <2>1. \A u \in Tasks \ {t} : in_flight'[u] = in_flight[u] /\ deferred'[u] = deferred[u]
    BY <1>6 DEF EnqueueDeferred, TypeOK
  <2>2. \A u \in Tasks \ {t} : StatusOf(u)' = StatusOf(u)
    BY <1>6, <2>1, SameStatus DEF EnqueueDeferred
  <2>3. StatusOf(t) \in {"leased", "leased_again"}
    BY <1>6 DEF EnqueueDeferred, StatusOf
  <2>4. deferred'[t] \in Budget
    <3>1. budget \in Budget
      BY Constants
    <3> QED BY <1>6, <3>1, MergeBudgets DEF EnqueueDeferred, TypeOK
  <2>5. StatusOf(t)' = "leased_again"
    BY <1>6, <2>4, Constants DEF EnqueueDeferred, StatusOf, IsLeased
  <2> QED BY <2>2, <2>3, <2>5, GrantStep
<1>7. ASSUME NEW t \in Tasks, NEW budget \in Grants, EnqueueMerged(t, budget)
      PROVE  Protocol!Next
  <2>1. PICK i \in DOMAIN queue :
          /\ queue[i].task = t
          /\ queue' = [queue EXCEPT ![i].remaining = merge_budgets(@, budget)]
    BY <1>7 DEF EnqueueMerged
  <2>2. DOMAIN queue' = DOMAIN queue /\ \A j \in DOMAIN queue : queue'[j].task = queue[j].task
    BY <2>1, QueueType DEF Entry
  <2>3. \A u \in Tasks : StatusOf(u)' = StatusOf(u)
    BY <1>7, <2>2, SameStatus DEF EnqueueMerged
  <2>4. StatusOf(t) = "waiting"
    BY <1>7, <2>1 DEF EnqueueMerged, StatusOf, IsQueued
  <2> QED BY <2>3, <2>4, GrantStep
<1>8. ASSUME NEW t \in Tasks, NEW budget \in Grants, EnqueueNew(t, budget)
      PROVE  Protocol!Next
  <2>1. NewEntry(t, budget) \in Entry /\ NewEntry(t, budget).task = t
          /\ queue' = Append(queue, NewEntry(t, budget))
    BY <1>8, NewEntryType, Constants DEF EnqueueNew
  <2>2. \A u \in Tasks : (\E i \in DOMAIN queue' : queue'[i].task = u)
                           <=> (u = t \/ \E i \in DOMAIN queue : queue[i].task = u)
    BY <2>1, AppendQueued
  <2>3. \A u \in Tasks \ {t} : StatusOf(u)' = StatusOf(u)
    BY <1>8, <2>2, SameStatus DEF EnqueueNew
  <2>4. StatusOf(t) = "idle"
    BY <1>8 DEF EnqueueNew, StatusOf
  <2>5. StatusOf(t)' = "waiting"
    BY <1>8, <2>2 DEF EnqueueNew, StatusOf, IsLeased, IsQueued
  <2> QED BY <2>3, <2>4, <2>5, GrantStep
<1>9. CASE UNCHANGED vars
  BY <1>9 DEF vars, LeaseStatus, IsLeased, IsQueued
<1> QED BY <1>1, <1>2, <1>3, <1>4, <1>5, <1>6, <1>7, <1>8, <1>9
        DEF Next, RecordOutcome, Enqueue

(* The scheduler keeps the promise of LeaseProtocol, by which the explore  *)
(* driver uses it: a function has one worker at most, and work granted     *)
(* while it is leased brings it back into the queue.                       *)
THEOREM ImplementsLeases == Spec => LeaseRefinement
BY InitTypeOK, NextTypeOK, InitLeaseExclusive, NextLeaseExclusive,
   InitImplements, NextImplements, PTL
   DEF Spec, LeaseRefinement, Protocol!Spec

=============================================================================
