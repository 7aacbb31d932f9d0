--------------------------- MODULE BatchScheduler ---------------------------
(***************************************************************************)
(* shatter-core/src/batch_scheduler.rs: the rank-ordered scheduler that    *)
(* leases iteration batches of functions to workers.  The two clients are  *)
(* run_layer_batched (scan) and the explore command, which also enqueues   *)
(* functions while batches of other functions are in flight.               *)
(*                                                                         *)
(* HashMaps keyed by task_index are total functions here, with the value   *)
(* that stands for an absent key: NoLease, NoDeferral, or 0 for the two    *)
(* penalty maps (the code reads them with unwrap_or(0)).                   *)
(***************************************************************************)
EXTENDS Integers, Sequences

CONSTANTS
  TaskCount,     \* number of functions the clients may ever schedule
  BatchSize,     \* batch_size: iterations per batch
  MaxU32,        \* where u32 budgets saturate
  Unbounded,     \* the budget None
  NoLease,       \* absent key of in_flight
  NoDeferral,    \* absent key of deferred
  Grants,        \* budgets a client passes to a constructor or to enqueue
  Used,          \* values of BatchOutcome.iterations_used
  Ranks,         \* values of BatchOutcome.rank
  MaxStreak      \* bound on miss_streak

ASSUME SizeAssumption ==
  /\ TaskCount \in Nat
  /\ BatchSize \in Nat
  /\ MaxU32 \in Nat
  /\ MaxStreak \in Nat

ASSUME ValueAssumption ==
  /\ Unbounded \notin Int
  /\ Grants \subseteq (0 .. MaxU32) \cup {Unbounded}
  /\ Used \subseteq 0 .. MaxU32
  /\ Ranks \subseteq Int

Tasks == 0 .. TaskCount - 1

Budget == (0 .. MaxU32) \cup {Unbounded}

Entry == [task : Tasks, remaining : Budget, ran : BOOLEAN, rank : Int]

ASSUME AbsentAssumption ==
  /\ NoDeferral \notin Int /\ NoDeferral # Unbounded
  /\ NoLease \notin Entry

COOLDOWN_PENALTY == 3
MISS_PENALTY_PER_STREAK == 2

VARIABLES
  queue,         \* VecDeque<Entry>, head first
  in_flight,     \* [Tasks -> Entry or NoLease]
  deferred,      \* [Tasks -> Budget or NoDeferral]
  cooldown,      \* [Tasks -> 0 .. COOLDOWN_PENALTY]
  miss_streak    \* [Tasks -> 0 .. MaxStreak]

vars == <<queue, in_flight, deferred, cooldown, miss_streak>>

-----------------------------------------------------------------------------
(* Budgets: Option<u32> with saturating arithmetic.                        *)

(* Slip: plain u32 addition that wraps around.                            *)
wrapping_add(x, y) == (x + y) % (MaxU32 + 1)

saturating_add(x, y) == IF x + y > MaxU32 THEN MaxU32 ELSE x + y
saturating_sub(x, y) == IF y > x THEN 0 ELSE x - y

merge_budgets(a, b) ==
  IF a = Unbounded \/ b = Unbounded THEN Unbounded ELSE saturating_add(a, b)

deduct(a, used) == IF a = Unbounded THEN Unbounded ELSE saturating_sub(a, used)

-----------------------------------------------------------------------------
(* The queue.                                                              *)

NewEntry(t, budget) == [task |-> t, remaining |-> budget, ran |-> FALSE, rank |-> 0]

IsQueued(t) == \E i \in DOMAIN queue : queue[i].task = t
IsLeased(t) == in_flight[t] # NoLease

(* Positions that survive queue.retain(remaining != Some(0)).              *)
Live(q) == {i \in DOMAIN q : q[i].remaining # 0}

EffectiveRank(e) ==
  e.rank - cooldown[e.task] - miss_streak[e.task] * MISS_PENALTY_PER_STREAK

(* The fold of next_batch: the highest effective rank, earliest on ties.   *)
IsBest(q, k) ==
  /\ k \in Live(q)
  /\ \A i \in Live(q) :
       /\ EffectiveRank(q[i]) <= EffectiveRank(q[k])
       /\ i < k => EffectiveRank(q[i]) < EffectiveRank(q[k])

(* The elements of q at the positions of keep, in order.                   *)
IsSelection(q, keep, f) ==
  /\ \A i, j \in DOMAIN f : i < j => f[i] < f[j]
  /\ \A k \in keep : \E i \in DOMAIN f : f[i] = k

Selections(q, keep) ==
  {[i \in DOMAIN f |-> q[f[i]]] :
     f \in {g \in UNION {[1 .. n -> keep] : n \in 0 .. Len(q)} : IsSelection(q, keep, g)}}

-----------------------------------------------------------------------------
(* new / with_individual_budgets: the functions known at construction, in  *)
(* index order (explore starts from none and enqueues).                    *)
Init ==
  /\ \E n \in 0 .. TaskCount : \E budgets \in [1 .. n -> Grants] :
       queue = [i \in 1 .. n |-> NewEntry(i - 1, budgets[i])]
  /\ in_flight = [t \in Tasks |-> NoLease]
  /\ deferred = [t \in Tasks |-> NoDeferral]
  /\ cooldown = [t \in Tasks |-> 0]
  /\ miss_streak = [t \in Tasks |-> 0]

(* Slip: the lease carries a fresh entry instead of the queued one.        *)
NextBatchFresh ==
  \E k \in DOMAIN queue :
    /\ IsBest(queue, k)
    /\ queue' \in Selections(queue, Live(queue) \ {k})
    /\ in_flight' = [in_flight EXCEPT ![queue[k].task] =
                        NewEntry(queue[k].task, queue[k].remaining)]
    /\ UNCHANGED <<deferred, cooldown, miss_streak>>

(* next_batch with a result: spent entries are compacted away, the best    *)
(* entry is leased.                                                        *)
NextBatch ==
  \E k \in DOMAIN queue :
    /\ IsBest(queue, k)
    /\ queue' \in Selections(queue, Live(queue) \ {k})
    /\ in_flight' = [in_flight EXCEPT ![queue[k].task] = queue[k]]
    /\ UNCHANGED <<deferred, cooldown, miss_streak>>

(* next_batch returning None, which still empties the queue of spent       *)
(* entries.                                                                *)
NextBatchNone ==
  /\ Live(queue) = {}
  /\ queue' = <<>>
  /\ UNCHANGED <<in_flight, deferred, cooldown, miss_streak>>

(* The batch size handed to the worker with a lease.                       *)
BatchIterations(e) ==
  IF e.remaining = Unbounded \/ e.remaining > BatchSize THEN BatchSize ELSE e.remaining

Decay(c) == IF c > 0 THEN c - 1 ELSE 0

(* Without a summary a rank of zero counts as a miss.                      *)
IsMiss(summary, rank) ==
  \/ summary = "nothing_new"
  \/ summary = "absent" /\ rank = 0

Summaries == {"progress", "nothing_new", "absent"}

(* record_outcome when work was deferred: never dropped, a fresh arrival.  *)
RecordDeferred(t, used) ==
  LET e == in_flight[t] IN
  /\ IsLeased(t)
  /\ deferred[t] # NoDeferral
  /\ queue' = Append(queue, NewEntry(t, merge_budgets(deduct(e.remaining, used), deferred[t])))
  /\ in_flight' = [in_flight EXCEPT ![t] = NoLease]
  /\ deferred' = [deferred EXCEPT ![t] = NoDeferral]
  /\ cooldown' = [u \in Tasks |-> IF u = t THEN 0 ELSE Decay(cooldown[u])]
  /\ miss_streak' = [miss_streak EXCEPT ![t] = 0]

(* Slip: exhaustion overrides deferred work.                               *)
RecordDropDeferred(t, used, exhausted) ==
  LET e == in_flight[t] IN
  /\ IsLeased(t)
  /\ exhausted \/ deduct(e.remaining, used) = 0
  /\ in_flight' = [in_flight EXCEPT ![t] = NoLease]
  /\ deferred' = [deferred EXCEPT ![t] = NoDeferral]
  /\ cooldown' = [u \in Tasks |-> IF u = t THEN 0 ELSE Decay(cooldown[u])]
  /\ miss_streak' = [miss_streak EXCEPT ![t] = 0]
  /\ UNCHANGED queue

(* record_outcome that drops the function: exhausted, or its budget spent. *)
RecordDrop(t, used, exhausted) ==
  LET e == in_flight[t] IN
  /\ IsLeased(t)
  /\ deferred[t] = NoDeferral
  /\ exhausted \/ deduct(e.remaining, used) = 0
  /\ in_flight' = [in_flight EXCEPT ![t] = NoLease]
  /\ cooldown' = [u \in Tasks |-> IF u = t THEN 0 ELSE Decay(cooldown[u])]
  /\ miss_streak' = [miss_streak EXCEPT ![t] = 0]
  /\ UNCHANGED <<queue, deferred>>

(* record_outcome that re-enqueues the function at the tail with the       *)
(* outcome's rank, a fresh cooldown and an updated miss streak.            *)
RecordRequeue(t, used, rank, summary) ==
  LET e == in_flight[t]
      left == deduct(e.remaining, used)
      streak == IF IsMiss(summary, rank) THEN miss_streak[t] + 1 ELSE 0
  IN
  /\ IsLeased(t)
  /\ deferred[t] = NoDeferral
  /\ left # 0
  /\ streak <= MaxStreak
  /\ queue' = Append(queue, [task |-> t, remaining |-> left, ran |-> TRUE, rank |-> rank])
  /\ in_flight' = [in_flight EXCEPT ![t] = NoLease]
  /\ cooldown' = [u \in Tasks |-> IF u = t THEN COOLDOWN_PENALTY ELSE Decay(cooldown[u])]
  /\ miss_streak' = [miss_streak EXCEPT ![t] = streak]
  /\ UNCHANGED deferred

RecordOutcome(t) ==
  \E used \in Used :
    \/ RecordDeferred(t, used)
    \/ \E exhausted \in BOOLEAN : RecordDrop(t, used, exhausted)
    \/ \E rank \in Ranks, summary \in Summaries : RecordRequeue(t, used, rank, summary)

(* enqueue, its three cases.                                               *)
EnqueueDeferred(t, budget) ==
  /\ IsLeased(t)
  /\ deferred' = [deferred EXCEPT ![t] =
                    IF @ = NoDeferral THEN budget ELSE merge_budgets(@, budget)]
  /\ UNCHANGED <<queue, in_flight, cooldown, miss_streak>>

EnqueueMerged(t, budget) ==
  /\ ~IsLeased(t)
  /\ \E i \in DOMAIN queue :
       /\ queue[i].task = t
       /\ \A j \in DOMAIN queue : j < i => queue[j].task # t
       /\ queue' = [queue EXCEPT ![i].remaining = merge_budgets(@, budget)]
  /\ UNCHANGED <<in_flight, deferred, cooldown, miss_streak>>

(* Slip: enqueue that only looks at the queue, not at the leases.          *)
EnqueueNewUnleased(t, budget) ==
  /\ ~IsQueued(t)
  /\ queue' = Append(queue, NewEntry(t, budget))
  /\ UNCHANGED <<in_flight, deferred, cooldown, miss_streak>>

EnqueueNew(t, budget) ==
  /\ ~IsLeased(t)
  /\ ~IsQueued(t)
  /\ queue' = Append(queue, NewEntry(t, budget))
  /\ UNCHANGED <<in_flight, deferred, cooldown, miss_streak>>

Enqueue(t, budget) ==
  \/ EnqueueDeferred(t, budget)
  \/ EnqueueMerged(t, budget)
  \/ EnqueueNew(t, budget)

Next ==
  \/ NextBatch
  \/ NextBatchNone
  \/ \E t \in Tasks : RecordOutcome(t)
  \/ \E t \in Tasks, budget \in Grants : Enqueue(t, budget)

Spec == Init /\ [][Next]_vars

-----------------------------------------------------------------------------
(* is_complete and is_frontier_exhausted.                                  *)

IsComplete ==
  /\ queue = <<>>
  /\ \A t \in Tasks : ~IsLeased(t) /\ deferred[t] = NoDeferral

IsRevisit(e) == e.ran /\ e.rank <= 0

IsFrontierExhausted ==
  /\ queue # <<>> \/ \E t \in Tasks : IsLeased(t)
  /\ \A t \in Tasks : deferred[t] = NoDeferral
  /\ \A i \in DOMAIN queue : IsRevisit(queue[i])
  /\ \A t \in Tasks : IsLeased(t) => IsRevisit(in_flight[t])

-----------------------------------------------------------------------------
(* Properties.                                                             *)

(* Every container holds what the code's types and constants allow; in     *)
(* particular budgets stay within u32 through merge_budgets.               *)
TypeOK ==
  /\ queue \in Seq(Entry)
  /\ in_flight \in [Tasks -> Entry \cup {NoLease}]
  /\ deferred \in [Tasks -> Budget \cup {NoDeferral}]
  /\ cooldown \in [Tasks -> 0 .. COOLDOWN_PENALTY]
  /\ miss_streak \in [Tasks -> 0 .. MaxStreak]

(* A function has at most one queue entry.                                 *)
QueuedOnce ==
  \A i, j \in DOMAIN queue : queue[i].task = queue[j].task => i = j

(* A leased function is not queued, so no second worker can receive it.    *)
LeasedNotQueued ==
  \A i \in DOMAIN queue : ~IsLeased(queue[i].task)

(* Budgets are deferred for leased functions only, so record_outcome finds *)
(* every one of them.                                                      *)
DeferredIsLeased ==
  \A t \in Tasks : deferred[t] # NoDeferral => IsLeased(t)

(* in_flight is keyed by the task of its entry.                            *)
LeaseKeyed ==
  \A t \in Tasks : IsLeased(t) => in_flight[t].task = t

(* next_batch never returns the same task_index twice while it is in       *)
(* flight, whatever is enqueued meanwhile; deferred work is never orphaned.*)
LeaseExclusive ==
  /\ QueuedOnce
  /\ LeasedNotQueued
  /\ DeferredIsLeased
  /\ LeaseKeyed

(* Cooldowns and miss streaks belong to functions the scheduler still has  *)
(* work for: next_batch drops spent entries without touching the penalty   *)
(* maps, so a penalty left behind would be inherited by a later enqueue.   *)
PenaltiesHaveWork ==
  \A t \in Tasks :
    cooldown[t] > 0 \/ miss_streak[t] > 0 =>
      \/ IsLeased(t)
      \/ \E i \in DOMAIN queue : queue[i].task = t /\ queue[i].remaining # 0

(* Only new work or a discovery reopens an exhausted frontier.             *)
FrontierReopens ==
  [][IsFrontierExhausted /\ ~IsFrontierExhausted' =>
       \/ IsComplete'
       \/ \E t \in Tasks, budget \in Grants : Enqueue(t, budget)
       \/ \E t \in Tasks, used \in Used, rank \in Ranks, summary \in Summaries :
            rank > 0 /\ RecordRequeue(t, used, rank, summary)]_vars

(* The scheduler implements the lease protocol.                            *)
LeaseStatus ==
  [t \in Tasks |->
     IF IsLeased(t) THEN IF deferred[t] = NoDeferral THEN "leased" ELSE "leased_again"
     ELSE IF IsQueued(t) THEN "waiting" ELSE "idle"]

Protocol == INSTANCE LeaseProtocol WITH status <- LeaseStatus

(* Every scheduler step is a step of the lease protocol: work enqueued for *)
(* a leased function always brings the function back into the queue.       *)
LeaseRefinement == Protocol!Spec

=============================================================================
