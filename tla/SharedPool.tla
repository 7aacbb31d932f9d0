----------------------------- MODULE SharedPool -----------------------------
(***************************************************************************)
(* The shared worker pool of a parallel scan (scan_orchestrator.rs): the   *)
(* tasks of a layer share a pool of frontend subprocesses that grows,      *)
(* shrinks and replaces dead workers, while a joiner waits for the tasks   *)
(* in spawn order and aborts the ones that outlive their watchdog.         *)
(*                                                                         *)
(* A task is cancelled at its await points only: the steps between two     *)
(* awaits run to the next one.  They are separate actions here, because    *)
(* tasks run on several threads and meet in the atomics of the pool.       *)
(***************************************************************************)
EXTENDS Integers, FiniteSets

CONSTANTS
  TaskCount,          \* functions of the scan, in spawn order
  LayerOf,            \* [Tasks -> Nat]: non-decreasing
  FileOf,             \* [Tasks -> file]
  MaxWorkers,         \* --parallelism
  TimeoutTotal,       \* ScanConfig::timeout_total is set
  Concolic,           \* ScanConfig::concolic
  AttemptLimit,       \* FRONTEND_TRANSPORT_ATTEMPT_LIMIT
  MaxSpawnFailures,   \* bound on failing Frontend::spawn calls
  Failures            \* what may go wrong in run_phased, besides timeouts

Tasks == 1 .. TaskCount

MIN_IDLE_WORKERS == 1

ASSUME PoolAssumption ==
  /\ TaskCount \in Nat \ {0}
  /\ LayerOf \in [Tasks -> Nat]
  /\ \A t, u \in Tasks : t < u => LayerOf[t] <= LayerOf[u]
  /\ DOMAIN FileOf = Tasks
  /\ MaxWorkers \in Nat \ {0}
  /\ TimeoutTotal \in BOOLEAN
  /\ Concolic \in BOOLEAN
  /\ AttemptLimit \in Nat \ {0}
  /\ MaxSpawnFailures \in Nat
  /\ Failures \subseteq
       {"transport", "unreadable", "misaligned", "swallowed", "tainted", "panic"}

VARIABLES
  pc,               \* [Tasks -> where the task is]
  fe,               \* [Tasks -> the frontend it holds]
  attempts,         \* [Tasks -> frontend_transport_attempts]
  result,           \* [Tasks -> result of the last run_phased]
  remaining,        \* [Tasks -> value returned by finish_once]
  loaded,           \* [Tasks -> live_count as last loaded, for a later CAS]
  checked_out,      \* the three flags of WorkerTaskLease
  finished,
  pool_accounted,
  permit,           \* [Tasks -> holds the same-file permit]
  leader,           \* warm-up gate: the task that holds the guard, or 0
  gate,             \* warm-up gate: "new", "led" or "open"
  claimant,         \* task that claimed the layer's build retry, or 0
  tasks_remaining,
  live_count,
  idle,             \* frontends in the channel, by health
  growing,          \* detached spawns of maybe_grow under way
  spawn_failures,
  joining,          \* the task the joiner waits for
  abort,            \* [Tasks -> "no", "requested", "recovering"]
  clock,            \* 0, 1: base watchdog expired, 2: extended one too
  scan_over         \* the total deadline has passed

taskVars == <<attempts, result, remaining, loaded>>
leaseVars == <<checked_out, finished, pool_accounted>>
startVars == <<permit, leader, gate>>
poolVars == <<tasks_remaining, live_count, idle, growing, spawn_failures>>
joinVars == <<joining, abort, clock, scan_over, claimant>>
vars == <<pc, fe, taskVars, leaseVars, startVars, poolVars, joinVars>>

Layer(l) == {t \in Tasks : LayerOf[t] = l}

(* A frontend in order; one with a line in its pipe that a function left   *)
(* unread without noticing; one that has failed a function because of it.  *)
Health == {"ok", "spoiled", "stale"}

Goto(t, where) == pc' = [pc EXCEPT ![t] = where]

Least(x, y) == IF x < y THEN x ELSE y
Greatest(x, y) == IF x < y THEN y ELSE x

initial_workers(max_workers, needed) ==
  Least(Greatest(max_workers \div 4, 1), Least(needed, max_workers))

(* The pool is spawned with the first layer.                               *)
Init ==
  LET first == Layer(LayerOf[1])
      workers == initial_workers(MaxWorkers, Cardinality(first))
  IN
  /\ pc = [t \in Tasks |-> IF t \in first THEN "gate" ELSE "unspawned"]
  /\ fe = [t \in Tasks |-> "none"]
  /\ attempts = [t \in Tasks |-> 1]
  /\ result = [t \in Tasks |-> "none"]
  /\ remaining = [t \in Tasks |-> 0]
  /\ loaded = [t \in Tasks |-> 0]
  /\ checked_out = [t \in Tasks |-> FALSE]
  /\ finished = [t \in Tasks |-> FALSE]
  /\ pool_accounted = [t \in Tasks |-> FALSE]
  /\ permit = [t \in Tasks |-> FALSE]
  /\ leader = 0
  /\ gate = "new"
  /\ claimant = 0
  /\ tasks_remaining = Cardinality(first)
  /\ live_count = workers
  /\ idle = [ok |-> workers, spoiled |-> 0, stale |-> 0]
  /\ growing = 0
  /\ spawn_failures = 0
  /\ joining = 1
  /\ abort = [t \in Tasks |-> "no"]
  /\ clock = 0
  /\ scan_over = FALSE

-----------------------------------------------------------------------------
(* Starting a task: warm-up gate, same-file permit, worker.                *)

EnterGate(t) ==
  /\ pc[t] = "gate"
  /\ \/ /\ gate = "new"
        /\ gate' = "led"
        /\ leader' = t
     \/ /\ gate = "open"
        /\ UNCHANGED <<gate, leader>>
  /\ Goto(t, "permit")
  /\ UNCHANGED <<fe, taskVars, leaseVars, permit, poolVars, joinVars>>

(* A file with one task in the layer has no limiter.                       *)
SharesFile(t, u) == t # u /\ LayerOf[t] = LayerOf[u] /\ FileOf[t] = FileOf[u]

(* Slip: the limiter is looked up but its permit is not awaited.           *)
AcquirePermitUnguarded(t) ==
  /\ pc[t] = "permit"
  /\ permit' = [permit EXCEPT ![t] = \E u \in Tasks : SharesFile(t, u)]
  /\ Goto(t, "checkout")
  /\ UNCHANGED <<fe, taskVars, leaseVars, leader, gate, poolVars, joinVars>>

AcquirePermit(t) ==
  /\ pc[t] = "permit"
  /\ \A u \in Tasks : SharesFile(t, u) => ~permit[u]
  /\ permit' = [permit EXCEPT ![t] = \E u \in Tasks : SharesFile(t, u)]
  /\ Goto(t, "checkout")
  /\ UNCHANGED <<fe, taskVars, leaseVars, leader, gate, poolVars, joinVars>>

Checkout(t) ==
  /\ pc[t] = "checkout"
  /\ \E h \in Health :
       /\ idle[h] > 0
       /\ idle' = [idle EXCEPT ![h] = @ - 1]
       /\ fe' = [fe EXCEPT ![t] = h]
  /\ checked_out' = [checked_out EXCEPT ![t] = TRUE]
  /\ Goto(t, "run")
  /\ UNCHANGED <<taskVars, finished, pool_accounted, startVars, tasks_remaining,
                 live_count, growing, spawn_failures, joinVars>>

-----------------------------------------------------------------------------
(* The retry loop around run_phased.                                       *)

(* What run_phased may come to with a frontend of health h.  A pipe with a *)
(* line too many answers every request with the response to the one before *)
(* it: a plain exploration fails at its first request, the instrumentation *)
(* of the function, and a concolic one at its first execution, if it gets  *)
(* there.  "unreadable" is a line that is not UTF-8 from a live subprocess *)
(* and "swallowed" an error while witnesses are shrunk or in the genetic   *)
(* phase, which is not passed on: the run succeeds.                        *)
PhasedResults(h) ==
  {"build_timeout", "explore_timeout"}
    \cup (Failures \ {"swallowed"})
    \cup {r \in {"misaligned"} : h # "ok"}
    \cup {r \in {"success", "failed"} \cup (Failures \cap {"swallowed"}) : h = "ok" \/ Concolic}

(* The state of the frontend afterwards.  It is unusable when it is        *)
(* tainted, timed out, or not alive any more, which any run may find.      *)
Leaves(h, r) ==
  {"unusable"} \cup
    CASE r \in {"success", "failed"} -> {h}
      [] r = "swallowed" -> {IF h = "ok" THEN "spoiled" ELSE h}
      [] r = "misaligned" -> {"stale"}
      [] r = "unreadable" -> IF h = "ok" THEN {"ok", "spoiled"} ELSE {"stale"}
      [] OTHER -> {}

(* retryable_frontend_transport_error                                      *)
Retryable == {"transport", "unreadable"}

(* What the loop ends with: the last transport failure is reported as      *)
(* exhausted retries.                                                      *)
LoopResult(r) ==
  CASE r = "swallowed" -> "success"
    [] r \in Retryable -> "exhausted"
    [] OTHER -> r

(* One attempt that decides the task.                                      *)
RunPhased(t) ==
  /\ pc[t] = "run"
  /\ \E r \in PhasedResults(fe[t]) \ {"panic"} :
       /\ r = "build_timeout" => claimant # 0
       /\ r \in Retryable => attempts[t] >= AttemptLimit
       /\ result' = [result EXCEPT ![t] = LoopResult(r)]
       /\ \E h \in Leaves(fe[t], r) : fe' = [fe EXCEPT ![t] = h]
  /\ Goto(t, "open_gate")
  /\ UNCHANGED <<attempts, remaining, loaded, leaseVars, startVars, poolVars, joinVars>>

(* The first build timeout of a layer claims its one cold-build retry.     *)
ClaimBuildRetry(t) ==
  /\ pc[t] = "run"
  /\ claimant = 0
  /\ claimant' = t
  /\ fe' = [fe EXCEPT ![t] = "none"]
  /\ Goto(t, "respawn")
  /\ UNCHANGED <<taskVars, leaseVars, startVars, poolVars, joining, abort, clock, scan_over>>

RetryTransport(t) ==
  /\ pc[t] = "run"
  /\ Retryable \cap Failures # {}
  /\ attempts[t] < AttemptLimit
  /\ attempts' = [attempts EXCEPT ![t] = @ + 1]
  /\ fe' = [fe EXCEPT ![t] = "none"]
  /\ Goto(t, "respawn")
  /\ UNCHANGED <<result, remaining, loaded, leaseVars, startVars, poolVars, joinVars>>

(* Frontend::spawn inside the loop.                                        *)
Respawn(t) ==
  /\ pc[t] = "respawn"
  /\ fe' = [fe EXCEPT ![t] = "ok"]
  /\ Goto(t, "run")
  /\ UNCHANGED <<taskVars, leaseVars, startVars, poolVars, joinVars>>

SpawnFails ==
  /\ spawn_failures < MaxSpawnFailures
  /\ spawn_failures' = spawn_failures + 1

RespawnFails(t) ==
  /\ pc[t] = "respawn"
  /\ SpawnFails
  /\ result' = [result EXCEPT ![t] = "transport"]
  /\ Goto(t, "open_gate")
  /\ UNCHANGED <<fe, attempts, remaining, loaded, leaseVars, startVars,
                 tasks_remaining, live_count, idle, growing, joinVars>>

(* Dropping the future releases the guard, the permit and the frontend.    *)
DropGuard(t) ==
  /\ leader' = IF leader = t THEN 0 ELSE leader
  /\ gate' = IF leader = t THEN "open" ELSE gate

(* Slip: the guard is opened by hand on the normal path only.              *)
DropFutureKeepGate(t) ==
  /\ permit' = [permit EXCEPT ![t] = FALSE]
  /\ fe' = [fe EXCEPT ![t] = "none"]
  /\ UNCHANGED <<leader, gate>>

DropFuture(t) ==
  /\ DropGuard(t)
  /\ permit' = [permit EXCEPT ![t] = FALSE]
  /\ fe' = [fe EXCEPT ![t] = "none"]

(* ... and the task's local variables end with it.                         *)
DropLocals(t) ==
  /\ attempts' = [attempts EXCEPT ![t] = 1]
  /\ result' = [result EXCEPT ![t] = "none"]
  /\ remaining' = [remaining EXCEPT ![t] = 0]
  /\ loaded' = [loaded EXCEPT ![t] = 0]

Panic(t) ==
  /\ pc[t] = "run"
  /\ "panic" \in Failures
  /\ DropFuture(t)
  /\ DropLocals(t)
  /\ Goto(t, "panicked")
  /\ UNCHANGED <<leaseVars, poolVars, joinVars>>

(* drop(warmup)                                                            *)
OpenGate(t) ==
  /\ pc[t] = "open_gate"
  /\ DropGuard(t)
  /\ Goto(t, "finish")
  /\ UNCHANGED <<fe, taskVars, leaseVars, permit, poolVars, joinVars>>

-----------------------------------------------------------------------------
(* Settling a task's lease.  The task does it, or after an abort the       *)
(* joiner (recover_after_abort), which holds no frontend.                  *)

(* Slip: finish_once that is not once.                                     *)
FinishAgain(t) ==
  /\ pc[t] = "finish"
  /\ finished' = [finished EXCEPT ![t] = TRUE]
  /\ tasks_remaining' = tasks_remaining - 1
  /\ remaining' = [remaining EXCEPT ![t] = tasks_remaining']
  /\ Goto(t, "account")
  /\ UNCHANGED <<fe, attempts, result, loaded, checked_out, pool_accounted, startVars,
                 live_count, idle, growing, spawn_failures, joinVars>>

(* finish_once                                                             *)
Finish(t) ==
  /\ pc[t] = "finish"
  /\ finished' = [finished EXCEPT ![t] = TRUE]
  /\ tasks_remaining' = IF finished[t] THEN tasks_remaining ELSE tasks_remaining - 1
  /\ remaining' = [remaining EXCEPT ![t] = tasks_remaining']
  /\ Goto(t, "account")
  /\ UNCHANGED <<fe, attempts, result, loaded, checked_out, pool_accounted, startVars,
                 live_count, idle, growing, spawn_failures, joinVars>>

(* Slip: only taint and timeouts are looked at.                            *)
no_frontend_error(t) == FALSE

(* The errors the task recognises as leaving a poisoned frontend.  Retries *)
(* that are exhausted are not among them, and a concolic exploration wraps *)
(* its errors in ScanError::Concolic.                                      *)
frontend_error(t) == result[t] = "misaligned" /\ ~Concolic

IsDead(t) == fe[t] \in {"none", "unusable"} \/ frontend_error(t)

needs_replacement(t) == live_count <= Greatest(remaining[t], 1)

Floor(t) == Least(remaining[t] + MIN_IDLE_WORKERS, MaxWorkers)

(* return_or_reap_worker up to its CAS, for a frontend of health h.        *)
ReturnOrReap(t, h) ==
  \/ /\ live_count > Floor(t)
     /\ loaded' = [loaded EXCEPT ![t] = live_count]
     /\ fe' = [fe EXCEPT ![t] = h]
     /\ Goto(t, "reap_cas")
     /\ UNCHANGED idle
  \/ /\ live_count <= Floor(t)
     /\ idle' = [idle EXCEPT ![h] = @ + 1]
     /\ fe' = [fe EXCEPT ![t] = "none"]
     /\ Goto(t, "grow")
     /\ UNCHANGED loaded

(* account_live_worker                                                     *)
AccountLive(t) ==
  /\ pc[t] = "account"
  /\ ~IsDead(t)
  /\ pool_accounted' = [pool_accounted EXCEPT ![t] = TRUE]
  /\ ReturnOrReap(t, fe[t])
  /\ UNCHANGED <<attempts, result, remaining, checked_out, finished, startVars,
                 tasks_remaining, live_count, growing, spawn_failures, joinVars>>

ReapCas(t) ==
  /\ pc[t] = "reap_cas"
  /\ \/ /\ live_count = loaded[t]
        /\ live_count' = live_count - 1
        /\ UNCHANGED idle
     \/ /\ live_count # loaded[t]
        /\ idle' = [idle EXCEPT ![fe[t]] = @ + 1]
        /\ UNCHANGED live_count
  /\ fe' = [fe EXCEPT ![t] = "none"]
  /\ loaded' = [loaded EXCEPT ![t] = 0]
  /\ Goto(t, "grow")
  /\ UNCHANGED <<attempts, result, remaining, leaseVars, startVars, tasks_remaining,
                 growing, spawn_failures, joinVars>>

(* Slip: the joiner accounts for a lease the task already accounted for.   *)
AccountDeadTwice(t) ==
  /\ pc[t] = "account"
  /\ IsDead(t)
  /\ fe' = [fe EXCEPT ![t] = "none"]
  /\ pool_accounted' = [pool_accounted EXCEPT ![t] = @ \/ checked_out[t]]
  /\ Goto(t, IF ~checked_out[t] THEN "grow"
             ELSE IF needs_replacement(t) THEN "replace" ELSE "reap_slot")
  /\ UNCHANGED <<taskVars, checked_out, finished, startVars, poolVars, joinVars>>

(* account_dead_worker_if_checked_out: nothing to do for a lease that has  *)
(* no worker or is accounted for; else replace the worker or give up its   *)
(* slot.                                                                   *)
AccountDead(t) ==
  /\ pc[t] = "account"
  /\ IsDead(t)
  /\ fe' = [fe EXCEPT ![t] = "none"]
  /\ pool_accounted' = [pool_accounted EXCEPT ![t] = @ \/ checked_out[t]]
  /\ Goto(t, IF ~checked_out[t] \/ pool_accounted[t] THEN "grow"
             ELSE IF needs_replacement(t) THEN "replace" ELSE "reap_slot")
  /\ UNCHANGED <<taskVars, checked_out, finished, startVars, poolVars, joinVars>>

Replace(t) ==
  /\ pc[t] = "replace"
  /\ ReturnOrReap(t, "ok")
  /\ UNCHANGED <<attempts, result, remaining, leaseVars, startVars, tasks_remaining,
                 live_count, growing, spawn_failures, joinVars>>

ReplaceFails(t) ==
  /\ pc[t] = "replace"
  /\ SpawnFails
  /\ Goto(t, "reap_slot")
  /\ UNCHANGED <<fe, taskVars, leaseVars, startVars, tasks_remaining, live_count,
                 idle, growing, joinVars>>

(* reap_dead_slot                                                          *)
ReapSlot(t) ==
  /\ pc[t] = "reap_slot"
  /\ live_count' = live_count - 1
  /\ Goto(t, "grow")
  /\ UNCHANGED <<fe, taskVars, leaseVars, startVars, tasks_remaining, idle, growing,
                 spawn_failures, joinVars>>

(* maybe_grow: the load and the early return, then the CAS.                *)
WantsGrowth(t) == remaining[t] > live_count /\ live_count < MaxWorkers

Grow(t) ==
  /\ pc[t] = "grow"
  /\ loaded' = [loaded EXCEPT ![t] = IF WantsGrowth(t) THEN live_count ELSE 0]
  /\ Goto(t, IF WantsGrowth(t) THEN "grow_cas" ELSE "report")
  /\ UNCHANGED <<fe, attempts, result, remaining, leaseVars, startVars, poolVars, joinVars>>

GrowCas(t) ==
  /\ pc[t] = "grow_cas"
  /\ \/ /\ live_count = loaded[t]
        /\ live_count' = live_count + 1
        /\ growing' = growing + 1
     \/ /\ live_count # loaded[t]
        /\ UNCHANGED <<live_count, growing>>
  /\ Goto(t, "report")
  /\ UNCHANGED <<fe, taskVars, leaseVars, startVars, tasks_remaining, idle,
                 spawn_failures, joinVars>>

(* The detached spawn of maybe_grow.                                       *)
Grown ==
  /\ growing > 0
  /\ growing' = growing - 1
  /\ \/ /\ idle' = [idle EXCEPT !.ok = @ + 1]
        /\ UNCHANGED <<live_count, spawn_failures>>
     \/ /\ SpawnFails
        /\ live_count' = live_count - 1
        /\ UNCHANGED idle
  /\ UNCHANGED <<pc, fe, taskVars, leaseVars, startVars, tasks_remaining, joinVars>>

(* The task reports its outcome and ends.                                  *)
Report(t) ==
  /\ pc[t] = "report"
  /\ abort[t] # "recovering"
  /\ DropFuture(t)
  /\ DropLocals(t)
  /\ Goto(t, "done")
  /\ UNCHANGED <<leaseVars, poolVars, joinVars>>

-----------------------------------------------------------------------------
(* The joiner.                                                             *)

(* The next task to join; after the last one of a layer the next layer is  *)
(* spawned, with its own counter, retry claim and watchdogs, unless the    *)
(* total deadline has passed, in which case its functions are skipped.     *)
Advance ==
  LET next == Layer(LayerOf[joining + 1]) IN
  /\ \/ /\ joining < TaskCount => LayerOf[joining + 1] = LayerOf[joining]
        /\ joining' = joining + 1
        /\ UNCHANGED <<pc, tasks_remaining, claimant, clock>>
     \/ /\ joining < TaskCount
        /\ LayerOf[joining + 1] # LayerOf[joining]
        /\ ~scan_over
        /\ joining' = joining + 1
        /\ pc' = [t \in Tasks |-> IF t \in next THEN "gate" ELSE pc[t]]
        /\ tasks_remaining' = Cardinality(next)
        /\ claimant' = 0
        /\ clock' = 0
     \/ /\ joining < TaskCount
        /\ LayerOf[joining + 1] # LayerOf[joining]
        /\ scan_over
        /\ joining' = TaskCount + 1
        /\ UNCHANGED <<pc, tasks_remaining, claimant, clock>>
  /\ UNCHANGED <<fe, taskVars, leaseVars, startVars, live_count, idle, growing,
                 spawn_failures, abort, scan_over>>

Join ==
  /\ joining \in Tasks
  /\ pc[joining] = "done"
  /\ abort[joining] = "no"
  /\ Advance

(* Slip: the retry claimant has no deadline of its own.                    *)
OverdueUnclaimed(t) == scan_over \/ (claimant # t /\ clock >= 1)

(* The deadline of the joined task, extended for the retry claimant, and   *)
(* never later than the deadline of the scan.                              *)
Overdue(t) == scan_over \/ clock >= (IF claimant = t THEN 2 ELSE 1)

RequestAbort ==
  /\ joining \in Tasks
  /\ pc[joining] \notin {"done", "panicked"}
  /\ abort[joining] = "no"
  /\ Overdue(joining)
  /\ abort' = [abort EXCEPT ![joining] = "requested"]
  /\ UNCHANGED <<pc, fe, taskVars, leaseVars, startVars, poolVars, joining, clock,
                 scan_over, claimant>>

(* Where a task can be cancelled.                                          *)
AwaitPoints == {"gate", "permit", "checkout", "run", "respawn", "replace"}

(* handle.await after handle.abort(): the future is dropped at an await    *)
(* point, or ran to its end first.  A panicked task is recovered the same  *)
(* way.                                                                    *)
Recover ==
  /\ joining \in Tasks
  /\ \/ abort[joining] = "requested" /\ pc[joining] \in AwaitPoints \cup {"done", "panicked"}
     \/ abort[joining] = "no" /\ pc[joining] = "panicked"
  /\ abort' = [abort EXCEPT ![joining] = "recovering"]
  /\ result' = [result EXCEPT ![joining] = "aborted"]
  /\ DropFuture(joining)
  /\ attempts' = [attempts EXCEPT ![joining] = 1]
  /\ remaining' = [remaining EXCEPT ![joining] = 0]
  /\ loaded' = [loaded EXCEPT ![joining] = 0]
  /\ Goto(joining, "finish")
  /\ UNCHANGED <<leaseVars, poolVars, joining, clock, scan_over, claimant>>

(* The joiner reports the outcome in the task's place.                     *)
Recovered ==
  /\ joining \in Tasks
  /\ abort[joining] = "recovering"
  /\ pc[joining] = "report"
  /\ Goto(joining, "done")
  /\ DropLocals(joining)
  /\ abort' = [abort EXCEPT ![joining] = "no"]
  /\ UNCHANGED <<fe, leaseVars, startVars, poolVars, joining, clock, scan_over, claimant>>

(* Time passes: the watchdog of a layer, then its extension; the scan.     *)
Tick ==
  /\ joining \in Tasks
  /\ clock < 2
  /\ clock' = clock + 1
  /\ UNCHANGED <<pc, fe, taskVars, leaseVars, startVars, poolVars, joining, abort,
                 scan_over, claimant>>

TotalDeadline ==
  /\ TimeoutTotal
  /\ joining \in Tasks
  /\ ~scan_over
  /\ scan_over' = TRUE
  /\ UNCHANGED <<pc, fe, taskVars, leaseVars, startVars, poolVars, joining, abort,
                 clock, claimant>>

-----------------------------------------------------------------------------
Settle(t) ==
  \/ Finish(t) \/ AccountLive(t) \/ ReapCas(t) \/ AccountDead(t)
  \/ Replace(t) \/ ReplaceFails(t) \/ ReapSlot(t) \/ Grow(t) \/ GrowCas(t)

TaskStep(t) ==
  \/ EnterGate(t) \/ AcquirePermit(t) \/ Checkout(t)
  \/ RunPhased(t) \/ ClaimBuildRetry(t) \/ RetryTransport(t)
  \/ Respawn(t) \/ RespawnFails(t) \/ Panic(t) \/ OpenGate(t)
  \/ Settle(t) \/ Report(t)

Joiner == Join \/ RequestAbort \/ Recover \/ Recovered

Done == joining > TaskCount /\ growing = 0 /\ UNCHANGED vars

Next ==
  \/ \E t \in Tasks : TaskStep(t)
  \/ Grown
  \/ Joiner
  \/ Tick
  \/ TotalDeadline
  \/ Done

(* Tasks and the joiner run on tokio's executor, which polls every ready   *)
(* future; Frontend::spawn bounds its handshake; time passes.  Nothing is  *)
(* assumed of run_phased: a future that hangs is what the watchdog is for. *)
Fairness ==
  /\ \A t \in Tasks : WF_vars(pc[t] # "run" /\ TaskStep(t))
  /\ WF_vars(Joiner)
  /\ WF_vars(Grown)
  /\ WF_vars(Tick)

Spec == Init /\ [][Next]_vars /\ Fairness

-----------------------------------------------------------------------------
(* Properties.                                                             *)

Places ==
  {"unspawned", "gate", "permit", "checkout", "run", "respawn", "open_gate", "finish",
   "account", "reap_cas", "replace", "reap_slot", "grow", "grow_cas", "report", "done",
   "panicked"}

(* The counters of the pool stay within its ceiling, so none underflows    *)
(* and the channel, whose capacity is the ceiling, never blocks a sender.  *)
TypeOK ==
  /\ pc \in [Tasks -> Places]
  /\ fe \in [Tasks -> Health \cup {"none", "unusable"}]
  /\ attempts \in [Tasks -> 1 .. AttemptLimit]
  /\ remaining \in [Tasks -> 0 .. TaskCount]
  /\ loaded \in [Tasks -> 0 .. MaxWorkers]
  /\ tasks_remaining \in 0 .. TaskCount
  /\ live_count \in 0 .. MaxWorkers
  /\ idle \in [Health -> 0 .. MaxWorkers]
  /\ growing \in 0 .. MaxWorkers

(* A slot of the pool is held by a task from its checkout until its lease  *)
(* is settled.                                                             *)
HoldsSlot(t) ==
  \/ checked_out[t] /\ ~pool_accounted[t]
  \/ pc[t] \in {"replace", "reap_slot", "reap_cas"}

UsedSlots ==
  idle.ok + idle.spoiled + idle.stale + growing + Cardinality({t \in Tasks : HoldsSlot(t)})

(* Whatever aborts, dies or grows at the same time, live_count accounts    *)
(* for every worker, so no more than --parallelism workers ever exist.     *)
LiveCountCovers == UsedSlots <= live_count /\ live_count <= MaxWorkers

(* The joiner recovers the capacity of an aborted task exactly once: no    *)
(* slot is counted as alive that no worker and no task stands for.         *)
SlotsRecovered == live_count <= UsedSlots

(* tasks_remaining counts the leases of the layer not yet finished, across *)
(* aborts, panics and tasks that end while they are aborted.               *)
TasksRemainingExact ==
  joining \in Tasks =>
    tasks_remaining = Cardinality({t \in Layer(LayerOf[joining]) : ~finished[t]})

HoldsWorker(t) == pc[t] \in {"run", "respawn"}

(* Two functions of one file never run at the same time.                   *)
SameFileSerial ==
  \A t, u \in Tasks : SharesFile(t, u) /\ HoldsWorker(t) => ~HoldsWorker(u)

(* An error nobody passes on, or exhausted retries, may put a frontend     *)
(* with an unread line back into the pool, but it costs one later function *)
(* at most: the frontend that failed a function with the answer to another *)
(* request is dropped, not pooled again.                                   *)
StaleWorkerNotPooled == ~Concolic => idle.stale = 0

(* The scan ends: every task is joined, whatever dies or hangs.            *)
EveryTaskJoined == <>(joining > TaskCount)

(* The fleet is released even if the leader fails or is aborted.           *)
GateOpens == gate = "led" ~> gate = "open"

=============================================================================
