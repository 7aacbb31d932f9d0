---------------------------- MODULE FunctionMode ----------------------------
(***************************************************************************)
(* A layer in function isolation (run_layer_function_mode of               *)
(* scan_orchestrator.rs): every function gets a frontend subprocess of its *)
(* own, a semaphore caps how many run at once, the first function of the   *)
(* scan runs alone behind the warm-up gate, and the layer's joiner aborts  *)
(* what outlives the total deadline.                                       *)
(*                                                                         *)
(* A task is cancelled at an await point only.  The steps from the lock of *)
(* behavior_maps to the end of the task have none, so they are one action. *)
(***************************************************************************)
EXTENDS Naturals, FiniteSets

CONSTANTS
  TaskCount,       \* functions of the layer, in spawn order
  MaxConcurrent,   \* --parallelism
  TimeoutTotal     \* ScanConfig::timeout_total is set

Tasks == 1 .. TaskCount

ASSUME LayerAssumption ==
  /\ TaskCount \in Nat
  /\ MaxConcurrent \in Nat \ {0}
  /\ TimeoutTotal \in BOOLEAN

VARIABLES
  pc,          \* [Tasks -> where the task is]
  frontends,   \* tasks whose subprocess exists
  permits,     \* tasks that hold a permit of the semaphore
  gate,        \* warm-up gate: "new", "led" or "open"
  leader,      \* the task that holds the gate's guard, or 0
  result,      \* [Tasks -> outcome the task has reached, or "none"]
  maps,        \* behavior_maps: functions whose map is entered
  outcomes,    \* [Tasks -> outcome the joiner pushed, or "none"]
  joining,     \* the task the joiner waits for
  aborting,    \* the joiner has aborted that task and awaits its end
  scan_over    \* the total deadline has passed

taskVars == <<pc, frontends, permits, gate, leader, result, maps>>
joinVars == <<outcomes, joining, aborting, scan_over>>
vars == <<taskVars, joinVars>>

Phased == {"success", "error", "unsupported", "timeout"}
Outcomes == Phased \cup {"total_timeout"}
Ended == {"ended", "panicked", "cancelled"}

(* The gate is the scan's: an earlier layer may have opened it.            *)
Init ==
  /\ pc = [t \in Tasks |-> "gate"]
  /\ frontends = {}
  /\ permits = {}
  /\ gate \in {"new", "open"}
  /\ leader = 0
  /\ result = [t \in Tasks |-> "none"]
  /\ maps = {}
  /\ outcomes = [t \in Tasks |-> "none"]
  /\ joining = 1
  /\ aborting = FALSE
  /\ scan_over = FALSE

Goto(t, where) == pc' = [pc EXCEPT ![t] = where]

-----------------------------------------------------------------------------
(* A task.                                                                 *)

(* Slip: whoever finds the gate closed may lead.                           *)
EnterGateUnchecked(t) ==
  /\ pc[t] = "gate"
  /\ gate' = IF gate = "open" THEN gate ELSE "led"
  /\ leader' = IF gate = "open" THEN leader ELSE t
  /\ Goto(t, "permit")
  /\ UNCHANGED <<frontends, permits, result, maps, joinVars>>

(* BuildWarmupGate::enter: the first task of the scan leads, the others    *)
(* wait until the gate is open.                                            *)
EnterGate(t) ==
  /\ pc[t] = "gate"
  /\ gate # "led"
  /\ gate' = IF gate = "open" THEN gate ELSE "led"
  /\ leader' = IF gate = "open" THEN leader ELSE t
  /\ Goto(t, "permit")
  /\ UNCHANGED <<frontends, permits, result, maps, joinVars>>

AcquirePermit(t) ==
  /\ pc[t] = "permit"
  /\ Cardinality(permits) < MaxConcurrent
  /\ permits' = permits \cup {t}
  /\ Goto(t, "spawn")
  /\ UNCHANGED <<frontends, gate, leader, result, maps, joinVars>>

(* Frontend::spawn starts the subprocess and awaits its handshake.         *)
Launch(t) ==
  /\ pc[t] = "spawn"
  /\ frontends' = frontends \cup {t}
  /\ Goto(t, "handshake")
  /\ UNCHANGED <<permits, gate, leader, result, maps, joinVars>>

Spawned(t) ==
  /\ pc[t] = "handshake"
  /\ Goto(t, "run")
  /\ UNCHANGED <<frontends, permits, gate, leader, result, maps, joinVars>>

(* Slip: the subprocess of a dropped future is left running.               *)
DropFutureDetached(t) ==
  /\ UNCHANGED frontends
  /\ permits' = permits \ {t}
  /\ leader' = IF leader = t THEN 0 ELSE leader
  /\ gate' = IF leader = t THEN "open" ELSE gate

(* Slip: the permit is forgotten instead of dropped.                       *)
DropFutureKeepPermit(t) ==
  /\ frontends' = frontends \ {t}
  /\ UNCHANGED permits
  /\ leader' = IF leader = t THEN 0 ELSE leader
  /\ gate' = IF leader = t THEN "open" ELSE gate

(* What the end of the future drops, however it ends: the frontend, which  *)
(* is killed on drop, then the permit, then the gate's guard.              *)
DropFuture(t) ==
  /\ frontends' = frontends \ {t}
  /\ permits' = permits \ {t}
  /\ leader' = IF leader = t THEN 0 ELSE leader
  /\ gate' = IF leader = t THEN "open" ELSE gate

(* Spawning failed: the early return.                                      *)
SpawnFails(t) ==
  /\ pc[t] \in {"spawn", "handshake"}
  /\ result' = [result EXCEPT ![t] = "error"]
  /\ DropFuture(t)
  /\ Goto(t, "ended")
  /\ UNCHANGED <<maps, joinVars>>

(* run_phased, bounded by its own two timeouts.                            *)
RunPhased(t) ==
  /\ pc[t] = "run"
  /\ \E r \in Phased : result' = [result EXCEPT ![t] = r]
  /\ Goto(t, "shutdown")
  /\ UNCHANGED <<frontends, permits, gate, leader, maps, joinVars>>

Panic(t) ==
  /\ pc[t] = "run"
  /\ DropFuture(t)
  /\ Goto(t, "panicked")
  /\ UNCHANGED <<result, maps, joinVars>>

(* Slip: the permit goes back before the subprocess has gone.              *)
ShutdownLater(t) ==
  /\ pc[t] = "shutdown"
  /\ permits' = permits \ {t}
  /\ Goto(t, "settle")
  /\ UNCHANGED <<frontends, gate, leader, result, maps, joinVars>>

(* frontend.shutdown().await                                               *)
Shutdown(t) ==
  /\ pc[t] = "shutdown"
  /\ frontends' = frontends \ {t}
  /\ Goto(t, "settle")
  /\ UNCHANGED <<permits, gate, leader, result, maps, joinVars>>

(* Slip: the map is entered for whatever result.                           *)
SettleAny(t) ==
  /\ pc[t] = "settle"
  /\ maps' = maps \cup {t}
  /\ DropFuture(t)
  /\ Goto(t, "ended")
  /\ UNCHANGED <<result, joinVars>>

(* After the lock of behavior_maps: a success is entered (and stored, with *)
(* the error of the store discarded), and the task returns its outcome.    *)
Settle(t) ==
  /\ pc[t] = "settle"
  /\ maps' = IF result[t] = "success" THEN maps \cup {t} ELSE maps
  /\ DropFuture(t)
  /\ Goto(t, "ended")
  /\ UNCHANGED <<result, joinVars>>

-----------------------------------------------------------------------------
(* The joiner, in spawn order.                                             *)

Push(outcome) ==
  /\ outcomes' = [outcomes EXCEPT ![joining] = outcome]
  /\ joining' = joining + 1

(* The handle is polled before the deadline is looked at: a task that has  *)
(* ended is joined even when the deadline has passed.                      *)
Join ==
  /\ joining \in Tasks /\ ~aborting
  /\ pc[joining] \in {"ended", "panicked"}
  /\ Push(IF pc[joining] = "panicked" THEN "error" ELSE result[joining])
  /\ UNCHANGED <<taskVars, aborting, scan_over>>

(* The wait ran into the deadline: handle.abort().                         *)
RequestAbort ==
  /\ joining \in Tasks /\ ~aborting
  /\ scan_over
  /\ pc[joining] \notin Ended
  /\ aborting' = TRUE
  /\ UNCHANGED <<taskVars, outcomes, joining, scan_over>>

(* An aborted future is dropped at an await point.  For a failed run the   *)
(* last one is the shutdown; a success still awaits the lock of the maps.  *)
AwaitPoint(t) ==
  \/ pc[t] \in {"gate", "permit", "handshake", "run", "shutdown"}
  \/ pc[t] = "settle" /\ result[t] = "success"

Cancel ==
  /\ aborting
  /\ AwaitPoint(joining)
  /\ DropFuture(joining)
  /\ Goto(joining, "cancelled")
  /\ UNCHANGED <<result, maps, joinVars>>

(* `let _ = handle.await`: what the task returned meanwhile is discarded.  *)
Aborted ==
  /\ aborting
  /\ pc[joining] \in Ended
  /\ Push("total_timeout")
  /\ aborting' = FALSE
  /\ UNCHANGED <<taskVars, scan_over>>

TotalDeadline ==
  /\ TimeoutTotal /\ ~scan_over
  /\ scan_over' = TRUE
  /\ UNCHANGED <<taskVars, outcomes, joining, aborting>>

Done == joining > TaskCount /\ UNCHANGED vars

TaskStep(t) ==
  \/ EnterGate(t) \/ AcquirePermit(t) \/ Launch(t) \/ Spawned(t) \/ SpawnFails(t)
  \/ RunPhased(t) \/ Panic(t) \/ Shutdown(t) \/ Settle(t)

Joiner == Join \/ RequestAbort \/ Cancel \/ Aborted

Next == (\E t \in Tasks : TaskStep(t)) \/ Joiner \/ TotalDeadline \/ Done

(* The executor polls every ready future; spawn, run_phased and shutdown   *)
(* are bounded by their own timeouts, so each of them ends.  Nothing is    *)
(* assumed of the total deadline, which most scans do not have.            *)
Fairness == (\A t \in Tasks : WF_vars(TaskStep(t))) /\ WF_vars(Joiner)

Spec == Init /\ [][Next]_vars /\ Fairness

-----------------------------------------------------------------------------

(* The type invariant.                                                     *)
TypeOK ==
  /\ pc \in [Tasks -> {"gate", "permit", "spawn", "handshake", "run", "shutdown",
                       "settle"} \cup Ended]
  /\ frontends \subseteq Tasks /\ permits \subseteq Tasks /\ maps \subseteq Tasks
  /\ gate \in {"new", "led", "open"}
  /\ leader \in Tasks \cup {0}
  /\ result \in [Tasks -> Phased \cup {"none"}]
  /\ outcomes \in [Tasks -> Outcomes \cup {"none"}]
  /\ joining \in 1 .. TaskCount + 1
  /\ aborting \in BOOLEAN /\ scan_over \in BOOLEAN

(* "Concurrency is capped by max_concurrent": subprocesses, not tasks, and *)
(* through failed spawns, panics and aborts in any phase.                  *)
DedicatedBounded == Cardinality(frontends) <= MaxConcurrent

(* Until the first function of the scan has ended, its frontend is the     *)
(* only one, so no other build races with the cold one.                    *)
WarmupAlone == gate # "open" => frontends \subseteq {leader}

(* The outcomes the layer returns agree with the maps that later layers    *)
(* read: a success has its map, and a map belongs to a success, or to a    *)
(* function that ended after the deadline had given up on it.              *)
OutcomesMatchMaps ==
  \A t \in Tasks : outcomes[t] # "none" =>
    /\ outcomes[t] = "success" => t \in maps
    /\ t \in maps => outcomes[t] = "success" \/ (scan_over /\ outcomes[t] = "total_timeout")

(* "It is never shared": when the layer returns, no subprocess, no permit  *)
(* and no hold on the gate outlives it, whatever was aborted.              *)
LayerLeavesNothing ==
  joining > TaskCount => frontends = {} /\ permits = {} /\ gate # "led"

(* Every function of the layer gets an outcome, with no help from a total  *)
(* deadline: neither the gate nor the semaphore is ever lost.              *)
EveryTaskJoined == <>(joining > TaskCount)

=============================================================================
