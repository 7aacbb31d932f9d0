-------------------------- MODULE SharedPoolProofs --------------------------
(***************************************************************************)
(* Proofs about SharedPool for any number of tasks, layers, files and      *)
(* workers, with any failures, and (at the end) about FrontendTransport,   *)
(* the wire between a worker and its frontend.                             *)
(***************************************************************************)
EXTENDS SharedPool, FrontendTransport, FiniteSetTheorems, SequenceTheorems, TLAPS

(* The inductive invariant.                                                *)

Results ==
  {"none", "aborted", "success", "failed", "build_timeout", "explore_timeout",
   "transport", "exhausted", "misaligned", "tainted"}

Types ==
  /\ pc \in [Tasks -> Places]
  /\ fe \in [Tasks -> Health \cup {"none", "unusable"}]
  /\ attempts \in [Tasks -> 1 .. AttemptLimit]
  /\ result \in [Tasks -> Results]
  /\ remaining \in [Tasks -> Int] /\ loaded \in [Tasks -> Int]
  /\ checked_out \in [Tasks -> BOOLEAN] /\ finished \in [Tasks -> BOOLEAN]
  /\ pool_accounted \in [Tasks -> BOOLEAN] /\ permit \in [Tasks -> BOOLEAN]
  /\ tasks_remaining \in Int /\ live_count \in Int
  /\ idle \in [Health -> Nat] /\ growing \in Nat
  /\ joining \in 1 .. TaskCount + 1
  /\ abort \in [Tasks -> {"no", "requested", "recovering"}]

NotStarted == {"unspawned", "gate", "permit", "checkout"}
AccountedPlaces == {"replace", "reap_slot", "reap_cas"}

(* What a task's place says of its lease and of the frontend it holds.     *)
Stage(t) ==
  /\ pc[t] \in NotStarted => ~checked_out[t] /\ ~pool_accounted[t] /\ ~finished[t]
  /\ pc[t] \in {"run", "respawn"} => checked_out[t] /\ ~pool_accounted[t]
  /\ pc[t] \in AccountedPlaces => pool_accounted[t]
  /\ fe[t] # "none" => pc[t] \in {"run", "open_gate", "finish", "account", "reap_cas"}
  /\ fe[t] # "none" /\ pc[t] # "reap_cas" => checked_out[t] /\ ~pool_accounted[t]
  /\ pc[t] \in {"run", "reap_cas"} => fe[t] \in Health
  /\ pc[t] = "grow_cas" => loaded[t] < MaxWorkers

Stages == \A t \in Tasks : Stage(t)

(* The joiner goes through the layers in order: the tasks it has not       *)
(* joined are in its layer or not spawned, and only the task it waits for  *)
(* is being aborted.                                                       *)
JoinOrder ==
  \A t \in Tasks :
    /\ pc[t] \notin {"unspawned", "done"} \/ abort[t] # "no" =>
         joining <= t /\ LayerOf[t] = LayerOf[joining]
    /\ abort[t] # "no" => t = joining
    /\ joining \in Tasks /\ LayerOf[t] > LayerOf[joining] => pc[t] = "unspawned"

WithPermit == {"checkout", "run", "respawn"}

(* A task that shares its file holds the permit while it has a worker.     *)
Permits ==
  \A t, u \in Tasks : SharesFile(t, u) =>
    /\ pc[t] \in WithPermit => permit[t]
    /\ permit[t] => ~permit[u]

Ranges ==
  /\ remaining \in [Tasks -> 0 .. TaskCount] /\ loaded \in [Tasks -> 0 .. MaxWorkers]
  /\ tasks_remaining \in 0 .. TaskCount /\ live_count \in 0 .. MaxWorkers

(* Without concolic exploration a frontend that failed its function with   *)
(* an earlier answer is known from the result of the task, because the     *)
(* retries of a function are exhausted on a frontend spawned for it.       *)
CleanTask(t) ==
  /\ pc[t] \in NotStarted => attempts[t] = 1
  /\ pc[t] = "run" /\ attempts[t] > 1 => fe[t] = "ok"
  /\ fe[t] = "stale" =>
       pc[t] \in {"open_gate", "finish", "account"} /\ result[t] = "misaligned"

Clean == idle.stale = 0 /\ \A t \in Tasks : CleanTask(t)

IInv ==
  /\ Types /\ Stages /\ JoinOrder /\ Permits
  /\ LiveCountCovers /\ TasksRemainingExact /\ Ranges

(* The bounds of the constants, for the provers.                           *)
LEMMA Constants ==
  /\ TaskCount \in Nat \ {0} /\ MaxWorkers \in Nat \ {0} /\ AttemptLimit \in Nat \ {0}
  /\ Tasks = 1 .. TaskCount /\ 1 \in Tasks /\ IsFiniteSet(Tasks)
  /\ LayerOf \in [Tasks -> Nat]
  /\ \A t, u \in Tasks : t <= u => LayerOf[t] <= LayerOf[u]
<1>1. TaskCount \in Nat \ {0} /\ Tasks = 1 .. TaskCount
  BY PoolAssumption DEF Tasks
<1>2. IsFiniteSet(Tasks)
  BY <1>1, FS_Interval
<1>3. \A t, u \in Tasks : t <= u => LayerOf[t] <= LayerOf[u]
  <2> TAKE t, u \in Tasks
  <2> HAVE t <= u
  <2>1. CASE t = u
    BY <2>1, PoolAssumption
  <2>2. CASE t < u
    BY <2>2, PoolAssumption
  <2> QED BY <1>1, <2>1, <2>2
<1> QED BY <1>1, <1>2, <1>3, PoolAssumption

(* Tasks and layers are numbers in the same order.                         *)
LEMMA LayerFacts ==
  ASSUME NEW t \in Tasks, NEW u \in Tasks
  PROVE  /\ t \in Nat /\ 1 <= t /\ t <= TaskCount /\ LayerOf[t] \in Nat
         /\ t <= u => LayerOf[t] <= LayerOf[u]
BY Constants

-----------------------------------------------------------------------------
(* Types.                                                                  *)

(* The values a task's locals are reset to.                                *)
LEMMA ResetTypes == 1 \in 1 .. AttemptLimit /\ "none" \in Results /\ "aborted" \in Results
BY Constants DEF Results

(* What run_phased returns.                                                *)
LEMMA ResultTypes ==
  ASSUME NEW h, NEW r \in PhasedResults(h) \ {"panic"}
  PROVE  LoopResult(r) \in Results
BY PoolAssumption DEF PhasedResults, Results, Retryable, LoopResult

(* The frontend it leaves.                                                 *)
LEMMA LeavesTypes ==
  ASSUME NEW h \in Health \cup {"none", "unusable"}, NEW r, NEW g \in Leaves(h, r)
  PROVE  g \in Health \cup {"none", "unusable"}
<1> DEFINE after == CASE r \in {"success", "failed"} -> {h}
                      [] r = "swallowed" -> {IF h = "ok" THEN "spoiled" ELSE h}
                      [] r = "misaligned" -> {"stale"}
                      [] r = "unreadable" -> IF h = "ok" THEN {"ok", "spoiled"} ELSE {"stale"}
                      [] OTHER -> {}
<1>1. after \subseteq Health \cup {"none", "unusable"}
  BY DEF Health
<1> QED BY <1>1 DEF Leaves

LEMMA TaskTypes ==
  ASSUME Types, NEW t \in Tasks, TaskStep(t)
  PROVE  Types'
<1> USE DEF Types, Goto, Places
<1>1. CASE EnterGate(t)
  BY <1>1 DEF EnterGate, taskVars, leaseVars, poolVars, joinVars
<1>2. CASE AcquirePermit(t)
  BY <1>2 DEF AcquirePermit, taskVars, leaseVars, poolVars, joinVars
<1>3. CASE Checkout(t)
  BY <1>3 DEF Checkout, taskVars, startVars, joinVars
<1>4. CASE RunPhased(t)
  <2>1. PICK r \in PhasedResults(fe[t]) \ {"panic"} :
          /\ result' = [result EXCEPT ![t] = LoopResult(r)]
          /\ \E h \in Leaves(fe[t], r) : fe' = [fe EXCEPT ![t] = h]
    BY <1>4 DEF RunPhased
  <2>2. LoopResult(r) \in Results
    BY ResultTypes
  <2>3. fe' \in [Tasks -> Health \cup {"none", "unusable"}]
    <3>1. fe[t] \in Health \cup {"none", "unusable"}
      OBVIOUS
    <3>2. Leaves(fe[t], r) \subseteq Health \cup {"none", "unusable"}
      BY <3>1, LeavesTypes
    <3> QED BY <2>1, <3>2
  <2>4. result' \in [Tasks -> Results]
    BY <2>1, <2>2
  <2> QED BY <1>4, <2>3, <2>4 DEF RunPhased, leaseVars, startVars, poolVars, joinVars
<1>5. CASE ClaimBuildRetry(t)
  BY <1>5 DEF ClaimBuildRetry, taskVars, leaseVars, startVars, poolVars
<1>6. CASE RetryTransport(t)
  BY <1>6, Constants DEF RetryTransport, leaseVars, startVars, poolVars, joinVars
<1>7. CASE Respawn(t)
  BY <1>7 DEF Respawn, taskVars, leaseVars, startVars, poolVars, joinVars, Health
<1>8. CASE RespawnFails(t)
  BY <1>8 DEF RespawnFails, SpawnFails, leaseVars, startVars, joinVars, Results
<1>9. CASE Panic(t)
  BY <1>9, ResetTypes DEF Panic, DropFuture, DropLocals, leaseVars, poolVars, joinVars
<1>10. CASE OpenGate(t)
  BY <1>10 DEF OpenGate, taskVars, leaseVars, poolVars, joinVars
<1>11. CASE Finish(t)
  BY <1>11 DEF Finish, startVars, joinVars
<1>12. CASE AccountLive(t)
  BY <1>12 DEF AccountLive, ReturnOrReap, IsDead, startVars, joinVars
<1>13. CASE ReapCas(t)
  BY <1>13 DEF ReapCas, leaseVars, startVars, joinVars
<1>14. CASE AccountDead(t)
  BY <1>14 DEF AccountDead, taskVars, startVars, poolVars, joinVars
<1>15. CASE Replace(t)
  BY <1>15 DEF Replace, ReturnOrReap, leaseVars, startVars, joinVars, Health
<1>16. CASE ReplaceFails(t)
  BY <1>16 DEF ReplaceFails, SpawnFails, taskVars, leaseVars, startVars, joinVars
<1>17. CASE ReapSlot(t)
  BY <1>17 DEF ReapSlot, taskVars, leaseVars, startVars, joinVars
<1>18. CASE Grow(t)
  BY <1>18 DEF Grow, leaseVars, startVars, poolVars, joinVars
<1>19. CASE GrowCas(t)
  BY <1>19 DEF GrowCas, taskVars, leaseVars, startVars, joinVars
<1>20. CASE Report(t)
  BY <1>20, ResetTypes DEF Report, DropFuture, DropLocals, leaseVars, poolVars, joinVars
<1> QED BY <1>1, <1>2, <1>3, <1>4, <1>5, <1>6, <1>7, <1>8, <1>9, <1>10, <1>11, <1>12,
           <1>13, <1>14, <1>15, <1>16, <1>17, <1>18, <1>19, <1>20
        DEF TaskStep, Settle

(* The steps that leave the tasks alone, and those of the joiner.          *)
LEMMA OtherTypes ==
  ASSUME Types, Grown \/ Joiner \/ Tick \/ TotalDeadline \/ Done
  PROVE  Types'
<1> USE DEF Types, Goto, Places
<1>1. CASE Grown
  BY <1>1 DEF Grown, SpawnFails, taskVars, leaseVars, startVars, joinVars, Health
<1>2. CASE Join
  <2>1. pc' \in [Tasks -> Places] /\ joining' \in 1 .. TaskCount + 1 /\ tasks_remaining' \in Int
    <3>1. CASE joining' = joining + 1 /\ UNCHANGED <<pc, tasks_remaining>>
      BY <1>2, <3>1, Constants DEF Join
    <3>2. ASSUME joining < TaskCount, joining' = joining + 1,
                 pc' = [t \in Tasks |-> IF t \in Layer(LayerOf[joining + 1]) THEN "gate" ELSE pc[t]],
                 tasks_remaining' = Cardinality(Layer(LayerOf[joining + 1]))
          PROVE  pc' \in [Tasks -> Places] /\ joining' \in 1 .. TaskCount + 1
                   /\ tasks_remaining' \in Int
      <4>1. IsFiniteSet(Layer(LayerOf[joining + 1]))
        BY Constants, FS_Subset DEF Layer
      <4>2. tasks_remaining' \in Int
        BY <3>2, <4>1, FS_CardinalityType
      <4> QED BY <3>2, <4>2, Constants
    <3>3. CASE joining' = TaskCount + 1 /\ UNCHANGED <<pc, tasks_remaining>>
      BY <3>3, Constants
    <3> QED BY <1>2, <3>1, <3>2, <3>3 DEF Join, Advance
  <2> QED BY <1>2, <2>1 DEF Join, Advance, taskVars, leaseVars, startVars
<1>3. CASE RequestAbort
  BY <1>3 DEF RequestAbort, taskVars, leaseVars, startVars, poolVars
<1>4. CASE Recover
  BY <1>4, ResetTypes DEF Recover, DropFuture, leaseVars, poolVars
<1>5. CASE Recovered
  BY <1>5, ResetTypes DEF Recovered, DropLocals, leaseVars, startVars, poolVars
<1>6. CASE Tick
  BY <1>6 DEF Tick, taskVars, leaseVars, startVars, poolVars
<1>7. CASE TotalDeadline
  BY <1>7 DEF TotalDeadline, taskVars, leaseVars, startVars, poolVars
<1>8. CASE Done
  BY <1>8 DEF Done, vars, taskVars, leaseVars, startVars, poolVars, joinVars
<1> QED BY <1>1, <1>2, <1>3, <1>4, <1>5, <1>6, <1>7, <1>8 DEF Joiner

LEMMA NextTypes ==
  ASSUME Types, [Next]_vars
  PROVE  Types'
<1>1. CASE UNCHANGED vars
  BY <1>1 DEF Types, vars, taskVars, leaseVars, startVars, poolVars, joinVars
<1> QED BY <1>1, TaskTypes, OtherTypes DEF Next

-----------------------------------------------------------------------------
(* Stages.                                                                 *)

(* A task that takes no part in a step stays where it is.                  *)
LEMMA StageKept ==
  ASSUME NEW t \in Tasks, Stage(t),
         pc'[t] = pc[t], fe'[t] = fe[t], loaded'[t] = loaded[t],
         checked_out'[t] = checked_out[t], finished'[t] = finished[t],
         pool_accounted'[t] = pool_accounted[t]
  PROVE  Stage(t)'
BY DEF Stage

(* The variables of the other tasks do not change in a step of t.          *)
LEMMA TaskFrame ==
  ASSUME Types, NEW t \in Tasks, TaskStep(t), NEW u \in Tasks \ {t}
  PROVE  /\ pc'[u] = pc[u] /\ fe'[u] = fe[u] /\ loaded'[u] = loaded[u]
         /\ checked_out'[u] = checked_out[u] /\ finished'[u] = finished[u]
         /\ pool_accounted'[u] = pool_accounted[u] /\ permit'[u] = permit[u]
         /\ result'[u] = result[u] /\ attempts'[u] = attempts[u]
<1> USE DEF Types, Goto
<1>1. CASE EnterGate(t)
  BY <1>1 DEF EnterGate, taskVars, leaseVars
<1>2. CASE AcquirePermit(t)
  BY <1>2 DEF AcquirePermit, taskVars, leaseVars
<1>3. CASE Checkout(t)
  BY <1>3 DEF Checkout, taskVars, startVars
<1>4. CASE RunPhased(t)
  <2>1. PICK r, h : result' = [result EXCEPT ![t] = r] /\ fe' = [fe EXCEPT ![t] = h]
    BY <1>4 DEF RunPhased
  <2> QED BY <1>4, <2>1 DEF RunPhased, leaseVars, startVars
<1>5. CASE ClaimBuildRetry(t)
  BY <1>5 DEF ClaimBuildRetry, taskVars, leaseVars, startVars
<1>6. CASE RetryTransport(t)
  BY <1>6 DEF RetryTransport, leaseVars, startVars
<1>7. CASE Respawn(t)
  BY <1>7 DEF Respawn, taskVars, leaseVars, startVars
<1>8. CASE RespawnFails(t)
  BY <1>8 DEF RespawnFails, leaseVars, startVars
<1>9. CASE Panic(t)
  BY <1>9 DEF Panic, DropFuture, DropLocals, leaseVars
<1>10. CASE OpenGate(t)
  BY <1>10 DEF OpenGate, taskVars, leaseVars
<1>11. CASE Finish(t)
  BY <1>11 DEF Finish, startVars
<1>12. CASE AccountLive(t)
  BY <1>12 DEF AccountLive, ReturnOrReap, startVars
<1>13. CASE ReapCas(t)
  BY <1>13 DEF ReapCas, leaseVars, startVars
<1>14. CASE AccountDead(t)
  BY <1>14 DEF AccountDead, taskVars, startVars
<1>15. CASE Replace(t)
  BY <1>15 DEF Replace, ReturnOrReap, leaseVars, startVars
<1>16. CASE ReplaceFails(t)
  BY <1>16 DEF ReplaceFails, taskVars, leaseVars, startVars
<1>17. CASE ReapSlot(t)
  BY <1>17 DEF ReapSlot, taskVars, leaseVars, startVars
<1>18. CASE Grow(t)
  BY <1>18 DEF Grow, leaseVars, startVars
<1>19. CASE GrowCas(t)
  BY <1>19 DEF GrowCas, taskVars, leaseVars, startVars
<1>20. CASE Report(t)
  BY <1>20 DEF Report, DropFuture, DropLocals, leaseVars
<1> QED BY <1>1, <1>2, <1>3, <1>4, <1>5, <1>6, <1>7, <1>8, <1>9, <1>10, <1>11, <1>12,
           <1>13, <1>14, <1>15, <1>16, <1>17, <1>18, <1>19, <1>20
        DEF TaskStep, Settle

(* The task that takes the step.                                           *)
LEMMA TaskStage ==
  ASSUME Types, NEW t \in Tasks, Stage(t), TaskStep(t)
  PROVE  Stage(t)'
<1> USE DEF Types, Goto, Stage, NotStarted, AccountedPlaces
<1>1. CASE EnterGate(t)
  BY <1>1 DEF EnterGate, taskVars, leaseVars
<1>2. CASE AcquirePermit(t)
  BY <1>2 DEF AcquirePermit, taskVars, leaseVars
<1>3. CASE Checkout(t)
  BY <1>3 DEF Checkout, taskVars
<1>4. CASE RunPhased(t)
  <2>1. PICK h : fe' = [fe EXCEPT ![t] = h]
    BY <1>4 DEF RunPhased
  <2> QED BY <1>4, <2>1 DEF RunPhased, leaseVars
<1>5. CASE ClaimBuildRetry(t)
  BY <1>5 DEF ClaimBuildRetry, taskVars, leaseVars
<1>6. CASE RetryTransport(t)
  BY <1>6 DEF RetryTransport, leaseVars
<1>7. CASE Respawn(t)
  BY <1>7 DEF Respawn, taskVars, leaseVars, Health
<1>8. CASE RespawnFails(t)
  BY <1>8 DEF RespawnFails, leaseVars
<1>9. CASE Panic(t)
  BY <1>9 DEF Panic, DropFuture, DropLocals, leaseVars
<1>10. CASE OpenGate(t)
  BY <1>10 DEF OpenGate, taskVars, leaseVars
<1>11. CASE Finish(t)
  BY <1>11 DEF Finish
<1>12. CASE AccountLive(t)
  BY <1>12 DEF AccountLive, ReturnOrReap, IsDead
<1>13. CASE ReapCas(t)
  BY <1>13 DEF ReapCas, leaseVars
<1>14. CASE AccountDead(t)
  BY <1>14 DEF AccountDead, taskVars
<1>15. CASE Replace(t)
  BY <1>15 DEF Replace, ReturnOrReap, leaseVars, Health
<1>16. CASE ReplaceFails(t)
  BY <1>16 DEF ReplaceFails, taskVars, leaseVars
<1>17. CASE ReapSlot(t)
  BY <1>17 DEF ReapSlot, taskVars, leaseVars
<1>18. CASE Grow(t)
  BY <1>18 DEF Grow, WantsGrowth, leaseVars
<1>19. CASE GrowCas(t)
  BY <1>19 DEF GrowCas, taskVars, leaseVars
<1>20. CASE Report(t)
  BY <1>20 DEF Report, DropFuture, DropLocals, leaseVars
<1> QED BY <1>1, <1>2, <1>3, <1>4, <1>5, <1>6, <1>7, <1>8, <1>9, <1>10, <1>11, <1>12,
           <1>13, <1>14, <1>15, <1>16, <1>17, <1>18, <1>19, <1>20
        DEF TaskStep, Settle

(* The steps of the joiner and of time, as far as the tasks go: one task   *)
(* moves, or a layer is spawned, or no task is concerned.                  *)
LEMMA OtherStages ==
  ASSUME Types, Stages, JoinOrder, Grown \/ Joiner \/ Tick \/ TotalDeadline \/ Done
  PROVE  Stages'
<1> USE DEF Types, Goto, Stages
<1>1. CASE Grown
  BY <1>1, StageKept DEF Grown, taskVars, leaseVars
<1>2. CASE Join
  <2>1. fe' = fe /\ UNCHANGED taskVars /\ UNCHANGED leaseVars
    BY <1>2 DEF Join, Advance
  <2>2. CASE pc' = pc
    BY <2>1, <2>2, StageKept DEF taskVars, leaseVars
  <2>3. ASSUME joining < TaskCount, LayerOf[joining + 1] # LayerOf[joining],
               pc' = [t \in Tasks |-> IF t \in Layer(LayerOf[joining + 1]) THEN "gate" ELSE pc[t]]
        PROVE  Stages'
    <3> SUFFICES ASSUME NEW t \in Tasks PROVE Stage(t)'
      OBVIOUS
    <3>1. CASE LayerOf[t] = LayerOf[joining + 1]
      <4>1. joining \in Tasks /\ joining + 1 \in Tasks
        BY <2>3, Constants
      <4>2. LayerOf[joining] < LayerOf[joining + 1]
        <5>1. LayerOf[joining] \in Nat /\ LayerOf[joining + 1] \in Nat
          BY <4>1, LayerFacts
        <5>2. joining <= joining + 1
          OBVIOUS
        <5>3. LayerOf[joining] <= LayerOf[joining + 1]
          BY <4>1, <5>2, LayerFacts
        <5> QED BY <2>3, <5>1, <5>3
      <4>3. pc[t] = "unspawned"
        BY <3>1, <4>1, <4>2 DEF JoinOrder
      <4>4. pc'[t] = "gate"
        BY <2>3, <3>1 DEF Layer
      <4> QED BY <2>1, <4>3, <4>4
              DEF Stage, NotStarted, AccountedPlaces, taskVars, leaseVars
    <3>2. CASE LayerOf[t] # LayerOf[joining + 1]
      <4>1. pc'[t] = pc[t]
        BY <2>3, <3>2 DEF Layer
      <4> QED BY <2>1, <4>1, StageKept DEF taskVars, leaseVars
    <3> QED BY <3>1, <3>2
  <2> QED BY <1>2, <2>2, <2>3 DEF Join, Advance
<1>3. CASE RequestAbort
  BY <1>3, StageKept DEF RequestAbort, taskVars, leaseVars
<1>4. CASE Recover
  <2>1. \A u \in Tasks \ {joining} : Stage(u)'
    BY <1>4, StageKept DEF Recover, DropFuture, leaseVars
  <2>2. Stage(joining)
    BY <1>4 DEF Recover
  <2>3. \A u \in Tasks : u = joining => Stage(u)'
    BY <1>4, <2>2 DEF Recover, DropFuture, leaseVars, Stage, NotStarted, AccountedPlaces
  <2> QED BY <2>1, <2>3
<1>5. CASE Recovered
  <2>1. \A u \in Tasks \ {joining} : Stage(u)'
    BY <1>5, StageKept DEF Recovered, DropLocals, leaseVars
  <2>2. Stage(joining)
    BY <1>5 DEF Recovered
  <2>3. \A u \in Tasks : u = joining => Stage(u)'
    BY <1>5, <2>2 DEF Recovered, DropLocals, leaseVars, Stage, NotStarted, AccountedPlaces
  <2> QED BY <2>1, <2>3
<1>6. CASE Tick
  BY <1>6, StageKept DEF Tick, taskVars, leaseVars
<1>7. CASE TotalDeadline
  BY <1>7, StageKept DEF TotalDeadline, taskVars, leaseVars
<1>8. CASE Done
  BY <1>8, StageKept DEF Done, vars, taskVars, leaseVars
<1> QED BY <1>1, <1>2, <1>3, <1>4, <1>5, <1>6, <1>7, <1>8 DEF Joiner

LEMMA NextStages ==
  ASSUME Types, Stages, JoinOrder, [Next]_vars
  PROVE  Stages'
<1>1. ASSUME NEW t \in Tasks, TaskStep(t) PROVE Stages'
  <2> SUFFICES ASSUME NEW u \in Tasks PROVE Stage(u)'
    BY DEF Stages
  <2>1. CASE u = t
    BY <1>1, <2>1, TaskStage DEF Stages
  <2>2. CASE u # t
    BY <1>1, <2>2, TaskFrame, StageKept DEF Stages
  <2> QED BY <2>1, <2>2
<1>2. CASE UNCHANGED vars
  BY <1>2, StageKept DEF Stages, vars, taskVars, leaseVars
<1> QED BY <1>1, <1>2, OtherStages DEF Next

-----------------------------------------------------------------------------
(* The joiner's order.                                                     *)

(* A step of a task is taken by a task that is spawned and not done, and   *)
(* changes neither layer nor abort.  Only AcquirePermit takes a permit, a  *)
(* task without its permit is at no worker, and only Finish counts.        *)
LEMMA TaskMoves ==
  ASSUME Types, NEW t \in Tasks, TaskStep(t)
  PROVE  /\ pc[t] \notin {"unspawned", "done"}
         /\ pc'[t] # "unspawned"
         /\ UNCHANGED <<joining, abort>>
         /\ \/ AcquirePermit(t)
            \/ /\ permit'[t] => permit[t]
               /\ pc'[t] \in WithPermit => pc[t] \in WithPermit /\ permit'[t] = permit[t]
         /\ Finish(t) \/ UNCHANGED <<finished, tasks_remaining>>
<1> USE DEF Types, Goto, WithPermit
<1>1. CASE EnterGate(t)
  BY <1>1 DEF EnterGate, joinVars, leaseVars, poolVars
<1>2. CASE AcquirePermit(t)
  BY <1>2 DEF AcquirePermit, joinVars, leaseVars, poolVars
<1>3. CASE Checkout(t)
  BY <1>3 DEF Checkout, joinVars, startVars
<1>4. CASE RunPhased(t)
  BY <1>4 DEF RunPhased, joinVars, leaseVars, startVars, poolVars
<1>5. CASE ClaimBuildRetry(t)
  BY <1>5 DEF ClaimBuildRetry, leaseVars, startVars, poolVars
<1>6. CASE RetryTransport(t)
  BY <1>6 DEF RetryTransport, joinVars, leaseVars, startVars, poolVars
<1>7. CASE Respawn(t)
  BY <1>7 DEF Respawn, joinVars, leaseVars, startVars, poolVars
<1>8. CASE RespawnFails(t)
  BY <1>8 DEF RespawnFails, joinVars, leaseVars, startVars
<1>9. CASE Panic(t)
  BY <1>9 DEF Panic, joinVars, DropFuture, leaseVars, poolVars
<1>10. CASE OpenGate(t)
  BY <1>10 DEF OpenGate, joinVars, leaseVars, poolVars
<1>11. CASE Finish(t)
  BY <1>11 DEF Finish, joinVars, startVars
<1>12. CASE AccountLive(t)
  BY <1>12 DEF AccountLive, ReturnOrReap, joinVars, startVars
<1>13. CASE ReapCas(t)
  BY <1>13 DEF ReapCas, joinVars, leaseVars, startVars
<1>14. CASE AccountDead(t)
  BY <1>14 DEF AccountDead, joinVars, startVars, poolVars
<1>15. CASE Replace(t)
  BY <1>15 DEF Replace, ReturnOrReap, joinVars, leaseVars, startVars
<1>16. CASE ReplaceFails(t)
  BY <1>16 DEF ReplaceFails, joinVars, leaseVars, startVars
<1>17. CASE ReapSlot(t)
  BY <1>17 DEF ReapSlot, joinVars, leaseVars, startVars
<1>18. CASE Grow(t)
  BY <1>18 DEF Grow, joinVars, leaseVars, startVars, poolVars
<1>19. CASE GrowCas(t)
  BY <1>19 DEF GrowCas, joinVars, leaseVars, startVars
<1>20. CASE Report(t)
  BY <1>20 DEF Report, joinVars, DropFuture, leaseVars, poolVars
<1> QED BY <1>1, <1>2, <1>3, <1>4, <1>5, <1>6, <1>7, <1>8, <1>9, <1>10, <1>11, <1>12,
           <1>13, <1>14, <1>15, <1>16, <1>17, <1>18, <1>19, <1>20
        DEF TaskStep, Settle

(* The joiner's next task.  When it leaves a layer, no task of the layer   *)
(* is under way.                                                           *)
LEMMA JoinKeepsOrder ==
  ASSUME Types, JoinOrder, Join
  PROVE  JoinOrder'
<1> USE DEF Types
<1>1. joining \in Tasks /\ pc[joining] = "done" /\ abort[joining] = "no" /\ abort' = abort
  BY DEF Join, Advance
<1>2. \A t \in Tasks : pc[t] \notin {"unspawned", "done"} \/ abort[t] # "no" =>
        joining + 1 <= t /\ LayerOf[t] = LayerOf[joining]
  <2> SUFFICES ASSUME NEW t \in Tasks, pc[t] \notin {"unspawned", "done"} \/ abort[t] # "no"
               PROVE  joining + 1 <= t /\ LayerOf[t] = LayerOf[joining]
    OBVIOUS
  <2>1. joining <= t /\ LayerOf[t] = LayerOf[joining]
    BY DEF JoinOrder
  <2>2. t # joining
    BY <1>1
  <2>3. t \in Nat /\ joining \in Nat
    BY <1>1, LayerFacts
  <2> QED BY <2>1, <2>2, <2>3
<1>3. \A t \in Tasks : abort[t] = "no"
  BY <1>1 DEF JoinOrder
<1>4. joining < TaskCount => joining + 1 \in Tasks /\ LayerOf[joining] <= LayerOf[joining + 1]
  BY <1>1, Constants
<1>5. ASSUME joining < TaskCount, LayerOf[joining + 1] # LayerOf[joining], NEW t \in Tasks
      PROVE  pc[t] \in {"unspawned", "done"}
  <2> SUFFICES ASSUME pc[t] \notin {"unspawned", "done"} PROVE FALSE
    OBVIOUS
  <2>1. joining + 1 <= t /\ LayerOf[t] = LayerOf[joining]
    BY <1>2
  <2>2. LayerOf[joining + 1] <= LayerOf[t]
    BY <1>4, <1>5, <2>1, LayerFacts
  <2>3. LayerOf[joining] \in Nat /\ LayerOf[joining + 1] \in Nat
    BY <1>1, <1>4, <1>5, LayerFacts
  <2> QED BY <1>4, <1>5, <2>1, <2>2, <2>3
<1>6. CASE /\ joining < TaskCount => LayerOf[joining + 1] = LayerOf[joining]
           /\ joining' = joining + 1 /\ pc' = pc
  <2>1. CASE joining < TaskCount
    BY <1>1, <1>2, <1>3, <1>4, <1>6, <2>1 DEF JoinOrder
  <2>2. CASE ~(joining < TaskCount)
    <3>1. joining = TaskCount /\ joining' \notin Tasks
      BY <1>1, <1>6, <2>2, Constants
    <3>2. \A t \in Tasks : ~(joining + 1 <= t)
      BY <3>1, Constants
    <3> QED BY <1>1, <1>2, <1>3, <1>6, <3>1, <3>2 DEF JoinOrder
  <2> QED BY <2>1, <2>2
<1>7. ASSUME joining < TaskCount, LayerOf[joining + 1] # LayerOf[joining], joining' = joining + 1,
             pc' = [t \in Tasks |-> IF t \in Layer(LayerOf[joining + 1]) THEN "gate" ELSE pc[t]]
      PROVE  JoinOrder'
  <2>1. \A t \in Tasks : pc'[t] = IF LayerOf[t] = LayerOf[joining + 1] THEN "gate" ELSE pc[t]
    BY <1>7 DEF Layer
  <2>2. \A t \in Tasks : LayerOf[t] \in Nat
    BY Constants
  <2>3. \A t \in Tasks : LayerOf[t] >= LayerOf[joining + 1] => joining + 1 <= t
    <3> SUFFICES ASSUME NEW t \in Tasks, LayerOf[t] >= LayerOf[joining + 1], t <= joining
                 PROVE  FALSE
      BY <1>1, Constants
    <3>1. LayerOf[t] <= LayerOf[joining]
      BY <1>1, LayerFacts
    <3> QED BY <1>1, <1>4, <1>7, <2>2, <3>1
  <2>4. \A t \in Tasks : LayerOf[t] > LayerOf[joining + 1] => pc[t] = "unspawned"
    BY <1>1, <1>4, <1>7, <2>2 DEF JoinOrder
  <2>5. \A t \in Tasks : pc'[t] \notin {"unspawned", "done"} => LayerOf[t] = LayerOf[joining + 1]
    BY <1>5, <1>7, <2>1
  <2> QED BY <1>1, <1>3, <1>4, <1>7, <2>1, <2>2, <2>3, <2>4, <2>5 DEF JoinOrder
<1>8. CASE /\ joining < TaskCount /\ LayerOf[joining + 1] # LayerOf[joining]
           /\ joining' = TaskCount + 1 /\ pc' = pc
  <2>1. joining' \notin Tasks
    BY <1>8, Constants
  <2> QED BY <1>1, <1>3, <1>5, <1>8, <2>1 DEF JoinOrder
<1> QED BY <1>6, <1>7, <1>8 DEF Join, Advance

LEMMA NextJoinOrder ==
  ASSUME Types, JoinOrder, [Next]_vars
  PROVE  JoinOrder'
<1> USE DEF Types
<1>1. ASSUME NEW t \in Tasks, TaskStep(t) PROVE JoinOrder'
  <2>1. UNCHANGED <<joining, abort>> /\ \A u \in Tasks \ {t} : pc'[u] = pc[u]
    BY <1>1, TaskMoves, TaskFrame
  <2>2. joining <= t /\ LayerOf[t] = LayerOf[joining]
    BY <1>1, TaskMoves DEF JoinOrder
  <2>3. joining \in Tasks /\ LayerOf[t] \in Nat
    BY <2>2, Constants
  <2> QED BY <2>1, <2>2, <2>3 DEF JoinOrder
<1>2. CASE Grown
  BY <1>2 DEF Grown, joinVars, JoinOrder
<1>3. CASE Join
  BY <1>3, JoinKeepsOrder
<1>4. CASE RequestAbort
  <2>1. UNCHANGED <<pc, joining>> /\ pc[joining] # "done" /\ joining \in Tasks
          /\ \A t \in Tasks : t # joining => abort'[t] = abort[t]
    BY <1>4 DEF RequestAbort
  <2> QED BY <2>1, Constants DEF JoinOrder
<1>5. CASE Recover
  <2>1. joining' = joining /\ joining \in Tasks
          /\ \A t \in Tasks : t # joining => abort'[t] = abort[t] /\ pc'[t] = pc[t]
    BY <1>5 DEF Recover, Goto
  <2>2. joining \in Nat /\ LayerOf[joining] \in Nat /\ pc'[joining] = "finish"
    BY <1>5, <2>1, LayerFacts DEF Recover, Goto
  <2>3. pc[joining] # "unspawned"
    BY <1>5 DEF Recover, AwaitPoints
  <2> QED BY <2>1, <2>2, <2>3 DEF JoinOrder
<1>6. CASE Recovered
  <2>1. joining' = joining /\ joining \in Tasks
          /\ \A t \in Tasks : t # joining => abort'[t] = abort[t] /\ pc'[t] = pc[t]
    BY <1>6 DEF Recovered, Goto
  <2>2. /\ joining \in Nat /\ LayerOf[joining] \in Nat
        /\ pc'[joining] = "done" /\ abort'[joining] = "no"
    BY <1>6, <2>1, LayerFacts DEF Recovered, Goto
  <2> QED BY <2>1, <2>2 DEF JoinOrder
<1>7. CASE Tick \/ TotalDeadline \/ Done \/ UNCHANGED vars
  BY <1>7 DEF Tick, TotalDeadline, Done, vars, joinVars, JoinOrder
<1> QED BY <1>1, <1>2, <1>3, <1>4, <1>5, <1>6, <1>7 DEF Next, Joiner

-----------------------------------------------------------------------------
(* Permits of files.                                                       *)

LEMMA NextPermits ==
  ASSUME Types, Permits, JoinOrder, [Next]_vars
  PROVE  Permits'
<1> USE DEF Types
<1>0. \A t, u \in Tasks : SharesFile(t, u) => t # u /\ SharesFile(u, t)
  BY DEF SharesFile
<1>1. ASSUME NEW t \in Tasks, AcquirePermit(t) PROVE Permits'
  <2>1. /\ \A u \in Tasks : SharesFile(t, u) => ~permit[u]
        /\ permit'[t] = \E u \in Tasks : SharesFile(t, u)
        /\ \A u \in Tasks \ {t} : permit'[u] = permit[u] /\ pc'[u] = pc[u]
    BY <1>1 DEF AcquirePermit, Goto
  <2> SUFFICES ASSUME NEW v \in Tasks, NEW w \in Tasks, SharesFile(v, w)
               PROVE  (pc'[v] \in WithPermit => permit'[v]) /\ ~(permit'[v] /\ permit'[w])
    BY DEF Permits
  <2>2. SharesFile(w, v) /\ v # w
    BY <1>0
  <2>3. CASE v = t
    BY <2>1, <2>2, <2>3 DEF Permits
  <2>4. CASE w = t
    BY <2>1, <2>2, <2>4 DEF Permits
  <2>5. CASE v # t /\ w # t
    BY <2>1, <2>5 DEF Permits
  <2> QED BY <2>3, <2>4, <2>5
<1>2. ASSUME \A u \in Tasks : /\ permit'[u] => permit[u]
                              /\ pc'[u] \in WithPermit =>
                                   pc[u] \in WithPermit /\ permit'[u] = permit[u]
      PROVE  Permits'
  BY <1>2 DEF Permits
<1>3. ASSUME NEW t \in Tasks, TaskStep(t) PROVE Permits'
  <2>1. \A u \in Tasks \ {t} : permit'[u] = permit[u] /\ pc'[u] = pc[u]
    BY <1>3, TaskFrame
  <2>2. CASE ~AcquirePermit(t)
    BY <1>2, <1>3, <2>1, <2>2, TaskMoves
  <2> QED BY <1>1, <2>2
<1>4. CASE Grown
  BY <1>2, <1>4 DEF Grown, startVars
<1>5. CASE Join
  <2>1. permit' = permit /\ \A u \in Tasks : pc'[u] = pc[u] \/ pc'[u] = "gate"
    BY <1>5 DEF Join, Advance, startVars
  <2> QED BY <1>2, <2>1 DEF WithPermit
<1>6. CASE RequestAbort
  BY <1>2, <1>6 DEF RequestAbort, startVars
<1>7. CASE Recover
  BY <1>2, <1>7 DEF Recover, DropFuture, Goto, WithPermit
<1>8. CASE Recovered
  BY <1>2, <1>8 DEF Recovered, Goto, startVars, WithPermit
<1>9. CASE Tick \/ TotalDeadline \/ Done \/ UNCHANGED vars
  BY <1>2, <1>9 DEF Tick, TotalDeadline, Done, vars, startVars
<1> QED BY <1>3, <1>4, <1>5, <1>6, <1>7, <1>8, <1>9 DEF Next, Joiner

(* Two functions of one file never have a worker at the same time.         *)
LEMMA PermitsSerial ==
  ASSUME Types, Permits
  PROVE  SameFileSerial
<1> SUFFICES ASSUME NEW t \in Tasks, NEW u \in Tasks, SharesFile(t, u),
                    HoldsWorker(t), HoldsWorker(u)
             PROVE  FALSE
  BY DEF SameFileSerial
<1>1. SharesFile(u, t)
  BY DEF SharesFile
<1> QED BY <1>1 DEF Permits, HoldsWorker, WithPermit

-----------------------------------------------------------------------------
(* The slots of the pool.                                                  *)

Holders == {t \in Tasks : HoldsSlot(t)}

LEMMA HoldersFinite ==
  /\ IsFiniteSet(Holders) /\ Cardinality(Holders) \in Nat
  /\ \A t \in Tasks : HoldsSlot(t) => Cardinality(Holders) > 0
<1>1. IsFiniteSet(Holders) /\ Cardinality(Holders) \in Nat
  BY Constants, FS_Subset, FS_CardinalityType DEF Holders
<1>2. ASSUME NEW t \in Tasks, HoldsSlot(t) PROVE Cardinality(Holders) # 0
  BY <1>1, <1>2, FS_EmptySet DEF Holders
<1> QED BY <1>1, <1>2

(* A step that moves the lease of t only.                                  *)
LEMMA HoldersStep ==
  ASSUME NEW t \in Tasks, \A u \in Tasks \ {t} : HoldsSlot(u)' <=> HoldsSlot(u)
  PROVE  /\ Cardinality(Holders) \in Nat /\ Cardinality(Holders') \in Nat
         /\ (HoldsSlot(t)' <=> HoldsSlot(t)) => Cardinality(Holders') = Cardinality(Holders)
         /\ HoldsSlot(t)' /\ ~HoldsSlot(t) => Cardinality(Holders') = Cardinality(Holders) + 1
         /\ ~HoldsSlot(t)' /\ HoldsSlot(t) => Cardinality(Holders') = Cardinality(Holders) - 1
<1>1. IsFiniteSet(Holders) /\ Cardinality(Holders) \in Nat
  BY HoldersFinite
<1>2. CASE HoldsSlot(t)' <=> HoldsSlot(t)
  <2>1. Holders' = Holders
    BY <1>2 DEF Holders
  <2> QED BY <1>1, <1>2, <2>1
<1>3. CASE HoldsSlot(t)' /\ ~HoldsSlot(t)
  <2>1. Holders' = Holders \cup {t} /\ t \notin Holders
    BY <1>3 DEF Holders
  <2> QED BY <1>1, <1>3, <2>1, FS_AddElement
<1>4. CASE ~HoldsSlot(t)' /\ HoldsSlot(t)
  <2>1. Holders' = Holders \ {t} /\ t \in Holders
    BY <1>4 DEF Holders
  <2>2. Cardinality(Holders') = Cardinality(Holders) - 1 /\ IsFiniteSet(Holders')
    BY <1>1, <2>1, FS_RemoveElement
  <2>3. Cardinality(Holders') \in Nat
    BY <2>2, FS_CardinalityType
  <2> QED BY <1>1, <1>4, <2>2, <2>3
<1> QED BY <1>2, <1>3, <1>4

Pooled == idle.ok + idle.spoiled + idle.stale + growing

LEMMA UsedSlotsFacts ==
  ASSUME Types, Types'
  PROVE  /\ Pooled \in Nat /\ Pooled' \in Nat
         /\ live_count \in Int /\ live_count' \in Int
         /\ UsedSlots = Pooled + Cardinality(Holders)
         /\ UsedSlots' = Pooled' + Cardinality(Holders')
BY DEF Types, Health, UsedSlots, Holders, Pooled

(* A frontend put into the channel or taken out of it.                     *)
LEMMA IdleStep ==
  ASSUME Types, NEW h \in Health, growing' = growing
  PROVE  /\ idle' = [idle EXCEPT ![h] = @ + 1] => Pooled' = Pooled + 1
         /\ idle' = [idle EXCEPT ![h] = @ - 1] => Pooled' = Pooled - 1
         /\ idle' = idle => Pooled' = Pooled
BY DEF Types, Health, Pooled

(* The slot t holds is given up, and nothing or one place of the pool      *)
(* comes for it.                                                           *)
LEMMA SlotFreed ==
  ASSUME Types, Types', LiveCountCovers, NEW t \in Tasks,
         \A u \in Tasks \ {t} : HoldsSlot(u)' <=> HoldsSlot(u),
         HoldsSlot(t), ~HoldsSlot(t)',
         \/ Pooled' = Pooled + 1 /\ live_count' = live_count
         \/ Pooled' = Pooled /\ live_count' = live_count - 1
  PROVE  LiveCountCovers'
<1>1. Cardinality(Holders') = Cardinality(Holders) - 1
  BY HoldersStep
<1>2. Cardinality(Holders) \in Nat /\ Cardinality(Holders') \in Nat
  BY HoldersStep
<1>3. MaxWorkers \in Nat /\ UsedSlots <= live_count /\ live_count <= MaxWorkers
  BY Constants DEF LiveCountCovers
<1>4. UsedSlots' <= live_count' /\ live_count' <= MaxWorkers
  BY <1>1, <1>2, <1>3, UsedSlotsFacts
<1> QED BY <1>4 DEF LiveCountCovers

(* t takes a slot out of the pool.                                         *)
LEMMA SlotTaken ==
  ASSUME Types, Types', LiveCountCovers, NEW t \in Tasks,
         \A u \in Tasks \ {t} : HoldsSlot(u)' <=> HoldsSlot(u),
         ~HoldsSlot(t), HoldsSlot(t)', Pooled' = Pooled - 1, live_count' = live_count
  PROVE  LiveCountCovers'
<1>1. Cardinality(Holders') = Cardinality(Holders) + 1
  BY HoldersStep
<1>2. Cardinality(Holders) \in Nat /\ Cardinality(Holders') \in Nat
  BY HoldersStep
<1>3. UsedSlots' <= live_count' /\ live_count' <= MaxWorkers
  BY <1>1, <1>2, UsedSlotsFacts DEF LiveCountCovers
<1> QED BY <1>3 DEF LiveCountCovers

(* No task takes a slot, and the pool and live_count go together.          *)
LEMMA SlotsKept ==
  ASSUME Types, Types', LiveCountCovers,
         \A u \in Tasks : HoldsSlot(u)' => HoldsSlot(u),
         \/ Pooled' = Pooled /\ live_count' = live_count
         \/ Pooled' = Pooled + 1 /\ live_count' = live_count + 1 /\ live_count < MaxWorkers
         \/ Pooled' = Pooled - 1 /\ live_count' = live_count - 1
  PROVE  LiveCountCovers'
<1>1. Holders' \subseteq Holders
  BY DEF Holders
<1>2. /\ Cardinality(Holders') <= Cardinality(Holders)
      /\ Cardinality(Holders') \in Nat /\ Cardinality(Holders) \in Nat
  BY <1>1, HoldersFinite, FS_Subset, FS_CardinalityType
<1>3. MaxWorkers \in Nat /\ UsedSlots <= live_count /\ live_count <= MaxWorkers
  BY Constants DEF LiveCountCovers
<1>4. UsedSlots' <= live_count' /\ live_count' <= MaxWorkers
  BY <1>2, <1>3, UsedSlotsFacts
<1> QED BY <1>4 DEF LiveCountCovers

LEMMA TaskSlots ==
  ASSUME Types, Types', Stages, LiveCountCovers, NEW t \in Tasks, TaskStep(t)
  PROVE  LiveCountCovers'
<1>1. \A u \in Tasks \ {t} : HoldsSlot(u)' <=> HoldsSlot(u)
  BY TaskFrame DEF HoldsSlot
<1>2. Stage(t)
  BY DEF Stages
<1>3. ASSUME UNCHANGED <<live_count, idle, growing>>, HoldsSlot(t)' => HoldsSlot(t)
      PROVE  LiveCountCovers'
  BY <1>1, <1>3, SlotsKept DEF Pooled
<1> USE <1>2 DEF Types, Goto, HoldsSlot, Stage, NotStarted, AccountedPlaces
<1>4. CASE EnterGate(t) \/ AcquirePermit(t) \/ OpenGate(t)
  BY <1>3, <1>4 DEF EnterGate, AcquirePermit, OpenGate, leaseVars, poolVars
<1>5. CASE Checkout(t)
  <2>1. PICK h \in Health : idle' = [idle EXCEPT ![h] = @ - 1]
    BY <1>5 DEF Checkout
  <2>2. UNCHANGED <<live_count, growing>> /\ ~HoldsSlot(t) /\ HoldsSlot(t)'
    BY <1>5 DEF Checkout
  <2>3. Pooled' = Pooled - 1
    BY <2>1, <2>2, IdleStep
  <2> HIDE DEF HoldsSlot, Types
  <2> QED BY <1>1, <2>2, <2>3, SlotTaken
<1>6. CASE RunPhased(t) \/ ClaimBuildRetry(t) \/ RetryTransport(t) \/ Respawn(t)
  BY <1>3, <1>6 DEF RunPhased, ClaimBuildRetry, RetryTransport, Respawn, leaseVars, poolVars
<1>7. CASE RespawnFails(t) \/ Panic(t) \/ Report(t)
  BY <1>3, <1>7 DEF RespawnFails, Panic, Report, leaseVars, poolVars
<1>8. CASE Finish(t)
  BY <1>3, <1>8 DEF Finish
<1>9. ASSUME NEW h \in Health, HoldsSlot(t), pool_accounted'[t], UNCHANGED <<live_count, growing>>,
             ReturnOrReap(t, h)
      PROVE  LiveCountCovers'
  <2>1. CASE idle' = idle
    BY <1>3, <1>9, <2>1
  <2>2. CASE idle' # idle
    <3>1. idle' = [idle EXCEPT ![h] = @ + 1] /\ ~HoldsSlot(t)'
      BY <1>9, <2>2 DEF ReturnOrReap
    <3>2. Pooled' = Pooled + 1
      BY <1>9, <3>1, IdleStep
    <3> HIDE DEF HoldsSlot, Types
    <3> QED BY <1>1, <1>9, <3>1, <3>2, SlotFreed
  <2> QED BY <2>1, <2>2
<1>10. CASE AccountLive(t)
  <2>1. fe[t] \in Health /\ HoldsSlot(t) /\ pool_accounted'[t]
    BY <1>10 DEF AccountLive, IsDead
  <2> QED BY <1>9, <1>10, <2>1 DEF AccountLive
<1>11. CASE Replace(t)
  <2>1. "ok" \in Health /\ HoldsSlot(t) /\ pool_accounted'[t]
    BY <1>11 DEF Replace, leaseVars, Health
  <2> QED BY <1>9, <1>11, <2>1 DEF Replace
<1>12. CASE ReapCas(t)
  <2>1. HoldsSlot(t) /\ ~HoldsSlot(t)' /\ growing' = growing /\ fe[t] \in Health
    BY <1>12 DEF ReapCas, leaseVars
  <2>2. \/ live_count' = live_count - 1 /\ idle' = idle
        \/ live_count' = live_count /\ idle' = [idle EXCEPT ![fe[t]] = @ + 1]
    BY <1>12 DEF ReapCas
  <2>3. \/ Pooled' = Pooled + 1 /\ live_count' = live_count
        \/ Pooled' = Pooled /\ live_count' = live_count - 1
    BY <2>1, <2>2, IdleStep
  <2> HIDE DEF HoldsSlot, Types
  <2> QED BY <1>1, <2>1, <2>3, SlotFreed
<1>13. CASE AccountDead(t)
  BY <1>3, <1>13 DEF AccountDead, poolVars
<1>14. CASE ReplaceFails(t)
  BY <1>3, <1>14 DEF ReplaceFails, leaseVars
<1>15. CASE ReapSlot(t)
  <2>1. /\ HoldsSlot(t) /\ ~HoldsSlot(t)'
        /\ live_count' = live_count - 1 /\ UNCHANGED <<idle, growing>>
    BY <1>15 DEF ReapSlot, leaseVars
  <2>2. Pooled' = Pooled
    BY <2>1 DEF Pooled
  <2> HIDE DEF HoldsSlot, Types
  <2> QED BY <1>1, <2>1, <2>2, SlotFreed
<1>16. CASE Grow(t)
  BY <1>3, <1>16 DEF Grow, leaseVars, poolVars
<1>17. CASE GrowCas(t)
  <2>1. (HoldsSlot(t)' <=> HoldsSlot(t)) /\ idle' = idle
    BY <1>17 DEF GrowCas, leaseVars
  <2>2. CASE live_count = loaded[t] /\ live_count' = live_count + 1 /\ growing' = growing + 1
    <3>1. live_count < MaxWorkers
      BY <1>17, <2>2 DEF GrowCas
    <3>a. idle.ok \in Nat /\ idle.spoiled \in Nat /\ idle.stale \in Nat /\ growing \in Nat
      BY DEF Health
    <3>2. Pooled' = Pooled + 1
      BY <2>1, <2>2, <3>a DEF Pooled
    <3> HIDE DEF HoldsSlot, Types
    <3> QED BY <1>1, <2>1, <2>2, <3>1, <3>2, SlotsKept
  <2>3. CASE UNCHANGED <<live_count, growing>>
    BY <1>3, <2>1, <2>3
  <2> QED BY <1>17, <2>2, <2>3 DEF GrowCas
<1> QED BY <1>4, <1>5, <1>6, <1>7, <1>8, <1>10, <1>11, <1>12, <1>13, <1>14, <1>15, <1>16, <1>17
        DEF TaskStep, Settle

(* A detached spawn ends; the joiner recovers a task; a layer is spawned.  *)
LEMMA NextSlots ==
  ASSUME Types, Types', Stages, LiveCountCovers, [Next]_vars
  PROVE  LiveCountCovers'
<1>1. ASSUME UNCHANGED <<live_count, idle, growing>>, UNCHANGED leaseVars,
             \A u \in Tasks : pc'[u] = pc[u] \/ pc'[u] \notin AccountedPlaces
      PROVE  LiveCountCovers'
  <2>1. \A u \in Tasks : HoldsSlot(u)' => HoldsSlot(u)
    BY <1>1 DEF HoldsSlot, leaseVars, AccountedPlaces
  <2> QED BY <1>1, <2>1, SlotsKept DEF Pooled
<1>2. CASE Grown
  <2>1. \A u \in Tasks : HoldsSlot(u)' => HoldsSlot(u)
    BY <1>2 DEF Grown, HoldsSlot, leaseVars
  <2>2. growing' = growing - 1 /\ growing \in Nat
    BY <1>2 DEF Grown, Types
  <2>3. CASE idle' = [idle EXCEPT !.ok = @ + 1] /\ live_count' = live_count
    <3>1. Pooled' = Pooled
      BY <2>2, <2>3 DEF Health, Types, Pooled
    <3> QED BY <2>1, <2>3, <3>1, SlotsKept
  <2>4. CASE live_count' = live_count - 1 /\ idle' = idle
    <3>1. Pooled' = Pooled - 1
      BY <2>2, <2>4 DEF Health, Types, Pooled
    <3> QED BY <2>1, <2>4, <3>1, SlotsKept
  <2> QED BY <1>2, <2>3, <2>4 DEF Grown
<1> USE DEF Types, Goto, AccountedPlaces
<1>3. CASE Join
  <2>1. UNCHANGED <<live_count, idle, growing>> /\ UNCHANGED leaseVars
    BY <1>3 DEF Join, Advance
  <2>2. \A u \in Tasks : pc'[u] = pc[u] \/ pc'[u] = "gate"
    BY <1>3 DEF Join, Advance
  <2> QED BY <1>1, <2>1, <2>2
<1>4. CASE Recover
  BY <1>1, <1>4 DEF Recover, poolVars
<1>5. CASE Recovered
  BY <1>1, <1>5 DEF Recovered, poolVars
<1>6. CASE RequestAbort \/ Tick \/ TotalDeadline \/ Done \/ UNCHANGED vars
  BY <1>1, <1>6 DEF RequestAbort, Tick, TotalDeadline, Done, vars, poolVars
<1> HIDE DEF Types
<1> QED BY <1>2, <1>3, <1>4, <1>5, <1>6, TaskSlots DEF Next, Joiner

-----------------------------------------------------------------------------
(* The counter of the layer.                                               *)

Unfinished(l) == {t \in Layer(l) : ~finished[t]}

LEMMA LayerFinite ==
  ASSUME NEW l
  PROVE  /\ IsFiniteSet(Layer(l)) /\ Cardinality(Layer(l)) \in 0 .. TaskCount
         /\ IsFiniteSet(Unfinished(l)) /\ Cardinality(Unfinished(l)) \in 0 .. TaskCount
<1>1. TaskCount \in Nat /\ IsFiniteSet(Tasks) /\ Cardinality(Tasks) = TaskCount
  BY Constants, FS_Interval
<1>2. Layer(l) \in SUBSET Tasks /\ Unfinished(l) \in SUBSET Tasks
  BY DEF Layer, Unfinished
<1> QED BY <1>1, <1>2, FS_Subset, FS_CardinalityType

LEMMA NextRemaining ==
  ASSUME Types, Stages, JoinOrder, TasksRemainingExact, [Next]_vars
  PROVE  TasksRemainingExact'
<1> USE DEF Types
<1>1. ASSUME UNCHANGED <<finished, tasks_remaining, joining>> PROVE TasksRemainingExact'
  BY <1>1 DEF TasksRemainingExact
<1>2. ASSUME NEW t \in Tasks, Finish(t) PROVE TasksRemainingExact'
  <2>1. joining' = joining /\ joining <= t /\ LayerOf[t] = LayerOf[joining]
    BY <1>2 DEF Finish, joinVars, JoinOrder
  <2>2. joining \in Tasks
    BY <2>1, Constants
  <2>3. tasks_remaining = Cardinality(Unfinished(LayerOf[joining]))
    BY <2>2 DEF TasksRemainingExact, Unfinished
  <2>4. CASE finished[t]
    <3>1. finished' = finished /\ tasks_remaining' = tasks_remaining
      BY <1>2, <2>4 DEF Finish
    <3> QED BY <1>1, <2>1, <3>1
  <2>5. CASE ~finished[t]
    <3>1. tasks_remaining' = tasks_remaining - 1
      BY <1>2, <2>5 DEF Finish
    <3>2. \A u \in Tasks : finished'[u] <=> finished[u] \/ u = t
      BY <1>2 DEF Finish
    <3>3. {u \in Layer(LayerOf[joining]) : ~finished'[u]} = Unfinished(LayerOf[joining]) \ {t}
      BY <3>2 DEF Unfinished, Layer
    <3>4. t \in Unfinished(LayerOf[joining])
      BY <2>1, <2>5 DEF Unfinished, Layer
    <3>5. IsFiniteSet(Unfinished(LayerOf[joining]))
      BY LayerFinite
    <3>6. Cardinality({u \in Layer(LayerOf[joining]) : ~finished'[u]})
            = Cardinality(Unfinished(LayerOf[joining])) - 1
      <4>1. Cardinality(Unfinished(LayerOf[joining]) \ {t})
              = Cardinality(Unfinished(LayerOf[joining])) - 1
        BY <3>4, <3>5, FS_RemoveElement
      <4> QED BY <3>3, <4>1, Zenon
    <3> QED BY <2>1, <2>3, <3>1, <3>6 DEF TasksRemainingExact
  <2> QED BY <2>4, <2>5
<1>3. ASSUME NEW t \in Tasks, TaskStep(t) PROVE TasksRemainingExact'
  BY <1>1, <1>2, <1>3, TaskMoves
<1>4. CASE Join
  <2>1. finished' = finished
    BY <1>4 DEF Join, Advance, leaseVars
  <2>2. CASE /\ joining < TaskCount => LayerOf[joining + 1] = LayerOf[joining]
             /\ joining' = joining + 1 /\ tasks_remaining' = tasks_remaining
    <3>1. joining \in Tasks
      BY <1>4 DEF Join
    <3>2. joining' \in Tasks => LayerOf[joining'] = LayerOf[joining]
      BY <2>2, <3>1, Constants
    <3> QED BY <2>1, <2>2, <3>1, <3>2 DEF TasksRemainingExact
  <2>3. ASSUME joining < TaskCount, LayerOf[joining + 1] # LayerOf[joining],
               joining' = joining + 1,
               tasks_remaining' = Cardinality(Layer(LayerOf[joining + 1]))
        PROVE  TasksRemainingExact'
    <3>1. joining \in Tasks /\ joining + 1 \in Tasks /\ joining <= joining + 1
      BY <2>3, Constants
    <3>2. LayerOf[joining] < LayerOf[joining + 1]
      BY <2>3, <3>1, LayerFacts
    <3>3. \A t \in Layer(LayerOf[joining + 1]) : ~finished[t]
      BY <3>1, <3>2 DEF Layer, JoinOrder, Stages, Stage, NotStarted
    <3>4. {t \in Layer(LayerOf[joining + 1]) : ~finished[t]} = Layer(LayerOf[joining + 1])
      BY <3>3
    <3> QED BY <2>1, <2>3, <3>4 DEF TasksRemainingExact
  <2>4. CASE joining' = TaskCount + 1
    BY <2>4, Constants DEF TasksRemainingExact
  <2> QED BY <1>4, <2>2, <2>3, <2>4 DEF Join, Advance
<1>5. CASE Grown \/ RequestAbort \/ Recover \/ Recovered
  BY <1>1, <1>5 DEF Grown, RequestAbort, Recover, Recovered, leaseVars, poolVars, joinVars
<1>6. CASE Tick \/ TotalDeadline \/ Done \/ UNCHANGED vars
  BY <1>1, <1>6 DEF Tick, TotalDeadline, Done, vars, leaseVars, poolVars, joinVars
<1> QED BY <1>3, <1>4, <1>5, <1>6 DEF Next, Joiner

-----------------------------------------------------------------------------
(* Ranges.                                                                 *)

(* Where the locals of a task come from.                                   *)
LEMMA TaskLocals ==
  ASSUME Types, NEW t \in Tasks, TaskStep(t)
  PROVE  /\ \/ remaining' = remaining
            \/ \E n \in {0, tasks_remaining'} : remaining' = [remaining EXCEPT ![t] = n]
         /\ \/ loaded' = loaded
            \/ \E n \in {0, live_count} : loaded' = [loaded EXCEPT ![t] = n]
<1>1. CASE EnterGate(t) \/ AcquirePermit(t) \/ OpenGate(t) \/ Checkout(t)
  BY <1>1 DEF EnterGate, AcquirePermit, OpenGate, Checkout, taskVars
<1>2. CASE RunPhased(t) \/ ClaimBuildRetry(t) \/ RetryTransport(t)
  BY <1>2 DEF RunPhased, ClaimBuildRetry, RetryTransport, taskVars
<1>3. CASE Respawn(t) \/ RespawnFails(t)
  BY <1>3 DEF Respawn, RespawnFails, taskVars
<1>4. CASE Panic(t) \/ Report(t)
  BY <1>4 DEF Panic, Report, DropLocals
<1>5. CASE Finish(t)
  BY <1>5 DEF Finish
<1>6. CASE AccountLive(t)
  BY <1>6 DEF AccountLive, ReturnOrReap
<1>7. CASE Replace(t)
  BY <1>7 DEF Replace, ReturnOrReap
<1>8. CASE ReapCas(t)
  BY <1>8 DEF ReapCas
<1>9. CASE AccountDead(t) \/ ReplaceFails(t) \/ ReapSlot(t) \/ GrowCas(t)
  BY <1>9 DEF AccountDead, ReplaceFails, ReapSlot, GrowCas, taskVars
<1>10. CASE Grow(t)
  BY <1>10 DEF Grow
<1> QED BY <1>1, <1>2, <1>3, <1>4, <1>5, <1>6, <1>7, <1>8, <1>9, <1>10 DEF TaskStep, Settle

LEMMA NextRanges ==
  ASSUME Types, Types', JoinOrder, Ranges, LiveCountCovers', TasksRemainingExact', [Next]_vars
  PROVE  Ranges'
<1>1. live_count' \in 0 .. MaxWorkers
  <2>1. Cardinality(Holders') \in Nat
    <3>1. Holders' \in SUBSET Tasks
      BY DEF Holders
    <3> QED BY <3>1, Constants, FS_Subset, FS_CardinalityType
  <2>2. UsedSlots' \in Nat
    BY <2>1, UsedSlotsFacts
  <2> QED BY <2>2, UsedSlotsFacts, Constants DEF LiveCountCovers
<1>2. tasks_remaining' \in 0 .. TaskCount
  <2>1. CASE joining' \in Tasks
    <3>1. {t \in Layer(LayerOf[joining']) : ~finished'[t]} \in SUBSET Tasks
      BY DEF Layer
    <3>2. IsFiniteSet(Tasks) /\ Cardinality(Tasks) = TaskCount
      BY Constants, FS_Interval
    <3> QED BY <2>1, <3>1, <3>2, Constants, FS_Subset, FS_CardinalityType
            DEF TasksRemainingExact
  <2>2. CASE joining' \notin Tasks
    <3>1. ASSUME NEW t \in Tasks, TaskStep(t) PROVE FALSE
      <4>1. joining' = joining /\ joining <= t
        BY <3>1, TaskMoves DEF JoinOrder
      <4> QED BY <2>2, <4>1, Constants DEF Types
    <3>2. joining \in Tasks => joining \in Nat /\ (joining + 1 \notin Tasks => joining = TaskCount)
      BY Constants
    <3>3. CASE Join
      <4>1. tasks_remaining' = tasks_remaining \/ (joining < TaskCount /\ joining' = joining + 1)
        BY <3>3 DEF Join, Advance
      <4> QED BY <2>2, <3>2, <3>3, <4>1, Constants DEF Join, Ranges
    <3>4. CASE Grown \/ RequestAbort \/ Recover \/ Recovered \/ Tick \/ TotalDeadline \/ Done
               \/ UNCHANGED vars
      BY <3>4 DEF Grown, RequestAbort, Recover, Recovered, Tick, TotalDeadline, Done, vars,
                  poolVars, Ranges
    <3> QED BY <3>1, <3>3, <3>4 DEF Next, Joiner
  <2> QED BY <2>1, <2>2
<1>3. remaining' \in [Tasks -> 0 .. TaskCount] /\ loaded' \in [Tasks -> 0 .. MaxWorkers]
  <2>1. /\ 0 \in 0 .. TaskCount /\ tasks_remaining' \in 0 .. TaskCount
        /\ 0 \in 0 .. MaxWorkers /\ live_count \in 0 .. MaxWorkers
        /\ remaining \in [Tasks -> 0 .. TaskCount] /\ loaded \in [Tasks -> 0 .. MaxWorkers]
    BY <1>2, Constants DEF Ranges
  <2>2. ASSUME NEW t \in Tasks, TaskStep(t)
        PROVE  remaining' \in [Tasks -> 0 .. TaskCount] /\ loaded' \in [Tasks -> 0 .. MaxWorkers]
    BY <2>1, <2>2, TaskLocals
  <2>3. CASE Recover
    BY <2>1, <2>3 DEF Recover
  <2>4. CASE Recovered
    BY <2>1, <2>4 DEF Recovered, DropLocals
  <2>5. CASE Grown \/ Join \/ RequestAbort
    BY <2>1, <2>5 DEF Grown, Join, Advance, RequestAbort, taskVars
  <2>6. CASE Tick \/ TotalDeadline \/ Done \/ UNCHANGED vars
    BY <2>1, <2>6 DEF Tick, TotalDeadline, Done, vars, taskVars
  <2> QED BY <2>2, <2>3, <2>4, <2>5, <2>6 DEF Next, Joiner
<1> QED BY <1>1, <1>2, <1>3 DEF Ranges

-----------------------------------------------------------------------------
(* Frontends out of step.                                                  *)

LEMMA TaskClean ==
  ASSUME ~Concolic, AttemptLimit > 1, Types, Stages, Clean, NEW t \in Tasks, TaskStep(t)
  PROVE  Clean'
<1>1. Stage(t) /\ CleanTask(t) /\ attempts[t] \in Nat
  BY Constants DEF Stages, Clean, Types
<1>2. ASSUME idle'.stale = 0, CleanTask(t)'
      PROVE  Clean'
  <2>1. \A u \in Tasks \ {t} : /\ fe'[u] = fe[u] /\ pc'[u] = pc[u]
                              /\ result'[u] = result[u] /\ attempts'[u] = attempts[u]
    BY TaskFrame
  <2> QED BY <1>2, <2>1 DEF Clean, CleanTask
<1>a. idle.stale = 0
  BY DEF Clean
<1> USE DEF Types, Goto, CleanTask, NotStarted
<1>3. CASE EnterGate(t) \/ AcquirePermit(t)
  BY <1>a, <1>1, <1>2, <1>3 DEF EnterGate, AcquirePermit, taskVars, poolVars
<1>4. CASE OpenGate(t)
  BY <1>a, <1>1, <1>2, <1>4 DEF OpenGate, taskVars, poolVars
<1>5. CASE Checkout(t)
  <2>1. PICK h \in Health : /\ idle[h] > 0 /\ idle' = [idle EXCEPT ![h] = @ - 1]
                            /\ fe' = [fe EXCEPT ![t] = h]
    BY <1>5 DEF Checkout
  <2>2. h # "stale"
    BY <1>a, <2>1
  <2> QED BY <1>a, <1>1, <1>2, <1>5, <2>1, <2>2 DEF Checkout, Health, taskVars
<1>6. CASE RunPhased(t)
  <2>1. PICK r \in PhasedResults(fe[t]) \ {"panic"} :
          /\ r \in Retryable => attempts[t] >= AttemptLimit
          /\ result' = [result EXCEPT ![t] = LoopResult(r)]
          /\ \E h \in Leaves(fe[t], r) : fe' = [fe EXCEPT ![t] = h]
    BY <1>6 DEF RunPhased
  <2>2. pc'[t] = "open_gate" /\ idle' = idle /\ fe[t] # "stale"
    BY <1>1, <1>6 DEF RunPhased, poolVars
  <2>3. r = "unreadable" => fe[t] = "ok"
    <3> SUFFICES ASSUME r = "unreadable" PROVE fe[t] = "ok"
      OBVIOUS
    <3>1. attempts[t] > 1
      BY <1>1, <2>1, Constants DEF Retryable
    <3> QED BY <1>1, <1>6, <3>1 DEF RunPhased
  <2>4. "stale" \in Leaves(fe[t], r) => r = "misaligned"
    BY <2>2, <2>3 DEF Leaves
  <2>5. fe'[t] = "stale" => result'[t] = "misaligned"
    BY <2>1, <2>4 DEF Retryable, LoopResult
  <2> QED BY <1>a, <1>2, <2>2, <2>5
<1>7. CASE ClaimBuildRetry(t) \/ RetryTransport(t)
  BY <1>a, <1>1, <1>2, <1>7 DEF ClaimBuildRetry, RetryTransport, poolVars
<1>8. CASE Respawn(t) \/ RespawnFails(t)
  BY <1>a, <1>1, <1>2, <1>8 DEF Respawn, RespawnFails, poolVars
<1>9. CASE Panic(t) \/ Report(t)
  BY <1>a, <1>1, <1>2, <1>9 DEF Panic, Report, DropFuture, poolVars
<1>10. CASE Finish(t)
  BY <1>a, <1>1, <1>2, <1>10 DEF Finish
<1>11. CASE AccountLive(t)
  <2>1. fe[t] \in {"ok", "spoiled"}
    BY <1>1, <1>11 DEF AccountLive, IsDead, frontend_error, Health
  <2> QED BY <1>a, <1>1, <1>2, <1>11, <2>1 DEF AccountLive, ReturnOrReap, Health
<1>12. CASE ReapCas(t)
  <2>1. fe[t] \in {"ok", "spoiled"}
    BY <1>1, <1>12 DEF ReapCas, Stage, Health
  <2> QED BY <1>a, <1>1, <1>2, <1>12, <2>1 DEF ReapCas, Health
<1>13. CASE AccountDead(t)
  BY <1>a, <1>1, <1>2, <1>13 DEF AccountDead, poolVars
<1>14. CASE Replace(t)
  BY <1>a, <1>1, <1>2, <1>14 DEF Replace, ReturnOrReap, Stage, Health
<1>15. CASE ReplaceFails(t) \/ ReapSlot(t)
  BY <1>a, <1>1, <1>2, <1>15 DEF ReplaceFails, ReapSlot, Stage
<1>16. CASE Grow(t) \/ GrowCas(t)
  BY <1>a, <1>1, <1>2, <1>16 DEF Grow, GrowCas, poolVars, Stage
<1> QED BY <1>3, <1>4, <1>5, <1>6, <1>7, <1>8, <1>9, <1>10, <1>11, <1>12, <1>13, <1>14,
           <1>15, <1>16
        DEF TaskStep, Settle

(* The tasks a join spawns held nothing before.                            *)
LEMMA SpawnedByJoin ==
  ASSUME Types, JoinOrder, Join, NEW t \in Tasks, pc'[t] # pc[t]
  PROVE  pc[t] = "unspawned"
<1>1. /\ joining < TaskCount /\ LayerOf[joining + 1] # LayerOf[joining]
      /\ pc' = [u \in Tasks |-> IF u \in Layer(LayerOf[joining + 1]) THEN "gate" ELSE pc[u]]
  BY DEF Join, Advance
<1>2. joining \in Tasks /\ joining + 1 \in Tasks /\ joining <= joining + 1
  BY <1>1, Constants DEF Join
<1>3. LayerOf[joining] < LayerOf[joining + 1]
  BY <1>1, <1>2, LayerFacts
<1>4. LayerOf[t] = LayerOf[joining + 1]
  BY <1>1 DEF Layer
<1> QED BY <1>2, <1>3, <1>4 DEF JoinOrder

LEMMA NextClean ==
  ASSUME ~Concolic, AttemptLimit > 1, Types, Stages, JoinOrder, Clean, [Next]_vars
  PROVE  Clean'
<1> USE DEF Types, Goto, Clean, CleanTask, NotStarted
<1>1. CASE Grown
  BY <1>1 DEF Grown, taskVars, Health
<1>2. CASE Join
  <2>1. fe' = fe /\ result' = result /\ idle' = idle /\ attempts' = attempts
    BY <1>2 DEF Join, Advance, taskVars
  <2>2. \A t \in Tasks : pc'[t] = pc[t] \/ (pc'[t] = "gate" /\ pc[t] = "unspawned")
    <3> TAKE t \in Tasks
    <3>1. pc'[t] \in {pc[t], "gate"}
      BY <1>2 DEF Join, Advance
    <3> HIDE DEF Types, Clean, CleanTask, NotStarted, Goto
    <3>2. ASSUME pc'[t] # pc[t] PROVE pc[t] = "unspawned"
      BY <1>2, <3>2, SpawnedByJoin
    <3> QED BY <3>1, <3>2
  <2> QED BY <2>1, <2>2
<1>3. CASE RequestAbort
  BY <1>3 DEF RequestAbort, taskVars, poolVars
<1>4. CASE Recover
  BY <1>4 DEF Recover, DropFuture, poolVars
<1>5. CASE Recovered
  BY <1>5 DEF Recovered, DropLocals, poolVars
<1>6. CASE Tick \/ TotalDeadline \/ Done \/ UNCHANGED vars
  BY <1>6 DEF Tick, TotalDeadline, Done, vars, taskVars, poolVars
<1> HIDE DEF Types, Clean
<1> QED BY <1>1, <1>2, <1>3, <1>4, <1>5, <1>6, TaskClean DEF Next, Joiner

-----------------------------------------------------------------------------
(* The initial state.                                                      *)

LEMMA InitialWorkers ==
  ASSUME NEW m \in Nat \ {0}, NEW n \in Nat
  PROVE  initial_workers(m, n) \in 0 .. m
<1>1. m \div 4 \in Nat
  OBVIOUS
<1> QED BY <1>1 DEF initial_workers, Least, Greatest

LEMMA InitIInv == Init => IInv /\ Clean
<1> SUFFICES ASSUME Init PROVE IInv /\ Clean
  OBVIOUS
<1> DEFINE first == Layer(LayerOf[1])
           workers == initial_workers(MaxWorkers, Cardinality(first))
<1>1. Cardinality(first) \in 0 .. TaskCount
  BY LayerFinite
<1>2. workers \in 0 .. MaxWorkers
  <2>1. MaxWorkers \in Nat \ {0} /\ TaskCount \in Nat
    BY Constants
  <2>2. Cardinality(first) \in Nat
    BY <1>1, <2>1
  <2> HIDE DEF first
  <2> QED BY <2>1, <2>2, InitialWorkers
<1>3. idle = [ok |-> workers, spoiled |-> 0, stale |-> 0] /\ live_count = workers /\ growing = 0
        /\ tasks_remaining = Cardinality(first)
        /\ pc = [t \in Tasks |-> IF t \in first THEN "gate" ELSE "unspawned"]
  BY DEF Init
<1> HIDE DEF workers
<1>4. idle \in [Health -> Nat] /\ idle.ok = workers
        /\ idle.spoiled = 0 /\ idle.stale = 0
  <2>1. idle \in [ok : Nat, spoiled : Nat, stale : Nat]
    BY <1>2, <1>3
  <2> QED BY <1>3, <2>1 DEF Health
<1>5. Types
  BY <1>1, <1>2, <1>3, <1>4, ResetTypes, Constants DEF Init, Types, Places
<1>6. Stages
  BY <1>3 DEF Init, Stages, Stage, NotStarted, AccountedPlaces
<1>7. JoinOrder
  <2>1. joining = 1 /\ abort = [t \in Tasks |-> "no"]
    BY DEF Init
  <2>2. \A t \in Tasks : 1 <= t /\ LayerOf[t] \in Nat
    BY LayerFacts
  <2>3. \A t \in Tasks : t \in first <=> LayerOf[t] = LayerOf[1]
    BY DEF Layer
  <2> QED BY <1>3, <2>1, <2>2, <2>3, Constants DEF JoinOrder
<1>8. Permits
  BY <1>3 DEF Init, Permits, WithPermit
<1>9. LiveCountCovers
  <2>1. {t \in Tasks : HoldsSlot(t)} = {}
    BY <1>3 DEF Init, HoldsSlot
  <2>2. Cardinality({t \in Tasks : HoldsSlot(t)}) = 0
    BY <2>1, FS_EmptySet, Zenon
  <2>3. UsedSlots = workers
    BY <1>2, <1>3, <1>4, <2>2 DEF UsedSlots
  <2> QED BY <1>2, <1>3, <2>3, Constants DEF LiveCountCovers
<1>10. TasksRemainingExact
  <2>1. joining = 1 /\ finished = [t \in Tasks |-> FALSE]
    BY DEF Init
  <2>2. {t \in first : ~finished[t]} = first
    BY <2>1 DEF Layer
  <2> QED BY <1>3, <2>1, <2>2 DEF TasksRemainingExact
<1>11. Ranges
  BY <1>1, <1>2, <1>3, Constants DEF Init, Ranges
<1>12. Clean
  BY <1>3, <1>4 DEF Init, Clean, CleanTask
<1> QED BY <1>5, <1>6, <1>7, <1>8, <1>9, <1>10, <1>11, <1>12 DEF IInv

LEMMA NextIInv == IInv /\ [Next]_vars => IInv'
<1> SUFFICES ASSUME IInv, [Next]_vars PROVE IInv'
  OBVIOUS
<1>1. Types'
  BY NextTypes DEF IInv
<1>2. Stages' /\ JoinOrder' /\ Permits'
  BY NextStages, NextJoinOrder, NextPermits DEF IInv
<1>3. LiveCountCovers' /\ TasksRemainingExact'
  BY <1>1, NextSlots, NextRemaining DEF IInv
<1>4. Ranges'
  BY <1>1, <1>3, NextRanges DEF IInv
<1> QED BY <1>1, <1>2, <1>3, <1>4 DEF IInv

LEMMA Invariant == Spec => []IInv
BY InitIInv, NextIInv, PTL DEF Spec

(* Every pooled and every growing worker is below live_count.              *)
LEMMA InvTypeOK == IInv => TypeOK
<1> SUFFICES ASSUME IInv PROVE TypeOK
  OBVIOUS
<1>1. Types /\ Ranges /\ LiveCountCovers
  BY DEF IInv
<1>2. Cardinality({t \in Tasks : HoldsSlot(t)}) \in Nat
  BY HoldersFinite DEF Holders
<1>3. idle.ok \in Nat /\ idle.spoiled \in Nat /\ idle.stale \in Nat /\ growing \in Nat /\ MaxWorkers \in Nat
        /\ live_count \in 0 .. MaxWorkers
  BY <1>1, Constants DEF Types, Health, Ranges
<1>4. idle.ok \in 0 .. MaxWorkers /\ idle.spoiled \in 0 .. MaxWorkers
        /\ idle.stale \in 0 .. MaxWorkers
        /\ growing \in 0 .. MaxWorkers
  BY <1>1, <1>2, <1>3 DEF LiveCountCovers, UsedSlots
<1>5. idle \in [Health -> 0 .. MaxWorkers]
  BY <1>1, <1>4 DEF Types, Health
<1> QED BY <1>1, <1>4, <1>5 DEF Types, Ranges, TypeOK

-----------------------------------------------------------------------------
(* The counters never leave their ranges: tasks_remaining and live_count   *)
(* do not underflow, and the channel never holds more than its capacity,   *)
(* so returning a worker never blocks.                                     *)
THEOREM TypeCorrect == Spec => []TypeOK
BY Invariant, InvTypeOK, PTL

(* Whatever aborts, dies or grows at the same time, every worker has a     *)
(* place in live_count and there are --parallelism workers at most: the    *)
(* loads and exchanges of return_or_reap_worker and maybe_grow, the spawns *)
(* in the background and the recovery of aborted tasks never count short.  *)
THEOREM WorkersAreCounted == Spec => []LiveCountCovers
<1>1. IInv => LiveCountCovers
  BY DEF IInv
<1> QED BY <1>1, Invariant, PTL

(* finish_once counts every task of a layer once, whether it ends, panics  *)
(* or is aborted, even if it ends while it is being aborted.               *)
THEOREM RemainingIsExact == Spec => []TasksRemainingExact
<1>1. IInv => TasksRemainingExact
  BY DEF IInv
<1> QED BY <1>1, Invariant, PTL

(* The file limiter serialises the functions of a file across retries,     *)
(* panics and aborts.                                                      *)
THEOREM FilesAreSerial == Spec => []SameFileSerial
<1>1. IInv => SameFileSerial
  BY PermitsSerial DEF IInv
<1> QED BY <1>1, Invariant, PTL

(* In a scan without concolic exploration a frontend that failed a         *)
(* function with an earlier answer never goes back into the pool, whatever *)
(* else fails: what a shrinking or a genetic phase, or exhausted retries,  *)
(* leave in a pipe costs one later function at most.  Both hypotheses are  *)
(* needed: concolic runs hide the error from the task, and with a single   *)
(* attempt the unreadable line of another function exhausts the retries.   *)
THEOREM PoolDropsStaleWorkers ==
  ~Concolic /\ AttemptLimit > 1 => (Spec => []StaleWorkerNotPooled)
<1> SUFFICES ASSUME ~Concolic, AttemptLimit > 1
             PROVE  Spec => []StaleWorkerNotPooled
  OBVIOUS
<1>1. IInv /\ Clean /\ [Next]_vars => Clean'
  BY NextClean DEF IInv
<1>2. Clean => StaleWorkerNotPooled
  BY DEF Clean, StaleWorkerNotPooled
<1> QED BY <1>1, <1>2, InitIInv, Invariant, PTL DEF Spec

-----------------------------------------------------------------------------
(* The slots that live_count has too many.                                 *)
Lost == live_count - UsedSlots

(* t alone moves its slot, and pool and live_count go with it.             *)
LEMMA NoneLost ==
  ASSUME Types, Types', NEW t \in Tasks,
         \A u \in Tasks \ {t} : HoldsSlot(u)' <=> HoldsSlot(u),
         \/ /\ HoldsSlot(t)' <=> HoldsSlot(t)
            /\ \/ Pooled' = Pooled /\ live_count' = live_count
               \/ Pooled' = Pooled + 1 /\ live_count' = live_count + 1
               \/ Pooled' = Pooled - 1 /\ live_count' = live_count - 1
         \/ /\ HoldsSlot(t) /\ ~HoldsSlot(t)'
            /\ \/ Pooled' = Pooled + 1 /\ live_count' = live_count
               \/ Pooled' = Pooled /\ live_count' = live_count - 1
         \/ ~HoldsSlot(t) /\ HoldsSlot(t)' /\ Pooled' = Pooled - 1 /\ live_count' = live_count
  PROVE  Lost' = Lost
<1> DEFINE H == Cardinality(Holders)
           K == Cardinality(Holders')
<1>1. /\ H \in Nat /\ K \in Nat
      /\ (HoldsSlot(t)' <=> HoldsSlot(t)) => K = H
      /\ HoldsSlot(t)' /\ ~HoldsSlot(t) => K = H + 1
      /\ ~HoldsSlot(t)' /\ HoldsSlot(t) => K = H - 1
  BY HoldersStep
<1>2. /\ Pooled \in Nat /\ Pooled' \in Nat /\ live_count \in Int /\ live_count' \in Int
      /\ Lost = live_count - (Pooled + H) /\ Lost' = live_count' - (Pooled' + K)
  BY UsedSlotsFacts DEF Lost
<1> HIDE DEF H, K
<1>3. CASE HoldsSlot(t)' <=> HoldsSlot(t)
  <2>1. K = H
    BY <1>1, <1>3
  <2>2. \/ Pooled' = Pooled /\ live_count' = live_count
        \/ Pooled' = Pooled + 1 /\ live_count' = live_count + 1
        \/ Pooled' = Pooled - 1 /\ live_count' = live_count - 1
    BY <1>3
  <2>3. CASE Pooled' = Pooled /\ live_count' = live_count
    BY <1>1, <1>2, <2>1, <2>3
  <2>4. CASE Pooled' = Pooled + 1 /\ live_count' = live_count + 1
    BY <1>1, <1>2, <2>1, <2>4
  <2>5. CASE Pooled' = Pooled - 1 /\ live_count' = live_count - 1
    BY <1>1, <1>2, <2>1, <2>5
  <2> QED BY <2>2, <2>3, <2>4, <2>5
<1>4. CASE HoldsSlot(t) /\ ~HoldsSlot(t)'
  <2>1. K = H - 1
    BY <1>1, <1>4
  <2>2. \/ Pooled' = Pooled + 1 /\ live_count' = live_count
        \/ Pooled' = Pooled /\ live_count' = live_count - 1
    BY <1>4
  <2>3. CASE Pooled' = Pooled + 1 /\ live_count' = live_count
    BY <1>1, <1>2, <2>1, <2>3
  <2>4. CASE Pooled' = Pooled /\ live_count' = live_count - 1
    BY <1>1, <1>2, <2>1, <2>4
  <2> QED BY <2>2, <2>3, <2>4
<1>5. CASE ~HoldsSlot(t) /\ HoldsSlot(t)'
  <2>1. K = H + 1 /\ Pooled' = Pooled - 1 /\ live_count' = live_count
    BY <1>1, <1>5
  <2> QED BY <1>1, <1>2, <2>1
<1> QED BY <1>3, <1>4, <1>5

LEMMA TaskLoses ==
  ASSUME Types, Types', Stages, NEW t \in Tasks, TaskStep(t)
  PROVE  Lost' = Lost
<1>1. \A u \in Tasks \ {t} : HoldsSlot(u)' <=> HoldsSlot(u)
  BY TaskFrame DEF HoldsSlot
<1>2. Stage(t)
  BY DEF Stages
<1>3. ASSUME UNCHANGED <<live_count, idle, growing>>, HoldsSlot(t)' <=> HoldsSlot(t)
      PROVE  Lost' = Lost
  <2>1. Pooled' = Pooled
    BY <1>3 DEF Pooled
  <2> QED BY <1>1, <1>3, <2>1, NoneLost
<1> USE <1>2 DEF Types, Goto, HoldsSlot, Stage, NotStarted, AccountedPlaces
<1>4. CASE EnterGate(t) \/ AcquirePermit(t) \/ OpenGate(t)
  BY <1>3, <1>4 DEF EnterGate, AcquirePermit, OpenGate, leaseVars, poolVars
<1>5. CASE Checkout(t)
  <2>1. PICK h \in Health : idle' = [idle EXCEPT ![h] = @ - 1]
    BY <1>5 DEF Checkout
  <2>2. UNCHANGED <<live_count, growing>> /\ ~HoldsSlot(t) /\ HoldsSlot(t)'
    BY <1>5 DEF Checkout
  <2>3. Pooled' = Pooled - 1
    BY <2>1, <2>2, IdleStep
  <2> HIDE DEF HoldsSlot, Types
  <2> QED BY <1>1, <2>2, <2>3, NoneLost
<1>6. CASE RunPhased(t) \/ ClaimBuildRetry(t) \/ RetryTransport(t) \/ Respawn(t)
  BY <1>3, <1>6 DEF RunPhased, ClaimBuildRetry, RetryTransport, Respawn, leaseVars, poolVars
<1>7. CASE RespawnFails(t) \/ Panic(t) \/ Report(t)
  BY <1>3, <1>7 DEF RespawnFails, Panic, Report, leaseVars, poolVars
<1>8. CASE Finish(t)
  BY <1>3, <1>8 DEF Finish
<1>9. ASSUME NEW h \in Health, HoldsSlot(t), pool_accounted'[t], UNCHANGED <<live_count, growing>>,
             ReturnOrReap(t, h)
      PROVE  Lost' = Lost
  <2>1. CASE idle' = idle /\ pc'[t] = "reap_cas"
    BY <1>3, <1>9, <2>1
  <2>2. CASE idle' = [idle EXCEPT ![h] = @ + 1] /\ pc'[t] = "grow"
    <3>1. ~HoldsSlot(t)'
      BY <1>9, <2>2
    <3>2. Pooled' = Pooled + 1
      BY <1>9, <2>2, IdleStep
    <3> HIDE DEF HoldsSlot, Types
    <3> QED BY <1>1, <1>9, <3>1, <3>2, NoneLost
  <2> QED BY <1>9, <2>1, <2>2 DEF ReturnOrReap
<1>10. CASE AccountLive(t)
  <2>1. fe[t] \in Health /\ HoldsSlot(t) /\ pool_accounted'[t]
    BY <1>10 DEF AccountLive, IsDead
  <2> QED BY <1>9, <1>10, <2>1 DEF AccountLive
<1>11. CASE Replace(t)
  <2>1. "ok" \in Health /\ HoldsSlot(t) /\ pool_accounted'[t]
    BY <1>11 DEF Replace, leaseVars, Health
  <2> QED BY <1>9, <1>11, <2>1 DEF Replace
<1>12. CASE ReapCas(t)
  <2>1. HoldsSlot(t) /\ ~HoldsSlot(t)' /\ growing' = growing /\ fe[t] \in Health
    BY <1>12 DEF ReapCas, leaseVars
  <2>2. \/ live_count' = live_count - 1 /\ idle' = idle
        \/ live_count' = live_count /\ idle' = [idle EXCEPT ![fe[t]] = @ + 1]
    BY <1>12 DEF ReapCas
  <2>3. \/ Pooled' = Pooled + 1 /\ live_count' = live_count
        \/ Pooled' = Pooled /\ live_count' = live_count - 1
    BY <2>1, <2>2, IdleStep
  <2> HIDE DEF HoldsSlot, Types
  <2> QED BY <1>1, <2>1, <2>3, NoneLost
<1>13. CASE AccountDead(t)
  BY <1>3, <1>13 DEF AccountDead, poolVars
<1>14. CASE ReplaceFails(t)
  BY <1>3, <1>14 DEF ReplaceFails, leaseVars
<1>15. CASE ReapSlot(t)
  <2>1. /\ HoldsSlot(t) /\ ~HoldsSlot(t)'
        /\ live_count' = live_count - 1 /\ UNCHANGED <<idle, growing>>
    BY <1>15 DEF ReapSlot, leaseVars
  <2>2. Pooled' = Pooled
    BY <2>1 DEF Pooled
  <2> HIDE DEF HoldsSlot, Types
  <2> QED BY <1>1, <2>1, <2>2, NoneLost
<1>16. CASE Grow(t)
  BY <1>3, <1>16 DEF Grow, leaseVars, poolVars
<1>17. CASE GrowCas(t)
  <2>1. (HoldsSlot(t)' <=> HoldsSlot(t)) /\ idle' = idle
    BY <1>17 DEF GrowCas, leaseVars
  <2>2. CASE live_count' = live_count + 1 /\ growing' = growing + 1
    <3>1. Pooled' = Pooled + 1
      BY <2>1, <2>2 DEF Pooled, Health
    <3> HIDE DEF HoldsSlot, Types
    <3> QED BY <1>1, <2>1, <2>2, <3>1, NoneLost
  <2>3. CASE UNCHANGED <<live_count, growing>>
    BY <1>3, <2>1, <2>3
  <2> QED BY <1>17, <2>2, <2>3 DEF GrowCas
<1> QED BY <1>4, <1>5, <1>6, <1>7, <1>8, <1>10, <1>11, <1>12, <1>13, <1>14, <1>15, <1>16, <1>17
        DEF TaskStep, Settle

(* The one step that loses a slot: the joiner recovers a task that waits   *)
(* for its replacement, and whose lease is accounted for already.          *)
AbortsReplacement == Recover /\ pc[joining] = "replace"

LEMMA NextLoses ==
  ASSUME Types, Types', Stages, JoinOrder, [Next]_vars
  PROVE  Lost' = Lost \/ (AbortsReplacement /\ Lost' = Lost + 1)
<1> USE DEF AbortsReplacement
<1>1. 1 \in Tasks
  BY Constants
<1>2. ASSUME \A u \in Tasks : HoldsSlot(u)' <=> HoldsSlot(u), Pooled' = Pooled, live_count' = live_count
      PROVE  Lost' = Lost
  BY <1>1, <1>2, NoneLost
<1>3. ASSUME UNCHANGED <<live_count, idle, growing>>, UNCHANGED leaseVars,
             \A u \in Tasks : \/ pc'[u] = pc[u]
                              \/ pc[u] \notin AccountedPlaces /\ pc'[u] \notin AccountedPlaces
      PROVE  Lost' = Lost
  <2>1. \A u \in Tasks : HoldsSlot(u)' <=> HoldsSlot(u)
    BY <1>3 DEF HoldsSlot, leaseVars, AccountedPlaces
  <2> QED BY <1>2, <1>3, <2>1 DEF Pooled
<1>4. CASE \E t \in Tasks : TaskStep(t)
  BY <1>4, TaskLoses
<1>5. CASE Grown
  <2>1. \A u \in Tasks : HoldsSlot(u)' <=> HoldsSlot(u)
    BY <1>5 DEF Grown, HoldsSlot, leaseVars
  <2>2. growing' = growing - 1 /\ growing \in Nat
    BY <1>5 DEF Grown, Types
  <2>3. CASE idle' = [idle EXCEPT !.ok = @ + 1] /\ live_count' = live_count
    <3>1. Pooled' = Pooled
      BY <2>2, <2>3 DEF Health, Types, Pooled
    <3> QED BY <1>2, <2>1, <2>3, <3>1
  <2>4. CASE live_count' = live_count - 1 /\ idle' = idle
    <3>1. Pooled' = Pooled - 1
      BY <2>2, <2>4 DEF Health, Types, Pooled
    <3> QED BY <1>1, <2>1, <2>4, <3>1, NoneLost
  <2> QED BY <1>5, <2>3, <2>4 DEF Grown
<1>6. CASE Join
  <2>1. UNCHANGED <<live_count, idle, growing>> /\ UNCHANGED leaseVars
    BY <1>6 DEF Join, Advance
  <2>2. ASSUME NEW u \in Tasks, pc'[u] # pc[u] PROVE pc[u] = "unspawned" /\ pc'[u] = "gate"
    <3>1. pc[u] = "unspawned"
      BY <1>6, <2>2, SpawnedByJoin
    <3>2. pc'[u] = "gate"
      BY <1>6, <2>2 DEF Join, Advance
    <3> QED BY <3>1, <3>2
  <2> QED BY <1>3, <2>1, <2>2 DEF AccountedPlaces
<1>7. CASE Recover
  <2>0. PICK j \in Tasks : j = joining
    BY <1>7 DEF Recover
  <2>1. /\ pc' = [pc EXCEPT ![j] = "finish"]
        /\ UNCHANGED <<live_count, idle, growing>> /\ UNCHANGED leaseVars
        /\ pc[j] \in AwaitPoints \cup {"done", "panicked"}
    BY <1>7, <2>0 DEF Recover, Goto, poolVars
  <2>2. \A u \in Tasks \ {j} : pc'[u] = pc[u]
    BY <2>1 DEF Types
  <2>3. pc'[j] = "finish"
    BY <2>1 DEF Types
  <2>4. CASE pc[j] # "replace"
    <3>1. pc[j] \notin AccountedPlaces /\ pc'[j] \notin AccountedPlaces
      BY <2>1, <2>3, <2>4 DEF AwaitPoints, AccountedPlaces
    <3> QED BY <1>3, <2>1, <2>2, <3>1
  <2>5. CASE pc[j] = "replace"
    <3>1. HoldsSlot(j)
      BY <2>5 DEF HoldsSlot
    <3>2. pool_accounted[j]
      BY <2>1, <2>5 DEF Stages, Stage, AccountedPlaces
    <3>3. ~HoldsSlot(j)'
      BY <2>1, <2>3, <3>2 DEF HoldsSlot, leaseVars
    <3>4. \A u \in Tasks \ {j} : HoldsSlot(u)' <=> HoldsSlot(u)
      BY <2>1, <2>2 DEF HoldsSlot, leaseVars
    <3>5. /\ Cardinality(Holders) \in Nat /\ Cardinality(Holders') \in Nat
          /\ Cardinality(Holders') = Cardinality(Holders) - 1
      BY <2>1, <3>1, <3>3, <3>4, HoldersStep
    <3>6. Pooled' = Pooled /\ live_count' = live_count
      BY <2>1 DEF Pooled
    <3>7. Lost' = Lost + 1
      BY <3>5, <3>6, UsedSlotsFacts DEF Lost
    <3> QED BY <1>7, <2>0, <2>5, <3>7
  <2> QED BY <2>4, <2>5
<1>8. CASE Recovered
  <2>1. /\ joining \in Tasks /\ pc' = [pc EXCEPT ![joining] = "done"] /\ pc[joining] = "report"
        /\ UNCHANGED <<live_count, idle, growing>> /\ UNCHANGED leaseVars
    BY <1>8 DEF Recovered, Goto, poolVars
  <2>2. \A u \in Tasks : pc'[u] = IF u = joining THEN "done" ELSE pc[u]
    BY <2>1 DEF Types
  <2> QED BY <1>3, <2>1, <2>2 DEF AccountedPlaces
<1>9. CASE RequestAbort \/ Tick \/ TotalDeadline \/ Done \/ UNCHANGED vars
  <2>1. UNCHANGED <<live_count, idle, growing, pc>> /\ UNCHANGED leaseVars
    BY <1>9 DEF RequestAbort, Tick, TotalDeadline, Done, vars, poolVars
  <2> QED BY <1>3, <2>1
<1> QED BY <1>4, <1>5, <1>6, <1>7, <1>8, <1>9 DEF Next, Joiner

(* A slot is lost by nothing but the abort of a task that awaits its       *)
(* replacement, and then one: account_dead_worker_if_checked_out has       *)
(* marked the lease as accounted for, so recover_after_abort passes over   *)
(* it.  No other abort, panic, failed spawn or lost exchange costs one.    *)
THEOREM SlotsLostInReplacementOnly ==
  Spec => [][Lost' = Lost \/ (AbortsReplacement /\ Lost' = Lost + 1)]_vars
<1>1. IInv /\ [Next]_vars => [Lost' = Lost \/ (AbortsReplacement /\ Lost' = Lost + 1)]_vars
  BY NextTypes, NextLoses DEF IInv
<1> QED BY <1>1, Invariant, PTL DEF Spec

(* An unchanged difference keeps an order.                                 *)
LEMMA OrderKept ==
  ASSUME NEW a \in Int, NEW b \in Int, NEW c \in Int, NEW d \in Int,
         c - d = a - b, a <= b
  PROVE  c <= d
  OBVIOUS

(* So in a scan in which the joiner never does that, the capacity of every *)
(* aborted task is recovered.                                              *)
THEOREM SlotsOtherwiseRecovered ==
  Spec /\ [][~AbortsReplacement]_vars => []SlotsRecovered
<1>1. Init => SlotsRecovered
  <2> SUFFICES ASSUME Init PROVE SlotsRecovered
    OBVIOUS
  <2>1. Types /\ LiveCountCovers
    BY InitIInv DEF IInv
  <2>2. idle.ok = live_count /\ idle.spoiled = 0 /\ idle.stale = 0 /\ growing = 0
    BY DEF Init
  <2>3. live_count \in Int /\ Cardinality({t \in Tasks : HoldsSlot(t)}) \in Nat
    BY <2>1, HoldersFinite DEF Types, Holders
  <2> QED BY <2>2, <2>3 DEF SlotsRecovered, UsedSlots
<1>2. IInv /\ SlotsRecovered /\ [Next]_vars /\ [~AbortsReplacement]_vars => SlotsRecovered'
  <2> SUFFICES ASSUME IInv, SlotsRecovered, [Next]_vars, [~AbortsReplacement]_vars
               PROVE  SlotsRecovered'
    OBVIOUS
  <2>1. Types /\ Types'
    BY NextTypes DEF IInv
  <2>2. ~AbortsReplacement
    <3>1. ASSUME Recover PROVE vars' # vars
      <4>1. joining \in Tasks /\ abort' = [abort EXCEPT ![joining] = "recovering"]
              /\ abort[joining] # "recovering"
        BY <3>1 DEF Recover
      <4>2. abort'[joining] # abort[joining]
        BY <2>1, <4>1 DEF Types
      <4> QED BY <4>2 DEF vars, joinVars
    <3> QED BY <3>1 DEF AbortsReplacement
  <2>3. Lost' = Lost
    BY <2>1, <2>2, NextLoses DEF IInv
  <2>4. /\ UsedSlots \in Int /\ UsedSlots' \in Int /\ live_count \in Int /\ live_count' \in Int
    <3>1. Cardinality(Holders) \in Nat /\ Cardinality(Holders') \in Nat
      <4>1. Holders \in SUBSET Tasks /\ Holders' \in SUBSET Tasks
        BY DEF Holders
      <4> QED BY <4>1, Constants, FS_Subset, FS_CardinalityType
    <3> QED BY <2>1, <3>1, UsedSlotsFacts
  <2>5. live_count' - UsedSlots' = live_count - UsedSlots
    BY <2>3 DEF Lost
  <2>6. live_count <= UsedSlots
    BY DEF SlotsRecovered
  <2>7. live_count' <= UsedSlots'
    BY <2>4, <2>5, <2>6, OrderKept
  <2> QED BY <2>7 DEF SlotsRecovered
<1> QED BY <1>1, <1>2, Invariant, PTL DEF Spec

-----------------------------------------------------------------------------
(* The wire to a frontend: requests and responses stay paired, for any     *)
(* number of requests and of lines of noise.                               *)

(* Part of a line is left in the pipe by an abandoned call only.           *)
TornLast == torn => abandoned

(* What the pairing rests on: the pipes of an untainted frontend hold the  *)
(* current call only.                                                      *)
Pairing == WireTypeOK /\ PipesAligned /\ DrainUnreachable /\ MismatchNeedsNoise /\ TornLast

(* A launched frontend is paired.                                          *)
LEMMA InitPairing == WireInit => Pairing
<1> SUFFICES ASSUME WireInit PROVE Pairing
  OBVIOUS
<1>1. Numbers
  BY TransportAssumption DEF WireInit, Numbers, TransportAssumption
<1>2. Flags /\ Names
  BY DEF WireInit, Flags, Names, CallResults
<1>3. Lines
  BY DEF WireInit, Lines
<1>4. PipesAligned /\ DrainUnreachable /\ MismatchNeedsNoise /\ TornLast
  BY DEF WireInit, PipesAligned, DrainUnreachable, MismatchNeedsNoise, TornLast
<1> QED
  BY <1>1, <1>2, <1>3, <1>4 DEF Pairing, WireTypeOK

(* The counters: a call begins with the next id, and a timeout leaves a    *)
(* tainted frontend, on which no second one can fire.                      *)
LEMMA NextNumbers ==
  ASSUME Pairing, WireNext
  PROVE  Numbers' /\ DrainUnreachable'
BY TransportAssumption
   DEF TransportAssumption, Pairing, WireTypeOK, PipesAligned, DrainUnreachable, Numbers,
      WireNext, Send, Begin, SendRefused, Shutdown, Write, WriteBroken, Read, ReadEof, Timeout, Abandon, Drop,
      Serve, PrintNoise, Exit, Return, Reap, callVars, childVars

LEMMA NextNames ==
  ASSUME Pairing, WireNext
  PROVE  Flags' /\ Names'
BY DEF Pairing, WireTypeOK, Flags, Names, CallResults, ResultOf,
      WireNext, Send, Begin, SendRefused, Shutdown, Write, WriteBroken, Read, ReadEof, Timeout, Abandon, Drop,
      Serve, PrintNoise, Exit, Return, Reap, callVars, childVars

LEMMA NextTorn ==
  ASSUME Pairing, WireNext
  PROVE  TornLast'
BY DEF Pairing, TornLast,
      WireNext, Send, Begin, SendRefused, Shutdown, Write, WriteBroken, Read, ReadEof, Timeout,
      Abandon, Drop, Serve, PrintNoise, Exit, Return, callVars

(* What is appended to the pipes are ids of calls, and noise.              *)
LEMMA NextLines ==
  ASSUME Pairing, WireNext
  PROVE  Lines'
<1> USE DEF Pairing, WireTypeOK, Lines
<1>1. CASE Write
  <2>1. id \in 1 .. MaxRequests
    BY <1>1, TransportAssumption DEF TransportAssumption, Numbers, Write, PipesAligned
  <2>2. (IF torn THEN Noise ELSE id) \in 0 .. MaxRequests
    BY <2>1, TransportAssumption DEF TransportAssumption, Noise
  <2> QED
    BY <1>1, <2>2 DEF Write
<1>2. CASE Serve
  <2>1. Head(stdin) \in 0 .. MaxRequests /\ Tail(stdin) \in Seq(0 .. MaxRequests)
    BY <1>2, HeadTailProperties DEF Serve
  <2> QED
    BY <1>2, <2>1 DEF Serve
<1>3. CASE PrintNoise
  BY <1>3, TransportAssumption DEF PrintNoise, Noise, TransportAssumption
<1>4. CASE Read
  BY <1>4 DEF Read
<1>5. UNCHANGED <<stdin, stdout>> => Lines'
  OBVIOUS
<1> QED
  BY <1>1, <1>2, <1>3, <1>4, <1>5
  DEF WireNext, Send, Begin, SendRefused, Shutdown, WriteBroken, ReadEof, Timeout, Abandon, Drop, Exit,
      childVars

(* The one response an untainted frontend can read is its own.             *)
LEMMA NextMismatch ==
  ASSUME Pairing, WireNext
  PROVE  MismatchNeedsNoise'
BY DEF Pairing, WireTypeOK, Numbers, PipesAligned, MismatchNeedsNoise, ResultOf, Noise,
      WireNext, Send, Begin, SendRefused, Shutdown, Write, WriteBroken, Read, ReadEof, Timeout, Abandon, Drop,
      Serve, PrintNoise, Exit, Return, Reap, callVars, childVars

(* The pipes hold the current call: it is written into empty pipes, served *)
(* once, and read or given up.                                             *)
LEMMA NextPipes ==
  ASSUME Pairing, WireNext
  PROVE  PipesAligned'
<1> USE DEF Pairing, WireTypeOK, Numbers, PipesAligned
<1>1. CASE Send \/ SendRefused \/ Shutdown
  BY <1>1 DEF Send, SendRefused, Shutdown, Begin, DrainUnreachable, childVars
<1>2. CASE Write
  <2>1. phase' = "reading" /\ ~tainted' /\ pending_drain' = 0
    BY <1>2 DEF Write
  <2>2. ASSUME noise = 0, ~abandoned PROVE stdin' = <<id>> /\ stdout' = <<>>
    <3>1. stdin = <<>> /\ stdout = <<>> /\ ~torn
      BY <1>2, <2>2 DEF Write, TornLast
    <3>2. Append(<<>>, id) = <<id>>
      OBVIOUS
    <3> QED
      BY <1>2, <3>1, <3>2 DEF Write
  <2>3. Len(stdin') = Len(stdin) + 1 /\ stdout' = stdout
    BY <1>2 DEF Write, Lines
  <2>4. Len(stdin) \in Nat /\ Len(stdout) \in Nat
    BY DEF Lines
  <2>5. ASSUME abandoned, noise = 0 PROVE closing /\ Len(stdin') + Len(stdout') <= 2
    BY <1>2, <2>3, <2>4, <2>5 DEF Write
  <2> QED
    BY <1>2, <2>1, <2>2, <2>5 DEF Write
<1>a. Len(<<id>>) = 1 /\ Len(<<>>) = 0 /\ Len(stdin) \in Nat /\ Len(stdout) \in Nat
  BY DEF Lines
<1>b. ASSUME ~abandoned, noise = 0, phase = "reading"
      PROVE  Len(stdin) <= 1 /\ Len(stdin) + Len(stdout) = 1
  <2>1. CASE stdin = <<id>> /\ stdout = <<>>
    <3>1. Len(stdin) = Len(<<id>>) /\ Len(stdout) = Len(<<>>)
      BY <2>1, Zenon
    <3> QED BY <1>a, <3>1
  <2>2. CASE stdin = <<>> /\ stdout = <<id>>
    <3>1. Len(stdout) = Len(<<id>>) /\ Len(stdin) = Len(<<>>)
      BY <2>2, Zenon
    <3> QED BY <1>a, <3>1
  <2> QED BY <1>b, <2>1, <2>2
<1>3. CASE WriteBroken \/ ReadEof
  BY <1>a, <1>b, <1>3 DEF WriteBroken, ReadEof, Return, childVars
<1>4. CASE Read
  BY <1>4 DEF Read, Return, Reap, Lines
<1>5. CASE Timeout \/ Drop
  BY <1>5 DEF Timeout, Drop, Return, Reap
<1>8. CASE Abandon
  <2>1. /\ ~tainted /\ ~abandoned /\ phase \in {"writing", "reading"}
        /\ UNCHANGED <<tainted, pending_drain, stdin, stdout, child, noise>>
        /\ phase' = "idle" /\ abandoned'
    BY <1>8 DEF Abandon, DrainUnreachable, Names, childVars
  <2>2. ASSUME noise = 0 PROVE Len(stdin) + Len(stdout) <= 1
    <3>1. CASE phase = "writing"
      BY <1>a, <2>1, <2>2, <3>1
    <3>2. CASE phase = "reading"
      BY <1>b, <2>1, <2>2, <3>2
    <3> QED BY <2>1, <3>1, <3>2
  <2> QED BY <2>1, <2>2
<1>6. CASE Serve
  <2>1. UNCHANGED <<next_id, tainted, pending_drain, phase, id, child, noise>> /\ child = "running"
    BY <1>6 DEF Serve, callVars
  <2>2. ASSUME noise = 0, phase = "reading", ~abandoned PROVE stdin' = <<>> /\ stdout' = <<id>>
    <3>1. stdin = <<id>> /\ stdout = <<>>
      BY <1>6, <2>2 DEF Serve
    <3>2. Tail(<<id>>) = <<>> /\ Append(<<>>, Head(<<id>>)) = <<id>>
      OBVIOUS
    <3> QED
      BY <1>6, <3>1, <3>2 DEF Serve
  <2>3. ~(~tainted /\ ~abandoned /\ noise = 0 /\ phase \in {"idle", "writing"})
    BY <1>6 DEF Serve
  <2>4. Len(stdin') + Len(stdout') = Len(stdin) + Len(stdout)
    BY <1>6 DEF Serve, Lines
  <2>5. UNCHANGED <<closing, abandoned>>
    BY <1>6 DEF Serve, callVars
  <2> QED
    BY <2>1, <2>2, <2>3, <2>4, <2>5
<1>7. CASE PrintNoise \/ Exit
  BY <1>7 DEF PrintNoise, Exit, callVars
<1> QED
  BY <1>1, <1>2, <1>3, <1>4, <1>5, <1>6, <1>7, <1>8 DEF WireNext

(* The inductive invariant.                                                *)
THEOREM PairingInvariant == WireSpec => []Pairing
<1>1. Pairing /\ [WireNext]_wireVars => Pairing'
  <2> SUFFICES ASSUME Pairing, [WireNext]_wireVars PROVE Pairing'
    OBVIOUS
  <2>1. CASE UNCHANGED wireVars
    BY <2>1 DEF wireVars, callVars, childVars, Pairing, WireTypeOK, Numbers, Flags, Names, Lines,
                PipesAligned, DrainUnreachable, MismatchNeedsNoise, TornLast
  <2>2. CASE WireNext
    BY <2>2, NextNumbers, NextNames, NextTorn, NextLines, NextMismatch, NextPipes
    DEF Pairing, WireTypeOK
  <2> QED
    BY <2>1, <2>2
<1> QED
  BY InitPairing, <1>1, PTL DEF WireSpec

(* An IdMismatch never follows from the frontend's own timeout, an exit or *)
(* any order of requests: it takes a line that is no response, or a call   *)
(* that run_phased's deadline dropped, and then it is shutdown that reads  *)
(* the answer, and no call follows.                                        *)
THEOREM MismatchOnlyFromNoise == WireSpec => []MismatchNeedsNoise
<1>1. Pairing => MismatchNeedsNoise
  BY DEF Pairing
<1> QED
  BY PairingInvariant, <1>1, PTL

(* drain_stale_responses is dead code: no call ever finds a response owed. *)
THEOREM DrainDead == WireSpec => []DrainUnreachable
<1>1. Pairing => DrainUnreachable
  BY DEF Pairing
<1> QED
  BY PairingInvariant, <1>1, PTL

(* The pipes of an untainted frontend never hold anything but the current  *)
(* call, and one line of the call before it if a deadline of run_phased    *)
(* dropped that one: the argument the two theorems above rest on.          *)
THEOREM PipesStayAligned == WireSpec => []PipesAligned
<1>1. Pairing => PipesAligned
  BY DEF Pairing
<1> QED
  BY PairingInvariant, <1>1, PTL

(* A frontend that shutdown or a drop has consumed leaves no subprocess    *)
(* behind, in whatever state its call and its pipes were.                  *)
THEOREM NoOrphan == WireSpec => []ClosedIsReaped
<1>1. WireInit => ClosedIsReaped
  BY DEF WireInit, ClosedIsReaped
<1>2. ClosedIsReaped /\ [WireNext]_wireVars => ClosedIsReaped'
  <2> SUFFICES ASSUME ClosedIsReaped, [WireNext]_wireVars PROVE ClosedIsReaped'
    OBVIOUS
  <2> USE DEF ClosedIsReaped
  <2>1. CASE UNCHANGED wireVars
    BY <2>1 DEF wireVars, callVars, childVars
  <2>2. CASE Send \/ SendRefused \/ Shutdown \/ Write
    BY <2>2 DEF Send, Begin, SendRefused, Shutdown, Write, callVars, childVars
  <2>3. CASE WriteBroken \/ Read \/ ReadEof \/ Timeout \/ Abandon \/ Drop
    BY <2>3 DEF WriteBroken, Read, ReadEof, Timeout, Abandon, Drop, Return, Reap, childVars
  <2>4. CASE Serve \/ PrintNoise \/ Exit
    BY <2>4 DEF Serve, PrintNoise, Exit, callVars
  <2> QED
    BY <2>1, <2>2, <2>3, <2>4 DEF WireNext
<1> QED
  BY <1>1, <1>2, PTL DEF WireSpec
=============================================================================
