------------------------- MODULE FunctionModeProofs -------------------------
(***************************************************************************)
(* Proofs about FunctionMode, for any number of functions and any          *)
(* parallelism: the subprocesses stay within the cap, the first function   *)
(* of the scan runs alone, the outcomes agree with the maps, and a layer   *)
(* leaves nothing behind.                                                  *)
(***************************************************************************)
EXTENDS FunctionMode, FiniteSetTheorems, TLAPS

(* The places at which a task holds its permit.                            *)
Running == {"spawn", "handshake", "run", "shutdown", "settle"}

(* Permits are held by running tasks, subprocesses by holders of a permit. *)
PermitInv ==
  /\ \A t \in Tasks : t \in permits <=> pc[t] \in Running
  /\ frontends \subseteq permits
  /\ Cardinality(permits) <= MaxConcurrent

(* The gate is led while its leader is under way, and until it is open no  *)
(* other task has passed it, unless it was cancelled.                      *)
GateInv ==
  /\ gate = "led" <=> leader # 0
  /\ leader # 0 => pc[leader] \in {"permit"} \cup Running
  /\ gate # "open" => \A t \in Tasks : t # leader => pc[t] \in {"gate", "cancelled"}

(* A map is entered by exactly the tasks that ended with a success.        *)
MapInv ==
  \A t \in Tasks : t \in maps <=> pc[t] = "ended" /\ result[t] = "success"

(* The joiner has an outcome for every task before the one it waits for,   *)
(* and these have ended.  It aborts after the deadline only.               *)
JoinInv ==
  /\ \A t \in Tasks : outcomes[t] # "none" <=> t < joining
  /\ \A t \in Tasks : t < joining => pc[t] \in Ended
  /\ \A t \in Tasks : pc[t] \in {"shutdown", "settle", "ended"} => result[t] # "none"
  /\ aborting => scan_over /\ joining \in Tasks
  /\ \A t \in Tasks : pc[t] = "cancelled" =>
       t < joining \/ (t = joining /\ aborting)

LayerInv == TypeOK /\ PermitInv /\ GateInv /\ MapInv /\ JoinInv /\ OutcomesMatchMaps

-----------------------------------------------------------------------------
(* Sets of tasks are finite, so their cardinalities are numbers; a set     *)
(* with a task taken away is no larger, with a task added larger by one at *)
(* most.                                                                   *)
LEMMA TaskSets ==
  ASSUME NEW S, S \subseteq Tasks
  PROVE  IsFiniteSet(S) /\ Cardinality(S) \in Nat
<1>1. IsFiniteSet(Tasks)
  BY FS_Interval, LayerAssumption DEF Tasks
<1>2. IsFiniteSet(S)
  BY <1>1, FS_Subset
<1> QED
  BY <1>2, FS_CardinalityType

LEMMA PermitAdded ==
  ASSUME NEW S, S \subseteq Tasks, NEW t, NEW T, T = S \cup {t}
  PROVE  Cardinality(T) = Cardinality(S) \/ Cardinality(T) = Cardinality(S) + 1
<1>1. IsFiniteSet(S)
  BY TaskSets
<1>2. Cardinality(S \cup {t}) = IF t \in S THEN Cardinality(S) ELSE Cardinality(S) + 1
  BY <1>1, FS_AddElement, Zenon
<1> QED
  BY <1>2, Zenon

LEMMA PermitRemoved ==
  ASSUME NEW S, S \subseteq Tasks, NEW T, T \subseteq S
  PROVE  Cardinality(T) <= Cardinality(S)
<1>1. IsFiniteSet(S)
  BY TaskSets
<1> QED
  BY <1>1, FS_Subset

(* LayerInv holds at the start.                                            *)
LEMMA LayerInit == Init => LayerInv
<1> SUFFICES ASSUME Init PROVE LayerInv
  OBVIOUS
<1>1. Cardinality(permits) <= MaxConcurrent
  BY FS_EmptySet, LayerAssumption DEF Init
<1>2. TypeOK
  <2>1. joining \in 1 .. TaskCount + 1
    BY LayerAssumption DEF Init
  <2>2. /\ pc \in [Tasks -> {"gate", "permit", "spawn", "handshake", "run", "shutdown",
                            "settle"} \cup Ended]
        /\ result \in [Tasks -> Phased \cup {"none"}]
        /\ outcomes \in [Tasks -> Outcomes \cup {"none"}]
    BY DEF Init
  <2> QED
    BY <2>1, <2>2 DEF Init, TypeOK
<1>3. PermitInv /\ GateInv /\ MapInv
  BY <1>1 DEF Init, PermitInv, GateInv, MapInv, Running
<1>4. JoinInv /\ OutcomesMatchMaps
  BY DEF Init, JoinInv, OutcomesMatchMaps, Tasks
<1> QED
  BY <1>2, <1>3, <1>4 DEF LayerInv

(* Every step of a task keeps LayerInv: a task that ends drops what it     *)
(* held, and only a success enters a map.                                  *)
LEMMA TaskKeeps ==
  ASSUME LayerInv, NEW t \in Tasks, TaskStep(t)
  PROVE  LayerInv'
<1> USE LayerAssumption DEF LayerInv
<1>0. permits \subseteq Tasks /\ Cardinality(permits) \in Nat
  BY TaskSets DEF TypeOK
<1>1. CASE EnterGate(t)
  <2>1. TypeOK'
    BY <1>1 DEF EnterGate, Goto, TypeOK, joinVars, Ended, Phased, Outcomes
  <2>2. PermitInv'
    BY <1>0, <1>1 DEF EnterGate, Goto, TypeOK, PermitInv, Running, Ended, joinVars
  <2>3. GateInv'
    BY <1>1 DEF EnterGate, Goto, TypeOK, GateInv, Running, Ended, joinVars, Tasks
  <2>4. MapInv'
    BY <1>1 DEF EnterGate, Goto, TypeOK, MapInv, Ended, Phased, joinVars
  <2>5. JoinInv' /\ OutcomesMatchMaps'
    BY <1>1 DEF EnterGate, Goto, TypeOK, MapInv, JoinInv, OutcomesMatchMaps, Ended, Phased, joinVars, Tasks
  <2> QED
    BY <2>1, <2>2, <2>3, <2>4, <2>5
<1>2. CASE AcquirePermit(t)
  <2>1. TypeOK'
    BY <1>2 DEF AcquirePermit, Goto, TypeOK, joinVars, Ended, Phased, Outcomes
  <2>2. PermitInv'
    <3>0. \/ Cardinality(permits') = Cardinality(permits)
          \/ Cardinality(permits') = Cardinality(permits) + 1
      BY <1>0, <1>2, PermitAdded DEF AcquirePermit
    <3>1. Cardinality(permits') <= MaxConcurrent
      BY <1>0, <1>2, <3>0 DEF AcquirePermit
    <3>2. (\A u \in Tasks : u \in permits <=> pc[u] \in Running)'
      BY <1>2 DEF AcquirePermit, Goto, TypeOK, PermitInv, Running, Ended
    <3>3. (frontends \subseteq permits)'
      BY <1>2 DEF AcquirePermit, PermitInv
    <3> QED
      BY <3>1, <3>2, <3>3 DEF PermitInv
  <2>3. GateInv'
    BY <1>2 DEF AcquirePermit, Goto, TypeOK, GateInv, Running, Ended, joinVars, Tasks
  <2>4. MapInv'
    BY <1>2 DEF AcquirePermit, Goto, TypeOK, MapInv, Ended, Phased, joinVars
  <2>5. JoinInv' /\ OutcomesMatchMaps'
    BY <1>2 DEF AcquirePermit, Goto, TypeOK, MapInv, JoinInv, OutcomesMatchMaps, Ended, Phased, joinVars, Tasks
  <2> QED
    BY <2>1, <2>2, <2>3, <2>4, <2>5
<1>3. CASE Launch(t)
  <2>1. TypeOK'
    BY <1>3 DEF Launch, Goto, TypeOK, joinVars, Ended, Phased, Outcomes
  <2>2. PermitInv'
    BY <1>0, <1>3 DEF Launch, Goto, TypeOK, PermitInv, Running, Ended, joinVars
  <2>3. GateInv'
    BY <1>3 DEF Launch, Goto, TypeOK, GateInv, Running, Ended, joinVars, Tasks
  <2>4. MapInv'
    BY <1>3 DEF Launch, Goto, TypeOK, MapInv, Ended, Phased, joinVars
  <2>5. JoinInv' /\ OutcomesMatchMaps'
    BY <1>3 DEF Launch, Goto, TypeOK, MapInv, JoinInv, OutcomesMatchMaps, Ended, Phased, joinVars, Tasks
  <2> QED
    BY <2>1, <2>2, <2>3, <2>4, <2>5
<1>4. CASE Spawned(t)
  <2>1. TypeOK'
    BY <1>4 DEF Spawned, Goto, TypeOK, joinVars, Ended, Phased, Outcomes
  <2>2. PermitInv'
    BY <1>0, <1>4 DEF Spawned, Goto, TypeOK, PermitInv, Running, Ended, joinVars
  <2>3. GateInv'
    BY <1>4 DEF Spawned, Goto, TypeOK, GateInv, Running, Ended, joinVars, Tasks
  <2>4. MapInv'
    BY <1>4 DEF Spawned, Goto, TypeOK, MapInv, Ended, Phased, joinVars
  <2>5. JoinInv' /\ OutcomesMatchMaps'
    BY <1>4 DEF Spawned, Goto, TypeOK, MapInv, JoinInv, OutcomesMatchMaps, Ended, Phased, joinVars, Tasks
  <2> QED
    BY <2>1, <2>2, <2>3, <2>4, <2>5
<1>5. CASE SpawnFails(t)
  <2>1. TypeOK'
    BY <1>5 DEF SpawnFails, DropFuture, Goto, TypeOK, joinVars, Ended, Phased, Outcomes
  <2>2. PermitInv'
    <3>0. /\ Cardinality(permits') <= Cardinality(permits)
          /\ Cardinality(permits') \in Nat
      <4>1. permits' \subseteq permits
        BY <1>5 DEF SpawnFails, DropFuture
      <4> QED
        BY <1>0, <4>1, PermitRemoved, TaskSets
    <3>1. Cardinality(permits') <= MaxConcurrent
      BY <1>0, <3>0 DEF PermitInv
    <3>2. (\A u \in Tasks : u \in permits <=> pc[u] \in Running)'
      BY <1>5 DEF SpawnFails, DropFuture, Goto, TypeOK, PermitInv, Running, Ended
    <3>3. (frontends \subseteq permits)'
      BY <1>5 DEF SpawnFails, DropFuture, PermitInv
    <3> QED
      BY <3>1, <3>2, <3>3 DEF PermitInv
  <2>3. GateInv'
    BY <1>5 DEF SpawnFails, DropFuture, Goto, TypeOK, GateInv, Running, Ended, joinVars, Tasks
  <2>4. MapInv'
    BY <1>5 DEF SpawnFails, DropFuture, Goto, TypeOK, MapInv, Ended, Phased, joinVars
  <2>5. JoinInv' /\ OutcomesMatchMaps'
    BY <1>5 DEF SpawnFails, DropFuture, Goto, TypeOK, MapInv, JoinInv, OutcomesMatchMaps, Ended, Phased, joinVars, Tasks
  <2> QED
    BY <2>1, <2>2, <2>3, <2>4, <2>5
<1>6. CASE RunPhased(t)
  <2>1. TypeOK'
    BY <1>6 DEF RunPhased, Goto, TypeOK, joinVars, Ended, Phased, Outcomes
  <2>2. PermitInv'
    BY <1>0, <1>6 DEF RunPhased, Goto, TypeOK, PermitInv, Running, Ended, joinVars
  <2>3. GateInv'
    BY <1>6 DEF RunPhased, Goto, TypeOK, GateInv, Running, Ended, joinVars, Tasks
  <2>4. MapInv'
    BY <1>6 DEF RunPhased, Goto, TypeOK, MapInv, Ended, Phased, joinVars
  <2>5. JoinInv' /\ OutcomesMatchMaps'
    BY <1>6 DEF RunPhased, Goto, TypeOK, MapInv, JoinInv, OutcomesMatchMaps, Ended, Phased, joinVars, Tasks
  <2> QED
    BY <2>1, <2>2, <2>3, <2>4, <2>5
<1>7. CASE Panic(t)
  <2>1. TypeOK'
    BY <1>7 DEF Panic, DropFuture, Goto, TypeOK, joinVars, Ended, Phased, Outcomes
  <2>2. PermitInv'
    <3>0. /\ Cardinality(permits') <= Cardinality(permits)
          /\ Cardinality(permits') \in Nat
      <4>1. permits' \subseteq permits
        BY <1>7 DEF Panic, DropFuture
      <4> QED
        BY <1>0, <4>1, PermitRemoved, TaskSets
    <3>1. Cardinality(permits') <= MaxConcurrent
      BY <1>0, <3>0 DEF PermitInv
    <3>2. (\A u \in Tasks : u \in permits <=> pc[u] \in Running)'
      BY <1>7 DEF Panic, DropFuture, Goto, TypeOK, PermitInv, Running, Ended
    <3>3. (frontends \subseteq permits)'
      BY <1>7 DEF Panic, DropFuture, PermitInv
    <3> QED
      BY <3>1, <3>2, <3>3 DEF PermitInv
  <2>3. GateInv'
    BY <1>7 DEF Panic, DropFuture, Goto, TypeOK, GateInv, Running, Ended, joinVars, Tasks
  <2>4. MapInv'
    BY <1>7 DEF Panic, DropFuture, Goto, TypeOK, MapInv, Ended, Phased, joinVars
  <2>5. JoinInv' /\ OutcomesMatchMaps'
    BY <1>7 DEF Panic, DropFuture, Goto, TypeOK, MapInv, JoinInv, OutcomesMatchMaps, Ended, Phased, joinVars, Tasks
  <2> QED
    BY <2>1, <2>2, <2>3, <2>4, <2>5
<1>8. CASE Shutdown(t)
  <2>1. TypeOK'
    BY <1>8 DEF Shutdown, Goto, TypeOK, joinVars, Ended, Phased, Outcomes
  <2>2. PermitInv'
    BY <1>0, <1>8 DEF Shutdown, Goto, TypeOK, PermitInv, Running, Ended, joinVars
  <2>3. GateInv'
    BY <1>8 DEF Shutdown, Goto, TypeOK, GateInv, Running, Ended, joinVars, Tasks
  <2>4. MapInv'
    BY <1>8 DEF Shutdown, Goto, TypeOK, MapInv, Ended, Phased, joinVars
  <2>5. JoinInv' /\ OutcomesMatchMaps'
    BY <1>8 DEF Shutdown, Goto, TypeOK, MapInv, JoinInv, OutcomesMatchMaps, Ended, Phased, joinVars, Tasks
  <2> QED
    BY <2>1, <2>2, <2>3, <2>4, <2>5
<1>9. CASE Settle(t)
  <2>1. TypeOK'
    BY <1>9 DEF Settle, DropFuture, Goto, TypeOK, joinVars, Ended, Phased, Outcomes
  <2>2. PermitInv'
    <3>0. /\ Cardinality(permits') <= Cardinality(permits)
          /\ Cardinality(permits') \in Nat
      <4>1. permits' \subseteq permits
        BY <1>9 DEF Settle, DropFuture
      <4> QED
        BY <1>0, <4>1, PermitRemoved, TaskSets
    <3>1. Cardinality(permits') <= MaxConcurrent
      BY <1>0, <3>0 DEF PermitInv
    <3>2. (\A u \in Tasks : u \in permits <=> pc[u] \in Running)'
      BY <1>9 DEF Settle, DropFuture, Goto, TypeOK, PermitInv, Running, Ended
    <3>3. (frontends \subseteq permits)'
      BY <1>9 DEF Settle, DropFuture, PermitInv
    <3> QED
      BY <3>1, <3>2, <3>3 DEF PermitInv
  <2>3. GateInv'
    BY <1>9 DEF Settle, DropFuture, Goto, TypeOK, GateInv, Running, Ended, joinVars, Tasks
  <2>4. MapInv'
    BY <1>9 DEF Settle, DropFuture, Goto, TypeOK, MapInv, Ended, Phased, joinVars
  <2>5. JoinInv'
    BY <1>9 DEF Settle, Goto, TypeOK, JoinInv, Ended, joinVars, Tasks
  <2>6. t \notin maps /\ outcomes[t] = "none"
    BY <1>9 DEF Settle, MapInv, JoinInv, Ended
  <2>7. OutcomesMatchMaps'
    BY <1>9, <2>6 DEF Settle, TypeOK, OutcomesMatchMaps, joinVars
  <2> QED
    BY <2>1, <2>2, <2>3, <2>4, <2>5, <2>7
<1> QED
  BY <1>1, <1>2, <1>3, <1>4, <1>5, <1>6, <1>7, <1>8, <1>9 DEF TaskStep

(* Every step of the joiner, and the passing of the deadline, keep it: an  *)
(* outcome is pushed for a task that has ended.                            *)
LEMMA JoinerKeeps ==
  ASSUME LayerInv, Joiner \/ TotalDeadline
  PROVE  LayerInv'
<1> USE LayerAssumption DEF LayerInv
<1>1. CASE Join
  <2>1. TypeOK'
    BY <1>1 DEF Join, Push, TypeOK, JoinInv, taskVars, joinVars, Ended, Phased, Outcomes, Tasks
  <2>2. PermitInv' /\ GateInv'
    BY <1>1 DEF Join, Push, TypeOK, PermitInv, GateInv, Running, Ended, taskVars, joinVars
  <2>3. MapInv'
    BY <1>1 DEF Join, Push, TypeOK, MapInv, Ended, taskVars, joinVars
  <2>4. JoinInv'
    BY <1>1 DEF Join, Push, TypeOK, JoinInv, Ended, Phased, Outcomes, taskVars, joinVars, Tasks
  <2>5. OutcomesMatchMaps'
    BY <1>1 DEF Join, Push, TypeOK, MapInv, JoinInv, OutcomesMatchMaps, Ended, Phased, Outcomes, taskVars, joinVars, Tasks
  <2> QED
    BY <2>1, <2>2, <2>3, <2>4, <2>5
<1>2. CASE RequestAbort
  <2>1. TypeOK'
    BY <1>2 DEF RequestAbort, TypeOK, JoinInv, taskVars, joinVars, Ended, Phased, Outcomes, Tasks
  <2>2. PermitInv' /\ GateInv'
    BY <1>2 DEF RequestAbort, TypeOK, PermitInv, GateInv, Running, Ended, taskVars, joinVars
  <2>3. MapInv'
    BY <1>2 DEF RequestAbort, TypeOK, MapInv, Ended, taskVars, joinVars
  <2>4. JoinInv'
    BY <1>2 DEF RequestAbort, TypeOK, JoinInv, Ended, Phased, Outcomes, taskVars, joinVars, Tasks
  <2>5. OutcomesMatchMaps'
    BY <1>2 DEF RequestAbort, TypeOK, MapInv, JoinInv, OutcomesMatchMaps, Ended, Phased, Outcomes, taskVars, joinVars, Tasks
  <2> QED
    BY <2>1, <2>2, <2>3, <2>4, <2>5
<1>3. CASE Cancel
  <2>0. joining \in Tasks /\ permits \subseteq Tasks /\ Cardinality(permits) \in Nat
    BY <1>3, TaskSets DEF Cancel, JoinInv, TypeOK
  <2>1. TypeOK'
    BY <2>0, <1>3 DEF Cancel, DropFuture, AwaitPoint, Goto, TypeOK, JoinInv, taskVars, joinVars, Ended, Phased, Outcomes, Tasks
  <2>2. PermitInv' /\ GateInv'
    <3>0. /\ Cardinality(permits') <= Cardinality(permits)
          /\ Cardinality(permits') \in Nat
      <4>1. permits' \subseteq permits
        BY <1>3 DEF Cancel, DropFuture
      <4> QED
        BY <2>0, <4>1, PermitRemoved, TaskSets
    <3>1. Cardinality(permits') <= MaxConcurrent
      BY <2>0, <3>0 DEF PermitInv
    <3>2. (\A u \in Tasks : u \in permits <=> pc[u] \in Running)'
      BY <2>0, <1>3 DEF Cancel, DropFuture, Goto, TypeOK, PermitInv, Running, Ended
    <3>3. (frontends \subseteq permits)'
      BY <1>3 DEF Cancel, DropFuture, PermitInv
    <3>4. GateInv'
      BY <2>0, <1>3 DEF Cancel, DropFuture, Goto, AwaitPoint, TypeOK, GateInv, Running, Ended, Tasks
    <3> QED
      BY <3>1, <3>2, <3>3, <3>4 DEF PermitInv
  <2>3. MapInv'
    BY <2>0, <1>3 DEF Cancel, DropFuture, AwaitPoint, Goto, TypeOK, MapInv, Ended, taskVars, joinVars
  <2>4. JoinInv'
    BY <2>0, <1>3 DEF Cancel, DropFuture, AwaitPoint, Goto, TypeOK, JoinInv, Ended, Phased, Outcomes, taskVars, joinVars, Tasks
  <2>5. OutcomesMatchMaps'
    BY <2>0, <1>3 DEF Cancel, DropFuture, AwaitPoint, Goto, TypeOK, MapInv, JoinInv, OutcomesMatchMaps, Ended, Phased, Outcomes, taskVars, joinVars, Tasks
  <2> QED
    BY <2>1, <2>2, <2>3, <2>4, <2>5
<1>4. CASE Aborted
  <2>1. TypeOK'
    <3>1. /\ joining' \in 1 .. TaskCount + 1
          /\ outcomes' \in [Tasks -> Outcomes \cup {"none"}]
      BY <1>4 DEF Aborted, Push, TypeOK, JoinInv, Outcomes, Tasks
    <3>2. aborting' \in BOOLEAN /\ UNCHANGED <<taskVars, scan_over>>
      BY <1>4 DEF Aborted
    <3> QED
      BY <3>1, <3>2 DEF TypeOK, taskVars
  <2>2. PermitInv' /\ GateInv'
    BY <1>4 DEF Aborted, Push, TypeOK, PermitInv, GateInv, Running, Ended, taskVars, joinVars
  <2>3. MapInv'
    BY <1>4 DEF Aborted, Push, TypeOK, MapInv, Ended, taskVars, joinVars
  <2>4. JoinInv'
    BY <1>4 DEF Aborted, Push, TypeOK, JoinInv, Ended, Phased, Outcomes, taskVars, joinVars, Tasks
  <2>5. OutcomesMatchMaps'
    BY <1>4 DEF Aborted, Push, TypeOK, MapInv, JoinInv, OutcomesMatchMaps, Ended, Phased, Outcomes, taskVars, joinVars, Tasks
  <2> QED
    BY <2>1, <2>2, <2>3, <2>4, <2>5
<1>5. CASE TotalDeadline
  <2>1. TypeOK'
    BY <1>5 DEF TotalDeadline, TypeOK, JoinInv, taskVars, joinVars, Ended, Phased, Outcomes, Tasks
  <2>2. PermitInv' /\ GateInv'
    BY <1>5 DEF TotalDeadline, TypeOK, PermitInv, GateInv, Running, Ended, taskVars, joinVars
  <2>3. MapInv'
    BY <1>5 DEF TotalDeadline, TypeOK, MapInv, Ended, taskVars, joinVars
  <2>4. JoinInv'
    BY <1>5 DEF TotalDeadline, TypeOK, JoinInv, Ended, Phased, Outcomes, taskVars, joinVars, Tasks
  <2>5. OutcomesMatchMaps'
    BY <1>5 DEF TotalDeadline, TypeOK, MapInv, JoinInv, OutcomesMatchMaps, Ended, Phased, Outcomes, taskVars, joinVars, Tasks
  <2> QED
    BY <2>1, <2>2, <2>3, <2>4, <2>5
<1> QED
  BY <1>1, <1>2, <1>3, <1>4, <1>5 DEF Joiner

(* LayerInv is an invariant of the specification.                          *)
THEOREM LayerInvariant == Spec => []LayerInv
<1>1. Init => LayerInv
  BY LayerInit
<1>2. LayerInv /\ [Next]_vars => LayerInv'
  <2> SUFFICES ASSUME LayerInv, [Next]_vars PROVE LayerInv'
    OBVIOUS
  <2>1. CASE \E t \in Tasks : TaskStep(t)
    BY <2>1, TaskKeeps
  <2>2. CASE Joiner \/ TotalDeadline
    BY <2>2, JoinerKeeps
  <2>3. CASE UNCHANGED vars
    BY <2>3 DEF vars, taskVars, joinVars, LayerInv, TypeOK, PermitInv, GateInv, MapInv,
      JoinInv, OutcomesMatchMaps
  <2> QED
    BY <2>1, <2>2, <2>3 DEF Next, Done
<1> QED
  BY <1>1, <1>2, PTL DEF Spec

(* No more than max_concurrent subprocesses exist, for any number of       *)
(* functions and any parallelism, through failed spawns, panics and aborts *)
(* (run_layer_function_mode's semaphore).                                  *)
THEOREM FrontendsBounded == Spec => []DedicatedBounded
<1>1. LayerInv => DedicatedBounded
  <2> SUFFICES ASSUME LayerInv PROVE DedicatedBounded
    OBVIOUS
  <2>0. IsFiniteSet(Tasks)
    BY FS_Interval, LayerAssumption DEF Tasks
  <2>1. IsFiniteSet(permits)
    BY <2>0, FS_Subset DEF LayerInv, TypeOK
  <2>2. /\ Cardinality(frontends) <= Cardinality(permits)
        /\ Cardinality(frontends) \in Nat /\ Cardinality(permits) \in Nat
    BY <2>1, FS_Subset, FS_CardinalityType DEF LayerInv, PermitInv
  <2> QED
    BY <2>2, LayerAssumption DEF LayerInv, PermitInv, DedicatedBounded
<1> QED
  BY <1>1, LayerInvariant, PTL

(* Until the gate opens the leader's frontend is the only one              *)
(* (BuildWarmupGate in function isolation).                                *)
THEOREM LeaderAlone == Spec => []WarmupAlone
<1>1. LayerInv => WarmupAlone
  BY DEF LayerInv, TypeOK, PermitInv, GateInv, WarmupAlone, Running
<1> QED
  BY <1>1, LayerInvariant, PTL

(* The outcomes of a layer agree with the maps it leaves to later layers,  *)
(* whatever is aborted at the total deadline.                              *)
THEOREM OutcomesHonest == Spec => []OutcomesMatchMaps
<1>1. LayerInv => OutcomesMatchMaps
  BY DEF LayerInv
<1> QED
  BY <1>1, LayerInvariant, PTL

(* When the layer returns, no subprocess, permit or gate guard is left.    *)
THEOREM NothingLeft == Spec => []LayerLeavesNothing
<1>1. LayerInv => LayerLeavesNothing
  <2> SUFFICES ASSUME LayerInv, joining > TaskCount
               PROVE  frontends = {} /\ permits = {} /\ gate # "led"
    BY DEF LayerLeavesNothing
  <2>1. \A t \in Tasks : pc[t] \in Ended
    BY LayerAssumption DEF LayerInv, TypeOK, JoinInv, Tasks
  <2>2. permits = {}
    BY <2>1 DEF LayerInv, TypeOK, PermitInv, Running, Ended
  <2>3. leader = 0
    BY <2>1 DEF LayerInv, TypeOK, GateInv, Running, Ended
  <2> QED
    BY <2>2, <2>3 DEF LayerInv, PermitInv, GateInv
<1> QED
  BY <1>1, LayerInvariant, PTL

=============================================================================
