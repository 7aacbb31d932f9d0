------------------------ MODULE ExploreDriverProofs ------------------------
(***************************************************************************)
(* Proofs about ExploreDriver for any number of functions, workers, runs   *)
(* and changes, any bounds and any files whose write may fail.             *)
(***************************************************************************)
EXTENDS ExploreDriver, FiniteSetTheorems, TLAPS

-----------------------------------------------------------------------------
(* The inductive invariant.                                                *)

(* Batches exist while the loop runs, and panics since the run began.      *)
PhasesOK ==
  /\ pc # "loop" => running = {}
  /\ pc \in {"idle", "prepared"} => lost = {} /\ at = 1
  /\ pc = "loop" => at = 1
  /\ pc = "clean" => at \in Functions

(* ProgressOnDisk from the preparation on.  The state of a function is     *)
(* with its batch while one runs.                                          *)
Saved ==
  /\ \A f \in running : states[f] = {}
  /\ "sidecar" \notin mishaps /\ pc \in {"prepared", "loop"} =>
       \A f \in Functions :
         LET known == IF f \in running THEN given[f] ELSE states[f] IN
         known # {} => sidecar[f] = [paths |-> known, version |-> version[f]]

(* Versions are handed out one after the other.                            *)
VersionsKnown ==
  \A f \in Functions :
    version[f] <= edits /\ summary[f].version <= edits /\ entries[f].version <= edits

(* An entry of the present run names the artifact it wrote.  One on disk   *)
(* that vouches for today's version has an artifact of it, if versions do  *)
(* not come back; if the summary can be written, it is emptied before any  *)
(* artifact is replaced, and every entry on disk names its own artifact.   *)
Vouched ==
  \A f \in Functions :
    /\ entries[f].stored =>
         artifact[f].version = version[f] /\ entries[f].version = version[f]
    /\ "revert" \notin mishaps /\ summary[f].stored /\ summary[f].version = version[f]
         => artifact[f].version = version[f]
    /\ "summary" \notin mishaps /\ summary[f].stored
         => artifact[f].version = summary[f].version /\ pc \in {"idle", "prepared"}

(* Why a function may go without an entry.                                 *)
Excused(f) == f \notin Targets \/ f \in lost \/ (stop /\ lease[f] = "waiting")

(* Every function with something to explore is on its way to an entry.     *)
OnItsWay ==
  /\ pc \in {"prepared", "loop"} =>
       \A f \in Functions :
         /\ entries[f] = NoEntry
         /\ f \in Targets /\ ~acc[f].merged => lease[f] \in {"waiting", "leased"}
  /\ pc \in {"flush", "clean"} =>
       \A f \in Functions :
         /\ entries[f].status = "none" /\ ~acc[f].merged => Excused(f)
         /\ f < at \/ (pc = "clean" /\ f = at) => ~acc[f].merged
  /\ pc = "idle" => entries = [f \in Functions |-> NoEntry]

IInv ==
  /\ TypeOK /\ PhasesOK /\ LeasesMatchTasks
  /\ Saved /\ VersionsKnown /\ Vouched /\ OnItsWay

-----------------------------------------------------------------------------
(* The values a run starts with are of their types.                        *)
LEMMA FreshTypes ==
  /\ NoEntry \in Entry /\ NoState \in State
  /\ NoResult \in [paths : SUBSET Paths, ok : BOOLEAN, version : Versions]
  /\ NewAcc \in [merged : BOOLEAN, ok : BOOLEAN, timed_out : BOOLEAN, paths : SUBSET Paths]
  /\ 0 \in Versions /\ 0 \in 0 .. MaxIterations
  /\ 1 \in 1 .. FunctionCount + 1 /\ 0 \in Nat
  /\ {"idle", "waiting", "leased"} \subseteq Scheduler!Status
<1>1. 0 \in Versions BY DEF Versions
<1>2. NoEntry \in Entry BY <1>1 DEF NoEntry, Entry
<1>3. NoState \in State BY <1>1 DEF NoState, State
<1>4. NoResult \in [paths : SUBSET Paths, ok : BOOLEAN, version : Versions]
  BY <1>1 DEF NoResult
<1>5. NewAcc \in [merged : BOOLEAN, ok : BOOLEAN, timed_out : BOOLEAN, paths : SUBSET Paths]
  BY DEF NewAcc
<1> QED BY <1>1, <1>2, <1>3, <1>4, <1>5, DriverAssumption DEF Scheduler!Status

(* The invariant holds at the start, and every action keeps it.            *)
LEMMA InitIInv == Init => IInv
<1> SUFFICES ASSUME Init PROVE IInv OBVIOUS
<1> USE DriverAssumption DEF Init
<1>1. TypeOK
  BY FreshTypes DEF TypeOK
<1>2. PhasesOK BY DEF PhasesOK
<1>3. LeasesMatchTasks BY FS_EmptySet DEF LeasesMatchTasks
<1>4. Saved BY DEF Saved
<1>5. VersionsKnown BY DEF VersionsKnown, NoEntry
<1>6. Vouched BY DEF Vouched, NoEntry, NoResult
<1>7. OnItsWay BY DEF OnItsWay
<1> QED BY <1>1, <1>2, <1>3, <1>4, <1>5, <1>6, <1>7 DEF IInv

(* What goes with the process, whatever it left on disk.                   *)
LEMMA GoneStep ==
  ASSUME IInv, ProcessGone, UNCHANGED <<history, version, edits, runs, artifact, sidecar>>,
         summary' = summary \/ summary' = entries
  PROVE  IInv'
<1> USE DriverAssumption DEF ProcessGone
<1>1. TypeOK'
  BY FreshTypes DEF IInv, TypeOK
<1>2. PhasesOK' BY DEF PhasesOK
<1>3. LeasesMatchTasks' BY FS_EmptySet DEF LeasesMatchTasks
<1>4. Saved' BY DEF Saved, mishaps
<1>5. VersionsKnown' BY DEF IInv, TypeOK, VersionsKnown, NoEntry, Versions
<1>6. Vouched' BY DEF IInv, Vouched, NoEntry, mishaps
<1>7. OnItsWay' BY DEF OnItsWay, Targets
<1> QED BY <1>1, <1>2, <1>3, <1>4, <1>5, <1>6, <1>7 DEF IInv

LEMMA EndStep == ASSUME IInv, Crash \/ FinalSummary PROVE IInv'
<1>1. CASE Crash BY <1>1, GoneStep DEF Crash, disk
<1>2. CASE FinalSummary BY <1>2, GoneStep DEF FinalSummary, Write
<1> QED BY <1>1, <1>2

(* A new version is larger than any that was written down.                 *)
LEMMA EditStep == ASSUME IInv, NEW f \in Functions, Edit(f) PROVE IInv'
<1> USE DriverAssumption DEF Edit, disk, memory
<1>1. TypeOK' BY DEF IInv, TypeOK, Versions
<1>2. PhasesOK' BY DEF IInv, PhasesOK
<1>3. LeasesMatchTasks' BY DEF IInv, LeasesMatchTasks
<1>4. Saved' BY DEF IInv, Saved, mishaps
<1>5. VersionsKnown' BY DEF IInv, TypeOK, VersionsKnown, Versions, Entry
<1>6. Vouched'
  <2> SUFFICES ASSUME NEW g \in Functions
               PROVE  /\ ~entries[g].stored
                      /\ "revert" \notin mishaps /\ summary[g].stored
                           /\ summary[g].version = version'[g]
                           => artifact[g].version = version'[g]
    BY DEF IInv, Vouched, mishaps
  <2>1. ~entries[g].stored BY DEF IInv, OnItsWay, NoEntry
  <2>2. summary[g].version <= edits /\ summary[g].version \in Nat /\ edits \in Nat
    BY DEF IInv, TypeOK, VersionsKnown, Versions, Entry
  <2>3. "revert" \notin mishaps /\ g = f => version'[g] = edits + 1 BY DEF IInv, TypeOK
  <2>4. g # f => version'[g] = version[g] BY DEF IInv, TypeOK
  <2>5. CASE g = f BY <2>1, <2>2, <2>3, <2>5
  <2>6. CASE g # f BY <2>1, <2>4, <2>6 DEF IInv, Vouched
  <2> QED BY <2>5, <2>6
<1>7. OnItsWay' BY DEF IInv, OnItsWay, Targets
<1> QED BY <1>1, <1>2, <1>3, <1>4, <1>5, <1>6, <1>7 DEF IInv

LEMMA PrepareStep == ASSUME IInv, Prepare PROVE IInv'
<1> USE DriverAssumption DEF Prepare, disk
<1>1. TypeOK'
  <2>1. states' \in [Functions -> SUBSET Paths] BY DEF IInv, TypeOK, State, Partial
  <2>2. lease' \in [Functions -> Scheduler!Status] BY DEF Scheduler!Status
  <2>3. left' \in [Functions -> 0 .. MaxIterations] OBVIOUS
  <2>4. acc' \in [Functions -> [merged : BOOLEAN, ok : BOOLEAN, timed_out : BOOLEAN,
                                paths : SUBSET Paths]]
    BY DEF IInv, TypeOK, NewAcc
  <2>5. resumed' \subseteq Functions /\ runs' \in Nat BY DEF IInv, TypeOK
  <2> QED BY <2>1, <2>2, <2>3, <2>4, <2>5 DEF IInv, TypeOK
<1>2. PhasesOK' BY DEF IInv, PhasesOK
<1>3. LeasesMatchTasks' BY DEF IInv, PhasesOK, LeasesMatchTasks
<1>4. Saved'
  <2>1. running' = {} BY DEF IInv, PhasesOK
  <2>2. ASSUME NEW f \in Functions, states'[f] # {}
        PROVE  sidecar[f] = [paths |-> states'[f], version |-> version[f]]
    <3>1. states'[f] = sidecar[f].paths /\ sidecar[f].version = version[f]
      BY <2>2 DEF Partial
    <3>2. sidecar[f] \in State BY DEF IInv, TypeOK
    <3> QED BY <3>1, <3>2 DEF State
  <2> QED BY <2>1, <2>2 DEF Saved
<1>5. VersionsKnown' BY DEF IInv, VersionsKnown
<1>6. Vouched' BY DEF IInv, Vouched, mishaps
<1>7. OnItsWay'
  <2>1. ASSUME NEW f \in Functions
        PROVE  /\ entries'[f] = NoEntry
               /\ f \in Targets /\ ~acc'[f].merged => lease'[f] \in {"waiting", "leased"}
    <3>1. entries'[f] = NoEntry BY DEF IInv, OnItsWay
    <3>2. Resumable(f) => acc'[f].merged OBVIOUS
    <3>3. f \in Targets /\ ~Resumable(f) => lease'[f] = "waiting" OBVIOUS
    <3> QED BY <3>1, <3>2, <3>3
  <2> QED BY <2>1 DEF OnItsWay, Targets
<1> QED BY <1>1, <1>2, <1>3, <1>4, <1>5, <1>6, <1>7 DEF IInv

LEMMA InitialSummaryStep == ASSUME IInv, InitialSummary PROVE IInv'
<1> USE DriverAssumption DEF InitialSummary, Write
<1>1. TypeOK' BY FreshTypes DEF IInv, TypeOK
<1>2. PhasesOK' BY DEF IInv, PhasesOK
<1>3. LeasesMatchTasks' BY DEF IInv, LeasesMatchTasks
<1>4. Saved' BY DEF IInv, Saved, mishaps
<1>5. VersionsKnown' BY DEF IInv, TypeOK, VersionsKnown, NoEntry, Versions
<1>6. Vouched' BY DEF IInv, Vouched, NoEntry, mishaps
<1>7. OnItsWay' BY DEF IInv, OnItsWay, Targets
<1> QED BY <1>1, <1>2, <1>3, <1>4, <1>5, <1>6, <1>7 DEF IInv

LEMMA LaunchStep == ASSUME IInv, NEW f \in Functions, Launch(f) PROVE IInv'
<1> USE DriverAssumption DEF Launch, disk
<1>0. /\ lease[f] = "waiting"
      /\ lease' = [u \in Functions |-> IF u = f THEN "leased" ELSE lease[u]]
  BY DEF Scheduler!Lease
<1>1. TypeOK' BY <1>0 DEF IInv, TypeOK, Scheduler!Status
<1>2. PhasesOK' BY DEF IInv, PhasesOK
<1>3. LeasesMatchTasks'
  <2>1. f \notin running \cup lost BY <1>0 DEF IInv, LeasesMatchTasks
  <2>2. \A g \in Functions : lease'[g] = "leased" <=> g \in running' \cup lost'
    BY <1>0 DEF IInv, LeasesMatchTasks
  <2>3. running' \cap lost' = {} BY <2>1 DEF IInv, LeasesMatchTasks
  <2>4. IsFiniteSet(running)
    <3>1. IsFiniteSet(Functions) BY FS_Interval DEF Functions
    <3> QED BY <3>1, FS_Subset DEF IInv, TypeOK
  <2>5. Cardinality(running') = Cardinality(running) + 1 /\ Cardinality(running) \in Nat
    BY <2>1, <2>4, FS_AddElement, FS_CardinalityType
  <2>6. Cardinality(running') <= Workers BY <2>5 DEF Slots
  <2> QED BY <2>2, <2>3, <2>6 DEF LeasesMatchTasks
<1>4. Saved'
  <2>1. f \notin running BY <1>0 DEF IInv, LeasesMatchTasks
  <2>2. /\ given'[f] = states[f] /\ states'[f] = {}
        /\ \A g \in Functions : g # f => given'[g] = given[g] /\ states'[g] = states[g]
    BY DEF IInv, TypeOK
  <2> QED BY <2>1, <2>2 DEF IInv, TypeOK, Saved, mishaps
<1>5. VersionsKnown' BY DEF IInv, VersionsKnown
<1>6. Vouched' BY DEF IInv, Vouched, mishaps
<1>7. OnItsWay' BY <1>0 DEF IInv, OnItsWay, Targets
<1> QED BY <1>1, <1>2, <1>3, <1>4, <1>5, <1>6, <1>7 DEF IInv

LEMMA StopStep == ASSUME IInv, StopLaunching PROVE IInv'
<1> USE DEF StopLaunching, disk
<1>1. TypeOK' BY DEF IInv, TypeOK
<1>2. PhasesOK' BY DEF IInv, PhasesOK
<1>3. LeasesMatchTasks' BY DEF IInv, LeasesMatchTasks
<1>4. Saved' BY DEF IInv, Saved, mishaps
<1>5. VersionsKnown' BY DEF IInv, VersionsKnown
<1>6. Vouched' BY DEF IInv, Vouched, mishaps
<1>7. OnItsWay' BY DEF IInv, OnItsWay, Targets
<1> QED BY <1>1, <1>2, <1>3, <1>4, <1>5, <1>6, <1>7 DEF IInv

(* A batch leaves the join set.                                            *)
LEMMA Leaves ==
  ASSUME IInv, NEW f \in Functions, Join(f)
  PROVE  /\ running' \subseteq Functions /\ f \notin running' /\ f \notin lost
         /\ \A g : g \in running' <=> g \in running /\ g # f
         /\ Cardinality(running') <= Workers
         /\ given' \in [Functions -> SUBSET Paths]
         /\ given'[f] = {} /\ \A g \in Functions : g # f => given'[g] = given[g]
         /\ states[f] = {}
<1>1. IsFiniteSet(running)
  <2>1. IsFiniteSet(Functions) BY DriverAssumption, FS_Interval DEF Functions
  <2> QED BY <2>1, FS_Subset DEF IInv, TypeOK
<1>2. f \in running /\ running' = running \ {f} BY DEF Join
<1>3. Cardinality(running') = Cardinality(running) - 1 /\ IsFiniteSet(running')
  BY <1>1, <1>2, FS_RemoveElement
<1>4. Cardinality(running) \in Nat /\ Cardinality(running') \in Nat
  BY <1>1, <1>3, FS_CardinalityType
<1>5. Cardinality(running') <= Workers
  BY <1>3, <1>4, DriverAssumption DEF IInv, LeasesMatchTasks
<1>6. f \notin lost BY <1>2 DEF IInv, LeasesMatchTasks
<1>7. states[f] = {} BY <1>2 DEF IInv, Saved
<1>8. /\ given' \in [Functions -> SUBSET Paths]
      /\ given'[f] = {} /\ \A g \in Functions : g # f => given'[g] = given[g]
  BY DEF Join, IInv, TypeOK
<1>9. running' \subseteq Functions BY <1>2 DEF IInv, TypeOK
<1> QED BY <1>2, <1>5, <1>6, <1>7, <1>8, <1>9

(* What a release does to the leases.                                      *)
LEMMA Released ==
  ASSUME IInv, NEW f \in Functions, Join(f), Scheduler!Release(f), UNCHANGED lost
  PROVE  /\ lease' \in [Functions -> Scheduler!Status]
         /\ lease'[f] \in {"idle", "waiting"}
         /\ \A g \in Functions : g # f => lease'[g] = lease[g]
         /\ LeasesMatchTasks'
<1>1. PICK next \in {"idle", "waiting"} : lease' = [lease EXCEPT ![f] = next]
  BY DEF Scheduler!Release
<1>2. /\ lease' \in [Functions -> Scheduler!Status]
      /\ lease'[f] = next
      /\ \A g \in Functions : g # f => lease'[g] = lease[g]
  BY <1>1 DEF IInv, TypeOK, Scheduler!Status
<1>3. \A g \in Functions : lease'[g] = "leased" <=> g \in running' \cup lost'
  BY <1>2, Leaves DEF IInv, LeasesMatchTasks
<1>4. running' \cap lost' = {} BY Leaves DEF IInv, LeasesMatchTasks
<1> QED BY <1>2, <1>3, <1>4, Leaves DEF LeasesMatchTasks

(* The flags after a joined batch.                                         *)
LEMMA StopFlag ==
  ASSUME IInv, CheckStop, executed' \in Nat
  PROVE  stop' \in BOOLEAN
  BY DriverAssumption DEF CheckStop, IInv, TypeOK

LEMMA JoinOkStep ==
  ASSUME IInv, NEW f \in Functions, NEW seen \in SUBSET Paths, NEW late \in BOOLEAN,
         NEW used \in Cardinality(seen) .. BatchCap(f), JoinOk(f, used, seen, late)
  PROVE  IInv'
<1> USE DriverAssumption DEF JoinOk
<1>0. used \in Nat /\ used <= left[f] /\ left[f] \in Nat /\ left[f] <= MaxIterations
  <2>1. IsFiniteSet(seen) BY FS_Subset
  <2>2. Cardinality(seen) \in Nat BY <2>1, FS_CardinalityType
  <2>3. left[f] \in 0 .. MaxIterations BY DEF IInv, TypeOK
  <2>4. used \in Nat /\ used <= BatchCap(f) BY <2>2, <2>3 DEF BatchCap
  <2> QED BY <2>3, <2>4 DEF BatchCap
<1>1. TypeOK'
  <2>1. left' \in [Functions -> 0 .. MaxIterations] BY <1>0 DEF IInv, TypeOK, Remaining
  <2>2. executed' \in Nat BY <1>0 DEF IInv, TypeOK
  <2>3. stop' \in BOOLEAN BY <2>2, StopFlag
  <2>4. states' \in [Functions -> SUBSET Paths] BY DEF IInv, TypeOK
  <2>5. sidecar' \in [Functions -> State]
    <3>1. [paths |-> given[f] \cup seen, version |-> version[f]] \in State
      BY DEF IInv, TypeOK, State
    <3> QED BY <3>1 DEF IInv, TypeOK, Write
  <2>6. acc' \in [Functions -> [merged : BOOLEAN, ok : BOOLEAN, timed_out : BOOLEAN,
                                paths : SUBSET Paths]]
    BY DEF IInv, TypeOK
  <2>7. running' \subseteq Functions /\ given' \in [Functions -> SUBSET Paths]
        /\ lease' \in [Functions -> Scheduler!Status]
    BY Leaves, Released
  <2> QED BY <2>1, <2>2, <2>3, <2>4, <2>5, <2>6, <2>7 DEF IInv, TypeOK
<1>2. PhasesOK' BY DEF Join, IInv, PhasesOK
<1>3. LeasesMatchTasks' BY Released
<1>4. Saved'
  <2>1. /\ states'[f] = given[f] \cup seen
        /\ \A g \in Functions : g # f => states'[g] = states[g]
    BY DEF IInv, TypeOK
  <2>2. \A g \in running' : states'[g] = {} BY <2>1, Leaves DEF IInv, Saved
  <2>3. ASSUME "sidecar" \notin mishaps, NEW g \in Functions
        PROVE  LET known == IF g \in running' THEN given'[g] ELSE states'[g] IN
               known # {} => sidecar'[g] = [paths |-> known, version |-> version'[g]]
    <3>1. sidecar' = [sidecar EXCEPT ![f] = [paths |-> given[f] \cup seen, version |-> version[f]]]
      BY <2>3 DEF Write
    <3>2. CASE g = f BY <2>1, <3>1, <3>2, Leaves DEF IInv, TypeOK
    <3>3. CASE g # f
      <4>1. sidecar'[g] = sidecar[g] BY <3>1, <3>3 DEF IInv, TypeOK
      <4>2. pc = "loop" BY DEF Join
      <4> QED BY <2>1, <2>3, <3>3, <4>1, <4>2, Leaves DEF IInv, Saved
    <3> QED BY <3>2, <3>3
  <2> QED BY <2>2, <2>3 DEF Saved, mishaps
<1>5. VersionsKnown' BY DEF IInv, VersionsKnown
<1>6. Vouched' BY DEF IInv, Vouched, mishaps
<1>7. OnItsWay'
  <2>1. pc = "loop" /\ pc' = pc BY DEF Join
  <2>2. acc'[f].merged /\ \A g \in Functions : g # f => acc'[g] = acc[g] BY DEF IInv, TypeOK
  <2> QED BY <2>1, <2>2, Released DEF IInv, OnItsWay, Targets
<1> QED BY <1>1, <1>2, <1>3, <1>4, <1>5, <1>6, <1>7 DEF IInv

LEMMA JoinErrStep == ASSUME IInv, NEW f \in Functions, JoinErr(f) PROVE IInv'
<1> USE DriverAssumption DEF JoinErr, disk
<1>1. TypeOK'
  <2>1. stop' \in BOOLEAN BY StopFlag DEF IInv, TypeOK
  <2>2. running' \subseteq Functions /\ given' \in [Functions -> SUBSET Paths]
        /\ lease' \in [Functions -> Scheduler!Status]
    BY Leaves, Released
  <2>3. acc' \in [Functions -> [merged : BOOLEAN, ok : BOOLEAN, timed_out : BOOLEAN,
                                paths : SUBSET Paths]]
    BY DEF IInv, TypeOK
  <2> QED BY <2>1, <2>2, <2>3 DEF IInv, TypeOK
<1>2. PhasesOK' BY DEF Join, IInv, PhasesOK
<1>3. LeasesMatchTasks' BY Released
<1>4. Saved' BY Leaves DEF Join, IInv, Saved, mishaps
<1>5. VersionsKnown' BY DEF IInv, VersionsKnown
<1>6. Vouched' BY DEF IInv, Vouched, mishaps
<1>7. OnItsWay'
  <2>1. pc = "loop" /\ pc' = pc BY DEF Join
  <2>2. acc'[f].merged /\ \A g \in Functions : g # f => acc'[g] = acc[g] BY DEF IInv, TypeOK
  <2> QED BY <2>1, <2>2, Released DEF IInv, OnItsWay, Targets
<1> QED BY <1>1, <1>2, <1>3, <1>4, <1>5, <1>6, <1>7 DEF IInv

(* The lease of a panicked task stays: the function is lost.               *)
LEMMA JoinPanicStep == ASSUME IInv, NEW f \in Functions, JoinPanic(f) PROVE IInv'
<1> USE DEF JoinPanic, disk
<1>1. TypeOK' BY Leaves DEF IInv, TypeOK
<1>2. PhasesOK' BY DEF Join, IInv, PhasesOK
<1>3. LeasesMatchTasks'
  <2>1. f \in running BY DEF Join
  <2> QED BY <2>1, Leaves DEF IInv, LeasesMatchTasks
<1>4. Saved' BY Leaves DEF Join, IInv, Saved, mishaps
<1>5. VersionsKnown' BY DEF IInv, VersionsKnown
<1>6. Vouched' BY DEF IInv, Vouched, mishaps
<1>7. OnItsWay' BY DEF Join, IInv, OnItsWay, Targets
<1> QED BY <1>1, <1>2, <1>3, <1>4, <1>5, <1>6, <1>7 DEF IInv

(* The loop ends with no batch in flight.  There were free slots, so what  *)
(* still waits does so because of a stop flag.                             *)
LEMMA EndLoopStep == ASSUME IInv, EndLoop PROVE IInv'
<1> USE DEF EndLoop, disk
<1>1. TypeOK' BY FreshTypes DEF IInv, TypeOK
<1>2. PhasesOK' BY DEF IInv, PhasesOK
<1>3. LeasesMatchTasks' BY DEF IInv, LeasesMatchTasks
<1>4. Saved' BY DEF IInv, Saved, mishaps
<1>5. VersionsKnown' BY DEF IInv, VersionsKnown
<1>6. Vouched' BY DEF IInv, Vouched, mishaps
<1>7. OnItsWay'
  <2>1. Cardinality(running) < Workers BY FS_EmptySet, DriverAssumption
  <2>2. stop \/ \A f \in Functions : lease[f] # "waiting" BY <2>1 DEF LaunchOver, Slots
  <2>3. ASSUME NEW f \in Functions, ~acc[f].merged PROVE Excused(f)
    <3>1. f \in Targets => lease[f] \in {"waiting", "leased"} BY <2>3 DEF IInv, OnItsWay
    <3>2. lease[f] = "leased" => f \in lost BY DEF IInv, LeasesMatchTasks
    <3> QED BY <2>2, <3>1, <3>2 DEF Excused
  <2>4. at = 1 BY DEF IInv, PhasesOK
  <2>5. \A f \in Functions : ~(f < at) BY <2>4, DriverAssumption DEF Functions
  <2>6. \A f \in Functions : Excused(f)' = Excused(f) BY DEF Excused, Targets
  <2> QED BY <2>3, <2>5, <2>6 DEF OnItsWay
<1> QED BY <1>1, <1>2, <1>3, <1>4, <1>5, <1>6, <1>7 DEF IInv

LEMMA FlushNothingStep == ASSUME IInv, FlushNothing PROVE IInv'
<1> USE DEF FlushNothing, disk
<1>1. TypeOK' BY DriverAssumption DEF IInv, TypeOK, Functions
<1>2. PhasesOK' BY DEF IInv, PhasesOK
<1>3. LeasesMatchTasks' BY DEF IInv, LeasesMatchTasks
<1>4. Saved' BY DEF IInv, Saved, mishaps
<1>5. VersionsKnown' BY DEF IInv, VersionsKnown
<1>6. Vouched' BY DEF IInv, Vouched, mishaps
<1>7. OnItsWay'
  <2>1. \A f \in Functions : f < at' => f < at \/ f = at BY DriverAssumption DEF Functions
  <2>2. \A f \in Functions : Excused(f)' = Excused(f) BY DEF Excused, Targets
  <2> QED BY <2>1, <2>2 DEF IInv, OnItsWay
<1> QED BY <1>1, <1>2, <1>3, <1>4, <1>5, <1>6, <1>7 DEF IInv

(* The entry is made along with the artifact it vouches for.               *)
LEMMA FlushArtifactStep == ASSUME IInv, FlushArtifact PROVE IInv'
<1>0. /\ pc = "flush" /\ at \in Functions /\ acc[at].merged /\ pc' = "clean"
      /\ acc' = [acc EXCEPT ![at] = NewAcc]
      /\ UNCHANGED <<history, version, edits, runs, summary, sidecar, at, lease, left, running,
                     lost, given, states, resumed, executed, stop>>
  BY DEF FlushArtifact
<1>a. PICK stored \in BOOLEAN :
        /\ artifact' = IF ~stored THEN artifact
                       ELSE [artifact EXCEPT ![at] =
                               [paths |-> acc[at].paths, ok |-> acc[at].ok, version |-> version[at]]]
        /\ entries' = [entries EXCEPT ![at] =
                         [status |-> Status(at), version |-> version[at], stored |-> stored]]
  BY DEF FlushArtifact
<1>b. Status(at) \in {"completed", "failed"} BY DEF Status
<1>c. /\ entries'[at] = [status |-> Status(at), version |-> version[at], stored |-> stored]
      /\ \A f \in Functions : f # at => entries'[f] = entries[f] /\ acc'[f] = acc[f]
      /\ acc'[at] = NewAcc
  BY <1>0, <1>a DEF IInv, TypeOK
<1>1. TypeOK'
  <2>1. [paths |-> acc[at].paths, ok |-> acc[at].ok, version |-> version[at]]
          \in [paths : SUBSET Paths, ok : BOOLEAN, version : Versions]
    BY <1>0 DEF IInv, TypeOK
  <2>2. artifact' \in [Functions -> [paths : SUBSET Paths, ok : BOOLEAN, version : Versions]]
    BY <1>a, <2>1 DEF IInv, TypeOK
  <2>3. [status |-> Status(at), version |-> version[at], stored |-> stored] \in Entry
    BY <1>0, <1>b DEF IInv, TypeOK, Entry
  <2>4. entries' \in [Functions -> Entry] BY <1>a, <2>3 DEF IInv, TypeOK
  <2>5. acc' \in [Functions -> [merged : BOOLEAN, ok : BOOLEAN, timed_out : BOOLEAN,
                                paths : SUBSET Paths]]
    BY <1>0, FreshTypes DEF IInv, TypeOK
  <2> QED BY <1>0, <2>2, <2>4, <2>5 DEF IInv, TypeOK
<1>2. PhasesOK' BY <1>0 DEF IInv, PhasesOK
<1>3. LeasesMatchTasks' BY <1>0 DEF IInv, LeasesMatchTasks
<1>4. Saved' BY <1>0 DEF IInv, Saved, mishaps
<1>5. VersionsKnown' BY <1>0, <1>c DEF IInv, VersionsKnown
<1>6. Vouched'
  <2>1. /\ stored => artifact'[at].version = version[at]
        /\ ~stored => artifact' = artifact
        /\ \A f \in Functions : f # at => artifact'[f] = artifact[f]
    BY <1>0, <1>a DEF IInv, TypeOK
  <2>2. entries'[at].stored = stored BY <1>c
  <2> QED BY <1>0, <1>c, <2>1, <2>2 DEF IInv, Vouched, mishaps
<1>7. OnItsWay'
  <2>1. entries'[at].status # "none" BY <1>b, <1>c
  <2>2. ~acc'[at].merged BY <1>c DEF NewAcc
  <2>3. \A f \in Functions : Excused(f)' = Excused(f) BY <1>0 DEF Excused, Targets
  <2> QED BY <1>0, <1>c, <2>1, <2>2, <2>3 DEF IInv, OnItsWay
<1> QED BY <1>1, <1>2, <1>3, <1>4, <1>5, <1>6, <1>7 DEF IInv

LEMMA FlushSidecarStep == ASSUME IInv, FlushSidecar PROVE IInv'
<1> USE DEF FlushSidecar
<1>0. at \in Functions BY DEF IInv, PhasesOK
<1>1. TypeOK'
  <2>1. at' \in 1 .. FunctionCount + 1 BY <1>0, DriverAssumption DEF Functions
  <2>2. sidecar' \in [Functions -> State] BY <1>0, FreshTypes DEF IInv, TypeOK
  <2> QED BY <2>1, <2>2 DEF IInv, TypeOK
<1>2. PhasesOK' BY DEF IInv, PhasesOK
<1>3. LeasesMatchTasks' BY DEF IInv, LeasesMatchTasks
<1>4. Saved' BY DEF IInv, Saved, mishaps
<1>5. VersionsKnown' BY DEF IInv, VersionsKnown
<1>6. Vouched' BY DEF IInv, Vouched, mishaps
<1>7. OnItsWay'
  <2>1. \A f \in Functions : f < at' => f < at \/ f = at
    BY <1>0, DriverAssumption DEF Functions
  <2>2. \A f \in Functions : Excused(f)' = Excused(f) BY DEF Excused, Targets
  <2> QED BY <2>1, <2>2 DEF IInv, OnItsWay
<1> QED BY <1>1, <1>2, <1>3, <1>4, <1>5, <1>6, <1>7 DEF IInv

LEMMA StutterStep == ASSUME IInv, UNCHANGED vars PROVE IInv'
<1> USE DEF vars, disk, memory
<1>1. TypeOK' BY DEF IInv, TypeOK
<1>2. PhasesOK' BY DEF IInv, PhasesOK
<1>3. LeasesMatchTasks' BY DEF IInv, LeasesMatchTasks
<1>4. Saved' BY DEF IInv, Saved, mishaps
<1>5. VersionsKnown' BY DEF IInv, VersionsKnown
<1>6. Vouched' BY DEF IInv, Vouched, mishaps
<1>7. OnItsWay' BY DEF IInv, OnItsWay, Excused, Targets
<1> QED BY <1>1, <1>2, <1>3, <1>4, <1>5, <1>6, <1>7 DEF IInv

LEMMA NextIInv == IInv /\ [Next]_vars => IInv'
<1> SUFFICES ASSUME IInv, [Next]_vars PROVE IInv' OBVIOUS
<1>1. CASE Prepare BY <1>1, PrepareStep
<1>2. CASE InitialSummary BY <1>2, InitialSummaryStep
<1>3. CASE StopLaunching BY <1>3, StopStep
<1>4. CASE EndLoop BY <1>4, EndLoopStep
<1>5. CASE FlushNothing BY <1>5, FlushNothingStep
<1>6. CASE FlushArtifact BY <1>6, FlushArtifactStep
<1>7. CASE FlushSidecar BY <1>7, FlushSidecarStep
<1>8. CASE Crash \/ FinalSummary BY <1>8, EndStep
<1>9. ASSUME NEW f \in Functions, Launch(f) PROVE IInv' BY <1>9, LaunchStep
<1>10. ASSUME NEW f \in Functions, JoinAny(f) PROVE IInv'
  BY <1>10, JoinOkStep, JoinErrStep, JoinPanicStep DEF JoinAny
<1>11. ASSUME NEW f \in Functions, Edit(f) PROVE IInv' BY <1>11, EditStep
<1>12. CASE Rest BY <1>12, StutterStep DEF Rest
<1>13. CASE UNCHANGED vars BY <1>13, StutterStep
<1> QED
  BY <1>1, <1>2, <1>3, <1>4, <1>5, <1>6, <1>7, <1>8, <1>9, <1>10, <1>11, <1>12, <1>13
  DEF Next, Driver

LEMMA Inductive == Spec => []IInv
  BY InitIInv, NextIInv, PTL DEF Spec

-----------------------------------------------------------------------------
(* Every reachable state of the driver is well-typed: no batch is charged  *)
(* for more iterations than its function had left.                         *)
THEOREM TypeCorrect == Spec => []TypeOK
<1>1. IInv => TypeOK BY DEF IInv
<1> QED BY <1>1, Inductive, PTL

(* The scheduler's leases are the batches in flight and those of panicked  *)
(* tasks, and never more run than there are workers.                       *)
THEOREM LeasesAreTasks == Spec => []LeasesMatchTasks
<1>1. IInv => LeasesMatchTasks BY DEF IInv
<1> QED BY <1>1, Inductive, PTL

(* While functions are explored, what their finished batches covered is in *)
(* the sidecars: of that coverage a kill loses the batches in flight only. *)
THEOREM ProgressIsSaved == Spec => []ProgressOnDisk
<1>1. IInv => ProgressOnDisk BY DEF IInv, Saved, ProgressOnDisk
<1> QED BY <1>1, Inductive, PTL

(* validate_resume compares the summary's entry and takes the artifact on  *)
(* trust; the order of the writes makes that sound, whatever is killed or  *)
(* fails between them, as long as the summary can be written or no source  *)
(* and no option goes back to what it was.                                 *)
THEOREM ResumeIsCurrent == Spec => ResumedIsCurrent
<1>1. ASSUME IInv, [Next]_vars, ~({"summary", "revert"} \subseteq mishaps),
             NEW f \in resumed' \ resumed
      PROVE  artifact[f].version = version[f]
  <2>1. CASE Prepare BY <1>1, <2>1 DEF Prepare, Resumable, IInv, Vouched
  <2>2. CASE ~Prepare
    <3>1. resumed' = resumed \/ resumed' = {}
      BY <1>1, <2>2
      DEF Next, Driver, InitialSummary, EndLoop, FlushNothing, FlushArtifact, FlushSidecar,
          FinalSummary, Launch, JoinAny, JoinOk, JoinErr, JoinPanic, StopLaunching, Crash, Rest,
          Edit, ProcessGone, vars, memory
    <3> QED BY <1>1, <3>1
  <2> QED BY <2>1, <2>2
<1>2. IInv /\ [Next]_vars =>
        [~({"summary", "revert"} \subseteq mishaps) =>
           \A f \in resumed' \ resumed : artifact[f].version = version[f]]_vars
  BY <1>1
<1> QED BY <1>2, Inductive, PTL DEF Spec, ResumedIsCurrent

(* A run that ends has an entry for every function that was not excused:   *)
(* nothing to explore, a panic, or waiting when a stop flag was reached.   *)
THEOREM RunsAreAccounted == Spec => RunAccounted
<1>1. ASSUME IInv, FinalSummary, NEW f \in Functions, entries[f].status = "none"
      PROVE  f \notin Targets \/ f \in lost \/ (stop /\ lease[f] = "waiting")
  <2>1. f < at BY <1>1, DriverAssumption DEF FinalSummary, Functions
  <2>2. ~acc[f].merged BY <1>1, <2>1 DEF FinalSummary, IInv, OnItsWay
  <2>3. Excused(f) BY <1>1, <2>2 DEF FinalSummary, IInv, OnItsWay
  <2> QED BY <2>3 DEF Excused
<1>2. IInv /\ [Next]_vars =>
        [FinalSummary =>
           \A f \in Functions :
             entries[f].status = "none" =>
               f \notin Targets \/ f \in lost \/ (stop /\ lease[f] = "waiting")]_vars
  BY <1>1
<1> QED BY <1>2, Inductive, PTL DEF Spec, RunAccounted
=============================================================================
