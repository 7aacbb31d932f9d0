--------------------------- MODULE ExploreDriver ---------------------------
(***************************************************************************)
(* The explore command (shatter-cli/src/commands/explore.rs) for one file: *)
(* it resumes what earlier runs left on disk, drains the batch scheduler   *)
(* with a set of concurrent batch tasks, merges their results, and writes  *)
(* artifacts and the summary at the end.  A run may be killed between any  *)
(* two writes, and a write may fail, which the code only logs.             *)
(*                                                                         *)
(* The scheduler is used through LeaseProtocol, the specification that     *)
(* BatchScheduler implements, with the budgets kept in `left`.  An         *)
(* execution path is a model value; an observation is the paths it shows.  *)
(* The fingerprint of a function and its result-affecting options are its  *)
(* version.  The exploration is concolic: only then is there a resume      *)
(* state.  A resume state without covered paths is as good as none.        *)
(***************************************************************************)
EXTENDS Naturals, FiniteSets

CONSTANTS
  FunctionCount,   \* work items, in work_index order
  Paths,           \* execution paths of a function
  Workers,         \* --workers
  BatchSize,       \* EXPLORE_BATCH_ITERATIONS
  MaxIterations,   \* explore_config.max_iterations
  MaxExecutions,   \* --max-executions
  StopFlags,       \* --time-limit or --coverage-threshold is given
  Histories        \* the histories of runs and changes considered, see below

Functions == 1 .. FunctionCount

(* The files whose write may fail, and "revert": a change may bring back   *)
(* an earlier source or earlier options.                                   *)
Mishaps == {"summary", "artifact", "sidecar", "revert"}

(* What may go wrong in a history, which functions have known branch       *)
(* targets, and, as bounds, how often the command is run and how often a   *)
(* source or the options change.                                           *)
History ==
  [mishaps : SUBSET Mishaps, targets : SUBSET Functions, runs : Nat, edits : Nat]

ASSUME DriverAssumption ==
  /\ FunctionCount \in Nat
  /\ IsFiniteSet(Paths)
  /\ Workers \in Nat \ {0} /\ BatchSize \in Nat \ {0}
  /\ MaxIterations \in Nat \ {0} /\ MaxExecutions \in Nat \ {0}
  /\ StopFlags \in BOOLEAN
  /\ Histories \subseteq History

VARIABLES
  history,     \* the history this is
  version,     \* function -> fingerprint and options of today
  edits, runs,
  summary,     \* disk: summary.json, function -> entry
  artifact,    \* disk: function -> observation, and the version explored
  sidecar,     \* disk: function -> covered paths, and the version explored
  pc,          \* where the run is, "idle" when there is none
  at,          \* the function being flushed
  lease,       \* the scheduler's view of each function (LeaseProtocol)
  left,        \* iterations the scheduler may still lease
  running,     \* functions with a batch in the join set
  lost,        \* functions whose batch task panicked
  given,       \* resume state the running batch was started with
  states,      \* explore_states
  resumed,     \* functions taken from an earlier run
  acc,         \* accumulators
  executed,    \* total_executions_count
  stop,        \* stop_early
  entries      \* explore_summary.functions, built at the end

disk == <<summary, artifact, sidecar>>
memory == <<pc, at, lease, left, running, lost, given, states, resumed, acc, executed, stop,
            entries>>
vars == <<history, version, edits, runs, disk, memory>>

Scheduler == INSTANCE LeaseProtocol WITH Tasks <- Functions, status <- lease

mishaps == history.mishaps
Targets == history.targets

Versions == Nat
NoEntry == [status |-> "none", version |-> 0, stored |-> FALSE]
NoResult == [paths |-> {}, ok |-> FALSE, version |-> 0]
NoState == [paths |-> {}, version |-> 0]
NewAcc == [merged |-> FALSE, ok |-> FALSE, timed_out |-> FALSE, paths |-> {}]

Entry == [status : {"none", "completed", "failed"}, version : Versions, stored : BOOLEAN]
State == [paths : SUBSET Paths, version : Versions]

TypeOK ==
  /\ history \in Histories
  /\ version \in [Functions -> Versions]
  /\ edits \in Nat /\ runs \in Nat
  /\ summary \in [Functions -> Entry] /\ entries \in [Functions -> Entry]
  /\ artifact \in [Functions -> [paths : SUBSET Paths, ok : BOOLEAN, version : Versions]]
  /\ sidecar \in [Functions -> State]
  /\ pc \in {"idle", "prepared", "loop", "flush", "clean"}
  /\ at \in 1 .. FunctionCount + 1
  /\ lease \in [Functions -> Scheduler!Status]
  /\ left \in [Functions -> 0 .. MaxIterations]
  /\ running \subseteq Functions /\ lost \subseteq Functions /\ resumed \subseteq Functions
  /\ given \in [Functions -> SUBSET Paths] /\ states \in [Functions -> SUBSET Paths]
  /\ acc \in [Functions -> [merged : BOOLEAN, ok : BOOLEAN, timed_out : BOOLEAN,
                            paths : SUBSET Paths]]
  /\ executed \in Nat
  /\ stop \in BOOLEAN

Init ==
  /\ history \in Histories
  /\ version = [f \in Functions |-> 0]
  /\ edits = 0 /\ runs = 0
  /\ summary = [f \in Functions |-> NoEntry]
  /\ artifact = [f \in Functions |-> NoResult]
  /\ sidecar = [f \in Functions |-> NoState]
  /\ pc = "idle" /\ at = 1
  /\ lease = [f \in Functions |-> "idle"]
  /\ left = [f \in Functions |-> 0]
  /\ running = {} /\ lost = {} /\ resumed = {}
  /\ given = [f \in Functions |-> {}] /\ states = [f \in Functions |-> {}]
  /\ acc = [f \in Functions |-> NewAcc]
  /\ executed = 0 /\ stop = FALSE
  /\ entries = [f \in Functions |-> NoEntry]

(* The process is gone, and what it had in memory with it.                 *)
ProcessGone ==
  /\ pc' = "idle" /\ at' = 1
  /\ lease' = [f \in Functions |-> "idle"]
  /\ left' = [f \in Functions |-> 0]
  /\ running' = {} /\ lost' = {} /\ resumed' = {}
  /\ given' = [f \in Functions |-> {}] /\ states' = [f \in Functions |-> {}]
  /\ acc' = [f \in Functions |-> NewAcc]
  /\ executed' = 0 /\ stop' = FALSE
  /\ entries' = [f \in Functions |-> NoEntry]

(* write_artifact_json: a temp file and a rename, so all or nothing.       *)
Write(file, old, new, next) == next = new \/ (file \in mishaps /\ next = old)

-----------------------------------------------------------------------------
(* Preparation.                                                            *)

(* Slip: the entry's fingerprint and options are not compared.             *)
ResumableUnchecked(f) ==
  summary[f].status = "completed" /\ summary[f].stored /\ artifact[f].ok

(* try_resume_function with validate_resume: the entry is compared, the    *)
(* artifact it names only has to hold an observation.                      *)
Resumable(f) ==
  /\ summary[f].status = "completed"
  /\ summary[f].version = version[f]
  /\ summary[f].stored
  /\ artifact[f].ok

(* read_resume_state.                                                      *)
Partial(f) ==
  IF sidecar[f].version = version[f] THEN sidecar[f].paths ELSE {}

(* The work items of the file: resumed whole, or enqueued, from a partial  *)
(* state if there is one, unless there is no branch to explore.            *)
Prepare ==
  /\ pc = "idle" /\ runs < history.runs
  /\ runs' = runs + 1
  /\ pc' = "prepared"
  /\ resumed' = {f \in Functions : Resumable(f)}
  /\ acc' = [f \in Functions |->
               IF Resumable(f)
               THEN [merged |-> TRUE, ok |-> TRUE, timed_out |-> FALSE,
                     paths |-> artifact[f].paths]
               ELSE NewAcc]
  /\ states' = [f \in Functions |-> IF Resumable(f) THEN {} ELSE Partial(f)]
  /\ lease' = [f \in Functions |->
                 IF f \in Targets /\ ~Resumable(f) THEN "waiting" ELSE "idle"]
  /\ left' = [f \in Functions |->
                IF f \in Targets /\ ~Resumable(f) THEN MaxIterations ELSE 0]
  /\ UNCHANGED <<history, version, edits, disk, at, running, lost, given, executed, stop,
                 entries>>

(* "Initialize explore summary for crash-recovery": it replaces the        *)
(* summary of the earlier run, entries and all.                            *)
InitialSummary ==
  /\ pc = "prepared"
  /\ Write("summary", summary, [f \in Functions |-> NoEntry], summary')
  /\ pc' = "loop"
  /\ UNCHANGED <<history, version, edits, runs, artifact, sidecar, at, lease, left, running,
                 lost, given, states, resumed, acc, executed, stop, entries>>

-----------------------------------------------------------------------------
(* The batch loop.                                                         *)

Slots == Cardinality(running) < Workers

(* next_batch leases a function (which one is the scheduler's business);   *)
(* the task takes the function's resume state along.                       *)
Launch(f) ==
  /\ pc = "loop" /\ ~stop /\ Slots
  /\ Scheduler!Lease(f, {})
  /\ running' = running \cup {f}
  /\ given' = [given EXCEPT ![f] = states[f]]
  /\ states' = [states EXCEPT ![f] = {}]
  /\ UNCHANGED <<history, version, edits, runs, disk, pc, at, left, lost, resumed, acc,
                 executed, stop, entries>>

(* The time limit is also looked at before a batch is launched.            *)
StopLaunching ==
  /\ pc = "loop" /\ ~stop /\ Slots /\ StopFlags
  /\ stop' = TRUE
  /\ UNCHANGED <<history, version, edits, runs, disk, pc, at, lease, left, running, lost,
                 given, states, resumed, acc, executed, entries>>

(* Slip: the launch loop waits for the functions that are leased.          *)
LaunchOverWaits == stop \/ ~Slots \/ \A f \in Functions : lease[f] = "idle"

(* next_batch has nothing to lease, although functions may be leased.      *)
LaunchOver == stop \/ ~Slots \/ \A f \in Functions : lease[f] # "waiting"

Join(f) ==
  /\ pc = "loop" /\ LaunchOver /\ f \in running
  /\ running' = running \ {f}
  /\ given' = [given EXCEPT ![f] = {}]

BatchCap(f) == IF left[f] < BatchSize THEN left[f] ELSE BatchSize

(* record_outcome.                                                         *)
Remaining(f, used) == left[f] - used

(* The flags checked after every joined batch: time and coverage, which    *)
(* may be reached at any moment, and the number of executions.             *)
CheckStop ==
  stop' \in {stop \/ executed' >= MaxExecutions} \cup (IF StopFlags THEN {TRUE} ELSE {})

(* Slip: the resume state goes to the next batch but not to disk.          *)
JoinOkUnsaved(f, used, seen, late) ==
  /\ Join(f)
  /\ states' = [states EXCEPT ![f] = given[f] \cup seen]
  /\ left' = [left EXCEPT ![f] = Remaining(f, used)]
  /\ Scheduler!Release(f)
  /\ lease'[f] = IF used < BatchCap(f) \/ left[f] = used THEN "idle" ELSE "waiting"
  /\ executed' = executed + used
  /\ acc' = [acc EXCEPT ![f] = [merged |-> TRUE, ok |-> TRUE, timed_out |-> late,
                                paths |-> @.paths \cup seen]]
  /\ CheckStop
  /\ UNCHANGED <<history, version, edits, runs, disk, pc, at, lost, resumed, entries>>

(* A batch returned: its resume state is saved, its iterations are         *)
(* deducted, the function is released (exhausted if it used fewer than the *)
(* batch allowed) and the observation merged.  A batch may run again on    *)
(* paths that its resume state already has.                                *)
JoinOk(f, used, seen, late) ==
  /\ Join(f)
  /\ states' = [states EXCEPT ![f] = given[f] \cup seen]
  /\ Write("sidecar", sidecar,
           [sidecar EXCEPT ![f] = [paths |-> given[f] \cup seen, version |-> version[f]]],
           sidecar')
  /\ left' = [left EXCEPT ![f] = Remaining(f, used)]
  /\ Scheduler!Release(f)
  /\ lease'[f] = IF used < BatchCap(f) \/ left[f] = used THEN "idle" ELSE "waiting"
  /\ executed' = executed + used
  /\ acc' = [acc EXCEPT ![f] = [merged |-> TRUE, ok |-> TRUE, timed_out |-> late,
                                paths |-> @.paths \cup seen]]
  /\ CheckStop
  /\ UNCHANGED <<history, version, edits, runs, summary, artifact, pc, at, lost, resumed,
                 entries>>

(* Slip: record_outcome is only called for a batch that succeeded.         *)
JoinErrUnreleased(f) ==
  /\ Join(f)
  /\ acc' = [acc EXCEPT ![f].merged = TRUE]
  /\ UNCHANGED executed
  /\ CheckStop
  /\ UNCHANGED <<history, version, edits, runs, disk, pc, at, lease, left, lost, states, resumed,
                 entries>>

(* A batch that failed, to spawn its frontend or to explore: it counts as  *)
(* exhausted and leaves no resume state in memory.                         *)
JoinErr(f) ==
  /\ Join(f)
  /\ Scheduler!Release(f) /\ lease'[f] = "idle"
  /\ acc' = [acc EXCEPT ![f].merged = TRUE]
  /\ UNCHANGED executed
  /\ CheckStop
  /\ UNCHANGED <<history, version, edits, runs, disk, pc, at, left, lost, states, resumed,
                 entries>>

(* A task that panicked: only logged, the scheduler never hears of it.     *)
JoinPanic(f) ==
  /\ Join(f)
  /\ lost' = lost \cup {f}
  /\ UNCHANGED <<history, version, edits, runs, disk, pc, at, lease, left, states, resumed,
                 acc, executed, stop, entries>>

(* Slip: the loop ends at the stop flag, with batches in flight.           *)
EndLoopAtStop ==
  /\ pc = "loop" /\ LaunchOver /\ (running = {} \/ stop)
  /\ pc' = "flush"
  /\ left' = [f \in Functions |-> 0] /\ states' = [f \in Functions |-> {}]
  /\ executed' = 0
  /\ UNCHANGED <<history, version, edits, runs, disk, at, lease, running, lost, given,
                 resumed, acc, stop, entries>>

(* Also after a stop flag: batches in flight are waited for.  The budgets, *)
(* the resume states and the count are not looked at again.                *)
EndLoop ==
  /\ pc = "loop" /\ LaunchOver /\ running = {}
  /\ pc' = "flush"
  /\ left' = [f \in Functions |-> 0] /\ states' = [f \in Functions |-> {}]
  /\ executed' = 0
  /\ UNCHANGED <<history, version, edits, runs, disk, at, lease, running, lost, given,
                 resumed, acc, stop, entries>>

-----------------------------------------------------------------------------
(* The end of a run.                                                       *)

(* Functions without a merged batch get no entry.                          *)
FlushNothing ==
  /\ pc = "flush" /\ at \in Functions /\ ~acc[at].merged
  /\ at' = at + 1
  /\ UNCHANGED <<history, version, edits, runs, disk, pc, lease, left, running, lost, given,
                 states, resumed, acc, executed, stop, entries>>

(* into_result and classify_outcome_status: one successful batch makes an  *)
(* observation, later failures notwithstanding; a timeout is a failure.    *)
Status(f) == IF acc[f].ok /\ ~acc[f].timed_out THEN "completed" ELSE "failed"

FlushArtifact ==
  /\ pc = "flush" /\ at \in Functions /\ acc[at].merged
  /\ \E stored \in BOOLEAN :
       /\ stored \/ "artifact" \in mishaps
       /\ artifact' = IF ~stored THEN artifact
                      ELSE [artifact EXCEPT ![at] =
                              [paths |-> acc[at].paths, ok |-> acc[at].ok, version |-> version[at]]]
       /\ entries' = [entries EXCEPT ![at] =
                        [status |-> Status(at), version |-> version[at], stored |-> stored]]
  /\ acc' = [acc EXCEPT ![at] = NewAcc]
  /\ pc' = "clean"
  /\ UNCHANGED <<history, version, edits, runs, summary, sidecar, at, lease, left, running,
                 lost, given, states, resumed, executed, stop>>

(* cleanup_resume_state.                                                   *)
FlushSidecar ==
  /\ pc = "clean"
  /\ sidecar' = [sidecar EXCEPT ![at] = NoState]
  /\ at' = at + 1
  /\ pc' = "flush"
  /\ UNCHANGED <<history, version, edits, runs, summary, artifact, lease, left, running, lost,
                 given, states, resumed, acc, executed, stop, entries>>

(* The finished summary (written twice, with the same entries).            *)
FinalSummary ==
  /\ pc = "flush" /\ at = FunctionCount + 1
  /\ Write("summary", summary, entries, summary')
  /\ ProcessGone
  /\ UNCHANGED <<history, version, edits, runs, artifact, sidecar>>

(* The process is killed, anywhere.                                        *)
Crash ==
  /\ pc # "idle"
  /\ ProcessGone
  /\ UNCHANGED <<history, version, edits, runs, disk>>

(* Between runs the source or the options change, perhaps back to what     *)
(* they were.                                                              *)
Edit(f) ==
  /\ pc = "idle" /\ edits < history.edits
  /\ edits' = edits + 1
  /\ \E v \in {edits + 1} \cup (IF "revert" \in mishaps THEN 0 .. edits ELSE {}) :
       version' = [version EXCEPT ![f] = v]
  /\ UNCHANGED <<history, runs, disk, memory>>

Rest == pc = "idle" /\ runs = history.runs /\ UNCHANGED vars

-----------------------------------------------------------------------------
JoinAny(f) ==
  \/ \E seen \in SUBSET Paths, late \in BOOLEAN :
       \E used \in Cardinality(seen) .. BatchCap(f) : JoinOk(f, used, seen, late)
  \/ JoinErr(f)
  \/ JoinPanic(f)

Driver ==
  \/ InitialSummary \/ EndLoop
  \/ FlushNothing \/ FlushArtifact \/ FlushSidecar \/ FinalSummary
  \/ \E f \in Functions : Launch(f) \/ JoinAny(f)

Next ==
  \/ Prepare \/ Driver \/ StopLaunching \/ Crash \/ Rest
  \/ \E f \in Functions : Edit(f)

(* A batch ends: exploration is bounded by its iteration cap and every     *)
(* request to a frontend by a timeout.  Nobody has to start a run, and no  *)
(* stop flag need ever be reached.                                         *)
Spec == Init /\ [][Next]_vars /\ WF_vars(Driver)

-----------------------------------------------------------------------------
(* The scheduler's leases are the batches in flight, but for the leases of *)
(* panicked tasks, which nobody gives back; nothing is leased twice.       *)
LeasesMatchTasks ==
  /\ \A f \in Functions : lease[f] = "leased" <=> f \in running \cup lost
  /\ running \cap lost = {}
  /\ Cardinality(running) <= Workers

(* What a finished batch has covered is on disk before the next one        *)
(* starts: of the coverage of the functions that are still being explored, *)
(* a crash loses that of the batches in flight only.                       *)
ProgressOnDisk ==
  "sidecar" \notin mishaps /\ pc = "loop" =>
    \A f \in Functions :
      LET known == IF f \in running THEN given[f] ELSE states[f] IN
      known # {} => sidecar[f] = [paths |-> known, version |-> version[f]]

(* A result taken over from an earlier run was explored under the          *)
(* function's present source and options, although the version is in the   *)
(* summary and the result in the artifact, and runs were killed and writes *)
(* failed between the two.  Unless writes of the summary fail and versions *)
(* come back: then the entry of one run may vouch for the artifact that a  *)
(* later one, under other options, has put in its place.                   *)
ResumedIsCurrent ==
  [][~({"summary", "revert"} \subseteq mishaps) =>
       \A f \in resumed' \ resumed : artifact[f].version = version[f]]_vars

(* A run that ends has an entry for every function, except those with      *)
(* nothing to explore, those whose first batch panicked and, after a stop  *)
(* flag, those that wait for a batch: never one whose batch was in flight. *)
RunAccounted ==
  [][FinalSummary =>
       \A f \in Functions :
         entries[f].status = "none" =>
           f \notin Targets \/ f \in lost \/ (stop /\ lease[f] = "waiting")]_vars

(* Every run comes to an end.                                              *)
RunEnds == pc = "loop" ~> pc = "idle"
=============================================================================
