# Shatter in TLA+

A verification project for Shatter, the exploratory testing tool of this
repository: TLA+ modules that model its scan and explore engines, TLC configurations that
check them on small instances, and theorems with TLAPS proofs that hold for
every value of the constants. Paths below are relative to the repository;
`SO` is `shatter-core/src/scan_orchestrator.rs`, `EX` is
`shatter-core/src/explorer.rs`, `XC` is `shatter-cli/src/commands/explore.rs`.

## 1. The system

A scan discovers functions, orders them into layers by their call graph
(callees first), and explores the functions of a layer by running them in
frontend subprocesses (TypeScript, Go, Rust) over a protocol of one JSON line
per request and response. What it observes becomes a behaviour map per
function, which is cached on disk, reused by later scans and served as a mock
to the callers in later layers. The `explore` command does the same for the
functions of one file, in batches handed out by a scheduler; it resumes from its
artifacts on disk and decides by fingerprints which functions are still up to
date. One function may be explored by a pool of observers.

### Inventory

| Component | State | Operations | Talks to | Hard about it |
|---|---|---|---|---|
| Batch scheduler, `batch_scheduler.rs` | rank-ordered queue, leases, deferred budgets, cooldowns, miss streaks | `next_batch`, `record_outcome`, `enqueue`, queries | `run_layer_batched`, `explore` command | work that arrives for a leased function; u32 saturation; penalties that outlive their function |
| Shared worker pool, `SO:2111-2445, 4760-5260` | channel of idle workers, `live_count`, `tasks_remaining`, a lease per task, warm-up gate, same-file semaphores, retry claim | checkout, return, reap, replace, grow, finish, recover, join with watchdog | frontends, layer loop | load-then-CAS on several threads, aborts at any await, whoever settles a lease, misaligned pipes |
| Function isolation, `SO:3273-3508` | semaphore, dedicated frontends, warm-up gate | spawn, run, shutdown, join with the total deadline | frontends, behaviour maps | aborts between any two awaits, early returns with resources in hand |
| Batched layer, `SO:2457-2936` | one frontend, batch scheduler, scheduler-state records | batch loop | scheduler, frontend, caches | respawn failure leaves the loop; library callers only |
| Frontend transport, `frontend.rs` | request ids, taint, pending drain, subprocess, two pipes | spawn, send, shutdown, drop | subprocess | late answers, noise on stdout, blocked writes, orphans |
| Checkpoint and resume, `SO:4143-5470`, `checkpoint.rs`, `cache.rs`, `fingerprint.rs` | map cache, sidecar rows, checkpoint file; maps and fingerprints in memory | reuse, explore, store, record, save | disk, call graph | crash between any two writes, failed writes and unlinks, edits and other selections between scans, mutual recursion, failed callees |
| Shared state files, `batch_state.rs`, `interesting_pool.rs`, `file_lock.rs` | JSON file, temp file, flock | load, save, best-effort save | other processes | concurrent processes, crash during a save |
| Observer pool, `EX:2250-2900` | bounded job channel, unbounded result channel, one frontend per worker, counters of the producer | generate, send, receive, execute, set up, tear down, join | frontends | in-flight count against failures at every await, budget against jobs not yet answered |
| Explore driver, `XC` | batch scheduler, tasks, merged results; sidecars, artifacts and the summary on disk | resume, launch, join, merge, save, finish | scheduler, pipeline, disk | kill between any two writes, panicking tasks, stop flags, sources and options that change, and change back, between runs |
| Call graph, `call_graph.rs` | graph, layers, cycle groups | `from_registry`, `topological_layers`, `cycle_groups` | layer loop, fingerprints | cycles |
| Incremental specifications, `spec.rs`, `fingerprint.rs` | spec bundle with fingerprints | plan, explore what is stale, merge, store | call graph, disk | a change below a caller, functions that move in the file, failures, partial runs |
| Budget allocation and surplus, `budget_alloc.rs` | shares, a lock-free surplus counter | allocate, donate, claim | explorations | rounding, floors and ceilings per function, lost exchanges |
| Concolic loop, `orchestrator.rs`, `frontier.rs`, `strategy.rs` | path frontier, stall counts | select, solve, execute, abandon | solver, frontend | termination, starvation of a path |
| Generation, solver, maps, reports, configuration, language frontends, CLI | see `PROJECT.json` | | | data rather than control |

`PROJECT.json` lists every component with its files and the reason where one is
not modelled, and, under `hazards`, each place in the code that a test would
hardly reach, with the properties that cover it.

### What makes each part correct

* Scheduler: a function is leased once, work granted meanwhile is not lost,
  penalties belong to live work, an exhausted frontier stays exhausted until
  there is news.
* Pool: never more workers than `--parallelism`, counters exact whoever
  settles a lease, no worker back in the channel that has failed a function with
  an earlier answer, files serial, warm-up alone, and every task joined however
  explorations hang.
* Function isolation: the cap counts subprocesses; outcomes agree with maps;
  nothing survives the layer.
* Transport: a response belongs to the request it is returned for, also when a
  call is given up half-way; every call ends; no orphan subprocess.
* Resume: a map in use was made from the present source, if the scan has checked
  it; what the checkpoint holds is not explored again; each function of a scan is
  reported.
* State files: always parse, nobody waits for the dead.
* Observer pool: the producer waits for exactly the results still to come, the
  budget is used and not overrun, the reported stop reason is the true one, no
  worker outlives a call, every call returns.
* Explore driver: leases are the batches in flight, a finished batch is on disk,
  what is resumed belongs to the present source and options, every function is
  accounted for, every run ends.
* Incremental specifications: what is skipped is current and what is current is
  skipped; no failure costs a specification. Layers are callees first and
  complete, cycle groups are the strongly connected components.
* Budgets: shares add up, respect the floor and every function's ceiling and
  follow the scores below the ceilings; the surplus neither invents nor loses
  counted executions.

## 2. Modules

| Module | Models | State and actions |
|---|---|---|
| `BatchScheduler` | `batch_scheduler.rs` | the five fields of the struct; one action per operation and per branch of `record_outcome` and `enqueue`. HashMaps are total functions with a value for an absent key. |
| `LeaseProtocol` | the promise of the scheduler: idle, waiting, leased, leased again | abstract specification that `BatchScheduler` implements (`LeaseRefinement`) |
| `SharedPool` | `WorkerPool`, `WorkerTaskLease`, `BuildWarmupGate`, the retry loop, the joiner and the layer loop | one action per stretch between two shared accesses, so that every load and its CAS can be separated; a task is cancelled at await points only. A worker's pipe is clean, has an unread line (`spoiled`), or has failed a function with one (`stale`) |
| `FunctionMode` | `run_layer_function_mode` | one action per await of the task and of the joiner |
| `FrontendTransport` | `Frontend` and its subprocess | request ids and the lines in both pipes; the subprocess may answer, print, hang or exit at any time; a call is dropped with its frontend (`Drop`) or without it, by a deadline of `run_phased` (`Abandon`) |
| `ScanResume` | the layer loop's stores and the next scan's reuse of them | three files on disk, the scan's memory, and the selection by `skip` and `--stratum`; one action per file written |
| `StateFile` | `BatchState::load/save`, `save_pool_best_effort`, `FileLock` | file, temp file, lock and a program counter per process |
| `ObserverPool` | `explore_function_with_observer_pool` and `run_observer_worker` | one action per await and per branch of producer and worker; the result channel is the log of messages and a read position |
| `ExploreDriver` | resume detection, the batch loop, the joins and the writes of one `explore` run after the other | composes the scheduler by its promise: the waiting and leased functions of `LeaseProtocol`; one action per file written. A history says what may go wrong in it, and how many runs and changes it has |
| `CallGraph` | `from_registry` and `topological_layers` of `call_graph.rs` | constant operators: Kahn's turns as a recursive function, and reachability as the least closed set to compare with |
| `Tarjan` | `compute_sccs` and `cycle_groups` of `call_graph.rs` | constant operators, recursive like the code |
| `IncrementalSpec` | `compute_deep_fingerprints`, `compute_incremental_plan`, `merge_file_spec_bundles` | sources with their lines, call graph and bundle of one file; runs over the file or one function, failures, edits and moved functions; extends `CallGraph`. `MC_IncrementalSpec` adds `Tarjan` for TLC |
| `LayerBudget` | `allocate`, `BudgetSurplus`, the claims of both exploration loops and the donation at the end | shares and used executions per function; a claim is split into its load and its compare-and-swap. The passes and the handing-out of `allocate` are recursive functions |
| `MC_*` | constants for TLC | |
| `*Proofs` | theorems, see section 5 | |

How they fit: the tasks of `SharedPool` and `FunctionMode` hold the frontends
whose inside is `FrontendTransport`; its results (timeout, mismatch, exit) are
the failures `SharedPool` enumerates. One task of these modules is one
`Explored` or `ExploreFailed` step of `ScanResume`. `LayerBudget` is the budget
those tasks share; `ObserverPool` is one of them from the inside when
`--observer-pool` is set. `ExploreDriver` is the other client of the scheduler;
`IncrementalSpec` decides which functions it is given.

Abstractions. A function, a file or a process is an index or a model value. A
fingerprint is the set of (function, version) pairs that went into the hash, so
equal hashes are equal sets; a map or a report row is represented by the
fingerprint it was written under. A response line is the id it carries, noise is
0. Exploration is its outcome. Logging, artifacts and progress events are left
out. Files are replaced by rename, so one write is atomic in `ScanResume`;
`StateFile` splits it into temp file and rename.

## 3. Runs

Passing runs:

* `scheduler_leases`: two functions, batch size 1, budgets 0, 2 and unbounded,
  saturation at 3. A merge of two grants saturates, a batch can overrun its
  budget, both functions can be leased, deferred and merged at once; ranks 0 and
  4 lie on both sides of the cooldown. The miss streak is cut at 2
  (`MaxStreak`).
* `pool_accounting`: three tasks, two in the first layer, two workers at most,
  two transport attempts, one failing spawn, transport failures, unreadable
  lines, misalignment, errors of shrinking and of the genetic phase that nobody
  passes on, and panics, with a total deadline. Every action fires. It is the smallest
  instance with a layer change, a competitor for every CAS and a retry.
  `GateOpens` is checked with it.
* `pool_growth`: three tasks of one layer, two of them in one file, so that the
  pool grows, reaps and serialises; no failure but timeouts, which keeps the
  liveness check small. `EveryTaskJoined` needs nothing of `run_phased`.
* `function_mode`: three functions, two at once, any failure, the total
  deadline at any moment, the gate new or opened by an earlier layer.
* `frontend_pairing`: five requests and one line of noise. Two requests make a
  late answer, a third reads it, one more may be given up with its frontend kept,
  the last is the shutdown. The module has no
  step left once the handle is consumed, so deadlock is not checked.
* `resume_sources`: a leaf, its caller and the caller's caller, which the caller
  calls back, so that one callee is in a later layer; three scans, one edit of a
  source, of the selection (everything, without the leaf, without its layer) or of
  both; four sets of stores, unlinks and explorations that may fail; deadlines,
  and a crash between any two steps. Three scans let a checkpoint be written,
  outdated and read; three functions are the smallest graph with a callee that is
  no leaf, so that a caller's fingerprint can change, and change back, with
  failing explorations. About seven million states.
* `state_file`: three processes, one of which saves best-effort, killed
  anywhere.
* `observer_pool`: two observers, the default capacity (as many), a budget of
  four and a deadline that may pass at any time. Four jobs with two workers
  refill the channel after answers; every worker may fail at every await, so
  both may be lost with jobs queued.
* `explore_driver`: two functions, two at a time, batches of one iteration, two
  each and at most two in all, so that the global limit cuts in while batches
  are in flight; a kill between any two steps, panics and errors of a batch.
  `MC_ExploreDriver` has three histories: two runs with one change and failing
  artifact and summary writes; the same with three runs and two changes, where the
  second function has no targets, so that summary and artifact can be of different
  runs; and three runs with failing artifact writes and two changes of which the
  second may go back.
* `incremental_plan`: every call graph of three functions with up to three
  calls, which includes self-recursion, two- and three-cycles and diamonds cut
  short; three versions of the bundle around one edit. Function 3 has branches,
  whose lines are part of its fingerprint.
* `layer_budget`: three functions, the second with custom generators, so that its
  flat share is 2 and the others' are 10; scores 1 and 9, floors 0 and 9, ceiling
  factors 0.4 and 1.2, so that each bound binds or not, for some functions and not
  for others; counters modulo 32. `Coarse` lets an exploration stop at once,
  half-way or at its cap only; the theorems hold without it too.

One run shows the code at odds with its own text (quoted in `findings`):

* `pool_slots`: `account_dead_worker_if_checked_out` sets `pool_accounted`
  before it awaits the respawn. A task aborted there leaves a slot in
  `live_count` that `recover_after_abort` skips, so the pool stays one worker
  smaller for the rest of the scan. `SlotsLostInReplacementOnly` (section 5)
  proves that nothing else loses a slot, and `SlotsOtherwiseRecovered` that the
  quoted promise holds in every scan without that abort.

Every property of a passing run has a mutant in `PROJECT.json`: a plausible slip
in one definition (marked "Slip" in the modules) under which TLC finds the
property violated.

## 4. Fairness

* `SharedPool`: weak fairness of every task except inside `run_phased`, of the
  joiner, of detached spawns and of the clock. Tokio polls a ready future,
  `Frontend::spawn` has a handshake timeout, time passes. Nothing is assumed of
  an exploration, which may hang for ever: that is what the watchdog is for.
  Nothing is assumed of the total deadline either.
* `FunctionMode`: weak fairness of tasks and joiner. This mode has no watchdog;
  its tasks end because `run_phased` wraps both phases in `tokio::time::timeout`
  and `shutdown` bounds its wait.
* `FrontendTransport`: the timeout fires, and a line that has arrived is read.
  Nothing is assumed of the subprocess.
* `StateFile`: a live process makes progress, flock wakes a waiter.
* `ObserverPool`: producer, every worker and the clock. Each request of a worker
  has a timeout; with `timeout_explore` set the deadline passes, which is what
  ends a producer that only meets duplicates (section 6).
* `ExploreDriver`: the driver's own steps, and every batch ends: `execute_batch`
  bounds its requests. Nothing is assumed of stop flags, kills or edits.
* `LayerBudget`: weak fairness of every exploration. The exchange needs no more:
  a claim fails only if another one, or a donation, succeeded.
* `BatchScheduler`, `ScanResume` and `IncrementalSpec` state safety only.

## 5. Proofs

All theorems are checked by TLAPS for every value of the constants that the
named `ASSUME`s allow.

| Module | Theorems | Argument |
|---|---|---|
| `BatchSchedulerProofs` | `TypeCorrect`, `LeasesExclusive`, `PenaltiesBelongToWork`, `ExhaustionIsStable`, `ImplementsLeases` | `TypeOK` is inductive with lemmas on saturating budgets; `LeaseExclusive` is inductive relative to it, with a lemma on what compaction of the queue keeps (`SelectionFacts`). On both rest the other three: `PenaltiesHaveWork` is inductive once `next_batch` is known to drop spent entries only (`NextBatchFacts`, `OthersKeepWork`); exhaustion is lost by `Enqueue`, a requeue with a discovery or completion only (`StaysExhausted`, `ReopeningStep`); and every operation changes the abstract status of at most one function, in a way `LeaseProtocol` allows (`OneChanges`, `GrantStep`, `ReleaseStep`) |
| `SharedPoolProofs` | `TypeCorrect`, `WorkersAreCounted`, `RemainingIsExact`, `FilesAreSerial`, `PoolDropsStaleWorkers`, `SlotsLostInReplacementOnly`, `SlotsOtherwiseRecovered` | `IInv`: no counter's invariant is inductive alone. `Stages` says what a task's place in its code tells of its lease and frontend; `JoinOrder` that the joiner goes through the layers in order and aborts only the task it waits for, so that a decrement belongs to the present layer; `Permits` that a task keeps its file permit while it has a worker; `Ranges` that what was loaded before an exchange is in range. The slots are counted by lemmas on what one step does to the set of tasks that hold one (`HoldersStep`, `SlotFreed`, `SlotTaken`, `SlotsKept`). `Clean` adds, for scans without concolic exploration, that a frontend which failed its function with an earlier answer is known from the task's result, because the retries of a function are exhausted on a frontend spawned for it. The difference `Lost` between `live_count` and the slots in use is followed through every step (`TaskLoses`, `NextLoses`): it changes in `Recover` of a task in `replace` alone |
| `FunctionModeProofs` | `FrontendsBounded`, `LeaderAlone`, `OutcomesHonest`, `NothingLeft` | `LayerInv`: permits are held exactly by running tasks and cover the subprocesses; before the gate opens only the leader has passed it; maps belong to the tasks that ended with a success; the joiner has the outcomes of the tasks before the one it waits for |
| `SharedPoolProofs`, on `FrontendTransport` | `PipesStayAligned`, `MismatchOnlyFromNoise`, `DrainDead`, `NoOrphan` | `Pairing`: an untainted frontend without noise has the current call in one of its pipes and nothing else; a timeout taints, and a tainted frontend sends nothing; a call given up by `run_phased` leaves one line, and only the Shutdown comes after it |
| `ScanResumeProofs` | `TypeCorrect`, `MapsMatchSource`, `ScanListsAll`, `CheckpointIsUsed` | `ResumeInv`: versions in any fingerprint have been handed out, so an edit makes all of them foreign; and, where stale maps can be unlinked, an entry of the checkpoint under the present source implies that the cache has no map from another source, what each status of a function says about the map on disk, and that the functions of the earlier layers have been considered, which is what makes a prefetched map of theirs a checked one. `OrderInv`: the layers are gone through in order, the statuses each phase leaves in the current one, and what is settled is reported. `SkipInv`, for unchanged sources and selection and working map stores and unlinks: the deep fingerprint of a function in its layer is its own source and the maps on disk of the callees settled before it (`DeepIsWhole`); maps of leaves, and of all functions if no exploration fails, are never unlinked (`SteadyMaps`); an entry of the checkpoint has its map, or a callee has been explored since that it lacks (`Entries`), so that it can never match again |
| `ObserverPoolProofs` | `TypeCorrect`, `InFlightIsExact`, `BudgetIsKept`, `ProducerNeverStranded`, `NothingIsLeft`, `ReportsAreTrue` | `IInv`: `InFlightExact` alone is not inductive. It needs that a result of an execution accounts for a job (`KindsOK`), that answered jobs are counted or unread (`Counted`), that queued, running and answered jobs stay within the budget, with one to spare between the budget check and the send (`Spent`), and that a worker leaves a looping producer only by an unread failure (`FailureNoted`). Lemmas say how each message and each move changes the counted sets |
| `ExploreDriverProofs` | `TypeCorrect`, `LeasesAreTasks`, `ProgressIsSaved`, `ResumeIsCurrent`, `RunsAreAccounted` | `IInv`: no batch runs outside the loop, and what a run collects starts empty (`PhasesOK`); from the preparation on the progress is on disk or travels with the batch (`Saved`); the versions on disk have been handed out (`VersionsKnown`), so that, if none comes back, an entry that vouches for today's version has an artifact of it; and if the summary can be written, it is emptied before any artifact is replaced, so that every entry names its own (`Vouched`); every function with targets waits, is leased, is merged or is excused (`OnItsWay`, `Excused`) |
| `ScanResumeProofs`, on `StateFile` | `StateTypeCorrect`, `FileAlwaysWhole` | `FileInv`: the lock holder alone is in a locked section, and a process that saves has its own record |
| `LayerBudgetProofs` | `TypeCorrect`, `AllocationIsFair`, `BudgetIsConserved`, `SurplusNeverWraps` | `allocate` first: scaled floors are within the total and within every ceiling; a pass never goes below a share, above a ceiling or past the total, and closes a function or ends the loop, so that the loop ends (`PassFacts`, `FillEnds`); handing out one by one keeps the functions below their ceilings in the order of their scores, and equal scores within one of each other (`HandKeeps`, `HandOutEnds`). Then `BudgetInv`: shares, executions in hand, surplus and executions made add up, where a claim that was loaded is backed by what its exchange will find. Both rest on lemmas about sums of functions over a layer (`SumAdd`, `SumUpdate`, `SumBounds`, `Transfer`) |
| `IncrementalSpecProofs` | `TypeCorrect`, `FreshSpecsAreCurrent`, `CurrentSpecsAreFresh`, `LayersAreSound`, `SpecsAreKept` | Graphs first: off the cycles the number of functions below falls with every call (`RankFalls`), so a turn of Kahn's algorithm finds something as long as anything off the cycles is left, and never anything on or above one (`TurnKeeps`, `TurnsEnd`). From that the layers (`LayeringHolds`) and that every function off the cycles hashes the fingerprints of all its callees (`FingerprintFacts`); hence equal fingerprints of two files mean equal sources below (`FingerprintsTell`, at a lowest counterexample), and equal sources below mean equal fingerprints, cycles included, since neither the rounds nor the remnants of a closed part look outside it (`FingerprintsLocal`). `BundleInv`: a specification of a run over the file was made from some file whose versions are at most today's, and where a version is still today's the calls are (`Past`): without the second part `CurrentIsFresh` is not inductive |

`MapsMatchSource` needs edits that bring no earlier version back
(`Reverts = FALSE`), and `MapsOfCurrentSource` speaks of histories in which stale
maps can be unlinked; it holds for any call graph without self-calls, layering,
selection, crash and failed write, and leaves out the maps that no check of this
scan has seen (section 6, "Unchecked mocks"). `PoolDropsStaleWorkers` needs scans
without concolic exploration and more than one attempt; without either the code
breaks it (section 6). `ResumeIsCurrent` excludes failing summary writes together
with versions that come back: TLC finds the code's counterexample when the
condition is dropped (section 6, "Options that go back").
`ScanListsAll` uses that no layer below the last is empty
(`LayersAssumption`): `build_layers` opens a layer only above a function of the
layer below.

`ResumeSkips` is stated with the condition the proof needed. Without it TLC
found a counterexample on the chain of three (section 6, "Fingerprint that comes
back"); a function and its leaf are too few to show it.

Type invariants that no run lists are part of these inductive invariants
(`BatchScheduler`, `SharedPool`, `ScanResume`, `StateFile`, `ObserverPool`,
`ExploreDriver`, `LayerBudget`, `IncrementalSpec`, and within `LayerInv` and
`Pairing`).

What a recursive function computes is proved by induction in set form: the
library's theorem that the numbers are well-founded gives every non-empty set of
numbers a least member (`Least`), that gives induction up to a bound
(`InductionUpTo`), and that the existence of the function a recursion describes
(`PrimitiveRecursion`, and for the fingerprints, whose values lie in no set known
beforehand, `PeelRounds` and `RemnantsInOrder`). `LayerBudget`, `CallGraph` and
`IncrementalSpec` are written with recursive functions for that reason.
A fingerprint is the term that is hashed: the theorems about fingerprints take
the hash as free of collisions.

Left to TLC:

* all liveness properties (`GateOpens`, `EveryTaskJoined`, `CallsEnd`,
  `EveryoneEnds`, `CallReturns`, `RunEnds`): fairness and `ENABLED` are out of
  the prover's reach;
* `CyclesExact`: Tarjan's algorithm recurses into itself from within its loop,
  which no recursive function over numbers follows; it is a `RECURSIVE` operator,
  and the prover takes none.

Every other safety property of the runs that pass is stated by a theorem.

## 6. Observations without a run of their own

* Round robin. `batch_scheduler.rs:22` says that with all ranks 0 the scheduler
  is a strict round-robin. The miss penalty breaks that: a function with a miss
  streak is passed over by one that was served after it.
* Last worker. `needs_replacement` (`SO:2308`) reads `live_count` before
  `reap_dead_slot` decrements it; two tasks with dead workers may both give
  theirs up, although `MIN_IDLE_WORKERS` is there to keep one. Growth brings a
  worker back while tasks remain.
* Misaligned workers. `frontend_error` (`SO:5077`) looks for
  `ScanError::Explore` and `ScanError::Frontend`. Three errors escape it and put a
  live, untainted frontend with an unread line back into the pool: exhausted
  retries are `FrontendRetryExhausted` (`SO:5030`; a line that is not UTF-8 leaves
  the subprocess alive), and errors while witnesses are shrunk or in the genetic
  phase are not passed on, the run counts as a success (`SO:6238`). The next function then
  fails with the mismatch the comment at `SO:5063` warns of, and only then is the
  frontend dropped: each costs one function (`StaleWorkerNotPooled`,
  `PoolDropsStaleWorkers`). A concolic exploration wraps its errors in
  `ScanError::Concolic`, which is not matched either, so its frontend goes back
  after every such failure, without bound: `Concolic = TRUE` in `SharedPool.cfg`,
  and the condition dropped from the property, shows it.
* Calls given up. The timeouts of `run_phased` (`SO:6048-6128`) drop the future of
  a request and keep the frontend, untainted. The pool drops it (`timed_out`);
  function mode calls `shutdown` on it (`SO:3376`), which may read the late answer
  as its own: an IdMismatch without any noise, whose result nobody looks at.
  `PipesAligned` and `MismatchOnlyFromNoise` say that this is the only such case.
* Stale map. A callee whose exploration failed is left out of its caller's deep
  fingerprint. Scan 1: the leaf fails, the caller is checkpointed under itself
  alone. Scan 2: the leaf succeeds, the caller is explored again and its map
  replaced; the process dies before the checkpoint. The leaf is edited. Scan 3:
  the leaf fails; the caller's fingerprint equals the old checkpoint entry, some
  map exists (`checkpoint.rs:217`), and the map made against the old leaf is
  reused. `MapsOfCurrentSource` therefore speaks of the function's own source.
* Unchecked mocks. Before a function is explored, callees without a map in memory
  get the one from the cache, without a freshness check (`SO:4638-4647`). The check
  is made when the callee's own turn comes, which is earlier as a rule; a callee
  that `skip = true` (`SO:4320`) or `--stratum` (`SO:4080`) leaves out has no turn,
  and one of a mutually recursive group may be in a later layer
  (`build_layers`, `SO:5525`). Its map, perhaps of an older source, then serves as a
  mock, and it has no part in the caller's deep fingerprint, although "callee deep
  fingerprints are always available" (`fingerprint.rs:92`). `MapsOfCurrentSource`
  speaks of the other maps.
* Fingerprint that comes back. A checkpoint entry outlives its map when the
  function's fingerprint changes for a while. Scan 1: a leaf and its caller fail,
  the caller's caller, `entry`, is checkpointed under itself alone. Scan 2: the
  leaf fails and the caller succeeds; `entry` has another fingerprint, its map is
  unlinked, and it fails or the process dies. Scan 3: the leaf succeeds, so the
  caller is explored again, and fails: `entry` has its first fingerprint again,
  the checkpoint lists it, the map is gone, and it is explored once more, over
  unchanged sources (`checkpoint.rs:4`: "an interrupted scan can resume without
  re-exploring finished functions"). Nothing wrong is reused;
  `ResumeSkips` asks for leaf callees when explorations fail.
* Lost records. `BatchState` is loaded and saved under separate locks
  (`scan.rs:1483`), so two processes that load the same state overwrite each
  other's record, against `file_lock.rs:3`. `FileWhole` speaks of the file only.
* Drain. `frontend.rs:273` says stale responses are drained before the next
  request. A timeout taints the frontend and taint refuses every request, so
  the drain is dead code (`DrainDead`).
* Failed stores. `cache.store`'s error is discarded (`SO:5284`), so with a
  failing cache the checkpoint records a function without a map, against
  SPEC.md:1044.
* Kill inside a layer. In the pool mode maps are stored after the whole layer
  is joined, against SPEC.md:1033; a kill before that loses the layer. A kill
  between map and sidecar row makes the next scan list the function as skipped.
* Progress events. A task aborted before it started gets `failed` without
  `started`, and one stopped by the total deadline `started` and then
  `skipped`; in function isolation a function that ends while it is being
  aborted is even `completed` and then `skipped` (SPEC.md:964 allows none of
  these).
* Small channel. With `candidate_queue_capacity` below the number of observers
  and every worker failed, the producer waits for room in the channel for ever
  (`EX:2506`): it holds the receiver, so the send does not fail, and it would read
  the failures only after it. `Capacity = 1` in `ObserverPool.cfg` shows it.
* Duplicates. The producer's inner loop has no await between duplicates; without
  `timeout_explore` a function with fewer inputs than the budget keeps it
  spinning. `HasTimeout = FALSE` violates `CallReturns`.
* Teardown. An unsupported execution skips its per-execution teardown
  (docs/specs/concurrent-single-function-exploration.md:143: "Setup and teardown
  bracket every `Execute`"),
  and a worker that fails after the last result is never heard of.
* Explore driver. Paths that several batches of a function find are counted once
  per batch (`pipeline.rs:835`, against the comment at `XC:515`). A
  function whose later batch failed, or that a stop flag cut short, is recorded as
  completed, its sidecar deleted, and a resumed run takes it as done. The first
  summary of a run drops the entries of the run before, and sidecars are deleted
  before the last one is written: a kill in between loses completed entries. The
  `abort_all` and the drain after the loop are unreachable. `--max-executions` is
  overrun by up to one batch per worker.
* Options that go back. `validate_resume` compares the entry of the summary with
  today's fingerprint and options; of the artifact it only asks that it is there
  (`XC:1473-1494`). Run 1 completes under options A. Run 2, under B, fails to write
  its summaries, which is only logged (`XC:5822`, `XC:6571`), and replaces the
  artifact (`XC:6380`). Run 3, under A again, takes over B's observation as A's.
  `ResumedIsCurrent` excludes the two together; a history with
  `{"summary", "revert"}` shows it once the condition is dropped.
* Moved functions. The shallow fingerprint hashes the line of each branch in the
  file (`fingerprint.rs:61-73`), so a line added higher up makes every function
  with branches below it, and their callers, stale, although their sources are
  unchanged. `CurrentIsFresh` speaks of sources and lines.
* Cycles. A deep fingerprint leaves out what closes a cycle, and self-calls are
  calls: on and above a cycle, self-recursion included, a change of a callee can
  go unnoticed, against "a caller is marked stale when any of its in-scope callees
  change" (`spec.rs:886`). `FreshIsCurrent` excludes those functions, and runs over
  a single function, which also drop the siblings' specifications.
* Donations. A flat exploration donates `max_iterations` less its iterations,
  although unsupported executions have used budget too (`EX:1603`, `SO:6263`), so
  the layer can run more than it was given. `BudgetConserved` states the bound
  without them. Float probes (`orchestrator.rs:2771`), shrinking
  (`orchestrator.rs:3767`) and the genetic phase execute without counting; the
  budget never sees them. A claim asks for half of a surplus that may be smaller by then.

## 7. Not modelled

Solver, generators, clustering, shrinking, reports, configuration and the
language frontends: data transformations, or external processes that
`FrontendTransport` has as its environment. They are by far the larger part of
the repository's lines; they keep no state that several steps or actors share.
The setup manager and the batched layer are built by tests only
(`setup_manager` and `batch_size` are never set by a command), and so are
`topological_batches`, `transitive_callers_of` and the cross-file fingerprints.

Within the modelled parts: edits of a source during a scan, edits between scans
that change the calls a function makes, unreadable sources and maps, a checkpoint
discarded for another scan id, the skip of functions whose branches are all
covered (`SO:4542`; `scan.rs:1065` and `:1256` set its cache to `None`), panics of an
observer's task, replicas (`workers_per_fn`), progress
events, two processes on one map cache (`cache.rs:157`), several targets of one
`explore` call, callees in other files, the order penalties give to functions of
equal rank, eviction from the interesting pool.

## 8. Plan

1. `MapCache`: two processes that store one map through one temp file.
2. `Frontier`: selection, stalls and abandonment of the concolic loop.
3. Proofs: `ScanResume` without the restriction on edits, for what the cache
   alone guarantees.
