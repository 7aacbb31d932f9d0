----------------------------- MODULE ScanResume -----------------------------
(* What a scan leaves on disk, and what the next scan takes from it.        *)
(*                                                                          *)
(* The layer loop of `parallel_scan_phase` (scan_orchestrator.rs) with its  *)
(* three stores: the behavior map cache (cache.rs), the sidecar of report   *)
(* rows next to it, and the resume checkpoint (checkpoint.rs).  A scan may  *)
(* be killed between any two writes; sources, and which functions are       *)
(* scanned, change between scans; a write or an unlink may fail, which the  *)
(* code ignores or only logs.  Every file is replaced by rename, so a       *)
(* single write is atomic.                                                  *)
(*                                                                          *)
(* A fingerprint is a SHA-256 of the function's source and of its callees'  *)
(* deep fingerprints.  The model keeps the set of <<function, version>>     *)
(* pairs that were hashed: equal hashes are equal sets, and the empty set   *)
(* is "no fingerprint".  A behavior map or a report row is represented by   *)
(* the fingerprint it was written under.                                    *)
EXTENDS Naturals, FiniteSets

CONSTANTS
    Functions,     \* qualified function ids of the scan
    Callees,       \* call graph: function -> its in-scope callees
    LayerOf,       \* function -> the layer build_layers puts it in
    Selections,    \* the ways the configuration and --stratum select functions
    Failures,      \* the sets of operations that may fail in one history
    Reverts,       \* an edit may bring an earlier version back
    MaxRuns,       \* bound: scans started
    MaxEdits       \* bound: edits between scans, and so the versions

(* A call graph without self-edges (behavior.rs keeps them apart).  A       *)
(* callee is usually in an earlier layer, but the functions of a mutually   *)
(* recursive group are placed one after the other, so it need not be.       *)
ASSUME CallGraphAssumption ==
    /\ Callees \in [Functions -> SUBSET Functions]
    /\ \A f \in Functions : f \notin Callees[f]
    /\ LayerOf \in [Functions -> Nat \ {0}]
    /\ IsFiniteSet(Functions)

(* build_layers opens a layer only above a function of the layer below.     *)
ASSUME LayersAssumption ==
    \A f \in Functions : \A k \in 1..LayerOf[f] : \E g \in Functions : LayerOf[g] = k

(* skip = true in a function's configuration, and the layers of --stratum.  *)
ASSUME SelectionAssumption ==
    Selections \subseteq [skip : SUBSET Functions, first : Nat \ {0}, last : Nat]

ASSUME BoundAssumption ==
    /\ MaxRuns \in Nat /\ MaxEdits \in Nat
    /\ Reverts \in BOOLEAN
    /\ Failures \subseteq SUBSET {"map", "row", "checkpoint", "unlink", "explore"}

VARIABLES
    faults,    \* what may fail in this history
    source,    \* function -> version of its source text
    selection, \* what the next scans select
    edits,     \* edits made so far
    maps,      \* disk: behavior map cache, function -> fingerprint of the map
    rows,      \* disk: completed-function sidecar, function -> fingerprint
    saved,     \* disk: checkpoint file, its `completed` map
    runs,      \* scans started
    pc,        \* where the scan is: "idle" when no process runs
    layer,     \* index of the layer being scanned
    status,    \* function -> its progress in this scan
    fp,        \* function -> deep fingerprint computed for it in this scan
    memory,    \* behavior_maps: function -> fingerprint of the map in memory
    deep,      \* deep_fingerprints of the finished layers
    completed, \* checkpoint.completed
    reported   \* function -> how the scan's report lists it

disk == <<maps, rows, saved>>
scan == <<pc, layer, status, fp, memory, deep, completed, reported>>
vars == <<faults, source, selection, edits, maps, rows, saved, runs, scan>>

Versions == 0..MaxEdits
Fingerprints == SUBSET (Functions \X Versions)
NoFp == {}
Nothing == [f \in Functions |-> NoFp]

Phases == {"idle", "layer", "build", "explore", "store", "record", "save", "done"}
Statuses ==
    {"todo", "skipped", "reused", "task", "ok", "stored", "recorded", "failed", "dropped"}
Reports == {"none", "completed", "skipped", "failed"}

(* The functions of the layers --stratum selects, and of them those the     *)
(* configuration does not skip.                                             *)
InStratum(f) == LayerOf[f] \in selection.first..selection.last
Selected(f) == InStratum(f) /\ f \notin selection.skip

InLayer == {f \in Functions : LayerOf[f] = layer /\ InStratum(f)}
With(s) == {f \in InLayer : status[f] = s}

-----------------------------------------------------------------------------

(* compute_deep_fingerprint: own source, and the deep fingerprint of every  *)
(* callee that has one; a callee without one is left out.                   *)
DeepFp(f) == {<<f, source[f]>>} \cup UNION {deep[c] : c \in Callees[f]}

(* ScanCheckpoint::is_completed: the entry's fingerprint is compared, the   *)
(* cached map only has to exist.                                            *)
is_completed(f, dfp) == completed[f] = dfp /\ maps[f] # NoFp

(* BehaviorMapCache::is_fresh: the map's own fingerprint is compared.       *)
is_fresh(f, dfp) == maps[f] = dfp

Init ==
    /\ faults \in Failures /\ selection \in Selections
    /\ source = [f \in Functions |-> 0] /\ edits = 0
    /\ maps = Nothing /\ rows = Nothing /\ saved = Nothing
    /\ runs = 0
    /\ pc = "idle" /\ layer = 1
    /\ status = [f \in Functions |-> "todo"]
    /\ fp = Nothing /\ memory = Nothing /\ deep = Nothing /\ completed = Nothing
    /\ reported = [f \in Functions |-> "none"]

(* A new process: memory is empty, the checkpoint is read from disk         *)
(* (load_or_create_checkpoint).                                             *)
Start ==
    /\ pc = "idle" /\ runs < MaxRuns
    /\ runs' = runs + 1
    /\ pc' = "layer" /\ layer' = selection.first
    /\ status' = [f \in Functions |-> "todo"]
    /\ fp' = Nothing /\ memory' = Nothing /\ deep' = Nothing
    /\ completed' = saved
    /\ reported' = [f \in Functions |-> "none"]
    /\ UNCHANGED <<faults, source, selection, edits, disk>>

(* The process is gone, killed or at its end; its memory goes with it.      *)
Gone ==
    /\ pc' = "idle" /\ layer' = 1
    /\ status' = [f \in Functions |-> "todo"]
    /\ fp' = Nothing /\ memory' = Nothing /\ deep' = Nothing /\ completed' = Nothing
    /\ reported' = [f \in Functions |-> "none"]
    /\ UNCHANGED <<faults, source, selection, edits, disk, runs>>

(* A crash or an interrupt, between any two steps.                          *)
Crash == pc # "idle" /\ Gone

(* Slip: the later layers are forgotten.                                    *)
DeadlineOneLayer ==
    /\ pc = "layer" /\ InLayer # {}
    /\ pc' = "done"
    /\ reported' = [f \in Functions |->
                      IF f \in InLayer THEN "skipped" ELSE reported[f]]
    /\ UNCHANGED <<faults, source, selection, edits, disk, runs, layer, status, fp,
                   memory, deep, completed>>

(* `timeout_total` has passed at a layer boundary: the functions of this    *)
(* and the later layers are skipped, and the loop is left without another   *)
(* checkpoint.                                                              *)
Deadline ==
    /\ pc = "layer" /\ InLayer # {}
    /\ pc' = "done"
    /\ reported' = [f \in Functions |->
                      IF InStratum(f) /\ LayerOf[f] >= layer THEN "skipped" ELSE reported[f]]
    /\ UNCHANGED <<faults, source, selection, edits, disk, runs, layer, status, fp,
                   memory, deep, completed>>

(* No layer is left, or the deadline ended the loop.                        *)
Finish ==
    /\ (pc = "layer" /\ InLayer = {}) \/ pc = "done"
    /\ Gone

(* The next layer is begun.                                                 *)
EnterLayer ==
    /\ pc = "layer" /\ InLayer # {}
    /\ pc' = "build"
    /\ UNCHANGED <<faults, source, selection, edits, disk, runs, layer, status, fp,
                   memory, deep, completed, reported>>

-----------------------------------------------------------------------------
(* Building the layer's task list.                                          *)

(* skip = true in the function's configuration: nothing else is looked at.  *)
SkipByConfig(f) ==
    /\ pc = "build" /\ f \in With("todo") /\ f \in selection.skip
    /\ status' = [status EXCEPT ![f] = "skipped"]
    /\ reported' = [reported EXCEPT ![f] = "skipped"]
    /\ UNCHANGED <<faults, source, selection, edits, disk, runs, pc, layer, fp,
                   memory, deep, completed>>

(* The map on disk is taken into memory, and the report row is restored     *)
(* from the sidecar; without a row for this fingerprint the function is     *)
(* listed as skipped.                                                       *)
Reuse(f) ==
    /\ memory' = [memory EXCEPT ![f] = maps[f]]
    /\ fp' = [fp EXCEPT ![f] = DeepFp(f)]
    /\ status' = [status EXCEPT ![f] = "reused"]
    /\ reported' = [reported EXCEPT ![f] =
                      IF rows[f] = DeepFp(f) THEN "completed" ELSE "skipped"]
    /\ UNCHANGED <<faults, source, selection, edits, disk, runs, pc, layer, deep,
                   completed>>

ResumeHit(f) ==
    /\ pc = "build" /\ f \in With("todo") \ selection.skip
    /\ is_completed(f, DeepFp(f))
    /\ Reuse(f)

CacheHit(f) ==
    /\ pc = "build" /\ f \in With("todo") \ selection.skip
    /\ ~is_completed(f, DeepFp(f))
    /\ is_fresh(f, DeepFp(f))
    /\ Reuse(f)

(* Slip: the stale map stays on disk.                                       *)
EnqueueKeep(f) ==
    /\ pc = "build" /\ f \in With("todo") \ selection.skip
    /\ ~is_completed(f, DeepFp(f)) /\ ~is_fresh(f, DeepFp(f))
    /\ fp' = [fp EXCEPT ![f] = DeepFp(f)]
    /\ status' = [status EXCEPT ![f] = "task"]
    /\ memory' = [c \in Functions |->
                    IF c \in Callees[f] /\ memory[c] = NoFp THEN maps[c] ELSE memory[c]]
    /\ UNCHANGED <<faults, source, selection, edits, disk, runs, pc, layer, deep,
                   completed, reported>>

(* Neither hit: is_fresh has unlinked the stale map, or only logged that it *)
(* could not, and callees that are not in memory are looked up in the       *)
(* cache, without a freshness check, to serve as mocks.                     *)
Enqueue(f) ==
    /\ pc = "build" /\ f \in With("todo") \ selection.skip
    /\ ~is_completed(f, DeepFp(f)) /\ ~is_fresh(f, DeepFp(f))
    /\ \/ maps' = [maps EXCEPT ![f] = NoFp]
       \/ "unlink" \in faults /\ maps' = maps
    /\ fp' = [fp EXCEPT ![f] = DeepFp(f)]
    /\ status' = [status EXCEPT ![f] = "task"]
    /\ memory' = [c \in Functions |->
                    IF c \in Callees[f] /\ memory[c] = NoFp THEN maps[c] ELSE memory[c]]
    /\ UNCHANGED <<faults, source, selection, edits, rows, saved, runs, pc, layer,
                   deep, completed, reported>>

(* The list is complete: explore the tasks, or go on when there are none.   *)
Built ==
    /\ pc = "build" /\ With("todo") = {}
    /\ pc' = IF With("task") = {} THEN "save" ELSE "explore"
    /\ UNCHANGED <<faults, source, selection, edits, disk, runs, layer, status, fp,
                   memory, deep, completed, reported>>

-----------------------------------------------------------------------------
(* Exploring the layer, and persisting what came out of it.                 *)

(* A task of the layer is joined: the worker pool is module SharedPool's.   *)
Explored(f) ==
    /\ pc = "explore" /\ f \in With("task")
    /\ status' = [status EXCEPT ![f] = "ok"]
    /\ UNCHANGED <<faults, source, selection, edits, disk, runs, pc, layer, fp,
                   memory, deep, completed, reported>>

ExploreFailed(f) ==
    /\ pc = "explore" /\ f \in With("task") /\ "explore" \in faults
    /\ status' = [status EXCEPT ![f] = "failed"]
    /\ UNCHANGED <<faults, source, selection, edits, disk, runs, pc, layer, fp,
                   memory, deep, completed, reported>>

(* All tasks are joined: the results enter behavior_maps together.          *)
Joined ==
    /\ pc = "explore" /\ With("task") = {}
    /\ pc' = "store"
    /\ memory' = [f \in Functions |-> IF f \in With("ok") THEN fp[f] ELSE memory[f]]
    /\ UNCHANGED <<faults, source, selection, edits, disk, runs, layer, status, fp,
                   deep, completed, reported>>

(* cache.store, one map after the other; its error is discarded.            *)
StoreMap(f) ==
    /\ pc = "store" /\ f \in With("ok")
    /\ \/ maps' = [maps EXCEPT ![f] = fp[f]]
       \/ "map" \in faults /\ maps' = maps
    /\ status' = [status EXCEPT ![f] = "stored"]
    /\ UNCHANGED <<faults, source, selection, edits, rows, saved, runs, pc, layer,
                   fp, memory, deep, completed, reported>>

Stored ==
    /\ pc = "store" /\ With("ok") = {}
    /\ pc' = "record"
    /\ UNCHANGED <<faults, source, selection, edits, disk, runs, layer, status, fp,
                   memory, deep, completed, reported>>

(* A successful outcome: its report row goes to the sidecar, and its        *)
(* fingerprint is queued for the checkpoint.                                *)
RecordSuccess(f) ==
    /\ pc = "record" /\ f \in With("stored")
    /\ reported' = [reported EXCEPT ![f] = "completed"]
    /\ \/ rows' = [rows EXCEPT ![f] = fp[f]]
       \/ "row" \in faults /\ rows' = rows
    /\ status' = [status EXCEPT ![f] = "recorded"]
    /\ UNCHANGED <<faults, source, selection, edits, maps, saved, runs, pc, layer,
                   fp, memory, deep, completed>>

(* A timeout or an error: only the report hears of it.                      *)
RecordFailure(f) ==
    /\ pc = "record" /\ f \in With("failed")
    /\ reported' = [reported EXCEPT ![f] = "failed"]
    /\ status' = [status EXCEPT ![f] = "dropped"]
    /\ UNCHANGED <<faults, source, selection, edits, disk, runs, pc, layer, fp,
                   memory, deep, completed>>

Recorded ==
    /\ pc = "record" /\ With("stored") = {} /\ With("failed") = {}
    /\ pc' = "save"
    /\ UNCHANGED <<faults, source, selection, edits, disk, runs, layer, status, fp,
                   memory, deep, completed, reported>>

(* Slip: the functions whose exploration failed are marked as well.         *)
LayerFpsAll == With("reused") \cup With("recorded") \cup With("dropped")

(* layer_deep_fps: the functions the layer reused or explored.              *)
LayerFps == With("reused") \cup With("recorded")

(* The layer ends: mark_completed for every fingerprint of the layer, and   *)
(* one checkpoint.save, whose error is discarded.                           *)
SaveCheckpoint ==
    /\ pc = "save"
    /\ completed' = [f \in Functions |-> IF f \in LayerFps THEN fp[f] ELSE completed[f]]
    /\ deep' = [f \in Functions |-> IF f \in LayerFps THEN fp[f] ELSE deep[f]]
    /\ \/ saved' = completed'
       \/ "checkpoint" \in faults /\ saved' = saved
    /\ pc' = "layer" /\ layer' = layer + 1
    /\ UNCHANGED <<faults, source, selection, edits, maps, rows, runs, status, fp,
                   memory, reported>>

-----------------------------------------------------------------------------
(* The developer, between scans: a new version of a function, or, with      *)
(* Reverts, an earlier one (a branch switch, an undone change), another     *)
(* selection, or both.                                                      *)
Edit(f) ==
    /\ pc = "idle" /\ edits < MaxEdits
    /\ edits' = edits + 1
    /\ \/ source' = [source EXCEPT ![f] = edits + 1]
       \/ source' = source
       \/ Reverts /\ \E v \in 0..edits : source' = [source EXCEPT ![f] = v]
    /\ selection' \in Selections
    /\ UNCHANGED <<faults, disk, runs, scan>>

(* No scan is started any more.                                             *)
Rest == pc = "idle" /\ runs = MaxRuns /\ UNCHANGED vars

Next ==
    \/ Start \/ Crash \/ Finish \/ Deadline \/ EnterLayer \/ Built \/ Joined
    \/ Stored \/ Recorded \/ SaveCheckpoint \/ Rest
    \/ \E f \in Functions :
         \/ SkipByConfig(f) \/ ResumeHit(f) \/ CacheHit(f) \/ Enqueue(f)
         \/ Explored(f) \/ ExploreFailed(f) \/ StoreMap(f)
         \/ RecordSuccess(f) \/ RecordFailure(f) \/ Edit(f)

Spec == Init /\ [][Next]_vars

-----------------------------------------------------------------------------

(* The type invariant.                                                      *)
TypeOK ==
    /\ faults \in Failures /\ selection \in Selections
    /\ source \in [Functions -> Versions] /\ edits \in Versions
    /\ maps \in [Functions -> Fingerprints]
    /\ rows \in [Functions -> Fingerprints]
    /\ saved \in [Functions -> Fingerprints]
    /\ runs \in 0..MaxRuns
    /\ pc \in Phases /\ layer \in Nat \ {0}
    /\ status \in [Functions -> Statuses]
    /\ fp \in [Functions -> Fingerprints]
    /\ memory \in [Functions -> Fingerprints]
    /\ deep \in [Functions -> Fingerprints]
    /\ completed \in [Functions -> Fingerprints]
    /\ reported \in [Functions -> Reports]

(* Every function that calls f is in a later layer than f.                  *)
CalledFromAbove(f) == \A g \in Functions : f \in Callees[g] => LayerOf[f] < LayerOf[g]

(* Whatever crashed, failed to be written or failed to be explored before,  *)
(* the behavior map a scan holds of a function, reused, prefetched as a     *)
(* callee's mock or newly explored, was explored from the function's        *)
(* present source text.  It is what the fingerprint in the checkpoint and   *)
(* in the cache is for.  It holds of a function from the moment the scan    *)
(* has reused or explored it, and from the start if it is selected and      *)
(* called from later layers only: the prefetch checks nothing, so a caller  *)
(* that comes first takes whatever map is there.  It needs edits that bring *)
(* no earlier version back, and stale maps that can be unlinked.            *)
MapsOfCurrentSource ==
    "unlink" \notin faults =>
      \A f \in Functions :
        /\ memory[f] # NoFp
        /\ \/ status[f] \in {"reused", "stored", "recorded"}
           \/ Selected(f) /\ CalledFromAbove(f)
        => <<f, source[f]>> \in memory[f]

(* The callees of f that the scan settles before f.                         *)
Before(f) == {c \in Callees[f] : Selected(c) /\ LayerOf[c] < LayerOf[f]}

(* None of them waits for another.                                          *)
LeafCallees(f) == \A c \in Before(f) : Before(c) = {}

(* Resuming never repeats work the checkpoint holds: a function is only     *)
(* enqueued when the checkpoint file has no entry under its present deep    *)
(* fingerprint.  For unchanged sources and selection and working map stores *)
(* and unlinks, whatever crashes, deadlines and other failed stores came    *)
(* before.  If explorations may fail, only for a function whose callees are *)
(* leaves: further up, a callee that succeeds in one scan and fails in the  *)
(* next brings back the deep fingerprint of an entry whose map has been     *)
(* unlinked meanwhile.                                                      *)
ResumeSkips ==
    [][\A f \in Functions :
         /\ {"map", "unlink"} \cap faults = {} /\ edits = 0
         /\ "explore" \in faults => LeafCallees(f)
         /\ status[f] = "todo" /\ status'[f] = "task"
         => saved[f] # fp'[f]]_vars

(* Nothing falls through: a scan that ends, with its last layer or at its   *)
(* deadline, lists every function of the selected layers as completed,      *)
(* skipped or failed, whether it was reused, explored or never reached.     *)
ScanAccounted ==
    [][Finish => \A f \in Functions : InStratum(f) => reported[f] # "none"]_vars

=============================================================================
