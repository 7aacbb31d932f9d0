------------------------------ MODULE StateFile ------------------------------
(* The state files under .shatter-cache that several shatter processes      *)
(* share: the cumulative batch state (batch_state.rs) and the interesting   *)
(* input pool (interesting_pool.rs), both behind the advisory lock of       *)
(* file_lock.rs.                                                            *)
(*                                                                          *)
(* A process loads the file under the lock, lets the lock go, works, and    *)
(* saves what it loaded plus its own record under the lock again.  It may   *)
(* be killed anywhere; the kernel then drops its flock.  A file's content   *)
(* is the set of records in it; a record stands for a batch summary or a    *)
(* pool entry, one per process.                                             *)
EXTENDS Naturals, FiniteSets

CONSTANTS
    Processes,    \* shatter invocations on one project
    BestEffort,   \* those that save with try_acquire (save_pool_best_effort)
    None,         \* no lock holder
    Partial       \* the mark of a write that has begun and not ended

ASSUME ProcessAssumption ==
    /\ BestEffort \subseteq Processes
    /\ None \notin Processes /\ Partial \notin Processes

VARIABLES
    file,    \* content of the state file
    tmp,     \* content of its temp file, one name for all processes
    lock,    \* process holding the exclusive flock
    at,      \* process -> where it is
    state    \* process -> the state it holds in memory

stateVars == <<file, tmp, lock, at, state>>

(* No file, and one that does not parse.  A saved file has the record of    *)
(* the process that saved it, so it is never empty.                         *)
NoFile == {}
Torn == {Partial}
Contents == (SUBSET Processes) \cup {Torn}
Points == {"start", "opening", "loading", "working", "saving", "writing",
           "renaming", "done", "dead"}

(* A state a process starts from when there is none to load.                *)
New == {}

StateInit ==
    /\ file = NoFile /\ tmp = NoFile
    /\ lock = None
    /\ at = [p \in Processes |-> "start"]
    /\ state = [p \in Processes |-> New]

Goto(p, l) == at' = [at EXCEPT ![p] = l]

(* load: `path.exists()` is asked before the lock is taken.                 *)
LoadMissing(p) ==
    /\ at[p] = "start" /\ file = NoFile
    /\ Goto(p, "working")
    /\ UNCHANGED <<file, tmp, lock, state>>

LoadFound(p) ==
    /\ at[p] = "start" /\ file # NoFile
    /\ Goto(p, "opening")
    /\ UNCHANGED <<file, tmp, lock, state>>

(* FileLock::acquire, blocking: in load and in save.                        *)
Acquire(p) ==
    /\ lock = None
    /\ \/ at[p] = "opening" /\ Goto(p, "loading")
       \/ at[p] = "saving" /\ Goto(p, "writing")
    /\ lock' = p
    /\ UNCHANGED <<file, tmp, state>>

(* FileLock::try_acquire found the lock held: the save is given up.         *)
SkipSave(p) ==
    /\ at[p] = "saving" /\ p \in BestEffort /\ lock # None
    /\ Goto(p, "done")
    /\ UNCHANGED <<file, tmp, lock, state>>

(* load_unlocked, and the guard's drop.  Content that does not parse is an  *)
(* error to the caller, who starts from a new state.                        *)
Load(p) ==
    /\ at[p] = "loading"
    /\ state' = [state EXCEPT ![p] = IF file \in {NoFile, Torn} THEN New ELSE file]
    /\ lock' = None
    /\ Goto(p, "working")
    /\ UNCHANGED <<file, tmp>>

(* The scan itself, and then record_batch or the pool's insert.             *)
RecordBatch(p) ==
    /\ at[p] = "working"
    /\ state' = [state EXCEPT ![p] = @ \cup {p}]
    /\ Goto(p, "saving")
    /\ UNCHANGED <<file, tmp, lock>>

(* Slip: the new content is written over the file itself.                   *)
WriteInPlace(p) ==
    /\ at[p] = "writing"
    /\ file' = Torn
    /\ Goto(p, "renaming")
    /\ UNCHANGED <<tmp, lock, state>>

(* save_unlocked: the temp file is written, which takes a while ...         *)
WriteTmp(p) ==
    /\ at[p] = "writing"
    /\ tmp' = Torn
    /\ Goto(p, "renaming")
    /\ UNCHANGED <<file, lock, state>>

(* Slip: the guard is leaked; the process lives on with the lock.           *)
RenameHolding(p) ==
    /\ at[p] = "renaming"
    /\ file' = state[p] /\ tmp' = NoFile
    /\ Goto(p, "done")
    /\ UNCHANGED <<lock, state>>

(* ... and, once whole, renamed over the file; the guard is dropped.        *)
Rename(p) ==
    /\ at[p] = "renaming"
    /\ file' = state[p] /\ tmp' = NoFile
    /\ lock' = None
    /\ Goto(p, "done")
    /\ UNCHANGED state

(* The process is killed; the kernel closes its descriptors.                *)
Die(p) ==
    /\ at[p] \notin {"done", "dead"}
    /\ lock' = IF lock = p THEN None ELSE lock
    /\ Goto(p, "dead")
    /\ UNCHANGED <<file, tmp, state>>

Step(p) ==
    \/ LoadMissing(p) \/ LoadFound(p) \/ Acquire(p) \/ SkipSave(p) \/ Load(p)
    \/ RecordBatch(p) \/ WriteTmp(p) \/ Rename(p)

(* Everyone has ended.                                                      *)
Ended == (\A p \in Processes : at[p] \in {"done", "dead"}) /\ UNCHANGED stateVars

StateNext == (\E p \in Processes : Step(p) \/ Die(p)) \/ Ended

(* A live process keeps running, and flock wakes a waiter when it is free.  *)
StateSpec == StateInit /\ [][StateNext]_stateVars /\ \A p \in Processes : WF_stateVars(Step(p))

-----------------------------------------------------------------------------

(* The type invariant.                                                      *)
StateTypeOK ==
    /\ file \in Contents /\ tmp \in Contents
    /\ lock \in Processes \cup {None}
    /\ at \in [Processes -> Points]
    /\ state \in [Processes -> SUBSET Processes]

(* No kill, at any point of a save, leaves a file that does not parse, and  *)
(* none loses the file once it exists: batch_state.rs's "starting fresh"    *)
(* branch is never taken because of an earlier crash.                       *)
FileWhole ==
    /\ file # Torn
    /\ (\E p \in Processes : at[p] = "done" /\ p \notin BestEffort) => file # NoFile

(* "Locks are kernel-managed - released automatically on process exit,      *)
(* crash, or SIGKILL": a process that wants to load or save is never left   *)
(* waiting behind a dead one.                                               *)
EveryoneEnds == \A p \in Processes : <>(at[p] \in {"done", "dead"})

=============================================================================
