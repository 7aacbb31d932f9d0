-------------------------- MODULE ScanResumeProofs --------------------------
(* Proofs about what a scan leaves on disk: the checkpoint and the caches   *)
(* (ScanResume), for every call graph and every bound, and the state files  *)
(* several processes share (StateFile, at the end), for any number of them. *)
EXTENDS ScanResume, StateFile, TLAPS

(* No entry of F names a version that has not been handed out yet.          *)
Known(F) == \A f \in Functions : \A p \in F[f] : p[2] <= edits

(* Stale maps can be unlinked.                                              *)
Unlinks == "unlink" \notin faults

(* If F lists f under its present source, the cache holds no map of f from  *)
(* another source.                                                          *)
Backed(F) ==
    \A f \in Functions :
        <<f, source[f]>> \in F[f] => maps[f] = NoFp \/ <<f, source[f]>> \in maps[f]

(* What the scan has done with a function, and what is then on disk.        *)
Progress ==
    \A f \in Functions :
        /\ status[f] = "skipped" => f \in selection.skip
        /\ status[f] \notin {"todo", "skipped"} => <<f, source[f]>> \in fp[f]
        /\ status[f] = "reused" => <<f, source[f]>> \in maps[f]
        /\ status[f] \in {"task", "ok", "failed", "dropped"} => maps[f] = NoFp
        /\ status[f] \in {"stored", "recorded"} =>
               maps[f] = NoFp \/ maps[f] = fp[f]

(* The functions of the earlier layers have been considered, and those of   *)
(* this layer once its task list is built.                                  *)
Considered ==
    /\ \A f \in Functions : InStratum(f) /\ LayerOf[f] < layer => status[f] # "todo"
    /\ pc \in {"explore", "store", "record", "save"} =>
           \A f \in InLayer : status[f] # "todo"

(* What the scan holds: what it has reused or explored, and, of the         *)
(* selected functions called from later layers, whatever it has prefetched. *)
Held ==
    \A f \in Functions :
        /\ \/ status[f] \in {"reused", "stored", "recorded"}
           \/ pc = "store" /\ f \in With("ok")
           => <<f, source[f]>> \in memory[f]
        /\ Selected(f) /\ CalledFromAbove(f) /\ memory[f] # NoFp
           => <<f, source[f]>> \in memory[f]

(* Versions are handed out one after the other.                             *)
VersionInv ==
    /\ TypeOK
    /\ \A f \in Functions : source[f] <= edits
    /\ Known(saved) /\ Known(completed) /\ Known(fp) /\ Known(deep)
    /\ pc = "idle" => \A f \in Functions : memory[f] = NoFp

(* The strengthened invariant, in histories in which a stale map can always *)
(* be unlinked.                                                             *)
HoldInv ==
    /\ Backed(saved) /\ Backed(completed)
    /\ pc # "idle" => Progress /\ Considered /\ Held

ResumeInv == VersionInv /\ (Unlinks => HoldInv)

-----------------------------------------------------------------------------

(* A deep fingerprint is a fingerprint, and holds the function's source.    *)
LEMMA DeepFpType ==
    ASSUME TypeOK, NEW f \in Functions
    PROVE  DeepFp(f) \in Fingerprints /\ <<f, source[f]>> \in DeepFp(f)
  <1>1. \A c \in Callees[f] : deep[c] \in Fingerprints
    BY CallGraphAssumption DEF TypeOK, CallGraphAssumption
  <1>2. UNION {deep[c] : c \in Callees[f]} \subseteq Functions \X Versions
    BY <1>1 DEF Fingerprints
  <1>3. <<f, source[f]>> \in Functions \X Versions
    BY DEF TypeOK
  <1> QED BY <1>2, <1>3 DEF DeepFp, Fingerprints

(* A deep fingerprint names no version that has not been handed out.        *)
LEMMA DeepFpKnown ==
    ASSUME TypeOK, Known(deep), \A g \in Functions : source[g] <= edits,
           NEW f \in Functions, NEW p \in DeepFp(f)
    PROVE  p[2] <= edits
  <1>1. CASE p = <<f, source[f]>>
    BY <1>1
  <1>2. CASE p \in UNION {deep[c] : c \in Callees[f]}
    <2>1. PICK c \in Callees[f] : p \in deep[c]
      BY <1>2
    <2>2. c \in Functions
      BY CallGraphAssumption DEF CallGraphAssumption
    <2> QED BY <2>1, <2>2 DEF Known
  <1> QED BY <1>1, <1>2 DEF DeepFp

(* The type invariant is inductive.                                         *)
LEMMA TypeStep == TypeOK /\ [Next]_vars => TypeOK'
  <1> SUFFICES ASSUME TypeOK, [Next]_vars PROVE TypeOK'
    OBVIOUS
  <1> USE BoundAssumption, SelectionAssumption, CallGraphAssumption
      DEF BoundAssumption, SelectionAssumption, CallGraphAssumption
  <1>0. Nothing \in [Functions -> Fingerprints]
    BY DEF Nothing, NoFp, Fingerprints
  <1>e. NoFp \in Fingerprints
    BY DEF NoFp, Fingerprints
  <1>1. CASE Start
    BY <1>0, <1>1 DEF Start, TypeOK, disk, Phases, Statuses, Reports
  <1>2. ASSUME Gone PROVE TypeOK'
    BY <1>0, <1>2 DEF Gone, TypeOK, disk, Phases, Statuses, Reports
  <1>3. CASE Deadline
    BY <1>3 DEF Deadline, TypeOK, disk, Phases, Reports
  <1>4. CASE EnterLayer \/ Built \/ Stored \/ Recorded
    BY <1>4 DEF EnterLayer, Built, Stored, Recorded, TypeOK, disk, Phases
  <1>5. CASE Joined
    BY <1>5 DEF Joined, TypeOK, disk, Phases
  <1>6. CASE SaveCheckpoint
    BY <1>6 DEF SaveCheckpoint, TypeOK, disk, Phases
  <1>s. ASSUME NEW f \in Functions, SkipByConfig(f) PROVE TypeOK'
    BY <1>s DEF SkipByConfig, TypeOK, disk, Statuses, Reports
  <1>7. ASSUME NEW f \in Functions, Reuse(f) PROVE TypeOK'
    BY <1>7, DeepFpType DEF Reuse, TypeOK, disk, Statuses, Reports
  <1>8. ASSUME NEW f \in Functions, Enqueue(f) PROVE TypeOK'
    <2>1. maps' \in [Functions -> Fingerprints]
      BY <1>8, <1>e DEF Enqueue, TypeOK
    <2>2. fp' \in [Functions -> Fingerprints]
      BY <1>8, DeepFpType DEF Enqueue, TypeOK
    <2>3. memory' \in [Functions -> Fingerprints]
      BY <1>8 DEF Enqueue, TypeOK
    <2>4. status' \in [Functions -> Statuses]
      BY <1>8 DEF Enqueue, TypeOK, Statuses
    <2> QED BY <1>8, <2>1, <2>2, <2>3, <2>4 DEF Enqueue, TypeOK
  <1>9. ASSUME NEW f \in Functions, Explored(f) \/ ExploreFailed(f) PROVE TypeOK'
    BY <1>9 DEF Explored, ExploreFailed, TypeOK, disk, Statuses
  <1>10. ASSUME NEW f \in Functions, StoreMap(f) PROVE TypeOK'
    BY <1>10 DEF StoreMap, TypeOK, Statuses
  <1>11. ASSUME NEW f \in Functions, RecordSuccess(f) PROVE TypeOK'
    BY <1>11 DEF RecordSuccess, TypeOK, Statuses, Reports
  <1>12. ASSUME NEW f \in Functions, RecordFailure(f) PROVE TypeOK'
    BY <1>12 DEF RecordFailure, TypeOK, disk, Statuses, Reports
  <1>13. ASSUME NEW f \in Functions, Edit(f) PROVE TypeOK'
    BY <1>13 DEF Edit, TypeOK, disk, scan, Versions
  <1>14. CASE UNCHANGED vars
    BY <1>14 DEF vars, disk, scan, TypeOK
  <1> QED
    BY <1>s, <1>1, <1>2, <1>3, <1>4, <1>5, <1>6, <1>7, <1>8, <1>9, <1>10, <1>11, <1>12,
       <1>13, <1>14 DEF Next, Crash, Finish, ResumeHit, CacheHit, Rest

(* The initial state satisfies the strengthened invariant.                  *)
LEMMA ResumeInit == Init => ResumeInv
  <1> SUFFICES ASSUME Init PROVE ResumeInv
    OBVIOUS
  <1> USE BoundAssumption DEF BoundAssumption
  <1>0. Nothing \in [Functions -> Fingerprints] /\ \A f \in Functions : Nothing[f] = {}
    BY DEF Nothing, NoFp, Fingerprints
  <1>1. TypeOK
    BY <1>0 DEF Init, TypeOK, Versions, Phases, Statuses, Reports
  <1>2. Known(saved) /\ Known(completed) /\ Known(fp) /\ Known(deep)
    BY <1>0 DEF Init, Known
  <1>3. Backed(saved) /\ Backed(completed)
    BY <1>0 DEF Init, Backed
  <1> QED BY <1>0, <1>1, <1>2, <1>3 DEF Init, ResumeInv, VersionInv, HoldInv, NoFp

(* No step names a version that has not been handed out.                    *)
LEMMA VersionStep == VersionInv /\ [Next]_vars => VersionInv'
  <1> SUFFICES ASSUME VersionInv, [Next]_vars PROVE VersionInv'
    OBVIOUS
  <1>t. TypeOK /\ TypeOK'
    BY TypeStep DEF VersionInv
  <1>n. \A f \in Functions : Nothing[f] = {}
    BY DEF Nothing, NoFp
  <1>1. CASE Start
    BY <1>1, <1>n, <1>t DEF Start, VersionInv, Known, disk
  <1>2. ASSUME Gone PROVE VersionInv'
    BY <1>2, <1>n, <1>t DEF Gone, VersionInv, Known, NoFp, disk
  <1>3. CASE Deadline \/ EnterLayer \/ Built \/ Stored \/ Recorded \/ Joined
    BY <1>3, <1>t DEF Deadline, EnterLayer, Built, Stored, Recorded, Joined, VersionInv, Known, disk
  <1>4. CASE SaveCheckpoint
    BY <1>4, <1>t DEF SaveCheckpoint, VersionInv, Known, TypeOK
  <1>5. ASSUME NEW f \in Functions,
               ResumeHit(f) \/ CacheHit(f) \/ Enqueue(f)
        PROVE  VersionInv'
    <2>1. /\ fp' = [fp EXCEPT ![f] = DeepFp(f)] /\ pc' = pc /\ pc # "idle"
          /\ edits' = edits /\ source' = source /\ saved' = saved
          /\ completed' = completed /\ deep' = deep
      BY <1>5 DEF ResumeHit, CacheHit, Reuse, Enqueue, disk
    <2>2. Known(fp)'
      <3> SUFFICES ASSUME NEW g \in Functions, NEW p \in fp'[g] PROVE p[2] <= edits
        BY <2>1 DEF Known
      <3>1. CASE g = f
        BY <3>1, <2>1, <1>t, DeepFpKnown DEF VersionInv, TypeOK
      <3>2. CASE g # f
        BY <3>2, <2>1, <1>t DEF TypeOK, VersionInv, Known
      <3> QED BY <3>1, <3>2
    <2> QED BY <2>1, <2>2, <1>t DEF VersionInv, Known
  <1>6. ASSUME NEW f \in Functions,
               \/ SkipByConfig(f) \/ Explored(f) \/ ExploreFailed(f)
               \/ StoreMap(f) \/ RecordSuccess(f) \/ RecordFailure(f)
        PROVE  VersionInv'
    BY <1>6, <1>t DEF SkipByConfig, Explored, ExploreFailed, StoreMap, RecordSuccess,
                      RecordFailure, VersionInv, Known, disk
  <1>7. ASSUME NEW f \in Functions, Edit(f) PROVE VersionInv'
    <2>1. edits' = edits + 1 /\ edits \in Nat
      BY <1>7, <1>t, BoundAssumption DEF Edit, TypeOK, Versions, BoundAssumption
    <2>2. \A g \in Functions : source'[g] <= edits'
      BY <1>7, <2>1, <1>t DEF Edit, VersionInv, TypeOK, Versions
    <2>3. \A F \in [Functions -> Fingerprints] :
             Known(F) => \A g \in Functions : \A p \in F[g] : p[2] <= edits + 1
      BY <2>1 DEF Known, Versions, Fingerprints
    <2>4. (Known(saved) /\ Known(completed) /\ Known(fp) /\ Known(deep))'
      BY <1>7, <1>t, <2>1, <2>3 DEF Edit, VersionInv, Known, TypeOK, disk, scan
    <2> QED BY <1>7, <1>t, <2>2, <2>4 DEF Edit, VersionInv, scan
  <1>8. CASE UNCHANGED vars
    BY <1>8, <1>t DEF vars, disk, scan, VersionInv, Known
  <1> QED
    BY <1>1, <1>2, <1>3, <1>4, <1>5, <1>6, <1>7, <1>8 DEF Next, Crash, Finish, Rest

(* A step of the scan that leaves the maps, the sources, the selection and  *)
(* the checkpoints alone.                                                   *)
Quiet ==
    /\ maps' = maps /\ source' = source /\ selection' = selection
    /\ saved' = saved /\ completed' = completed

(* It keeps them backed.                                                    *)
LEMMA QuietBacked ==
    ASSUME Backed(saved), Backed(completed), Quiet
    PROVE  Backed(saved)' /\ Backed(completed)'
  BY DEF Quiet, Backed

(* What is selected depends on the selection only.                          *)
LEMMA SameSelection ==
    ASSUME selection' = selection
    PROVE  \A f \in Functions : (Selected(f)' <=> Selected(f)) /\ (InStratum(f)' <=> InStratum(f))
  BY DEF Selected, InStratum

(* Every step keeps what the scan holds current, when no edit brings an     *)
(* earlier version back.                                                    *)
LEMMA HoldStep ==
    ASSUME ~Reverts, VersionInv, Unlinks, HoldInv, [Next]_vars
    PROVE  HoldInv'
  <1> USE CallGraphAssumption DEF CallGraphAssumption
  <1>t. TypeOK /\ TypeOK'
    BY TypeStep DEF VersionInv
  <1>l. layer \in Nat \ {0} /\ \A f \in Functions : LayerOf[f] \in Nat \ {0}
    BY <1>t DEF TypeOK
  <1>n. \A f \in Functions : Nothing[f] = {}
    BY DEF Nothing, NoFp
  <1>b. Backed(saved) /\ Backed(completed)
    BY DEF HoldInv
  <1>1. CASE Start
    <2>1. Backed(saved)' /\ Backed(completed)'
      BY <1>1, <1>b DEF Start, Backed, disk
    <2>2. Progress' /\ Held'
      BY <1>1, <1>n DEF Start, Progress, Held, NoFp
    <2>s. selection.first \in Nat /\ selection.last \in Nat
      BY <1>t, SelectionAssumption DEF TypeOK, SelectionAssumption
    <2>3. Considered'
      BY <1>1, <1>l, <2>s DEF Start, Considered, InStratum
    <2> QED BY <2>1, <2>2, <2>3 DEF HoldInv
  <1>2. ASSUME Gone PROVE HoldInv'
    <2>1. Backed(saved)' /\ Backed(completed)'
      BY <1>2, <1>n, <1>b DEF Gone, Backed, disk
    <2> QED BY <1>2, <2>1 DEF Gone, HoldInv
  <1>3. CASE Deadline \/ EnterLayer \/ Built \/ Stored \/ Recorded
    <2>1. /\ Quiet /\ status' = status /\ fp' = fp /\ memory' = memory /\ layer' = layer
          /\ pc # "idle" /\ pc' # "idle" /\ pc' # "store"
      BY <1>3 DEF Deadline, EnterLayer, Built, Stored, Recorded, Quiet, disk
    <2>2. Progress /\ Considered /\ Held
      BY <2>1 DEF HoldInv
    <2>3. Progress'
      BY <2>1, <2>2 DEF Progress, Quiet
    <2>4. Held'
      BY <2>1, <2>2, SameSelection DEF Held, Quiet
    <2>5. Considered'
      BY <1>3, <2>1, <2>2 DEF Deadline, EnterLayer, Built, Stored, Recorded, Considered,
                              With, InLayer, InStratum, Quiet
    <2> QED BY <1>b, <2>1, <2>3, <2>4, <2>5, QuietBacked DEF HoldInv
  <1>4. CASE Joined
    <2>1. /\ Quiet /\ status' = status /\ fp' = fp /\ layer' = layer
          /\ pc = "explore" /\ pc' = "store"
          /\ \A f \in Functions : memory'[f] = IF f \in With("ok") THEN fp[f] ELSE memory[f]
      BY <1>4 DEF Joined, Quiet, disk
    <2>2. Progress /\ Considered /\ Held
      BY <2>1 DEF HoldInv
    <2>3. Progress'
      BY <2>1, <2>2 DEF Progress, Quiet
    <2>4. Considered'
      BY <2>1, <2>2 DEF Considered, InLayer, InStratum, Quiet
    <2>5. Held'
      BY <2>1, <2>2, SameSelection DEF Held, Progress, With, InLayer, InStratum, Quiet
    <2> QED BY <1>b, <2>1, <2>3, <2>4, <2>5, QuietBacked DEF HoldInv
  <1>5. CASE SaveCheckpoint
    <2>1. /\ maps' = maps /\ source' = source /\ selection' = selection /\ status' = status
          /\ fp' = fp /\ memory' = memory /\ layer' = layer + 1 /\ pc = "save" /\ pc' = "layer"
      BY <1>5 DEF SaveCheckpoint
    <2>2. Progress /\ Considered /\ Held
      BY <2>1 DEF HoldInv
    <2>3. Backed(completed)'
      BY <1>5, <1>b, <2>2 DEF SaveCheckpoint, Backed, Progress, LayerFps, With
    <2>4. Backed(saved)'
      BY <1>5, <1>b, <2>3 DEF SaveCheckpoint, Backed
    <2>5. Progress'
      BY <2>1, <2>2 DEF Progress
    <2>6. Held'
      BY <2>1, <2>2, SameSelection DEF Held
    <2>7. Considered'
      BY <2>1, <2>2, <1>l DEF Considered, InLayer, InStratum
    <2> QED BY <2>3, <2>4, <2>5, <2>6, <2>7 DEF HoldInv
  <1>6. ASSUME NEW f \in Functions, ResumeHit(f) \/ CacheHit(f) PROVE HoldInv'
    <2>1. /\ Reuse(f) /\ Quiet /\ pc = "build" /\ pc' = pc /\ layer' = layer /\ f \in InLayer
      BY <1>6 DEF ResumeHit, CacheHit, Reuse, With, Quiet, disk
    <2>2. Progress /\ Considered /\ Held
      BY <2>1 DEF HoldInv
    <2>3. <<f, source[f]>> \in maps[f] /\ <<f, source[f]>> \in DeepFp(f)
      BY <1>6, <1>t, <1>b, DeepFpType DEF ResumeHit, CacheHit, is_completed, is_fresh, Backed
    <2>4. /\ status'[f] = "reused" /\ fp'[f] = DeepFp(f) /\ memory'[f] = maps[f]
          /\ \A g \in Functions : g # f =>
               status'[g] = status[g] /\ fp'[g] = fp[g] /\ memory'[g] = memory[g]
      BY <2>1, <1>t DEF Reuse, TypeOK
    <2>5. Progress'
      BY <2>1, <2>2, <2>3, <2>4 DEF Progress, Quiet
    <2>6. Considered'
      BY <2>1, <2>2, <2>4, <1>l DEF Considered, InLayer, InStratum, Quiet
    <2>7. Held'
      BY <2>1, <2>2, <2>3, <2>4, SameSelection DEF Held, Quiet
    <2> QED BY <1>b, <2>1, <2>5, <2>6, <2>7, QuietBacked DEF HoldInv
  <1>7. ASSUME NEW f \in Functions, Enqueue(f) PROVE HoldInv'
    <2>1. /\ source' = source /\ selection' = selection /\ saved' = saved
          /\ completed' = completed /\ layer' = layer /\ pc = "build" /\ pc' = pc
          /\ LayerOf[f] = layer /\ maps' = [maps EXCEPT ![f] = NoFp] /\ status[f] = "todo"
          /\ InStratum(f)
      BY <1>7 DEF Enqueue, Unlinks, With, InLayer
    <2>2. Progress /\ Considered /\ Held
      BY <2>1 DEF HoldInv
    <2>3. <<f, source[f]>> \in DeepFp(f)
      BY <1>t, DeepFpType
    <2>4. /\ status'[f] = "task" /\ fp'[f] = DeepFp(f) /\ maps'[f] = NoFp
          /\ \A g \in Functions : g # f =>
               status'[g] = status[g] /\ fp'[g] = fp[g] /\ maps'[g] = maps[g]
      BY <1>7, <2>1, <1>t DEF Enqueue, TypeOK
    <2>5. (Backed(saved) /\ Backed(completed))'
      BY <2>1, <2>4, <1>b DEF Backed
    <2>6. Progress'
      BY <2>1, <2>2, <2>3, <2>4 DEF Progress
    <2>7. Considered'
      BY <2>1, <2>2, <2>4, <1>l DEF Considered, InLayer, InStratum
    <2>8. Held'
      <3> SUFFICES ASSUME NEW g \in Functions
                   PROVE  /\ status'[g] \in {"reused", "stored", "recorded"}
                             => <<g, source[g]>> \in memory'[g]
                          /\ Selected(g) /\ CalledFromAbove(g) /\ memory'[g] # NoFp
                             => <<g, source[g]>> \in memory'[g]
        BY <2>1, SameSelection DEF Held
      <3>1. memory[g] # NoFp => memory'[g] = memory[g]
        BY <1>7 DEF Enqueue
      <3>2. ASSUME status'[g] \in {"reused", "stored", "recorded"}
            PROVE  <<g, source[g]>> \in memory'[g]
        <4>1. status'[g] = status[g]
          BY <2>4, <3>2
        <4> QED BY <2>2, <3>1, <3>2, <4>1 DEF Held, NoFp
      <3>3. ASSUME Selected(g), CalledFromAbove(g), memory'[g] # NoFp
            PROVE  <<g, source[g]>> \in memory'[g]
        <4>1. CASE memory[g] # NoFp
          BY <2>2, <3>1, <3>3, <4>1 DEF Held
        <4>2. CASE memory[g] = NoFp
          <5>1. g \in Callees[f] /\ memory'[g] = maps[g]
            BY <1>7, <3>3, <4>2 DEF Enqueue
          <5>2. LayerOf[g] < layer /\ InStratum(g) /\ g \notin selection.skip
            BY <2>1, <3>3, <5>1 DEF CalledFromAbove, Selected
          <5>3. status[g] # "todo" /\ status[g] # "skipped" /\ status[g] \in Statuses
            BY <2>2, <5>2, <1>t DEF Considered, Progress, TypeOK
          <5> QED BY <2>2, <3>3, <5>1, <5>3 DEF Progress, Statuses
        <4> QED BY <4>1, <4>2
      <3> QED BY <3>2, <3>3
    <2> QED BY <2>5, <2>6, <2>7, <2>8 DEF HoldInv
  <1>8. ASSUME NEW f \in Functions,
               \/ SkipByConfig(f) \/ Explored(f) \/ ExploreFailed(f)
               \/ RecordSuccess(f) \/ RecordFailure(f)
        PROVE  HoldInv'
    <2>1. /\ Quiet /\ pc' = pc /\ pc \in {"build", "explore", "record"}
          /\ layer' = layer /\ fp' = fp /\ memory' = memory
      BY <1>8 DEF SkipByConfig, Explored, ExploreFailed, RecordSuccess, RecordFailure, Quiet, disk
    <2>2. Progress /\ Considered /\ Held
      BY <2>1 DEF HoldInv
    <2>3. /\ \A g \in Functions : g # f => status'[g] = status[g]
          /\ \/ status'[f] = "skipped" /\ f \in selection.skip
             \/ status[f] = "task" /\ status'[f] \in {"ok", "failed"}
             \/ status[f] = "stored" /\ status'[f] = "recorded"
             \/ status[f] = "failed" /\ status'[f] = "dropped"
      BY <1>8, <1>t DEF SkipByConfig, Explored, ExploreFailed, RecordSuccess, RecordFailure,
                        TypeOK, With
    <2>4. Progress'
      BY <2>1, <2>2, <2>3 DEF Progress, Quiet
    <2>5. Considered'
      BY <2>1, <2>2, <2>3 DEF Considered, InLayer, InStratum, Quiet
    <2>6. Held'
      BY <2>1, <2>2, <2>3, SameSelection DEF Held, Quiet
    <2> QED BY <1>b, <2>1, <2>4, <2>5, <2>6, QuietBacked DEF HoldInv
  <1>9. ASSUME NEW f \in Functions, StoreMap(f) PROVE HoldInv'
    <2>1. /\ source' = source /\ selection' = selection /\ saved' = saved
          /\ completed' = completed /\ layer' = layer /\ pc = "store" /\ pc' = pc
          /\ fp' = fp /\ memory' = memory /\ f \in With("ok") /\ status[f] = "ok"
          /\ status'[f] = "stored"
          /\ maps'[f] = fp[f] \/ maps'[f] = maps[f]
          /\ \A g \in Functions : g # f => status'[g] = status[g] /\ maps'[g] = maps[g]
      BY <1>9, <1>t DEF StoreMap, With, TypeOK
    <2>2. Progress /\ Considered /\ Held
      BY <2>1 DEF HoldInv
    <2>3. (Backed(saved) /\ Backed(completed))'
      BY <2>1, <2>2, <1>b DEF Backed, Progress
    <2>4. Progress'
      BY <2>1, <2>2 DEF Progress
    <2>5. Considered'
      BY <2>1, <2>2 DEF Considered, InLayer, InStratum
    <2>6. Held'
      BY <2>1, <2>2, SameSelection DEF Held, With, InLayer, InStratum
    <2> QED BY <2>3, <2>4, <2>5, <2>6 DEF HoldInv
  <1>10. ASSUME NEW f \in Functions, Edit(f) PROVE HoldInv'
    <2>1. /\ source' = source \/ source' = [source EXCEPT ![f] = edits + 1]
          /\ pc' = "idle" /\ maps' = maps /\ saved' = saved /\ completed' = completed
      BY <1>10 DEF Edit, disk, scan
    <2>2. edits \in Nat
      BY <1>t, BoundAssumption DEF TypeOK, Versions, BoundAssumption
    <2>3. <<f, edits + 1>> \notin saved[f] /\ <<f, edits + 1>> \notin completed[f]
      BY <2>2 DEF VersionInv, Known
    <2>4. (Backed(saved) /\ Backed(completed))'
      BY <1>b, <1>t, <2>1, <2>3 DEF Backed, TypeOK
    <2> QED BY <2>1, <2>4 DEF HoldInv
  <1>11. CASE UNCHANGED vars
    <2>1. /\ Quiet /\ status' = status /\ fp' = fp /\ memory' = memory /\ layer' = layer /\ pc' = pc
      BY <1>11 DEF vars, disk, scan, Quiet
    <2>2. pc # "idle" => Progress' /\ Considered' /\ Held'
      BY <2>1, SameSelection DEF HoldInv, Progress, Considered, Held, With, InLayer, InStratum,
                                 Quiet
    <2> QED BY <1>b, <2>1, <2>2, QuietBacked DEF HoldInv
  <1> QED
    BY <1>1, <1>2, <1>3, <1>4, <1>5, <1>6, <1>7, <1>8, <1>9, <1>10, <1>11
    DEF Next, Crash, Finish, Rest

(* Which operations may fail is fixed at the start.                         *)
LEMMA FaultsStay == [Next]_vars => faults' = faults
  BY DEF Next, Start, Crash, Finish, Gone, Deadline, EnterLayer, Built, Joined, Stored,
         Recorded, SaveCheckpoint, Rest, SkipByConfig, ResumeHit, CacheHit, Reuse, Enqueue,
         Explored, ExploreFailed, StoreMap, RecordSuccess, RecordFailure, Edit, vars

-----------------------------------------------------------------------------

(* Type correctness of the scan's disk and memory state.                    *)
THEOREM TypeCorrect == Spec => []TypeOK
  <1>1. Init => TypeOK
    BY ResumeInit DEF ResumeInv, VersionInv
  <1> QED BY <1>1, TypeStep, PTL DEF Spec

(* For every call graph, mutual recursion included, and every selection:    *)
(* whatever crashed, and whichever write or exploration failed before, what *)
(* a scan has reused or explored was explored from the function's present   *)
(* source, and so was every map prefetched of a selected function called    *)
(* from later layers only, as long as edits bring no earlier version back   *)
(* and stale maps can be unlinked.                                          *)
THEOREM MapsMatchSource ==
    ASSUME ~Reverts
    PROVE  Spec => []MapsOfCurrentSource
  <1>1. ResumeInv => MapsOfCurrentSource
    BY DEF ResumeInv, VersionInv, HoldInv, Held, Unlinks, MapsOfCurrentSource
  <1>2. ResumeInv /\ [Next]_vars => ResumeInv'
    BY VersionStep, HoldStep, FaultsStay DEF ResumeInv, Unlinks
  <1> QED BY <1>1, <1>2, ResumeInit, PTL DEF Spec


-----------------------------------------------------------------------------
(* The scan's progress through the layers.                                  *)

(* What becomes of a function by the end of its layer.                      *)
Settled == {"skipped", "reused", "recorded", "dropped"}

(* The statuses the functions of the current layer have at each phase.      *)
StatusesAt == [layer |-> {"todo"}, done |-> {"todo"},
               build |-> {"todo", "skipped", "reused", "task"},
               explore |-> {"skipped", "reused", "task", "ok", "failed"},
               store |-> {"skipped", "reused", "ok", "stored", "failed"},
               record |-> {"skipped", "reused", "stored", "failed", "recorded", "dropped"},
               save |-> Settled]

(* The selected layers are gone through in order.                           *)
Staged ==
    \A f \in Functions :
        /\ InStratum(f) /\ LayerOf[f] < layer => status[f] \in Settled
        /\ ~InStratum(f) \/ LayerOf[f] > layer => status[f] = "todo"
        /\ InStratum(f) /\ LayerOf[f] = layer => status[f] \in StatusesAt[pc]
        /\ status[f] = "skipped" => f \in selection.skip
        /\ f \in selection.skip => status[f] \in {"todo", "skipped"}

(* A function that is settled, or that the deadline left out, is reported.  *)
Listed ==
    \A f \in Functions :
        status[f] \in Settled \/ (pc = "done" /\ InStratum(f)) => reported[f] # "none"

OrderInv == TypeOK /\ (pc # "idle" => Staged /\ Listed /\ layer >= selection.first)

(* What the map cache would make of f's deep fingerprint.                   *)
Whole(f) == {<<f, source[f]>>} \cup UNION {maps[c] : c \in Before(f)}

(* The fingerprint of f depends on no exploration that may fail, or that    *)
(* of its callees does not.                                                 *)
Steady(f) == "explore" \notin faults \/ Before(f) = {}
Grounded(f) == \A c \in Before(f) : Steady(c)

(* A map of a steady function is whole, and so are its callees'.            *)
SteadyMaps ==
    \A f \in Functions : Steady(f) /\ maps[f] # NoFp =>
        maps[f] = Whole(f) /\ \A c \in Before(f) : maps[c] # NoFp

(* What a checkpoint C lists was completed over the maps on disk; if the    *)
(* map was unlinked since, a callee has been explored that it lacks.        *)
Entries(C) ==
    \A f \in Functions : Grounded(f) /\ C[f] # NoFp =>
        /\ <<f, source[f]>> \in C[f] /\ C[f] \subseteq Whole(f)
        /\ maps[f] = NoFp => \E c \in Before(f) : ~(maps[c] \subseteq C[f])

(* The scan's fingerprints are those of the maps on disk.                   *)
ScanMapOf(f) ==
    /\ status[f] \notin {"todo", "skipped"} => <<f, source[f]>> \in fp[f]
    /\ status[f] \notin {"todo", "skipped"} /\ Grounded(f) => fp[f] = Whole(f)
    /\ status[f] = "reused" => maps[f] # NoFp
    /\ status[f] \in {"task", "ok", "failed", "dropped"} => maps[f] = NoFp
    /\ status[f] \in {"stored", "recorded"} => maps[f] = fp[f]
    /\ status[f] \in {"failed", "dropped"} => "explore" \in faults
    /\ LayerOf[f] < layer =>
         deep[f] = IF status[f] \in {"todo", "skipped", "dropped"} THEN NoFp ELSE fp[f]
    /\ LayerOf[f] >= layer => deep[f] = NoFp
    /\ status[f] = "todo" => saved[f] = completed[f]

ScanMaps == \A f \in Functions : ScanMapOf(f)

(* The invariant of ResumeSkips, in the histories it is about.              *)
SkipParts ==
    /\ SteadyMaps /\ Entries(saved) /\ Entries(completed)
    /\ pc # "idle" => ScanMaps

SkipInv == {"map", "unlink"} \cap faults = {} /\ edits = 0 => SkipParts

(* A step of the scan with one function of the current layer.               *)
OfFunction(f) ==
    \/ SkipByConfig(f) \/ ResumeHit(f) \/ CacheHit(f) \/ Enqueue(f) \/ Explored(f)
    \/ ExploreFailed(f) \/ StoreMap(f) \/ RecordSuccess(f) \/ RecordFailure(f)

-----------------------------------------------------------------------------

(* The scan goes through the layers in order, and reports what it settles.  *)
LEMMA OrderStep == OrderInv /\ [Next]_vars => OrderInv'
  <1> SUFFICES ASSUME OrderInv, [Next]_vars PROVE OrderInv'
    OBVIOUS
  <1> USE CallGraphAssumption DEF CallGraphAssumption
  <1>t. TypeOK /\ TypeOK'
    BY TypeStep DEF OrderInv
  <1>i. layer \in Nat \ {0} /\ \A f \in Functions : LayerOf[f] \in Nat \ {0}
    BY <1>t DEF TypeOK
  <1>s. selection.first \in Nat /\ selection.last \in Nat
    BY <1>t, SelectionAssumption DEF TypeOK, SelectionAssumption
  <1>n. pc # "idle" => Staged /\ Listed /\ layer >= selection.first
    BY DEF OrderInv
  <1>1. CASE Start
    <2>1. Staged'
      BY <1>1, <1>i, <1>s DEF Start, Staged, StatusesAt, InStratum
    <2>2. Listed'
      BY <1>1 DEF Start, Listed, Settled
    <2>3. layer' >= selection'.first
      BY <1>1, <1>s DEF Start
    <2> QED BY <1>t, <2>1, <2>2, <2>3 DEF OrderInv
  <1>2. CASE Gone
    BY <1>2, <1>t DEF Gone, OrderInv
  <1>3. CASE Deadline
    <2>1. /\ pc = "layer" /\ pc' = "done" /\ status' = status /\ layer' = layer
          /\ selection' = selection
          /\ \A f \in Functions : reported'[f] =
               IF InStratum(f) /\ LayerOf[f] >= layer THEN "skipped" ELSE reported[f]
      BY <1>3 DEF Deadline
    <2>2. Staged'
      BY <2>1, <1>n DEF Staged, StatusesAt, InStratum
    <2>3. Listed'
      BY <2>1, <1>n, <1>i, SameSelection DEF Staged, Listed
    <2> QED BY <1>t, <1>n, <2>1, <2>2, <2>3 DEF OrderInv
  <1>4. CASE EnterLayer \/ Built \/ Joined \/ Stored \/ Recorded
    <2>1. /\ pc \notin {"idle", "done"} /\ pc' \notin {"idle", "done"} /\ status' = status
          /\ layer' = layer /\ selection' = selection /\ reported' = reported
      BY <1>4 DEF EnterLayer, Built, Joined, Stored, Recorded
    <2>2. ASSUME NEW f \in Functions, InStratum(f), LayerOf[f] = layer
          PROVE  status[f] \in StatusesAt[pc']
      <3>1. f \in InLayer /\ status[f] \in StatusesAt[pc]
        BY <2>1, <2>2, <1>n DEF InLayer, Staged
      <3>2. CASE EnterLayer \/ Joined
        BY <3>1, <3>2 DEF EnterLayer, Joined, StatusesAt, With
      <3>3. CASE Built
        BY <3>1, <3>3 DEF Built, StatusesAt, Settled, With
      <3>4. CASE Stored
        BY <3>1, <3>4 DEF Stored, StatusesAt, With
      <3>5. CASE Recorded
        BY <3>1, <3>5 DEF Recorded, StatusesAt, Settled, With
      <3> QED BY <1>4, <3>2, <3>3, <3>4, <3>5
    <2>3. Staged'
      BY <2>1, <2>2, <1>n, SameSelection DEF Staged
    <2>4. Listed'
      BY <2>1, <1>n DEF Listed
    <2> QED BY <1>t, <1>n, <2>1, <2>3, <2>4 DEF OrderInv
  <1>9. CASE SaveCheckpoint
    <2>0. /\ pc = "save" /\ pc' = "layer" /\ status' = status /\ layer' = layer + 1
          /\ selection' = selection /\ reported' = reported
      BY <1>9 DEF SaveCheckpoint
    <2>1. Staged'
      BY <2>0, <1>n, <1>i, SameSelection DEF Staged, StatusesAt
    <2>2. Listed'
      BY <2>0, <1>n DEF Listed
    <2>3. layer' >= selection'.first
      BY <2>0, <1>i, <1>s, <1>n
    <2> QED BY <1>t, <2>1, <2>2, <2>3 DEF OrderInv
  <1>10. ASSUME NEW f \in Functions, OfFunction(f) PROVE OrderInv'
    <2>1. /\ pc # "idle" /\ pc # "done" /\ pc' = pc /\ layer' = layer
          /\ LayerOf[f] = layer /\ InStratum(f) /\ selection' = selection
      BY <1>10 DEF OfFunction, SkipByConfig, ResumeHit, CacheHit, Reuse, Enqueue, Explored,
                   ExploreFailed, StoreMap, RecordSuccess, RecordFailure, With, InLayer
    <2>2. \A g \in Functions : g # f => status'[g] = status[g] /\ reported'[g] = reported[g]
      BY <1>10, <1>t DEF OfFunction, SkipByConfig, ResumeHit, CacheHit, Reuse, Enqueue, Explored,
                   ExploreFailed, StoreMap, RecordSuccess, RecordFailure, TypeOK
    <2>3. /\ status'[f] \in StatusesAt[pc] /\ (status'[f] \in Settled => reported'[f] # "none")
          /\ status'[f] = "skipped" <=> f \in selection.skip
      <3>1. CASE ResumeHit(f) \/ CacheHit(f)
        BY <3>1, <1>t DEF ResumeHit, CacheHit, Reuse, TypeOK, StatusesAt
      <3>2. CASE Enqueue(f)
        BY <3>2, <1>t DEF Enqueue, TypeOK, StatusesAt, Settled
      <3>3. CASE SkipByConfig(f)
        BY <3>3, <1>t DEF SkipByConfig, TypeOK, StatusesAt
      <3>4. CASE Explored(f) \/ ExploreFailed(f) \/ StoreMap(f)
        <4>1. f \notin selection.skip
          BY <3>4, <2>1, <1>n DEF Explored, ExploreFailed, StoreMap, With, Staged
        <4> QED BY <3>4, <4>1, <1>t DEF Explored, ExploreFailed, StoreMap, TypeOK,
                          StatusesAt, Settled
      <3>5. CASE RecordSuccess(f) \/ RecordFailure(f)
        <4>1. f \notin selection.skip
          BY <3>5, <2>1, <1>n DEF RecordSuccess, RecordFailure, With, Staged
        <4> QED BY <3>5, <4>1, <1>t DEF RecordSuccess, RecordFailure, TypeOK, StatusesAt
      <3> QED BY <1>10, <3>1, <3>2, <3>3, <3>4, <3>5 DEF OfFunction
    <2>4. Staged'
      BY <2>1, <2>2, <2>3, <1>n, <1>i, SameSelection DEF Staged
    <2>5. Listed'
      BY <2>1, <2>2, <2>3, <1>n DEF Listed
    <2> QED BY <1>t, <1>n, <2>1, <2>4, <2>5 DEF OrderInv
  <1>11. ASSUME NEW f \in Functions, Edit(f) PROVE OrderInv'
    BY <1>11, <1>t DEF Edit, OrderInv, scan
  <1>12. CASE UNCHANGED vars
    BY <1>12, <1>t, SameSelection DEF vars, scan, OrderInv, Staged, Listed
  <1> QED
    BY <1>1, <1>2, <1>3, <1>4, <1>9, <1>10, <1>11, <1>12
    DEF Next, OfFunction, Crash, Finish, Rest

(* The initial state has no scan.                                           *)
LEMMA OrderInit == Init => OrderInv
  BY ResumeInit DEF ResumeInv, VersionInv, OrderInv, Init

-----------------------------------------------------------------------------
(* ResumeSkips: why an entry of the checkpoint keeps its map.               *)

(* They are functions of earlier layers.                                    *)
LEMMA CalleesBelow ==
    ASSUME NEW f \in Functions, NEW c \in Before(f)
    PROVE  /\ c \in Functions /\ c \in Callees[f] /\ Selected(c)
           /\ LayerOf[c] \in Nat /\ LayerOf[f] \in Nat /\ LayerOf[c] < LayerOf[f]
  BY CallGraphAssumption DEF CallGraphAssumption, Before

(* They depend on the selection only.                                       *)
LEMMA SameBefore ==
    ASSUME selection' = selection
    PROVE  \A f \in Functions : Before(f)' = Before(f)
  BY CallGraphAssumption, SameSelection DEF Before, CallGraphAssumption

(* A steady function's callees are steady.                                  *)
LEMMA SteadyGrounded == ASSUME NEW f \in Functions, Steady(f) PROVE Grounded(f)
  BY DEF Steady, Grounded

(* Whole reads the maps of the callees only.                                *)
LEMMA WholeSame ==
    ASSUME NEW f \in Functions, source' = source, selection' = selection,
           \A c \in Before(f) : maps'[c] = maps[c]
    PROVE  Whole(f)' = Whole(f)
  BY SameBefore DEF Whole

(* In its layer, a grounded function's deep fingerprint is the one the      *)
(* cache makes: every callee is settled, and its fingerprint is its map's.  *)
LEMMA DeepIsWhole ==
    ASSUME Staged, SteadyMaps, ScanMaps, NEW f \in Functions, Grounded(f),
           LayerOf[f] = layer
    PROVE  DeepFp(f) = Whole(f)
  <1>1. ASSUME NEW c \in Before(f) PROVE deep[c] = maps[c]
    <2>1. /\ c \in Functions /\ LayerOf[c] < layer /\ Steady(c)
          /\ InStratum(c) /\ c \notin selection.skip
      BY CalleesBelow DEF Grounded, Selected
    <2>2. Grounded(c)
      BY <2>1, SteadyGrounded
    <2>3. CASE status[c] = "reused"
      BY <2>1, <2>2, <2>3 DEF SteadyMaps, ScanMaps, ScanMapOf
    <2>4. CASE status[c] = "recorded"
      BY <2>1, <2>4 DEF ScanMaps, ScanMapOf
    <2>5. CASE status[c] = "dropped"
      BY <2>1, <2>5 DEF ScanMaps, ScanMapOf
    <2> QED BY <2>1, <2>3, <2>4, <2>5 DEF Staged, Settled
  <1>2. ASSUME NEW c \in Callees[f], c \notin Before(f) PROVE deep[c] = NoFp
    <2>1. c \in Functions /\ LayerOf[c] \in Nat /\ layer \in Nat
      BY CallGraphAssumption DEF CallGraphAssumption
    <2>2. CASE LayerOf[c] >= layer
      BY <2>1, <2>2 DEF ScanMaps, ScanMapOf
    <2>3. CASE LayerOf[c] < layer
      <3>1. ~Selected(c)
        BY <1>2, <2>3 DEF Before
      <3>2. status[c] \in {"todo", "skipped"}
        BY <2>1, <3>1 DEF Selected, Staged
      <3> QED BY <2>1, <2>3, <3>2 DEF ScanMaps, ScanMapOf
    <2> QED BY <2>1, <2>2, <2>3
  <1>3. Before(f) \subseteq Callees[f]
    BY DEF Before
  <1> QED BY <1>1, <1>2, <1>3 DEF DeepFp, Whole, NoFp

(* The cached map of a steady function is fresh.                            *)
LEMMA SteadyIsFresh ==
    ASSUME Staged, SteadyMaps, ScanMaps, NEW f \in Functions, Steady(f),
           LayerOf[f] = layer, ~is_fresh(f, DeepFp(f))
    PROVE  maps[f] = NoFp
  <1>1. DeepFp(f) = Whole(f)
    BY DeepIsWhole, SteadyGrounded
  <1> QED BY <1>1 DEF SteadyMaps, is_fresh

(* A map is unlinked only when the function's fingerprint has grown.        *)
LEMMA EnqueueSkips ==
    ASSUME TypeOK, Staged, SkipParts, pc # "idle", "unlink" \notin faults,
           NEW f \in Functions, Enqueue(f)
    PROVE  SkipParts'
  <1> USE DEF SkipParts
  <1>1. /\ source' = source /\ selection' = selection /\ faults' = faults
        /\ saved' = saved /\ completed' = completed
        /\ deep' = deep /\ layer' = layer /\ pc' = pc
        /\ LayerOf[f] = layer /\ status[f] = "todo"
        /\ ~is_completed(f, DeepFp(f)) /\ ~is_fresh(f, DeepFp(f))
    BY DEF Enqueue, With, InLayer
  <1>2. \A g \in Functions : g # f =>
            maps'[g] = maps[g] /\ status'[g] = status[g] /\ fp'[g] = fp[g]
    BY DEF Enqueue, TypeOK
  <1>3. maps'[f] = NoFp /\ status'[f] = "task" /\ fp'[f] = DeepFp(f)
    BY DEF Enqueue, TypeOK
  <1>4. ASSUME NEW g \in Functions, Steady(g) PROVE maps'[g] = maps[g]
    BY <1>1, <1>2, <1>3, <1>4, SteadyIsFresh
  <1>5. ASSUME NEW g \in Functions, Grounded(g) PROVE Whole(g)' = Whole(g)
    <2>1. \A c \in Before(g) : maps'[c] = maps[c]
      BY <1>4, <1>5, CalleesBelow DEF Grounded
    <2> QED BY <1>1, <2>1, WholeSame
  <1>6. \A g \in Functions : (Steady(g)' <=> Steady(g)) /\ (Grounded(g)' <=> Grounded(g))
    BY <1>1, SameBefore, CalleesBelow DEF Steady, Grounded
  <1>7. SteadyMaps'
    <2> SUFFICES ASSUME NEW g \in Functions, Steady(g)', maps'[g] # NoFp
                 PROVE  maps'[g] = Whole(g)' /\ \A c \in Before(g) : maps'[c] # NoFp
      BY <1>1, SameBefore DEF SteadyMaps
    <2>1. Steady(g) /\ Grounded(g) /\ maps'[g] = maps[g]
      BY <1>4, <1>6, SteadyGrounded
    <2>2. \A c \in Before(g) : maps'[c] = maps[c]
      BY <1>4, <2>1, CalleesBelow DEF Grounded
    <2> QED BY <1>5, <2>1, <2>2 DEF SteadyMaps
  <1>8. ASSUME NEW C, Entries(C), C[f] = completed[f],
               NEW g \in Functions, Grounded(g), C[g] # NoFp
        PROVE  /\ <<g, source[g]>> \in C[g] /\ C[g] \subseteq Whole(g)
               /\ maps'[g] = NoFp => \E c \in Before(g) : ~(maps'[c] \subseteq C[g])
    <2>1. /\ <<g, source[g]>> \in C[g] /\ C[g] \subseteq Whole(g)
          /\ maps[g] = NoFp => \E c \in Before(g) : ~(maps[c] \subseteq C[g])
      BY <1>8 DEF Entries
    <2>2. \A c \in Before(g) : maps'[c] = maps[c]
      BY <1>4, <1>8, CalleesBelow DEF Grounded
    <2>3. CASE g # f \/ maps[g] = NoFp
      BY <1>2, <2>1, <2>2, <2>3
    <2>4. CASE g = f /\ maps[g] # NoFp
      <3>1. DeepFp(f) = Whole(f)
        BY <1>1, <1>8, <2>4, DeepIsWhole
      <3>2. C[f] # Whole(f)
        BY <1>1, <1>8, <2>4, <3>1 DEF is_completed
      <3>3. PICK p \in Whole(f) : p \notin C[f]
        BY <2>1, <2>4, <3>2
      <3>4. PICK c \in Before(f) : p \in maps[c]
        BY <2>1, <2>4, <3>3 DEF Whole
      <3> QED BY <2>1, <2>2, <2>4, <3>3, <3>4
    <2> QED BY <2>3, <2>4
  <1>9. saved[f] = completed[f]
    BY <1>1 DEF ScanMaps, ScanMapOf
  <1>10. Entries(saved)' /\ Entries(completed)'
    <2>1. Entries(saved)'
      BY <1>1, <1>5, <1>6, <1>8, <1>9, SameBefore DEF Entries
    <2>2. Entries(completed)'
      BY <1>1, <1>5, <1>6, <1>8, SameBefore DEF Entries
    <2> QED BY <2>1, <2>2
  <1>11. ScanMaps'
    <2>1. <<f, source[f]>> \in DeepFp(f)
      BY DeepFpType
    <2>2. Grounded(f) => fp'[f] = Whole(f)
      BY <1>1, <1>3, DeepIsWhole
    <2>n. layer \in Nat
      BY DEF TypeOK
    <2>3. ScanMapOf(f)'
      BY <1>1, <1>3, <1>5, <1>6, <2>n, <2>1, <2>2 DEF ScanMaps, ScanMapOf
    <2>4. ASSUME NEW g \in Functions, g # f PROVE ScanMapOf(g)'
      BY <1>1, <1>2, <1>5, <1>6, <2>4 DEF ScanMaps, ScanMapOf
    <2> QED BY <2>3, <2>4 DEF ScanMaps
  <1> QED BY <1>7, <1>10, <1>11

(* A stored map is whole, and only adds to what the callers are made of.    *)
LEMMA StoreMapSkips ==
    ASSUME TypeOK, Staged, SkipParts, pc # "idle", {"map", "unlink"} \cap faults = {},
           NEW f \in Functions, StoreMap(f)
    PROVE  SkipParts'
  <1> USE DEF SkipParts
  <1>1. /\ source' = source /\ selection' = selection /\ faults' = faults
        /\ saved' = saved /\ completed' = completed
        /\ deep' = deep /\ layer' = layer /\ pc' = pc /\ fp' = fp
        /\ LayerOf[f] = layer /\ status[f] = "ok"
    BY DEF StoreMap, With, InLayer
  <1>2. \A g \in Functions : g # f => maps'[g] = maps[g] /\ status'[g] = status[g]
    BY DEF StoreMap, TypeOK
  <1>3. maps'[f] = fp[f] /\ status'[f] = "stored" /\ maps[f] = NoFp
    BY <1>1 DEF StoreMap, TypeOK, ScanMaps, ScanMapOf
  <1>4. <<f, source[f]>> \in fp[f] /\ (Grounded(f) => fp[f] = Whole(f))
    BY <1>1 DEF ScanMaps, ScanMapOf
  <1>5. \A g \in Functions : (Steady(g)' <=> Steady(g)) /\ (Grounded(g)' <=> Grounded(g))
    BY <1>1, SameBefore, CalleesBelow DEF Steady, Grounded
  <1>6. ASSUME NEW g \in Functions, f \notin Before(g) PROVE Whole(g)' = Whole(g)
    <2>1. \A c \in Before(g) : maps'[c] = maps[c]
      BY <1>2, <1>6, CalleesBelow
    <2> QED BY <1>1, <2>1, WholeSame
  <1>7. ASSUME NEW g \in Functions PROVE Whole(g) \subseteq Whole(g)'
    <2>1. \A c \in Before(g) : maps[c] \subseteq maps'[c]
      BY <1>2, <1>3, CalleesBelow DEF NoFp
    <2> QED BY <1>1, <2>1, SameBefore DEF Whole
  <1>8. f \notin Before(f)
    BY CalleesBelow
  <1>9. SteadyMaps'
    <2> SUFFICES ASSUME NEW g \in Functions, Steady(g)', maps'[g] # NoFp
                 PROVE  maps'[g] = Whole(g)' /\ \A c \in Before(g) : maps'[c] # NoFp
      BY <1>1, SameBefore DEF SteadyMaps
    <2>1. Steady(g) /\ Grounded(g)
      BY <1>5, SteadyGrounded
    <2>2. CASE g = f
      <3>1. ASSUME NEW c \in Before(f) PROVE maps'[c] # NoFp
        <4>1. /\ c \in Functions /\ LayerOf[c] < layer /\ c # f
              /\ InStratum(c) /\ c \notin selection.skip
          BY <1>1, <1>8, CalleesBelow DEF Selected
        <4>2. status[c] \in {"reused", "recorded"}
          BY <2>1, <2>2, <4>1 DEF Steady, Staged, Settled, ScanMaps, ScanMapOf
        <4> QED BY <1>2, <4>1, <4>2 DEF ScanMaps, ScanMapOf, NoFp
      <3> QED BY <1>3, <1>4, <1>6, <1>8, <2>1, <2>2, <3>1
    <2>3. CASE g # f
      <3>1. maps[g] # NoFp
        BY <1>2, <2>3
      <3>2. f \notin Before(g)
        BY <1>3, <2>1, <3>1 DEF SteadyMaps
      <3>3. \A c \in Before(g) : maps'[c] = maps[c]
        BY <1>2, <3>2, CalleesBelow
      <3> QED BY <1>2, <1>6, <2>1, <2>3, <3>1, <3>2, <3>3 DEF SteadyMaps
    <2> QED BY <2>2, <2>3
  <1>10. ASSUME NEW C, Entries(C), NEW g \in Functions, Grounded(g), C[g] # NoFp
         PROVE  /\ <<g, source[g]>> \in C[g] /\ C[g] \subseteq Whole(g)'
                /\ maps'[g] = NoFp => \E c \in Before(g) : ~(maps'[c] \subseteq C[g])
    <2>1. /\ <<g, source[g]>> \in C[g] /\ C[g] \subseteq Whole(g)
          /\ maps[g] = NoFp => \E c \in Before(g) : ~(maps[c] \subseteq C[g])
      BY <1>10 DEF Entries
    <2>2. \A c \in Before(g) : maps[c] \subseteq maps'[c]
      BY <1>2, <1>3, CalleesBelow DEF NoFp
    <2>3. maps'[g] = NoFp => maps[g] = NoFp
      BY <1>2, <1>3
    <2> QED BY <1>7, <2>1, <2>2, <2>3
  <1>11. Entries(saved)' /\ Entries(completed)'
    <2>1. Entries(saved)'
      BY <1>1, <1>5, <1>10, SameBefore DEF Entries
    <2>2. Entries(completed)'
      BY <1>1, <1>5, <1>10, SameBefore DEF Entries
    <2> QED BY <2>1, <2>2
  <1>12. ScanMaps'
    <2>1. ASSUME NEW g \in Functions, status'[g] \notin {"todo", "skipped"}, Grounded(g)
          PROVE  fp'[g] = Whole(g)'
      <3>1. status[g] \notin {"todo", "skipped"}
        BY <1>1, <1>2, <2>1
      <3>2. f \notin Before(g)
        BY <1>1, <3>1, CalleesBelow DEF Staged
      <3> QED BY <1>1, <1>6, <2>1, <3>1, <3>2 DEF ScanMaps, ScanMapOf
    <2> QED BY <1>1, <1>2, <1>3, <1>5, <2>1 DEF ScanMaps, ScanMapOf
  <1> QED BY <1>9, <1>11, <1>12

(* A step that leaves the maps, the sources, the selection and the faults   *)
(* alone.                                                                   *)
MapsStay ==
    maps' = maps /\ source' = source /\ selection' = selection /\ faults' = faults

(* It leaves what is made of them alone.                                    *)
LEMMA SameMaps ==
    ASSUME MapsStay, SteadyMaps
    PROVE  /\ SteadyMaps'
           /\ \A f \in Functions : (Grounded(f)' <=> Grounded(f)) /\ Whole(f)' = Whole(f)
           /\ Entries(saved) /\ saved' = saved => Entries(saved)'
           /\ Entries(completed) /\ completed' = completed => Entries(completed)'
           /\ Entries(saved) /\ completed' = saved => Entries(completed)'
           /\ completed' = Nothing => Entries(completed)'
  <1> USE DEF MapsStay
  <1>1. \A f \in Functions : (Steady(f)' <=> Steady(f)) /\ (Grounded(f)' <=> Grounded(f))
                              /\ Whole(f)' = Whole(f)
    BY SameBefore, CalleesBelow DEF Steady, Grounded, Whole
  <1>2. SteadyMaps'
    BY <1>1, SameBefore DEF SteadyMaps
  <1>3. Entries(saved) /\ saved' = saved => Entries(saved)'
    BY <1>1, SameBefore DEF Entries
  <1>4. Entries(completed) /\ completed' = completed => Entries(completed)'
    BY <1>1, SameBefore DEF Entries
  <1>5. Entries(saved) /\ completed' = saved => Entries(completed)'
    BY <1>1, SameBefore DEF Entries
  <1>6. completed' = Nothing => Entries(completed)'
    BY DEF Entries, Nothing
  <1> QED BY <1>1, <1>2, <1>3, <1>4, <1>5, <1>6

(* A reused function's map is the one its fingerprint names.                *)
LEMMA ReuseSkips ==
    ASSUME TypeOK, Staged, SkipParts, pc # "idle", NEW f \in Functions,
           ResumeHit(f) \/ CacheHit(f)
    PROVE  SkipParts'
  <1>1. /\ MapsStay /\ saved' = saved /\ completed' = completed
        /\ deep' = deep /\ layer' = layer /\ pc' = pc
        /\ LayerOf[f] = layer /\ status[f] = "todo"
    BY DEF ResumeHit, CacheHit, Reuse, With, InLayer, MapsStay, disk
  <1>2. /\ \A g \in Functions : g # f => status'[g] = status[g] /\ fp'[g] = fp[g]
        /\ status'[f] = "reused" /\ fp'[f] = DeepFp(f)
    BY DEF ResumeHit, CacheHit, Reuse, TypeOK
  <1>3. <<f, source[f]>> \in DeepFp(f) /\ (Grounded(f) => DeepFp(f) = Whole(f))
    BY <1>1, DeepFpType, DeepIsWhole DEF SkipParts
  <1>4. maps[f] # NoFp
    BY <1>3 DEF ResumeHit, CacheHit, is_completed, is_fresh, NoFp
  <1>5. \A g \in Functions : (Grounded(g)' <=> Grounded(g)) /\ Whole(g)' = Whole(g)
    BY <1>1, SameMaps DEF SkipParts
  <1>n. layer \in Nat
    BY DEF TypeOK
  <1>6. ScanMapOf(f)'
    BY <1>n, <1>1, <1>2, <1>3, <1>4, <1>5 DEF SkipParts, ScanMaps, ScanMapOf, MapsStay
  <1>7. ASSUME NEW g \in Functions, g # f PROVE ScanMapOf(g)'
    BY <1>1, <1>2, <1>5, <1>7 DEF SkipParts, ScanMaps, ScanMapOf, MapsStay
  <1>8. ScanMaps'
    BY <1>6, <1>7 DEF ScanMaps
  <1> QED BY <1>1, <1>8, SameMaps DEF SkipParts

(* A layer's end marks what has a map under the fingerprint it is marked    *)
(* with.                                                                    *)
LEMMA SaveSkips ==
    ASSUME TypeOK, Staged, SkipParts, pc # "idle", SaveCheckpoint
    PROVE  SkipParts'
  <1>1. /\ MapsStay /\ status' = status /\ fp' = fp /\ layer' = layer + 1 /\ pc = "save"
        /\ saved' = completed' \/ saved' = saved
    BY DEF SaveCheckpoint, MapsStay
  <1>2. \A g \in Functions :
            /\ completed'[g] = IF g \in LayerFps THEN fp[g] ELSE completed[g]
            /\ deep'[g] = IF g \in LayerFps THEN fp[g] ELSE deep[g]
    BY DEF SaveCheckpoint
  <1>3. \A g \in Functions : (Grounded(g)' <=> Grounded(g)) /\ Whole(g)' = Whole(g)
    BY <1>1, SameMaps DEF SkipParts
  <1>4. ScanMaps /\ layer \in Nat /\ \A g \in Functions : LayerOf[g] \in Nat
    BY CallGraphAssumption DEF SkipParts, TypeOK, CallGraphAssumption
  <1>5. \A g \in Functions : g \in LayerFps <=>
            LayerOf[g] = layer /\ status[g] \notin {"todo", "skipped", "dropped"}
    BY <1>1 DEF LayerFps, With, InLayer, Staged, StatusesAt, Settled
  <1>6. ASSUME NEW g \in Functions PROVE ScanMapOf(g)'
    <2>1. CASE LayerOf[g] < layer
      BY <1>1, <1>2, <1>3, <1>4, <1>5, <2>1 DEF ScanMaps, ScanMapOf, MapsStay, Staged, Settled
    <2>2. CASE LayerOf[g] = layer
      BY <1>1, <1>2, <1>3, <1>4, <1>5, <2>2
      DEF ScanMaps, ScanMapOf, MapsStay, Staged, StatusesAt, Settled
    <2>3. CASE LayerOf[g] > layer
      BY <1>1, <1>2, <1>3, <1>4, <1>5, <2>3 DEF ScanMaps, ScanMapOf, MapsStay
    <2> QED BY <1>4, <2>1, <2>2, <2>3
  <1>7. ScanMaps'
    BY <1>6 DEF ScanMaps
  <1>8. Entries(completed)'
    <2> SUFFICES ASSUME NEW g \in Functions, Grounded(g)', completed'[g] # NoFp
                 PROVE  /\ <<g, source'[g]>> \in completed'[g] /\ completed'[g] \subseteq Whole(g)'
                        /\ maps'[g] = NoFp =>
                             \E c \in Before(g) : ~(maps'[c] \subseteq completed'[g])
      BY <1>1, SameBefore DEF Entries, MapsStay
    <2>1. CASE g \in LayerFps
      <3>1. status[g] \in {"reused", "recorded"}
        BY <2>1 DEF LayerFps, With
      <3>2. <<g, source[g]>> \in fp[g] /\ fp[g] = Whole(g) /\ maps[g] # NoFp
        BY <1>3, <1>4, <3>1 DEF ScanMaps, ScanMapOf, NoFp
      <3> QED BY <1>1, <1>2, <1>3, <2>1, <3>2 DEF MapsStay
    <2>2. CASE g \notin LayerFps
      BY <1>1, <1>2, <1>3, <2>2 DEF MapsStay, SkipParts, Entries
    <2> QED BY <2>1, <2>2
  <1>9. Entries(saved)'
    <2>1. CASE saved' = saved
      BY <1>1, <2>1, SameMaps DEF SkipParts
    <2>2. CASE saved' = completed'
      BY <1>8, <2>2 DEF Entries
    <2> QED BY <1>1, <2>1, <2>2
  <1> QED BY <1>1, <1>7, <1>8, <1>9, SameMaps DEF SkipParts

(* The invariant of ResumeSkips is inductive.                               *)
LEMMA SkipStep == OrderInv /\ SkipInv /\ [Next]_vars => SkipInv'
  <1> SUFFICES ASSUME OrderInv, SkipInv, [Next]_vars, {"map", "unlink"} \cap faults' = {},
                      edits' = 0
               PROVE  SkipParts'
    BY DEF SkipInv
  <1>1. TypeOK /\ (pc # "idle" => Staged)
    BY DEF OrderInv
  <1>2. ASSUME NEW f \in Functions, Edit(f) PROVE FALSE
    BY <1>1, <1>2 DEF Edit, TypeOK, Versions
  <1>3. faults' = faults /\ edits' = edits /\ source' = source
    BY <1>2 DEF Next, Start, Crash, Finish, Gone, Deadline, EnterLayer, Built, Joined, Stored,
           Recorded, SaveCheckpoint, Rest, SkipByConfig, ResumeHit, CacheHit, Reuse, Enqueue,
           Explored, ExploreFailed, StoreMap, RecordSuccess, RecordFailure, vars
  <1>4. SkipParts /\ {"map", "unlink"} \cap faults = {}
    BY <1>3 DEF SkipInv
  <1>5. ASSUME NEW f \in Functions, Enqueue(f) PROVE SkipParts'
    BY <1>1, <1>4, <1>5, EnqueueSkips DEF Enqueue
  <1>6. ASSUME NEW f \in Functions, StoreMap(f) PROVE SkipParts'
    BY <1>1, <1>4, <1>6, StoreMapSkips DEF StoreMap
  <1>7. ASSUME NEW f \in Functions, ResumeHit(f) \/ CacheHit(f) PROVE SkipParts'
    BY <1>1, <1>4, <1>7, ReuseSkips DEF ResumeHit, CacheHit
  <1>8. CASE SaveCheckpoint
    BY <1>1, <1>4, <1>8, SaveSkips DEF SaveCheckpoint
  <1>9. CASE Start
    <2>1. MapsStay /\ saved' = saved /\ completed' = saved
      BY <1>9 DEF Start, MapsStay, disk
    <2>2. ScanMaps'
      <3> SUFFICES ASSUME NEW f \in Functions PROVE ScanMapOf(f)'
        BY DEF ScanMaps
      <3>1. status'[f] = "todo" /\ deep'[f] = NoFp /\ saved' = completed'
        BY <1>9 DEF Start, Nothing, disk
      <3>2. LayerOf[f] \in Nat \ {0}
        BY CallGraphAssumption DEF CallGraphAssumption
      <3> QED BY <3>1, <3>2 DEF ScanMapOf
    <2> QED BY <1>4, <2>1, <2>2, SameMaps DEF SkipParts
  <1>10. CASE Gone
    <2>1. MapsStay /\ saved' = saved /\ completed' = Nothing /\ pc' = "idle"
      BY <1>10 DEF Gone, MapsStay, disk
    <2> QED BY <1>4, <2>1, SameMaps DEF SkipParts
  <1>11. CASE Deadline \/ EnterLayer \/ Built \/ Joined \/ Stored \/ Recorded \/ UNCHANGED vars
    <2>1. /\ MapsStay /\ saved' = saved /\ completed' = completed /\ (pc = "idle" => pc' = "idle")
          /\ status' = status /\ fp' = fp /\ deep' = deep /\ layer' = layer
      BY <1>11 DEF Deadline, EnterLayer, Built, Joined, Stored, Recorded, MapsStay, disk, vars, scan
    <2>2. pc # "idle" => ScanMaps'
      BY <1>4, <2>1, SameMaps DEF SkipParts, ScanMaps, ScanMapOf, MapsStay
    <2> QED BY <1>4, <2>1, <2>2, SameMaps DEF SkipParts
  <1>12. ASSUME NEW f \in Functions,
                \/ SkipByConfig(f) \/ Explored(f) \/ ExploreFailed(f)
                \/ RecordSuccess(f) \/ RecordFailure(f)
         PROVE  SkipParts'
    <2>1. /\ MapsStay /\ saved' = saved /\ completed' = completed /\ pc' = pc /\ pc # "idle"
          /\ fp' = fp /\ deep' = deep /\ layer' = layer /\ LayerOf[f] = layer
      BY <1>12 DEF SkipByConfig, Explored, ExploreFailed, RecordSuccess, RecordFailure,
                   MapsStay, disk, With, InLayer
    <2>2. /\ \A g \in Functions : g # f => status'[g] = status[g]
          /\ \/ status[f] = "todo" /\ status'[f] = "skipped"
             \/ status[f] = "task" /\ status'[f] = "ok"
             \/ status[f] = "task" /\ status'[f] = "failed" /\ "explore" \in faults
             \/ status[f] = "stored" /\ status'[f] = "recorded"
             \/ status[f] = "failed" /\ status'[f] = "dropped"
      BY <1>1, <1>12 DEF SkipByConfig, Explored, ExploreFailed, RecordSuccess, RecordFailure,
                         TypeOK, With
    <2>3. \A g \in Functions : (Grounded(g)' <=> Grounded(g)) /\ Whole(g)' = Whole(g)
      BY <1>4, <2>1, SameMaps DEF SkipParts
    <2>n. layer \in Nat
      BY <1>1 DEF TypeOK
    <2>4. ScanMapOf(f)'
      BY <1>4, <2>n, <2>1, <2>2, <2>3 DEF SkipParts, ScanMaps, ScanMapOf, MapsStay
    <2>5. ASSUME NEW g \in Functions, g # f PROVE ScanMapOf(g)'
      BY <1>4, <2>1, <2>2, <2>3, <2>5 DEF SkipParts, ScanMaps, ScanMapOf, MapsStay
    <2>6. ScanMaps'
      BY <2>4, <2>5 DEF ScanMaps
    <2> QED BY <1>4, <2>1, <2>6, SameMaps DEF SkipParts
  <1> QED
    BY <1>2, <1>5, <1>6, <1>7, <1>8, <1>9, <1>10, <1>11, <1>12 DEF Next, Crash, Finish, Rest

(* Nothing is on disk at first.                                             *)
LEMMA SkipInit == Init => SkipInv
  BY DEF Init, SkipInv, SkipParts, SteadyMaps, Entries, Nothing

-----------------------------------------------------------------------------

(* The last layer is the one below the first empty one.                     *)
LEMMA LastLayer ==
    ASSUME TypeOK, InLayer = {}, NEW f \in Functions, InStratum(f), layer >= selection.first
    PROVE  LayerOf[f] < layer
  <1>1. /\ LayerOf[f] \in Nat \ {0} /\ layer \in Nat \ {0}
        /\ selection.first \in Nat /\ selection.last \in Nat
    BY CallGraphAssumption, SelectionAssumption
    DEF CallGraphAssumption, SelectionAssumption, TypeOK
  <1>2. SUFFICES ASSUME layer \in 1..LayerOf[f] PROVE FALSE
    BY <1>1
  <1>3. PICK g \in Functions : LayerOf[g] = layer
    BY <1>2, LayersAssumption DEF LayersAssumption
  <1> QED BY <1>1, <1>2, <1>3 DEF InLayer, InStratum

(* A scan that ends, with its last layer or at its deadline, has listed     *)
(* every function of the selected layers as completed, skipped or failed,   *)
(* for every call graph and whatever failed on the way.                     *)
THEOREM ScanListsAll == Spec => ScanAccounted
  <1>1. OrderInv /\ [Next]_vars =>
            [Finish => \A f \in Functions : InStratum(f) => reported[f] # "none"]_vars
    <2> SUFFICES ASSUME OrderInv, Finish, NEW f \in Functions, InStratum(f)
                 PROVE  reported[f] # "none"
      OBVIOUS
    <2>1. pc # "idle" /\ TypeOK /\ Staged /\ Listed /\ layer >= selection.first
      BY DEF Finish, OrderInv
    <2>2. CASE pc = "done"
      BY <2>1, <2>2 DEF Listed
    <2>3. CASE InLayer = {}
      BY <2>1, <2>3, LastLayer DEF Staged, Listed
    <2> QED BY <2>2, <2>3 DEF Finish
  <1> QED BY <1>1, OrderInit, OrderStep, PTL DEF Spec, ScanAccounted

(* Over unchanged sources and an unchanged selection, with working map      *)
(* stores and unlinks, a scan never explores a function again that the      *)
(* checkpoint file lists under its present deep fingerprint, for every call *)
(* graph and every number of crashes; if explorations may fail, for the     *)
(* functions whose callees are leaves.                                      *)
THEOREM CheckpointIsUsed == Spec => ResumeSkips
  <1>1. OrderInv /\ SkipInv /\ [Next]_vars =>
          [\A f \in Functions :
             /\ {"map", "unlink"} \cap faults = {} /\ edits = 0
             /\ "explore" \in faults => LeafCallees(f)
             /\ status[f] = "todo" /\ status'[f] = "task"
             => saved[f] # fp'[f]]_vars
    <2> SUFFICES ASSUME OrderInv, SkipInv, Next, NEW f \in Functions,
                        {"map", "unlink"} \cap faults = {}, edits = 0,
                        "explore" \in faults => LeafCallees(f),
                        status[f] = "todo", status'[f] = "task", saved[f] = fp'[f]
                 PROVE  FALSE
      BY DEF vars, scan
    <2>1. Enqueue(f)
      BY DEF OrderInv, TypeOK, Next, Start, Crash, Finish, Gone, Deadline, EnterLayer, Built,
             Joined, Stored, Recorded, SaveCheckpoint, Rest, SkipByConfig, ResumeHit, CacheHit,
             Reuse, Enqueue,
             Explored, ExploreFailed, StoreMap, RecordSuccess, RecordFailure, Edit, vars, scan
    <2>2. pc # "idle" /\ LayerOf[f] = layer /\ ~is_completed(f, DeepFp(f)) /\ saved[f] = DeepFp(f)
      BY <2>1 DEF Enqueue, With, InLayer, OrderInv, TypeOK
    <2>3. Staged /\ SteadyMaps /\ ScanMaps /\ Entries(saved) /\ TypeOK
      BY <2>2 DEF OrderInv, SkipInv, SkipParts
    <2>4. Grounded(f)
      BY DEF Grounded, Steady, LeafCallees
    <2>5. DeepFp(f) = Whole(f) /\ saved[f] # NoFp
      BY <2>2, <2>3, <2>4, DeepIsWhole, DeepFpType DEF NoFp
    <2>6. maps[f] = NoFp
      BY <2>2, <2>3 DEF is_completed, ScanMaps, ScanMapOf
    <2>7. PICK c \in Before(f) : ~(maps[c] \subseteq saved[f])
      BY <2>3, <2>4, <2>5, <2>6 DEF Entries
    <2> QED BY <2>2, <2>5, <2>7 DEF Whole
  <1> QED BY <1>1, OrderInit, OrderStep, SkipInit, SkipStep, PTL DEF Spec, ResumeSkips

-----------------------------------------------------------------------------
(* The shared state files.                                                  *)

(* A process that is about to save, or has saved, holds its own record, and *)
(* only the holder of the lock is inside a locked section.                  *)
OwnRecord ==
    \A p \in Processes : at[p] \in {"saving", "writing", "renaming"} => p \in state[p]
Holder ==
    \A p \in Processes : at[p] \in {"loading", "writing", "renaming"} => lock = p

(* The strengthened invariant.                                              *)
FileInv == StateTypeOK /\ OwnRecord /\ Holder /\ FileWhole

(* The initial state satisfies it.                                         *)
LEMMA FileInit == StateInit => FileInv
  BY ProcessAssumption
  DEF ProcessAssumption, StateInit, FileInv, StateTypeOK, OwnRecord, Holder, FileWhole, Contents,
      Points, NoFile, Torn, New

(* Every step of every process preserves it.                                *)
LEMMA FileStep == FileInv /\ [StateNext]_stateVars => FileInv'
  <1> SUFFICES ASSUME FileInv, [StateNext]_stateVars PROVE FileInv'
    OBVIOUS
  <1> USE ProcessAssumption DEF ProcessAssumption, FileInv, StateTypeOK, OwnRecord, Holder,
                                FileWhole, Contents, Points, NoFile, Torn, Goto
  <1>1. ASSUME NEW p \in Processes, LoadMissing(p) PROVE FileInv'
    BY <1>1 DEF LoadMissing
  <1>2. ASSUME NEW p \in Processes, LoadFound(p) PROVE FileInv'
    BY <1>2 DEF LoadFound
  <1>3. ASSUME NEW p \in Processes, Acquire(p) PROVE FileInv'
    BY <1>3 DEF Acquire
  <1>4. ASSUME NEW p \in Processes, SkipSave(p) PROVE FileInv'
    BY <1>4 DEF SkipSave
  <1>5. ASSUME NEW p \in Processes, Load(p) PROVE FileInv'
    BY <1>5 DEF Load, New
  <1>6. ASSUME NEW p \in Processes, RecordBatch(p) PROVE FileInv'
    BY <1>6 DEF RecordBatch
  <1>7. ASSUME NEW p \in Processes, WriteTmp(p) PROVE FileInv'
    BY <1>7 DEF WriteTmp
  <1>8. ASSUME NEW p \in Processes, Rename(p) PROVE FileInv'
    BY <1>8 DEF Rename
  <1>9. ASSUME NEW p \in Processes, Die(p) PROVE FileInv'
    BY <1>9 DEF Die
  <1>10. CASE UNCHANGED stateVars
    BY <1>10 DEF stateVars
  <1> QED BY <1>1, <1>2, <1>3, <1>4, <1>5, <1>6, <1>7, <1>8, <1>9, <1>10
          DEF StateNext, Step, Ended

(* Type correctness of the file, its lock and the processes.                *)
THEOREM StateTypeCorrect == StateSpec => []StateTypeOK
  <1>1. FileInv => StateTypeOK
    BY DEF FileInv
  <1> QED BY <1>1, FileInit, FileStep, PTL DEF StateSpec

(* For any number of processes killed anywhere, the shared state file is    *)
(* never torn and, once saved, never gone.                                  *)
THEOREM FileAlwaysWhole == StateSpec => []FileWhole
  <1>1. FileInv => FileWhole
    BY DEF FileInv
  <1> QED BY <1>1, FileInit, FileStep, PTL DEF StateSpec
=============================================================================
