SPECIFICATION Spec
CONSTANTS
  TaskCount = 3
  LayerOf <- MCLayerOf
  FileOf <- MCFiles
  MaxWorkers = 2
  TimeoutTotal = TRUE
  Concolic = FALSE
  AttemptLimit = 2
  MaxSpawnFailures = 1
  Failures = {"transport", "unreadable", "misaligned", "swallowed", "panic"}
INVARIANTS LiveCountCovers TasksRemainingExact StaleWorkerNotPooled
PROPERTY GateOpens
