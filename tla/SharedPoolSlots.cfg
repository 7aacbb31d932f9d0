SPECIFICATION Spec
CONSTANTS
  TaskCount = 3
  LayerOf <- MCLayerOf
  FileOf <- MCFiles
  MaxWorkers = 2
  TimeoutTotal = TRUE
  Concolic = FALSE
  AttemptLimit = 1
  MaxSpawnFailures = 0
  Failures = {}
INVARIANT SlotsRecovered
