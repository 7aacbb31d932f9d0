SPECIFICATION Spec
CONSTANTS
  TaskCount = 3
  LayerOf <- MCOneLayer
  FileOf <- MCFiles
  MaxWorkers = 2
  TimeoutTotal = FALSE
  Concolic = FALSE
  AttemptLimit = 1
  MaxSpawnFailures = 0
  Failures = {}
INVARIANT SameFileSerial
PROPERTY EveryTaskJoined
