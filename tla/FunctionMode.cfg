SPECIFICATION Spec
CONSTANTS
  TaskCount = 3
  MaxConcurrent = 2
  TimeoutTotal = TRUE
INVARIANTS DedicatedBounded WarmupAlone OutcomesMatchMaps LayerLeavesNothing
PROPERTY EveryTaskJoined
