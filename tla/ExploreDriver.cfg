SPECIFICATION Spec
CONSTANTS
  FunctionCount = 2
  Paths = {p1}
  Workers = 2
  BatchSize = 1
  MaxIterations = 2
  MaxExecutions = 2
  StopFlags = TRUE
  Histories <- SomeHistories
INVARIANTS LeasesMatchTasks ProgressOnDisk
PROPERTIES ResumedIsCurrent RunAccounted RunEnds
