SPECIFICATION WireSpec
CONSTANTS
  MaxRequests = 5
  MaxNoise = 1
CHECK_DEADLOCK FALSE
INVARIANTS PipesAligned ClosedIsReaped
PROPERTY CallsEnd
