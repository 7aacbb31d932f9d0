SPECIFICATION Spec
CONSTANTS
  Workers = {w1, w2}
  Capacity = 2
  Budget = 4
  HasTimeout = TRUE
INVARIANTS InFlightExact NothingLeftBehind StopReasonTrue
PROPERTY CallReturns
