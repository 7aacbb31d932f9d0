SPECIFICATION Spec
CONSTANTS
  FunctionCount = 3
  Branching = {3}
  MaxCalls = 3
  MaxEdits = 1
INVARIANTS FreshIsCurrent CurrentIsFresh LayersSound CyclesExact
PROPERTY SpecsSurvive
