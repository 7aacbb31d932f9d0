SPECIFICATION Spec
CONSTANTS
  TaskCount = 3
  MaxIterations = 2
  Custom = {2}
  Scores = {1, 9}
  Floors = {0, 9}
  Factors = {4, 12}
  Width = 32
  Coarse = TRUE
INVARIANTS AllocationFair BudgetConserved
PROPERTY EveryoneEnds
