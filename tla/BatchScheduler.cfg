SPECIFICATION Spec
CONSTANTS
  TaskCount = 2
  BatchSize = 1
  MaxU32 = 3
  Unbounded = Unbounded
  NoLease = NoLease
  NoDeferral = NoDeferral
  LargestGrant = 2
  LargestUse = 2
  Grants <- MCGrants
  Used <- MCUsed
  Ranks <- MCRanks
  MaxStreak = 2
INVARIANTS LeaseExclusive PenaltiesHaveWork
PROPERTIES LeaseRefinement FrontierReopens
