SPECIFICATION FairSpec
CONSTANTS
  N = 2
  MaxChanges = 2
  MaxTime = 3
  Overlap = 1
  MaxCalls = 3
  SweepCalls = 2
  Sweeps = {s1}
  Refreshed = {1}
  MaxFaults = 1
INVARIANTS
  NothingMissed
  OldIsDirty
PROPERTIES
  CatchesUp
