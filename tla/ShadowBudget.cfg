SPECIFICATION Spec
CONSTANTS
  N = 1
  MaxChanges = 1
  MaxTime = 2
  Overlap = 1
  MaxCalls = 3
  SweepCalls = 5
  Sweeps = {s1, s2}
  Refreshed = {}
  MaxFaults = 0
INVARIANTS
  BudgetRestored
