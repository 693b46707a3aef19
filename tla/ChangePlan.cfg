\* Two plans, executed one at a time.
SPECIFICATION Spec
CONSTANTS
  Plan = {p1, p2}
  NoPlan = NoPlan
  Row = {1, 2}
  Blocked = {}
  Creates = {1}
  Depends <- MCDepends
  Executor = {e1}
  Reviewer = {o1}
  MaxEdits = 1
  MaxFaults = 1
SYMMETRY Symmetry
INVARIANTS TypeOK CreatedOnce DependenciesIn AppliedWasWritten
PROPERTY NotOverwritten
CHECK_DEADLOCK FALSE
