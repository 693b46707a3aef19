\* One job of two items, one operator call at a time, one fault.
SPECIFICATION FairSpec
CONSTANTS
  Job <- OneJob
  Item <- TwoItems
  Operator = {o1}
  CanarySize = 1
  MaxAttempts = 2
  PauseAfter = 2
  MaxFaults = 1
  NoHash = NoHash
INVARIANTS TypeOK OnlyApprovedWritten CanaryHolds HonestReport StreakStops
PROPERTIES KeepsPromise RunningSettles
