\* A pause or cancel made while a write is out.
SPECIFICATION Spec
CONSTANTS
  Job <- OneJob
  Item <- TwoItems
  Operator = {o1}
  CanarySize = 1
  MaxAttempts = 2
  PauseAfter = 2
  MaxFaults = 0
  NoHash = NoHash
PROPERTY StopHolds
