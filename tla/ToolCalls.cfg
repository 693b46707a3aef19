SPECIFICATION Spec
CONSTANTS
  Requests <- MCRequests
  Switches = TRUE
INVARIANTS
  TypeOK
  SwitchHolds
  HintsTrue
  DryRunIsDry
  ConfirmedFirst
  PermittedFirst
  RetryWritesNothing
  ReadBackFresh
CHECK_DEADLOCK FALSE
