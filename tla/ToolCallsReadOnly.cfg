SPECIFICATION Spec
CONSTANTS
  Requests <- MCRequests
  Switches = TRUE
INVARIANTS
  ReadOnlyMode
CHECK_DEADLOCK FALSE
