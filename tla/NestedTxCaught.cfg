SPECIFICATION Spec
CONSTANTS
  MaxCalls = 3
  MaxDepth = 3
INVARIANTS FailedCallLeavesNothing
CHECK_DEADLOCK FALSE
