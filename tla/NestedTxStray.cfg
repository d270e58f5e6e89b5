SPECIFICATION Spec
CONSTANTS
  MaxCalls = 3
  MaxDepth = 3
INVARIANTS StrayRuns
CHECK_DEADLOCK FALSE
