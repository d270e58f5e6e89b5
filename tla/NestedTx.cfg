SPECIFICATION FairSpec
CONSTANTS
  MaxCalls = 3
  MaxDepth = 3
INVARIANTS TypeOK AllOrNothing HookHasItsRow
PROPERTIES HooksRun
CHECK_DEADLOCK FALSE
