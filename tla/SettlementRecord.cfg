SPECIFICATION Spec
CONSTANTS
  NoWallet = NoWallet  NoCommission = NoCommission
  Requests = {r1, r2}
  Threads = 1
  Sessions = {s1}
  Prices = {10}
  Payable = {8}
INVARIANT RecordHasLegs
CHECK_DEADLOCK FALSE
