SPECIFICATION Spec
CONSTANTS
  NoWallet = NoWallet  NoCommission = NoCommission
  Requests = {r1, r2, r3, r4}
  Threads = 2
  Sessions = {s1}
  Prices = {10}
  Payable = {8}
INVARIANT PaidByBoth
CHECK_DEADLOCK FALSE
