SPECIFICATION Spec
CONSTANTS
  NoWallet = NoWallet  NoCommission = NoCommission
  Requests = {r1, r2}
  Threads = 1
  Sessions = {s1, s2}
  Prices = {10}
  Payable = {8}
PROPERTY TimeoutReachesAll
CHECK_DEADLOCK FALSE
