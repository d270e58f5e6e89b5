SPECIFICATION Spec
CONSTANTS
  NoWallet = NoWallet  NoCommission = NoCommission
  Requests = {r1, r2, r3, r4, r5}
  Threads = 1
  Sessions = {s1}
  Prices = {10}
  Payable = {8}
INVARIANT ApprovedPayoutsCovered
CHECK_DEADLOCK FALSE
