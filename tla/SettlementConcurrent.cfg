SPECIFICATION Spec
CONSTANTS
  NoWallet = NoWallet  NoCommission = NoCommission
  Requests = {r1, r2, r3, r4}
  Threads = 2
  Sessions = {s1}
  Prices = {0, 10}
  Payable = {8}
SYMMETRY Symmetry
INVARIANTS TypeOK BalanceIsSumOfLegs LegsOnce LegMatchesRecord
PROPERTY DecisionIsFinal
CHECK_DEADLOCK FALSE
