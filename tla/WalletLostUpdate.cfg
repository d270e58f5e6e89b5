SPECIFICATION Spec
CONSTANTS
  Threads = 2
  Requests = {r1, r2, r3}
  Wallets = {alice, bob}
  Keys = {k1, k2}
  Amounts = {1}
  NoWallet = NoWallet
  NotLoaded = NotLoaded
SYMMETRY Symmetry
INVARIANT BalanceIsSumOfRows
CHECK_DEADLOCK FALSE
