SPECIFICATION Spec
CONSTANTS
  Threads = 1
  Requests = {r1, r2, r3, r4}
  Wallets = {alice, bob}
  Keys = {k1, k2, k3}
  Amounts = {0, 1, 2}
  NoWallet = NoWallet
  NotLoaded = NotLoaded
SYMMETRY Symmetry
INVARIANT BalanceIsSumOfRows
PROPERTY CreditsAreFresh
CHECK_DEADLOCK FALSE
