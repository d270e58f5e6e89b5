SPECIFICATION Spec
CONSTANTS
  Threads = 2
  Requests = {r1, r2}
  Wallets = {alice, bob}
  Keys = {k1, k2}
  Amounts = {1}
  NoWallet = NoWallet
  NotLoaded = NotLoaded
INVARIANT NoDeadlock
CHECK_DEADLOCK FALSE
