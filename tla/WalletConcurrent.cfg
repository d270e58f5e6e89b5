SPECIFICATION FairSpec
CONSTANTS
  Threads = 2
  Requests = {r1, r2, r3}
  Wallets = {alice, bob}
  Keys = {k1, k2}
  Amounts = {1}
  NoWallet = NoWallet
  NotLoaded = NotLoaded
INVARIANTS TypeOK NonNegativeBalance TakenBackOnce AnsweredIsPosted
PROPERTIES DebitsAreExact ImplementsJournal EveryRequestEnds
CHECK_DEADLOCK FALSE
