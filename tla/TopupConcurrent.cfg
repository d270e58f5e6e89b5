SPECIFICATION Spec
CONSTANTS
  Requests = {r1, r2, r3, r4, r5}
  Threads = 3
  Children = {sami, lina}
  Amounts = {1, 2}
  NoWallet = NoWallet
SYMMETRY Symmetry
INVARIANTS TypeOK ApprovalIsCredited NoMoneyFromNothing
CHECK_DEADLOCK FALSE
