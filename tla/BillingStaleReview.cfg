SPECIFICATION Spec
CONSTANTS
  Threads = {t1, t2}
  Seats = {s1}
  Gateways = {"paytabs"}
  Kinds = {"exact"}
  MaxSubs = 1
  MaxPayments = 1
  MaxCharges = 0
SYMMETRY Symmetry
INVARIANTS ActiveIsPaid
CHECK_DEADLOCK FALSE
