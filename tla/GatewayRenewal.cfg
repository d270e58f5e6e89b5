SPECIFICATION Spec
CONSTANTS
  Threads = {t1}
  Seats = {s1}
  Gateways = {"paytabs"}
  Kinds = {"exact"}
  MaxSubs = 1
  MaxPayments = 0
  MaxCharges = 2
INVARIANTS PaymentHasRow
CHECK_DEADLOCK FALSE
