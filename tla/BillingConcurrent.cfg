SPECIFICATION FairSpec
CONSTANTS
  Threads = {t1, t2}
  Seats = {s1}
  Gateways = {"paytabs"}
  Kinds = {"exact", "off", "unreadable"}
  MaxSubs = 2
  MaxPayments = 1
  MaxCharges = 1
INVARIANTS TypeOK OneActivePerSeat ActiveWasPaid ApprovedIsMember EventOnce RowPerActivation
PROPERTIES LapsedSubEnds PendingPaymentsEnd
CHECK_DEADLOCK FALSE
