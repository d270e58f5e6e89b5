SPECIFICATION Spec
CONSTANTS
  Threads = {t1, t2}
  Connections = {c1, c2}
  Users = {"amal", "badr", "root", "anonymous"}
  Schools = {"s1", "s2"}
  TenantOf <- MCTenantOf
  MaxDepth = 3
SYMMETRY Symmetry
INVARIANTS TypeOK OwnContext ElevatedInScope
CHECK_DEADLOCK FALSE
