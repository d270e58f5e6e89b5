SPECIFICATION Spec
CONSTANTS
  Threads = {t1, t2}
  Questions = {"mcq", "essay"}
  Objective = {"mcq"}
  Allowed = 1
  NoMark = NoMark
SYMMETRY Symmetry
INVARIANTS SubmittedOnce
CHECK_DEADLOCK FALSE
