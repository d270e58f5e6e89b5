SPECIFICATION FairSpec
CONSTANTS
  Threads = {t1, t2}
  Questions = {"mcq"}
  Objective = {"mcq"}
  Allowed = 1
  NoMark = NoMark
INVARIANTS TypeOK AttemptsWithinLimit SubmittedIsComplete NoQuestionPaidTwice
PROPERTIES SubmissionEnds
CHECK_DEADLOCK FALSE
