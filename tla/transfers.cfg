SPECIFICATION Spec
CONSTANTS
  t1 = t1
  t2 = t2
  r1 = r1
  r2 = r2
  NoTransfer = NoTransfer
  Transfer = {t1}
  Request = {r1, r2}
  MaxCaptures = 2
  MaxDeletes = 1
  MaxCrashes = 1
  MaxFailures = 2
  LostCommits = FALSE
INVARIANTS
  CopyWasReviewed
  AnswersAreTrue
PROPERTIES
  TransferKept
CHECK_DEADLOCK FALSE
