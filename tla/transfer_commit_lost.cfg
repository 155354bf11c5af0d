SPECIFICATION FairSpec
CONSTANTS
  t1 = t1
  t2 = t2
  r1 = r1
  r2 = r2
  NoTransfer = NoTransfer
  Transfer = {t1}
  Request = {r1, r2}
  MaxCaptures = 2
  MaxDeletes = 0
  MaxCrashes = 1
  MaxFailures = 2
  LostCommits = TRUE
INVARIANTS
  CopiesAreExplained
PROPERTIES
  ClaimIsHonoured
CHECK_DEADLOCK FALSE
