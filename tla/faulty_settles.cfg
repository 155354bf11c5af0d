SPECIFICATION FairSpec
CONSTANTS
  s1 = s1
  s2 = s2
  s3 = s3
  p1 = p1
  p2 = p2
  w1 = w1
  w2 = w2
  NoArtifact = NoArtifact
  Sha = {s1}
  Path = {p1, p2}
  Capture <- TwoPaths
  Pass = {w1}
  MaxAttempts = 2
  BatchLimit = 1
  JobAttempts = 1
  StorageFaults = FALSE
  ParseFaults = FALSE
  MaxStalls = 1
  Retention = TRUE
  Reprocessing = FALSE
  RecordFaults = FALSE
  Refused = {}
  TransportFaults = TRUE
  DiskFaults = TRUE
  MaxCrashes = 0
PROPERTIES
  CapturedIsSettled
  SyncedGetsVerdict
  NoReopen
  PromiseKept
CHECK_DEADLOCK FALSE
