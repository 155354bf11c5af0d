SPECIFICATION Spec
CONSTANTS
  s1 = s1
  s2 = s2
  s3 = s3
  p1 = p1
  p2 = p2
  w1 = w1
  w2 = w2
  NoArtifact = NoArtifact
  Sha = {s1}
  Path = {p1}
  Capture <- OneFile
  Pass = {w1}
  MaxAttempts = 2
  BatchLimit = 2
  JobAttempts = 2
  StorageFaults = TRUE
  ParseFaults = TRUE
  MaxStalls = 1
  Retention = FALSE
  Reprocessing = FALSE
  RecordFaults = FALSE
  Refused = {}
  TransportFaults = TRUE
  DiskFaults = TRUE
  MaxCrashes = 1
INVARIANTS
  SyncedBytesHeld
CHECK_DEADLOCK FALSE
