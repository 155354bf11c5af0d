SPECIFICATION FairSpec
CONSTANTS
  s1 = s1
  s2 = s2
  s3 = s3
  p1 = p1
  p2 = p2
  w1 = w1
  w2 = w2
  NoArtifact = NoArtifact
  Sha = {s1, s2, s3}
  Path = {p1}
  Capture <- ThreeFiles
  Pass = {w1}
  MaxAttempts = 2
  BatchLimit = 2
  JobAttempts = 2
  StorageFaults = FALSE
  ParseFaults = FALSE
  MaxStalls = 1
  Retention = FALSE
  Reprocessing = FALSE
  RecordFaults = FALSE
  Refused = {s2, s3}
  TransportFaults = FALSE
  DiskFaults = FALSE
  MaxCrashes = 0
INVARIANTS
  SyncedIsStored
PROPERTIES
  GoodRowsArrive
CHECK_DEADLOCK FALSE
