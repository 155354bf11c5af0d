SPECIFICATION Spec
CONSTANTS
  s1 = s1
  s2 = s2
  s3 = s3
  p1 = p1
  p2 = p2
  w1 = w1
  w2 = w2
  NoArtifact = NoArtifact
  Sha = {s1}
  Path = {p1}
  Capture <- OneFile
  Pass = {w1, w2}
  MaxAttempts = 2
  BatchLimit = 2
  JobAttempts = 1
  StorageFaults = TRUE
  ParseFaults = TRUE
  MaxStalls = 0
  Retention = TRUE
  Reprocessing = TRUE
  RecordFaults = TRUE
  Refused = {}
  TransportFaults = TRUE
  DiskFaults = FALSE
  MaxCrashes = 1
INVARIANTS
  SyncInv
  AttemptsBounded
  JobLeavesVerdict
SYMMETRY PassSymmetry
CHECK_DEADLOCK FALSE
