SPECIFICATION SharingSpec
CONSTANTS
  Areas = {"links"}
  l1 = l1
  b1 = b1
  b2 = b2
  NoLink = NoLink
  Link = {l1}
  Bearer = {b1}
  MaxCaptures = 1
  MaxDeletes = 1
  MaxCrashes = 0
  RevokeUnminted = FALSE
  a = a
  b = b
  s1 = s1
  w1 = w1
  w2 = w2
  c1 = c1
  m1 = m1
  Uploads = Uploads
  AnyMachine = AnyMachine
  Private = Private
  Home <- Laptop
  Machine = {m1}
  Team = {a, b}
  Session = {s1}
  Worker = {w1, w2}
  Caller = {c1}
  HandChanges = TRUE
  MaxParses = 2
  MaxCalls = 4
  Formats = {"codex", "goose"}
  Conv = {1, 2}
  MaxRecords <- Lengths
  MaxDamage = 1
INVARIANT LiveLinkIsListed
CHECK_DEADLOCK FALSE
