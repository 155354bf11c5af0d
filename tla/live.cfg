SPECIFICATION Spec
CONSTANTS
  Areas = {"channel", "conversion", "rates", "distillation", "memory", "loop"}
  Commands = 1
  Stream = {1, 2}
  Poll = {1}
  IdleTimeout = TRUE
  MaxFaults = 2
  Worker = {1, 2}
  Attempts = 2
  MaxStalls = 1
  MaxFailures = 2
  MaxDeaths = 2
  Request = {1, 2}
  Limit = 3
  Failures = 1
  MaxHits = 5
  MaxLost = 1
  Distil = {1, 2}
  Estimate = 2
  Cost = {1}
  Budget = {3}
  MaxTroubles = 2
  Note = {"plain", "key"}
  Secret = {"key"}
  Sweeper = {"watch"}
  MaxFileEdits = 2
  MaxRemovals = 0
  MaxLostAnswers = 1
  Log = {"f", "g"}
  Debounce = 1
  MaxWrites = 2
  MaxSetbacks = 1
INVARIANTS
  RatesAreKept
  DistillationIsTrue
  EmittedIsTaken
PROPERTIES
  ConversionIsTrue
  ServerSettles
  AgentSettles
CHECK_DEADLOCK FALSE
