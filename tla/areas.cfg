SPECIFICATION Spec
CONSTANTS
  Areas = {"store", "machines", "materializer", "accounts", "channel", "memory", "token", "launcher", "errors"}
  MachineId = {1, 2}
  Installation = {"i"}
  NoInstallation = "none"
  MachineName = {"m", "n"}
  MachineCall = {1, 2, 3}
  NoMachine = NoMachine
  Run = {1, 2, 3}
  Files = 2
  Bundle <- Bundles
  Defects = {"digest"}
  MaxCrashes = 1
  MaxToolWrites = 1
  MaxStuck = 1
  AccountCall = {1, 2, 3, 4}
  MaxTicks = 1
  Commands = 1
  Stream = {1, 2}
  Poll = {1, 2}
  IdleTimeout = TRUE
  MaxFaults = 1
  Note = {"plain", "key", "password"}
  Secret = {"key", "password"}
  Sweeper = {"watch", "once"}
  MaxFileEdits = 1
  MaxRemovals = 1
  MaxLostAnswers = 0
  Lifetime = 5
  Margin = 2
  Deadline = 2
  Skew = 1
  MaxClock = 9
  MaxSweeps = 2
  MaxRevocations = 1
  Launcher = {"x", "y"}
  HasLocal = {"y"}
  MaxMishaps = 1
  a = a
  b = b
  Native = {"x", "y"}
  Version = {1, 2}
  Tid = {a, b}
  Transcript <- TwoTranscripts
  Blockless = {a}
  Parse = {1, 2, 3}
  Captured <- ThreeParses
  ParseAttempts = 1
  MaxDeletes = 1
  Kind = {1, 2}
  MaxGroups = 1
  MaxErrors = 3
  MaxStops = 2
  MaxUnlucky = 1
INVARIANTS
  ErrorsHold
  SessionsAreWhole
  MemoryHolds
  LauncherHolds
PROPERTIES
  MarksHold
  MachineRecordsHold
  MaterializerHolds
  SignInsHold
  ChannelHolds
  TokensHold
CHECK_DEADLOCK FALSE
