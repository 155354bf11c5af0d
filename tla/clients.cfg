SPECIFICATION Spec
CONSTANTS
  Areas = {"contract", "console", "pages"}
  Groups = {"archive", "curation", "unread", "devices", "sharing", "teams", "memory", "settings"}
  MaxCalls <- Depths
  Errands = {"moving", "returning", "scrolling", "curating"}
  History <- TwoSessions
  PageSize = 1
  MaxAsks <- ErrandAsks
  MaxCaptures = 1
  MaxSignIns = 2
  MaxUpsets = 1
  Pages = {"search", "pin", "share", "convert", "memory", "teams", "settings", "import", "tiles"}
  MaxAsked <- ScreenAsks
  MaxLosses = 1
  MaxElsewhere = 1
  Rounds = 2
  Columns = 3
  MinWidth = 2
  MinHeight = 2
PROPERTIES
  StoresHold
  ConsoleHolds
  PagesHold
CHECK_DEADLOCK FALSE
