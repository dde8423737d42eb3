\* Every part of what the owning thread does, each on its own small instance.
SPECIFICATION OwnerSpec
CONSTANTS
  OutCap = 2
  InCap = 2
  Helpers = TRUE
  Grids = {0, 1, 2, 3, 4, 6}
  Sizes = {1, 2, 3, 4}
  Widths = {2, 6, 12}
  MinSize = 2
  MaxSize = 3
  Capacity = 4
  Palettes = {"xterm", "theme"}
  Xterm = "xterm"
  Gutter = 1
  PaneFonts = {1, 2}
  Areas <- MCAreas
  PaneCols = 9
  PaneRows = 4
  MinSplitCols = 2
  MinSplitRows = 1
  MaxBorn = 4
  MaxCanvasCalls = 4
  Registry <- MCRegistry
  Unknown = "z"
  PathDirs <- MCPath
  Spots <- MCSpots
  Argvs <- MCArgvs
  DangerousWords <- MCWords
  HitFor = 3
  MissFor = 1
  Settle = 1
  Base = 1
  Tries = 2
  SpawnTries = 3
  MaxClock = 6
  MaxKids = 2
  MaxChanges = 1
  Typed <- MCTyped
  Dirs <- MCDirs
  HistoryCap = 2
  Templates <- MCTemplates
  Given <- MCGiven
  Deltas <- MCDeltas
  Cells = {2, 3}
  Row = 6
  Depth = 7
  View = 3
  MaxEvents = 3
  MaxWheel = 3
  MaxAppends = 3
CHECK_DEADLOCK FALSE
INVARIANTS
  OwnerTypeOK
  RebuildsHold
PROPERTIES
  ShutdownHolds
  PanesHold
  LaunchesHold
  DeskHolds
