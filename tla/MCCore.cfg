SPECIFICATION CoreSpec
CONSTANTS
  MinTable = 3
  MaxIds = 20
  NCells = 3
  Pens <- MCPens
  Depth = 3
  Wide = 2
  Narrow = 1
  TabInterval = 2
  StackCap = 2
  MaxLinks = 1
  MaxPwd = 5
  Scenes <- MCScenes
  H = 3
  Budget = 16
  ChunkLimit = 9
  SixelBase = 100
  SixelIds = 5
  Slots = 8
  UnderGround <- MCUnder
  Gone = 2
  Albums <- MCAlbums
  MaxDim = 4
  Word = 64
  Band = 2
  Registers = 2
  Digits = {1, 2, 9}
  Bits <- MCBits
  Strokes = 4
  Openings <- MCPrefixes
  HolderCells <- MCCells
  MaxRow = 3
  Cols = 3
  Rows = 3
  Boundaries = {" ", "|"}
  Pages <- MCPages
  PageRows = 2
  MaxStyles = 9
  Leaving <- MCLeaving
  Widths = {2, 3}
  RowBudgets = {0, 3}
  MaxPushed = 6
  CpSpan = 8
  StyleSpan = 4
  Hash <- MCHash
  MaxIndex = 2
  Inline = 2
  Contents <- MCContents
CHECK_DEADLOCK FALSE
INVARIANTS
  CoreTypeOK
  AnswersRestore
  ScreenComesBack
  StylesKept
  PicturesHold
  AbiHolds
PROPERTIES
  KeyFlagsStack
  TextHolds
  HistoryHolds
