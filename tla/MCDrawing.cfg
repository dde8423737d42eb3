\* Skipped, torn, refused and scrolled frames, selections, rebuilds.
SPECIFICATION DrawingSpec
CONSTANTS
  a = a
  b = b
  Content <- MCContent
  MaxRows = 2
  Setups <- MCSetups
  LineCols = 4
  Looks <- MCLooks
  Inks <- MCInks
  LinkSlots = 2
  SurfaceW = 3
  SurfaceH = 1
  PaintCalls <- MCPaintCalls
  Clears <- MCClears
  Corners <- MCCorners
  WindowSizes <- MCWindowSizes
  Layouts <- MCLayouts
  Offers <- MCOffers
  MaxPaints = 2
  MaxWindowCalls = 3
SYMMETRY MCSymmetry
CHECK_DEADLOCK FALSE
INVARIANTS
  TypeOK
  TextIsFullRedraw
  DamageIsOwed
  CaretsHold
PROPERTY
  PixelsHold
