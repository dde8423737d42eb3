SPECIFICATION WireSpec
CONSTANTS
  MaxIntermediates = 2
  MaxParams = 2
  MaxOscParams = 2
  MaxParam = 255
  Setups <- MCSetups
  Desks <- MCDesks
  MouseModes <- MCModes
  Geometries <- MCGeometries
  Positions <- MCPositions
  Codes = {1, 2, 12}
  MaxX10 = 2
  MaxBit = 2
CHECK_DEADLOCK FALSE
INVARIANTS
  WireTypeOK
  BytesReadOnce
  PasteStaysInside
  InputTold
