SPECIFICATION Spec
CONSTANTS
  Bases <- MCBases
  FirstSizes <- MCFirstSizes
  Sizes <- MCSizes
  Growth = 3
  MaxResized = 2
  MaxFrames = 2
  MaxCells = 4
  GV_SHIFT = 2
  MaxGlobals = 2
  MaxRegs = 1
INVARIANTS TypeOK
PROPERTIES ResizePreserves GrowthPreserves
CHECK_DEADLOCK FALSE
