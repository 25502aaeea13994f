SPECIFICATION Spec
CONSTANTS
  Bases <- MCBases
  FirstSizes <- MCFirstSizes
  Sizes <- MCNoSizes
  Growth = 3
  MaxResized = 2
  MaxFrames = 2
  MaxCells = 4
  GV_SHIFT = 2
  MaxGlobals = 2
  MaxRegs = 1
INVARIANTS GlobalsPointIntoHeap
CHECK_DEADLOCK FALSE
