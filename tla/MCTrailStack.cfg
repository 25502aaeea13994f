SPECIFICATION Spec
CONSTANTS
  HeapBase = 3
  Low = 5
  GVBase = 20
  GV_SHIFT = 2
  MaxCalls = 1
  MaxGlobals = 4
INVARIANTS TypeOK ChainIntact GlobalsPartitioned
PROPERTY ImplementsChoiceStack
