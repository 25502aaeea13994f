SPECIFICATION BoundedSpec
CONSTANTS
  HeapBase = 12
  MaxHeap = 4
  GVBase = 46
  MaxChoices = 1
  MaxTrail = 1
  MaxRuns = 1
  MaxGcs = 2
  MaxVars = 1
  Kinds = {"list", "struct", "uia", "delay"}
INVARIANTS TypeOK NothingDangles
PROPERTIES GcPreserves GcCollects
CHECK_DEADLOCK FALSE
