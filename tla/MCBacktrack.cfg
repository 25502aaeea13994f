SPECIFICATION Spec
CONSTANTS
  HeapBase = 2
  HeapEnd = 4
  GVars = {g}
  MaxChoice = 3
INVARIANTS TypeOK ChoicesOrdered NoDangling FailureSafe
PROPERTY RestoresSnapshots
