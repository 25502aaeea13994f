SPECIFICATION Spec
CONSTANTS
  MaxCatches = 1
  MaxChoices = 5
  MaxRuns = 2
INVARIANT ThrowLeavesAlternatives
CHECK_DEADLOCK FALSE
