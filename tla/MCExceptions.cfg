SPECIFICATION FairSpec
CONSTANTS
  MaxCatches = 3
  MaxChoices = 10
  MaxRuns = 3
INVARIANTS TypeOK InnermostCatches ThrowNotResumed ThrowStaysInRun SwigTells
PROPERTY ThrowEnds
CHECK_DEADLOCK FALSE
