SPECIFICATION Spec
CONSTANTS
  Signals = {sigint, sigalrm}
  SOURCE = SOURCE
  WAKE = WAKE
  UNDEFINED = UNDEFINED
  ERROR = ERROR
  MaxChoices = 3
  MaxNested = 4
INVARIANT FrozenGoalsRun
