SPECIFICATION Spec
CONSTANTS
  Signals = {}
  SOURCE = SOURCE
  WAKE = WAKE
  UNDEFINED = UNDEFINED
  ERROR = ERROR
  MaxChoices = 3
  MaxNested = 4
INVARIANT ErrorsThrown
