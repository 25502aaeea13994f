SPECIFICATION Spec
CONSTANTS
  Signals = {sigint}
  SOURCE = SOURCE
  WAKE = WAKE
  UNDEFINED = UNDEFINED
  ERROR = ERROR
  MaxChoices = 3
  MaxNested = 4
INVARIANTS TypeOK DeliveredOnce WakesServed
PROPERTIES DisarmedOnlyByReset ArmedIsNoticed
