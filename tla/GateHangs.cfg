SPECIFICATION FairSpec
CONSTANTS
  PipeCap = 2
  Payloads = {0, 2, 4}
  Children <- Programs
PROPERTY AlwaysEnds
CHECK_DEADLOCK FALSE
