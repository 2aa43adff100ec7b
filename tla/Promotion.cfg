SPECIFICATION FairSpec
CONSTANTS
  Turns = {a, b}
  Top = 2
  AfterFailures = 2
  ProbeEvery = 2
  None = None
INVARIANTS
  PinIsEarned
PROPERTIES
  StaysDown
