SPECIFICATION FairSpec
CONSTANTS
  PipeCap = 2
  Payloads = {0, 2, 4}
  Children <- Programs
INVARIANTS
  VerdictIsTheChilds
  NoChildLeft
PROPERTIES
  JudgesTheWholeCandidate
  EndsIfHeeded
