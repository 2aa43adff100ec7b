SPECIFICATION FairSpec
CONSTANTS
  Subjects = 4
  Jobs = 4
  a = a
  b = b
  Replica = {a, b}
  Cap = 2
  Level = 2
  Setups <- Deployments
  None = None
INVARIANTS
  CountedOnce
  EvidenceIsDurable
  SpendCountedOnce
PROPERTIES
  AgreesWithLog
  HaltHolds
  HaltReachesAll
CHECK_DEADLOCK FALSE
