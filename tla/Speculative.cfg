SPECIFICATION FairSpec
CONSTANTS
  Window = 2
  MaxErrors = 1
  g1 = g1
  g2 = g2
  None = None
  RungCount = 3
  Policies <- SomePolicies
  GateOrder <- OneGate
  FailClosed = {g1}
  Budgeted = {g1}
  Expensive = {}
  ScoreMax = 2
  Answers <- Verdicts
  CallCosts = {0, 1}
  GateCosts = {0}
  MaxOthers = 1
  Speculation = 2
INVARIANTS
  InFlightInWindow
  CondensingCarriesNoSpend
PROPERTIES
  ImplementsSerial
  Terminates
