SPECIFICATION Spec
CONSTANTS
  Window = 2
  MaxErrors = 1
  g1 = g1
  g2 = g2
  None = None
  RungCount = 3
  Policies <- SomePolicies
  GateOrder <- TwoGates
  FailClosed = {g2}
  Budgeted = {g2}
  Expensive = {g2}
  ScoreMax = 2
  Answers <- SomeAnswers
  CallCosts = {0, 1}
  GateCosts = {0}
  MaxOthers = 1
INVARIANTS
  ServedScoreReadBack
