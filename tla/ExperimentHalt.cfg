SPECIFICATION Spec
CONSTANTS
  Subjects = 4
  Jobs = 4
  a = a
  b = b
  Replica = {a, b}
  Cap = 2
  Level = 2
  Setups <- HaltForgotten
  None = None
PROPERTY FreshReplicaSeesTheHalt
CHECK_DEADLOCK FALSE
