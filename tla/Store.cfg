SPECIFICATION FairSpec
CONSTANTS
  Trace = {t1, t2, t3, t4}
  Cap = 1
  Modes = {TRUE, FALSE}
  MaxRestarts = 1
  MaxFaults = 1
  Garbage = Garbage
INVARIANTS
  TypeOK
  ChainVerifies
  SpillNeverLost
  SentAccountedFor
  DuplicatesOnlyByReplay
  SameWayInOrder
PROPERTIES
  KeepsPromise
  SentEventuallyStored
  SpillDrainedByAwakeWriter
CHECK_DEADLOCK FALSE
