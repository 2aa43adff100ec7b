SPECIFICATION FairRelaySpec
CONSTANTS
  Requests = 3
  Posts = 3
  a = a
  b = b
  Replica = {a, b}
  Shared = Shared
  Setups <- Deployments
  MaxEntries = 2
  Window = 2
  MinN = 2
  Tolerated = 1
  Cooldown = 1
  Ceiling = 2
  DayLength = 2
  MaxTime = 3
  None = None
  LineCap = 2
  MaxFigure = 2
  Streams <- Contents
INVARIANTS
  TypeOK
  ReplayIsProven
  DisprovenStaysOut
  OneReceipt
  DemotedOnNewEvidence
  ReceiptTellsTheStream
PROPERTIES
  ShadowStopsAtCeiling
  StreamedIsRecorded
CHECK_DEADLOCK FALSE
