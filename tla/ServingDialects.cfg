SPECIFICATION RelaySpec
CONSTANTS
  Requests = 3
  Posts = 3
  a = a
  b = b
  Replica = {a, b}
  Shared = Shared
  Setups <- Dialects
  MaxEntries = 2
  Window = 2
  MinN = 2
  Tolerated = 1
  Cooldown = 1
  Ceiling = 2
  DayLength = 2
  MaxTime = 3
  None = None
  LineCap = 2
  MaxFigure = 2
  Streams <- Contents
PROPERTY DemotedServesAsObserve
CHECK_DEADLOCK FALSE
