SPECIFICATION MCSpec
CONSTANTS
  f = f
  g = g
  a = a
  b = b
  c = c
  d = d
  q = q
  None = None
  Fact <- Facts
  Unsafe <- OnlyG
  Beginnings <- Ending
  Projects = 2
  MaxId = 6
  Batch = 2
  MaxCalls = 2
  LabelCalls = 1
  MaxRungs = 1
  Patience = 2
  MaxActs = 2
  MaxVisits = 1
  MaxMishap = 1
CHECK_DEADLOCK FALSE
PROPERTIES
  CleanupIsOver
  RetiringHubsLeave
  EveryCallEnds
  EveryRunEnds
