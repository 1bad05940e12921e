SPECIFICATION Spec
CONSTANTS
  f = f
  g = g
  Fact <- Facts
  Unsafe <- OnlyG
  Beginnings <- Stores
  Projects = 2
  MaxId = 6
  Batch = 2
  MaxCalls = 2
  LabelCalls = 1
  MaxRungs = 1
  Patience = 2
  MaxActs = 2
  MaxVisits = 1
  MaxMishap = 1
INVARIANT MoveIsOneRun
CHECK_DEADLOCK FALSE
