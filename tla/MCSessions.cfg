SPECIFICATION MCSpec
CONSTANTS
  a = a
  b = b
  c = c
  Run <- Two
  Forced <- None
  Idlers <- OnlyB
  Mortal <- OnlyA
  MaxEvent = 2
  Loud <- First
  MinPending = 2
  ParkAfter = 1
  LaggingHooks = FALSE
  SlowRuns = FALSE
  Chunked = FALSE
  MayFail = TRUE
CHECK_DEADLOCK FALSE
INVARIANTS
  RetoldOnlyAfterAMishap
  OnlyALostClaimIsShared
  NothingIsLost
  OnlyReopenedWorkIsStranded
