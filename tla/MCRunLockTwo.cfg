SPECIFICATION MCSpec
CONSTANTS
  a = a
  b = b
  c = c
  Run <- Runs
  Wearable = {}
  CanAsk = TRUE
CHECK_DEADLOCK FALSE
INVARIANT OneRunAtATime
