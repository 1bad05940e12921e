SPECIFICATION MCSpec
CONSTANTS
  a = a
  b = b
  q = q
  None = None
  Reqs <- TwoCalls
  MaxHubs = 2
  Query <- OnlyQ
  QueryOf <- AskQ
  Deadly <- OnlyQ
  Newer <- OnlyA
  CrashLimit = 1
  DeathsToLock = 2
  MaxMishap = 1
CHECK_DEADLOCK FALSE
INVARIANTS
  EndpointIsHeld
  KillsAreLimited
  HolderIsNotCharged
PROPERTY
  ImplementsContract
