SPECIFICATION LiveSpec
CONSTANTS
  a = a
  b = b
  u = u
  MaxVersion = 3
  Broken <- Last
  Hook <- Two
  Updater <- OnlyU
  FailLimit = 2
  MaxMishap = 1
CHECK_DEADLOCK FALSE
INVARIANTS
  CondemnedStaysAway
  RollbackIsEarned
PROPERTIES
  RollsBackWhatFailed
  BrokenIsRolledBack
