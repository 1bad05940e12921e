SPECIFICATION MCSpec
CONSTANTS
  a = a
  b = b
  c = c
  d = d
  e = e
  Run <- Five
  Want <- EachForItself
  Spare <- OnlyC
  Mortal <- OnlyA
  MayFail = TRUE
  MayOverrun = TRUE
  MaxDrain = 1
  Work <- Contents
  Sessions <- OneSession
  Wearable <- OnlyA
  CanAsk = TRUE
CHECK_DEADLOCK FALSE
INVARIANTS
  FileNamesAHolderOrTheDead
  OnlyATakeoverBreaksTheLock
  NoAskServedTwiceAtOnce
  OpenAsksAreExplained
