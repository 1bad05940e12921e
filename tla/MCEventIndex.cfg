SPECIFICATION LiveSpec
CONSTANTS
  t = t
  v = v
  w = w
  x = x
  y = y
  z = z
  f = f
  o = o
  c = c
  d = d
  e = e
  r = r
  q = q
  s = s
  Target = t
  Writer <- Eight
  Kind <- Revising
  CatchUps <- Catches
  Rebuilders <- Builds
  Syncs <- TwoSyncs
  Mortal <- OnlyV
  Fallible <- VAndD
  Alone <- InTurn
  Casts <- AllCasts
CHECK_DEADLOCK FALSE
INVARIANTS
  LossIsExplained
  IndexIsDerived
  WatermarkTellsTheTruth
  RebuildReproducesInTurn
PROPERTIES
  ForgetIsFinal
  EveryLineIsIndexed
