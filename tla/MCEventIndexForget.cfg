SPECIFICATION Spec
CONSTANTS
  t = t
  v = v
  w = w
  x = x
  y = y
  z = z
  f = f
  o = o
  c = c
  d = d
  e = e
  r = r
  q = q
  s = s
  Target = t
  Writer <- Trio
  Kind <- Forgets
  CatchUps <- OneCatch
  Rebuilders <- None
  Syncs <- None
  Mortal <- OnlyV
  Fallible <- None
  Alone <- None
  Casts <- OneCast
CHECK_DEADLOCK FALSE
INVARIANT ForgetReachesTheRow
