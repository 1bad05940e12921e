SPECIFICATION Spec
CONSTANTS
  a = a
  b = b
  x = x
  y = y
  Pointer <- Pointers
  Hook <- Two
  Kind <- OnAFile
  Wipers <- OnlyA
  Cap = 1
  Mortal <- FoldAndB
SYMMETRY Alike
CHECK_DEADLOCK FALSE
INVARIANTS
  BudgetBinds
  OwedOnce
  NothingShownIsForgotten
  NoAmnesia
