SPECIFICATION Spec
CONSTANTS
  a = a
  b = b
  x = x
  y = y
  Pointer <- OneOf
  Hook <- Two
  Kind <- OnAShell
  Wipers <- OnlyA
  Cap = 1
  Mortal <- None
CHECK_DEADLOCK FALSE
INVARIANT LessonsComeBack
