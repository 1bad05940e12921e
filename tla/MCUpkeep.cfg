SPECIFICATION MCSpec
CONSTANTS
  f = f
  g = g
  c1 = c1
  c2 = c2
  n = n
  s = s
  j = j
  k = k
  m = m
  h = h
  Specs <- Both
  Installed <- BothClis
  Families <- OnlyC2
  Overridden <- None
  Mode = "auto"
  MaxModel = 2
  Caller <- RunAndSearch
  Advisory <- OnlySearch
  Threshold = 2
  RungsPerCall = 2
  Sound <- OnlyC2
  Good <- GoodOne
  Job <- Jobs
  Compact <- OnlyM
  Capture <- OnlyH
  Sessions <- OneSession
  MaxRow = 3
  Span = 2
  Slice = 1
  MinReclaim = 2
  UnparkLimit = 1
  MaxFault = 1
  MaxRebuild = 1
  Projects = 2
  Fact <- Facts
  Unsafe <- OnlyG
  Beginnings <- Stores
  MaxId = 6
  Batch = 2
  MaxCalls = 2
  LabelCalls = 1
  MaxRungs = 1
  Patience = 2
  MaxActs = 2
  MaxVisits = 1
  MaxMishap = 1
CHECK_DEADLOCK FALSE
INVARIANTS
  AllTypesOK
  SoundVendorsStayInService
  GoodModelsAreNotSetAside
  UpkeepIsRationed
  WindowAnswersForItsHooks
  RetentionKeepsItsBooks
  FactsSurvive
  LessonReadsOnce
  NoneLeftBehind
PROPERTY WhatPeopleSaidStands
