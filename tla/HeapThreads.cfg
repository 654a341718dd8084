SPECIFICATION FairSpec
CONSTANTS
  Thread = {t1, t2}
  Span = {s1, s2, s3}
  NClass = 1
  NBlk <- TwoOne
  Unit = 2
  CntMax = 4
  Exits = FALSE
  POOL = POOL
  NULL = NULL
INVARIANTS ListsWellFormed BlocksAccounted SpansPlaced ForgottenSpansReturn NoOverrunWithoutExit
PROPERTIES HeapSpec CallsReturn
