SPECIFICATION FairSpec
CONSTANTS
  Thread = {t1, t2}
  Span = {s1, s2}
  NClass = 1
  NBlk <- TwoOne
  Unit = 2
  CntMax = 4
  Exits = TRUE
  POOL = POOL
  NULL = NULL
PROPERTY CallsReturn
CHECK_DEADLOCK FALSE
