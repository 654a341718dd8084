SPECIFICATION Spec
CONSTANTS
  Thread = {t1}
  Span = {s1, s2, s3, s4}
  NClass = 1
  NBlk <- TwoOne
  Unit = 4
  CntMax = 4
  Exits = FALSE
  POOL = POOL
  NULL = NULL
INVARIANT NeverReissued
