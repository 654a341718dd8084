SPECIFICATION Spec
CONSTANTS
  Thread = {t1, t2}
  Span = {s1, s2}
  NClass = 2
  NBlk <- TwoOne
  Unit = 1
  CntMax = 4
  Exits = TRUE
  POOL = POOL
  NULL = NULL
INVARIANTS TypeOK HeapSound
PROPERTIES OwnerChangesViaPool HeapSpec
SYMMETRY Sym
CHECK_DEADLOCK FALSE
