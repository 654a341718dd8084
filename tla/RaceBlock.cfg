SPECIFICATION Spec
CONSTANTS
  Owner = o
  Remote = {r1}
  Disciplines = {"none"}
  NBlk = 3
  CntMod = 8
  HEAD = HEAD
  NULL = NULL
INVARIANT OnlyFreeBlocks
CHECK_DEADLOCK FALSE
