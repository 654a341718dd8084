SPECIFICATION Spec
CONSTANTS
  Owner = o
  Remote = {r1, r2, r3}
  Disciplines = {"turns", "apart"}
  NBlk = 4
  CntMod = 8
  HEAD = HEAD
  NULL = NULL
INVARIANTS CountExact ListExact OnlyFreeBlocks
CHECK_DEADLOCK FALSE
