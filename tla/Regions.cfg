SPECIFICATION Spec
CONSTANTS
  Page = 4
  Top = 9
  Hdr = 1
  DataSize = 4
  AllocUnit = 12
  Classes = {2, 4}
  BlkMod = 64
  SizeMod = 16
  Sizes = {2, 4, 5, 7, 8}
  Counts = {5}
  MaxLive = 3
INVARIANTS PoolSound BlocksRecognised PagesAccounted BlocksFit
CHECK_DEADLOCK FALSE
