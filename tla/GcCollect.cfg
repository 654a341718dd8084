SPECIFICATION FairSpec
CONSTANTS
  a = a
  b = b
  c = c
  Obj = {a, b, c}
  Hash <- Hashes
  Capacity = 2
  MaxWords = 1
  MaxSize = 3
  Resized = {a}
  NULL = NULL
INVARIANTS TableOK LoadBounded OneEntryEach MarksRight
PROPERTIES SweepsSafely CollectsAllGarbage CollectionEnds
CHECK_DEADLOCK FALSE
