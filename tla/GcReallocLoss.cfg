SPECIFICATION Spec
CONSTANTS
  a = a
  b = b
  c = c
  Obj = {a, c}
  Hash <- TwoHashes
  Capacity = 2
  MaxWords = 2
  MaxSize = 3
  Resized = {a, c}
  NULL = NULL
PROPERTY FreesGarbageOnly
CHECK_DEADLOCK FALSE
