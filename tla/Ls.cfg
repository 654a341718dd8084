SPECIFICATION Spec
CONSTANTS
  NameLen <- Lengths
  IntHalf = 8
  ShortHalf = 128
  Kilo = 20
  Dot = 0
  DotDot = 1
  Hidden = {0, 1, 2}
  Attr <- Attributes
  Entries <- Tree
  Cwd = 1
  None = 0
  MaxLinks = 2
  MaxPath = 6
  MsgSize = 18
  CommandLines <- Commands
  MaxFaults = 1
  LongSizes <- Sampled
  LinkLengths = {0, 1, 40, 78, 79, 80, 81, 159, 160, 161, 239, 240}
INVARIANTS NodesLive InOrder LaidOut NothingLost  AsReported OptionsMean Conversions
PROPERTY Ends
CHECK_DEADLOCK FALSE
