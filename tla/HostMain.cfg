SPECIFICATION MainSpec
CONSTANTS
  Lengths = {28, 35, 80}
  Szx = {0, 1, 2, 6}
  MessageIds = 16
  MaxWindow = 2
  MaxFailures = 2
  Requested = {1, 2, 65536}
  UnsignedRange = 65536
  WindowSize = 64
INVARIANTS
  SegmentsAddUp
  OkMeansComplete
  CompletionsInOrder
  ExitsClean
PROPERTIES
  NextCallUnhindered
CHECK_DEADLOCK FALSE
