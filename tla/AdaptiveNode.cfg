SPECIFICATION NodeSpec
CONSTANTS
  MaxHold = 1
  Lengths = {7, 8, 39, 40}
  MaxFaults = 2
INVARIANTS
  SegmentsAgree
  NoStaleSuccess
  ObserverTruthful
  CautiousAfterCongestion
PROPERTIES
  NeverSilent
