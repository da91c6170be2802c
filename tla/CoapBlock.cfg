SPECIFICATION Spec
CONSTANTS
  MaxCut = 330
  Inputs <- SomeCalls
  Damaged <- Few
INVARIANTS
  WithinBuffers
  RoundTrip
  TruncationSeen
  PipelineFits
  HeaderBound
CHECK_DEADLOCK FALSE
