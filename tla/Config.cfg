SPECIFICATION Spec
CONSTANTS
  States = {"NORMAL", "CONGESTED"}
  WordBits = 20
  UnsignedRange = 65536
  Inputs <- SmallInputs
  MaxLines = 4
INVARIANTS
  AcceptedUsable
  AcceptedAsWritten
CHECK_DEADLOCK FALSE
