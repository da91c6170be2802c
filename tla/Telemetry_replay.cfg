SPECIFICATION Spec
CONSTANTS
  MaxBlocks = 1
  MaxWindow = 1
  MaxFaint = 0
  MaxFaults = 1
  MaxNodeReboots = 0
  MaxServerReboots = 1
INVARIANTS
  ReplaysRejected
