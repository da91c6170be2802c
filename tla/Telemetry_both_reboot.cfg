SPECIFICATION Spec
CONSTANTS
  MaxBlocks = 2
  MaxWindow = 2
  MaxFaint = 0
  MaxFaults = 2
  MaxNodeReboots = 1
  MaxServerReboots = 1
INVARIANTS
  DecodedInSequence
