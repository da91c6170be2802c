SPECIFICATION FairSpec
CONSTANTS
  MaxBlocks = 2
  MaxWindow = 3
  MaxFaint = 1
  MaxFaults = 2
  MaxNodeReboots = 0
  MaxServerReboots = 1
INVARIANTS
  DecodedWhole
  ConfirmedDecoded
PROPERTIES
  QuietWindowsDecoded
