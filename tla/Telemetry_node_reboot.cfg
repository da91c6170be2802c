SPECIFICATION FairSpec
CONSTANTS
  MaxBlocks = 2
  MaxWindow = 3
  MaxFaint = 1
  MaxFaults = 1
  MaxNodeReboots = 1
  MaxServerReboots = 0
INVARIANTS
  TypeOK
  ReplaysRejected
PROPERTIES
  ServiceSpec
  OutageEnds
