SPECIFICATION Spec
CONSTANTS
  Client = Client
  Server = Server
  Headers = {h1, h2}
  MaxSequence = 3
  MaxMessages = 2
  MaxPairings = 2
INVARIANTS
  OpenedInOrder
  NoLockout
  NoncesUnique
PROPERTIES
  ChannelSpec
CHECK_DEADLOCK FALSE
