SPECIFICATION FairSpec
CONSTANTS
  Chunk = 5
  Total = 12
  SBuf = 3
  Cap = 2
INVARIANTS
  TypeOK
  EchoAccounting
  RoundTripAcknowledged
  NoMutualBlock
PROPERTIES
  SessionEnds
