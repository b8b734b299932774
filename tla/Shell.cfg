SPECIFICATION FairSpec
CONSTANTS
  MaxOutbound = 1
  ReadBuffer = 2
  MaxUpdateFrame = 3
  SnapshotSize = 2
  MaxConnections = 2
  MaxWire = 2
INVARIANTS TypeOK StreamUnderstood CommandsNameOwnSession
PROPERTIES ReconnectEnds
CHECK_DEADLOCK FALSE
