SPECIFICATION FairSpec
CONSTANTS
  c1 = c1
  Clients <- OneClient
  MaxOutbound = 2
  MaxEffects = 1
  MaxWire = 2
  HasClock = TRUE
  MaxInputs = 2
  MaxEventId = 3
  MaxConnections = 2
INVARIANTS TypeOK ViewComplete StreamAscends
PROPERTIES ResyncEnds
