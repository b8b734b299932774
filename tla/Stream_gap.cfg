SPECIFICATION Spec
CONSTANTS
  c1 = c1
  Clients <- OneClient
  MaxOutbound = 4
  MaxEffects = 4
  MaxWire = 4
  HasClock = TRUE
  MaxInputs = 1
  MaxEventId = 4
  MaxConnections = 1
INVARIANTS GapRequestsSnapshot
