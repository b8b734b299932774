SPECIFICATION Spec
CONSTANTS
  c1 = c1
  Clients <- OneClient
  MaxOutbound = 4
  MaxEffects = 1
  MaxWire = 4
  HasClock = FALSE
  MaxInputs = 1
  MaxEventId = 2
  MaxConnections = 1
INVARIANTS StreamNeverFails
