SPECIFICATION Spec
CONSTANTS
  s1 = s1
  s2 = s2
  s3 = s3
  p1 = p1
  p2 = p2
  r1 = r1
  Sessions <- OneSessions
  Players <- MCPlayers
  PlayerOf <- OnePlayerOf
  Requests = {r1}
  Powers = {99, 1100}
  Targets = {p1, p2}
  MaxSeq = 0
  MaxCoordinate = 1
  MaxRange = 1
  MaxHp = 12
  MaxMp = 3
  MaxEther = 1150
  MaxAhead = 1
  MaxPending = 3
  MaxTick = 2
INVARIANTS RequestsOnce
PROPERTIES ImplementsAtomicWorld
CHECK_DEADLOCK FALSE
