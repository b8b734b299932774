SPECIFICATION Spec
CONSTANTS
  s1 = s1
  s2 = s2
  s3 = s3
  p1 = p1
  p2 = p2
  r1 = r1
  Sessions <- MCSessions
  Players <- MCPlayers
  PlayerOf <- MCPlayerOf
  Requests = {}
  Powers = {}
  Targets = {}
  MaxSeq = 2
  MaxCoordinate = 1
  MaxRange = 1
  MaxHp = 1
  MaxMp = 1
  MaxEther = 2
  MaxAhead = 1
  MaxPending = 2
  MaxTick = 2
INVARIANTS TypeOK MovesInOrder
CHECK_DEADLOCK FALSE
