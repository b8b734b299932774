SPECIFICATION Spec
CONSTANTS
  Connections = 2
  Commands <- IntakeCommands
  ReadBuffer = 3
  MaxFrame = 3
  MaxPending = 4
  MaxPerConnection = 2
  MaxQueuedInputs = 1
  MoveLimit = 2
  ActionLimit = 1
  MaxSent = 4
  Servers = {1, 2}
  Users = {1, 2}
  Idle = Idle
  ChallengeTtl = 1
  SessionTtl = 2
  MaxTime = 2
  MaxChallenges = 2
  MaxIssued = 2
  n1 = n1
  Npcs = {n1}
  NoNpc = NoNpc
  You = You
  MaxCoordinate = 1
  MaxQueue = 2
  MaxTick = 3
  MaxMoves = 2
  MaxActions = 1
  PlayerIds = {1, 2}
  Places = {0, 14}
  Precision = 10
  MaxHazard = 10
  MaxEntries = 3
  MaxPayload = 8
  HeadSize = 1
  SmallestEntry = 3
  LargestEntry = 4
  LargestLocal = 1
  MaxPredictions = 2
  MaxAhead = 2
  SnapDistance = 4
  MaxInputs = 3
  MaxOtherMoves = 1
  MaxSessions = 2
  MaxDown = 1
  Steps = {2}
INVARIANTS
  CommandsInOrder RefusedForOwnRead DeniedRequestIsServed
  SingleUse KeysNameOwnLogin
  QueuesKeepOrder RespawnsOfTheDead
  SnapshotsAreAccepted
  PredictionExact WithinAdmission RenderedAgrees RemotesExact
PROPERTIES OneFrameFits EndedStaysEnded MovesAreThisFrames DeadUntilRespawn SnapshotsAreExact
CHECK_DEADLOCK FALSE
