SPECIFICATION Spec
CONSTANTS
  Servers = {1, 2}
  Users = {1, 2}
  Idle = Idle
  ChallengeTtl = 1
  SessionTtl = 2
  MaxTime = 2
  MaxChallenges = 2
  MaxIssued = 2
INVARIANTS ClaimedLoginsSucceed
CHECK_DEADLOCK FALSE
