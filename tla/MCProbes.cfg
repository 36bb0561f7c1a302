SPECIFICATION LoopSpec
CONSTANTS
  Heartbeat = 10
  DegradedRTT = 8
  DegradedStreak = 3
  Delays <- Short
  N = 3
  FailThreshold = 3
  Period = 6
  ProfileCount = 2
  MaxCool = 4
  RetryMin = 1
  RetryMax = 2
  ShortLived = 2
  DialMax = 1
  f1 = f1
  Flows = {f1}
  u1 = u1
  Users = {u1}
  NoFlow = NoFlow
  NoUser = NoUser
  ChanCap = 1
  Window = 1
  MaxGen = 2
  MaxLoad = 4
  MaxFlight = 1
INVARIANT DegradedOnlyIfSlow
INVARIANT SlowIsDegraded
INVARIANT RoundRobin
PROPERTY RotationSettles
PROPERTY FindsWorkingPath
PROPERTY DeadFlowForgotten
CHECK_DEADLOCK FALSE
