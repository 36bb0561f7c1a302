SPECIFICATION FairSpec
CONSTANTS
  Modes <- BothModes
  c1 = c1
  c2 = c2
  Conns = {c1, c2}
  p1 = p1
  p2 = p2
  Pools = {p1, p2}
  u1 = u1
  u2 = u2
  Users = {u1, u2}
  None = None
  MinIdle = 1
  MaxStreams = 2
  QueueCap = 1
  MaxFaults = 2
  Prompt = TRUE
INVARIANT CarriersAccounted
 
PROPERTY KeptWhileStanding
 
 
CHECK_DEADLOCK FALSE
