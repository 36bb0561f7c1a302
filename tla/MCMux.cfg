SPECIFICATION FairSpec
CONSTANTS
  s1 = s1
  s2 = s2
  Sessions = {s1, s2}
  u1 = u1
  u2 = u2
  Users = {u1, u2}
  MaxStreams = 1
  MaxIdle = 1
  MaxLoad = 3
  NoSession = NoSession
INVARIANT CountsBalanced
PROPERTY RoomNoticed
CHECK_DEADLOCK FALSE
