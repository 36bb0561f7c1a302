SPECIFICATION FairStageSpec
CONSTANTS
  c1 = c1
  c2 = c2
  Controls = {c1, c2}
  p1 = p1
  p2 = p2
  Pools = {p1, p2}
  u1 = u1
  u2 = u2
  Users = {u1, u2}
  OutCap = 1
  QueueCap = 1
  MaxLoad = 4
  None = None
  k1 = k1
  k2 = k2
  Peers = {k1, k2}
  Strangers = {k2}
  Room = 1
  NoPeer = NoPeer
INVARIANT PublishedOpen
INVARIANT PoolAccounted
PROPERTY OnlyOwnerWithdraws
PROPERTY UsedOnce
 
PROPERTY GenerationReleased
PROPERTY Resolved
PROPERTY LoopReturns
CHECK_DEADLOCK FALSE
