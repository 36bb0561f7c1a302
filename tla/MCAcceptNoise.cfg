SPECIFICATION StageSpec
CONSTANTS
  c1 = c1
  Controls = {c1}
  p1 = p1
  Pools = {p1}
  u1 = u1
  Users = {u1}
  OutCap = 1
  QueueCap = 1
  MaxLoad = 1
  None = None
  k1 = k1
  k2 = k2
  k3 = k3
  Peers = {k1, k2, k3}
  Strangers = {k3}
  Room = 1
  NoPeer = NoPeer
INVARIANT BlocksOnNoPeer
CHECK_DEADLOCK FALSE
