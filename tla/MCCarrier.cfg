SPECIFICATION Spec
CONSTANTS
  f1 = f1
  f2 = f2
  Flows = {f1, f2}
  u1 = u1
  Users = {u1}
  NoFlow = NoFlow
  NoUser = NoUser
  ChanCap = 1
  Window = 1
  MaxGen = 2
  MaxLoad = 3
  MaxFlight = 1
SYMMETRY Symmetry
INVARIANT FlowOnce
INVARIANT MappedIsServed
CHECK_DEADLOCK FALSE
