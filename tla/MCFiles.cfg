SPECIFICATION Spec
CONSTANTS
  N = 2
  m1 = m1
  Menus = {m1}
  Timer = Timer
  None = None
  MaxOps = 3
  MaxCuts = 1
INVARIANT LegacyKept
INVARIANT NoTwin
INVARIANT RestartApplies
INVARIANT GoneLeavesNothing
CHECK_DEADLOCK FALSE
