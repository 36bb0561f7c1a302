SPECIFICATION RelaySpec
CONSTANTS
  k1 = k1
  Sources = {k1}
  c1 = c1
  c2 = c2
  Carriers = {c1, c2}
  NoCarrier = NoCarrier
  NoSource = NoSource
  Held = 1
SYMMETRY Symmetry
INVARIANT MapMatchesReaders
INVARIANT NoCarrierLost
CHECK_DEADLOCK FALSE
