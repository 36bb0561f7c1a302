SPECIFICATION PartSpec
CONSTANTS
  None = None
  MaxDisguises = 2
  Presets = {"turbo"}
  Cores = {1, 2, 4, 8, 16}
  Mbps = {5, 20, 100, 500, 800, 2000}
  Rtts = {10, 80, 250}
  Ports = {p1, p2}
  Hosts = {lo, h1}
  Local = lo
  MaxPorts = 2
  MaxBackends = 2
  Hours = {1, 2}
INVARIANT HandTunedKept
CHECK_DEADLOCK FALSE
