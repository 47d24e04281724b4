SPECIFICATION MCSpec
CONSTANTS
  Macs = {m1, m2, m3}
  Entries = {e1, e2}
  Addrs = {a1, a2, a3, a4}
  Null = Null
  Clients <- MCClients
  Held <- MCHeld
  Delay <- MCDelay
  HostMax = 1
  AllowMax = 1
  QueueMax = 2
  Settings <- MCSettings
  WalkTicks = 0
  MallocMayFail = TRUE
SYMMETRY Symmetric
INVARIANT NoFreeRide
