SPECIFICATION Spec
CONSTANTS
  Clients <- MCClients
  Held <- MCClients
  Delay <- MCDelay
  Addrs = {a1, a2, a3, a4, a5, a6}
  Null = Null
  GuestOn = TRUE
  WalkTicks = 0
  MallocMayFail = FALSE
SYMMETRY Symmetric
INVARIANTS ScanExclusive SwitchNotForgotten GuestServed
CHECK_DEADLOCK FALSE
