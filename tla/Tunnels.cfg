SPECIFICATION Spec
CONSTANTS
  Clients <- Slots
  Held <- Slots
  Delay <- MCDelay
  Addrs = {a1, a2, a3}
  Null = Null
  WalkTicks = 1
  MallocMayFail = TRUE
SYMMETRY Symmetric
INVARIANTS HandlesLive NoStrayPppd DialIsOwn RulesOnlyForUp
