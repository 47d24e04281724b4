SPECIFICATION FairSpec
CONSTANTS
  Clients <- MCClients
  Held <- MCClients
  Delay <- MCDelay
  Addrs = {a1, a2, a3}
  Null = Null
  GuestOn = FALSE
  WalkTicks = 1
  MallocMayFail = FALSE
PROPERTIES ScanEnds
