SPECIFICATION FairSpec
CONSTANTS
  Clients <- MCClients
  Held <- MCHeld
  Delay <- MCDelay
  Addrs = {a1, a2, a3, a4, a5}
  Null = Null
  Asked = {"lan", "retime"}
  WalkTicks = 1
  MallocMayFail = FALSE
INVARIANTS RetimeArmed
PROPERTIES DueServed TaskRuns PortsComeUp
