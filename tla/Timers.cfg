SPECIFICATION Spec
CONSTANTS
  Clients <- MCClients
  Held <- MCHeld
  Delay <- MCDelay
  Addrs = {a1, a2, a3, a4, a5, a6}
  Null = Null
  Asked = {"dnsmasq", "lan", "net"}
  WalkTicks = 2
  MallocMayFail = TRUE
SYMMETRY Symmetric
INVARIANTS NoFreedEntryUsed HandlesLive SortedByDue PortsDownPending NoOrphan AnswerStands OnlineOnlyWhileUp
