SPECIFICATION Spec
CONSTANTS
  Dhcp = {d1, d2}
  Ppp = {p1, p2}
  AliveMax = 2
  InboxMax = 3
  KillInbox = 1
  Troubles <- MCTroubles
SYMMETRY Symmetric
INVARIANTS SingleClient KeepsTrying Reported
PROPERTY DownIsOwn
