SPECIFICATION Spec
CONSTANTS
  Pids = {p1, p2, p3, p4}
  DaemonNames = {dnsmasq, cloud}
  Cmds = {cp}
  Groups = {g1}
  Background = bg
  ForkMayFail = TRUE
  OomDelay = 1
  MaxOom = 2
  TaskKeep = 1
  MaxTasks = 2
SYMMETRY Symmetry
INVARIANTS TypeOK EntryHasChild NoRunawayDaemon OneInstance
