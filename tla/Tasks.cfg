SPECIFICATION Spec
CONSTANTS
  Pids = {p1, p2}
  DaemonNames = {}
  Cmds = {cp, mv}
  Groups = {g1, g2}
  Background = bg
  ForkMayFail = TRUE
  OomDelay = 0
  MaxOom = 0
  TaskKeep = 0
  MaxTasks = 3
SYMMETRY Symmetry
INVARIANTS OneOwner CountersAgree InOrder
PROPERTY ImplementsJobQueue
