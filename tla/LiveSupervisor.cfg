SPECIFICATION FairSpec
CONSTANTS
  Pids = {p1, p2}
  DaemonNames = {dnsmasq}
  Cmds = {cp, mv}
  Groups = {g1}
  Background = bg
  ForkMayFail = TRUE
  OomDelay = 1
  MaxOom = 1
  TaskKeep = 1
  MaxTasks = 2
PROPERTIES DaemonRestarted ZombiesReaped CommandEnds GroupForgotten
