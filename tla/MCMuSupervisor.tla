--------------------------- MODULE MCMuSupervisor ---------------------------
(* MuSupervisor for TLC: pids and names are interchangeable model values.  *)
EXTENDS MuSupervisor, TLC

Symmetry == Permutations(Pids) \cup Permutations(DaemonNames)
              \cup Permutations(Groups) \cup Permutations(Cmds)
=============================================================================
