----------------------------- MODULE MCTunnels -----------------------------
EXTENDS Tunnels, TLC

MCDelay   == [dial |-> 1]
Symmetric == Permutations(Addrs)
=============================================================================
