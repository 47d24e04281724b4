--------------------------- MODULE MCWanInterface ---------------------------
EXTENDS WanInterface, TLC

Symmetric == Permutations(Dhcp) \cup Permutations(Ppp)

\* Nothing is promised with "kill", whatever else there is.
MCTroubles == {{}, {"kill"}, {"start"}, {"redial"}, {"start", "redial"}}
=============================================================================
