----------------------------- MODULE MCMuTimers -----------------------------
(* Small delays in the order of the real ones; one address more than entries. *)
EXTENDS MuTimers, TLC

MCClients == {"task", "dnsmasq", "lan", "retime", "net"}
MCHeld    == MCClients \ {"task"}
MCDelay   == [task |-> 1, dnsmasq |-> 2, lan |-> 3, net |-> 3] @@
             ("retime set" :> 2 @@ "retime again" :> 3 @@ "retime init" :> 3)
Symmetric == Permutations(Addrs)
=============================================================================
