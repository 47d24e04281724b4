---------------------------- MODULE MCWifiRadio ----------------------------
(* Small delays in the order of the real ones, 5, 30 and 60 seconds. *)
EXTENDS WifiRadio, TLC

MCClients == {"wifi_ap", "wifi_vap", "wifi_time", "wifi_acl", "wifi_site"}
MCDelay   == [set |-> 1, scan |-> 2, retry |-> 3]
Symmetric == Permutations(Addrs)
=============================================================================
