---------------------------- MODULE MCGuestHosts ----------------------------
(***************************************************************************)
(* Small delays in the order of the real ones, 5, 10 and 60 seconds.       *)
(*                                                                         *)
(* Three parts of the state space, one after the other, for want of time   *)
(* for all at once.  "requests": all requests are made, also about guests  *)
(* that are offline, of a network whose settings stay and that no guest    *)
(* leaves for the other one.  "changes": settings change and guests go     *)
(* over, and requests are about guests that are online.  "lag": so are     *)
(* they, the settings stay, and mu is two messages behind the kernel.      *)
(***************************************************************************)
EXTENDS GuestHosts, TLC

MCClients == Entries \cup {"wifi_vap", "ap_change"}
MCHeld    == Entries \cup {"wifi_vap"}
MCDelay   == [set |-> 1, change |-> 1, minute |-> 1]
\* Anyone; anyone, but cut off at once; with a password.
MCSettings == {[open |-> TRUE, wechat |-> TRUE], [open |-> TRUE, wechat |-> FALSE],
               [open |-> FALSE, wechat |-> TRUE]}
Symmetric == Permutations(Addrs) \cup Permutations(Macs) \cup Permutations(Entries)

VARIABLE part   \* of the state space

\* Bound: minutes astray at once, so that memory lasts for the others.
AstrayMax == 1
Strays    == {a \in Addrs : \E e \in Entries : Astray(e, a)}

Settled == conf.open /\ conf.wechat /\ handle["wifi_vap"] = Null
Staying == \A m \in Macs : place[m] # "ap"
Prompt  == Len(queue) <= 1

AboutOnline ==
  Called /\ loop'.at = "netlink" =>
    \A e \in Listed :
      Offline(e) => guest'[e] = guest[e] \/ (guest[e].passid /\ ~guest'[e].passid)

Scope ==
  CASE part = "requests" -> /\ Settled /\ Staying /\ Prompt
                            /\ loop.at = "ran" \/ Cardinality(Strays) <= AstrayMax
    [] part = "changes"  -> Prompt
    [] part = "lag"      -> Settled

MCInit == Init /\ part \in {"requests", "changes", "lag"} /\ Scope
MCNext ==
  /\ Next
  /\ UNCHANGED part
  /\ Scope'
  /\ part # "requests" => AboutOnline

MCSpec == MCInit /\ [][MCNext]_<<vars, part>>
=============================================================================
