------------------------------ MODULE Tunnels ------------------------------
(***************************************************************************)
(* The VPN tunnels of mu (igd_tunnel.c).  A slot of the table holds one    *)
(* tunnel; a web request adds, changes or removes it, and every address    *)
(* the WAN gets restarts them all (RESET).  A PPTP tunnel is a pppd of its *)
(* own; for L2TP the daemon xl2tpd is started and told what to dial by a   *)
(* timer two seconds later.  pppd reports over IPC that the tunnel is up   *)
(* or down, possibly late.                                                 *)
(*                                                                         *)
(* killall ends the processes of all tunnels of a kind, also one that was  *)
(* started just before: it is taken to have its name by then.              *)
(* The list of timers is that of Scheduler.                                *)
(***************************************************************************)
EXTENDS Scheduler, FiniteSets

Slots == {0, 1}      \* TUNNEL_MX is 2
Kinds == {"pptp", "l2tp"}
None  == "none"

ASSUME TunnelsAssumption ==
  /\ Clients = Slots /\ Held = Slots   \* l2tp[], with l2tp_cb
  /\ "dial" \in DOMAIN Delay

VARIABLES
  tcfg,      \* slot -> [invalid, hander, status, conf]: invalid means in use
  nat,       \* iptables: [masq, dnat : slots with a rule, jumps : a number]
  procs,     \* [pptp, l2tp : slots with a pppd, xl2tpd : it runs]
  started    \* pppds that there have been, and whose reports may be late

tunnelVars == <<tcfg, nat, procs, started>>
vars       == <<schedVars, tunnelVars>>

\* named: there is a user or a password.
Confs   == [index : Slots, type : Kinds \cup {None}, enable : BOOLEAN, named : BOOLEAN]
Zero    == [index |-> 0, type |-> None, enable |-> FALSE, named |-> FALSE]
Unused  == [invalid |-> FALSE, hander |-> None, status |-> None, conf |-> Zero]
Tunnel  == [invalid : BOOLEAN, hander : Kinds \cup {None},
            status : {None, "up", "down"}, conf : Confs]

TypeOK ==
  /\ SchedulerTypeOK
  /\ tcfg \in [Slots -> Tunnel]
  /\ nat \in [masq : SUBSET Slots, dnat : SUBSET Slots, jumps : 0..Cardinality(Slots)]
  /\ procs \in [pptp : SUBSET Slots, l2tp : SUBSET Slots, xl2tpd : BOOLEAN]
  /\ started \subseteq Slots \X Kinds

----------------------------------------------------------------------------
(***************************************************************************)
(* What one handler does, as a function from the state it has reached to   *)
(* the set of those it may go on from.                                     *)
(***************************************************************************)
Now == [evs |-> events, h |-> handle, tcfg |-> tcfg, nat |-> nat, procs |-> procs,
        started |-> started, ret |-> 0]

Become(s) ==
  /\ events' = s.evs /\ handle' = s.h /\ tcfg' = s.tcfg /\ nat' = s.nat
  /\ procs' = s.procs /\ started' = s.started

Fail(s) == [s EXCEPT !.ret = -1]

\* tunnel_generic_ip_down: the chain that all tunnels share is flushed.
IpDown(s, i) ==
  IF s.tcfg[i].status = "down" THEN s
  ELSE [s EXCEPT !.tcfg[i].status = "down",
                 !.nat.masq = @ \ {i}, !.nat.dnat = {}, !.nat.jumps = Less(@)]

\* killall pppd-pptp, and ip_down.
PptpDown(s, i) == IpDown([s EXCEPT !.procs.pptp = {}], i)

KillL2tp(s) == [s EXCEPT !.procs.l2tp = {}, !.procs.xl2tpd = FALSE]

\* The timer is cancelled, xl2tpd and its pppds are killed.
L2tpDown(s, i) ==
  IpDown(KillL2tp(IF s.h[i] = Null THEN s
                  ELSE [s EXCEPT !.evs = Dropped(@, s.h[i]), !.h[i] = Null]), i)

TunnelDown(s, i) ==
  IF s.tcfg[i].hander = "pptp" THEN PptpDown(s, i)
  ELSE IF s.tcfg[i].hander = "l2tp" THEN L2tpDown(s, i) ELSE s

\* The options cannot be written, or pppd is started.
PptpUp(s, i) ==
  {Fail(s),
   [s EXCEPT !.procs.pptp = @ \cup {i}, !.started = @ \cup {<<i, "pptp">>}]}

\* The options cannot be written, which is no failure here; no memory for the timer;
\* or the timer is set and xl2tpd is started.
L2tpUp(s, i) ==
  {s} \cup
  {IF a = Null THEN [Fail(s) EXCEPT !.h[i] = Null]
   ELSE [s EXCEPT !.evs = Scheduled(@, a, i, Delay["dial"]), !.h[i] = a,
                  !.procs.xl2tpd = TRUE] :
     a \in Allocs(s.evs)}

\* The rest of tunnel_set: the kind decides about the hander, enable about going up.
Raise(s, i, c) ==
  LET t == [s EXCEPT !.tcfg[i].hander = c.type] IN
  IF ~s.tcfg[i].invalid \/ c.type = None THEN {Fail(s)}
  ELSE IF ~c.enable THEN {t}
  ELSE IF c.type = "pptp" THEN PptpUp(t, i) ELSE L2tpUp(t, i)

\* tunnel_set for a slot: one without a name is removed.
\* Faulty variant: without tunnel_down.
TunnelSetOver(s, i, c) ==
  IF c.named THEN Raise(s, i, c) ELSE {[s EXCEPT !.tcfg[i] = Unused]}

TunnelSet(s, i, c) ==
  LET t == TunnelDown(s, i) IN
    IF c.named THEN Raise(t, i, c) ELSE {[t EXCEPT !.tcfg[i] = Unused]}

\* tunnel_set for a new one: the first slot that is free, if there is one.
FreeSlots == {i \in Slots : ~tcfg[i].invalid}
FirstFree == CHOOSE i \in FreeSlots : \A j \in FreeSlots : i <= j

TunnelAdd(s, c) == Raise([s EXCEPT !.tcfg[FirstFree].invalid = TRUE], FirstFree, c)

\* tunnel_save_config, unless tunnel_set failed.
\* Faulty variant: as the client sent them, without the index of a new one.
SavedAsSent(s, i, c) ==
  IF s.ret = 0 THEN [s EXCEPT !.tcfg[i].conf = [c EXCEPT !.index = 0]] ELSE s

Saved(s, i, c) == IF s.ret = 0 THEN [s EXCEPT !.tcfg[i].conf = c] ELSE s

\* tunnel_restart, for one slot: with the settings of the slot, whatever they say.
Restarted(s, i) ==
  IF s.tcfg[i].invalid
  THEN TunnelSet(s, s.tcfg[i].conf.index, s.tcfg[i].conf) ELSE {s}

----------------------------------------------------------------------------
(***************************************************************************)
(* tunnel_init: tunnels are read from the flash in their order, then       *)
(* restarted.                                                              *)
(***************************************************************************)
Stored(i, c) ==
  [invalid |-> TRUE, hander |-> c.type, status |-> None, conf |-> c]

Named(i) == {c \in Confs : c.index = i /\ c.type \in Kinds /\ c.named}

Blank == [evs |-> <<>>, h |-> [i \in Slots |-> Null],
          nat |-> [masq |-> {}, dnat |-> {}, jumps |-> 0],
          procs |-> [pptp |-> {}, l2tp |-> {}, xl2tpd |-> FALSE],
          started |-> {}, ret |-> 0,
          tcfg |-> [i \in Slots |-> Unused]]

Init ==
  \E n \in 0..Cardinality(Slots) : \E c \in [Slots -> Confs] :
    /\ \A i \in Slots : c[i] \in IF i < n THEN Named(i) ELSE {Zero}
    /\ LET b == [Blank EXCEPT !.tcfg = [i \in Slots |->
                   IF i < n THEN Stored(i, c[i]) ELSE Unused]] IN
       \E s \in Restarted(b, 0) : \E t \in Restarted(s, 1) :
         /\ events = t.evs /\ handle = t.h /\ tcfg = t.tcfg /\ nat = t.nat
         /\ procs = t.procs /\ started = t.started
         /\ loop = IF events = <<>> THEN Selecting ELSE LookAt(events, events[1].addr)
         /\ timeout = Forever /\ slow = 0

----------------------------------------------------------------------------
(***************************************************************************)
(* Requests.                                                               *)
(***************************************************************************)
New == {c \in Confs : c.type \in Kinds /\ c.named}

Add ==
  /\ Called /\ FreeSlots # {}
  /\ \E c \in New :
       LET d == [c EXCEPT !.index = FirstFree] IN
       \E s \in TunnelAdd(Now, d) : Become(Saved(s, FirstFree, d))
  /\ Answered

Change(i) ==
  /\ Called
  /\ \E c \in New : c.index = i /\ \E s \in TunnelSet(Now, i, c) : Become(Saved(s, i, c))
  /\ Answered

\* The page sends nothing but the index.
Remove(i) ==
  /\ Called
  /\ LET c == [Zero EXCEPT !.index = i] IN
       \E s \in TunnelSet(Now, i, c) : Become(Saved(s, i, c))
  /\ Answered

\* The WAN got an address.
Reset ==
  /\ Called
  /\ \E s \in Restarted(Now, 0) : \E t \in Restarted(s, 1) : Become(t)
  /\ Answered

\* tunnel_ipcp: a pppd of the kind that the slot has by now is believed.
Believed(i, kind) ==
  /\ <<i, kind>> \in started
  /\ tcfg[i].hander # None /\ tcfg[i].conf.type = kind

\* Faulty variant: also when it is up.
TunnelIpUpAgain(i, kind) ==
  /\ Called /\ Believed(i, kind)
  /\ tcfg' = [tcfg EXCEPT ![i].status = "up"]
  /\ nat' = [masq |-> nat.masq \cup {i}, dnat |-> nat.dnat \cup {i},
             jumps |-> nat.jumps + 1]
  /\ Leave(events, handle) /\ Answered
  /\ UNCHANGED <<procs, started>>

\* tunnel_generic_ip_up, of a pppd that was told of a name server.
TunnelIpUp(i, kind) ==
  /\ Called /\ Believed(i, kind)
  /\ tcfg[i].status # "up"
  /\ tcfg' = [tcfg EXCEPT ![i].status = "up"]
  /\ nat' = [masq |-> nat.masq \cup {i}, dnat |-> nat.dnat \cup {i},
             jumps |-> nat.jumps + 1]
  /\ Leave(events, handle) /\ Answered
  /\ UNCHANGED <<procs, started>>

TunnelIpDown(i, kind) ==
  /\ Called /\ Believed(i, kind)
  /\ Become(IpDown(Now, i))
  /\ Answered

----------------------------------------------------------------------------
\* Faulty variant: the static variable is not cleared.
L2tpCbKeep(i) ==
  LET c == tcfg[i].conf IN
  /\ Due(i) /\ Ran
  /\ Leave(events, handle)
  /\ IF procs.xl2tpd
     THEN /\ procs' = [procs EXCEPT !.l2tp = @ \cup {c.index}]
          /\ started' = started \cup {<<c.index, "l2tp">>}
     ELSE UNCHANGED <<procs, started>>
  /\ UNCHANGED <<tcfg, nat>>

\* l2tp_cb: it goes by the index in the settings.  xl2tpd, if it runs, dials.
L2tpCb(i) ==
  LET c == tcfg[i].conf IN
  /\ Due(i) /\ Ran
  /\ Leave(events, Cleared(c.index))
  /\ IF procs.xl2tpd
     THEN /\ procs' = [procs EXCEPT !.l2tp = @ \cup {c.index}]
          /\ started' = started \cup {<<c.index, "l2tp">>}
     ELSE UNCHANGED <<procs, started>>
  /\ UNCHANGED <<tcfg, nat>>

\* A pppd gives up, or xl2tpd ends (external).
ProcessEnds ==
  /\ \/ \E i \in procs.pptp : procs' = [procs EXCEPT !.pptp = @ \ {i}]
     \/ \E i \in procs.l2tp : procs' = [procs EXCEPT !.l2tp = @ \ {i}]
     \/ procs.xl2tpd /\ procs' = [procs EXCEPT !.xl2tpd = FALSE, !.l2tp = {}]
  /\ UNCHANGED <<schedVars, tcfg, nat, started>>

Request == Add \/ Reset \/ \E i \in Slots : Change(i) \/ Remove(i)
Report  == \E i \in Slots, kind \in Kinds : TunnelIpUp(i, kind) \/ TunnelIpDown(i, kind)
Dial    == \E i \in Slots : L2tpCb(i)
Loop    == Walk /\ UNCHANGED tunnelVars
Tick    == SchedulerTick /\ UNCHANGED tunnelVars

Next == Request \/ Report \/ Dial \/ ProcessEnds \/ Loop \/ Tick

Spec == Init /\ [][Next]_vars

----------------------------------------------------------------------------
(***************************************************************************)
(* Properties.                                                             *)
(***************************************************************************)
Wanted(i, kind) ==
  tcfg[i].invalid /\ tcfg[i].conf.enable /\ tcfg[i].conf.type = kind

\* No pppd is left behind for a tunnel that was removed, switched off or changed to
\* the other kind.
NoStrayPppd ==
  /\ \A i \in procs.pptp : Wanted(i, "pptp")
  /\ \A i \in procs.l2tp : Wanted(i, "l2tp")

\* A dial that is pending is for an L2TP tunnel that is wanted, and will read the
\* settings of that slot and clear the static variable of that slot.
DialIsOwn ==
  \A i \in Slots :
    handle[i] # Null => Wanted(i, "l2tp") /\ tcfg[i].conf.index = i

\* The rules that send the LAN's traffic and its DNS into a tunnel are there only
\* while the tunnel is up: none is left behind for one that is down or removed.
RulesOnlyForUp ==
  LET up == {i \in Slots : tcfg[i].status = "up"} IN
  nat.masq = up /\ nat.dnat \subseteq up /\ nat.jumps <= Cardinality(up)
=============================================================================
