---------------------------- MODULE WanInterface ----------------------------
(***************************************************************************)
(* The WAN interface of mu (igd_interface.c) with those that change it     *)
(* behind the owner's back (igd_system.c): the nightly restart of pppd and *)
(* the automatic switch between DHCP and PPPoE after a reset.              *)
(*                                                                         *)
(* mu starts a program that gets an address, and the program tells mu over *)
(* IPC: udhcpc says DOWN when it starts or loses its lease and UP when it  *)
(* has one, pppd says UP when it is connected and DOWN when it loses the   *)
(* connection.  A program that is killed may have a message waiting that   *)
(* mu reads later; mu cannot tell who sent it.                             *)
(*                                                                         *)
(* A fork may fail: exec_cmd then returns 0 as if all was well, and what   *)
(* was to be killed or started is not.                                     *)
(*                                                                         *)
(* A program that is killed is dead at once.  pppd gets a SIGTERM, and     *)
(* says nothing more than it has said; both who send it sleep or wait for  *)
(* longer than it takes to die.                                            *)
(*                                                                         *)
(* Left out: the bridge mode, the LAN interface, what an address that has  *)
(* come or gone starts elsewhere (MuTimers, Tunnels), and the setting of   *)
(* the device's MAC and MTU, which clients check first and is taken to     *)
(* succeed.                                                                *)
(***************************************************************************)
EXTENDS Naturals, Sequences, FiniteSets

CONSTANTS
  Dhcp,       \* processes that can be a udhcpc
  Ppp,        \* processes that can be a pppd
  AliveMax,   \* bound: clients that are started while as many are alive
  InboxMax,   \* bound: messages waiting at mu's socket
  KillInbox,  \* the same bound, while a client outlives its killing
  Troubles    \* bound: what may be wrong at the same time, see trouble

ASSUME WanInterfaceAssumption ==
  /\ Dhcp \cap Ppp = {}
  /\ \A i \in Dhcp \cup Ppp : i \notin {"wisp", "gone", "static", "nobody"}
  /\ AliveMax \in Nat /\ InboxMax \in Nat /\ KillInbox \in Nat

VARIABLES
  mode,      \* config.mode
  hander,    \* whose functions are called
  status,    \* the status bits: "none", "up" or "down"
  addr,      \* whose address the interface has; "gone": of a process that is dead
  failed,    \* ip_up failed with the address it was given last
  run,       \* process -> "off", "new" (udhcpc), "wait" or "bound"
  prog,      \* [wisp : "off", "down", "up" or "leaving", w3g : it runs]
  inbox,     \* messages for mu, the oldest first: [act, from]
  link,      \* [cable : it is plugged in, ifstats : it was at the last look]
  redial,    \* pppd_restart_cb is scheduled: "due", or "stale" when the mode was set since
  auto       \* auto_swtich_to_pppoe_cb is scheduled: to "try" PPPoE, or to go "back"

VARIABLE
  trouble    \* history, which no step reads: what has gone wrong and still lasts

ifaceVars == <<mode, hander, status, addr, failed>>
procVars  == <<run, prog, inbox>>
vars      == <<ifaceVars, procVars, link, redial, auto, trouble>>

Modes   == {"dhcp", "pppoe", "static", "wisp", "3g"}
Procs   == Dhcp \cup Ppp
Senders == Procs \cup {"wisp", "gone"}
Message == [act : {"up"}, from : Senders \ {"wisp"}] \cup [act : {"down"}, from : Senders]

TypeOK ==
  /\ mode \in Modes /\ hander \in Modes
  /\ status \in {"none", "up", "down"}
  /\ addr \in Procs \cup {"gone", "static", "nobody"}
  /\ failed \in BOOLEAN
  /\ run \in [Procs -> {"off", "new", "wait", "bound"}]
  /\ prog \in [wisp : {"off", "down", "up", "leaving"}, w3g : BOOLEAN]
  /\ inbox \in Seq(Message)
  /\ link \in [cable : BOOLEAN, ifstats : BOOLEAN]
  /\ redial \in {"no", "due", "stale"}
  /\ auto \in {"off", "try", "back"}
  /\ trouble \subseteq {"kill", "start", "redial"}

----------------------------------------------------------------------------
(***************************************************************************)
(* Programs and their messages.                                            *)
(***************************************************************************)
Killed(r, ps)   == [i \in Procs |-> IF i \in ps THEN "off" ELSE r[i]]
Alive(i)        == run[i] # "off"
Running(r)      == {i \in Procs : r[i] # "off"}
Owner(who, ps)  == IF who \in ps THEN "gone" ELSE who
Orphaned(q, ps) == [k \in 1..Len(q) |-> [act |-> q[k].act, from |-> Owner(q[k].from, ps)]]

\* r with one more of ps running.  pppd has nothing to say when it starts.
Started(r, ps, state) ==
  {[r EXCEPT ![i] = state] :
     i \in {j \in ps : r[j] = "off" /\ Cardinality(Running(r)) < AliveMax}}

Post(act, who) == inbox' = Append(inbox, [act |-> act, from |-> who])

----------------------------------------------------------------------------
(***************************************************************************)
(* if_down and if_up of the handers.                                       *)
(***************************************************************************)
\* Faulty variant: udhcpc belongs to wisp, which is killed.
KilledByWisp(h) == IF h = "dhcp" THEN Dhcp
                   ELSE IF h \in {"pppoe", "3g"} THEN Ppp ELSE {}

\* The clients that if_down of a hander kills: by name, all there are.
KilledBy(h) == IF h \in {"dhcp", "wisp"} THEN Dhcp
               ELSE IF h \in {"pppoe", "3g"} THEN Ppp ELSE {}

\* The client that if_up of a hander starts.
UpRuns(h, r) == IF h = "dhcp" THEN Started(r, Dhcp, "new")
                ELSE IF h = "pppoe" THEN Started(r, Ppp, "wait") ELSE {r}

\* The forks of if_down and of if_up of h that may fail: for killing the helper or the
\* client, for starting either.
Forks(h) == (IF {hander, h} \cap {"wisp", "3g"} = {} THEN {} ELSE {"helper"})
            \cup (IF hander = "static" THEN {} ELSE {"client"})
            \cup (IF h = "static" THEN {} ELSE {"start"})

\* What if_down of the hander leaves of the clients and the helpers.
Struck(fails)   == IF "client" \in fails THEN {} ELSE KilledBy(hander)
DownRuns(fails) == Killed(run, Struck(fails))
DownProg(fails) ==
  IF "helper" \in fails THEN prog
  ELSE [wisp |-> IF hander = "wisp" THEN "off" ELSE prog.wisp,
        w3g  |-> prog.w3g /\ hander # "3g"]

\* if_up of h starts its own; wisp's kills the one there was once more.
UpProg(h, p, fails) ==
  [wisp |-> IF h # "wisp" \/ ("helper" \in fails /\ p.wisp # "off") THEN p.wisp
            ELSE IF "start" \in fails THEN "off" ELSE "down",
   w3g  |-> p.w3g \/ (h = "3g" /\ "start" \notin fails)]

\* The trouble left when ps and the hander's helper should be dead: none when nothing
\* is alive, "kill" when one of them is.
Lasting(r, p, ps) ==
  IF p.wisp = "off" /\ ~p.w3g /\ Running(r) = {}
  THEN trouble \ {"kill", "redial"}
  ELSE IF \/ ps \cap Running(r) # {}
          \/ hander = "wisp" /\ p.wisp # "off"
          \/ hander = "3g" /\ p.w3g
  THEN trouble \cup {"kill"} ELSE trouble

\* ip_up for the address in the settings, right after ip_down: it may fail.
UpStatic ==
  \/ status' = "up" /\ addr' = "static" /\ failed' = FALSE
  \/ status' = "down" /\ addr' = "nobody" /\ failed' = TRUE

\* if_down of the hander, then if_up of h.
DownUp(h, fails) ==
  /\ run' \in IF "start" \in fails THEN {DownRuns(fails)} ELSE UpRuns(h, DownRuns(fails))
  /\ prog' = UpProg(h, DownProg(fails), fails)
  /\ inbox' = Orphaned(inbox, Struck(fails))
  /\ trouble' = (Lasting(DownRuns(fails), DownProg(fails), KilledBy(hander)) \ {"start"})
                \cup (fails \cap {"start"})
  /\ IF h = "static" THEN UpStatic
     ELSE status' = "down" /\ addr' = "nobody" /\ failed' = FALSE

----------------------------------------------------------------------------
\* interface_load_config.
Init ==
  /\ mode \in Modes /\ hander = mode
  /\ \/ mode = "static" /\ status = "up" /\ addr = "static" /\ failed = FALSE
     \/ mode = "static" /\ status = "none" /\ addr = "nobody" /\ failed = TRUE
     \/ mode # "static" /\ status = "none" /\ addr = "nobody" /\ failed = FALSE
  /\ \E fails \in SUBSET (Forks(mode) \cap {"start"}) :
       /\ run \in LET r == [i \in Procs |-> "off"]
                  IN  IF "start" \in fails THEN {r} ELSE UpRuns(mode, r)
       /\ prog = UpProg(mode, [wisp |-> "off", w3g |-> FALSE], fails)
       /\ trouble = fails
  /\ inbox = <<>>
  /\ \E b \in BOOLEAN : link = [cable |-> b, ifstats |-> b]
  /\ redial = "no"
  /\ auto \in {"off", "try"}

\* interface_param_set and, when it succeeded, interface_param_save.  Only wisp's if_up
\* tells a failed fork; static_up sets the mode in any case.
SetMode(h) ==
  \E fails \in SUBSET Forks(h) :
    /\ DownUp(h, fails)
    /\ mode' = IF h = "wisp" /\ "start" \in fails THEN mode ELSE h
    /\ hander' = h
    /\ redial' = IF redial = "no" THEN "no" ELSE "stale"

\* IF_MOD_PARAM_SET.
ParamSet(h) == SetMode(h) /\ UNCHANGED <<link, auto>>

\* The same for a mode that is none: it is refused after if_down.
ParamRefused ==
  /\ \E fails \in SUBSET Forks("none") : "start" \in fails /\ DownUp("none", fails)
  /\ UNCHANGED <<mode, hander, link, redial, auto>>

\* Faulty variant: without if_down.
LinkCheckUp ==
  LET back == mode = "dhcp" /\ link.cable /\ ~link.ifstats IN
  /\ link' = [link EXCEPT !.ifstats = link.cable]
  /\ IF back THEN run' \in UpRuns(hander, run) ELSE UNCHANGED run
  /\ UNCHANGED <<ifaceVars, prog, inbox, redial, auto, trouble>>

\* ifstats_cb, every second: a cable that came back gets another lease.
LinkCheck ==
  LET back == mode = "dhcp" /\ link.cable /\ ~link.ifstats IN
  /\ link' = [link EXCEPT !.ifstats = link.cable]
  /\ IF back THEN \E fails \in SUBSET Forks(hander) : DownUp(hander, fails)
     ELSE UNCHANGED <<status, addr, failed, procVars, trouble>>
  /\ UNCHANGED <<mode, hander, redial, auto>>

\* interface_generic_ip_up: an interface that is up keeps its address.
IpUp(who) ==
  IF status = "up" THEN UNCHANGED <<status, addr, failed>>
  ELSE \/ status' = "up" /\ addr' = who /\ failed' = FALSE
       \/ failed' = TRUE /\ UNCHANGED <<status, addr>>

\* interface_generic_ip_down.
IpDown ==
  IF status = "down" THEN UNCHANGED <<status, addr, failed>>
  ELSE status' = "down" /\ addr' = "nobody" /\ UNCHANGED failed

\* interface_ipchange: mu reads a message.  In static mode it is refused.
Deliver ==
  /\ inbox # <<>>
  /\ inbox' = Tail(inbox)
  /\ IF mode = "static" THEN UNCHANGED <<status, addr, failed>>
     ELSE IF Head(inbox).act = "up" THEN IpUp(Head(inbox).from) ELSE IpDown
  /\ UNCHANGED <<mode, hander, run, prog, link, redial, auto, trouble>>

----------------------------------------------------------------------------
(***************************************************************************)
(* Timers of igd_system.c.                                                 *)
(***************************************************************************)
\* system("killall pppd"), whose fork may fail.
KillPpp ==
  \E ps \in {{}, Ppp} :
    /\ run' = Killed(run, ps)
    /\ inbox' = Orphaned(inbox, ps)
    /\ addr' = Owner(addr, ps)
    /\ trouble' = Lasting(run', prog, Ppp)

\* Faulty variant: pppd is killed without a look at what schedule returned.
PppoeDoRash ==
  /\ redial = "no" /\ mode = "pppoe"
  /\ KillPpp /\ redial' \in {"no", "due"}
  /\ UNCHANGED <<mode, hander, status, failed, prog, link, auto>>

\* pppoe_do_cb, once a night: pppd is killed, unless there is no memory for the timer
\* that starts it again.
PppoeDo ==
  /\ redial = "no" /\ mode = "pppoe"
  /\ redial' = "due" /\ KillPpp
  /\ UNCHANGED <<mode, hander, status, failed, prog, link, auto>>

\* pppd_restart_cb, six seconds later, starts pppd with the account of before, whatever
\* mode has been set by then.
PppdRestart ==
  LET late == redial = "stale" \/ hander # "pppoe" IN
  /\ redial # "no" /\ redial' = "no"
  /\ IF mode = "static" THEN UNCHANGED <<status, addr, failed>> ELSE IpDown
  /\ \E fails \in SUBSET {"start"} :
       /\ run' \in IF fails = {} THEN Started(run, Ppp, "wait") ELSE {run}
       /\ trouble' = trouble \cup fails \cup (IF late THEN {"redial"} ELSE {})
  /\ UNCHANGED <<mode, hander, prog, inbox, link, auto>>

\* auto_swtich_to_pppoe_cb gives up: the net is there, it was no reset, the flash has
\* no account, or the mode is another one than it expects.
AutoStop ==
  /\ auto # "off" /\ auto' = "off"
  /\ UNCHANGED <<ifaceVars, procVars, link, redial, trouble>>

\* It tries PPPoE once, and goes back.  25 seconds with the cable in have passed.
AutoSwitch ==
  /\ link.cable
  /\ \/ auto = "try" /\ mode = "dhcp" /\ SetMode("pppoe") /\ auto' = "back"
     \/ auto = "back" /\ mode = "pppoe" /\ SetMode("dhcp") /\ auto' = "off"
  /\ UNCHANGED link

----------------------------------------------------------------------------
(***************************************************************************)
(* What the programs and the cable do.                                     *)
(***************************************************************************)
\* Faulty variant: it says nothing when it starts.
DeconfigQuiet(i) ==
  /\ \/ run[i] = "new" /\ UNCHANGED inbox
     \/ run[i] = "bound" /\ Post("down", i)
  /\ run' = [run EXCEPT ![i] = "wait"]
  /\ UNCHANGED <<ifaceVars, prog, link, redial, auto, trouble>>

\* udhcpc starts, or its lease ends.
Deconfig(i) ==
  /\ run[i] \in {"new", "bound"}
  /\ run' = [run EXCEPT ![i] = "wait"]
  /\ Post("down", i)
  /\ UNCHANGED <<ifaceVars, prog, link, redial, auto, trouble>>

\* udhcpc has a lease, pppd is connected.
Bound(i) ==
  /\ run[i] = "wait"
  /\ run' = [run EXCEPT ![i] = "bound"]
  /\ Post("up", i)
  /\ UNCHANGED <<ifaceVars, prog, link, redial, auto, trouble>>

\* pppd loses the connection, and dials again.
PppLost(i) ==
  /\ run[i] = "bound"
  /\ run' = [run EXCEPT ![i] = "wait"]
  /\ Post("down", i)
  /\ UNCHANGED <<ifaceVars, prog, link, redial, auto, trouble>>

\* wisp_ipup: the other access point is there.
WispUp ==
  /\ prog.wisp = "down"
  /\ run' \in Started(run, Dhcp, "new") \cup {run}
  /\ prog' = [prog EXCEPT !.wisp = "up"]
  /\ UNCHANGED <<ifaceVars, inbox, link, redial, auto, trouble>>

\* wisp_ipdown: it is gone.  udhcpc is killed first.
WispLost ==
  /\ prog.wisp = "up"
  /\ prog' = [prog EXCEPT !.wisp = "leaving"]
  /\ \E ps \in {{}, Dhcp} :
       /\ run' = Killed(run, ps)
       /\ inbox' = Orphaned(inbox, ps)
       /\ addr' = Owner(addr, ps)
       /\ trouble' = trouble \cup
            (IF Dhcp \cap Running(run') # {} THEN {"kill"} ELSE {})
  /\ UNCHANGED <<mode, hander, status, failed, link, redial, auto>>

\* Then mu is told, if it answered what it was asked in between.
WispDown ==
  /\ prog.wisp = "leaving"
  /\ prog' = [prog EXCEPT !.wisp = "down"]
  /\ Post("down", "wisp") \/ UNCHANGED inbox
  /\ UNCHANGED <<ifaceVars, run, link, redial, auto, trouble>>

\* w3g dials (external).
W3gDials ==
  /\ prog.w3g /\ \A i \in Ppp : ~Alive(i)
  /\ run' \in Started(run, Ppp, "wait")
  /\ UNCHANGED <<ifaceVars, prog, inbox, link, redial, auto, trouble>>

Plug ==
  /\ link' = [link EXCEPT !.cable = ~@]
  /\ UNCHANGED <<ifaceVars, procVars, redial, auto, trouble>>

Client  == \/ \E i \in Dhcp : Deconfig(i)
           \/ \E i \in Ppp : PppLost(i)
           \/ \E i \in Procs : Bound(i)
Helper  == WispUp \/ WispLost \/ WispDown \/ W3gDials
Request == (\E h \in Modes : ParamSet(h)) \/ ParamRefused
Timer   == LinkCheck \/ PppoeDo \/ PppdRestart \/ AutoStop \/ AutoSwitch

Bounds ==
  /\ trouble' \in Troubles
  /\ Len(inbox') <= IF "kill" \in trouble' THEN KillInbox ELSE InboxMax

Next == (Request \/ Deliver \/ Timer \/ Client \/ Helper \/ Plug) /\ Bounds

Spec == Init /\ [][Next]_vars

----------------------------------------------------------------------------
(***************************************************************************)
(* Properties.                                                             *)
(***************************************************************************)
\* There is never more than one client on the WAN, and it is one that the hander in
\* charge will kill, whatever the helpers, the cable check, the nightly restart and the
\* automatic switch start.  A restart that comes after the mode was set adds one pppd,
\* and never a second; nothing is promised while a client lives that a failed fork
\* has left alive.
SingleClient ==
  "kill" \notin trouble =>
    \E late \in Ppp \cup {"nobody"} :
      /\ late # "nobody" => "redial" \in trouble
      /\ \A i \in Procs \ {late} : Alive(i) =>
           /\ i \in KilledBy(hander)
           /\ \A j \in Procs \ {late} : Alive(j) => j = i

\* A late message of a client of before cannot give a static interface an address, nor
\* can a pppd that was restarted too late or was left alive.
StaticIsSafe ==
  mode = "static" /\ status = "up" => addr = "static"

\* Whatever has been set, somebody is working on an address: no timer, cable, helper or
\* failed malloc leaves the interface without.  Only a failed fork or a set that is
\* refused does: then the client of before is dead, and nobody starts one.
KeepsTrying ==
  trouble \cap {"start", "kill"} = {} =>
    /\ hander = "dhcp"   => \E i \in Dhcp : Alive(i)
    /\ hander = "pppoe"  => redial # "no" \/ \E i \in Ppp : Alive(i)
    /\ hander = "static" => failed \/ status = "up"
    /\ hander = "wisp"   => prog.wisp # "off"
    /\ hander = "3g"     => prog.w3g

\* Nobody else is on the WAN: no client that a failed fork left alive, and no restart
\* of pppd has come too late since the hander last killed all there was.
Alone == trouble \cap {"kill", "redial"} = {}

\* A client that has an address, with no message left to read, has the interface up
\* unless the rules could not be set; and a udhcpc has it up with its own address,
\* whatever a client of before said late.
Reported ==
  Alone /\ inbox = <<>> /\ ~failed => \A i \in Procs : run[i] = "bound" =>
    /\ status = "up"
    /\ i \in Dhcp => addr = i

\* A message that an address is lost takes the interface down only if it has that
\* address, or one whose owner is dead: never another client's, however late it is,
\* as long as no other client is left.
DownIsOwn ==
  [][Alone /\ inbox # <<>> /\ inbox' = Tail(inbox) /\ status = "up" /\ status' = "down" =>
       addr \in {Head(inbox).from, "gone"}]_vars
=============================================================================
