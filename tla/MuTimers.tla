------------------------------ MODULE MuTimers ------------------------------
(***************************************************************************)
(* The timers of mu's modules on the shared list of Scheduler: the daemon  *)
(* and task check (igd_system.c), the delayed restart of dnsmasq           *)
(* (igd_dnsmasq.c), the LAN ports that are taken down for six seconds to   *)
(* make their hosts ask for an address again and the detection of the      *)
(* internet connection (igd_interface.c), and the timed reboot             *)
(* (igd_system.c).  The handlers of two modules meet here: dnsmasq's       *)
(* callback restarts the LAN ports from inside the walk of the list.       *)
(*                                                                         *)
(* The port of the WAN is left out.  interface_lan_restart takes it down   *)
(* with the others when it serves as one more LAN port (wisp, 3g), and the *)
(* callback skips it when ifstats has it up.                               *)
(***************************************************************************)
EXTENDS Scheduler, FiniteSets

CONSTANT Asked   \* bound: the clients that requests come in for

ASSUME MuTimersAssumption ==
  /\ Clients = {"task", "dnsmasq", "lan", "retime", "net"}
  /\ Held = Clients \ {"task"}
  /\ {"task", "dnsmasq", "lan", "retime init", "retime set", "retime again",
      "net"} \subseteq DOMAIN Delay
  /\ Asked \subseteq Held

VARIABLES
  portsDown,  \* the LAN ports have been taken down by interface_lan_restart
  enable,     \* retime.enable: a timed reboot is set
  online,     \* online = NET_ONLINE
  detect,     \* detect = DETECT_ON: an answer of netdetect is awaited
  wan         \* the IF_STATUS_IP_ bit of the WAN interface: "none", "up", "down"

netVars   == <<online, detect, wan>>
timerVars == <<portsDown, enable, netVars>>
vars      == <<schedVars, timerVars>>

TypeOK ==
  /\ SchedulerTypeOK
  /\ portsDown \in BOOLEAN /\ enable \in BOOLEAN
  /\ online \in BOOLEAN /\ detect \in BOOLEAN
  /\ wan \in {"none", "up", "down"}

\* mu_init: the timers armed before main enters its loop.  dnsmasq is to be started,
\* and the LAN interface has come up; the WAN interface too if its address is static.
Init ==
  /\ \E a, b, c, d \in Addrs :
       /\ Cardinality({a, b, c, d}) = 4
       /\ LET dns    == Scheduled(<<>>, a, "dnsmasq", Delay["dnsmasq"])
              retime == Scheduled(dns, b, "retime", Delay["retime init"])
              task   == Scheduled(retime, c, "task", Delay["task"])
          IN  events = Scheduled(task, d, "lan", Delay["lan"])
       /\ handle = [h \in Held |-> CASE h = "dnsmasq" -> a
                                     [] h = "retime"  -> b
                                     [] h = "lan"     -> d
                                     [] OTHER         -> Null]
       /\ loop = LookAt(events, events[1].addr)
  /\ timeout = Forever /\ slow = 0
  /\ portsDown = TRUE
  /\ enable \in (IF "retime" \in Asked THEN BOOLEAN ELSE {FALSE})
  /\ wan \in (IF "net" \in Asked THEN {"none", "up"} ELSE {"none"})
  /\ online = FALSE /\ detect = (wan = "up")

----------------------------------------------------------------------------
(***************************************************************************)
(* The check of daemons and tasks: it arms itself again.                   *)
(***************************************************************************)
\* Faulty variant: it does not.
TaskCbOnce ==
  /\ Due("task") /\ Ran
  /\ Leave(events, handle)
  /\ UNCHANGED timerVars

TaskCb ==
  /\ Due("task") /\ Ran
  /\ Arm(events, handle, "task", "task")
  /\ UNCHANGED timerVars

(***************************************************************************)
(* The LAN ports: down, and up again by the timer.  A handler may go on    *)
(* after it has restarted them, so that this is the set of what it can     *)
(* leave: the list, the static variables and the ports.                    *)
(***************************************************************************)
LanKept(evs, h) == [evs |-> evs, h |-> h, down |-> portsDown]
LanArmed(evs, h, a) ==
  [evs |-> Scheduled(evs, a, "lan", Delay["lan"]), h |-> [h EXCEPT !["lan"] = a],
   down |-> portsDown \/ a # Null]

\* Faulty variants: a second request starts the time anew; the ports are taken
\* down although no timer could be had.
LanRestartAgain(evs, h) ==
  LET left == IF h["lan"] = Null THEN evs ELSE Dropped(evs, h["lan"])
  IN  {LanArmed(left, h, a) : a \in Allocs(left)}

LanRestartUnchecked(evs, h) ==
  IF h["lan"] # Null THEN {LanKept(evs, h)}
  ELSE {[LanArmed(evs, h, a) EXCEPT !.down = TRUE] : a \in Allocs(evs)}

LanRestart(evs, h) ==
  IF h["lan"] # Null THEN {LanKept(evs, h)}
  ELSE {LanArmed(evs, h, a) : a \in Allocs(evs)}

LanLeave(new) == Leave(new.evs, new.h) /\ portsDown' = new.down

\* Faulty variant: a client's request while the ports are down starts the time anew.
LanCallAgain ==
  /\ "lan" \in Asked
  /\ Called /\ Answered
  /\ \E new \in LanRestart(Cancelled(events, "lan"), Cleared("lan")) : LanLeave(new)
  /\ UNCHANGED <<enable, netVars>>

\* A client asks for it, or changes the address of the LAN interface.
LanCall ==
  /\ "lan" \in Asked
  /\ Called /\ Answered
  /\ \E new \in LanRestart(events, handle) : LanLeave(new)
  /\ UNCHANGED <<enable, netVars>>

\* Faulty variant: lan_event keeps the freed entry.
LanCbKeep ==
  /\ Due("lan") /\ Ran
  /\ Leave(events, handle)
  /\ portsDown' = FALSE
  /\ UNCHANGED <<enable, netVars>>

\* interface_lan_cb: all ports of the LAN come up.
LanCb ==
  /\ Due("lan") /\ Ran
  /\ Leave(events, Cleared("lan"))
  /\ portsDown' = FALSE
  /\ UNCHANGED <<enable, netVars>>

(***************************************************************************)
(* dnsmasq: every change of its settings starts the two seconds anew.      *)
(***************************************************************************)
DnsmasqRestart(evs, h) ==
  Arm(IF h["dnsmasq"] = Null THEN evs ELSE Dropped(evs, h["dnsmasq"]),
      [h EXCEPT !["dnsmasq"] = Null], "dnsmasq", "dnsmasq")

DnsmasqCall ==
  /\ "dnsmasq" \in Asked
  /\ Called /\ Answered
  /\ DnsmasqRestart(events, handle)
  /\ UNCHANGED timerVars

\* Its configuration may fail to be written; otherwise the LAN ports are restarted.
DnsmasqCb ==
  /\ Due("dnsmasq") /\ Ran
  /\ \/ Leave(events, Cleared("dnsmasq")) /\ UNCHANGED portsDown
     \/ \E new \in LanRestart(events, Cleared("dnsmasq")) : LanLeave(new)
  /\ UNCHANGED <<enable, netVars>>

(***************************************************************************)
(* The timed reboot: checked every 30 seconds while it is set.  A reboot   *)
(* for one day unsets it when its time has come.                           *)
(***************************************************************************)
RetimeCall ==
  /\ "retime" \in Asked
  /\ Called /\ Answered
  /\ enable' \in BOOLEAN
  /\ Arm(Cancelled(events, "retime"), Cleared("retime"), "retime", "retime set")
  /\ UNCHANGED <<portsDown, netVars>>

\* Faulty variant: without the time of day (get_tm() failed) it gives up.
RetimeCbGiveUp ==
  /\ Due("retime") /\ Ran
  /\ \/ Leave(events, Cleared("retime")) /\ UNCHANGED enable
     \/ /\ enable /\ enable' \in BOOLEAN
        /\ Arm(events, Cleared("retime"), "retime", "retime again")
  /\ UNCHANGED <<portsDown, netVars>>

RetimeCb ==
  /\ Due("retime") /\ Ran
  /\ \/ /\ ~enable
        /\ Leave(events, Cleared("retime")) /\ UNCHANGED enable
     \/ /\ enable /\ enable' \in BOOLEAN
        /\ Arm(events, Cleared("retime"), "retime", "retime again")
  /\ UNCHANGED <<portsDown, netVars>>

(***************************************************************************)
(* The connection to the internet.  netdetect, a program of its own,       *)
(* answers over IPC, at any time: what was sent before it was killed can   *)
(* still come in.  The kernel notifies that traffic gets no answer.        *)
(***************************************************************************)
\* Faulty variant: no look at what is going on already.
NetLostAlways ==
  /\ "net" \in Asked
  /\ Notified
  /\ detect' = TRUE
  /\ Arm(events, handle, "net", "net")
  /\ Handled
  /\ UNCHANGED <<portsDown, enable, online, wan>>

NetLost ==
  /\ "net" \in Asked
  /\ Notified
  /\ online /\ ~detect
  /\ detect' = TRUE
  /\ Arm(events, handle, "net", "net")
  /\ Handled
  /\ UNCHANGED <<portsDown, enable, online, wan>>

\* net_status_cb: no answer in ten seconds.
NetCb ==
  /\ Due("net") /\ Ran
  /\ Leave(events, Cleared("net"))
  /\ online' = FALSE
  /\ UNCHANGED <<portsDown, enable, detect, wan>>

\* Faulty variant: the timer is not cancelled.
NetReplyKeep ==
  /\ "net" \in Asked
  /\ Called /\ Answered
  /\ Leave(events, handle)
  /\ \/ ~detect /\ UNCHANGED <<online, detect>>
     \/ detect /\ online' \in BOOLEAN /\ detect' = ~online'
  /\ UNCHANGED <<portsDown, enable, wan>>

NetReply ==
  /\ "net" \in Asked
  /\ Called /\ Answered
  /\ Leave(Cancelled(events, "net"), Cleared("net"))
  /\ \/ ~detect /\ UNCHANGED <<online, detect>>
     \/ detect /\ online' \in BOOLEAN /\ detect' = ~online'
  /\ UNCHANGED <<portsDown, enable, wan>>

\* A WAN address in the LAN's subnet moves the LAN to another one: its ports and
\* dnsmasq are restarted.  So they are in bridge mode, in the other order.
LanMoves ==
  \E new \in {LanKept(events, handle)} \cup LanRestart(events, handle) :
    /\ DnsmasqRestart(new.evs, new.h)
    /\ portsDown' = new.down

\* interface_generic_ip_up of the WAN interface; a step of it may fail and leave
\* the address unset, also after the LAN has moved.
Addressed(was, detecting) ==
  \/ /\ wan' = "up" /\ detect' = TRUE
     /\ LanMoves \/ (Leave(events, handle) /\ UNCHANGED portsDown)
  \/ wan' = was /\ detect' = detecting /\ LanMoves

IpUp ==
  /\ "net" \in Asked
  /\ Called /\ Answered
  /\ wan # "up"
  /\ Addressed(wan, detect)
  /\ UNCHANGED <<enable, online>>

\* interface_param_set and interface_wan_bridge with a static address: down and up
\* again.  An interface that is down already is neither online nor being detected.
IpStatic ==
  /\ "net" \in Asked
  /\ Called /\ Answered
  /\ online' = FALSE
  /\ Addressed("down", FALSE)
  /\ UNCHANGED enable

\* interface_generic_ip_down of the WAN interface.
\* Faulty variant: the detection goes on.
IpDownDetecting ==
  /\ "net" \in Asked
  /\ Called /\ Answered
  /\ wan # "down" /\ wan' = "down"
  /\ online' = FALSE
  /\ Leave(events, handle)
  /\ UNCHANGED <<portsDown, enable, detect>>

IpDown ==
  /\ "net" \in Asked
  /\ Called /\ Answered
  /\ wan # "down" /\ wan' = "down"
  /\ online' = FALSE /\ detect' = FALSE
  /\ Leave(events, handle)
  /\ UNCHANGED <<portsDown, enable>>

----------------------------------------------------------------------------
Callback == TaskCb \/ LanCb \/ DnsmasqCb \/ RetimeCb \/ NetCb
Message  == LanCall \/ DnsmasqCall \/ RetimeCall \/ NetReply \/ IpUp
              \/ IpStatic \/ IpDown

\* process_schedule on mu's list, and the turns of main's loop that find nothing
\* for these modules.
Loop     == Walk /\ UNCHANGED timerVars
Idle     == (OtherCall \/ OtherNetlink) /\ UNCHANGED timerVars
Tick     == SchedulerTick /\ UNCHANGED timerVars

Next == Callback \/ Message \/ NetLost \/ Loop \/ Idle \/ Tick

Spec == Init /\ [][Next]_vars

\* main's loop never stops between two select()s, a callback returns, and time
\* passes.  Requests come or not.
FairSpec == Spec /\ WF_vars(Callback \/ Loop) /\ WF_vars(Tick)

----------------------------------------------------------------------------
(***************************************************************************)
(* Properties.                                                             *)
(***************************************************************************)
\* Ports that are down have a timer that takes them up again.
PortsDownPending == portsDown => handle["lan"] # Null

\* LAN ports that were taken down come up, however often the restart is asked for
\* and whatever dnsmasq's callback does in the same walk.
PortsComeUp == portsDown ~> ~portsDown

\* A reboot that is set is being waited for.
RetimeArmed == enable => handle["retime"] # Null

\* An answer of netdetect stands: once the connection is known to be online and no
\* detection is under way, no timeout of an earlier detection is left that would
\* set it offline.
AnswerStands == online /\ ~detect => handle["net"] = Null

\* The connection is online only while the WAN interface has an address, also when
\* an answer of netdetect comes in after the address was lost.
OnlineOnlyWhileUp == online => wan = "up"

\* The check of daemons and tasks runs again and again: what MuSupervisor assumes
\* of its timer.
TaskRuns == []<>(loop.at = "ran" /\ loop.cur \in Addresses(events) /\ Current.cb = "task")
=============================================================================
