--------------------------- MODULE MuTimersProofs ---------------------------
(***************************************************************************)
(* Theorems about MuTimers, for any number of entries, any delays and any  *)
(* result of malloc: what a static variable that points to an entry, or    *)
(* does not, says about the state of the module it belongs to.             *)
(***************************************************************************)
EXTENDS MuTimers, SchedulerProofs, FiniteSetTheorems, TLAPS

(***************************************************************************)
(* The inductive invariant.  OnlineOnlyWhileUp is not inductive by itself: *)
(* an answer of netdetect makes the connection online when a detection is  *)
(* under way, so that too must be so only while there is an address.       *)
(***************************************************************************)
HandleType == handle \in [Held -> Addrs \cup {Null}]
DetectUp   == detect => wan = "up"

TimersInv ==
  /\ HandleType
  /\ DetectUp
  /\ OnlineOnlyWhileUp
  /\ AnswerStands
  /\ PortsDownPending

\* The parts that speak of the LAN ports and of the connection.
LanState == <<portsDown, handle["lan"]>>
NetState == <<online, detect, wan, handle["net"]>>

\* malloc returns an address or nothing.
LEMMA AllocsType == \A evs : Allocs(evs) \subseteq Addrs \cup {Null}
BY DEF Allocs

\* schedule() for a client changes the static variable of no other one.
LEMMA ArmEffect ==
  ASSUME NEW evs, NEW h \in [Held -> Addrs \cup {Null}], NEW c, NEW site,
         Arm(evs, h, c, site)
  PROVE  /\ HandleType'
         /\ \A d \in Held \ {c} : handle'[d] = h[d]
<1>1. PICK a \in Allocs(evs) : handle' = IF c \in Held THEN [h EXCEPT ![c] = a] ELSE h
  BY DEF Arm
<1>2. a \in Addrs \cup {Null}
  BY <1>1, AllocsType
<1> QED BY <1>1, <1>2 DEF HandleType

\* Setting a static variable to NULL changes no other one.
LEMMA ClearedEffect ==
  ASSUME HandleType, NEW c \in Held
  PROVE  /\ Cleared(c) \in [Held -> Addrs \cup {Null}]
         /\ Cleared(c)[c] = Null
         /\ \A d \in Held \ {c} : Cleared(c)[d] = handle[d]
BY DEF Cleared, HandleType

\* The restart of the LAN ports leaves a timer behind when it takes them down.
LEMMA LanRestartEffect ==
  ASSUME NEW evs, NEW h \in [Held -> Addrs \cup {Null}],
         portsDown => h["lan"] # Null,
         NEW new \in {LanKept(evs, h)} \cup LanRestart(evs, h)
  PROVE  /\ new.h \in [Held -> Addrs \cup {Null}]
         /\ new.h["net"] = h["net"] /\ new.h["retime"] = h["retime"]
         /\ new.down => new.h["lan"] # Null
<1>1. "lan" \in Held /\ {"net", "retime"} \subseteq Held \ {"lan"}
  BY MuTimersAssumption
<1>2. CASE new = LanKept(evs, h)
  BY <1>1, <1>2 DEF LanKept
<1>3. CASE h["lan"] = Null /\ new \in LanRestart(evs, h)
  <2>1. PICK a \in Allocs(evs) : new = LanArmed(evs, h, a)
    BY <1>3 DEF LanRestart
  <2>2. a \in Addrs \cup {Null}
    BY <2>1, AllocsType
  <2>3. /\ new.h = [h EXCEPT !["lan"] = a]
        /\ new.down = (portsDown \/ a # Null)
    BY <2>1 DEF LanArmed
  <2> QED BY <1>1, <1>3, <2>2, <2>3
<1>4. CASE h["lan"] # Null /\ new \in LanRestart(evs, h)
  BY <1>2, <1>4 DEF LanRestart
<1> QED BY <1>2, <1>3, <1>4

\* A change of dnsmasq's settings touches no other static variable.
LEMMA DnsmasqRestartEffect ==
  ASSUME NEW evs, NEW h \in [Held -> Addrs \cup {Null}], DnsmasqRestart(evs, h)
  PROVE  /\ HandleType' /\ handle'["lan"] = h["lan"] /\ handle'["net"] = h["net"]
         /\ handle'["retime"] = h["retime"]
<1> DEFINE cleared == [h EXCEPT !["dnsmasq"] = Null]
           left    == IF h["dnsmasq"] = Null THEN evs ELSE Dropped(evs, h["dnsmasq"])
<1>1. {"lan", "net", "retime"} \subseteq Held \ {"dnsmasq"}
  BY MuTimersAssumption
<1>2. /\ cleared \in [Held -> Addrs \cup {Null}]
      /\ cleared["lan"] = h["lan"] /\ cleared["net"] = h["net"]
      /\ cleared["retime"] = h["retime"]
  BY <1>1
<1>3. Arm(left, cleared, "dnsmasq", "dnsmasq")
  BY DEF DnsmasqRestart
<1> HIDE DEF cleared, left
<1> QED BY <1>1, <1>2, <1>3, ArmEffect

\* So does an address that moves the LAN, which may restart its ports.
LEMMA LanMovesEffect ==
  ASSUME HandleType, PortsDownPending, LanMoves
  PROVE  /\ HandleType' /\ PortsDownPending' /\ handle'["net"] = handle["net"]
         /\ handle'["retime"] = handle["retime"]
<1>1. PICK new \in {LanKept(events, handle)} \cup LanRestart(events, handle) :
        DnsmasqRestart(new.evs, new.h) /\ portsDown' = new.down
  BY DEF LanMoves
<1>2. /\ new.h \in [Held -> Addrs \cup {Null}]
      /\ new.h["net"] = handle["net"] /\ new.h["retime"] = handle["retime"]
      /\ new.down => new.h["lan"] # Null
  BY <1>1, LanRestartEffect DEF HandleType, PortsDownPending
<1>3. /\ HandleType' /\ handle'["lan"] = new.h["lan"] /\ handle'["net"] = new.h["net"]
      /\ handle'["retime"] = new.h["retime"]
  BY <1>1, <1>2, DnsmasqRestartEffect
<1> QED BY <1>1, <1>2, <1>3 DEF PortsDownPending

\* A step that leaves the LAN ports and the connection alone keeps the invariant.
LEMMA OthersKeep ==
  ASSUME TimersInv, HandleType', UNCHANGED <<LanState, NetState>>
  PROVE  TimersInv'
BY DEF TimersInv, LanState, NetState, DetectUp, OnlineOnlyWhileUp, AnswerStands,
       PortsDownPending

\* A step that leaves the connection alone and keeps the timer of the LAN ports.
LEMMA LanKeeps ==
  ASSUME TimersInv, HandleType', PortsDownPending', UNCHANGED NetState
  PROVE  TimersInv'
BY DEF TimersInv, NetState, DetectUp, OnlineOnlyWhileUp, AnswerStands

\* A step of the connection.
LEMMA NetKeeps ==
  ASSUME TimersInv, HandleType', PortsDownPending',
         DetectUp', OnlineOnlyWhileUp', AnswerStands'
  PROVE  TimersInv'
BY DEF TimersInv

\* What keeps the timer of the LAN ports and the ports keeps their relation.
LEMMA LanStateKeeps ==
  ASSUME TimersInv, UNCHANGED LanState
  PROVE  PortsDownPending'
BY DEF TimersInv, LanState, PortsDownPending

LEMMA TimersInit == Init => TimersInv
<1> SUFFICES ASSUME Init PROVE TimersInv
  OBVIOUS
<1>1. "net" \in Held /\ "lan" \in Held
  BY MuTimersAssumption
<1>2. PICK a, b, d \in Addrs :
        handle = [h \in Held |-> CASE h = "dnsmasq" -> a
                                   [] h = "retime"  -> b
                                   [] h = "lan"     -> d
                                   [] OTHER         -> Null]
  BY DEF Init
<1>3. HandleType
  BY <1>2 DEF HandleType
<1>4. handle["lan"] # Null
  BY <1>1, <1>2, SchedulerAssumption
<1>5. online = FALSE /\ detect = (wan = "up")
  BY DEF Init
<1> QED BY <1>3, <1>4, <1>5
        DEF TimersInv, DetectUp, OnlineOnlyWhileUp, AnswerStands, PortsDownPending

LEMMA CallbackKeeps == TimersInv /\ Callback => TimersInv'
<1> SUFFICES ASSUME TimersInv, Callback PROVE TimersInv'
  OBVIOUS
<1>h. /\ HandleType
      /\ "lan" \in Held /\ "net" \in Held /\ "dnsmasq" \in Held /\ "retime" \in Held
  BY MuTimersAssumption DEF TimersInv
<1>1. CASE TaskCb
  <2>1. Arm(events, handle, "task", "task") /\ UNCHANGED timerVars
    BY <1>1 DEF TaskCb
  <2>2. HandleType' /\ \A d \in Held \ {"task"} : handle'[d] = handle[d]
    BY <1>h, <2>1, ArmEffect DEF HandleType
  <2>3. UNCHANGED <<LanState, NetState>>
    BY <1>h, <2>1, <2>2 DEF timerVars, netVars, LanState, NetState
  <2> QED BY <2>2, <2>3, OthersKeep
<1>2. CASE LanCb
  <2>1. handle' = Cleared("lan") /\ portsDown' = FALSE /\ UNCHANGED netVars
    BY <1>2 DEF LanCb, Leave
  <2>2. HandleType' /\ handle'["net"] = handle["net"]
    BY <1>h, <2>1, ClearedEffect DEF HandleType
  <2>3. PortsDownPending' /\ UNCHANGED NetState
    BY <2>1, <2>2 DEF PortsDownPending, NetState, netVars
  <2> QED BY <2>2, <2>3, LanKeeps
<1>3. CASE DnsmasqCb
  <2> DEFINE h == Cleared("dnsmasq")
  <2>1. /\ h \in [Held -> Addrs \cup {Null}]
        /\ h["lan"] = handle["lan"] /\ h["net"] = handle["net"]
    BY <1>h, ClearedEffect
  <2>2. portsDown => h["lan"] # Null
    BY <2>1 DEF TimersInv, PortsDownPending
  <2>3. UNCHANGED netVars
    BY <1>3 DEF DnsmasqCb
  <2>4. \E new \in {LanKept(events, h)} \cup LanRestart(events, h) : LanLeave(new)
    <3>1. CASE Leave(events, h) /\ UNCHANGED portsDown
      <4>1. LanLeave(LanKept(events, h))
        BY <3>1 DEF LanLeave, LanKept
      <4> QED BY <4>1
    <3>2. CASE \E new \in LanRestart(events, h) : LanLeave(new)
      BY <3>2
    <3> QED BY <1>3, <3>1, <3>2 DEF DnsmasqCb
  <2> HIDE DEF h
  <2>5. PICK new \in {LanKept(events, h)} \cup LanRestart(events, h) : LanLeave(new)
    BY <2>4
  <2>6. /\ new.h \in [Held -> Addrs \cup {Null}]
        /\ new.h["net"] = h["net"]
        /\ new.down => new.h["lan"] # Null
    BY <2>1, <2>2, LanRestartEffect
  <2>7. HandleType' /\ PortsDownPending' /\ UNCHANGED NetState
    BY <2>1, <2>3, <2>5, <2>6
       DEF LanLeave, Leave, HandleType, PortsDownPending, NetState, netVars
  <2> QED BY <2>7, LanKeeps
<1>4. CASE RetimeCb
  <2>1. /\ UNCHANGED <<portsDown, netVars>>
        /\ \/ handle' = Cleared("retime")
           \/ Arm(events, Cleared("retime"), "retime", "retime again")
    BY <1>4 DEF RetimeCb, Leave
  <2>2. /\ Cleared("retime") \in [Held -> Addrs \cup {Null}]
        /\ \A d \in Held \ {"retime"} : Cleared("retime")[d] = handle[d]
    BY <1>h, ClearedEffect
  <2>3. HandleType' /\ \A d \in Held \ {"retime"} : handle'[d] = handle[d]
    <3>1. CASE handle' = Cleared("retime")
      BY <2>2, <3>1 DEF HandleType
    <3>2. CASE Arm(events, Cleared("retime"), "retime", "retime again")
      <4> DEFINE h == Cleared("retime")
      <4>1. h \in [Held -> Addrs \cup {Null}] /\ Arm(events, h, "retime", "retime again")
        BY <2>2, <3>2
      <4>2. \A d \in Held \ {"retime"} : h[d] = handle[d]
        BY <2>2
      <4> HIDE DEF h
      <4>3. HandleType' /\ \A d \in Held \ {"retime"} : handle'[d] = h[d]
        BY <4>1, ArmEffect
      <4> QED BY <4>2, <4>3
    <3> QED BY <2>1, <3>1, <3>2
  <2>4. UNCHANGED <<LanState, NetState>>
    BY <1>h, <2>1, <2>3 DEF netVars, LanState, NetState
  <2> QED BY <2>3, <2>4, OthersKeep
<1>5. CASE NetCb
  <2>1. handle' = Cleared("net") /\ online' = FALSE /\ UNCHANGED <<portsDown, detect, wan>>
    BY <1>5 DEF NetCb, Leave
  <2>2. HandleType' /\ handle'["lan"] = handle["lan"]
    BY <1>h, <2>1, ClearedEffect DEF HandleType
  <2>3. PortsDownPending'
    BY <2>1, <2>2, LanStateKeeps DEF LanState
  <2>4. DetectUp' /\ OnlineOnlyWhileUp' /\ AnswerStands'
    BY <2>1 DEF TimersInv, DetectUp, OnlineOnlyWhileUp, AnswerStands
  <2> QED BY <2>2, <2>3, <2>4, NetKeeps
<1> QED BY <1>1, <1>2, <1>3, <1>4, <1>5 DEF Callback

LEMMA MessageKeeps == TimersInv /\ Message => TimersInv'
<1> SUFFICES ASSUME TimersInv, Message PROVE TimersInv'
  OBVIOUS
<1>h. /\ HandleType
      /\ "lan" \in Held /\ "net" \in Held /\ "dnsmasq" \in Held /\ "retime" \in Held
  BY MuTimersAssumption DEF TimersInv
<1>1. CASE LanCall
  <2>1. PICK new \in LanRestart(events, handle) : LanLeave(new) /\ UNCHANGED netVars
    BY <1>1 DEF LanCall
  <2>2. /\ new.h \in [Held -> Addrs \cup {Null}]
        /\ new.h["net"] = handle["net"]
        /\ new.down => new.h["lan"] # Null
    BY <1>h, <2>1, LanRestartEffect DEF TimersInv, PortsDownPending, HandleType
  <2>3. HandleType' /\ PortsDownPending' /\ UNCHANGED NetState
    BY <2>1, <2>2 DEF LanLeave, Leave, HandleType, PortsDownPending, NetState, netVars
  <2> QED BY <2>3, LanKeeps
<1>2. CASE DnsmasqCall
  <2>1. DnsmasqRestart(events, handle) /\ UNCHANGED timerVars
    BY <1>2 DEF DnsmasqCall
  <2>2. HandleType' /\ handle'["lan"] = handle["lan"] /\ handle'["net"] = handle["net"]
    BY <1>h, <2>1, DnsmasqRestartEffect DEF HandleType
  <2>3. UNCHANGED <<LanState, NetState>>
    BY <2>1, <2>2 DEF LanState, NetState, timerVars, netVars
  <2> QED BY <2>2, <2>3, OthersKeep
<1>4. CASE RetimeCall
  <2> DEFINE h   == Cleared("retime")
             evs == Cancelled(events, "retime")
  <2>1. UNCHANGED <<portsDown, netVars>> /\ Arm(evs, h, "retime", "retime set")
    BY <1>4 DEF RetimeCall
  <2>2. h \in [Held -> Addrs \cup {Null}] /\ h["lan"] = handle["lan"] /\ h["net"] = handle["net"]
    BY <1>h, ClearedEffect
  <2>3. h \in [Held -> Addrs \cup {Null}] /\ Arm(evs, h, "retime", "retime set")
    BY <2>1, <2>2
  <2> HIDE DEF h, evs
  <2>4. HandleType' /\ \A d \in Held \ {"retime"} : handle'[d] = h[d]
    BY <2>3, ArmEffect
  <2>5. handle'["lan"] = handle["lan"] /\ handle'["net"] = handle["net"]
    BY <1>h, <2>2, <2>4
  <2>6. UNCHANGED <<LanState, NetState>>
    BY <2>1, <2>5 DEF LanState, NetState, netVars
  <2> QED BY <2>4, <2>6, OthersKeep
<1>5. CASE NetReply
  <2>1. /\ handle' = Cleared("net")
        /\ \/ ~detect /\ UNCHANGED <<online, detect>>
           \/ detect /\ online' \in BOOLEAN /\ detect' = ~online'
        /\ UNCHANGED <<portsDown, wan>>
    BY <1>5 DEF NetReply, Leave
  <2>2. HandleType' /\ handle'["lan"] = handle["lan"] /\ handle'["net"] = Null
    BY <1>h, <2>1, ClearedEffect DEF HandleType
  <2>3. PortsDownPending'
    BY <2>1, <2>2, LanStateKeeps DEF LanState
  <2>4. DetectUp' /\ OnlineOnlyWhileUp'
    BY <2>1 DEF TimersInv, DetectUp, OnlineOnlyWhileUp
  <2>5. AnswerStands'
    BY <2>2 DEF AnswerStands
  <2> QED BY <2>2, <2>3, <2>4, <2>5, NetKeeps
<1>6. ASSUME NEW was, NEW detecting, Addressed(was, detecting)
      PROVE  HandleType' /\ PortsDownPending' /\ handle'["net"] = handle["net"]
  <2>1. CASE LanMoves
    BY <1>h, <2>1, LanMovesEffect DEF TimersInv
  <2>2. CASE Leave(events, handle) /\ UNCHANGED portsDown
    BY <1>h, <2>2 DEF Leave, HandleType, TimersInv, PortsDownPending
  <2> QED BY <1>6, <2>1, <2>2 DEF Addressed
<1>7. CASE IpUp
  <2>1. Addressed(wan, detect) /\ wan # "up" /\ online' = online
    BY <1>7 DEF IpUp
  <2>2. \/ wan' = "up" /\ detect' = TRUE
        \/ wan' = wan /\ detect' = detect
    BY <2>1 DEF Addressed
  <2>3. DetectUp' /\ OnlineOnlyWhileUp' /\ AnswerStands'
    BY <2>1, <2>2 DEF TimersInv, DetectUp, OnlineOnlyWhileUp, AnswerStands
  <2> QED BY <1>6, <2>1, <2>3, NetKeeps
<1>8. CASE IpStatic
  <2>1. Addressed("down", FALSE) /\ online' = FALSE
    BY <1>8 DEF IpStatic
  <2>2. detect' => wan' = "up"
    BY <2>1 DEF Addressed
  <2>3. DetectUp' /\ OnlineOnlyWhileUp' /\ AnswerStands'
    BY <2>1, <2>2 DEF DetectUp, OnlineOnlyWhileUp, AnswerStands
  <2> QED BY <1>6, <2>1, <2>3, NetKeeps
<1>9. CASE IpDown
  <2>1. handle' = handle /\ online' = FALSE /\ detect' = FALSE /\ UNCHANGED portsDown
    BY <1>9 DEF IpDown, Leave
  <2>2. HandleType' /\ PortsDownPending'
    BY <1>h, <2>1, LanStateKeeps DEF HandleType, LanState
  <2>3. DetectUp' /\ OnlineOnlyWhileUp' /\ AnswerStands'
    BY <2>1 DEF DetectUp, OnlineOnlyWhileUp, AnswerStands
  <2> QED BY <2>2, <2>3, NetKeeps
<1> QED BY <1>1, <1>2, <1>4, <1>5, <1>7, <1>8, <1>9 DEF Message

LEMMA NetLostKeeps == TimersInv /\ NetLost => TimersInv'
<1> SUFFICES ASSUME TimersInv, NetLost PROVE TimersInv'
  OBVIOUS
<1>1. /\ detect' = TRUE /\ online /\ UNCHANGED <<portsDown, online, wan>>
      /\ Arm(events, handle, "net", "net")
  BY DEF NetLost
<1>2. HandleType' /\ handle'["lan"] = handle["lan"]
  <2>1. handle \in [Held -> Addrs \cup {Null}] /\ "lan" \in Held \ {"net"}
    BY MuTimersAssumption DEF TimersInv, HandleType
  <2> QED BY <1>1, <2>1, ArmEffect
<1>3. PortsDownPending'
  BY <1>1, <1>2, LanStateKeeps DEF LanState
<1>4. DetectUp' /\ OnlineOnlyWhileUp' /\ AnswerStands'
  BY <1>1 DEF TimersInv, DetectUp, OnlineOnlyWhileUp, AnswerStands
<1> QED BY <1>2, <1>3, <1>4, NetKeeps

\* The walk, an idle turn of the loop and the clock touch no static variable.
LEMMA LoopKeeps == TimersInv /\ (Loop \/ Idle \/ Tick \/ UNCHANGED vars) => TimersInv'
<1> SUFFICES ASSUME TimersInv, Loop \/ Idle \/ Tick \/ UNCHANGED vars PROVE TimersInv'
  OBVIOUS
<1>1. handle' = handle /\ UNCHANGED timerVars
  <2>1. CASE Loop
    BY <2>1 DEF Loop, Walk, Skip, Release, WakeUp, OtherNetlink, Leave
  <2>2. CASE Idle
    BY <2>2 DEF Idle, OtherCall, OtherNetlink, Leave
  <2>3. CASE Tick
    BY <2>3 DEF Tick, SchedulerTick
  <2>4. CASE UNCHANGED vars
    BY <2>4 DEF vars, schedVars
  <2> QED BY <2>1, <2>2, <2>3, <2>4
<1>2. HandleType' /\ UNCHANGED <<LanState, NetState>>
  BY <1>1 DEF TimersInv, HandleType, LanState, NetState, timerVars, netVars
<1> QED BY <1>2, OthersKeep

\* The invariant holds in every state mu can be in.
THEOREM TimersInductive == Spec => []TimersInv
<1>1. TimersInv /\ [Next]_vars => TimersInv'
  BY CallbackKeeps, MessageKeeps, NetLostKeeps, LoopKeeps DEF Next
<1> QED BY <1>1, TimersInit, PTL DEF Spec

\* Ports that are down have a timer that takes them up again, whatever malloc does.
THEOREM PortsDownTimed == Spec => []PortsDownPending
BY TimersInductive, PTL DEF TimersInv

\* The connection is online only while the WAN interface has an address, whenever
\* the answers of netdetect come in.
THEOREM Online == Spec => []OnlineOnlyWhileUp
BY TimersInductive, PTL DEF TimersInv

\* An answer of netdetect is not overturned by the timeout of an earlier detection.
THEOREM Answer == Spec => []AnswerStands
BY TimersInductive, PTL DEF TimersInv
----------------------------------------------------------------------------
(***************************************************************************)
(* The list of timers: what SchedulerProofs says of one schedule() or      *)
(* dschedule() holds along every behaviour of mu's callbacks and requests, *)
(* with the walk of the list between them.                                 *)
(***************************************************************************)
\* The callbacks' names and delays.
LEMMA Sites ==
  /\ {"dnsmasq", "lan", "retime", "net"} \subseteq Held /\ "task" \notin Held
  /\ {"task", "dnsmasq", "lan", "retime", "net"} \subseteq Clients
  /\ \A site \in {"task", "dnsmasq", "lan", "retime init", "retime set",
                  "retime again", "net"} : Delay[site] \in Int
<1>1. {"task", "dnsmasq", "lan", "retime init", "retime set", "retime again", "net"}
        \subseteq DOMAIN Delay
  BY MuTimersAssumption
<1>2. \A site \in DOMAIN Delay : Delay[site] \in Int
  BY SchedulerAssumption
<1>3. Clients = {"task", "dnsmasq", "lan", "retime", "net"} /\ Held = Clients \ {"task"}
  BY MuTimersAssumption
<1> QED BY <1>1, <1>2, <1>3

----------------------------------------------------------------------------
(***************************************************************************)
(* The calls of schedule() and dschedule() in the callbacks and requests.  *)
(***************************************************************************)
LEMMA LanRestartLinked ==
  ASSUME NEW evs, NEW h, NEW x, Linked(evs, h, x),
         NEW new \in {LanKept(evs, h)} \cup LanRestart(evs, h)
  PROVE  /\ Linked(new.evs, new.h, x) /\ Addresses(evs) \subseteq Addresses(new.evs)
         /\ \A e \in Items(new.evs) : e \in Items(evs) \/ e.cb = "lan"
<1>1. CASE new = LanKept(evs, h)
  BY <1>1 DEF LanKept
<1>2. CASE h["lan"] = Null /\ new \in LanRestart(evs, h)
  <2>1. PICK a \in Allocs(evs) : new = LanArmed(evs, h, a)
    BY <1>2 DEF LanRestart
  <2>2. /\ new.evs = Scheduled(evs, a, "lan", Delay["lan"])
        /\ new.h = Remember(h, "lan", a)
    BY <2>1, Sites DEF LanArmed, Remember
  <2>3. "lan" \in Clients /\ Delay["lan"] \in Int
    BY Sites
  <2> QED BY <1>2, <2>2, <2>3, ScheduledLinked
<1>3. CASE h["lan"] # Null /\ new \in LanRestart(evs, h)
  BY <1>1, <1>3 DEF LanRestart
<1> QED BY <1>1, <1>2, <1>3

LEMMA DnsmasqRestartLinked ==
  ASSUME NEW evs, NEW h, Linked(evs, h, Null), DnsmasqRestart(evs, h)
  PROVE  /\ Linked(events', handle', Null)
         /\ \A e \in Items(events') : e \in Items(evs) \/ e.cb = "dnsmasq"
<1> DEFINE left == IF h["dnsmasq"] = Null THEN evs ELSE Dropped(evs, h["dnsmasq"])
           g    == [h EXCEPT !["dnsmasq"] = Null]
<1>1. "dnsmasq" \in Held /\ "dnsmasq" \in Clients /\ Delay["dnsmasq"] \in Int
  BY Sites
<1>2. Linked(left, g, Null) /\ Items(left) \subseteq Items(evs)
  BY <1>1, CancelledLinked
<1>3. g["dnsmasq"] = Null
  BY <1>1 DEF Linked
<1>4. Arm(left, g, "dnsmasq", "dnsmasq")
  BY DEF DnsmasqRestart
<1> HIDE DEF left, g
<1>5. Linked(events', handle', Null)
  BY <1>1, <1>2, <1>3, <1>4, ArmLinked
<1>6. \A e \in Items(events') : e \in Items(left) \/ e.cb = "dnsmasq"
  BY <1>1, <1>2, <1>3, <1>4, ArmLinked
<1> QED BY <1>2, <1>5, <1>6

LEMMA LanMovesLinked ==
  ASSUME Linked(events, handle, Null), LanMoves
  PROVE  /\ Linked(events', handle', Null)
         /\ \A e \in Items(events') :
              e \in Items(events) \/ e.cb \in {"lan", "dnsmasq"}
<1>1. PICK new \in {LanKept(events, handle)} \cup LanRestart(events, handle) :
        DnsmasqRestart(new.evs, new.h)
  BY DEF LanMoves
<1>2. /\ Linked(new.evs, new.h, Null)
      /\ \A e \in Items(new.evs) : e \in Items(events) \/ e.cb = "lan"
  BY <1>1, LanRestartLinked
<1>3. /\ Linked(events', handle', Null)
      /\ \A e \in Items(events') : e \in Items(new.evs) \/ e.cb = "dnsmasq"
  BY <1>1, <1>2, DnsmasqRestartLinked
<1> QED BY <1>2, <1>3

----------------------------------------------------------------------------
(***************************************************************************)
(* The first list: four timers, none of them twice.                        *)
(***************************************************************************)
LEMMA AtMostThree == \A a, b, c : Cardinality({a, b, c}) # 4
<1> SUFFICES ASSUME NEW a, NEW b, NEW c PROVE Cardinality({a, b, c}) # 4
  OBVIOUS
<1>1. IsFiniteSet({a}) /\ Cardinality({a}) = 1
  BY FS_Singleton
<1>2. /\ IsFiniteSet({a} \cup {b})
      /\ Cardinality({a} \cup {b}) = 1 \/ Cardinality({a} \cup {b}) = 2
  BY <1>1, FS_AddElement
<1>3. \/ Cardinality(({a} \cup {b}) \cup {c}) = Cardinality({a} \cup {b})
      \/ Cardinality(({a} \cup {b}) \cup {c}) = Cardinality({a} \cup {b}) + 1
  BY <1>2, FS_AddElement
<1>4. ({a} \cup {b}) \cup {c} = {a, b, c}
  OBVIOUS
<1> QED BY <1>2, <1>3, <1>4

LEMMA FourDistinct ==
  ASSUME NEW a, NEW b, NEW c, NEW d, Cardinality({a, b, c, d}) = 4
  PROVE  a # b /\ a # c /\ a # d /\ b # c /\ b # d /\ c # d
<1>1. a = b => {a, b, c, d} = {a, c, d}
  OBVIOUS
<1>2. a = c => {a, b, c, d} = {a, b, d}
  OBVIOUS
<1>3. a = d => {a, b, c, d} = {a, b, c}
  OBVIOUS
<1>4. b = c => {a, b, c, d} = {a, b, d}
  OBVIOUS
<1>5. b = d => {a, b, c, d} = {a, b, c}
  OBVIOUS
<1>6. c = d => {a, b, c, d} = {a, b, c}
  OBVIOUS
<1> QED BY <1>1, <1>2, <1>3, <1>4, <1>5, <1>6, AtMostThree

\* One of them is the check of daemons and tasks, and one the timed reboot.
LEMMA FirstList ==
  Init => ListInv /\ OneEntry(events, Exempt, "task") /\ handle["retime"] # Null
<1> SUFFICES ASSUME Init
             PROVE  ListInv /\ OneEntry(events, Exempt, "task") /\ handle["retime"] # Null
  OBVIOUS
<1>1. PICK a, b, c, d \in Addrs :
        /\ Cardinality({a, b, c, d}) = 4
        /\ LET dns    == Scheduled(<<>>, a, "dnsmasq", Delay["dnsmasq"])
               retime == Scheduled(dns, b, "retime", Delay["retime init"])
               task   == Scheduled(retime, c, "task", Delay["task"])
           IN  events = Scheduled(task, d, "lan", Delay["lan"])
        /\ handle = [h \in Held |-> CASE h = "dnsmasq" -> a
                                      [] h = "retime"  -> b
                                      [] h = "lan"     -> d
                                      [] OTHER         -> Null]
        /\ loop = LookAt(events, events[1].addr)
  BY DEF Init
<1> DEFINE l1 == Scheduled(<<>>, a, "dnsmasq", Delay["dnsmasq"])
           l2 == Scheduled(l1, b, "retime", Delay["retime init"])
           l3 == Scheduled(l2, c, "task", Delay["task"])
           l4 == Scheduled(l3, d, "lan", Delay["lan"])
           h0 == [h \in Held |-> Null]
           h1 == Remember(h0, "dnsmasq", a)
           h2 == Remember(h1, "retime", b)
           h3 == Remember(h2, "task", c)
           h4 == Remember(h3, "lan", d)
           Task(evs) == \A e \in Items(evs) : e.cb = "task" => e.addr = c
<1>2. a # b /\ a # c /\ a # d /\ b # c /\ b # d /\ c # d
  BY <1>1, FourDistinct
<1>3. \A evs : \A e \in Addrs : e \notin Addresses(evs) => e \in Allocs(evs)
  BY DEF Allocs
<1>4. /\ h0["dnsmasq"] = Null /\ h1["retime"] = Null /\ h3["lan"] = Null
      /\ h4["dnsmasq"] = a /\ h4["retime"] = b /\ h4["lan"] = d /\ h4["net"] = Null
      /\ h4 \in [Held -> Addrs \cup {Null}]
  BY Sites DEF Remember
<1>5. handle = h4
  <2>1. Held = {"dnsmasq", "retime", "lan", "net"}
    BY MuTimersAssumption
  <2>2. \A h \in Held : handle[h] = h4[h]
    <3>1. handle["dnsmasq"] = a /\ handle["retime"] = b
      BY <1>1, <2>1
    <3>2. handle["lan"] = d
      BY <1>1, <2>1
    <3>3. handle["net"] = Null
      BY <1>1, <2>1
    <3> HIDE DEF h4
    <3> QED BY <1>4, <2>1, <3>1, <3>2, <3>3
  <2>3. handle \in [Held -> Addrs \cup {Null}]
    BY <2>1, <2>2, <1>1, <1>4
  <2> HIDE DEF h4
  <2> QED BY <1>4, <2>2, <2>3
<1> HIDE DEF h0, h1, h2, h3, h4
<1> HIDE DEF l1, l2, l3, l4
<1>6. Linked(l1, h1, Null) /\ Addresses(l1) \subseteq {a} /\ Task(l1)
  <2>1. "dnsmasq" \in Clients /\ Delay["dnsmasq"] \in Int /\ ("dnsmasq" \in Held => h0["dnsmasq"] = Null)
    BY <1>4, Sites
  <2>2. Linked(<<>>, h0, Null) /\ Addresses(<<>>) = {}
    BY EmptyLinked DEF h0
  <2>e. Items(<<>>) = {}
    BY <2>2 DEF Items, Addresses
  <2>3. a \in Allocs(<<>>)
    BY <1>2, <1>3, <2>2
  <2>4. /\ Linked(l1, h1, Null)
        /\ Addresses(l1) \subseteq Addresses(<<>>) \cup {a}
        /\ \A e \in Items(l1) : e \in Items(<<>>) \/ (e.addr = a /\ e.cb = "dnsmasq")
    <3>1. /\ Linked(Scheduled(<<>>, a, "dnsmasq", Delay["dnsmasq"]), Remember(h0, "dnsmasq", a), Null)
          /\ Addresses(Scheduled(<<>>, a, "dnsmasq", Delay["dnsmasq"])) \subseteq Addresses(<<>>) \cup {a}
          /\ \A e \in Items(Scheduled(<<>>, a, "dnsmasq", Delay["dnsmasq"])) :
               e \in Items(<<>>) \/ (e.addr = a /\ e.cb = "dnsmasq")
      BY <2>1, <2>2, <2>3, ScheduledLinked
    <3> QED BY <3>1 DEF l1, h1
  <2> QED BY <2>2, <2>e, <2>4
<1>7. Linked(l2, h2, Null) /\ Addresses(l2) \subseteq {a, b} /\ Task(l2)
  <2> DEFINE t == Delay["retime init"]
  <2>1. "retime" \in Clients /\ t \in Int /\ ("retime" \in Held => h1["retime"] = Null)
    BY <1>4, Sites
  <2> HIDE DEF t
  <2>2. Linked(l1, h1, Null) /\ Addresses(l1) \subseteq {a}
    BY <1>6
  <2>3. b \in Allocs(l1)
    BY <1>2, <1>3, <2>2
  <2>4. /\ Linked(l2, h2, Null)
        /\ Addresses(l2) \subseteq Addresses(l1) \cup {b}
        /\ \A e \in Items(l2) : e \in Items(l1) \/ (e.addr = b /\ e.cb = "retime")
    <3>1. /\ Linked(Scheduled(l1, b, "retime", t), Remember(h1, "retime", b), Null)
          /\ Addresses(Scheduled(l1, b, "retime", t)) \subseteq Addresses(l1) \cup {b}
          /\ \A e \in Items(Scheduled(l1, b, "retime", t)) :
               e \in Items(l1) \/ (e.addr = b /\ e.cb = "retime")
      BY <2>1, <2>2, <2>3, ScheduledLinked
    <3> QED BY <3>1 DEF l2, h2, t
  <2> QED BY <1>6, <2>2, <2>4
<1>8. Linked(l3, h3, Null) /\ Addresses(l3) \subseteq {a, b, c} /\ Task(l3)
  <2>1. "task" \in Clients /\ Delay["task"] \in Int /\ ("task" \in Held => h2["task"] = Null)
    BY <1>4, Sites
  <2>2. Linked(l2, h2, Null) /\ Addresses(l2) \subseteq {a, b}
    BY <1>7
  <2>3. c \in Allocs(l2)
    BY <1>2, <1>3, <2>2
  <2>4. /\ Linked(l3, h3, Null)
        /\ Addresses(l3) \subseteq Addresses(l2) \cup {c}
        /\ \A e \in Items(l3) : e \in Items(l2) \/ (e.addr = c /\ e.cb = "task")
    <3>1. /\ Linked(Scheduled(l2, c, "task", Delay["task"]), Remember(h2, "task", c), Null)
          /\ Addresses(Scheduled(l2, c, "task", Delay["task"])) \subseteq Addresses(l2) \cup {c}
          /\ \A e \in Items(Scheduled(l2, c, "task", Delay["task"])) :
               e \in Items(l2) \/ (e.addr = c /\ e.cb = "task")
      BY <2>1, <2>2, <2>3, ScheduledLinked
    <3> QED BY <3>1 DEF l3, h3
  <2> QED BY <1>7, <2>2, <2>4
<1>9. Linked(l4, h4, Null) /\ Addresses(l4) \subseteq {a, b, c, d} /\ Task(l4)
  <2>1. "lan" \in Clients /\ Delay["lan"] \in Int /\ ("lan" \in Held => h3["lan"] = Null)
    BY <1>4, Sites
  <2>2. Linked(l3, h3, Null) /\ Addresses(l3) \subseteq {a, b, c}
    BY <1>8
  <2>3. d \in Allocs(l3)
    BY <1>2, <1>3, <2>2
  <2>4. /\ Linked(l4, h4, Null)
        /\ Addresses(l4) \subseteq Addresses(l3) \cup {d}
        /\ \A e \in Items(l4) : e \in Items(l3) \/ (e.addr = d /\ e.cb = "lan")
    <3>1. /\ Linked(Scheduled(l3, d, "lan", Delay["lan"]), Remember(h3, "lan", d), Null)
          /\ Addresses(Scheduled(l3, d, "lan", Delay["lan"])) \subseteq Addresses(l3) \cup {d}
          /\ \A e \in Items(Scheduled(l3, d, "lan", Delay["lan"])) :
               e \in Items(l3) \/ (e.addr = d /\ e.cb = "lan")
      BY <2>1, <2>2, <2>3, ScheduledLinked
    <3> QED BY <3>1 DEF l4, h4
  <2> QED BY <1>8, <2>2, <2>4
<1>10. \E e \in Addresses(events) : loop = LookAt(events, e)
  <2>1. Linked(events, handle, Null)
    BY <1>1, <1>5, <1>9 DEF l1, l2, l3, l4
  <2>2. handle["lan"] # Null
    BY <1>4, <1>5, SchedulerAssumption
  <2>3. \E e \in Items(events) : e.addr = handle["lan"]
    BY <2>1, <2>2, Sites DEF Linked, HandleSound
  <2>4. 1 \in 1..Len(events)
    BY <2>1, <2>3, ItemsType DEF Linked, Items
  <2>5. events[1].addr \in Addresses(events)
    BY <2>4 DEF Addresses
  <2>6. loop = LookAt(events, events[1].addr)
    BY DEF Init
  <2> QED BY <2>5, <2>6
<1>11. Linked(events, handle, Null)
  BY <1>1, <1>5, <1>9 DEF l1, l2, l3, l4
<1>12. LoopType /\ loop.at = "check" /\ Walkable(events, loop)
  BY <1>10, <1>11, LookAtList DEF LoopType, Linked
<1>13. Exempt = Null /\ Task(events)
  BY <1>1, <1>9, <1>12 DEF Exempt, l1, l2, l3, l4
<1>14. handle["retime"] # Null
  BY <1>4, <1>5, SchedulerAssumption
<1>15. OneEntry(events, Exempt, "task")
  BY <1>13 DEF OneEntry
<1> QED BY <1>11, <1>12, <1>13, <1>14, <1>15 DEF ListInv, LoopInv, Exempt

----------------------------------------------------------------------------
(***************************************************************************)
(* The steps.                                                              *)
(***************************************************************************)
LEMMA CallbackList == ListInv /\ Callback => ListInv'
<1> SUFFICES ASSUME ListInv, Callback PROVE ListInv'
  OBVIOUS
<1>1. CASE TaskCb
  <2>1. Due("task") /\ Ran /\ Arm(events, handle, "task", "task")
    BY <1>1 DEF TaskCb
  <2>2. Linked(events, handle, loop.cur)
    BY <2>1, DueLinked, Sites DEF Remember, ListInv
  <2>3. Linked(events', handle', loop.cur) /\ Addresses(events) \subseteq Addresses(events')
    BY <2>1, <2>2, ArmLinked, Sites
  <2> QED BY <2>1, <2>3, RanKeeps
<1>2. ASSUME NEW c \in Held, Due(c)
      PROVE  Linked(events, Cleared(c), loop.cur) /\ Cleared(c)[c] = Null
  <2>1. Remember(handle, c, Null) = Cleared(c)
    BY DEF Remember, Cleared
  <2>2. Linked(events, Cleared(c), loop.cur)
    BY <1>2, <2>1, DueLinked DEF ListInv
  <2>3. handle \in [Held -> Addrs \cup {Null}]
    BY DEF ListInv, LoopInv, Linked
  <2> QED BY <2>2, <2>3 DEF Cleared
<1>3. ASSUME NEW c \in Held, Due(c), Ran, Leave(events, Cleared(c))
      PROVE  ListInv'
  BY <1>2, <1>3, RanKeeps DEF Leave
<1>4. CASE LanCb
  BY <1>3, <1>4, Sites DEF LanCb
<1>5. CASE NetCb
  BY <1>3, <1>5, Sites DEF NetCb
<1>6. CASE DnsmasqCb
  <2>1. Due("dnsmasq") /\ Ran
    BY <1>6 DEF DnsmasqCb
  <2> DEFINE h == Cleared("dnsmasq")
  <2>2. CASE Leave(events, h)
    BY <1>3, <2>1, <2>2, Sites
  <2>3. CASE \E new \in LanRestart(events, h) : LanLeave(new)
    <3>1. Linked(events, h, loop.cur)
      BY <1>2, <2>1, Sites
    <3> HIDE DEF h
    <3>2. PICK new \in LanRestart(events, h) : events' = new.evs /\ handle' = new.h
      BY <2>3 DEF LanLeave, Leave
    <3>3. Linked(new.evs, new.h, loop.cur) /\ Addresses(events) \subseteq Addresses(new.evs)
      BY <3>1, LanRestartLinked
    <3> QED BY <2>1, <3>2, <3>3, RanKeeps
  <2> QED BY <1>6, <2>2, <2>3 DEF DnsmasqCb
<1>7. CASE RetimeCb
  <2>1. Due("retime") /\ Ran
    BY <1>7 DEF RetimeCb
  <2> DEFINE h == Cleared("retime")
  <2>2. CASE Leave(events, h)
    BY <1>3, <2>1, <2>2, Sites
  <2>3. CASE Arm(events, h, "retime", "retime again")
    <3>1. Linked(events, h, loop.cur) /\ h["retime"] = Null
      BY <1>2, <2>1, Sites
    <3>2. Linked(events', handle', loop.cur) /\ Addresses(events) \subseteq Addresses(events')
      <4>1. "retime" \in Clients /\ Delay["retime again"] \in Int
        BY Sites
      <4> HIDE DEF h
      <4> QED BY <2>3, <3>1, <4>1, ArmLinked
    <3> QED BY <2>1, <3>2, RanKeeps
  <2> QED BY <1>7, <2>2, <2>3 DEF RetimeCb
<1> QED BY <1>1, <1>4, <1>5, <1>6, <1>7 DEF Callback

LEMMA MessageList == ListInv /\ Message => ListInv'
<1> SUFFICES ASSUME ListInv, Message PROVE ListInv'
  OBVIOUS
<1>1. Called /\ Answered
  BY DEF Message, LanCall, DnsmasqCall, RetimeCall, NetReply, IpUp, IpStatic, IpDown
<1>2. Linked(events, handle, Null)
  BY <1>1, CalledLinked DEF ListInv, Called, Notified
<1> SUFFICES Linked(events', handle', Null)
  BY <1>1, AnsweredKeeps
<1>3. ASSUME NEW c \in Held
      PROVE  Linked(Cancelled(events, c), Cleared(c), Null) /\ Cleared(c)[c] = Null
  <2>1. Linked(Cancelled(events, c), Cleared(c), Null)
    BY <1>2, CancelledLinked DEF Cancelled, Cleared
  <2>2. handle \in [Held -> Addrs \cup {Null}]
    BY DEF ListInv, LoopInv, Linked
  <2> QED BY <2>1, <2>2 DEF Cleared
<1>4. CASE LanCall
  <2>1. PICK new \in LanRestart(events, handle) : events' = new.evs /\ handle' = new.h
    BY <1>4 DEF LanCall, LanLeave, Leave
  <2> QED BY <1>2, <2>1, LanRestartLinked
<1>5. CASE DnsmasqCall
  BY <1>2, <1>5, DnsmasqRestartLinked DEF DnsmasqCall
<1>6. CASE RetimeCall
  <2> DEFINE left == Cancelled(events, "retime")
             h    == Cleared("retime")
  <2>1. Linked(left, h, Null) /\ h["retime"] = Null
    BY <1>3, Sites
  <2>2. Arm(left, h, "retime", "retime set")
    BY <1>6 DEF RetimeCall
  <2>3. "retime" \in Clients /\ Delay["retime set"] \in Int
    BY Sites
  <2> HIDE DEF left, h
  <2> QED BY <2>1, <2>2, <2>3, ArmLinked
<1>7. CASE NetReply
  BY <1>3, <1>7, Sites DEF NetReply, Leave
<1>8. ASSUME NEW was, NEW detecting, Addressed(was, detecting)
      PROVE  Linked(events', handle', Null)
  <2>1. CASE LanMoves
    BY <1>2, <2>1, LanMovesLinked
  <2>2. CASE Leave(events, handle)
    BY <1>2, <2>2 DEF Leave
  <2> QED BY <1>8, <2>1, <2>2 DEF Addressed
<1>9. CASE IpUp
  BY <1>8, <1>9 DEF IpUp
<1>10. CASE IpStatic
  BY <1>8, <1>10 DEF IpStatic
<1>11. CASE IpDown
  BY <1>2, <1>11 DEF IpDown, Leave
<1> QED BY <1>4, <1>5, <1>6, <1>7, <1>9, <1>10, <1>11 DEF Message

\* No detection is under way, so that none is waited for.
LEMMA NetLostList == ListInv /\ AnswerStands /\ NetLost => ListInv'
<1> SUFFICES ASSUME ListInv, AnswerStands, NetLost PROVE ListInv'
  OBVIOUS
<1>1. Notified /\ online /\ ~detect /\ Arm(events, handle, "net", "net") /\ Handled
  BY DEF NetLost
<1>2. handle["net"] = Null
  BY <1>1 DEF AnswerStands
<1>3. Linked(events', handle', Null)
  BY <1>1, <1>2, CalledLinked, ArmLinked, Sites DEF ListInv
<1> QED BY <1>1, <1>3, BeginKeeps DEF Handled, Begin

LEMMA LoopList == ListInv /\ (Loop \/ Idle \/ Tick) => ListInv'
BY WalkKeeps DEF Loop, Idle, Tick

LEMMA ListStep == ListInv /\ AnswerStands /\ [Next]_vars => ListInv'
<1> SUFFICES ASSUME ListInv, AnswerStands, [Next]_vars PROVE ListInv'
  OBVIOUS
<1>1. CASE UNCHANGED vars
  BY <1>1 DEF vars, schedVars, ListInv, LoopInv, LoopType, Exempt
<1> QED BY <1>1, CallbackList, MessageList, NetLostList, LoopList DEF Next

\* The invariant holds in every state mu can be in.
THEOREM ListInductive == Spec => []ListInv
BY ListStep, FirstList, Answer, PTL DEF Spec

----------------------------------------------------------------------------
\* process_schedule never goes on with an entry that a callback of MuTimers freed,
\* however often malloc hands the same memory out.
THEOREM NoneFreed == Spec => []NoFreedEntryUsed
<1>1. ListInv => NoFreedEntryUsed
  BY DEF ListInv, Walkable, NoFreedEntryUsed, Readable
<1> QED BY <1>1, ListInductive, PTL

\* The list stays sorted: the first entry is what select() must wake up for.
THEOREM ListSorted == Spec => []SortedByDue
<1>1. ListInv => SortedByDue
  BY DEF ListInv, LoopInv, Linked, List, Sorted, SortedByDue
<1> QED BY <1>1, ListInductive, PTL

\* A static variable that is set points to an entry of its own callback: what is
\* cancelled is what was meant, and no entry is freed twice.
THEOREM Handles == Spec => []HandlesLive
<1>1. ListInv => HandlesLive
  BY DEF ListInv, LoopInv, Linked, HandleSound, Items, HandlesLive
<1> QED BY <1>1, ListInductive, PTL

\* An entry whose callback has a static variable is the one it points to: none is
\* left in the list that nobody could cancel.
THEOREM NoneLost == Spec => []NoOrphan
<1>1. ListInv => NoOrphan
  <2> SUFFICES ASSUME ListInv, NEW i \in 1..Len(events), events[i].cb \in Held,
                      ~(loop.at = "ran" /\ loop.cur = events[i].addr)
               PROVE  handle[events[i].cb] = events[i].addr
    BY DEF NoOrphan
  <2>1. events[i] \in Items(events) /\ events[i].addr \in Addresses(events)
    BY DEF Items, Addresses
  <2>2. events[i].addr # Exempt
    BY <2>1, AddressesType DEF Exempt, ListInv, LoopInv, Linked
  <2> QED BY <2>1, <2>2 DEF ListInv, LoopInv, Linked, HandleKnows
<1> QED BY <1>1, ListInductive, PTL

----------------------------------------------------------------------------
(***************************************************************************)
(* The timed reboot.  Its timer is there while it is set, if there is      *)
(* memory for it: for one entry of each callback and the one that is still *)
(* to be freed when its callback has run.  The check of daemons and tasks, *)
(* which has no static variable, does not use up the memory: it has one    *)
(* entry, because nobody but its own callback schedules it.                *)
(***************************************************************************)
Roomy ==
  /\ ~MallocMayFail /\ IsFiniteSet(Addrs)
  /\ Cardinality(Addrs) > Cardinality(Clients)

OneTask == OneEntry(events, Exempt, "task")

RetimeInv == ListInv /\ AnswerStands /\ OneTask /\ RetimeArmed

\* Nobody schedules the check but its own callback.
NoNewTask == \A e \in Items(events') : e \in Items(events) \/ e.cb # "task"

\* A callback or a request leaves the timer of the reboot alone.
RetimeStays == enable' = enable /\ handle'["retime"] = handle["retime"]

LEMMA FiniteClients == IsFiniteSet(Clients) /\ Clients \ Held = {"task"}
<1>1. IsFiniteSet({"task"})
  BY FS_Singleton
<1>2. IsFiniteSet({"task"} \cup {"dnsmasq"})
  BY <1>1, FS_AddElement
<1>3. IsFiniteSet({"task"} \cup {"dnsmasq"} \cup {"lan"})
  BY <1>2, FS_AddElement
<1>4. IsFiniteSet({"task"} \cup {"dnsmasq"} \cup {"lan"} \cup {"retime"})
  BY <1>3, FS_AddElement
<1>5. IsFiniteSet({"task"} \cup {"dnsmasq"} \cup {"lan"} \cup {"retime"} \cup {"net"})
  BY <1>4, FS_AddElement
<1>6. Clients = {"task"} \cup {"dnsmasq"} \cup {"lan"} \cup {"retime"} \cup {"net"}
  BY MuTimersAssumption
<1> QED BY <1>5, <1>6, MuTimersAssumption

\* schedule() finds memory for the timer of the reboot when it has none.
LEMMA RetimeRoom ==
  ASSUME Roomy, NEW evs, NEW h, NEW x, Linked(evs, h, x), OneEntry(evs, x, "task"),
         h["retime"] = Null, NEW site, Arm(evs, h, "retime", site)
  PROVE  handle'["retime"] # Null
<1>1. "retime" \in Held
  BY Sites
<1>2. PICK a \in Allocs(evs) : handle' = [h EXCEPT !["retime"] = a]
  BY <1>1 DEF Arm
<1>3. \A b \in Clients \ Held : OneEntry(evs, x, b)
  BY FiniteClients
<1>4. Null \notin Allocs(evs)
  BY <1>1, <1>3, FiniteClients, HeldRoom DEF Roomy
<1>5. handle'["retime"] = a
  BY <1>1, <1>2 DEF Linked
<1> QED BY <1>4, <1>5

\* Nothing is being freed, and the check's entries are those of before.
LEMMA OneStays ==
  ASSUME ListInv, OneTask, loop.at # "ran", NoNewTask
  PROVE  OneTask'
<1>1. \A e \in Items(events) : e.addr # Null
  BY ItemsType, SchedulerAssumption DEF ListInv, LoopInv, Linked, Entry
<1>2. Exempt = Null
  BY DEF Exempt
<1> QED BY <1>1, <1>2 DEF OneTask, OneEntry, NoNewTask

LEMMA RetimeCallback ==
  ASSUME Roomy, RetimeInv, Callback
  PROVE  OneTask' /\ RetimeArmed'
<1>h. /\ handle \in [Held -> Addrs \cup {Null}] /\ HandleType
      /\ ListInv /\ LoopInv /\ OneTask /\ RetimeArmed
      /\ {"lan", "dnsmasq", "net", "retime"} \subseteq Held
      /\ "retime" \in Held \ {"task"} /\ "retime" \in Held \ {"lan"}
      /\ "retime" \in Held \ {"dnsmasq"} /\ "retime" \in Held \ {"net"}
  BY Sites DEF RetimeInv, ListInv, LoopInv, Linked, HandleType
<1>1. CASE TaskCb
  <2>1. Due("task") /\ Ran /\ Arm(events, handle, "task", "task") /\ enable' = enable
    BY <1>1 DEF TaskCb, timerVars
  <2>2. Linked(events, handle, loop.cur)
    BY <1>h, <2>1, DueLinked, Sites DEF Remember
  <2>3. "task" \in Clients /\ "task" \notin Held /\ Delay["task"] \in Int
    BY Sites
  <2>4. Linked(events', handle', loop.cur)
    BY <2>1, <2>2, <2>3, ArmLinked
  <2>5. \E a : \A e \in Items(events') : e \in Items(events) \/ e.addr = a
    BY <2>1, <2>2, <2>3, ArmLinked
  <2>6. OneTask'
    BY <1>h, <2>1, <2>4, <2>5, AnewOne DEF OneTask
  <2>7. handle'["retime"] = handle["retime"]
    BY <1>h, <2>1, ArmEffect
  <2> QED BY <1>h, <2>1, <2>6, <2>7 DEF RetimeArmed
<1>2. ASSUME NEW c \in Held, Due(c)
      PROVE  /\ loop.at # "ran"
             /\ Linked(events, Cleared(c), loop.cur) /\ Cleared(c)[c] = Null
             /\ Cleared(c) \in [Held -> Addrs \cup {Null}]
             /\ \A d \in Held \ {c} : Cleared(c)[d] = handle[d]
  <2>1. Remember(handle, c, Null) = Cleared(c)
    BY DEF Remember, Cleared
  <2>2. Linked(events, Cleared(c), loop.cur)
    BY <1>h, <1>2, <2>1, DueLinked
  <2> QED BY <1>h, <1>2, <2>2, ClearedEffect DEF Due
<1>3. ASSUME NEW c \in Held \ {"retime"}, Due(c), Leave(events, Cleared(c)), enable' = enable
      PROVE  OneTask' /\ RetimeArmed'
  <2>1. NoNewTask /\ handle'["retime"] = handle["retime"]
    BY <1>h, <1>2, <1>3 DEF NoNewTask, Leave
  <2> QED BY <1>h, <1>2, <1>3, <2>1, OneStays DEF RetimeArmed
<1>4. CASE LanCb
  BY <1>h, <1>3, <1>4 DEF LanCb
<1>5. CASE NetCb
  BY <1>h, <1>3, <1>5 DEF NetCb
<1>6. CASE DnsmasqCb
  <2>1. Due("dnsmasq") /\ enable' = enable
    BY <1>6 DEF DnsmasqCb
  <2> DEFINE h == Cleared("dnsmasq")
  <2>2. CASE Leave(events, h)
    BY <1>h, <1>3, <2>1, <2>2
  <2>3. CASE \E new \in LanRestart(events, h) : LanLeave(new)
    <3>1. Linked(events, h, loop.cur) /\ h["retime"] = handle["retime"] /\ loop.at # "ran"
      BY <1>h, <1>2, <2>1
    <3> HIDE DEF h
    <3>2. PICK new \in LanRestart(events, h) : events' = new.evs /\ handle' = new.h
      BY <2>3 DEF LanLeave, Leave
    <3>3. \A e \in Items(new.evs) : e \in Items(events) \/ e.cb = "lan"
      BY <3>1, LanRestartLinked
    <3>4. new.h["retime"] = h["retime"]
      <4>1. CASE h["lan"] # Null
        BY <3>2, <4>1 DEF LanRestart, LanKept
      <4>2. CASE h["lan"] = Null
        <5>1. PICK a : new.h = [h EXCEPT !["lan"] = a]
          BY <3>2, <4>2 DEF LanRestart, LanArmed
        <5> QED BY <1>h, <3>1, <5>1 DEF Linked
      <4> QED BY <4>1, <4>2
    <3>5. NoNewTask
      BY <3>2, <3>3 DEF NoNewTask
    <3> QED BY <1>h, <2>1, <3>1, <3>2, <3>4, <3>5, OneStays DEF RetimeArmed
  <2> QED BY <1>6, <2>2, <2>3 DEF DnsmasqCb
<1>7. CASE RetimeCb
  <2>1. Due("retime")
    BY <1>7 DEF RetimeCb
  <2> DEFINE h == Cleared("retime")
  <2>2. Linked(events, h, loop.cur) /\ h["retime"] = Null /\ loop.at # "ran"
    BY <1>h, <1>2, <2>1
  <2>3. CASE Leave(events, h) /\ ~enable /\ enable' = enable
    <3>1. NoNewTask
      BY <2>3 DEF NoNewTask, Leave
    <3> QED BY <1>h, <2>2, <2>3, <3>1, OneStays DEF RetimeArmed
  <2>4. CASE Arm(events, h, "retime", "retime again")
    <3> DEFINE c    == "retime"
               site == "retime again"
    <3>1. c \in Clients /\ Delay[site] \in Int /\ Arm(events, h, c, site) /\ h[c] = Null
      BY <2>2, <2>4, Sites
    <3> HIDE DEF h, c, site
    <3>2. \A e \in Items(events') :
             e \in Items(events) \/ (e.cb = c /\ e.due = Delay[site])
      BY <2>2, <3>1, ArmLinked
    <3>3. NoNewTask
      BY <3>2 DEF NoNewTask, c
    <3>4. OneEntry(events, loop.cur, "task")
      <4>1. Exempt = Null
        BY <2>2 DEF Exempt
      <4>2. \A e \in Items(events) : e.addr # Null
        BY <1>h, ItemsType, SchedulerAssumption DEF LoopInv, Linked, Entry
      <4> QED BY <1>h, <4>1, <4>2 DEF OneTask, OneEntry
    <3>5. handle'["retime"] # Null
      BY <2>2, <2>4, <3>4, RetimeRoom
    <3> QED BY <1>h, <2>2, <3>3, <3>5, OneStays DEF RetimeArmed
  <2> QED BY <1>7, <2>3, <2>4 DEF RetimeCb
<1> QED BY <1>1, <1>4, <1>5, <1>6, <1>7 DEF Callback

LEMMA RetimeMessage ==
  ASSUME Roomy, RetimeInv, Message \/ NetLost
  PROVE  OneTask' /\ RetimeArmed'
<1>h. /\ ListInv /\ LoopInv /\ OneTask /\ RetimeArmed /\ AnswerStands
      /\ "retime" \in Held /\ "lan" \in Held /\ "net" \in Held
      /\ "retime" \in Held \ {"net"}
  BY Sites DEF RetimeInv, ListInv
<1>1. loop.at # "ran" /\ Linked(events, handle, Null)
  <2>1. Notified
    BY DEF Message, LanCall, DnsmasqCall, RetimeCall, NetReply, IpUp, IpStatic, IpDown,
           NetLost, Called, Notified
  <2> QED BY <1>h, <2>1, CalledLinked DEF Notified
<1>2. handle \in [Held -> Addrs \cup {Null}] /\ HandleType
  BY <1>1 DEF Linked, HandleType
<1>3. ASSUME NEW c \in Held
      PROVE  /\ Linked(Cancelled(events, c), Cleared(c), Null) /\ Cleared(c)[c] = Null
             /\ Items(Cancelled(events, c)) \subseteq Items(events)
  <2>1. /\ Linked(Cancelled(events, c), Cleared(c), Null)
        /\ Items(Cancelled(events, c)) \subseteq Items(events)
    BY <1>1, CancelledLinked DEF Cancelled, Cleared
  <2> QED BY <1>2, <2>1 DEF Cleared
<1>4. ASSUME NoNewTask, RetimeStays PROVE OneTask' /\ RetimeArmed'
  BY <1>h, <1>1, <1>4, OneStays DEF RetimeArmed, RetimeStays
<1>5. CASE LanCall
  <2>1. PICK new \in LanRestart(events, handle) : events' = new.evs /\ handle' = new.h
    BY <1>5 DEF LanCall, LanLeave, Leave
  <2>2. \A e \in Items(new.evs) : e \in Items(events) \/ e.cb = "lan"
    BY <1>1, <2>1, LanRestartLinked
  <2>3. new.h["retime"] = handle["retime"]
    <3>1. CASE handle["lan"] # Null
      BY <2>1, <3>1 DEF LanRestart, LanKept
    <3>2. CASE handle["lan"] = Null
      <4>1. PICK a \in Allocs(events) : new = LanArmed(events, handle, a)
        BY <2>1, <3>2 DEF LanRestart
      <4>2. new.h = [handle EXCEPT !["lan"] = a]
        BY <4>1 DEF LanArmed
      <4> QED BY <1>h, <1>2, <4>2
    <3> QED BY <3>1, <3>2
  <2>4. NoNewTask /\ RetimeStays
    BY <1>5, <2>1, <2>2, <2>3 DEF NoNewTask, RetimeStays, LanCall
  <2> QED BY <1>4, <2>4
<1>6. CASE DnsmasqCall
  <2>1. DnsmasqRestart(events, handle) /\ enable' = enable
    BY <1>6 DEF DnsmasqCall, timerVars
  <2>2. \A e \in Items(events') : e \in Items(events) \/ e.cb = "dnsmasq"
    BY <1>1, <2>1, DnsmasqRestartLinked
  <2>3. handle'["retime"] = handle["retime"]
    BY <1>2, <2>1, DnsmasqRestartEffect
  <2> QED BY <1>4, <2>1, <2>2, <2>3 DEF NoNewTask, RetimeStays
<1>7. CASE RetimeCall
  <2> DEFINE left == Cancelled(events, "retime")
             h    == Cleared("retime")
             site == "retime set"
  <2>1. Linked(left, h, Null) /\ h["retime"] = Null /\ Items(left) \subseteq Items(events)
    BY <1>h, <1>3
  <2>2. Arm(left, h, "retime", site)
    BY <1>7 DEF RetimeCall
  <2>3. "retime" \in Clients /\ Delay[site] \in Int
    BY Sites
  <2> HIDE DEF left, h, site
  <2>4. OneEntry(left, Null, "task")
    <3>1. Exempt = Null
      BY <1>1 DEF Exempt
    <3> QED BY <1>h, <2>1, <3>1 DEF OneTask, OneEntry
  <2>5. handle'["retime"] # Null
    BY <2>1, <2>2, <2>4, RetimeRoom
  <2>6. \A e \in Items(events') :
           e \in Items(left) \/ (e.cb = "retime" /\ e.due = Delay[site])
    BY <2>1, <2>2, <2>3, ArmLinked
  <2>7. NoNewTask
    BY <2>1, <2>6 DEF NoNewTask
  <2> QED BY <1>h, <1>1, <2>5, <2>7, OneStays DEF RetimeArmed
<1>8. CASE NetReply
  <2>1. events' = Cancelled(events, "net") /\ handle' = Cleared("net") /\ enable' = enable
    BY <1>8 DEF NetReply, Leave
  <2>2. NoNewTask
    BY <1>h, <1>3, <2>1 DEF NoNewTask
  <2>3. handle'["retime"] = handle["retime"]
    BY <1>h, <1>2, <2>1, ClearedEffect
  <2> QED BY <1>4, <2>1, <2>2, <2>3 DEF RetimeStays
<1>9. ASSUME NEW was, NEW detecting, Addressed(was, detecting), enable' = enable
      PROVE  NoNewTask /\ RetimeStays
  <2>1. CASE LanMoves
    <3>1. \A e \in Items(events') : e \in Items(events) \/ e.cb \in {"lan", "dnsmasq"}
      BY <1>1, <2>1, LanMovesLinked
    <3>2. handle'["retime"] = handle["retime"]
      <4>1. PICK new \in {LanKept(events, handle)} \cup LanRestart(events, handle) :
              DnsmasqRestart(new.evs, new.h)
        BY <2>1 DEF LanMoves
      <4>2. new.h["retime"] = handle["retime"] /\ new.h \in [Held -> Addrs \cup {Null}]
        <5>1. CASE new = LanKept(events, handle) \/ handle["lan"] # Null
          BY <1>2, <4>1, <5>1 DEF LanRestart, LanKept
        <5>2. CASE new \in LanRestart(events, handle) /\ handle["lan"] = Null
          <6>1. PICK a \in Allocs(events) : new.h = [handle EXCEPT !["lan"] = a]
            BY <5>2 DEF LanRestart, LanArmed
          <6> QED BY <1>h, <1>2, <6>1, AllocsType
        <5> QED BY <4>1, <5>1, <5>2
      <4> QED BY <4>1, <4>2, DnsmasqRestartEffect
    <3> QED BY <1>9, <3>1, <3>2 DEF NoNewTask, RetimeStays
  <2>2. CASE Leave(events, handle)
    BY <1>9, <2>2 DEF Leave, NoNewTask, RetimeStays
  <2> QED BY <1>9, <2>1, <2>2 DEF Addressed
<1>10. CASE IpUp
  BY <1>4, <1>9, <1>10 DEF IpUp
<1>11. CASE IpStatic
  BY <1>4, <1>9, <1>11 DEF IpStatic
<1>12. CASE IpDown
  <2>1. NoNewTask /\ RetimeStays
    BY <1>12 DEF IpDown, Leave, NoNewTask, RetimeStays
  <2> QED BY <1>4, <2>1
<1>13. CASE NetLost
  <2>1. Arm(events, handle, "net", "net") /\ online /\ ~detect /\ enable' = enable
    BY <1>13 DEF NetLost
  <2> DEFINE c == "net"
             site == "net"
  <2>2. c \in Clients /\ Delay[site] \in Int /\ handle[c] = Null /\ Arm(events, handle, c, site)
    BY <1>h, <2>1, Sites DEF AnswerStands
  <2> HIDE DEF c, site
  <2>3. \A e \in Items(events') : e \in Items(events) \/ (e.cb = c /\ e.due = Delay[site])
    BY <1>1, <2>2, ArmLinked
  <2>4. NoNewTask
    BY <2>3 DEF NoNewTask, c
  <2>5. handle'["retime"] = handle["retime"]
    BY <1>h, <1>2, <2>1, ArmEffect
  <2> QED BY <1>4, <2>1, <2>4, <2>5 DEF RetimeStays
<1> QED BY <1>5, <1>6, <1>7, <1>8, <1>10, <1>11, <1>12, <1>13 DEF Message

LEMMA RetimeLoop ==
  ASSUME RetimeInv, Loop \/ Idle \/ Tick \/ UNCHANGED vars
  PROVE  OneTask' /\ RetimeArmed'
<1>1. enable' = enable /\ handle' = handle
  <2>1. CASE Loop
    BY <2>1 DEF Loop, Walk, Skip, Release, WakeUp, OtherNetlink, Leave, timerVars
  <2>2. CASE Idle
    BY <2>2 DEF Idle, OtherCall, OtherNetlink, Leave, timerVars
  <2>3. CASE Tick
    BY <2>3 DEF Tick, SchedulerTick, timerVars
  <2>4. CASE UNCHANGED vars
    BY <2>4 DEF vars, schedVars, timerVars
  <2> QED BY <2>1, <2>2, <2>3, <2>4
<1>2. OneTask'
  <2>1. CASE Loop \/ Idle \/ Tick
    BY <2>1, WalkOne DEF RetimeInv, ListInv, OneTask, Loop, Idle, Tick
  <2>2. CASE UNCHANGED vars
    BY <2>2 DEF vars, schedVars, RetimeInv, OneTask, OneEntry, Exempt
  <2> QED BY <2>1, <2>2
<1> QED BY <1>1, <1>2 DEF RetimeInv, RetimeArmed

LEMMA RetimeInit == Init => RetimeInv
<1>1. Init => RetimeArmed
  BY FirstList DEF RetimeArmed
<1> QED BY <1>1, FirstList, TimersInit DEF RetimeInv, OneTask, TimersInv

LEMMA RetimeStep ==
  ASSUME Roomy
  PROVE  RetimeInv /\ AnswerStands' /\ [Next]_vars => RetimeInv'
<1> SUFFICES ASSUME RetimeInv, AnswerStands', [Next]_vars PROVE RetimeInv'
  OBVIOUS
<1>1. ListInv'
  BY ListStep DEF RetimeInv
<1> QED BY <1>1, RetimeCallback, RetimeMessage, RetimeLoop DEF Next, RetimeInv

\* With memory for the timers, a reboot that is set is being waited for.
THEOREM RetimeHolds ==
  ASSUME ~MallocMayFail, IsFiniteSet(Addrs), Cardinality(Addrs) > Cardinality(Clients)
  PROVE  Spec => []RetimeArmed
<1>1. Roomy
  BY DEF Roomy
<1>2. RetimeInv => RetimeArmed
  BY DEF RetimeInv
<1> QED BY <1>1, <1>2, RetimeInit, RetimeStep, Answer, PTL DEF Spec
=============================================================================
