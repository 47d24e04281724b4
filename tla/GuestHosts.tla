----------------------------- MODULE GuestHosts -----------------------------
(***************************************************************************)
(* The guests of an open guest network in mu (igd_wifi.c, main.c): a host  *)
(* that comes online there may use the net for a minute, in which it can   *)
(* show that it follows the owner's WeChat account, and is cut off by a    *)
(* timer unless it did, or the owner let it in.                            *)
(*                                                                         *)
(* The kernel tells of hosts over netlink, in order, and mu asks it back   *)
(* what the host is by then.  An entry of the table is malloc'ed memory,   *)
(* which its timer points to, and which a full table reuses: the model     *)
(* keeps the entries apart from the hosts they are about.                  *)
(*                                                                         *)
(* Covered: one radio; the rules of a guest by what they do (black: no     *)
(* net; dnsrd: DNS answers with the page; page: the two web redirects).    *)
(* A rule that cannot be registered, what the host module keeps about      *)
(* guests, and the message by which the cloud learns of one, at most once  *)
(* a minute, are left out.                                                 *)
(***************************************************************************)
EXTENDS Scheduler

CONSTANTS
  Macs,        \* hosts
  Entries,     \* what malloc can return for a struct vap_host
  HostMax,     \* HOST_MX: hosts the kernel takes for alive at once
  AllowMax,    \* ten in the code: the minutes a guest may ask for
  QueueMax,    \* bound: netlink messages waiting
  Settings     \* bound: the settings the owner chooses from, [open, wechat]

\* IW_VHOST_MX: by one more than can be alive.
TableMax == HostMax + 1

Rules    == {"black", "dnsrd", "page"}
GuestRec == [mac : Macs, online : BOOLEAN, authon : BOOLEAN, authoff : BOOLEAN,
             passid : BOOLEAN, allownr : 0..AllowMax, rules : SUBSET Rules]

ASSUME GuestHostsAssumption ==
  /\ Clients = Entries \cup {"wifi_vap", "ap_change"}
  /\ Held = Entries \cup {"wifi_vap"}
  /\ {"set", "minute", "change"} \subseteq DOMAIN Delay
  /\ HostMax \in Nat \ {0} /\ AllowMax \in Nat /\ QueueMax \in Nat
  /\ Settings \subseteq [open : BOOLEAN, wechat : BOOLEAN]
  /\ \A e \in Entries : e \notin {"wifi_vap", "ap_change"}
  /\ Null \notin GuestRec

VARIABLES
  conf,       \* the settings: [open, wechat]
  place,      \* what the kernel knows: host -> "off", "vap" or "ap"
  queue,      \* netlink messages, the oldest first: [action, mac]
  vhost,      \* the list of entries, in order
  guest       \* entry -> what it says

guestVars  == <<vhost, guest>>
kernelVars == <<place, queue>>
vars       == <<schedVars, conf, kernelVars, guestVars>>

Messages == [action : {"ADD", "DEL"}, mac : Macs]

TypeOK ==
  /\ SchedulerTypeOK
  /\ conf \in Settings
  /\ place \in [Macs -> {"off", "vap", "ap"}]
  /\ queue \in Seq(Messages) /\ Len(queue) <= QueueMax
  /\ vhost \in Seq(Entries) /\ Len(vhost) <= TableMax
  /\ guest \in [Entries -> GuestRec \cup {Null}]

\* wifi_restart: wifi_ap_change_cb is called once, with nobody in the table.
Init ==
  /\ conf \in Settings
  /\ place = [m \in Macs |-> "off"] /\ queue = <<>>
  /\ vhost = <<>> /\ guest = [e \in Entries |-> Null]
  /\ \E a \in Addrs :
       /\ events = Scheduled(<<>>, a, "ap_change", Delay["change"])
       /\ loop = LookAt(events, a)
  /\ handle = [c \in Held |-> Null]
  /\ timeout = Forever /\ slow = 0

----------------------------------------------------------------------------
(***************************************************************************)
(* The table.                                                              *)
(***************************************************************************)
Listed     == {vhost[i] : i \in 1..Len(vhost)}
Offline(e) == ~guest[e].online

EntriesOf(m) == {e \in Listed : guest[e].mac = m}
Unlisted(e)  == Picked(vhost, {i \in 1..Len(vhost) : vhost[i] # e})

\* The list and the static variables without the timers of entries.
Untimed(es)   == Without(events, {handle[e] : e \in es})
Forgotten(es) == [c \in Held |-> IF c \in es THEN Null ELSE handle[c]]

\* The timer at a is about e's guest, and e does not know of it: nobody can cancel it.
Astray(e, a) ==
  \E i \in 1..Len(events) :
    events[i].cb = e /\ events[i].addr = a /\ handle[e] # a

Fresh(m) == [mac |-> m, online |-> TRUE, authon |-> FALSE, authoff |-> FALSE,
             passid |-> FALSE, allownr |-> 0, rules |-> {}]

\* wifi_vap_del_rule cancels the minute as well: see Cancelled and Cleared.
DelRule(g) == [g EXCEPT !.rules = {}]

\* What a guest without leave gets: with WeChat the pages, and a try.
AddRule(g) ==
  [g EXCEPT !.rules = @ \cup IF conf.wechat /\ ~g.authoff THEN Rules ELSE {"black"}]

Allowed(g) ==
  [g EXCEPT !.rules = @ \ {"dnsrd", "black"},
            !.allownr = IF @ = AllowMax THEN @ ELSE @ + 1]

\* The owner shuts the guest out, or its minute is over.
ShutOut(g) == [g EXCEPT !.rules = @ \cup {"black"}, !.authon = FALSE, !.authoff = TRUE]
CutOff(g)  == [g EXCEPT !.rules = @ \cup {"black", "dnsrd"}]

\* A guest that goes away keeps its entry only when the owner has decided about it.
Gone(e) ==
  IF guest[e].authon \/ guest[e].authoff
  THEN /\ guest' = [guest EXCEPT ![e] = [DelRule(@) EXCEPT !.online = FALSE]]
       /\ UNCHANGED vhost
  ELSE vhost' = Unlisted(e) /\ guest' = [guest EXCEPT ![e] = Null]

----------------------------------------------------------------------------
(***************************************************************************)
(* Netlink: wifi_vap_host_online and wifi_vap_host_offline.                *)
(***************************************************************************)
Told(action, m) ==
  /\ Notified
  /\ queue # <<>> /\ Head(queue) = [action |-> action, mac |-> m]
  /\ queue' = Tail(queue)

\* By now the host is gone, or is not in the guest network, or that has a password.
Ignore == Leave(events, handle) /\ UNCHANGED guestVars

\* From "out": g is the entry's guest without rules, evs and h the list and the
\* static variables without its timer.
Admit(e, g, evs, h) ==
  IF ~conf.wechat \/ g.authoff
  THEN /\ guest' = [guest EXCEPT ![e] = [g EXCEPT !.rules = {"black"}]]
       /\ Leave(evs, h)
  ELSE /\ guest' = [guest EXCEPT ![e] = Allowed([g EXCEPT !.rules = {"page"}])]
       /\ \E a \in Allocs(evs) :
            /\ handle' = [h EXCEPT ![e] = a]
            /\ events' = Scheduled(evs, a, e, Delay["minute"])

\* It is in the table: as one the owner let in, or not.
OnlineAgain(m) ==
  \E e \in EntriesOf(m) :
    LET g == [DelRule(guest[e]) EXCEPT !.online = TRUE] IN
    /\ UNCHANGED vhost
    /\ IF g.authon
       THEN /\ guest' = [guest EXCEPT ![e] = g]
            /\ Leave(Cancelled(events, e), Cleared(e))
       ELSE Admit(e, g, Cancelled(events, e), Cleared(e))

\* A new entry, or none without memory.
OnlineNew(m) ==
  /\ EntriesOf(m) = {} /\ Len(vhost) < TableMax
  /\ \/ \E e \in Entries \ Listed :
          /\ vhost' = Append(vhost, e)
          /\ Admit(e, Fresh(m), events, [handle EXCEPT ![e] = Null])
     \/ (MallocMayFail \/ Entries \subseteq Listed) /\ Ignore

\* The table is full: the first entry whose guest is offline is cleared and taken,
\* without a look at its timer: one that was asked for while the guest was offline
\* goes on, and will be about the new one.  With nobody offline the code takes the
\* head of the list for an entry: the model ends.
Victim == vhost[CHOOSE i \in 1..Len(vhost) :
                  Offline(vhost[i]) /\ \A j \in 1..(i - 1) : ~Offline(vhost[j])]

\* Faulty variant: it is not taken out of the list first.
OnlineTwice(m) ==
  /\ EntriesOf(m) = {} /\ Len(vhost) >= TableMax
  /\ \E e \in Listed : Offline(e)
  /\ vhost' = Append(vhost, Victim)
  /\ Admit(Victim, Fresh(m), events, [handle EXCEPT ![Victim] = Null])

OnlineInstead(m) ==
  /\ EntriesOf(m) = {} /\ Len(vhost) >= TableMax
  /\ \E e \in Listed : Offline(e)
  /\ vhost' = Append(Unlisted(Victim), Victim)
  /\ Admit(Victim, Fresh(m), events, [handle EXCEPT ![Victim] = Null])

Online(m) ==
  /\ Told("ADD", m)
  /\ IF place[m] # "vap" \/ ~conf.open THEN Ignore
     ELSE OnlineAgain(m) \/ OnlineNew(m) \/ OnlineInstead(m)
  /\ Handled
  /\ UNCHANGED <<conf, place>>

\* Faulty variant: a guest with leave keeps its online mark.
OfflineKept(m) ==
  /\ Told("DEL", m)
  /\ \/ EntriesOf(m) = {} /\ Ignore
     \/ \E e \in EntriesOf(m) :
          /\ IF guest[e].authon \/ guest[e].authoff
             THEN guest' = [guest EXCEPT ![e] = DelRule(@)] /\ UNCHANGED vhost
             ELSE Gone(e)
          /\ Leave(Cancelled(events, e), Cleared(e))
  /\ Handled
  /\ UNCHANGED <<conf, place>>

\* Faulty variant: the minute's timer is not cancelled.
OfflineTimed(m) ==
  /\ Told("DEL", m)
  /\ \/ EntriesOf(m) = {} /\ Ignore
     \/ \E e \in EntriesOf(m) :
          Gone(e) /\ Leave(events, handle)
  /\ Handled
  /\ UNCHANGED <<conf, place>>

OfflineMsg(m) ==
  /\ Told("DEL", m)
  /\ \/ EntriesOf(m) = {} /\ Ignore
     \/ \E e \in EntriesOf(m) :
          Gone(e) /\ Leave(Cancelled(events, e), Cleared(e))
  /\ Handled
  /\ UNCHANGED <<conf, place>>

(***************************************************************************)
(* What happens to the hosts (external).  Nothing is told of a host that   *)
(* goes over from one network of the router to the other.                  *)
(***************************************************************************)
Alive == {m \in Macs : place[m] # "off"}

Appear(m) ==
  /\ place[m] = "off" /\ Cardinality(Alive) < HostMax /\ Len(queue) < QueueMax
  /\ \E p \in {"vap", "ap"} : place' = [place EXCEPT ![m] = p]
  /\ queue' = Append(queue, [action |-> "ADD", mac |-> m])

Disappear(m) ==
  /\ m \in Alive /\ Len(queue) < QueueMax
  /\ place' = [place EXCEPT ![m] = "off"]
  /\ queue' = Append(queue, [action |-> "DEL", mac |-> m])

GoOver(m) ==
  /\ m \in Alive
  /\ place' = [place EXCEPT ![m] = IF @ = "vap" THEN "ap" ELSE "vap"]
  /\ UNCHANGED queue

Kernel ==
  /\ \E m \in Macs : Appear(m) \/ Disappear(m) \/ GoOver(m)
  /\ UNCHANGED <<schedVars, conf, guestVars>>

----------------------------------------------------------------------------
(***************************************************************************)
(* Requests from the web pages.                                            *)
(***************************************************************************)
\* wifi_vap_host_action, ADD: the owner lets a guest in, or it shows its WeChat
\* name; a name does not help a guest that was shut out.
\* Faulty variant: the minute runs on.
HostAddTimed(m, passid) ==
  /\ Called
  /\ \E e \in EntriesOf(m) :
       LET g == guest[e] IN
       /\ ~(passid /\ g.authoff)
       /\ guest' = [guest EXCEPT ![e] =
            [DelRule(g) EXCEPT !.allownr = 0, !.authon = TRUE,
                               !.passid = g.passid \/ passid]]
       /\ Leave(events, handle)
  /\ Answered
  /\ UNCHANGED <<conf, kernelVars, vhost>>

HostAdd(m, passid) ==
  /\ Called
  /\ \E e \in EntriesOf(m) :
       LET g == guest[e] IN
       /\ ~(passid /\ g.authoff)
       /\ guest' = [guest EXCEPT ![e] =
            [DelRule(g) EXCEPT !.allownr = 0, !.authon = TRUE,
                               !.passid = g.passid \/ passid]]
       /\ Leave(Cancelled(events, e), Cleared(e))
  /\ Answered
  /\ UNCHANGED <<conf, kernelVars, vhost>>

\* wifi_vap_host_action, DEL: the owner shuts a guest out.  Its minute runs on.
HostDel(m) ==
  /\ Called
  /\ \E e \in EntriesOf(m) :
       /\ guest' = [guest EXCEPT ![e] = ShutOut(@)]
  /\ Leave(events, handle) /\ Answered
  /\ UNCHANGED <<conf, kernelVars, vhost>>

\* wifi_wechat_clean: whoever came in by a WeChat name is out again.
\* Faulty variant: without the rules.
WechatCleanBare ==
  LET named == {e \in Listed : guest[e].passid} IN
  /\ Called /\ named # {}
  /\ guest' = [e \in Entries |->
       IF e \notin named THEN guest[e]
       ELSE [guest[e] EXCEPT !.authon = FALSE, !.passid = FALSE]]
  /\ Leave(Untimed(named), Forgotten(named))
  /\ Answered
  /\ UNCHANGED <<conf, kernelVars, vhost>>

WechatClean ==
  LET named == {e \in Listed : guest[e].passid}
      Out(g) == [g EXCEPT !.authon = FALSE, !.passid = FALSE]
  IN
  /\ Called /\ named # {}
  /\ guest' = [e \in Entries |->
       IF e \notin named THEN guest[e]
       ELSE IF guest[e].online THEN AddRule(Out(guest[e])) ELSE Out(guest[e])]
  /\ Leave(Untimed(named), Forgotten(named))
  /\ Answered
  /\ UNCHANGED <<conf, kernelVars, vhost>>

\* wifi_wechat_allow: one more minute, unless one is running.
WechatAllow(m) ==
  /\ Called
  /\ \E e \in EntriesOf(m) :
       /\ handle[e] = Null
       /\ conf.wechat /\ ~guest[e].authon /\ ~guest[e].authoff
       /\ guest[e].allownr < AllowMax
       /\ guest' = [guest EXCEPT ![e] = Allowed(@)]
       /\ Arm(events, handle, e, "minute")
  /\ Answered
  /\ UNCHANGED <<conf, kernelVars, vhost>>

\* WIFI_MOD_SET_VAP, with settings read before: at once in force for the next
\* guest, and by the timer for those that are there.
SetVap ==
  /\ Called
  /\ \E a \in Allocs(events) \ {Null} :
       Leave(Without(Scheduled(events, a, "wifi_vap", Delay["set"]), {handle["wifi_vap"]}),
             [handle EXCEPT !["wifi_vap"] = a])
  /\ conf' \in Settings
  /\ Answered
  /\ UNCHANGED <<kernelVars, guestVars>>

----------------------------------------------------------------------------
(***************************************************************************)
(* Callbacks.                                                              *)
(***************************************************************************)
\* vap_wechat_cb: the minute is over.  What a stray one writes to an entry that was
\* freed is nobody's.
MinuteCb(e) ==
  /\ Due(e) /\ Ran
  /\ guest' = [guest EXCEPT ![e] = IF @ = Null THEN @ ELSE CutOff(@)]
  /\ Leave(events, Cleared(e))
  /\ UNCHANGED <<conf, kernelVars, vhost>>

\* wifi_vap_cb: the guests of a network that has a password now are forgotten,
\* unless the radio is down or the network off.
VapCb ==
  /\ Due("wifi_vap") /\ Ran
  /\ \/ /\ ~conf.open
        /\ vhost' = <<>> /\ guest' = [e \in Entries |-> Null]
        /\ Leave(Untimed(Listed), [c \in Held |-> Null])
     \/ Leave(events, Cleared("wifi_vap")) /\ UNCHANGED <<vhost, guest>>
  /\ UNCHANGED <<conf, kernelVars>>

\* wifi_ap_change_cb: one guest that is in the other network by now goes, the first
\* of those the kernel lists, if it lists any.
ChangeCb ==
  /\ Due("ap_change") /\ Ran
  /\ \/ /\ MallocMayFail \/ \A e \in Listed : place[guest[e].mac] # "ap"
        /\ Arm(events, handle, "ap_change", "change")
        /\ UNCHANGED <<vhost, guest>>
     \/ \E e \in Listed :
          /\ place[guest[e].mac] = "ap"
          /\ Gone(e)
          /\ Arm(Cancelled(events, e), Cleared(e), "ap_change", "change")
  /\ UNCHANGED <<conf, kernelVars>>

----------------------------------------------------------------------------
Callback == (\E e \in Entries : MinuteCb(e)) \/ VapCb \/ ChangeCb
Message ==
  \/ \E m \in Macs :
       \/ \E passid \in BOOLEAN : HostAdd(m, passid)
       \/ HostDel(m) \/ WechatAllow(m)
  \/ WechatClean \/ SetVap
Netlink == \E m \in Macs : Online(m) \/ OfflineMsg(m)
Loop    == Walk /\ UNCHANGED <<conf, kernelVars, guestVars>>
Idle    == (OtherCall \/ OtherNetlink) /\ UNCHANGED <<conf, kernelVars, guestVars>>
Tick    == SchedulerTick /\ UNCHANGED <<conf, kernelVars, guestVars>>

Next == Callback \/ Message \/ Netlink \/ Kernel \/ Loop \/ Idle \/ Tick

Spec == Init /\ [][Next]_vars

----------------------------------------------------------------------------
(***************************************************************************)
(* Properties.                                                             *)
(***************************************************************************)
\* "allow guest to use net int one miniute": a guest that is online without leave
\* and not cut off has a timer in the list that will cut it off, and its entry knows
\* of it, whatever timers of earlier guests go astray about the same entry.
NoFreeRide ==
  \A e \in Listed :
    guest[e].online /\ ~guest[e].authon /\ "black" \notin guest[e].rules =>
      \E i \in 1..Len(events) : events[i].cb = e /\ events[i].addr = handle[e]

\* A guest with leave is not cut off by a minute that it was given before, nor by
\* anything else while it keeps the leave: only the end of one that went astray, of
\* the guest who had the entry before, does that.
LeaveIsLasting ==
  [][\A e \in Listed \cap Listed' :
       guest[e].authon /\ guest[e].rules = {} /\ guest'[e].authon /\ guest'[e].rules # {} =>
         Due(e) /\ Astray(e, loop.cur)]_vars

\* A minute goes astray in two cases: a full table gives the entry of a guest that is
\* offline to another host, or one that is astray already ends, upon which the entry
\* forgets its guest's own.  Else the entry knows of it until it is called back or
\* cancelled, and nobody frees the entry before.
MinuteIsOwn ==
  [][\A e \in Entries, a \in Addrs :
       Astray(e, a)' /\ ~Astray(e, a) =>
         \/ Due(e) /\ (loop.cur = a \/ Astray(e, loop.cur))
         \/ e \in Listed \cap Listed' /\ Offline(e) /\ guest'[e].mac # guest[e].mac]_vars

\* With one entry more than hosts can be alive, a full table has a guest offline,
\* however far mu lags behind the kernel: wifi_vap_host_online finds one to reuse.
VictimExists == Len(vhost) = TableMax => \E e \in Listed : Offline(e)
=============================================================================
