----------------------------- MODULE WifiRadio -----------------------------
(***************************************************************************)
(* One radio of the router in mu (igd_wifi.c): its settings are saved at   *)
(* once and take effect by timers, five seconds later, so that the web     *)
(* page gets its answer before the radio goes away; a timer checks the     *)
(* hours in which the radio is off; a scan of the neighbourhood excludes   *)
(* the settings until it is read or 30 seconds have passed.  All of its    *)
(* timers are on the list of Scheduler.                                    *)
(***************************************************************************)
EXTENDS Scheduler

CONSTANT GuestOn   \* bound: FALSE when no client switches the guest network on

ASSUME WifiRadioAssumption ==
  /\ Clients = {"wifi_ap", "wifi_vap", "wifi_time", "wifi_acl", "wifi_site"}
  /\ Held = Clients
  /\ {"set", "retry", "scan"} \subseteq DOMAIN Delay
  /\ GuestOn \in BOOLEAN

VARIABLES
  cfg,       \* cfg[ifindex]: [enable, time_on, vap]
  copy,      \* the settings the client has read to change them, or Null
  lock,      \* wifi_lock: the radio is down
  guestUp,   \* the guest network's interface is up
  scannng,   \* a scan is under way, spelled as in the code
  surveyed   \* surn > 0: results of a scan are kept

radioVars == <<lock, guestUp>>
scanVars  == <<scannng, surveyed>>
confVars  == <<cfg, copy>>
wifiVars  == <<confVars, radioVars, scanVars>>
vars      == <<schedVars, wifiVars>>

Guests  == IF GuestOn THEN BOOLEAN ELSE {FALSE}
Configs == [enable : BOOLEAN, time_on : BOOLEAN, vap : Guests]

TypeOK ==
  /\ SchedulerTypeOK
  /\ cfg \in Configs /\ copy \in Configs \cup {Null}
  /\ lock \in BOOLEAN /\ guestUp \in BOOLEAN
  /\ scannng \in BOOLEAN /\ surveyed \in BOOLEAN

\* wifi_restart: wifi_time_cb is called once for the settings that were read.  Its
\* timer is there when the radio has hours, and the hours decide whether it is up.
Init ==
  /\ cfg \in Configs /\ copy = Null
  /\ lock \in (IF ~cfg.enable THEN {TRUE}
               ELSE IF cfg.time_on THEN BOOLEAN ELSE {FALSE})
  /\ guestUp = (cfg.vap /\ ~lock)
  /\ scannng = FALSE /\ surveyed = FALSE
  /\ \E a \in IF cfg.enable /\ cfg.time_on THEN Addrs ELSE {Null} :
       /\ events = Scheduled(<<>>, a, "wifi_time", Delay["retry"])
       /\ handle = [c \in Held |-> IF c = "wifi_time" THEN a ELSE Null]
       /\ loop = IF a = Null THEN Selecting ELSE LookAt(events, a)
  /\ timeout = Forever /\ slow = 0

----------------------------------------------------------------------------
(***************************************************************************)
(* Settings.  A new entry is scheduled first: without memory the old one   *)
(* stays, and the call is refused.                                         *)
(***************************************************************************)
Pending(c) == handle[c] # Null

\* The list and the static variables after "wifi_c = tmp", the old entries of cs
\* cancelled.
Replaced(evs, h, a, c, cs) ==
  [evs |-> Without(Scheduled(evs, a, c, Delay["set"]), {h[d] : d \in cs}),
   h   |-> [d \in Held |-> IF d = c THEN a ELSE IF d \in cs THEN Null ELSE h[d]]]

\* wifi_set_vap on the way, from a callback or a request: a is what malloc returns.
SetVap(evs, h, a) ==
  IF scannng \/ a = Null THEN [evs |-> evs, h |-> h]
  ELSE Replaced(evs, h, a, "wifi_vap", {"wifi_vap"})

\* A client reads the settings, changes some, and sends them back: all of them are
\* copied, the changed ones and the others.
GetConf ==
  /\ Called /\ Leave(events, handle) /\ Answered
  /\ copy' = cfg
  /\ UNCHANGED <<cfg, radioVars, scanVars>>

Refused == Leave(events, handle) /\ UNCHANGED cfg

Set(c, cs, conf) ==
  \/ (scannng \/ Null \in Allocs(events)) /\ Refused
  \/ /\ ~scannng
     /\ \E a \in Allocs(events) \ {Null} :
          LET new == Replaced(events, handle, a, c, cs) IN
            Leave(new.evs, new.h) /\ cfg' = conf

SetAp ==
  /\ copy # Null
  /\ Called /\ Set("wifi_ap", {"wifi_ap", "wifi_vap"}, copy) /\ Answered
  /\ copy' = Null
  /\ UNCHANGED <<radioVars, scanVars>>

SetVapCall ==
  /\ copy # Null
  /\ Called
  /\ \E v \in Guests : Set("wifi_vap", {"wifi_vap"}, [copy EXCEPT !.vap = v])
  /\ Answered
  /\ copy' = Null
  /\ UNCHANGED <<radioVars, scanVars>>

SetTime ==
  /\ copy # Null
  /\ Called
  /\ \E e, t \in BOOLEAN :
       Set("wifi_time", {"wifi_time"}, [copy EXCEPT !.enable = e, !.time_on = t])
  /\ Answered
  /\ copy' = Null
  /\ UNCHANGED <<radioVars, scanVars>>

SetAcl ==
  /\ Called /\ Set("wifi_acl", {"wifi_acl"}, cfg) /\ Answered
  /\ UNCHANGED <<copy, radioVars, scanVars>>

(***************************************************************************)
(* wifi_get_survey.                                                        *)
(***************************************************************************)
\* "out": the 30 seconds in which the results are kept, or the scan may last.
KeepSurvey(evs, h) ==
  IF h["wifi_site"] # Null THEN Leave(evs, h) ELSE Arm(evs, h, "wifi_site", "scan")

\* Faulty variant: a pending setting is not looked at.
SurveyStartAnyway(kept) ==
  /\ ~kept /\ ~scannng
  /\ scannng' = TRUE
  /\ surveyed' = FALSE
  /\ KeepSurvey(Cancelled(events, "wifi_site"), Cleared("wifi_site"))

\* Start a scan: none is under way, and no setting is waiting.
SurveyStart(kept) ==
  /\ ~kept /\ ~scannng
  /\ ~\E c \in {"wifi_ap", "wifi_vap", "wifi_acl"} : Pending(c)
  /\ scannng' = TRUE
  /\ surveyed' = FALSE
  /\ KeepSurvey(Cancelled(events, "wifi_site"), Cleared("wifi_site"))

\* Nothing is done: a scan is under way, or it cannot be started.
SurveyNone(kept) ==
  /\ ~kept
  /\ Leave(events, handle)
  /\ surveyed' = FALSE
  /\ UNCHANGED scannng

\* Read the results, of which there may be none; without memory for them it fails.
SurveyRead(kept) ==
  /\ scannng' = FALSE
  /\ \/ /\ surveyed' \in {kept} \cup {TRUE}
        /\ KeepSurvey(events, handle)
     \/ /\ MallocMayFail
        /\ surveyed' = kept
        /\ Leave(events, handle)

\* scan is 0 to read, 1 to scan unless there are results, 2 to scan anyway.
Survey(scan) ==
  LET kept == surveyed /\ scan # 2 IN
  /\ Called
  /\ \/ (scan = 0 \/ kept) /\ SurveyRead(kept)
     \/ scan # 0 /\ SurveyStart(kept)
     \/ scan # 0 /\ SurveyNone(kept)
  /\ Answered
  /\ UNCHANGED <<confVars, radioVars>>

----------------------------------------------------------------------------
(***************************************************************************)
(* Callbacks.                                                              *)
(***************************************************************************)
\* Faulty variant: the guest network is left to wifi_set_vap.
ApCbOnly ==
  /\ Due("wifi_ap") /\ Ran
  /\ Leave(events, Cleared("wifi_ap"))
  /\ UNCHANGED wifiVars

\* The access point is set up anew, and the guest network after it.
ApCb ==
  /\ Due("wifi_ap") /\ Ran
  /\ IF lock \/ ~cfg.vap THEN Leave(events, Cleared("wifi_ap"))
     ELSE \E a \in Allocs(events) :
            LET new == SetVap(events, Cleared("wifi_ap"), a) IN Leave(new.evs, new.h)
  /\ UNCHANGED wifiVars

VapCb ==
  /\ Due("wifi_vap") /\ Ran
  /\ Leave(events, Cleared("wifi_vap"))
  /\ guestUp' = IF lock THEN guestUp ELSE cfg.vap
  /\ UNCHANGED <<confVars, lock, scanVars>>

AclCb ==
  /\ Due("wifi_acl") /\ Ran
  /\ Leave(events, Cleared("wifi_acl"))
  /\ UNCHANGED wifiVars

\* Faulty variant: the scan is left marked as under way.
SurveyCbKeep ==
  /\ Due("wifi_site") /\ Ran
  /\ Leave(events, Cleared("wifi_site"))
  /\ surveyed' = FALSE
  /\ UNCHANGED <<confVars, radioVars, scannng>>

SurveyCb ==
  /\ Due("wifi_site") /\ Ran
  /\ Leave(events, Cleared("wifi_site"))
  /\ surveyed' = FALSE /\ scannng' = FALSE
  /\ UNCHANGED <<confVars, radioVars>>

\* wifi_down: a scan keeps the radio up.
Down ==
  IF lock \/ scannng THEN UNCHANGED radioVars
  ELSE lock' = TRUE /\ guestUp' = (guestUp /\ ~cfg.vap)

\* wifi_up, the list and the static variables it leaves when malloc returns a.
Up == lock' = (lock /\ scannng) /\ UNCHANGED guestUp
AfterUp(evs, h, a) ==
  IF lock /\ ~scannng /\ cfg.vap THEN SetVap(evs, h, a) ELSE [evs |-> evs, h |-> h]

Retry(evs, h) == Arm(evs, h, "wifi_time", "retry")

\* The radio is switched off, or on without hours: once more only after a scan.
\* Faulty variant: not even then.
TimeSwitchOnce(h) ==
  \/ ~cfg.enable /\ Down /\ Leave(events, h)
  \/ /\ cfg.enable /\ ~cfg.time_on /\ Up
     /\ \E a \in Allocs(events) :
          LET new == AfterUp(events, h, a) IN Leave(new.evs, new.h)

TimeSwitch(h) ==
  \/ /\ ~cfg.enable /\ Down
     /\ IF scannng THEN Retry(events, h) ELSE Leave(events, h)
  \/ /\ cfg.enable /\ ~cfg.time_on /\ Up
     /\ \E a \in Allocs(events) :
          LET new == AfterUp(events, h, a) IN
            IF scannng THEN Retry(new.evs, new.h) ELSE Leave(new.evs, new.h)

\* The radio has hours: now is one of them, or not, or the time of day is not
\* known; hours for one day are dropped when they are over.
TimeHours(h) ==
  /\ cfg.enable /\ cfg.time_on
  /\ \/ Down /\ Retry(events, h) /\ UNCHANGED cfg
     \/ /\ Up
        /\ \E a \in Allocs(events) :
             LET new == AfterUp(events, h, a) IN
               \/ Retry(new.evs, new.h) /\ UNCHANGED cfg
               \/ /\ ~scannng
                  /\ Leave(new.evs, new.h)
                  /\ cfg' = [cfg EXCEPT !.time_on = FALSE]

TimeCb ==
  /\ Due("wifi_time") /\ Ran
  /\ \/ TimeSwitch(Cleared("wifi_time")) /\ UNCHANGED cfg
     \/ TimeHours(Cleared("wifi_time"))
  /\ UNCHANGED <<copy, scanVars>>

----------------------------------------------------------------------------
Callback == ApCb \/ VapCb \/ AclCb \/ SurveyCb \/ TimeCb
Message  == GetConf \/ SetAp \/ SetVapCall \/ SetTime \/ SetAcl
              \/ \E scan \in 0..2 : Survey(scan)
Loop     == Walk /\ UNCHANGED wifiVars
Idle     == (OtherCall \/ OtherNetlink) /\ UNCHANGED wifiVars
Tick     == SchedulerTick /\ UNCHANGED wifiVars

Next == Callback \/ Message \/ Loop \/ Idle \/ Tick

Spec == Init /\ [][Next]_vars

\* main's loop never stops between two select()s, a callback returns, and time
\* passes.  Clients ask or not.
FairSpec == Spec /\ WF_vars(Callback \/ Loop) /\ WF_vars(Tick)

----------------------------------------------------------------------------
(***************************************************************************)
(* Properties.                                                             *)
(***************************************************************************)
\* "wifi need set, not support scan" and "scaning not support wifi set": a scan and
\* a setting of the radio exclude each other, whichever comes first, and also the
\* setting of the guest network that another callback makes.
ScanExclusive ==
  scannng => ~\E c \in {"wifi_ap", "wifi_vap", "wifi_acl"} : Pending(c)

\* A radio that is not as its switch says is about to be checked: a switch that
\* comes up against a scan, or against the hours, is not forgotten.
SwitchNotForgotten == ~Pending("wifi_time") => lock = ~cfg.enable

\* A guest network that is switched on is up when the radio is up and no setting is
\* waiting, also when the access point was set in between.
GuestServed ==
  cfg.vap /\ ~lock /\ ~Pending("wifi_ap") /\ ~Pending("wifi_vap") => guestUp

\* A scan ends, with or without the client that asked for it, and however often
\* others ask: it never locks the settings out for good.
ScanEnds == scannng ~> ~scannng
=============================================================================
