-------------------------- MODULE WifiRadioProofs --------------------------
(***************************************************************************)
(* A scan and a setting of the radio exclude each other, for any number of *)
(* entries, any delays, any result of malloc and any requests; with memory *)
(* for a timer of each kind, a switch of the radio is not forgotten and a  *)
(* guest network that is switched on is up.                                *)
(***************************************************************************)
EXTENDS WifiRadio, SchedulerProofs

Handles == [Held -> Addrs \cup {Null}]

\* The settings that a scan excludes.
Settings == {"wifi_ap", "wifi_vap", "wifi_acl"}

\* ScanExclusive is inductive once it is known what a static variable can be.
ScanInv == handle \in Handles /\ ScanExclusive

\* What a step does when it leaves the settings and the scan alone.
Settled == \A c \in Settings : handle'[c] = handle[c] \/ handle'[c] = Null

LEMMA HeldSettings == Settings \subseteq Held /\ {"wifi_time", "wifi_site"} \subseteq Held \ Settings
BY WifiRadioAssumption DEF Settings

LEMMA AllocsType == \A evs : Allocs(evs) \subseteq Addrs \cup {Null}
BY DEF Allocs

\* schedule() for a client changes the static variable of no other one.
LEMMA ArmEffect ==
  ASSUME NEW evs, NEW h \in Handles, NEW c, NEW site, Arm(evs, h, c, site)
  PROVE  handle' \in Handles /\ \A d \in Held \ {c} : handle'[d] = h[d]
<1>1. PICK a \in Allocs(evs) : handle' = IF c \in Held THEN [h EXCEPT ![c] = a] ELSE h
  BY DEF Arm
<1>2. a \in Addrs \cup {Null}
  BY <1>1, AllocsType
<1> QED BY <1>1, <1>2 DEF Handles

LEMMA ClearedEffect ==
  ASSUME handle \in Handles, NEW c \in Held
  PROVE  /\ Cleared(c) \in Handles
         /\ Cleared(c)[c] = Null
         /\ \A d \in Held \ {c} : Cleared(c)[d] = handle[d]
BY DEF Cleared, Handles

\* A new entry replaces those it cancels, and no other static variable changes.
LEMMA ReplacedType ==
  ASSUME NEW evs, NEW h \in Handles, NEW a \in Addrs \cup {Null}, NEW c, NEW cs
  PROVE  Replaced(evs, h, a, c, cs).h \in Handles
BY DEF Replaced, Handles

\* wifi_set_vap does nothing while a scan is under way.
LEMMA SetVapEffect ==
  ASSUME NEW evs, NEW h \in Handles, NEW a \in Allocs(events)
  PROVE  /\ SetVap(evs, h, a).h \in Handles
         /\ scannng => SetVap(evs, h, a).h = h
<1>1. a \in Addrs \cup {Null}
  BY AllocsType
<1> QED BY <1>1, ReplacedType DEF SetVap

\* Nothing is set during a scan when none begins and the settings stay as they are.
LEMMA SettledKeeps ==
  ASSUME ScanInv, handle' \in Handles, scannng' => scannng,
         scannng => Settled
  PROVE  ScanInv'
BY DEF ScanInv, ScanExclusive, Settled, Settings, Pending

LEMMA ScanInit == Init => ScanInv
<1> SUFFICES ASSUME Init PROVE ScanInv
  OBVIOUS
<1>1. PICK a \in Addrs \cup {Null} :
        handle = [c \in Held |-> IF c = "wifi_time" THEN a ELSE Null]
  BY DEF Init
<1> QED BY <1>1 DEF Init, ScanInv, ScanExclusive, Handles

\* A request that sets something is refused during a scan.
LEMMA SetKeeps ==
  ASSUME ScanInv, NEW c, NEW cs, NEW conf, Set(c, cs, conf), UNCHANGED scannng
  PROVE  ScanInv'
<1>1. CASE Refused
  BY <1>1, SettledKeeps DEF Refused, Leave, ScanInv, Settled
<1>2. CASE ~scannng
  <2>1. ASSUME NEW a \in Allocs(events) \ {Null},
               handle' = Replaced(events, handle, a, c, cs).h
        PROVE  handle' \in Handles
    BY <2>1, AllocsType, ReplacedType DEF ScanInv
  <2>2. handle' \in Handles
    BY <1>2, <2>1, <1>1 DEF Set, Refused, Leave, ScanInv
  <2> QED BY <1>2, <2>2, SettledKeeps
<1> QED BY <1>1, <1>2 DEF Set

LEMMA KeepSurveyEffect ==
  ASSUME NEW evs, NEW h \in Handles, KeepSurvey(evs, h)
  PROVE  handle' \in Handles /\ \A c \in Settings : handle'[c] = h[c]
<1>1. CASE h["wifi_site"] # Null
  BY <1>1 DEF KeepSurvey, Leave
<1>2. CASE h["wifi_site"] = Null
  <2>1. Arm(evs, h, "wifi_site", "scan")
    BY <1>2 DEF KeepSurvey
  <2> QED BY <2>1, ArmEffect, HeldSettings
<1> QED BY <1>1, <1>2

LEMMA SurveyKeeps ==
  ASSUME ScanInv, NEW scan \in 0..2, Survey(scan)
  PROVE  ScanInv'
<1>h. handle \in Handles /\ "wifi_site" \in Held
  BY HeldSettings DEF ScanInv
<1> DEFINE kept == surveyed /\ scan # 2
<1>1. SurveyRead(kept) \/ SurveyStart(kept) \/ SurveyNone(kept)
  BY DEF Survey
<1> HIDE DEF kept
<1>2. CASE SurveyRead(kept)
  <2>1. scannng' = FALSE /\ (KeepSurvey(events, handle) \/ handle' = handle)
    BY <1>2 DEF SurveyRead, Leave
  <2>2. handle' \in Handles
    BY <1>h, <2>1, KeepSurveyEffect
  <2> QED BY <2>1, <2>2 DEF ScanInv, ScanExclusive
<1>3. CASE SurveyStart(kept)
  <2> DEFINE h    == Cleared("wifi_site")
             evs  == Cancelled(events, "wifi_site")
  <2>1. /\ h \in Handles /\ KeepSurvey(evs, h)
        /\ \A c \in Settings : h[c] = handle[c] /\ handle[c] = Null
    BY <1>3, <1>h, ClearedEffect, HeldSettings DEF SurveyStart, Pending, Settings
  <2> HIDE DEF h, evs
  <2>2. handle' \in Handles /\ \A c \in Settings : handle'[c] = Null
    BY <2>1, KeepSurveyEffect
  <2> QED BY <2>2 DEF ScanInv, ScanExclusive, Pending, Settings
<1>4. CASE SurveyNone(kept)
  BY <1>4, SettledKeeps DEF SurveyNone, Leave, ScanInv, Settled
<1> QED BY <1>1, <1>2, <1>3, <1>4

LEMMA MessageKeeps == ScanInv /\ Message => ScanInv'
<1> SUFFICES ASSUME ScanInv, Message PROVE ScanInv'
  OBVIOUS
<1>1. CASE GetConf
  BY <1>1, SettledKeeps DEF GetConf, Leave, scanVars, ScanInv, Settled
<1>2. CASE SetAp
  BY <1>2, SetKeeps DEF SetAp, scanVars
<1>3. CASE SetVapCall
  BY <1>3, SetKeeps DEF SetVapCall, scanVars
<1>4. CASE SetTime
  BY <1>4, SetKeeps DEF SetTime, scanVars
<1>5. CASE SetAcl
  BY <1>5, SetKeeps DEF SetAcl, scanVars
<1>6. CASE \E scan \in 0..2 : Survey(scan)
  BY <1>6, SurveyKeeps
<1> QED BY <1>1, <1>2, <1>3, <1>4, <1>5, <1>6 DEF Message

\* A callback that only forgets its own entry.
LEMMA ForgetKeeps ==
  ASSUME ScanInv, NEW c \in Held, handle' = Cleared(c), scannng' => scannng
  PROVE  ScanInv'
<1>1. handle' \in Handles /\ \A d \in Held : handle'[d] = handle[d] \/ handle'[d] = Null
  BY ClearedEffect DEF ScanInv
<1>2. Settled
  BY <1>1, HeldSettings DEF Settled
<1> QED BY <1>1, <1>2, SettledKeeps

\* wifi_up schedules the guest network only when no scan is under way.
LEMMA AfterUpEffect ==
  ASSUME NEW evs, NEW h \in Handles, NEW a \in Allocs(events)
  PROVE  /\ AfterUp(evs, h, a).h \in Handles
         /\ scannng => AfterUp(evs, h, a).h = h
BY SetVapEffect DEF AfterUp

LEMMA RetryEffect ==
  ASSUME NEW evs, NEW h \in Handles, Retry(evs, h)
  PROVE  handle' \in Handles /\ \A c \in Settings : handle'[c] = h[c]
BY ArmEffect, HeldSettings DEF Retry

\* wifi_time_cb, with its own static variable cleared first: in all of its branches
\* the guest network is scheduled by wifi_up or not at all.
LEMMA TimeKeeps ==
  ASSUME ScanInv, TimeCb
  PROVE  ScanInv'
<1> DEFINE h == Cleared("wifi_time")
<1>1. h \in Handles /\ \A c \in Settings : h[c] = handle[c]
  BY ClearedEffect, HeldSettings DEF ScanInv
<1>2. (TimeSwitch(h) \/ TimeHours(h)) /\ UNCHANGED scannng
  BY DEF TimeCb, scanVars
<1> HIDE DEF h
<1>3. \/ handle' = h
      \/ Retry(events, h)
      \/ \E a \in Allocs(events) :
           LET new == AfterUp(events, h, a) IN handle' = new.h \/ Retry(new.evs, new.h)
  BY <1>2 DEF TimeSwitch, TimeHours, Leave
<1>4. CASE handle' = h
  BY <1>1, <1>2, <1>4, SettledKeeps DEF Settled
<1>5. CASE Retry(events, h)
  <2>1. handle' \in Handles /\ Settled
    BY <1>1, <1>5, RetryEffect DEF Settled
  <2> QED BY <1>2, <2>1, SettledKeeps
<1>6. ASSUME NEW a \in Allocs(events),
             LET new == AfterUp(events, h, a) IN handle' = new.h \/ Retry(new.evs, new.h)
      PROVE  ScanInv'
  <2> DEFINE g   == AfterUp(events, h, a).h
             evs == AfterUp(events, h, a).evs
  <2>1. g \in Handles /\ (scannng => g = h)
    BY <1>1, AfterUpEffect
  <2>2. handle' = g \/ Retry(evs, g)
    BY <1>6
  <2> HIDE DEF g, evs
  <2>3. handle' \in Handles /\ \A c \in Settings : handle'[c] = g[c]
    BY <2>1, <2>2, RetryEffect
  <2>4. scannng => Settled
    BY <1>1, <2>1, <2>3 DEF Settled
  <2> QED BY <1>2, <2>3, <2>4, SettledKeeps
<1> QED BY <1>3, <1>4, <1>5, <1>6

LEMMA CallbackKeeps == ScanInv /\ Callback => ScanInv'
<1> SUFFICES ASSUME ScanInv, Callback PROVE ScanInv'
  OBVIOUS
<1>h. {"wifi_ap", "wifi_vap", "wifi_acl", "wifi_site"} \subseteq Held
  BY WifiRadioAssumption
<1>1. CASE ApCb
  <2>1. UNCHANGED scannng
    BY <1>1 DEF ApCb, wifiVars, scanVars
  <2>2. \/ handle' = Cleared("wifi_ap")
        \/ \E a \in Allocs(events) : handle' = SetVap(events, Cleared("wifi_ap"), a).h
    BY <1>1 DEF ApCb, Leave
  <2>3. Cleared("wifi_ap") \in Handles
    BY <1>h, ClearedEffect DEF ScanInv
  <2>4. handle' \in Handles /\ (scannng => handle' = Cleared("wifi_ap"))
    BY <2>2, <2>3, SetVapEffect
  <2>5. CASE scannng
    BY <1>h, <2>1, <2>4, <2>5, ForgetKeeps
  <2>6. CASE ~scannng
    BY <2>1, <2>4, <2>6, SettledKeeps
  <2> QED BY <2>5, <2>6
<1>2. CASE VapCb
  BY <1>h, <1>2, ForgetKeeps DEF VapCb, Leave, scanVars
<1>3. CASE AclCb
  BY <1>h, <1>3, ForgetKeeps DEF AclCb, Leave, wifiVars, scanVars
<1>4. CASE SurveyCb
  BY <1>h, <1>4, ForgetKeeps DEF SurveyCb, Leave
<1>5. CASE TimeCb
  BY <1>5, TimeKeeps
<1> QED BY <1>1, <1>2, <1>3, <1>4, <1>5 DEF Callback

\* The walk, an idle turn of the loop and the clock touch neither.
LEMMA LoopKeeps == ScanInv /\ (Loop \/ Idle \/ Tick \/ UNCHANGED vars) => ScanInv'
<1> SUFFICES ASSUME ScanInv, Loop \/ Idle \/ Tick \/ UNCHANGED vars PROVE ScanInv'
  OBVIOUS
<1>1. handle' = handle /\ UNCHANGED wifiVars
  <2>1. CASE Loop
    BY <2>1 DEF Loop, Walk, Skip, Release, WakeUp, OtherNetlink, Leave
  <2>2. CASE Idle
    BY <2>2 DEF Idle, OtherCall, OtherNetlink, Leave
  <2>3. CASE Tick
    BY <2>3 DEF Tick, SchedulerTick
  <2>4. CASE UNCHANGED vars
    BY <2>4 DEF vars, schedVars
  <2> QED BY <2>1, <2>2, <2>3, <2>4
<1> QED BY <1>1, SettledKeeps DEF ScanInv, Settled, wifiVars, scanVars

LEMMA ScanKeeps == ScanInv /\ [Next]_vars => ScanInv'
BY CallbackKeeps, MessageKeeps, LoopKeeps DEF Next

\* A scan and a setting of the radio never wait at the same time.
THEOREM Exclusion == Spec => []ScanExclusive
<1>1. ScanInv /\ [Next]_vars => ScanInv'
  BY ScanKeeps
<1>2. ScanInv => ScanExclusive
  BY DEF ScanInv
<1> QED BY <1>1, <1>2, ScanInit, PTL DEF Spec

----------------------------------------------------------------------------
(***************************************************************************)
(* The list.                                                               *)
(***************************************************************************)
Roomy ==
  /\ ~MallocMayFail /\ IsFiniteSet(Addrs)
  /\ Cardinality(Addrs) > Cardinality(Clients)

LEMMA ClientsAre ==
  /\ Held = Clients /\ IsFiniteSet(Clients)
  /\ {"wifi_ap", "wifi_vap", "wifi_time", "wifi_acl", "wifi_site"} \subseteq Held
  /\ Delay["set"] \in Int /\ Delay["retry"] \in Int /\ Delay["scan"] \in Int
<1>1. Delay["set"] \in Nat /\ Delay["retry"] \in Nat /\ Delay["scan"] \in Nat
  BY WifiRadioAssumption, SchedulerAssumption
<1>2. IsFiniteSet({"wifi_ap", "wifi_vap", "wifi_time", "wifi_acl", "wifi_site"})
  <2>1. IsFiniteSet({"wifi_ap"})
    BY FS_Singleton
  <2>2. IsFiniteSet({"wifi_ap"} \cup {"wifi_vap"})
    BY <2>1, FS_AddElement
  <2>3. IsFiniteSet({"wifi_ap"} \cup {"wifi_vap"} \cup {"wifi_time"})
    BY <2>2, FS_AddElement
  <2>4. IsFiniteSet({"wifi_ap"} \cup {"wifi_vap"} \cup {"wifi_time"} \cup {"wifi_acl"})
    BY <2>3, FS_AddElement
  <2>5. IsFiniteSet({"wifi_ap"} \cup {"wifi_vap"} \cup {"wifi_time"} \cup {"wifi_acl"}
                      \cup {"wifi_site"})
    BY <2>4, FS_AddElement
  <2>6. {"wifi_ap", "wifi_vap", "wifi_time", "wifi_acl", "wifi_site"}
          = {"wifi_ap"} \cup {"wifi_vap"} \cup {"wifi_time"} \cup {"wifi_acl"}
              \cup {"wifi_site"}
    OBVIOUS
  <2> QED BY <2>5, <2>6
<1> QED BY <1>1, <1>2, WifiRadioAssumption

\* There is memory for the entry of a client that has none.
LEMMA RoomFor ==
  ASSUME Roomy, NEW evs, NEW h, NEW x, Linked(evs, h, x), NEW c \in Held, h[c] = Null
  PROVE  Null \notin Allocs(evs)
<1>1. \A b \in Clients \ Held : OneEntry(evs, x, b)
  BY ClientsAre
<1> QED BY <1>1, ClientsAre, HeldRoom DEF Roomy

LEMMA ReplacedIs ==
  ASSUME NEW evs, NEW h, NEW a, NEW c, NEW cs
  PROVE  /\ Replaced(evs, h, a, c, cs).evs
              = Without(Scheduled(evs, a, c, Delay["set"]), EntriesOfAll(h, cs))
         /\ Replaced(evs, h, a, c, cs).h = Replace(h, cs, c, a)
BY DEF Replaced, EntriesOfAll, Replace

\* "wifi_c = tmp" with the old entries cancelled.
LEMMA ReplacedKeeps ==
  ASSUME NEW evs, NEW h, NEW x, Linked(evs, h, x), NEW cs \in SUBSET Held, NEW c \in cs,
         NEW a \in Allocs(evs), a # Null
  PROVE  LET new == Replaced(evs, h, a, c, cs) IN
         /\ Linked(new.evs, new.h, x)
         /\ new.h[c] = a /\ \A d \in Held \ cs : new.h[d] = h[d]
<1> DEFINE d    == Delay["set"]
           left == Without(Scheduled(evs, a, c, d), EntriesOfAll(h, cs))
           g    == Replace(h, cs, c, a)
<1>1. d \in Int
  BY ClientsAre
<1>2. Replaced(evs, h, a, c, cs).evs = left /\ Replaced(evs, h, a, c, cs).h = g
  BY ReplacedIs
<1> HIDE DEF d
<1>3. Linked(left, g, x)
  BY <1>1, ReplacedLinked
<1>4. g[c] = a /\ \A b \in Held \ cs : g[b] = h[b]
  BY DEF Replace
<1> HIDE DEF left, g
<1> QED BY <1>2, <1>3, <1>4

\* wifi_set_vap on the way.
LEMMA SetVapKeeps ==
  ASSUME NEW evs, NEW h, NEW x, Linked(evs, h, x), NEW a \in Allocs(evs)
  PROVE  LET new == SetVap(evs, h, a) IN
         /\ Linked(new.evs, new.h, x)
         /\ \A d \in Held \ {"wifi_vap"} : new.h[d] = h[d]
         /\ IF scannng \/ a = Null THEN new.evs = evs /\ new.h = h
            ELSE new.h["wifi_vap"] # Null
<1> DEFINE new == SetVap(evs, h, a)
<1>1. CASE scannng \/ a = Null
  <2>1. new = [evs |-> evs, h |-> h]
    BY <1>1 DEF SetVap
  <2>2. new.evs = evs /\ new.h = h
    BY <2>1
  <2> HIDE DEF new
  <2>3. SetVap(evs, h, a) = new
    BY DEF new
  <2> QED BY <1>1, <2>2, <2>3
<1>2. CASE ~(scannng \/ a = Null)
  <2> DEFINE c  == "wifi_vap"
             cs == {c}
             r  == Replaced(evs, h, a, c, cs)
  <2>1. new = r /\ a # Null
    BY <1>2 DEF SetVap
  <2>2. cs \in SUBSET Held /\ c \in cs
    BY ClientsAre
  <2>3. Linked(r.evs, r.h, x) /\ r.h[c] = a /\ \A d \in Held \ cs : r.h[d] = h[d]
    <3> HIDE DEF c, cs
    <3> QED BY <2>1, <2>2, ReplacedKeeps
  <2> HIDE DEF new, r
  <2>4. SetVap(evs, h, a) = new
    BY DEF new
  <2> QED BY <1>2, <2>1, <2>3, <2>4
<1> QED BY <1>1, <1>2

\* A request that sets something: it is refused, or the entry of c is new.
LEMMA SetLinked ==
  ASSUME LoopInv, Notified, NEW cs \in SUBSET Held, NEW c \in cs, NEW conf,
         Set(c, cs, conf)
  PROVE  /\ Linked(events', handle', Null)
         /\ \/ handle' = handle /\ cfg' = cfg
            \/ /\ handle'[c] # Null /\ cfg' = conf
               /\ \A d \in Held \ cs : handle'[d] = handle[d]
<1>1. Linked(events, handle, Null)
  BY CalledLinked
<1>2. CASE Refused
  BY <1>1, <1>2 DEF Refused, Leave
<1>3. ASSUME NEW a \in Allocs(events) \ {Null}, cfg' = conf,
             LET new == Replaced(events, handle, a, c, cs) IN Leave(new.evs, new.h)
      PROVE  /\ Linked(events', handle', Null)
             /\ handle'[c] # Null
             /\ \A d \in Held \ cs : handle'[d] = handle[d]
  <2> DEFINE new == Replaced(events, handle, a, c, cs)
  <2>1. events' = new.evs /\ handle' = new.h
    BY <1>3 DEF Leave
  <2>2. /\ Linked(new.evs, new.h, Null)
        /\ new.h[c] = a /\ \A d \in Held \ cs : new.h[d] = handle[d]
    BY <1>1, ReplacedKeeps
  <2> HIDE DEF new
  <2> QED BY <2>1, <2>2
<1> QED BY <1>2, <1>3 DEF Set

LEMMA RetryLinked ==
  ASSUME NEW evs, NEW h, NEW x, Linked(evs, h, x), h["wifi_time"] = Null, Retry(evs, h)
  PROVE  /\ Linked(events', handle', x)
         /\ \A d \in Held \ {"wifi_time"} : handle'[d] = h[d]
         /\ Roomy => handle'["wifi_time"] # Null
<1> DEFINE c    == "wifi_time"
           site == "retry"
<1>1. c \in Held /\ c \in Clients /\ Delay[site] \in Int /\ Arm(evs, h, c, site)
      /\ h[c] = Null
  BY ClientsAre DEF Retry
<1> HIDE DEF c, site
<1>2. Linked(events', handle', x)
  BY <1>1, ArmLinked
<1>3. PICK a \in Allocs(evs) : handle' = [h EXCEPT ![c] = a]
  BY <1>1 DEF Arm
<1>4. handle'[c] = a /\ \A d \in Held \ {c} : handle'[d] = h[d]
  BY <1>1, <1>3 DEF Linked
<1>5. Roomy => a # Null
  BY <1>1, RoomFor
<1> QED BY <1>2, <1>4, <1>5 DEF c

----------------------------------------------------------------------------
(***************************************************************************)
(* The radio and its guest network.  A client's copy of the settings       *)
(* agrees with them on the switch and on the guest network: the only other *)
(* writer is wifi_time_cb, which drops the hours.                          *)
(***************************************************************************)
RadioType ==
  /\ cfg \in Configs
  /\ lock \in BOOLEAN /\ guestUp \in BOOLEAN /\ scannng \in BOOLEAN

CopyAgrees ==
  copy # Null => copy \in Configs /\ copy.enable = cfg.enable /\ copy.vap = cfg.vap

RadioInv == RadioType /\ CopyAgrees /\ SwitchNotForgotten /\ GuestServed

WifiInv == LoopInv /\ ScanInv /\ RadioInv

\* Those whose static variables the two properties look at.
Watched == {"wifi_ap", "wifi_vap", "wifi_time"}

\* What a request or a callback does that leaves the radio alone.
LEMMA RadioStays ==
  ASSUME RadioInv, UNCHANGED <<confVars, radioVars>>, scannng' \in BOOLEAN,
         \A c \in Watched : handle'[c] = handle[c]
  PROVE  RadioInv'
<1>1. RadioType' /\ CopyAgrees'
  BY DEF RadioInv, RadioType, CopyAgrees, confVars, radioVars
<1>2. SwitchNotForgotten'
  BY DEF RadioInv, SwitchNotForgotten, Pending, Watched, confVars, radioVars
<1>3. GuestServed'
  BY DEF RadioInv, GuestServed, Pending, Watched, confVars, radioVars
<1> QED BY <1>1, <1>2, <1>3 DEF RadioInv

LEMMA WatchedHeld ==
  /\ Watched \subseteq Held /\ Watched \subseteq Held \ {"wifi_acl"}
  /\ Watched \subseteq Held \ {"wifi_site"}
BY ClientsAre DEF Watched

(***************************************************************************)
(* Requests.                                                               *)
(***************************************************************************)
LEMMA SetIs ==
  ASSUME LoopInv, Called, Answered, NEW cs \in SUBSET Held, NEW c \in cs, NEW conf,
         Set(c, cs, conf)
  PROVE  /\ LoopInv'
         /\ \/ handle' = handle /\ cfg' = cfg
            \/ /\ handle'[c] # Null /\ cfg' = conf
               /\ \A d \in Held \ cs : handle'[d] = handle[d]
<1>1. Notified
  BY DEF Called, Notified
<1>2. /\ Linked(events', handle', Null)
      /\ \/ handle' = handle /\ cfg' = cfg
         \/ /\ handle'[c] # Null /\ cfg' = conf
            /\ \A d \in Held \ cs : handle'[d] = handle[d]
  BY <1>1, SetLinked
<1> QED BY <1>2, AnsweredKeeps DEF ListInv

LEMMA RefusedStays ==
  ASSUME RadioInv, handle' = handle, cfg' = cfg, copy' = Null,
         UNCHANGED <<radioVars, scanVars>>
  PROVE  RadioInv'
<1>1. RadioType' /\ CopyAgrees'
  BY DEF RadioInv, RadioType, CopyAgrees, radioVars, scanVars
<1>2. SwitchNotForgotten' /\ GuestServed'
  BY DEF RadioInv, SwitchNotForgotten, GuestServed, Pending, radioVars
<1> QED BY <1>1, <1>2 DEF RadioInv

LEMMA SetApKeeps ==
  ASSUME WifiInv, SetAp
  PROVE  LoopInv' /\ RadioInv'
<1> DEFINE c  == "wifi_ap"
           cs == {"wifi_ap", "wifi_vap"}
<1>1. /\ cs \in SUBSET Held /\ c \in cs
      /\ LoopInv /\ Called /\ Answered /\ Set(c, cs, copy)
      /\ copy # Null /\ copy' = Null /\ UNCHANGED <<radioVars, scanVars>>
      /\ "wifi_time" \in Held \ cs
  BY ClientsAre DEF SetAp, WifiInv
<1> HIDE DEF c, cs
<1>2. LoopInv'
  BY <1>1, SetIs
<1>3. \/ handle' = handle /\ cfg' = cfg
      \/ /\ handle'[c] # Null /\ cfg' = copy
         /\ \A d \in Held \ cs : handle'[d] = handle[d]
  BY <1>1, SetIs
<1>4. CASE handle' = handle /\ cfg' = cfg
  BY <1>1, <1>2, <1>4, RefusedStays DEF WifiInv
<1>5. CASE /\ handle'[c] # Null /\ cfg' = copy
           /\ \A d \in Held \ cs : handle'[d] = handle[d]
  <2>1. /\ handle'["wifi_time"] = handle["wifi_time"] /\ cfg'.enable = cfg.enable
        /\ lock' = lock
    BY <1>1, <1>5 DEF WifiInv, RadioInv, CopyAgrees, radioVars
  <2>2. RadioType' /\ CopyAgrees'
    BY <1>1, <1>5 DEF WifiInv, RadioInv, RadioType, CopyAgrees, radioVars, scanVars
  <2>3. SwitchNotForgotten'
    BY <2>1 DEF WifiInv, RadioInv, SwitchNotForgotten, Pending
  <2>4. GuestServed'
    BY <1>5 DEF GuestServed, Pending, c
  <2> QED BY <1>2, <2>2, <2>3, <2>4 DEF RadioInv
<1> QED BY <1>3, <1>4, <1>5

LEMMA SetVapCallKeeps ==
  ASSUME WifiInv, SetVapCall
  PROVE  LoopInv' /\ RadioInv'
<1> DEFINE c  == "wifi_vap"
           cs == {c}
<1>1. PICK v \in Guests : Set(c, cs, [copy EXCEPT !.vap = v])
  BY DEF SetVapCall
<1> DEFINE conf == [copy EXCEPT !.vap = v]
<1>2. /\ cs \in SUBSET Held /\ c \in cs
      /\ LoopInv /\ Called /\ Answered /\ Set(c, cs, conf)
      /\ copy # Null /\ copy' = Null /\ UNCHANGED <<radioVars, scanVars>>
      /\ "wifi_time" \in Held \ cs
  BY <1>1, ClientsAre DEF SetVapCall, WifiInv
<1>3. copy \in Configs /\ copy.enable = cfg.enable
  BY <1>2 DEF WifiInv, RadioInv, CopyAgrees
<1>4. conf \in Configs /\ conf.enable = cfg.enable
  BY <1>3 DEF Configs
<1> HIDE DEF c, cs, conf
<1>5. LoopInv'
  BY <1>2, SetIs
<1>6. \/ handle' = handle /\ cfg' = cfg
      \/ /\ handle'[c] # Null /\ cfg' = conf
         /\ \A d \in Held \ cs : handle'[d] = handle[d]
  BY <1>2, SetIs
<1>7. CASE handle' = handle /\ cfg' = cfg
  BY <1>2, <1>5, <1>7, RefusedStays DEF WifiInv
<1>8. CASE /\ handle'[c] # Null /\ cfg' = conf
           /\ \A d \in Held \ cs : handle'[d] = handle[d]
  <2>1. /\ handle'["wifi_time"] = handle["wifi_time"] /\ cfg'.enable = cfg.enable
        /\ lock' = lock
    BY <1>2, <1>4, <1>8 DEF radioVars
  <2>2. RadioType' /\ CopyAgrees'
    BY <1>2, <1>4, <1>8 DEF WifiInv, RadioInv, RadioType, CopyAgrees, radioVars, scanVars
  <2>3. SwitchNotForgotten'
    BY <2>1 DEF WifiInv, RadioInv, SwitchNotForgotten, Pending
  <2>4. GuestServed'
    BY <1>8 DEF GuestServed, Pending, c
  <2> QED BY <1>5, <2>2, <2>3, <2>4 DEF RadioInv
<1> QED BY <1>6, <1>7, <1>8

LEMMA SetTimeKeeps ==
  ASSUME WifiInv, SetTime
  PROVE  LoopInv' /\ RadioInv'
<1> DEFINE c  == "wifi_time"
           cs == {c}
<1>1. PICK e \in BOOLEAN, t \in BOOLEAN :
        Set(c, cs, [copy EXCEPT !.enable = e, !.time_on = t])
  BY DEF SetTime
<1> DEFINE conf == [copy EXCEPT !.enable = e, !.time_on = t]
<1>2. /\ cs \in SUBSET Held /\ c \in cs
      /\ LoopInv /\ Called /\ Answered /\ Set(c, cs, conf)
      /\ copy # Null /\ copy' = Null /\ UNCHANGED <<radioVars, scanVars>>
      /\ {"wifi_ap", "wifi_vap"} \subseteq Held \ cs
  BY <1>1, ClientsAre DEF SetTime, WifiInv
<1>3. copy \in Configs /\ copy.vap = cfg.vap
  BY <1>2 DEF WifiInv, RadioInv, CopyAgrees
<1>4. conf \in Configs /\ conf.vap = cfg.vap
  BY <1>3 DEF Configs
<1> HIDE DEF c, cs, conf
<1>5. LoopInv'
  BY <1>2, SetIs
<1>6. \/ handle' = handle /\ cfg' = cfg
      \/ /\ handle'[c] # Null /\ cfg' = conf
         /\ \A d \in Held \ cs : handle'[d] = handle[d]
  BY <1>2, SetIs
<1>7. CASE handle' = handle /\ cfg' = cfg
  BY <1>2, <1>5, <1>7, RefusedStays DEF WifiInv
<1>8. CASE /\ handle'[c] # Null /\ cfg' = conf
           /\ \A d \in Held \ cs : handle'[d] = handle[d]
  <2>1. /\ handle'["wifi_ap"] = handle["wifi_ap"] /\ handle'["wifi_vap"] = handle["wifi_vap"]
        /\ cfg'.vap = cfg.vap /\ lock' = lock /\ guestUp' = guestUp
    BY <1>2, <1>4, <1>8 DEF radioVars
  <2>2. RadioType' /\ CopyAgrees'
    BY <1>2, <1>4, <1>8 DEF WifiInv, RadioInv, RadioType, CopyAgrees, radioVars, scanVars
  <2>3. SwitchNotForgotten'
    BY <1>8 DEF SwitchNotForgotten, Pending, c
  <2>4. GuestServed'
    BY <2>1 DEF WifiInv, RadioInv, GuestServed, Pending
  <2> QED BY <1>5, <2>2, <2>3, <2>4 DEF RadioInv
<1> QED BY <1>6, <1>7, <1>8

LEMMA SetAclKeeps ==
  ASSUME WifiInv, SetAcl
  PROVE  LoopInv' /\ RadioInv'
<1> DEFINE c  == "wifi_acl"
           cs == {c}
<1>1. /\ cs \in SUBSET Held /\ c \in cs
      /\ LoopInv /\ Called /\ Answered /\ Set(c, cs, cfg)
      /\ UNCHANGED <<copy, radioVars, scanVars>>
      /\ Watched \subseteq Held \ cs
  BY ClientsAre, WatchedHeld DEF SetAcl, WifiInv
<1> HIDE DEF c, cs
<1>2. LoopInv'
  BY <1>1, SetIs
<1>3. \/ handle' = handle /\ cfg' = cfg
      \/ /\ handle'[c] # Null /\ cfg' = cfg
         /\ \A d \in Held \ cs : handle'[d] = handle[d]
  BY <1>1, SetIs
<1>4. cfg' = cfg /\ \A d \in Watched : handle'[d] = handle[d]
  BY <1>1, <1>3
<1>5. UNCHANGED <<confVars, radioVars>> /\ scannng' \in BOOLEAN
  BY <1>1, <1>4 DEF confVars, scanVars, WifiInv, RadioInv, RadioType
<1> QED BY <1>2, <1>4, <1>5, RadioStays DEF WifiInv

LEMMA KeepSurveyLinked ==
  ASSUME NEW evs, NEW h, Linked(evs, h, Null), KeepSurvey(evs, h)
  PROVE  /\ Linked(events', handle', Null)
         /\ \A d \in Held \ {"wifi_site"} : handle'[d] = h[d]
<1> DEFINE c    == "wifi_site"
           site == "scan"
<1>1. c \in Clients /\ Delay[site] \in Int
  BY ClientsAre
<1>2. CASE h["wifi_site"] # Null
  BY <1>2 DEF KeepSurvey, Leave
<1>3. CASE h["wifi_site"] = Null
  <2>1. Arm(evs, h, c, site) /\ (c \in Held => h[c] = Null)
    BY <1>3 DEF KeepSurvey
  <2> HIDE DEF c, site
  <2>2. Linked(events', handle', Null)
    BY <1>1, <2>1, ArmLinked
  <2>3. \A d \in Held \ {c} : handle'[d] = h[d]
    BY <1>1, <2>1, ArmLinked
  <2> QED BY <2>2, <2>3 DEF c
<1> QED BY <1>2, <1>3

LEMMA SurveyStays ==
  ASSUME WifiInv, NEW scan \in 0..2, Survey(scan)
  PROVE  LoopInv' /\ RadioInv'
<1> DEFINE kept == surveyed /\ scan # 2
<1>1. /\ Called /\ Answered /\ UNCHANGED <<confVars, radioVars>>
      /\ SurveyRead(kept) \/ SurveyStart(kept) \/ SurveyNone(kept)
  BY DEF Survey
<1>2. Linked(events, handle, Null) /\ "wifi_site" \in Held
  BY <1>1, CalledLinked, ClientsAre DEF WifiInv, Called, Notified
<1> HIDE DEF kept
<1>3. /\ Linked(events', handle', Null)
      /\ \A d \in Held \ {"wifi_site"} : handle'[d] = handle[d]
      /\ scannng' \in BOOLEAN
  <2>1. CASE Leave(events, handle) /\ scannng' \in BOOLEAN
    BY <1>2, <2>1 DEF Leave
  <2>2. CASE KeepSurvey(events, handle) /\ scannng' \in BOOLEAN
    BY <1>2, <2>2, KeepSurveyLinked
  <2>3. CASE SurveyStart(kept)
    <3> DEFINE c    == "wifi_site"
               evs  == IF handle[c] = Null THEN events ELSE Dropped(events, handle[c])
               h    == [handle EXCEPT ![c] = Null]
    <3>1. KeepSurvey(evs, h) /\ scannng' = TRUE
      BY <2>3 DEF SurveyStart, Cancelled, Cleared
    <3>2. c \in Held
      BY <1>2
    <3>3. \A d \in Held \ {c} : h[d] = handle[d]
      BY <1>2 DEF Linked
    <3>4. Linked(evs, h, Null)
      <4> HIDE DEF c
      <4> QED BY <1>2, <3>2, CancelledLinked
    <3> HIDE DEF evs, h
    <3> QED BY <3>1, <3>3, <3>4, KeepSurveyLinked
  <2>4. SurveyRead(kept) => scannng' = FALSE /\ (Leave(events, handle) \/ KeepSurvey(events, handle))
    BY DEF SurveyRead
  <2>5. SurveyNone(kept) => Leave(events, handle) /\ scannng' \in BOOLEAN
    BY DEF SurveyNone, WifiInv, RadioInv, RadioType
  <2> QED BY <1>1, <2>1, <2>2, <2>3, <2>4, <2>5
<1>4. LoopInv'
  BY <1>1, <1>3, AnsweredKeeps DEF ListInv
<1>5. \A d \in Watched : handle'[d] = handle[d]
  BY <1>3, WatchedHeld
<1> QED BY <1>1, <1>3, <1>4, <1>5, RadioStays DEF WifiInv

LEMMA GetConfKeeps ==
  ASSUME WifiInv, GetConf
  PROVE  LoopInv' /\ RadioInv'
<1>1. Called /\ Answered /\ events' = events /\ handle' = handle
      /\ cfg' = cfg /\ copy' = cfg /\ lock' = lock /\ guestUp' = guestUp /\ scannng' = scannng
  BY DEF GetConf, Leave, radioVars, scanVars
<1>2. Linked(events', handle', Null)
  BY <1>1, CalledLinked DEF WifiInv, Called, Notified
<1>3. LoopInv'
  BY <1>1, <1>2, AnsweredKeeps DEF ListInv
<1>4. RadioType' /\ CopyAgrees'
  BY <1>1 DEF WifiInv, RadioInv, RadioType, CopyAgrees
<1>5. SwitchNotForgotten' /\ GuestServed'
  BY <1>1 DEF WifiInv, RadioInv, SwitchNotForgotten, GuestServed, Pending
<1> QED BY <1>3, <1>4, <1>5 DEF RadioInv

(***************************************************************************)
(* Callbacks.                                                              *)
(***************************************************************************)
\* The callback's own static variable is cleared first.
LEMMA BegunWith ==
  ASSUME WifiInv, NEW c \in Held, Due(c)
  PROVE  /\ Linked(events, Cleared(c), loop.cur)
         /\ handle[c] # Null /\ Cleared(c)[c] = Null
         /\ \A d \in Held \ {c} : Cleared(c)[d] = handle[d]
<1>1. /\ Linked(events, handle, Null)
      /\ Linked(events, Remember(handle, c, Null), loop.cur)
      /\ Current \in Items(events) /\ Current.addr = loop.cur /\ Current.cb = c
  BY DueLinked DEF WifiInv
<1>2. Cleared(c) = Remember(handle, c, Null)
  BY DEF Cleared, Remember
<1>3. Current.addr # Null
  BY <1>1, ItemsType, SchedulerAssumption DEF Linked, Entry
<1>4. handle[c] = Current.addr
  BY <1>1, <1>3 DEF Linked, HandleKnows
<1>5. handle \in [Held -> Addrs \cup {Null}]
  BY <1>1 DEF Linked
<1> QED BY <1>1, <1>2, <1>3, <1>4, <1>5 DEF Cleared

\* A callback that schedules nothing and leaves the radio alone.
LEMMA OnlyForgets ==
  ASSUME WifiInv, NEW c \in Held, Due(c), Ran, Leave(events, Cleared(c))
  PROVE  LoopInv' /\ \A d \in Held \ {c} : handle'[d] = handle[d]
<1>1. Linked(events', handle', loop.cur) /\ handle' = Cleared(c)
  BY BegunWith DEF Leave
<1>2. LoopInv'
  BY <1>1, RanLoop DEF WifiInv
<1>3. \A d \in Held \ {c} : handle'[d] = handle[d]
  BY <1>1, BegunWith
<1> QED BY <1>2, <1>3

LEMMA ApCbKeeps ==
  ASSUME Roomy, WifiInv, ApCb
  PROVE  LoopInv' /\ RadioInv'
<1> DEFINE c == "wifi_ap"
           h == Cleared(c)
<1>1. c \in Held /\ Due(c) /\ Ran /\ UNCHANGED wifiVars
      /\ "wifi_time" \in Held \ {c} /\ "wifi_time" \in Held \ {"wifi_vap"}
  BY ClientsAre DEF ApCb
<1>2. ~scannng
  <2>1. handle[c] # Null
    BY <1>1, BegunWith
  <2> QED BY <2>1 DEF WifiInv, ScanInv, ScanExclusive, Pending
<1>3. /\ IF lock \/ ~cfg.vap THEN Leave(events, h)
         ELSE \E a \in Allocs(events) :
                LET new == SetVap(events, h, a) IN Leave(new.evs, new.h)
  BY DEF ApCb
<1> HIDE DEF c
<1>4. Linked(events, h, loop.cur) /\ h[c] = Null /\ \A d \in Held \ {c} : h[d] = handle[d]
  BY <1>1, BegunWith
<1> HIDE DEF h
<1>5. /\ Linked(events', handle', loop.cur) /\ handle'["wifi_time"] = handle["wifi_time"]
      /\ lock \/ ~cfg.vap \/ handle'["wifi_vap"] # Null
  <2>1. CASE lock \/ ~cfg.vap
    BY <1>1, <1>3, <1>4, <2>1 DEF Leave
  <2>2. CASE ~(lock \/ ~cfg.vap)
    <3>1. PICK a \in Allocs(events) :
            LET new == SetVap(events, h, a) IN Leave(new.evs, new.h)
      BY <1>3, <2>2
    <3> DEFINE new == SetVap(events, h, a)
    <3>2. a # Null
      BY <1>1, <1>4, RoomFor
    <3>3. events' = new.evs /\ handle' = new.h
      BY <3>1 DEF Leave
    <3>4. /\ Linked(new.evs, new.h, loop.cur)
          /\ \A d \in Held \ {"wifi_vap"} : new.h[d] = h[d]
          /\ new.h["wifi_vap"] # Null
      BY <1>2, <1>4, <3>2, SetVapKeeps
    <3> HIDE DEF new
    <3> QED BY <1>1, <1>4, <3>3, <3>4
  <2> QED BY <2>1, <2>2
<1>6. LoopInv'
  BY <1>1, <1>5, RanLoop DEF WifiInv
<1>7. cfg' = cfg /\ copy' = copy /\ lock' = lock /\ guestUp' = guestUp /\ scannng' = scannng
  BY <1>1 DEF wifiVars, confVars, radioVars, scanVars
<1>8. RadioType' /\ CopyAgrees'
  BY <1>7 DEF WifiInv, RadioInv, RadioType, CopyAgrees
<1>9. SwitchNotForgotten'
  BY <1>5, <1>7 DEF WifiInv, RadioInv, SwitchNotForgotten, Pending
<1>10. GuestServed'
  BY <1>5, <1>7 DEF GuestServed, Pending
<1> QED BY <1>6, <1>8, <1>9, <1>10 DEF RadioInv

LEMMA VapCbKeeps ==
  ASSUME WifiInv, VapCb
  PROVE  LoopInv' /\ RadioInv'
<1> DEFINE c == "wifi_vap"
<1>1. c \in Held /\ Due(c) /\ Ran /\ Leave(events, Cleared(c)) /\ "wifi_time" \in Held \ {c}
  BY ClientsAre DEF VapCb
<1> HIDE DEF c
<1>2. LoopInv' /\ handle'["wifi_time"] = handle["wifi_time"]
  BY <1>1, OnlyForgets
<1>3. cfg' = cfg /\ copy' = copy /\ lock' = lock /\ scannng' = scannng
      /\ guestUp' = IF lock THEN guestUp ELSE cfg.vap
  BY DEF VapCb, confVars, scanVars
<1>4. RadioType' /\ CopyAgrees'
  <2>1. cfg.vap \in BOOLEAN
    BY WifiRadioAssumption DEF WifiInv, RadioInv, RadioType, Configs, Guests
  <2> QED BY <1>3, <2>1 DEF WifiInv, RadioInv, RadioType, CopyAgrees
<1>5. SwitchNotForgotten'
  BY <1>2, <1>3 DEF WifiInv, RadioInv, SwitchNotForgotten, Pending
<1>6. GuestServed'
  BY <1>3 DEF GuestServed, Pending
<1> QED BY <1>2, <1>4, <1>5, <1>6 DEF RadioInv

LEMMA AclCbKeeps ==
  ASSUME WifiInv, AclCb
  PROVE  LoopInv' /\ RadioInv'
<1> DEFINE c == "wifi_acl"
<1>1. c \in Held /\ Due(c) /\ Ran /\ Leave(events, Cleared(c)) /\ Watched \subseteq Held \ {c}
  BY ClientsAre, WatchedHeld DEF AclCb
<1> HIDE DEF c
<1>2. LoopInv' /\ \A d \in Watched : handle'[d] = handle[d]
  BY <1>1, OnlyForgets
<1>3. UNCHANGED <<confVars, radioVars>> /\ scannng' \in BOOLEAN
  BY DEF AclCb, wifiVars, confVars, radioVars, scanVars, WifiInv, RadioInv, RadioType
<1> QED BY <1>2, <1>3, RadioStays DEF WifiInv

LEMMA SurveyCbKeeps ==
  ASSUME WifiInv, SurveyCb
  PROVE  LoopInv' /\ RadioInv'
<1> DEFINE c == "wifi_site"
<1>1. c \in Held /\ Due(c) /\ Ran /\ Leave(events, Cleared(c)) /\ Watched \subseteq Held \ {c}
  BY ClientsAre, WatchedHeld DEF SurveyCb
<1> HIDE DEF c
<1>2. LoopInv' /\ \A d \in Watched : handle'[d] = handle[d]
  BY <1>1, OnlyForgets
<1>3. UNCHANGED <<confVars, radioVars>> /\ scannng' \in BOOLEAN
  BY DEF SurveyCb
<1> QED BY <1>2, <1>3, RadioStays DEF WifiInv

LEMMA AfterUpKeeps ==
  ASSUME Roomy, NEW evs, NEW h, NEW x, Linked(evs, h, x), h["wifi_time"] = Null,
         NEW a \in Allocs(evs)
  PROVE  LET new == AfterUp(evs, h, a) IN
         /\ Linked(new.evs, new.h, x)
         /\ \A d \in Held \ {"wifi_vap"} : new.h[d] = h[d]
         /\ IF lock /\ ~scannng /\ cfg.vap THEN new.h["wifi_vap"] # Null ELSE new.h = h
<1> DEFINE new == AfterUp(evs, h, a)
<1>1. CASE lock /\ ~scannng /\ cfg.vap
  <2>1. new = SetVap(evs, h, a)
    BY <1>1 DEF AfterUp
  <2>2. a # Null
    BY ClientsAre, RoomFor
  <2>3. LET r == SetVap(evs, h, a) IN
        /\ Linked(r.evs, r.h, x)
        /\ \A d \in Held \ {"wifi_vap"} : r.h[d] = h[d]
        /\ r.h["wifi_vap"] # Null
    BY <1>1, <2>2, SetVapKeeps
  <2> HIDE DEF new
  <2>4. AfterUp(evs, h, a) = new
    BY DEF new
  <2> QED BY <1>1, <2>1, <2>3, <2>4
<1>2. CASE ~(lock /\ ~scannng /\ cfg.vap)
  <2>1. new = [evs |-> evs, h |-> h]
    BY <1>2 DEF AfterUp
  <2>2. new.evs = evs /\ new.h = h
    BY <2>1
  <2> HIDE DEF new
  <2>3. AfterUp(evs, h, a) = new
    BY DEF new
  <2> QED BY <1>2, <2>2, <2>3
<1> QED BY <1>1, <1>2

\* What wifi_time_cb does when the radio is to be off, and when it is to be on.
WentDown ==
  /\ Down /\ cfg' = cfg
  /\ handle'["wifi_vap"] = handle["wifi_vap"]
  /\ handle'["wifi_time"] # Null \/ (~cfg.enable /\ ~scannng)

WentUp ==
  /\ Up /\ cfg.enable /\ cfg' \in {cfg, [cfg EXCEPT !.time_on = FALSE]}
  /\ handle'["wifi_time"] # Null \/ ~scannng
  /\ IF lock /\ ~scannng /\ cfg.vap THEN handle'["wifi_vap"] # Null
     ELSE handle'["wifi_vap"] = handle["wifi_vap"]

TimeDone ==
  /\ Linked(events', handle', loop.cur)
  /\ handle'["wifi_ap"] = handle["wifi_ap"]
  /\ WentDown \/ WentUp

LEMMA TimeDown ==
  ASSUME Roomy, NEW h, Linked(events, h, loop.cur), h["wifi_time"] = Null,
         \A d \in Held \ {"wifi_time"} : h[d] = handle[d],
         Down, cfg' = cfg,
         Retry(events, h) \/ (~cfg.enable /\ ~scannng /\ Leave(events, h))
  PROVE  TimeDone
<1>h. {"wifi_ap", "wifi_vap"} \subseteq Held \ {"wifi_time"}
  BY ClientsAre
<1>1. CASE Retry(events, h)
  <2>1. /\ Linked(events', handle', loop.cur) /\ handle'["wifi_time"] # Null
        /\ \A d \in Held \ {"wifi_time"} : handle'[d] = h[d]
    BY <1>1, RetryLinked
  <2> QED BY <1>h, <2>1 DEF TimeDone, WentDown
<1>2. CASE ~cfg.enable /\ ~scannng /\ Leave(events, h)
  BY <1>h, <1>2 DEF TimeDone, WentDown, Leave
<1> QED BY <1>1, <1>2

LEMMA TimeUp ==
  ASSUME Roomy, NEW h, Linked(events, h, loop.cur), h["wifi_time"] = Null,
         \A d \in Held \ {"wifi_time"} : h[d] = handle[d],
         Up, cfg.enable, cfg' \in {cfg, [cfg EXCEPT !.time_on = FALSE]},
         NEW a \in Allocs(events),
         LET new == AfterUp(events, h, a) IN
           Retry(new.evs, new.h) \/ (~scannng /\ Leave(new.evs, new.h))
  PROVE  TimeDone
<1>h. /\ {"wifi_ap", "wifi_vap"} \subseteq Held \ {"wifi_time"}
      /\ {"wifi_ap", "wifi_time"} \subseteq Held \ {"wifi_vap"}
  BY ClientsAre
<1> DEFINE new == AfterUp(events, h, a)
           on  == lock /\ ~scannng /\ cfg.vap
<1>1. /\ Linked(new.evs, new.h, loop.cur)
      /\ \A d \in Held \ {"wifi_vap"} : new.h[d] = h[d]
      /\ IF on THEN new.h["wifi_vap"] # Null ELSE new.h = h
  BY AfterUpKeeps
<1>2. Retry(new.evs, new.h) \/ (~scannng /\ Leave(new.evs, new.h))
  OBVIOUS
<1> DEFINE evs == new.evs
           g   == new.h
<1>3. /\ Linked(evs, g, loop.cur) /\ g["wifi_time"] = Null
      /\ g["wifi_ap"] = handle["wifi_ap"]
      /\ IF on THEN g["wifi_vap"] # Null ELSE g["wifi_vap"] = handle["wifi_vap"]
      /\ Retry(evs, g) \/ (~scannng /\ Leave(evs, g))
  <2> HIDE DEF new, on
  <2> QED BY <1>h, <1>1, <1>2
<1> HIDE DEF new, evs, g
<1>4. CASE Retry(evs, g)
  <2>1. /\ Linked(events', handle', loop.cur) /\ handle'["wifi_time"] # Null
        /\ \A d \in Held \ {"wifi_time"} : handle'[d] = g[d]
    BY <1>3, <1>4, RetryLinked
  <2> QED BY <1>h, <1>3, <2>1 DEF TimeDone, WentUp
<1>5. CASE ~scannng /\ Leave(evs, g)
  BY <1>3, <1>5 DEF TimeDone, WentUp, Leave
<1> QED BY <1>3, <1>4, <1>5

LEMMA TimeIs ==
  ASSUME Roomy, WifiInv, TimeCb
  PROVE  TimeDone
<1> DEFINE c == "wifi_time"
           h == Cleared(c)
<1>1. c \in Held /\ Due(c) /\ ((TimeSwitch(h) /\ UNCHANGED cfg) \/ TimeHours(h))
  BY ClientsAre DEF TimeCb
<1> HIDE DEF c
<1>2. Linked(events, h, loop.cur) /\ h[c] = Null /\ \A d \in Held \ {c} : h[d] = handle[d]
  BY <1>1, BegunWith
<1> HIDE DEF h
<1>3. h["wifi_time"] = Null /\ \A d \in Held \ {"wifi_time"} : h[d] = handle[d]
  BY <1>2 DEF c
<1>4. \/ /\ Down /\ cfg' = cfg
         /\ Retry(events, h) \/ (~cfg.enable /\ ~scannng /\ Leave(events, h))
      \/ /\ Up /\ cfg.enable /\ cfg' \in {cfg, [cfg EXCEPT !.time_on = FALSE]}
         /\ \E a \in Allocs(events) :
              LET new == AfterUp(events, h, a) IN
                Retry(new.evs, new.h) \/ (~scannng /\ Leave(new.evs, new.h))
  <2>1. CASE TimeSwitch(h) /\ cfg' = cfg
    BY <2>1 DEF TimeSwitch
  <2>2. CASE TimeHours(h)
    BY <2>2 DEF TimeHours
  <2> QED BY <1>1, <2>1, <2>2
<1> QED BY <1>2, <1>3, <1>4, TimeDown, TimeUp

LEMMA TimeCbKeeps ==
  ASSUME Roomy, WifiInv, TimeCb
  PROVE  LoopInv' /\ RadioInv'
<1>1. TimeDone /\ Due("wifi_time") /\ Ran /\ copy' = copy /\ scannng' = scannng
  BY TimeIs DEF TimeCb, scanVars
<1>2. LoopInv'
  BY <1>1, RanLoop DEF TimeDone, WifiInv
<1>r. RadioType /\ CopyAgrees /\ SwitchNotForgotten /\ GuestServed
  BY DEF WifiInv, RadioInv
<1>3. cfg' \in Configs /\ cfg'.enable = cfg.enable /\ cfg'.vap = cfg.vap
  <2>1. cfg' \in {cfg, [cfg EXCEPT !.time_on = FALSE]}
    BY <1>1 DEF TimeDone, WentDown, WentUp
  <2> QED BY <1>r, <2>1 DEF RadioType, Configs
<1>4. CASE WentDown
  <2>1. IF lock \/ scannng THEN lock' = lock /\ guestUp' = guestUp
        ELSE lock' = TRUE /\ guestUp' = (guestUp /\ ~cfg.vap)
    BY <1>4 DEF WentDown, Down, radioVars
  <2>2. lock' \in BOOLEAN /\ guestUp' \in BOOLEAN
    BY <1>r, <2>1 DEF RadioType
  <2>3. RadioType' /\ CopyAgrees'
    BY <1>1, <1>3, <1>r, <2>2 DEF RadioType, CopyAgrees
  <2>4. SwitchNotForgotten'
    <3>1. CASE handle'["wifi_time"] # Null
      BY <3>1 DEF SwitchNotForgotten, Pending
    <3>2. CASE ~cfg.enable /\ ~scannng
      <4>1. lock' = TRUE
        BY <2>1, <3>2, <1>r DEF RadioType
      <4> QED BY <1>3, <3>2, <4>1 DEF SwitchNotForgotten
    <3> QED BY <1>4, <3>1, <3>2 DEF WentDown
  <2>5. GuestServed'
    BY <1>1, <1>3, <1>4, <1>r, <2>1 DEF GuestServed, Pending, TimeDone, WentDown
  <2> QED BY <1>2, <2>3, <2>4, <2>5 DEF RadioInv
<1>5. CASE WentUp
  <2>1. lock' = (lock /\ scannng) /\ guestUp' = guestUp /\ cfg.enable
    BY <1>5 DEF WentUp, Up
  <2>2. RadioType' /\ CopyAgrees'
    BY <1>1, <1>3, <1>r, <2>1 DEF RadioType, CopyAgrees
  <2>3. SwitchNotForgotten'
    BY <1>3, <1>5, <2>1 DEF SwitchNotForgotten, Pending, WentUp
  <2>4. GuestServed'
    BY <1>1, <1>3, <1>5, <1>r, <2>1 DEF GuestServed, Pending, TimeDone, WentUp
  <2> QED BY <1>2, <2>2, <2>3, <2>4 DEF RadioInv
<1> QED BY <1>1, <1>4, <1>5 DEF TimeDone

(***************************************************************************)
(* The loop, and all of the steps.                                         *)
(***************************************************************************)
LEMMA LoopStays ==
  ASSUME WifiInv, Loop \/ Idle \/ Tick \/ UNCHANGED vars
  PROVE  LoopInv' /\ RadioInv'
<1>1. handle' = handle /\ UNCHANGED wifiVars
  <2>1. CASE Loop
    BY <2>1 DEF Loop, Walk, Skip, Release, WakeUp, OtherNetlink, Leave
  <2>2. CASE Idle
    BY <2>2 DEF Idle, OtherCall, OtherNetlink, Leave
  <2>3. CASE Tick
    BY <2>3 DEF Tick, SchedulerTick
  <2>4. CASE UNCHANGED vars
    BY <2>4 DEF vars, schedVars
  <2> QED BY <2>1, <2>2, <2>3, <2>4
<1>2. LoopInv'
  <2>1. CASE Loop \/ Idle \/ Tick
    BY <2>1, WalkLoop DEF WifiInv, Loop, Idle, Tick
  <2>2. CASE UNCHANGED vars
    BY <2>2 DEF vars, schedVars, WifiInv, LoopInv, LoopType, Exempt
  <2> QED BY <2>1, <2>2
<1>3. UNCHANGED <<confVars, radioVars>> /\ scannng' \in BOOLEAN
  BY <1>1 DEF wifiVars, scanVars, WifiInv, RadioInv, RadioType
<1> QED BY <1>1, <1>2, <1>3, RadioStays DEF WifiInv

LEMMA WifiKeeps ==
  ASSUME Roomy
  PROVE  WifiInv /\ [Next]_vars => WifiInv'
<1> SUFFICES ASSUME WifiInv, [Next]_vars PROVE WifiInv'
  OBVIOUS
<1>1. ScanInv'
  BY ScanKeeps DEF WifiInv
<1>2. LoopInv' /\ RadioInv'
  <2>1. CASE Callback
    BY <2>1, ApCbKeeps, VapCbKeeps, AclCbKeeps, SurveyCbKeeps, TimeCbKeeps DEF Callback
  <2>2. CASE Message
    BY <2>2, GetConfKeeps, SetApKeeps, SetVapCallKeeps, SetTimeKeeps, SetAclKeeps, SurveyStays
       DEF Message
  <2>3. CASE Loop \/ Idle \/ Tick \/ UNCHANGED vars
    BY <2>3, LoopStays
  <2> QED BY <2>1, <2>2, <2>3 DEF Next
<1> QED BY <1>1, <1>2 DEF WifiInv

\* The timer is there when the radio has hours, and otherwise the radio is as its
\* switch says.
LEMMA WifiInit == Init => WifiInv
<1> SUFFICES ASSUME Init PROVE WifiInv
  OBVIOUS
<1> DEFINE c  == "wifi_time"
           d  == Delay["retry"]
           h0 == [b \in Held |-> Null]
<1>1. PICK a \in IF cfg.enable /\ cfg.time_on THEN Addrs ELSE {Null} :
        /\ events = Scheduled(<<>>, a, c, d)
        /\ handle = [b \in Held |-> IF b = c THEN a ELSE Null]
        /\ loop = IF a = Null THEN Selecting ELSE LookAt(events, a)
  BY DEF Init
<1>2. c \in Held /\ c \in Clients /\ d \in Int /\ h0[c] = Null
  BY ClientsAre
<1>3. handle = [h0 EXCEPT ![c] = a] /\ handle[c] = a
  BY <1>1, <1>2
<1>4. Linked(<<>>, h0, Null) /\ Addresses(<<>>) = {}
  BY EmptyLinked
<1>5. LoopInv
  <2>1. CASE a = Null
    <3>1. events = <<>> /\ handle = h0 /\ loop = Selecting
      BY <1>1, <1>3, <2>1 DEF Scheduled
    <3>2. LoopType /\ loop.at = "select"
      BY <3>1 DEF Selecting, LoopType, Phases, Cursors
    <3> QED BY <1>4, <3>1, <3>2 DEF LoopInv, Exempt
  <2>2. CASE a # Null
    <3>1. a \in Allocs(<<>>) /\ handle = Remember(h0, c, a)
      BY <1>1, <1>2, <1>3, <1>4, <2>2 DEF Allocs, Remember
    <3>2. Linked(events, handle, Null)
      <4> HIDE DEF c, d, h0
      <4> QED BY <1>1, <1>2, <1>4, <3>1, ScheduledLinked
    <3>3. List(events) /\ a \in Cursors
      BY <1>1, <2>2, <3>2 DEF Linked, Cursors
    <3>4. LoopType /\ loop.at = "check"
      BY <1>1, <2>2, <3>3, LookAtType DEF LoopType
    <3> QED BY <3>2, <3>4 DEF LoopInv, Exempt
  <2> QED BY <2>1, <2>2
<1>6. RadioType /\ CopyAgrees /\ GuestServed
  <2>1. cfg \in Configs /\ copy = Null /\ guestUp = (cfg.vap /\ ~lock) /\ scannng = FALSE
    BY DEF Init
  <2>2. lock \in BOOLEAN
    BY DEF Init
  <2> QED BY <2>1, <2>2 DEF RadioType, CopyAgrees, GuestServed
<1>7. SwitchNotForgotten
  <2>1. CASE cfg.enable /\ cfg.time_on
    <3>1. a # Null
      BY <1>1, <2>1, SchedulerAssumption
    <3> QED BY <1>3, <3>1 DEF SwitchNotForgotten, Pending
  <2>2. CASE ~(cfg.enable /\ cfg.time_on)
    <3>1. lock = ~cfg.enable
      BY <2>2 DEF Init, Configs
    <3> QED BY <3>1 DEF SwitchNotForgotten
  <2> QED BY <2>1, <2>2
<1> QED BY <1>5, <1>6, <1>7, ScanInit DEF WifiInv, RadioInv

\* With memory for the timers, a switch of the radio that comes up against a scan or
\* against the hours is not forgotten.
THEOREM SwitchHolds ==
  ASSUME ~MallocMayFail, IsFiniteSet(Addrs), Cardinality(Addrs) > Cardinality(Clients)
  PROVE  Spec => []SwitchNotForgotten
<1>1. Roomy
  BY DEF Roomy
<1>2. WifiInv => SwitchNotForgotten
  BY DEF WifiInv, RadioInv
<1> QED BY <1>1, <1>2, WifiInit, WifiKeeps, PTL DEF Spec

\* With memory for the timers, a guest network that is switched on is up when the
\* radio is up and no setting is waiting.
THEOREM GuestHolds ==
  ASSUME ~MallocMayFail, IsFiniteSet(Addrs), Cardinality(Addrs) > Cardinality(Clients)
  PROVE  Spec => []GuestServed
<1>1. Roomy
  BY DEF Roomy
<1>2. WifiInv => GuestServed
  BY DEF WifiInv, RadioInv
<1> QED BY <1>1, <1>2, WifiInit, WifiKeeps, PTL DEF Spec
=============================================================================
