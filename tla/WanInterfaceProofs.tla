------------------------ MODULE WanInterfaceProofs ------------------------
(***************************************************************************)
(* The WAN interface for any number of processes and messages, and for any *)
(* forks that fail: there is one client at a time, somebody always works   *)
(* on an address, a static interface keeps its own, and the messages,      *)
(* those of the dead among them, leave the interface with the address of   *)
(* the client that lives.  What a failed fork or a late restart of pppd    *)
(* breaks is good again when if_down has killed all there is.              *)
(***************************************************************************)
EXTENDS WanInterface, SequenceTheorems, TLAPS

Runs  == [Procs -> {"off", "new", "wait", "bound"}]
Progs == [wisp : {"off", "down", "up", "leaving"}, w3g : BOOLEAN]
Wrongs == {"kill", "start", "redial"}
Addrs == Procs \cup {"gone", "static", "nobody"}
Links == [cable : BOOLEAN, ifstats : BOOLEAN]

\* A helper program runs only with its hander.
HelperRules ==
  "kill" \notin trouble =>
    /\ prog.wisp # "off" => hander = "wisp"
    /\ prog.w3g => hander = "3g"

\* Only a wisp that could not be started leaves the mode as it was.
Unsaved == mode # hander => hander = "wisp" /\ (mode # "dhcp" => "start" \in trouble)

\* Inductive: with HelperRules no helper undoes another hander's work.
WanInv == TypeOK /\ HelperRules /\ Unsaved /\ StaticIsSafe /\ KeepsTrying

\* A pppd that is about to be started, or a udhcpc that wisp is about to start, will
\* be the only client.
Pending ==
  "kill" \notin trouble =>
    /\ redial # "no" => "redial" \notin trouble
    /\ redial = "due" => \A i \in Ppp : ~Alive(i)
    /\ hander = "wisp" /\ prog.wisp # "up" => \A i \in Dhcp : ~Alive(i)
    /\ mode # hander /\ mode # "dhcp" => prog.wisp = "off"

DueInPppoe == redial = "due" => mode = "pppoe"

ClientInv == SingleClient /\ Pending /\ DueInPppoe

----------------------------------------------------------------------------
(***************************************************************************)
(* The operators.                                                          *)
(***************************************************************************)
LEMMA Kinds ==
  /\ Dhcp \cap Ppp = {} /\ Procs = Dhcp \cup Ppp
  /\ \A w \in {"wisp", "gone", "static", "nobody"} : w \notin Procs
BY WanInterfaceAssumption DEF Procs

LEMMA StartedEffect ==
  ASSUME NEW r \in Runs, NEW ps \in SUBSET Procs, NEW state \in {"new", "wait"},
         NEW q \in Started(r, ps, state)
  PROVE  /\ q \in Runs
         /\ \E i \in ps : /\ r[i] = "off" /\ q[i] = state
                          /\ \A j \in Procs : j # i => q[j] = r[j]
<1>1. PICK i \in ps : r[i] = "off" /\ q = [r EXCEPT ![i] = state]
  BY DEF Started
<1> QED BY <1>1 DEF Runs

LEMMA KilledEffect ==
  ASSUME NEW r \in Runs, NEW ps
  PROVE  /\ Killed(r, ps) \in Runs
         /\ \A i \in Procs : Killed(r, ps)[i] = IF i \in ps THEN "off" ELSE r[i]
BY DEF Killed, Runs

\* Killing a sender leaves its messages.
LEMMA OrphanedType ==
  ASSUME NEW q \in Seq(Message), NEW ps \in SUBSET Procs
  PROVE  Orphaned(q, ps) \in Seq(Message) /\ Len(Orphaned(q, ps)) = Len(q)
<1>1. ASSUME NEW k \in 1..Len(q)
      PROVE  [act |-> q[k].act, from |-> Owner(q[k].from, ps)] \in Message
  <2>1. q[k] \in Message
    BY ElementOfSeq
  <2>2. "wisp" \notin Procs
    BY WanInterfaceAssumption DEF Procs
  <2>3. CASE q[k] \in [act : {"up"}, from : Senders \ {"wisp"}]
    BY <2>2, <2>3 DEF Message, Senders, Owner
  <2>4. CASE q[k] \in [act : {"down"}, from : Senders]
    BY <2>2, <2>4 DEF Message, Senders, Owner
  <2> QED BY <2>1, <2>3, <2>4 DEF Message
<1>2. Len(q) \in Nat
  BY LenProperties
<1>3. Orphaned(q, ps) \in [1..Len(q) -> Message]
  BY <1>1 DEF Orphaned
<1> QED BY <1>2, <1>3, IsASeq, LenProperties

LEMMA KilledByType == ASSUME NEW h PROVE KilledBy(h) \in SUBSET Procs
BY DEF KilledBy, Procs

LEMMA PostType ==
  ASSUME TypeOK, NEW m \in Message
  PROVE  Append(inbox, m) \in Seq(Message)
BY AppendProperties DEF TypeOK

\* Taking a message leaves messages.
LEMMA TakeType ==
  ASSUME TypeOK, inbox # <<>>
  PROVE  Tail(inbox) \in Seq(Message) /\ Head(inbox) \in Message
BY HeadTailProperties DEF TypeOK

LEMMA UpRunsEffect ==
  ASSUME NEW r \in Runs, NEW h \in Modes \cup {"none"}, NEW q \in UpRuns(h, r)
  PROVE  /\ q \in Runs
         /\ h \notin {"dhcp", "pppoe"} => q = r
         /\ h = "dhcp" =>
              \E i \in Dhcp : q[i] # "off" /\ \A j \in Procs : j # i => q[j] = r[j]
         /\ h = "pppoe" =>
              \E i \in Ppp : q[i] # "off" /\ \A j \in Procs : j # i => q[j] = r[j]
<1>1. CASE h = "dhcp"
  <2>1. q \in Started(r, Dhcp, "new")
    BY <1>1 DEF UpRuns
  <2>2. /\ q \in Runs
        /\ \E i \in Dhcp : /\ r[i] = "off" /\ q[i] = "new"
                           /\ \A j \in Procs : j # i => q[j] = r[j]
    BY <2>1, StartedEffect DEF Procs
  <2> QED BY <1>1, <2>2
<1>2. CASE h = "pppoe"
  <2>1. q \in Started(r, Ppp, "wait")
    BY <1>2 DEF UpRuns
  <2>2. /\ q \in Runs
        /\ \E i \in Ppp : /\ r[i] = "off" /\ q[i] = "wait"
                          /\ \A j \in Procs : j # i => q[j] = r[j]
    BY <2>1, StartedEffect DEF Procs
  <2> QED BY <1>2, <2>2
<1>3. CASE h \notin {"dhcp", "pppoe"}
  <2>1. q = r
    BY <1>3 DEF UpRuns
  <2> QED BY <1>3, <2>1
<1> QED BY <1>1, <1>2, <1>3

\* What is no trouble any more, and what is left when nothing should be.
LEMMA LastingEffect ==
  ASSUME TypeOK, NEW r \in Runs, NEW p \in Progs, NEW ps \in SUBSET Procs
  PROVE  LET t == Lasting(r, p, ps)
             clean == p.wisp = "off" /\ ~p.w3g /\ \A i \in Procs : r[i] = "off"
         IN  /\ t \subseteq Wrongs
             /\ "start" \in trouble <=> "start" \in t
             /\ "redial" \in t => "redial" \in trouble
             /\ clean => "kill" \notin t /\ "redial" \notin t
             /\ ~clean /\ "kill" \notin t =>
                  /\ "kill" \notin trouble /\ ("redial" \in t <=> "redial" \in trouble)
                  /\ \A i \in ps : r[i] = "off"
                  /\ hander = "wisp" => p.wisp = "off"
                  /\ hander = "3g" => ~p.w3g
<1>1. trouble \subseteq Wrongs
  BY DEF TypeOK, Wrongs
<1>2. Running(r) = {} <=> \A i \in Procs : r[i] = "off"
  BY DEF Running
<1>3. ps \cap Running(r) = {} <=> \A i \in ps : r[i] = "off"
  BY DEF Running
<1> QED BY <1>1, <1>2, <1>3 DEF Lasting, Wrongs

LEMMA DownTypes ==
  ASSUME TypeOK, NEW fails
  PROVE  /\ DownRuns(fails) \in Runs /\ DownProg(fails) \in Progs
         /\ Struck(fails) \in SUBSET Procs /\ KilledBy(hander) \in SUBSET Procs
         /\ \A i \in Procs : DownRuns(fails)[i] # "off" => run[i] # "off"
         /\ \A i \in Procs : i \in Struck(fails) => DownRuns(fails)[i] = "off"
         /\ \A i \in Procs : i \notin Struck(fails) => DownRuns(fails)[i] = run[i]
         /\ DownProg(fails).wisp \in {"off", prog.wisp}
         /\ DownProg(fails).w3g => prog.w3g
<1>1. run \in Runs /\ prog \in Progs
  BY DEF TypeOK, Runs, Progs
<1>2. KilledBy(hander) \in SUBSET Procs
  BY DEF KilledBy, Procs
<1>3. Struck(fails) \in SUBSET Procs
  BY <1>2 DEF Struck
<1>4. /\ DownRuns(fails) \in Runs
      /\ \A i \in Procs : DownRuns(fails)[i] = IF i \in Struck(fails) THEN "off" ELSE run[i]
  BY <1>1, KilledEffect DEF DownRuns
<1>5. /\ DownProg(fails) \in Progs /\ DownProg(fails).wisp \in {"off", prog.wisp}
      /\ DownProg(fails).w3g => prog.w3g
  BY <1>1 DEF DownProg, Progs
<1> QED BY <1>2, <1>3, <1>4, <1>5

\* if_down and if_up: what is of the right kind, and what is started.
LEMMA DownUpEffect ==
  ASSUME TypeOK, NEW h \in Modes \cup {"none"}, NEW fails, DownUp(h, fails)
  PROVE  /\ run' \in Runs /\ prog' \in Progs /\ trouble' \subseteq Wrongs
         /\ inbox' \in Seq(Message)
         /\ status' \in {"up", "down"} /\ failed' \in BOOLEAN
         /\ addr' \in {"static", "nobody"}
         /\ status' = "up" => h = "static" /\ addr' = "static"
         /\ h = "static" => failed' \/ status' = "up"
         /\ "start" \in trouble' <=> "start" \in fails
         /\ "start" \notin fails =>
              /\ h = "dhcp" => \E i \in Dhcp : run'[i] # "off"
              /\ h = "pppoe" => \E i \in Ppp : run'[i] # "off"
              /\ h = "wisp" => prog'.wisp # "off"
              /\ h = "3g" => prog'.w3g
<1> DEFINE r == DownRuns(fails)
           p == DownProg(fails)
           t == Lasting(r, p, KilledBy(hander))
<1>1. r \in Runs /\ p \in Progs /\ KilledBy(hander) \in SUBSET Procs
      /\ Struck(fails) \in SUBSET Procs
  BY DownTypes
<1>2. t \subseteq Wrongs
  <2> HIDE DEF r, p
  <2> QED BY <1>1, LastingEffect
<1>3. /\ run' \in IF "start" \in fails THEN {r} ELSE UpRuns(h, r)
      /\ prog' = UpProg(h, p, fails)
      /\ trouble' = (t \ {"start"}) \cup (fails \cap {"start"})
      /\ inbox' = Orphaned(inbox, Struck(fails))
  BY DEF DownUp
<1>4. /\ status' \in {"up", "down"} /\ failed' \in BOOLEAN
      /\ addr' \in {"static", "nobody"}
      /\ status' = "up" => h = "static" /\ addr' = "static"
      /\ h = "static" => failed' \/ status' = "up"
  BY DEF DownUp, UpStatic
<1>5. inbox' \in Seq(Message)
  BY <1>1, <1>3, OrphanedType DEF TypeOK
<1> HIDE DEF r, p, t
<1>6. trouble' \subseteq Wrongs /\ ("start" \in trouble' <=> "start" \in fails)
  BY <1>2, <1>3 DEF Wrongs
<1>7. /\ prog' \in Progs
      /\ "start" \notin fails => (h = "wisp" => prog'.wisp # "off") /\ (h = "3g" => prog'.w3g)
  BY <1>1, <1>3 DEF UpProg, Progs
<1>8. /\ run' \in Runs
      /\ "start" \notin fails =>
           /\ h = "dhcp" => \E i \in Dhcp : run'[i] # "off"
           /\ h = "pppoe" => \E i \in Ppp : run'[i] # "off"
  <2>1. CASE "start" \in fails
    BY <1>1, <1>3, <2>1
  <2>2. CASE "start" \notin fails
    <3>1. run' \in UpRuns(h, r)
      BY <1>3, <2>2
    <3> QED BY <1>1, <3>1, UpRunsEffect
  <2> QED BY <2>1, <2>2
<1> QED BY <1>4, <1>5, <1>6, <1>7, <1>8

\* When no client or helper has been left alive, helpers run only with the new hander.
LEMMA DownUpHelpers ==
  ASSUME TypeOK, HelperRules, NEW h \in Modes \cup {"none"}, NEW fails, DownUp(h, fails),
         "kill" \notin trouble'
  PROVE  /\ prog'.wisp # "off" => h = "wisp"
         /\ prog'.w3g => h = "3g"
         /\ "start" \in fails => prog'.wisp = "off"
<1> DEFINE r == DownRuns(fails)
           p == DownProg(fails)
           t == Lasting(r, p, KilledBy(hander))
<1>1. r \in Runs /\ p \in Progs /\ KilledBy(hander) \in SUBSET Procs
      /\ p.wisp \in {"off", prog.wisp} /\ (p.w3g => prog.w3g)
  BY DownTypes
<1>2. prog' = UpProg(h, p, fails) /\ "kill" \notin t
  BY DEF DownUp
<1>3. p.wisp = "off" /\ ~p.w3g
  <2> HIDE DEF r, p
  <2>1. \/ p.wisp = "off" /\ ~p.w3g
        \/ /\ "kill" \notin trouble
           /\ hander = "wisp" => p.wisp = "off"
           /\ hander = "3g" => ~p.w3g
    BY <1>1, <1>2, LastingEffect
  <2> QED BY <1>1, <2>1 DEF HelperRules
<1> HIDE DEF r, p
<1> QED BY <1>2, <1>3 DEF UpProg

----------------------------------------------------------------------------
(***************************************************************************)
(* WanInv.                                                                 *)
(***************************************************************************)
LEMMA TypeFacts ==
  ASSUME TypeOK
  PROVE  /\ mode \in Modes /\ hander \in Modes
         /\ run \in Runs /\ prog \in Progs /\ link \in Links
         /\ auto \in {"off", "try", "back"} /\ redial \in {"no", "due", "stale"}
         /\ trouble \subseteq Wrongs /\ inbox \in Seq(Message)
         /\ status \in {"none", "up", "down"} /\ failed \in BOOLEAN /\ addr \in Addrs
BY DEF TypeOK, Runs, Progs, Links, Wrongs, Addrs

\* The same of the next state, the other way round.
LEMMA TypeAnew ==
  ASSUME mode' \in Modes, hander' \in Modes,
         run' \in Runs, prog' \in Progs, link' \in Links,
         auto' \in {"off", "try", "back"}, redial' \in {"no", "due", "stale"},
         trouble' \subseteq Wrongs, inbox' \in Seq(Message),
         status' \in {"none", "up", "down"}, failed' \in BOOLEAN, addr' \in Addrs
  PROVE  TypeOK'
BY DEF TypeOK, Runs, Progs, Links, Wrongs, Addrs

LEMMA WanInit == Init => WanInv
<1> SUFFICES ASSUME Init PROVE WanInv
  OBVIOUS
<1> DEFINE off  == [i \in Procs |-> "off"]
           none == [wisp |-> "off", w3g |-> FALSE]
<1>1. /\ mode \in Modes /\ hander = mode /\ inbox = <<>> /\ redial = "no"
      /\ auto \in {"off", "try"}
  BY DEF Init
<1>2. /\ status \in {"none", "up"} /\ addr \in {"static", "nobody"} /\ failed \in BOOLEAN
      /\ status = "up" => mode = "static" /\ addr = "static"
      /\ mode = "static" => failed \/ status = "up"
  BY DEF Init
<1>3. off \in Runs /\ none \in Progs /\ none.wisp = "off" /\ ~none.w3g
  BY DEF Runs, Progs
<1>4. PICK fails \in SUBSET (Forks(mode) \cap {"start"}) :
        /\ run \in IF "start" \in fails THEN {off} ELSE UpRuns(mode, off)
        /\ prog = UpProg(mode, none, fails)
        /\ trouble = fails
  BY DEF Init
<1>5. link \in Links
  <2>1. PICK b \in BOOLEAN : link = [cable |-> b, ifstats |-> b]
    BY DEF Init
  <2> QED BY <2>1 DEF Links
<1> HIDE DEF off, none
<1>6. trouble \subseteq {"start"}
  BY <1>4
<1>7. /\ run \in Runs
      /\ "start" \notin trouble =>
           /\ mode = "dhcp" => \E i \in Dhcp : run[i] # "off"
           /\ mode = "pppoe" => \E i \in Ppp : run[i] # "off"
  <2>1. CASE "start" \in fails
    BY <1>3, <1>4, <2>1
  <2>2. CASE "start" \notin fails
    <3>1. run \in UpRuns(mode, off)
      BY <1>4, <2>2
    <3> QED BY <1>1, <1>3, <3>1, UpRunsEffect
  <2> QED BY <2>1, <2>2
<1>8. /\ prog \in Progs
      /\ prog.wisp # "off" => mode = "wisp"
      /\ prog.w3g => mode = "3g"
      /\ "start" \notin trouble =>
           /\ mode = "wisp" => prog.wisp # "off"
           /\ mode = "3g" => prog.w3g
  BY <1>3, <1>4 DEF UpProg, Progs
<1>9. TypeOK
  BY <1>1, <1>2, <1>5, <1>6, <1>7, <1>8 DEF TypeOK, Runs, Progs, Links
<1>10. HelperRules /\ Unsaved /\ StaticIsSafe
  BY <1>1, <1>2, <1>8 DEF HelperRules, Unsaved, StaticIsSafe
<1>11. KeepsTrying
  BY <1>1, <1>2, <1>7, <1>8 DEF KeepsTrying, Alive
<1> QED BY <1>9, <1>10, <1>11 DEF WanInv

\* if_down and if_up, for a mode that is saved or not.
LEMMA DownUpKeeps ==
  ASSUME WanInv, NEW h \in Modes \cup {"none"}, NEW fails, DownUp(h, fails),
         h = "none" => "start" \in fails,
         hander' = IF h = "none" THEN hander ELSE h, mode' \in Modes,
         mode' # hander' => hander' = "wisp" /\ (mode' # "dhcp" => "start" \in fails),
         link' \in Links, auto' \in {"off", "try", "back"}, redial' \in {"no", "due", "stale"}
  PROVE  WanInv'
<1>1. TypeOK /\ HelperRules
  BY DEF WanInv
<1>2. /\ run' \in Runs /\ prog' \in Progs /\ trouble' \subseteq Wrongs
      /\ inbox' \in Seq(Message)
      /\ status' \in {"up", "down"} /\ failed' \in BOOLEAN
      /\ addr' \in {"static", "nobody"}
      /\ status' = "up" => h = "static" /\ addr' = "static"
      /\ h = "static" => failed' \/ status' = "up"
      /\ "start" \in trouble' <=> "start" \in fails
      /\ "start" \notin fails =>
           /\ h = "dhcp" => \E i \in Dhcp : run'[i] # "off"
           /\ h = "pppoe" => \E i \in Ppp : run'[i] # "off"
           /\ h = "wisp" => prog'.wisp # "off"
           /\ h = "3g" => prog'.w3g
  BY <1>1, DownUpEffect
<1>3. hander' \in Modes
  BY <1>1 DEF TypeOK
<1>4. TypeOK'
  BY <1>2, <1>3, TypeAnew DEF Addrs
<1>5. HelperRules'
  <2>1. "kill" \notin trouble' =>
          /\ prog'.wisp # "off" => h = "wisp"
          /\ prog'.w3g => h = "3g"
    BY <1>1, DownUpHelpers
  <2> QED BY <2>1 DEF HelperRules
<1>6. Unsaved' /\ StaticIsSafe'
  BY <1>2 DEF Unsaved, StaticIsSafe
<1>7. KeepsTrying'
  <2>1. CASE h = "none"
    BY <1>2, <2>1 DEF KeepsTrying
  <2>2. CASE h # "none"
    BY <1>2, <2>2 DEF KeepsTrying, Alive
  <2> QED BY <2>1, <2>2
<1> QED BY <1>4, <1>5, <1>6, <1>7 DEF WanInv

LEMMA SetModeKeeps ==
  ASSUME WanInv, NEW h \in Modes, SetMode(h), link' \in Links, auto' \in {"off", "try", "back"}
  PROVE  WanInv'
<1>1. PICK fails \in SUBSET Forks(h) :
        /\ DownUp(h, fails)
        /\ mode' = IF h = "wisp" /\ "start" \in fails THEN mode ELSE h
        /\ hander' = h
        /\ redial' = IF redial = "no" THEN "no" ELSE "stale"
  BY DEF SetMode
<1>2. mode \in Modes /\ redial \in {"no", "due", "stale"}
  BY TypeFacts DEF WanInv
<1>3. h # "none"
  BY DEF Modes
<1>4. mode' \in Modes /\ redial' \in {"no", "due", "stale"}
      /\ hander' = IF h = "none" THEN hander ELSE h
  BY <1>1, <1>2, <1>3
<1>5. mode' # hander' => hander' = "wisp" /\ (mode' # "dhcp" => "start" \in fails)
  BY <1>1
<1> QED BY <1>1, <1>3, <1>4, <1>5, DownUpKeeps

LEMMA LinkCheckKeeps == WanInv /\ LinkCheck => WanInv'
<1> SUFFICES ASSUME WanInv, LinkCheck PROVE WanInv'
  OBVIOUS
<1>1. TypeOK /\ Unsaved
  BY DEF WanInv
<1>2. /\ link' \in Links /\ auto' \in {"off", "try", "back"}
      /\ redial' \in {"no", "due", "stale"} /\ mode' \in Modes /\ hander \in Modes
      /\ UNCHANGED <<mode, hander, redial, auto>>
  BY <1>1, TypeFacts DEF LinkCheck, Links
<1>3. CASE mode = "dhcp" /\ link.cable /\ ~link.ifstats
  <2>1. PICK fails \in SUBSET Forks(hander) : DownUp(hander, fails)
    BY <1>3 DEF LinkCheck
  <2>2. hander # "none" /\ (mode # hander => hander = "wisp")
    BY <1>1, <1>2 DEF Modes, Unsaved
  <2> QED BY <1>2, <1>3, <2>1, <2>2, DownUpKeeps
<1>4. CASE ~(mode = "dhcp" /\ link.cable /\ ~link.ifstats)
  <2>1. UNCHANGED <<status, addr, failed, run, prog, inbox, trouble>>
    BY <1>4 DEF LinkCheck, procVars
  <2>2. TypeOK'
    BY <1>1, <1>2, <2>1, TypeFacts, TypeAnew
  <2>3. (HelperRules /\ Unsaved /\ StaticIsSafe /\ KeepsTrying)'
    BY <1>2, <2>1 DEF WanInv, HelperRules, Unsaved, StaticIsSafe, KeepsTrying, Alive
  <2> QED BY <2>2, <2>3 DEF WanInv
<1> QED BY <1>3, <1>4

LEMMA ParamRefusedKeeps == WanInv /\ ParamRefused => WanInv'
<1> SUFFICES ASSUME WanInv, ParamRefused PROVE WanInv'
  OBVIOUS
<1>1. TypeOK /\ Unsaved
  BY DEF WanInv
<1>2. PICK fails \in SUBSET Forks("none") : "start" \in fails /\ DownUp("none", fails)
  BY DEF ParamRefused
<1>3. UNCHANGED <<mode, hander, link, redial, auto>>
  BY DEF ParamRefused
<1> QED BY <1>1, <1>2, <1>3, TypeFacts, DownUpKeeps DEF Unsaved

\* A step without if_down: no client of the hander goes for good.
LEMMA RunsKeep ==
  ASSUME WanInv, UNCHANGED <<mode, hander>>,
         run' \in Runs, inbox' \in Seq(Message),
         prog' \in Progs, prog'.wisp # "off" <=> prog.wisp # "off", prog'.w3g = prog.w3g,
         status' \in {"none", "up", "down"}, failed' \in BOOLEAN, addr' \in Addrs,
         mode = "static" => UNCHANGED <<status, addr, failed>>,
         link' \in Links, auto' \in {"off", "try", "back"}, redial' \in {"no", "due", "stale"},
         trouble \subseteq trouble', trouble' \subseteq Wrongs,
         hander = "dhcp" /\ trouble' \cap {"start", "kill"} = {} =>
           \E i \in Dhcp : run'[i] # "off",
         hander = "pppoe" /\ trouble' \cap {"start", "kill"} = {} =>
           redial' # "no" \/ \E i \in Ppp : run'[i] # "off"
  PROVE  WanInv'
<1>1. TypeOK'
  BY TypeFacts, TypeAnew DEF WanInv
<1>2. HelperRules' /\ Unsaved'
  BY DEF WanInv, HelperRules, Unsaved
<1>3. StaticIsSafe'
  BY DEF WanInv, StaticIsSafe
<1>4. KeepsTrying'
  <2> SUFFICES ASSUME trouble' \cap {"start", "kill"} = {} PROVE KeepsTrying'
    BY DEF KeepsTrying
  <2>1. trouble \cap {"start", "kill"} = {}
    OBVIOUS
  <2>2. hander = "static" => mode = "static"
    BY DEF WanInv, Unsaved
  <2> QED BY <2>1, <2>2 DEF WanInv, KeepsTrying, Alive
<1> QED BY <1>1, <1>2, <1>3, <1>4 DEF WanInv

\* What WanInv says, for RunsKeep.
LEMMA WanFacts ==
  ASSUME WanInv
  PROVE  /\ run \in Runs /\ prog \in Progs /\ link \in Links
         /\ auto \in {"off", "try", "back"} /\ redial \in {"no", "due", "stale"}
         /\ trouble \subseteq Wrongs /\ inbox \in Seq(Message)
         /\ status \in {"none", "up", "down"} /\ failed \in BOOLEAN /\ addr \in Addrs
         /\ hander = "dhcp" /\ trouble \cap {"start", "kill"} = {} =>
              \E i \in Dhcp : run[i] # "off"
         /\ hander = "pppoe" /\ trouble \cap {"start", "kill"} = {} =>
              redial # "no" \/ \E i \in Ppp : run[i] # "off"
<1>1. TypeOK /\ KeepsTrying
  BY DEF WanInv
<1>2. /\ hander = "dhcp" /\ trouble \cap {"start", "kill"} = {} =>
           \E i \in Dhcp : run[i] # "off"
      /\ hander = "pppoe" /\ trouble \cap {"start", "kill"} = {} =>
           redial # "no" \/ \E i \in Ppp : run[i] # "off"
  BY <1>1 DEF KeepsTrying, Alive
<1> QED BY <1>1, <1>2, TypeFacts

\* Another client more is no client less.
LEMMA StartedKeeps ==
  ASSUME NEW r \in Runs, NEW ps \in SUBSET Procs, NEW state \in {"new", "wait"},
         NEW q \in Started(r, ps, state)
  PROVE  /\ q \in Runs
         /\ \A i \in Procs : r[i] # "off" => q[i] # "off"
         /\ \E i \in ps : q[i] # "off"
BY StartedEffect

LEMMA DeliverKeeps == WanInv /\ Deliver => WanInv'
<1> SUFFICES ASSUME WanInv, Deliver PROVE WanInv'
  OBVIOUS
<1>1. inbox' \in Seq(Message) /\ Head(inbox) \in Message
  BY TakeType DEF Deliver, WanInv
<1>2. Head(inbox).act = "up" => Head(inbox).from \in Addrs
  BY <1>1 DEF Message, Senders, Addrs
<1>3. status' \in {"none", "up", "down"} /\ failed' \in BOOLEAN /\ addr' \in Addrs
  BY <1>2, WanFacts DEF Deliver, IpUp, IpDown, Addrs
<1>4. mode = "static" => UNCHANGED <<status, addr, failed>>
  BY DEF Deliver
<1>5. UNCHANGED <<mode, hander, run, prog, link, redial, auto, trouble>>
  BY DEF Deliver
<1> QED BY <1>1, <1>3, <1>4, <1>5, WanFacts, RunsKeep

\* pppd is killed, and will be started again.
LEMMA PppoeDoKeeps == WanInv /\ PppoeDo => WanInv'
<1> SUFFICES ASSUME WanInv, PppoeDo PROVE WanInv'
  OBVIOUS
<1>1. PICK ps \in {{}, Ppp} : /\ run' = Killed(run, ps) /\ inbox' = Orphaned(inbox, ps)
                              /\ addr' = Owner(addr, ps)
                              /\ trouble' = Lasting(run', prog, Ppp)
  BY DEF PppoeDo, KillPpp
<1>2. mode = "pppoe" /\ redial' = "due" /\ UNCHANGED <<mode, hander, status, failed, prog, link, auto>>
  BY DEF PppoeDo
<1>3. ps \in SUBSET Procs /\ Ppp \in SUBSET Procs
  BY <1>1 DEF Procs
<1>4. run' \in Runs /\ inbox' \in Seq(Message) /\ addr' \in Addrs
  BY <1>1, <1>3, WanFacts, KilledEffect, OrphanedType DEF Owner, Addrs
<1>5. /\ trouble' \subseteq Wrongs
      /\ "start" \in trouble <=> "start" \in trouble'
      /\ "kill" \notin trouble' =>
           \/ prog.wisp = "off" /\ ~prog.w3g
           \/ "kill" \notin trouble
  BY <1>1, <1>3, <1>4, WanFacts, LastingEffect DEF WanInv
<1>6. TypeOK'
  BY <1>2, <1>4, <1>5, TypeFacts, TypeAnew DEF WanInv
<1>7. HelperRules' /\ Unsaved' /\ StaticIsSafe'
  BY <1>2, <1>5 DEF WanInv, HelperRules, Unsaved, StaticIsSafe
<1>8. hander = "pppoe" \/ "start" \in trouble'
  BY <1>2, <1>5 DEF WanInv, Unsaved
<1>9. KeepsTrying'
  BY <1>2, <1>8 DEF KeepsTrying
<1> QED BY <1>6, <1>7, <1>9 DEF WanInv

LEMMA PppdRestartKeeps == WanInv /\ PppdRestart => WanInv'
<1> SUFFICES ASSUME WanInv, PppdRestart PROVE WanInv'
  OBVIOUS
<1>1. /\ redial' = "no" /\ UNCHANGED <<mode, hander, prog, inbox, link, auto>>
      /\ mode = "static" => UNCHANGED <<status, addr, failed>>
  BY DEF PppdRestart
<1>2. PICK fails \in SUBSET {"start"} :
        /\ run' \in IF fails = {} THEN Started(run, Ppp, "wait") ELSE {run}
        /\ trouble' = trouble \cup fails
             \cup (IF redial = "stale" \/ hander # "pppoe" THEN {"redial"} ELSE {})
  BY DEF PppdRestart
<1>3. /\ status' \in {"none", "up", "down"} /\ failed' \in BOOLEAN /\ addr' \in Addrs
  BY WanFacts DEF PppdRestart, IpDown, Addrs
<1>4. trouble' \subseteq Wrongs /\ trouble \subseteq trouble'
  BY <1>2, WanFacts DEF Wrongs
<1>5. /\ run' \in Runs /\ \A i \in Procs : run[i] # "off" => run'[i] # "off"
      /\ "start" \in trouble' \/ \E i \in Ppp : run'[i] # "off"
  <2>1. CASE fails = {}
    <3>1. Ppp \in SUBSET Procs
      BY DEF Procs
    <3> QED BY <1>2, <2>1, <3>1, WanFacts, StartedKeeps
  <2>2. CASE fails # {}
    BY <1>2, <2>2, WanFacts
  <2> QED BY <2>1, <2>2
<1>6. hander = "dhcp" /\ trouble' \cap {"start", "kill"} = {} => \E i \in Dhcp : run'[i] # "off"
  BY <1>4, <1>5, WanFacts, Kinds
<1>7. hander = "pppoe" /\ trouble' \cap {"start", "kill"} = {} => \E i \in Ppp : run'[i] # "off"
  BY <1>5
<1> QED BY <1>1, <1>3, <1>4, <1>5, <1>6, <1>7, WanFacts, RunsKeep

LEMMA AutoStopKeeps == WanInv /\ AutoStop => WanInv'
<1> SUFFICES ASSUME WanInv, AutoStop PROVE WanInv'
  OBVIOUS
<1>1. /\ auto' = "off"
      /\ UNCHANGED <<mode, hander, status, addr, failed, run, prog, inbox, link, redial, trouble>>
  BY DEF AutoStop, ifaceVars, procVars
<1> QED BY <1>1, WanFacts, RunsKeep

LEMMA AutoSwitchKeeps == WanInv /\ AutoSwitch => WanInv'
<1> SUFFICES ASSUME WanInv, AutoSwitch PROVE WanInv'
  OBVIOUS
<1>1. auto' \in {"off", "try", "back"} /\ link' \in Links
  BY WanFacts DEF AutoSwitch
<1>2. SetMode("pppoe") \/ SetMode("dhcp")
  BY DEF AutoSwitch
<1> QED BY <1>1, <1>2, SetModeKeeps DEF Modes

\* A client that says something lives on.
LEMMA SaysKeeps ==
  ASSUME WanInv, NEW i \in Procs, NEW state \in {"wait", "bound"}, NEW act \in {"up", "down"},
         run' = [run EXCEPT ![i] = state], Post(act, i),
         UNCHANGED <<ifaceVars, prog, link, redial, auto, trouble>>
  PROVE  WanInv'
<1>1. [act |-> act, from |-> i] \in Message
  <2>1. i \in Senders \ {"wisp"}
    BY WanInterfaceAssumption DEF Senders, Procs
  <2> QED BY <2>1 DEF Message
<1>2. inbox' \in Seq(Message)
  BY <1>1, PostType DEF Post, WanInv
<1>3. run' \in Runs /\ \A j \in Procs : run[j] # "off" => run'[j] # "off"
  BY WanFacts DEF Runs
<1>4. /\ hander = "dhcp" /\ trouble' \cap {"start", "kill"} = {} =>
           \E j \in Dhcp : run'[j] # "off"
      /\ hander = "pppoe" /\ trouble' \cap {"start", "kill"} = {} =>
           redial' # "no" \/ \E j \in Ppp : run'[j] # "off"
  BY <1>3, WanFacts, Kinds
<1> QED BY <1>2, <1>3, <1>4, WanFacts, RunsKeep DEF ifaceVars

LEMMA ClientKeeps == WanInv /\ Client => WanInv'
<1> SUFFICES ASSUME WanInv, Client PROVE WanInv'
  OBVIOUS
<1>1. CASE \E i \in Dhcp : Deconfig(i)
  <2>1. PICK i \in Dhcp : Deconfig(i)
    BY <1>1
  <2> QED BY <2>1, SaysKeeps DEF Deconfig, Procs
<1>2. CASE \E i \in Ppp : PppLost(i)
  <2>1. PICK i \in Ppp : PppLost(i)
    BY <1>2
  <2> QED BY <2>1, SaysKeeps DEF PppLost, Procs
<1>3. CASE \E i \in Procs : Bound(i)
  <2>1. PICK i \in Procs : Bound(i)
    BY <1>3
  <2> QED BY <2>1, SaysKeeps DEF Bound
<1> QED BY <1>1, <1>2, <1>3 DEF Client

LEMMA WispUpKeeps == WanInv /\ WispUp => WanInv'
<1> SUFFICES ASSUME WanInv, WispUp PROVE WanInv'
  OBVIOUS
<1>1. prog' \in Progs /\ prog'.wisp # "off" /\ prog'.w3g = prog.w3g /\ prog.wisp # "off"
  BY WanFacts DEF WispUp, Progs
<1>2. run' \in Runs /\ \A i \in Procs : run[i] # "off" => run'[i] # "off"
  <2>1. Dhcp \in SUBSET Procs
    BY DEF Procs
  <2>2. run' \in Started(run, Dhcp, "new") \/ run' = run
    BY DEF WispUp
  <2> QED BY <2>1, <2>2, WanFacts, StartedKeeps
<1>3. /\ hander = "dhcp" /\ trouble \cap {"start", "kill"} = {} =>
           \E i \in Dhcp : run'[i] # "off"
      /\ hander = "pppoe" /\ trouble \cap {"start", "kill"} = {} =>
           redial # "no" \/ \E i \in Ppp : run'[i] # "off"
  BY <1>2, WanFacts, Kinds
<1>4. UNCHANGED <<mode, hander, status, addr, failed, inbox, link, redial, auto, trouble>>
  BY DEF WispUp, ifaceVars
<1> QED BY <1>1, <1>2, <1>3, <1>4, WanFacts, RunsKeep

LEMMA WispLostKeeps == WanInv /\ WispLost => WanInv'
<1> SUFFICES ASSUME WanInv, WispLost PROVE WanInv'
  OBVIOUS
<1>1. PICK ps \in {{}, Dhcp} :
        /\ run' = Killed(run, ps) /\ inbox' = Orphaned(inbox, ps) /\ addr' = Owner(addr, ps)
        /\ trouble' = trouble \cup (IF Dhcp \cap Running(run') # {} THEN {"kill"} ELSE {})
  BY DEF WispLost
<1>2. UNCHANGED <<mode, hander, status, failed, link, redial, auto>>
  BY DEF WispLost
<1>3. /\ prog' \in Progs /\ prog'.wisp # "off" /\ prog'.w3g = prog.w3g
      /\ prog.wisp # "off"
  BY WanFacts DEF WispLost, Progs
<1>4. ps \in SUBSET Procs
  BY <1>1 DEF Procs
<1>5. /\ run' \in Runs /\ inbox' \in Seq(Message) /\ addr' \in Addrs
      /\ \A i \in Procs : run'[i] = IF i \in ps THEN "off" ELSE run[i]
  BY <1>1, <1>4, WanFacts, KilledEffect, OrphanedType DEF Owner, Addrs
<1>6. trouble \subseteq trouble' /\ trouble' \subseteq Wrongs
  BY <1>1, WanFacts DEF Wrongs
<1>7. trouble' \cap {"start", "kill"} = {} => hander = "wisp"
  BY <1>3, <1>6 DEF WanInv, HelperRules
<1>8. TypeOK'
  BY <1>2, <1>3, <1>5, <1>6, TypeFacts, TypeAnew DEF WanInv
<1>9. HelperRules' /\ Unsaved'
  BY <1>2, <1>3, <1>6 DEF WanInv, HelperRules, Unsaved
<1>10. StaticIsSafe'
  BY <1>1, <1>2, <1>4, Kinds DEF WanInv, StaticIsSafe, Owner
<1>11. KeepsTrying'
  BY <1>2, <1>3, <1>7 DEF KeepsTrying
<1> QED BY <1>8, <1>9, <1>10, <1>11 DEF WanInv

LEMMA WispDownKeeps == WanInv /\ WispDown => WanInv'
<1> SUFFICES ASSUME WanInv, WispDown PROVE WanInv'
  OBVIOUS
<1>1. UNCHANGED <<mode, hander, status, addr, failed, run, link, redial, auto, trouble>>
  BY DEF WispDown, ifaceVars
<1>2. prog' \in Progs /\ prog'.wisp # "off" /\ prog'.w3g = prog.w3g /\ prog.wisp # "off"
  BY WanFacts DEF WispDown, Progs
<1>3. inbox' \in Seq(Message)
  <2>1. [act |-> "down", from |-> "wisp"] \in Message
    BY DEF Message, Senders
  <2> QED BY <2>1, WanFacts, PostType DEF WispDown, Post, WanInv
<1> QED BY <1>1, <1>2, <1>3, WanFacts, RunsKeep

LEMMA W3gDialsKeeps == WanInv /\ W3gDials => WanInv'
<1> SUFFICES ASSUME WanInv, W3gDials PROVE WanInv'
  OBVIOUS
<1>1. run' \in Started(run, Ppp, "wait") /\ Ppp \in SUBSET Procs
  BY DEF W3gDials, Procs
<1>2. run' \in Runs /\ \A i \in Procs : run[i] # "off" => run'[i] # "off"
  BY <1>1, WanFacts, StartedKeeps
<1>3. /\ hander = "dhcp" /\ trouble \cap {"start", "kill"} = {} =>
           \E i \in Dhcp : run'[i] # "off"
      /\ hander = "pppoe" /\ trouble \cap {"start", "kill"} = {} =>
           redial # "no" \/ \E i \in Ppp : run'[i] # "off"
  BY <1>2, WanFacts, Kinds
<1>4. UNCHANGED <<mode, hander, status, addr, failed, prog, inbox, link, redial, auto, trouble>>
  BY DEF W3gDials, ifaceVars
<1> QED BY <1>2, <1>3, <1>4, WanFacts, RunsKeep

LEMMA HelperKeeps == WanInv /\ Helper => WanInv'
BY WispUpKeeps, WispLostKeeps, WispDownKeeps, W3gDialsKeeps DEF Helper

LEMMA RequestKeeps == WanInv /\ Request => WanInv'
<1> SUFFICES ASSUME WanInv, Request PROVE WanInv'
  OBVIOUS
<1>1. CASE \E h \in Modes : ParamSet(h)
  <2>1. PICK h \in Modes : ParamSet(h)
    BY <1>1
  <2>2. SetMode(h) /\ link' \in Links /\ auto' \in {"off", "try", "back"}
    BY <2>1, WanFacts DEF ParamSet
  <2> QED BY <2>2, SetModeKeeps
<1>2. CASE ParamRefused
  BY <1>2, ParamRefusedKeeps
<1> QED BY <1>1, <1>2 DEF Request

LEMMA TimerKeeps == WanInv /\ Timer => WanInv'
BY LinkCheckKeeps, PppoeDoKeeps, PppdRestartKeeps, AutoStopKeeps, AutoSwitchKeeps DEF Timer

LEMMA PlugKeeps == WanInv /\ Plug => WanInv'
<1> SUFFICES ASSUME WanInv, Plug PROVE WanInv'
  OBVIOUS
<1>1. link' \in Links
  BY WanFacts DEF Plug, Links
<1>2. UNCHANGED <<mode, hander, status, addr, failed, run, prog, inbox, redial, auto, trouble>>
  BY DEF Plug, ifaceVars, procVars
<1> QED BY <1>1, <1>2, WanFacts, RunsKeep

LEMMA WanStep == WanInv /\ [Next]_vars => WanInv'
<1> SUFFICES ASSUME WanInv, [Next]_vars PROVE WanInv'
  OBVIOUS
<1>1. CASE UNCHANGED vars
  BY <1>1, WanFacts, RunsKeep DEF vars, ifaceVars, procVars
<1>2. CASE Next
  BY <1>2, RequestKeeps, DeliverKeeps, TimerKeeps, ClientKeeps, HelperKeeps, PlugKeeps
     DEF Next
<1> QED BY <1>1, <1>2

\* The inductive invariant of the WAN interface.
THEOREM WanInvariant == Spec => []WanInv
BY WanInit, WanStep, PTL DEF Spec

\* The types, whatever comes in whatever order (WanInterface.TypeOK): the hander, the
\* status bits and mu's inbox stay what the code takes them for.
THEOREM TypeCorrect == Spec => []TypeOK
<1>1. WanInv => TypeOK
  BY DEF WanInv
<1> QED BY WanInvariant, <1>1, PTL

\* A static interface never has the address that a client of before, a pppd restarted too
\* late or one left alive by a failed fork reports: interface_ipchange refuses it, and
\* every change of mode starts from ip_down.
THEOREM StaticOwn == Spec => []StaticIsSafe
<1>1. WanInv => StaticIsSafe
  BY DEF WanInv
<1> QED BY WanInvariant, <1>1, PTL

\* Whichever hander is in charge, somebody works on an address, for any number of
\* processes, unless a fork has failed or a set was refused: what the nightly restart of
\* pppd, the cable check, the helpers and the automatic switch stop is started again, or
\* is about to be; and after a failed fork, as soon as if_up has succeeded once more.
THEOREM AlwaysTrying == Spec => []KeepsTrying
<1>1. WanInv => KeepsTrying
  BY DEF WanInv
<1> QED BY WanInvariant, <1>1, PTL

----------------------------------------------------------------------------
(***************************************************************************)
(* ClientInv: one client, but for the pppd of a late restart.              *)
(***************************************************************************)
\* late is the pppd of a late restart, if there is one.
IsLate(late) == late \in Ppp \cup {"nobody"} /\ (late # "nobody" => "redial" \in trouble)

\* All that lives besides is one client, of hander h.
OnlyClient(r, h, late) ==
  \A i \in Procs \ {late} : r[i] # "off" =>
    /\ i \in KilledBy(h)
    /\ \A j \in Procs \ {late} : r[j] # "off" => j = i

LEMMA SingleMeans ==
  SingleClient <=> ("kill" \notin trouble =>
                      \E late : IsLate(late) /\ OnlyClient(run, hander, late))
BY DEF SingleClient, IsLate, OnlyClient, Alive

\* If_down leaves nobody, but for the pppd of a late restart.
LEMMA DownLeaves ==
  ASSUME TypeOK, SingleClient, NEW h, NEW fails, DownUp(h, fails), "kill" \notin trouble'
  PROVE  /\ \E late : IsLate(late)' /\ \A i \in Procs \ {late} : DownRuns(fails)[i] = "off"
         /\ "redial" \in trouble' => "redial" \in trouble /\ "kill" \notin trouble
         /\ "kill" \in trouble => \A i \in Procs : DownRuns(fails)[i] = "off"
<1> DEFINE r == DownRuns(fails)
           p == DownProg(fails)
           ps == KilledBy(hander)
           t == Lasting(r, p, ps)
           clean == p.wisp = "off" /\ ~p.w3g /\ \A i \in Procs : r[i] = "off"
<1>1. /\ r \in Runs /\ p \in Progs /\ ps \in SUBSET Procs
      /\ \A i \in Procs : r[i] # "off" => run[i] # "off"
  BY DownTypes
<1>2. trouble' = (t \ {"start"}) \cup (fails \cap {"start"})
  BY DEF DownUp
<1>3. "kill" \notin t /\ ("redial" \in trouble' <=> "redial" \in t)
  BY <1>2
<1>4. /\ clean => "redial" \notin t
      /\ ~clean => /\ "kill" \notin trouble /\ ("redial" \in t <=> "redial" \in trouble)
                   /\ \A i \in ps : r[i] = "off"
  <2> HIDE DEF r, p, ps
  <2> QED BY <1>1, <1>3, LastingEffect DEF t
<1>5. CASE clean
  <2>1. IsLate("nobody")'
    BY DEF IsLate
  <2> QED BY <1>3, <1>4, <1>5, <2>1
<1>6. CASE ~clean
  <2>1. PICK late : IsLate(late) /\ OnlyClient(run, hander, late)
    BY <1>4, <1>6, SingleMeans
  <2>2. IsLate(late)'
    BY <1>3, <1>4, <1>6, <2>1 DEF IsLate
  <2>3. \A i \in Procs \ {late} : r[i] = "off"
    <3> HIDE DEF r
    <3> QED BY <1>1, <1>4, <1>6, <2>1 DEF OnlyClient
  <2> QED BY <1>3, <1>4, <2>2, <2>3
<1> QED BY <1>5, <1>6

\* if_up of h starts a client of h, or none.
LEMMA UpAlone ==
  ASSUME NEW r \in Runs, NEW late, \A i \in Procs \ {late} : r[i] = "off",
         NEW h \in Modes \cup {"none"}, NEW q, q = r \/ q \in UpRuns(h, r)
  PROVE  /\ OnlyClient(q, h, late)
         /\ h \notin {"dhcp", "pppoe"} => q = r
<1>1. CASE q = r
  BY <1>1 DEF OnlyClient
<1>2. CASE q \in UpRuns(h, r)
  <2>1. /\ h \notin {"dhcp", "pppoe"} => q = r
        /\ h = "dhcp" =>
             \E i \in Dhcp : q[i] # "off" /\ \A j \in Procs : j # i => q[j] = r[j]
        /\ h = "pppoe" =>
             \E i \in Ppp : q[i] # "off" /\ \A j \in Procs : j # i => q[j] = r[j]
    BY <1>2, UpRunsEffect
  <2> QED BY <2>1 DEF OnlyClient, KilledBy
<1> QED BY <1>1, <1>2

LEMMA DownUpAlone ==
  ASSUME WanInv, ClientInv, NEW h \in Modes \cup {"none"}, NEW fails, DownUp(h, fails),
         h = "none" => "start" \in fails,
         hander' = IF h = "none" THEN hander ELSE h,
         mode' # hander' => mode' = "dhcp" \/ "start" \in fails,
         redial' # "no" => redial # "no",
         redial' = "due" => redial = "due" /\ h = "none" /\ UNCHANGED mode
  PROVE  ClientInv'
<1> SUFFICES ASSUME "kill" \notin trouble' PROVE ClientInv'
  <2>1. DueInPppoe'
    BY DEF ClientInv, DueInPppoe
  <2> QED BY <2>1 DEF ClientInv, SingleClient, Pending
<1> DEFINE r == DownRuns(fails)
<1>1. r \in Runs /\ \A i \in Procs : r[i] # "off" => run[i] # "off"
  BY DownTypes DEF WanInv
<1>2. run' = r \/ run' \in UpRuns(h, r)
  BY DEF DownUp
<1>3. "start" \in fails => run' = r
  BY DEF DownUp
<1>4. PICK late : IsLate(late)' /\ \A i \in Procs \ {late} : r[i] = "off"
  BY DownLeaves DEF WanInv, ClientInv
<1>5. /\ "redial" \in trouble' => "redial" \in trouble /\ "kill" \notin trouble
      /\ "kill" \in trouble => \A i \in Procs : r[i] = "off"
  BY DownLeaves DEF WanInv, ClientInv
<1>6. prog'.wisp # "off" => h = "wisp"
  BY DownUpHelpers DEF WanInv
<1>7. "start" \in fails => prog'.wisp = "off"
  BY DownUpHelpers DEF WanInv
<1> HIDE DEF r
<1>8. OnlyClient(run', h, late) /\ (h \notin {"dhcp", "pppoe"} => run' = r)
  BY <1>1, <1>2, <1>4, UpAlone
<1>9. OnlyClient(run', hander', late)
  <2>1. CASE h = "none"
    BY <1>4, <1>8, <2>1 DEF OnlyClient
  <2>2. CASE h # "none"
    BY <1>8, <2>2
  <2> QED BY <2>1, <2>2
<1>10. SingleClient'
  BY <1>4, <1>9 DEF SingleClient, IsLate, OnlyClient, Alive
<1>11. redial' # "no" => "redial" \notin trouble'
  BY <1>5 DEF ClientInv, Pending
<1>12. redial' = "due" => \A i \in Ppp : run'[i] = "off"
  <2> SUFFICES ASSUME redial' = "due" PROVE \A i \in Ppp : r[i] = "off"
    BY <1>8
  <2>1. CASE "kill" \in trouble
    BY <1>5, <2>1, Kinds
  <2>2. CASE "kill" \notin trouble
    BY <1>1, <2>2, Kinds DEF ClientInv, Pending, Alive
  <2> QED BY <2>1, <2>2
<1>13. hander' = "wisp" => \A i \in Dhcp : run'[i] = "off"
  BY <1>4, <1>8, Kinds DEF IsLate
<1>14. mode' # hander' /\ mode' # "dhcp" => prog'.wisp = "off"
  BY <1>7
<1>15. DueInPppoe'
  BY DEF ClientInv, DueInPppoe
<1>16. Pending'
  BY <1>11, <1>12, <1>13, <1>14 DEF Pending, Alive
<1> QED BY <1>10, <1>15, <1>16 DEF ClientInv

LEMMA ClientInit == Init => ClientInv
<1> SUFFICES ASSUME Init PROVE ClientInv
  OBVIOUS
<1> DEFINE off  == [i \in Procs |-> "off"]
           none == [wisp |-> "off", w3g |-> FALSE]
<1>1. off \in Runs /\ \A i \in Procs \ {"nobody"} : off[i] = "off"
  BY DEF Runs
<1>2. mode \in Modes /\ hander = mode /\ redial = "no"
  BY DEF Init
<1>3. PICK fails \in SUBSET (Forks(mode) \cap {"start"}) :
        run \in IF "start" \in fails THEN {off} ELSE UpRuns(mode, off)
  BY DEF Init
<1>4. run = off \/ run \in UpRuns(mode, off)
  BY <1>3
<1> HIDE DEF off
<1>5. OnlyClient(run, mode, "nobody") /\ (mode \notin {"dhcp", "pppoe"} => run = off)
  BY <1>1, <1>2, <1>4, UpAlone
<1>6. SingleClient
  BY <1>2, <1>5 DEF SingleClient, OnlyClient, Alive
<1>7. Pending
  BY <1>1, <1>2, <1>5, Kinds DEF Pending, Alive
<1>8. DueInPppoe
  BY <1>2 DEF DueInPppoe
<1> QED BY <1>6, <1>7, <1>8 DEF ClientInv

LEMMA SetModeAlone ==
  ASSUME WanInv, ClientInv, NEW h \in Modes, SetMode(h)
  PROVE  ClientInv'
<1>1. PICK fails \in SUBSET Forks(h) :
        /\ DownUp(h, fails)
        /\ mode' = IF h = "wisp" /\ "start" \in fails THEN mode ELSE h
        /\ hander' = h
        /\ redial' = IF redial = "no" THEN "no" ELSE "stale"
  BY DEF SetMode
<1>2. h # "none"
  BY DEF Modes
<1>3. mode' # hander' => "start" \in fails
  BY <1>1
<1>4. (redial' # "no" => redial # "no") /\ redial' # "due"
  BY <1>1
<1> QED BY <1>1, <1>2, <1>3, <1>4, DownUpAlone

\* Clients that only die, or stay.
LEMMA NoMoreAlone ==
  ASSUME ClientInv, UNCHANGED <<mode, hander, redial>>, trouble' = trouble,
         \A i \in Procs : run'[i] # "off" => run[i] # "off",
         \/ UNCHANGED prog
         \/ hander = "wisp" /\ prog.wisp # "off" /\ \A i \in Dhcp : run'[i] = "off"
  PROVE  ClientInv'
<1>1. SingleClient'
  BY DEF ClientInv, SingleClient, Alive
<1>2. Pending'
  BY DEF ClientInv, Pending, Alive, Procs
<1> QED BY <1>1, <1>2 DEF ClientInv, DueInPppoe

\* All that matters for what is left when a client may have outlived its killing.
LEMMA KillAlone ==
  ASSUME ClientInv, "kill" \in trouble', redial' = "due" => redial = "due" /\ UNCHANGED mode
  PROVE  ClientInv'
BY DEF ClientInv, SingleClient, Pending, DueInPppoe

LEMMA RequestAlone ==
  ASSUME WanInv, ClientInv, Request
  PROVE  ClientInv'
<1>1. CASE \E h \in Modes : ParamSet(h)
  BY <1>1, SetModeAlone DEF ParamSet
<1>2. CASE ParamRefused
  <2>1. PICK fails \in SUBSET Forks("none") : "start" \in fails /\ DownUp("none", fails)
    BY <1>2 DEF ParamRefused
  <2>2. UNCHANGED <<mode, hander, redial>>
    BY <1>2 DEF ParamRefused
  <2> QED BY <2>1, <2>2, DownUpAlone
<1> QED BY <1>1, <1>2 DEF Request

LEMMA LinkCheckAlone ==
  ASSUME WanInv, ClientInv, LinkCheck
  PROVE  ClientInv'
<1>1. UNCHANGED <<mode, hander, redial>>
  BY DEF LinkCheck
<1>2. CASE mode = "dhcp" /\ link.cable /\ ~link.ifstats
  <2>1. PICK fails \in SUBSET Forks(hander) : DownUp(hander, fails)
    BY <1>2 DEF LinkCheck
  <2>2. hander \in Modes /\ hander # "none"
    BY DEF WanInv, TypeOK, Modes
  <2>3. redial # "due"
    BY <1>2 DEF ClientInv, DueInPppoe
  <2> QED BY <1>1, <1>2, <2>1, <2>2, <2>3, DownUpAlone
<1>3. CASE ~(mode = "dhcp" /\ link.cable /\ ~link.ifstats)
  <2>1. UNCHANGED <<run, prog, trouble>>
    BY <1>3 DEF LinkCheck, procVars
  <2> QED BY <1>1, <2>1, NoMoreAlone
<1> QED BY <1>2, <1>3

\* Killing all pppd leaves nobody: the mode is PPPoE, and its hander or a wisp that
\* could not be started has no other client.
LEMMA PppoeDoLeaves ==
  ASSUME WanInv, ClientInv, PppoeDo, "kill" \notin trouble'
  PROVE  (\A i \in Procs : run'[i] = "off") /\ "redial" \notin trouble'
<1>1. PICK ps \in {{}, Ppp} : run' = Killed(run, ps) /\ trouble' = Lasting(run', prog, Ppp)
  BY DEF PppoeDo, KillPpp
<1>2. run' \in Runs /\ \A i \in Procs : run'[i] # "off" => run[i] # "off"
  BY <1>1, WanFacts, KilledEffect
<1> DEFINE clean == prog.wisp = "off" /\ ~prog.w3g /\ \A i \in Procs : run'[i] = "off"
           t == Lasting(run', prog, Ppp)
<1>3. /\ clean => "redial" \notin t
      /\ ~clean => /\ "kill" \notin trouble
                   /\ \A i \in Ppp : run'[i] = "off"
                   /\ hander = "wisp" => prog.wisp = "off"
  <2>1. Ppp \in SUBSET Procs /\ prog \in Progs /\ TypeOK /\ "kill" \notin t
    BY <1>1, WanFacts DEF WanInv, Procs
  <2> QED BY <1>2, <2>1, LastingEffect
<1>4. mode = "pppoe"
  BY DEF PppoeDo
<1>5. clean
  <2> SUFFICES ASSUME ~clean PROVE FALSE
    OBVIOUS
  <2>1. /\ "kill" \notin trouble /\ hander \in {"pppoe", "wisp"}
        /\ prog.wisp = "off" /\ ~prog.w3g
    BY <1>3, <1>4 DEF WanInv, HelperRules, Unsaved
  <2>2. \A i \in Ppp : run'[i] = "off"
    BY <1>3
  <2>3. ASSUME NEW i \in Dhcp PROVE run[i] = "off"
    <3>1. CASE hander = "wisp"
      BY <2>1, <3>1 DEF ClientInv, Pending, Alive
    <3>2. CASE hander = "pppoe"
      <4>1. PICK late : IsLate(late) /\ OnlyClient(run, hander, late)
        BY <2>1, SingleMeans DEF ClientInv
      <4> QED BY <3>2, <4>1, Kinds DEF IsLate, OnlyClient, KilledBy
    <3> QED BY <2>1, <3>1, <3>2
  <2> QED BY <1>2, <2>1, <2>2, <2>3, Kinds
<1> QED BY <1>1, <1>3, <1>5

LEMMA PppoeDoAlone ==
  ASSUME WanInv, ClientInv, PppoeDo
  PROVE  ClientInv'
<1>1. mode = "pppoe" /\ redial' = "due" /\ UNCHANGED <<mode, hander, prog>>
  BY DEF PppoeDo
<1>2. DueInPppoe'
  BY <1>1 DEF DueInPppoe
<1>3. CASE "kill" \in trouble'
  BY <1>2, <1>3 DEF ClientInv, SingleClient, Pending
<1>4. CASE "kill" \notin trouble'
  <2>1. (\A i \in Procs : run'[i] = "off") /\ "redial" \notin trouble'
    BY <1>4, PppoeDoLeaves
  <2>2. SingleClient'
    BY <2>1 DEF SingleClient, Alive
  <2>3. mode' # hander' /\ mode' # "dhcp" => prog'.wisp = "off"
    <3> SUFFICES ASSUME mode # hander, prog.wisp # "off" PROVE FALSE
      BY <1>1
    <3>1. PICK ps \in {{}, Ppp} : run' = Killed(run, ps) /\ trouble' = Lasting(run', prog, Ppp)
      BY DEF PppoeDo, KillPpp
    <3>2. hander = "wisp"
      BY DEF WanInv, Unsaved
    <3> QED BY <1>4, <3>1, <3>2 DEF Lasting
  <2>4. Pending'
    BY <2>1, <2>3, Kinds DEF Pending, Alive
  <2> QED BY <1>2, <2>2, <2>4 DEF ClientInv
<1> QED BY <1>3, <1>4

LEMMA PppdRestartAlone ==
  ASSUME WanInv, ClientInv, PppdRestart
  PROVE  ClientInv'
<1>1. redial # "no" /\ redial' = "no" /\ UNCHANGED <<mode, hander, prog>>
  BY DEF PppdRestart
<1>2. PICK fails \in SUBSET {"start"} :
        /\ run' \in IF fails = {} THEN Started(run, Ppp, "wait") ELSE {run}
        /\ trouble' = trouble \cup fails
             \cup (IF redial = "stale" \/ hander # "pppoe" THEN {"redial"} ELSE {})
  BY DEF PppdRestart
<1>3. CASE "kill" \in trouble
  <2>1. "kill" \in trouble'
    BY <1>2, <1>3
  <2> QED BY <1>1, <2>1, KillAlone
<1>4. CASE "kill" \notin trouble
  <2>1. "redial" \notin trouble /\ (redial = "due" => \A i \in Ppp : run[i] = "off")
    BY <1>1, <1>4 DEF ClientInv, Pending, Alive
  <2>2. OnlyClient(run, hander, "nobody")
    BY <1>4, <2>1, SingleMeans DEF ClientInv, IsLate
  <2>3. \/ run' = run
        \/ \E i \in Ppp : \A j \in Procs : j # i => run'[j] = run[j]
    <3>1. CASE fails = {}
      <4>1. run \in Runs /\ Ppp \in SUBSET Procs
        BY WanFacts, Kinds
      <4> QED BY <1>2, <3>1, <4>1, StartedEffect
    <3>2. CASE fails # {}
      BY <1>2, <3>2
    <3> QED BY <3>1, <3>2
  <2>4. \E late : IsLate(late)' /\ OnlyClient(run', hander, late)
    <3>1. CASE run' = run
      <4>1. IsLate("nobody")'
        BY DEF IsLate
      <4> QED BY <2>2, <3>1, <4>1
    <3>2. CASE \E i \in Ppp : \A j \in Procs : j # i => run'[j] = run[j]
      <4>1. PICK i \in Ppp : \A j \in Procs : j # i => run'[j] = run[j]
        BY <3>2
      <4>2. CASE redial = "stale" \/ hander # "pppoe"
        <5>1. IsLate(i)'
          BY <1>2, <4>2 DEF IsLate
        <5>2. OnlyClient(run', hander, i)
          BY <2>2, <4>1, Kinds DEF OnlyClient
        <5> QED BY <5>1, <5>2
      <4>3. CASE ~(redial = "stale" \/ hander # "pppoe")
        <5>1. redial = "due" /\ hander = "pppoe"
          BY <1>1, <4>3, WanFacts
        <5>2. \A j \in Procs : run[j] = "off"
          BY <2>1, <2>2, <5>1, Kinds DEF OnlyClient, KilledBy
        <5>3. IsLate("nobody")'
          BY DEF IsLate
        <5>4. OnlyClient(run', hander, "nobody")
          BY <4>1, <5>1, <5>2 DEF OnlyClient, KilledBy
        <5> QED BY <5>3, <5>4
      <4> QED BY <4>2, <4>3
    <3> QED BY <2>3, <3>1, <3>2
  <2>5. SingleClient'
    BY <1>1, <2>4 DEF SingleClient, IsLate, OnlyClient, Alive
  <2>6. \A i \in Dhcp : run'[i] = run[i]
    BY <2>3, Kinds
  <2>7. Pending'
    BY <1>1, <1>4, <2>6 DEF ClientInv, Pending, Alive
  <2> QED BY <1>1, <2>5, <2>7 DEF ClientInv, DueInPppoe
<1> QED BY <1>3, <1>4

LEMMA TimerAlone ==
  ASSUME WanInv, ClientInv, Timer
  PROVE  ClientInv'
<1>1. CASE AutoStop
  BY <1>1, NoMoreAlone DEF AutoStop, ifaceVars, procVars
<1>2. CASE AutoSwitch
  <2>1. SetMode("pppoe") \/ SetMode("dhcp")
    BY <1>2 DEF AutoSwitch
  <2> QED BY <2>1, SetModeAlone DEF Modes
<1> QED BY <1>1, <1>2, LinkCheckAlone, PppoeDoAlone, PppdRestartAlone DEF Timer

LEMMA SaysAlone ==
  ASSUME WanInv, ClientInv, NEW i \in Procs, run[i] # "off", NEW state,
         run' = [run EXCEPT ![i] = state],
         UNCHANGED <<ifaceVars, prog, link, redial, auto, trouble>>
  PROVE  ClientInv'
<1>1. \A j \in Procs : run'[j] # "off" => run[j] # "off"
  BY WanFacts DEF Runs
<1> QED BY <1>1, NoMoreAlone DEF ifaceVars

LEMMA ProgramAlone ==
  ASSUME WanInv, ClientInv, Client
  PROVE  ClientInv'
<1>1. CASE \E i \in Dhcp : Deconfig(i)
  BY <1>1, SaysAlone DEF Deconfig, Procs
<1>2. CASE \E i \in Ppp : PppLost(i)
  BY <1>2, SaysAlone DEF PppLost, Procs
<1>3. CASE \E i \in Procs : Bound(i)
  BY <1>3, SaysAlone DEF Bound
<1> QED BY <1>1, <1>2, <1>3 DEF Client

\* A helper starts its client when there is none of its kind.
LEMMA HelperStarts ==
  ASSUME WanInv, ClientInv, WispUp \/ W3gDials, "kill" \notin trouble
  PROVE  /\ \/ run' = run
            \/ \E i \in KilledBy(hander) : \A j \in Procs : j # i => run'[j] = run[j]
         /\ \A i \in KilledBy(hander) : run[i] = "off"
         /\ WispUp => hander = "wisp"
         /\ W3gDials => hander = "3g"
<1>1. run \in Runs /\ Dhcp \in SUBSET Procs /\ Ppp \in SUBSET Procs
  BY WanFacts, Kinds
<1>2. CASE WispUp
  <2>1. hander = "wisp" /\ hander # "3g" /\ KilledBy(hander) = Dhcp /\ prog.wisp = "down"
    BY <1>2 DEF WispUp, WanInv, HelperRules, KilledBy
  <2>2. \A i \in Dhcp : run[i] = "off"
    BY <2>1 DEF ClientInv, Pending, Alive
  <2>3. run' = run \/ run' \in Started(run, Dhcp, "new")
    BY <1>2 DEF WispUp
  <2>4. run' = run \/ \E i \in Dhcp : \A j \in Procs : j # i => run'[j] = run[j]
    BY <1>1, <2>3, StartedEffect
  <2>5. ~W3gDials
    BY <2>1 DEF W3gDials, WanInv, HelperRules
  <2> QED BY <2>1, <2>2, <2>4, <2>5
<1>3. CASE W3gDials
  <2>1. hander = "3g" /\ hander # "wisp" /\ KilledBy(hander) = Ppp
    BY <1>3 DEF W3gDials, WanInv, HelperRules, KilledBy
  <2>2. (\A i \in Ppp : run[i] = "off") /\ run' \in Started(run, Ppp, "wait")
    BY <1>3 DEF W3gDials, Alive
  <2>3. \E i \in Ppp : \A j \in Procs : j # i => run'[j] = run[j]
    BY <1>1, <2>2, StartedEffect
  <2>4. ~WispUp
    BY <2>1 DEF WispUp, WanInv, HelperRules
  <2> QED BY <2>1, <2>2, <2>3, <2>4
<1> QED BY <1>2, <1>3

LEMMA HelperAlone ==
  ASSUME WanInv, ClientInv, Helper
  PROVE  ClientInv'
<1>1. UNCHANGED <<mode, hander, redial>> /\ trouble \subseteq trouble'
  BY DEF Helper, WispUp, WispLost, WispDown, W3gDials, ifaceVars
<1>2. CASE "kill" \in trouble'
  BY <1>1, <1>2, KillAlone
<1>3. CASE "kill" \notin trouble' /\ (WispUp \/ W3gDials)
  <2>1. "kill" \notin trouble /\ trouble' = trouble
    BY <1>1, <1>3 DEF WispUp, W3gDials
  <2>2. /\ \/ run' = run
           \/ \E i \in KilledBy(hander) : \A j \in Procs : j # i => run'[j] = run[j]
        /\ \A i \in KilledBy(hander) : run[i] = "off"
        /\ WispUp => hander = "wisp"
        /\ W3gDials => hander = "3g"
    BY <1>3, <2>1, HelperStarts
  <2>3. PICK late : IsLate(late) /\ OnlyClient(run, hander, late)
    BY <2>1, SingleMeans DEF ClientInv
  <2>4. ASSUME NEW i \in KilledBy(hander), \A j \in Procs : j # i => run'[j] = run[j]
        PROVE  OnlyClient(run', hander, late)
    <3>1. \A j \in Procs \ {late} : run[j] = "off"
      BY <2>2, <2>3 DEF OnlyClient
    <3> QED BY <2>4, <3>1 DEF OnlyClient
  <2>5. OnlyClient(run', hander, late)
    BY <2>2, <2>3, <2>4
  <2>6. IsLate(late)'
    BY <2>1, <2>3 DEF IsLate
  <2>7. SingleClient'
    BY <1>1, <2>5, <2>6 DEF SingleClient, IsLate, OnlyClient, Alive
  <2>8. CASE WispUp
    <3>1. prog'.wisp = "up" /\ prog.wisp = "down" /\ hander = "wisp"
      BY <2>2, <2>8, WanFacts DEF WispUp, Progs
    <3>2. mode = hander \/ mode = "dhcp"
      BY <2>1, <3>1 DEF ClientInv, Pending
    <3>3. redial # "due"
      BY <3>1, <3>2 DEF ClientInv, DueInPppoe
    <3>4. Pending'
      BY <1>1, <2>1, <3>1, <3>2, <3>3 DEF ClientInv, Pending
    <3> QED BY <1>1, <2>7, <3>4 DEF ClientInv, DueInPppoe
  <2>9. CASE W3gDials
    <3>1. hander = "3g" /\ mode = "3g"
      BY <2>2, <2>9 DEF WanInv, Unsaved
    <3>2. redial # "due"
      BY <3>1 DEF ClientInv, DueInPppoe
    <3>3. Pending'
      BY <1>1, <2>1, <3>1, <3>2 DEF ClientInv, Pending
    <3> QED BY <1>1, <2>7, <3>3 DEF ClientInv, DueInPppoe
  <2> QED BY <1>3, <2>8, <2>9
<1>4. CASE "kill" \notin trouble' /\ WispLost
  <2>1. "kill" \notin trouble /\ hander = "wisp" /\ prog.wisp # "off"
    BY <1>1, <1>4 DEF WispLost, WanInv, HelperRules
  <2>2. PICK ps \in {{}, Dhcp} :
          /\ run' = Killed(run, ps)
          /\ trouble' = trouble \cup (IF Dhcp \cap Running(run') # {} THEN {"kill"} ELSE {})
    BY <1>4 DEF WispLost
  <2>3. trouble' = trouble /\ \A i \in Dhcp : run'[i] = "off"
    BY <1>4, <2>2, Kinds DEF Running
  <2>4. \A i \in Procs : run'[i] # "off" => run[i] # "off"
    BY <2>2, WanFacts, KilledEffect
  <2> QED BY <1>1, <2>1, <2>3, <2>4, NoMoreAlone
<1>5. CASE "kill" \notin trouble' /\ WispDown
  <2>1. "kill" \notin trouble /\ trouble' = trouble /\ run' = run /\ prog.wisp = "leaving"
    BY <1>5 DEF WispDown
  <2>2. hander = "wisp" /\ \A i \in Dhcp : run[i] = "off"
    BY <2>1 DEF WanInv, HelperRules, ClientInv, Pending, Alive
  <2> QED BY <1>1, <2>1, <2>2, NoMoreAlone
<1> QED BY <1>2, <1>3, <1>4, <1>5 DEF Helper

LEMMA ClientStep == WanInv /\ ClientInv /\ [Next]_vars => ClientInv'
<1> SUFFICES ASSUME WanInv, ClientInv, [Next]_vars PROVE ClientInv'
  OBVIOUS
<1>1. CASE Deliver \/ Plug \/ UNCHANGED vars
  <2>1. UNCHANGED <<mode, hander, run, prog, redial, trouble>>
    BY <1>1 DEF Deliver, Plug, vars, ifaceVars, procVars
  <2> QED BY <2>1, NoMoreAlone
<1> QED BY <1>1, RequestAlone, TimerAlone, ProgramAlone, HelperAlone DEF Next

\* One client on the WAN, and the hander in charge can kill it, whenever the mode is set
\* and whatever timers and helpers start, for any number of processes.  One pppd may be
\* there besides, after a restart that came when the mode had been set, until an if_down
\* leaves nobody; and only a client that a failed fork left alive can be another one.
THEOREM OneClient == Spec => []SingleClient
<1>1. ClientInv => SingleClient
  BY DEF ClientInv
<1> QED BY <1>1, ClientStep, ClientInit, WanInvariant, PTL DEF Spec

----------------------------------------------------------------------------
(***************************************************************************)
(* MailInv: what waits at mu's socket.  mu cannot tell who sent a message, *)
(* and needs not as long as nobody else is on the WAN: the messages of the *)
(* dead come before those of the client that lives, and the address is     *)
(* that client's only when nothing of the dead is left.  What the client   *)
(* said last is what mu reads last; and udhcpc says that it has no address *)
(* before it says that it has one, so that mu takes the new one, while     *)
(* pppd's address may still be the one that mu has.                        *)
(***************************************************************************)
DownOf(i) == [act |-> "down", from |-> i]
UpOf(i)   == [act |-> "up", from |-> i]

AliveSent == \A k \in 1..Len(inbox) : inbox[k].from \in Procs => Alive(inbox[k].from)

AddrAlive == addr \in Procs => Alive(addr)

AddrUp == status = "up" /\ mode # "static" => addr \in Procs \cup {"gone"}

DeadFirst ==
  \A k, l \in 1..Len(inbox) : k < l /\ inbox[k].from \in Procs => inbox[l].from \in Procs

AddrOwn == addr \in Procs => \A k \in 1..Len(inbox) : inbox[k].from \in Procs

UdhcpcSaid ==
  \A i \in Dhcp :
    /\ run[i] = "wait" =>
         IF Len(inbox) = 0 THEN status = "down" ELSE inbox[Len(inbox)] = DownOf(i)
    /\ run[i] = "bound" =>
         IF Len(inbox) = 0 THEN failed \/ (status = "up" /\ addr = i)
         ELSE /\ inbox[Len(inbox)] = UpOf(i)
              /\ IF Len(inbox) = 1 THEN status = "down" ELSE inbox[Len(inbox) - 1] = DownOf(i)

PppdSaid ==
  \A i \in Ppp : run[i] = "bound" =>
    IF Len(inbox) = 0 THEN failed \/ status = "up" ELSE inbox[Len(inbox)] = UpOf(i)

Said == DeadFirst /\ AddrOwn /\ UdhcpcSaid /\ PppdSaid

MailInv == AliveSent /\ AddrAlive /\ AddrUp /\ (Alone => Said)

LEMMA AloneSingle ==
  ASSUME ClientInv, Alone, NEW i \in Procs, Alive(i)
  PROVE  i \in KilledBy(hander) /\ \A j \in Procs : Alive(j) => j = i
<1>1. "kill" \notin trouble /\ "redial" \notin trouble
  BY DEF Alone
<1>2. PICK late : IsLate(late) /\ OnlyClient(run, hander, late)
  BY <1>1, SingleMeans DEF ClientInv
<1>3. late = "nobody" /\ "nobody" \notin Procs
  BY <1>1, <1>2, Kinds DEF IsLate
<1> QED BY <1>2, <1>3 DEF OnlyClient, Alive

LEMMA OrphanedAt ==
  ASSUME NEW q \in Seq(Message), NEW ps
  PROVE  /\ Len(Orphaned(q, ps)) = Len(q)
         /\ \A k \in 1..Len(q) : Orphaned(q, ps)[k].from = Owner(q[k].from, ps)
<1> DEFINE m(k) == [act |-> q[k].act, from |-> Owner(q[k].from, ps)]
<1>1. Len(q) \in Nat
  BY LenProperties
<1>2. Orphaned(q, ps) = [k \in 1..Len(q) |-> m(k)]
  BY DEF Orphaned
<1>3. \A k : m(k).from = Owner(q[k].from, ps)
  OBVIOUS
<1> HIDE DEF m
<1> QED BY <1>1, <1>2, <1>3

\* mu reads the oldest message.
LEMMA TakenAt ==
  ASSUME TypeOK, inbox # <<>>, inbox' = Tail(inbox)
  PROVE  /\ Len(inbox) \in Nat \ {0} /\ Len(inbox') = Len(inbox) - 1
         /\ Head(inbox) = inbox[1]
         /\ \A k \in 1..Len(inbox') : inbox'[k] = inbox[k + 1]
<1>1. inbox \in Seq(Message)
  BY DEF TypeOK
<1> QED BY <1>1, HeadTailProperties, EmptySeq, LenProperties

\* A client says something.
LEMMA PostedAt ==
  ASSUME TypeOK, NEW act, NEW i, Post(act, i)
  PROVE  /\ Len(inbox) \in Nat /\ Len(inbox') = Len(inbox) + 1
         /\ inbox'[Len(inbox) + 1] = [act |-> act, from |-> i]
         /\ \A k \in 1..Len(inbox) : inbox'[k] = inbox[k]
<1> DEFINE m == [act |-> act, from |-> i]
<1>1. inbox \in Seq(Message) /\ inbox' = Append(inbox, m)
  BY DEF TypeOK, Post
<1>2. Len(inbox) \in Nat
  BY <1>1, LenProperties
<1> HIDE DEF m
<1> QED BY <1>1, <1>2 DEF m

\* A client that is killed has sent nothing any more, and nobody else is.
LEMMA SentKeeps ==
  ASSUME TypeOK, AliveSent, NEW ps \in SUBSET Procs, inbox' = Orphaned(inbox, ps),
         \A i \in Procs \ ps : Alive(i) => run'[i] # "off"
  PROVE  /\ Len(inbox') = Len(inbox)
         /\ AliveSent'
         /\ (\A i \in Procs : Alive(i) => i \in ps) =>
              \A k \in 1..Len(inbox') : inbox'[k].from \notin Procs
<1>1. inbox \in Seq(Message)
  BY DEF TypeOK
<1>2. /\ Len(inbox') = Len(inbox)
      /\ \A k \in 1..Len(inbox) : inbox'[k].from = Owner(inbox[k].from, ps)
  BY <1>1, OrphanedAt
<1>3. ASSUME NEW k \in 1..Len(inbox), Owner(inbox[k].from, ps) \in Procs
      PROVE  /\ inbox[k].from \in Procs \ ps /\ Alive(inbox[k].from)
             /\ Owner(inbox[k].from, ps) = inbox[k].from
  BY <1>3, Kinds DEF Owner, AliveSent
<1>4. AliveSent'
  BY <1>2, <1>3 DEF AliveSent, Alive
<1> QED BY <1>2, <1>3, <1>4

\* A step that takes nothing from the queue, and lets live who has the address.
LEMMA AddrKeeps ==
  ASSUME AddrAlive, AddrUp, NEW ps \in SUBSET Procs,
         addr' \in {Owner(addr, ps), "nobody", "static"},
         \A i \in Procs \ ps : Alive(i) => run'[i] # "off",
         status' = "up" => \/ mode' = "static"
                           \/ status = "up" /\ mode' = mode /\ addr' = Owner(addr, ps)
  PROVE  AddrAlive' /\ AddrUp'
<1>1. AddrAlive'
  BY Kinds DEF AddrAlive, Alive, Owner
<1>2. AddrUp'
  BY DEF AddrUp, Owner
<1> QED BY <1>1, <1>2

\* Nobody is left who has said anything.
LEMMA Anew ==
  ASSUME \A k \in 1..Len(inbox') : inbox'[k].from \notin Procs, addr' \notin Procs,
         \A i \in Dhcp : run'[i] \in {"off", "new"},
         \A i \in Ppp : run'[i] \in {"off", "wait"}
  PROVE  Said'
<1>1. DeadFirst' /\ AddrOwn'
  BY DEF DeadFirst, AddrOwn
<1>2. UdhcpcSaid' /\ PppdSaid'
  BY DEF UdhcpcSaid, PppdSaid
<1> QED BY <1>1, <1>2 DEF Said

LEMMA NobodyLeft ==
  ASSUME AliveSent', AddrAlive', \A i \in Procs : run'[i] = "off"
  PROVE  Said'
<1>1. (\A k \in 1..Len(inbox') : inbox'[k].from \notin Procs) /\ addr' \notin Procs
  BY DEF AliveSent, AddrAlive, Alive
<1> QED BY <1>1, Kinds, Anew

\* What if_up starts when nothing runs has not said anything yet.
LEMMA FreshRuns ==
  ASSUME NEW r \in Runs, \A i \in Procs : r[i] = "off", NEW h \in Modes \cup {"none"}, NEW q \in UpRuns(h, r)
  PROVE  (\A i \in Dhcp : q[i] \in {"off", "new"}) /\ (\A i \in Ppp : q[i] \in {"off", "wait"})
<1>1. CASE h = "dhcp"
  <2>1. q \in Started(r, Dhcp, "new") /\ Dhcp \in SUBSET Procs
    BY <1>1 DEF UpRuns, Procs
  <2>2. \E i \in Dhcp : q[i] = "new" /\ \A j \in Procs : j # i => q[j] = r[j]
    BY <2>1, StartedEffect
  <2> QED BY <2>2, Kinds
<1>2. CASE h = "pppoe"
  <2>1. q \in Started(r, Ppp, "wait") /\ Ppp \in SUBSET Procs
    BY <1>2 DEF UpRuns, Procs
  <2>2. \E i \in Ppp : q[i] = "wait" /\ \A j \in Procs : j # i => q[j] = r[j]
    BY <2>1, StartedEffect
  <2> QED BY <2>2, Kinds
<1>3. CASE h \notin {"dhcp", "pppoe"}
  BY <1>3, Kinds DEF UpRuns
<1> QED BY <1>1, <1>2, <1>3

LEMMA DownUpMail ==
  ASSUME WanInv, SingleClient, MailInv, NEW h \in Modes \cup {"none"}, NEW fails,
         DownUp(h, fails), h = "static" => mode' = h
  PROVE  MailInv'
<1> DEFINE ps == Struck(fails)
           r  == DownRuns(fails)
<1>1. /\ r \in Runs /\ ps \in SUBSET Procs
      /\ \A i \in Procs : i \notin ps => r[i] = run[i]
      /\ TypeOK
  BY DownTypes DEF WanInv
<1>2. inbox' = Orphaned(inbox, ps) /\ (run' = r \/ run' \in UpRuns(h, r))
  BY DEF DownUp
<1>3. addr' \in {"static", "nobody"} /\ (status' = "up" => mode' = "static")
  BY DEF DownUp, UpStatic
<1> HIDE DEF ps, r
<1>4. \A i \in Procs : r[i] # "off" => run'[i] # "off"
  <2>1. CASE run' = r
    BY <2>1
  <2>2. CASE run' \in UpRuns(h, r)
    <3>1. CASE h = "dhcp"
      <4>1. run' \in Started(r, Dhcp, "new") /\ Dhcp \in SUBSET Procs
        BY <2>2, <3>1, Kinds DEF UpRuns
      <4> QED BY <1>1, <4>1, StartedKeeps
    <3>2. CASE h = "pppoe"
      <4>1. run' \in Started(r, Ppp, "wait") /\ Ppp \in SUBSET Procs
        BY <2>2, <3>2, Kinds DEF UpRuns
      <4> QED BY <1>1, <4>1, StartedKeeps
    <3>3. CASE h \notin {"dhcp", "pppoe"}
      BY <2>2, <3>3 DEF UpRuns
    <3> QED BY <3>1, <3>2, <3>3
  <2> QED BY <1>2, <2>1, <2>2
<1>5. \A i \in Procs \ ps : Alive(i) => run'[i] # "off"
  BY <1>1, <1>4 DEF Alive
<1>6. /\ AliveSent'
      /\ (\A i \in Procs : Alive(i) => i \in ps) =>
           \A k \in 1..Len(inbox') : inbox'[k].from \notin Procs
  BY <1>1, <1>2, <1>5, SentKeeps DEF MailInv
<1>7. AddrAlive' /\ AddrUp'
  BY <1>1, <1>3, <1>5, AddrKeeps DEF MailInv
<1>8. ASSUME Alone' PROVE Said'
  <2>1. "kill" \notin trouble' /\ "redial" \notin trouble'
    BY <1>8 DEF Alone
  <2>2. PICK late : IsLate(late)' /\ \A i \in Procs \ {late} : r[i] = "off"
    BY <1>1, <2>1, DownLeaves DEF r
  <2>3. \A i \in Procs : r[i] = "off"
    BY <2>1, <2>2, Kinds DEF IsLate
  <2>4. \A k \in 1..Len(inbox') : inbox'[k].from \notin Procs
    BY <1>1, <1>6, <2>3 DEF Alive
  <2>5. (\A i \in Dhcp : run'[i] \in {"off", "new"}) /\ (\A i \in Ppp : run'[i] \in {"off", "wait"})
    <3>1. CASE run' = r
      BY <2>3, <3>1, Kinds
    <3>2. CASE run' \in UpRuns(h, r)
      BY <1>1, <2>3, <3>2, FreshRuns
    <3> QED BY <1>2, <3>1, <3>2
  <2> QED BY <1>3, <2>4, <2>5, Kinds, Anew
<1> QED BY <1>6, <1>7, <1>8 DEF MailInv

\* Killing by name, outside if_down.
LEMMA KillMail ==
  ASSUME WanInv, MailInv, NEW ps \in SUBSET Procs, run' = Killed(run, ps),
         inbox' = Orphaned(inbox, ps), addr' = Owner(addr, ps), UNCHANGED <<mode, status>>,
         Alone' => \A i \in Procs : run'[i] = "off"
  PROVE  MailInv'
<1>1. \A i \in Procs \ ps : Alive(i) => run'[i] # "off"
  BY WanFacts, KilledEffect DEF Alive
<1>2. AliveSent'
  BY <1>1, SentKeeps DEF MailInv, WanInv
<1>3. AddrAlive' /\ AddrUp'
  BY <1>1, AddrKeeps DEF MailInv
<1> QED BY <1>2, <1>3, NobodyLeft DEF MailInv

LEMMA PppoeDoMail ==
  ASSUME WanInv, ClientInv, MailInv, PppoeDo
  PROVE  MailInv'
<1>1. PICK ps \in {{}, Ppp} :
        run' = Killed(run, ps) /\ inbox' = Orphaned(inbox, ps) /\ addr' = Owner(addr, ps)
  BY DEF PppoeDo, KillPpp
<1>2. ps \in SUBSET Procs /\ UNCHANGED <<mode, status>>
  BY <1>1, Kinds DEF PppoeDo
<1>3. Alone' => \A i \in Procs : run'[i] = "off"
  BY PppoeDoLeaves DEF Alone
<1> QED BY <1>1, <1>2, <1>3, KillMail

LEMMA WispLostMail ==
  ASSUME WanInv, ClientInv, MailInv, WispLost
  PROVE  MailInv'
<1>1. PICK ps \in {{}, Dhcp} :
        /\ run' = Killed(run, ps) /\ inbox' = Orphaned(inbox, ps) /\ addr' = Owner(addr, ps)
        /\ trouble' = trouble \cup (IF Dhcp \cap Running(run') # {} THEN {"kill"} ELSE {})
  BY DEF WispLost
<1>2. ps \in SUBSET Procs /\ UNCHANGED <<mode, status>> /\ prog.wisp # "off"
  BY <1>1, Kinds DEF WispLost
<1>3. ASSUME Alone' PROVE \A i \in Procs : run'[i] = "off"
  <2>1. trouble' = trouble /\ (\A i \in Dhcp : run'[i] = "off") /\ Alone
    BY <1>1, <1>3, Kinds DEF Alone, Running
  <2>2. KilledBy(hander) = Dhcp
    BY <1>2, <2>1 DEF Alone, WanInv, HelperRules, KilledBy
  <2>3. \A i \in Procs : run'[i] # "off" => run[i] # "off"
    BY <1>1, WanFacts, KilledEffect
  <2> QED BY <2>1, <2>2, <2>3, AloneSingle DEF Alive
<1> QED BY <1>1, <1>2, <1>3, KillMail

LEMMA WispDownMail ==
  ASSUME WanInv, ClientInv, MailInv, WispDown
  PROVE  MailInv'
<1>1. UNCHANGED <<mode, status, addr, run, trouble>> /\ prog.wisp = "leaving"
  BY DEF WispDown, ifaceVars
<1>2. AliveSent'
  <2>1. CASE UNCHANGED inbox
    BY <1>1, <2>1 DEF MailInv, AliveSent, Alive
  <2>2. CASE Post("down", "wisp")
    <3> DEFINE n == Len(inbox)
               m == [act |-> "down", from |-> "wisp"]
    <3>1. /\ n \in Nat /\ Len(inbox') = n + 1 /\ inbox'[n + 1] = m
          /\ \A k \in 1..n : inbox'[k] = inbox[k]
      BY <2>2, PostedAt DEF WanInv
    <3>2. m.from \notin Procs
      BY Kinds
    <3>3. \A k \in 1..n : inbox[k].from \in Procs => run[inbox[k].from] # "off"
      BY DEF MailInv, AliveSent, Alive
    <3> HIDE DEF m, n
    <3> QED BY <1>1, <3>1, <3>2, <3>3 DEF AliveSent, Alive
  <2> QED BY <2>1, <2>2 DEF WispDown
<1>3. AddrAlive' /\ AddrUp'
  BY <1>1 DEF MailInv, AddrAlive, AddrUp, Alive
<1>4. ASSUME Alone' PROVE \A i \in Procs : run'[i] = "off"
  <2>1. Alone /\ "kill" \notin trouble
    BY <1>1, <1>4 DEF Alone
  <2>2. hander = "wisp"
    BY <1>1, <2>1 DEF WanInv, HelperRules
  <2>3. \A i \in Dhcp : ~Alive(i)
    BY <1>1, <2>1, <2>2 DEF ClientInv, Pending
  <2> QED BY <1>1, <2>1, <2>2, <2>3, AloneSingle DEF KilledBy, Alive
<1> QED BY <1>2, <1>3, <1>4, NobodyLeft DEF MailInv

\* Another client is started, the first one if nobody else is to be on the WAN.
LEMMA FirstMail ==
  ASSUME WanInv, MailInv, inbox' = inbox, mode' = mode, addr' \in {addr, "nobody"},
         status' = "up" => status = "up" /\ addr' = addr,
         NEW ps \in {Dhcp, Ppp},
         run' = run \/ run' \in Started(run, ps, IF ps = Dhcp THEN "new" ELSE "wait"),
         Alone' => \A i \in Procs : run[i] = "off"
  PROVE  MailInv'
<1> DEFINE state == IF ps = Dhcp THEN "new" ELSE "wait"
<1>1. ps \in SUBSET Procs /\ state \in {"new", "wait"} /\ run \in Runs
  BY WanFacts, Kinds
<1>2. \/ run' = run
      \/ \E i \in ps : run[i] = "off" /\ run'[i] = state /\ \A j \in Procs : j # i => run'[j] = run[j]
  BY <1>1, StartedEffect
<1>3. (state = "new" /\ ps = Dhcp) \/ (state = "wait" /\ ps = Ppp)
  OBVIOUS
<1> HIDE DEF state
<1>4. \A i \in Procs : run[i] # "off" => run'[i] # "off"
  BY <1>2
<1>5. AliveSent'
  BY <1>4 DEF MailInv, AliveSent, Alive
<1>6. AddrAlive' /\ AddrUp'
  BY <1>4, Kinds DEF MailInv, AddrAlive, AddrUp, Alive
<1>7. ASSUME Alone' PROVE Said'
  <2>1. \A i \in Procs : run[i] = "off"
    BY <1>7
  <2>2. (\A k \in 1..Len(inbox') : inbox'[k].from \notin Procs) /\ addr' \notin Procs
    BY <2>1, Kinds DEF MailInv, AliveSent, AddrAlive, Alive
  <2>3. (\A i \in Dhcp : run'[i] \in {"off", "new"}) /\ (\A i \in Ppp : run'[i] \in {"off", "wait"})
    BY <1>2, <1>3, <2>1, Kinds
  <2> QED BY <2>2, <2>3, Anew
<1> QED BY <1>5, <1>6, <1>7 DEF MailInv

LEMMA PppdRestartMail ==
  ASSUME WanInv, ClientInv, MailInv, PppdRestart
  PROVE  MailInv'
<1>1. inbox' = inbox /\ mode' = mode /\ redial # "no"
  BY DEF PppdRestart
<1>2. addr' \in {addr, "nobody"} /\ (status' = "up" => status = "up" /\ addr' = addr)
  BY DEF PppdRestart, IpDown
<1>3. PICK fails \in SUBSET {"start"} :
        /\ run' \in IF fails = {} THEN Started(run, Ppp, "wait") ELSE {run}
        /\ trouble' = trouble \cup fails
             \cup (IF redial = "stale" \/ hander # "pppoe" THEN {"redial"} ELSE {})
  BY DEF PppdRestart
<1>4. run' = run \/ run' \in Started(run, Ppp, "wait")
  BY <1>3
<1>5. ASSUME Alone' PROVE \A i \in Procs : run[i] = "off"
  <2>1. Alone /\ "kill" \notin trouble /\ redial = "due" /\ hander = "pppoe"
    BY <1>1, <1>3, <1>5, WanFacts DEF Alone
  <2>2. \A i \in Ppp : ~Alive(i)
    BY <2>1 DEF ClientInv, Pending
  <2> QED BY <2>1, <2>2, AloneSingle DEF KilledBy, Alive
<1>6. CASE Ppp = Dhcp
  <2>1. Ppp = {}
    BY <1>6, Kinds
  <2>2. run' = run
    BY <1>4, <2>1 DEF Started
  <2> QED BY <1>1, <1>2, <1>5, <2>2, FirstMail
<1>7. CASE Ppp # Dhcp
  BY <1>1, <1>2, <1>4, <1>5, <1>7, FirstMail
<1> QED BY <1>6, <1>7

LEMMA HelperMail ==
  ASSUME WanInv, ClientInv, MailInv, Helper
  PROVE  MailInv'
<1>1. ASSUME WispUp \/ W3gDials
      PROVE  /\ UNCHANGED <<mode, status, addr, inbox>>
             /\ Alone' => \A i \in Procs : run[i] = "off"
  <2>1. UNCHANGED <<mode, status, addr, inbox, trouble>>
    BY <1>1 DEF WispUp, W3gDials, ifaceVars
  <2>2. ASSUME Alone' PROVE \A i \in Procs : run[i] = "off"
    <3>1. Alone /\ "kill" \notin trouble
      BY <2>1, <2>2 DEF Alone
    <3>2. \A i \in KilledBy(hander) : run[i] = "off"
      BY <1>1, <3>1, HelperStarts
    <3> QED BY <3>1, <3>2, AloneSingle DEF Alive
  <2> QED BY <2>1, <2>2
<1>2. CASE WispUp
  <2>1. run' = run \/ run' \in Started(run, Dhcp, "new")
    BY <1>2 DEF WispUp
  <2> QED BY <1>1, <1>2, <2>1, FirstMail
<1>3. CASE W3gDials
  <2>1. run' \in Started(run, Ppp, "wait")
    BY <1>3 DEF W3gDials
  <2>2. Ppp # Dhcp
    <3>1. \E i \in Ppp : TRUE
      BY <2>1 DEF Started
    <3> QED BY <3>1, Kinds
  <2> QED BY <1>1, <1>3, <2>1, <2>2, FirstMail
<1> QED BY <1>2, <1>3, WispLostMail, WispDownMail DEF Helper

\* A client says something: a udhcpc that it has no address before it has one.
LEMMA SaysMail ==
  ASSUME WanInv, ClientInv, MailInv, NEW i \in Procs, run[i] # "off",
         NEW state, NEW act, run' = [run EXCEPT ![i] = state], Post(act, i),
         UNCHANGED <<ifaceVars, trouble>>,
         \/ state = "wait" /\ act = "down"
         \/ state = "bound" /\ act = "up" /\ run[i] = "wait"
  PROVE  MailInv'
<1> DEFINE n == Len(inbox)
           m == [act |-> act, from |-> i]
<1>1. /\ n \in Nat /\ Len(inbox') = n + 1 /\ inbox'[n + 1] = m
      /\ \A k \in 1..n : inbox'[k] = inbox[k]
  BY PostedAt DEF WanInv
<1>2. run'[i] = state /\ \A j \in Procs : j # i => run'[j] = run[j]
  BY WanFacts DEF Runs
<1>3. addr' = addr /\ status' = status /\ mode' = mode /\ failed' = failed /\ trouble' = trouble
  BY DEF ifaceVars
<1>4. m.from = i
  OBVIOUS
<1>5. \A j \in Procs : Alive(j) => run'[j] # "off"
  BY <1>2 DEF Alive
<1>6. AliveSent'
  <2> HIDE DEF m
  <2> QED BY <1>1, <1>2, <1>4, <1>5 DEF MailInv, AliveSent, Alive
<1>7. AddrAlive' /\ AddrUp'
  BY <1>3, <1>5 DEF MailInv, AddrAlive, AddrUp, Alive
<1>8. m = IF state = "wait" THEN DownOf(i) ELSE UpOf(i)
  BY DEF DownOf, UpOf
<1>9. ASSUME Alone' PROVE Said'
  <2>1. Alone /\ Said
    BY <1>3, <1>9 DEF Alone, MailInv
  <2>2. \A j \in Procs : j # i => run'[j] = "off"
    BY <1>2, <2>1, AloneSingle DEF Alive
  <2>3. DeadFirst' /\ AddrOwn'
    <3> HIDE DEF m, n
    <3>1. DeadFirst'
      BY <1>1, <1>4, <2>1 DEF Said, DeadFirst, n
    <3>2. AddrOwn'
      BY <1>1, <1>3, <1>4, <2>1 DEF Said, AddrOwn, n
    <3> QED BY <3>1, <3>2
  <2> HIDE DEF m
  <2>4. UdhcpcSaid'
    <3> SUFFICES ASSUME NEW j \in Dhcp, run'[j] \in {"wait", "bound"}
                 PROVE  /\ run'[j] = "wait" => inbox'[Len(inbox')] = DownOf(j)
                        /\ run'[j] = "bound" =>
                             /\ inbox'[Len(inbox')] = UpOf(j)
                             /\ IF Len(inbox') = 1 THEN status' = "down"
                                ELSE inbox'[Len(inbox') - 1] = DownOf(j)
      BY <1>1 DEF UdhcpcSaid
    <3>1. j = i
      BY <2>2, Kinds
    <3>2. CASE state = "wait"
      BY <1>1, <1>2, <1>8, <3>1, <3>2
    <3>3. CASE state = "bound" /\ run[i] = "wait"
      <4>1. IF n = 0 THEN status = "down" ELSE inbox[n] = DownOf(i)
        BY <2>1, <3>1, <3>3 DEF Said, UdhcpcSaid
      <4>2. n # 0 => inbox'[n] = inbox[n] /\ Len(inbox') - 1 = n
        BY <1>1
      <4>3. Len(inbox') = 1 <=> n = 0
        BY <1>1
      <4> HIDE DEF n
      <4> QED BY <1>1, <1>2, <1>3, <1>8, <3>1, <3>3, <4>1, <4>2, <4>3
    <3> QED BY <3>2, <3>3
  <2>5. PppdSaid'
    <3> SUFFICES ASSUME NEW j \in Ppp, run'[j] = "bound"
                 PROVE  inbox'[Len(inbox')] = UpOf(j)
      BY <1>1 DEF PppdSaid
    <3>1. j = i
      BY <2>2, Kinds
    <3> QED BY <1>1, <1>2, <1>8, <3>1
  <2> QED BY <2>3, <2>4, <2>5 DEF Said
<1> QED BY <1>6, <1>7, <1>9 DEF MailInv

LEMMA ProgramMail ==
  ASSUME WanInv, ClientInv, MailInv, Client
  PROVE  MailInv'
<1>1. ASSUME NEW i \in Procs, run[i] # "off", run' = [run EXCEPT ![i] = "wait"],
             Post("down", i), UNCHANGED <<ifaceVars, trouble>>
      PROVE  MailInv'
  BY <1>1, SaysMail
<1>2. ASSUME NEW i \in Dhcp, Deconfig(i) PROVE MailInv'
  BY <1>1, <1>2, Kinds DEF Deconfig
<1>3. ASSUME NEW i \in Ppp, PppLost(i) PROVE MailInv'
  BY <1>1, <1>3, Kinds DEF PppLost
<1>4. ASSUME NEW i \in Procs, Bound(i) PROVE MailInv'
  BY <1>4, SaysMail DEF Bound
<1> QED BY <1>2, <1>3, <1>4 DEF Client

LEMMA MailInit == Init => MailInv
<1> SUFFICES ASSUME Init PROVE MailInv
  OBVIOUS
<1> DEFINE off == [i \in Procs |-> "off"]
<1>1. mode \in Modes /\ inbox = <<>>
  BY DEF Init
<1>2. PICK fails \in SUBSET (Forks(mode) \cap {"start"}) :
        run \in IF "start" \in fails THEN {off} ELSE UpRuns(mode, off)
  BY DEF Init
<1>3. run = off \/ run \in UpRuns(mode, off)
  BY <1>2
<1>4. addr \in {"static", "nobody"} /\ (status = "up" => mode = "static")
  BY DEF Init
<1>5. off \in Runs /\ \A i \in Procs : off[i] = "off"
  BY DEF Runs
<1> HIDE DEF off
<1>6. (\A i \in Dhcp : run[i] \in {"off", "new"}) /\ (\A i \in Ppp : run[i] \in {"off", "wait"})
  BY <1>1, <1>3, <1>5, FreshRuns, Kinds
<1>7. AliveSent /\ AddrAlive /\ AddrUp /\ DeadFirst /\ AddrOwn
  BY <1>1, <1>4, Kinds DEF AliveSent, AddrAlive, AddrUp, DeadFirst, AddrOwn
<1>8. UdhcpcSaid /\ PppdSaid
  BY <1>6 DEF UdhcpcSaid, PppdSaid
<1> QED BY <1>7, <1>8 DEF MailInv, Said

LEMMA StillMail ==
  ASSUME MailInv, UNCHANGED <<mode, status, addr, failed, run, inbox, trouble>>
  PROVE  MailInv'
<1>1. AliveSent' /\ AddrAlive' /\ AddrUp' /\ (Alone' => Alone)
  BY DEF MailInv, AliveSent, AddrAlive, AddrUp, Alive, Alone
<1>2. Said => Said'
  BY DEF Said, DeadFirst, AddrOwn, UdhcpcSaid, PppdSaid
<1> QED BY <1>1, <1>2 DEF MailInv

\* In static mode nobody runs who could say anything.
LEMMA StaticQuiet ==
  ASSUME WanInv, ClientInv, Alone, mode = "static"
  PROVE  \A i \in Procs : run[i] = "off"
<1>1. "kill" \notin trouble
  BY DEF Alone
<1>2. hander = "static" \/ (hander = "wisp" /\ prog.wisp = "off")
  BY <1>1 DEF WanInv, Unsaved, ClientInv, Pending
<1>3. hander = "wisp" => \A i \in Dhcp : ~Alive(i)
  BY <1>1, <1>2 DEF ClientInv, Pending
<1> QED BY <1>2, <1>3, AloneSingle DEF KilledBy, Alive

\* mu reads a message: what holds whoever is on the WAN.
LEMMA DeliverSent ==
  ASSUME WanInv, MailInv, Deliver
  PROVE  AliveSent' /\ AddrAlive' /\ AddrUp'
<1> DEFINE n == Len(inbox)
<1>1. /\ n \in Nat \ {0} /\ Len(inbox') = n - 1 /\ Head(inbox) = inbox[1]
      /\ \A k \in 1..(n - 1) : inbox'[k] = inbox[k + 1]
  BY TakenAt DEF WanInv, Deliver
<1>2. UNCHANGED <<mode, run>>
  BY DEF Deliver
<1>3. \A k \in 1..n : inbox[k].from \in Procs => run[inbox[k].from] # "off"
  BY DEF MailInv, AliveSent, Alive
<1>4. inbox[1] \in Message
  BY <1>1, TakeType DEF WanInv, Deliver
<1> HIDE DEF n
<1>5. inbox[1].act = "up" => inbox[1].from \in Procs \cup {"gone"}
  BY <1>4 DEF Message, Senders
<1>6. /\ addr' = addr \/ addr' = "nobody" \/ (inbox[1].act = "up" /\ addr' = inbox[1].from)
      /\ status' = "up" => \/ status = "up" /\ addr' = addr
                           \/ inbox[1].act = "up" /\ addr' = inbox[1].from
  BY <1>1 DEF Deliver, IpUp, IpDown
<1>7. AliveSent'
  <2> SUFFICES ASSUME NEW k \in 1..(n - 1), inbox'[k].from \in Procs
               PROVE  run[inbox'[k].from] # "off"
    BY <1>1, <1>2 DEF AliveSent, Alive
  <2>1. inbox'[k] = inbox[k + 1] /\ k + 1 \in 1..n
    BY <1>1
  <2> QED BY <1>3, <2>1
<1>8. AddrAlive'
  <2>1. 1 \in 1..n
    BY <1>1
  <2> QED BY <1>2, <1>3, <1>6, <2>1, Kinds DEF MailInv, AddrAlive, Alive
<1>9. AddrUp'
  BY <1>2, <1>5, <1>6 DEF MailInv, AddrUp
<1> QED BY <1>7, <1>8, <1>9

\* mu reads a message of its only client, or of a dead one.
LEMMA DeliverSaid ==
  ASSUME WanInv, MailInv, Said, Deliver, mode # "static"
  PROVE  Said'
<1> DEFINE n == Len(inbox)
<1>1. /\ n \in Nat \ {0} /\ Len(inbox') = n - 1 /\ Head(inbox) = inbox[1]
      /\ \A k \in 1..(n - 1) : inbox'[k] = inbox[k + 1]
  BY TakenAt DEF WanInv, Deliver
<1>2. UNCHANGED <<mode, run>>
  BY DEF Deliver
<1> HIDE DEF n
<1>3. /\ inbox[1].act = "up" => IpUp(inbox[1].from)
      /\ inbox[1].act # "up" => IpDown
  BY <1>1 DEF Deliver
<1>4. DeadFirst'
  <2> SUFFICES ASSUME NEW k \in 1..(n - 1), NEW l \in 1..(n - 1), k < l,
                      inbox'[k].from \in Procs
               PROVE  inbox'[l].from \in Procs
    BY <1>1 DEF DeadFirst
  <2>1. inbox'[k] = inbox[k + 1] /\ inbox'[l] = inbox[l + 1]
    BY <1>1
  <2>2. k + 1 \in 1..n /\ l + 1 \in 1..n /\ k + 1 < l + 1
    BY <1>1
  <2> QED BY <2>1, <2>2 DEF Said, DeadFirst, n
<1>5. addr' = addr \/ addr' = "nobody" \/ (inbox[1].act = "up" /\ addr' = inbox[1].from)
  BY <1>3 DEF IpUp, IpDown
<1>6. AddrOwn'
  <2> SUFFICES ASSUME addr' \in Procs
               PROVE  \A k \in 1..(n - 1) : inbox'[k].from \in Procs
    BY <1>1 DEF AddrOwn
  <2>1. CASE addr' = addr
    <3>1. \A k \in 1..n : inbox[k].from \in Procs
      BY <2>1 DEF Said, AddrOwn, n
    <3> QED BY <1>1, <3>1
  <2>2. CASE addr' = inbox[1].from
    <3>1. \A l \in 1..n : 1 < l => inbox[l].from \in Procs
      BY <1>1, <2>2 DEF Said, DeadFirst, n
    <3> QED BY <1>1, <3>1
  <2> QED BY <1>5, <2>1, <2>2, Kinds
<1>7. UdhcpcSaid'
  <2> SUFFICES ASSUME NEW j \in Dhcp
               PROVE  /\ run[j] = "wait" =>
                           IF n = 1 THEN status' = "down" ELSE inbox'[n - 1] = DownOf(j)
                      /\ run[j] = "bound" =>
                           IF n = 1 THEN failed' \/ (status' = "up" /\ addr' = j)
                           ELSE /\ inbox'[n - 1] = UpOf(j)
                                /\ IF n = 2 THEN status' = "down"
                                   ELSE inbox'[n - 2] = DownOf(j)
    BY <1>1, <1>2 DEF UdhcpcSaid
  <2>1. /\ run[j] = "wait" => inbox[n] = DownOf(j)
        /\ run[j] = "bound" =>
             /\ inbox[n] = UpOf(j)
             /\ IF n = 1 THEN status = "down" ELSE inbox[n - 1] = DownOf(j)
    BY <1>1 DEF Said, UdhcpcSaid, n
  <2>2. DownOf(j).act = "down" /\ UpOf(j).act = "up" /\ UpOf(j).from = j
    BY DEF DownOf, UpOf
  <2>3. inbox[1].act = "down" => status' = "down"
    BY <1>3 DEF IpDown
  <2>4. n # 1 => inbox'[n - 1] = inbox[n]
    BY <1>1
  <2>5. n \notin {1, 2} => inbox'[n - 2] = inbox[n - 1]
    BY <1>1
  <2>6. inbox[1] = UpOf(j) /\ status = "down" => failed' \/ (status' = "up" /\ addr' = j)
    BY <1>3, <2>2 DEF IpUp
  <2>7. ASSUME run[j] = "wait"
        PROVE  IF n = 1 THEN status' = "down" ELSE inbox'[n - 1] = DownOf(j)
    BY <2>1, <2>2, <2>3, <2>4, <2>7
  <2>8. ASSUME run[j] = "bound"
        PROVE  IF n = 1 THEN failed' \/ (status' = "up" /\ addr' = j)
               ELSE /\ inbox'[n - 1] = UpOf(j)
                    /\ IF n = 2 THEN status' = "down" ELSE inbox'[n - 2] = DownOf(j)
    <3>1. CASE n = 1
      BY <2>1, <2>6, <2>8, <3>1
    <3>2. CASE n = 2
      BY <2>1, <2>2, <2>3, <2>4, <2>8, <3>2
    <3>3. CASE n \notin {1, 2}
      BY <2>1, <2>4, <2>5, <2>8, <3>3
    <3> QED BY <3>1, <3>2, <3>3
  <2> QED BY <2>7, <2>8
<1>8. PppdSaid'
  <2> SUFFICES ASSUME NEW j \in Ppp, run[j] = "bound"
               PROVE  IF n = 1 THEN failed' \/ status' = "up" ELSE inbox'[n - 1] = UpOf(j)
    BY <1>1, <1>2 DEF PppdSaid
  <2>1. inbox[n] = UpOf(j)
    BY <1>1 DEF Said, PppdSaid, n
  <2>2. CASE n = 1
    <3>1. IpUp(j)
      BY <1>3, <2>1, <2>2 DEF UpOf
    <3> QED BY <2>2, <3>1 DEF IpUp
  <2>3. CASE n # 1
    BY <1>1, <2>1, <2>3
  <2> QED BY <2>2, <2>3
<1> QED BY <1>4, <1>6, <1>7, <1>8 DEF Said

LEMMA DeliverMail ==
  ASSUME WanInv, ClientInv, MailInv, Deliver
  PROVE  MailInv'
<1>1. AliveSent' /\ AddrAlive' /\ AddrUp'
  BY DeliverSent
<1>2. ASSUME Alone' PROVE Said'
  <2>1. Alone /\ Said /\ run' = run
    BY <1>2 DEF Deliver, Alone, MailInv
  <2>2. CASE mode = "static"
    BY <1>1, <2>1, <2>2, StaticQuiet, NobodyLeft
  <2>3. CASE mode # "static"
    BY <2>1, <2>3, DeliverSaid
  <2> QED BY <2>2, <2>3
<1> QED BY <1>1, <1>2 DEF MailInv

\* if_down and if_up, whoever asks for them.
LEMMA ModeMail ==
  ASSUME WanInv, ClientInv, MailInv, Request \/ AutoSwitch \/ LinkCheck
  PROVE  MailInv'
<1>1. SingleClient
  BY DEF ClientInv
<1>2. ASSUME NEW h \in Modes, SetMode(h) PROVE MailInv'
  <2>1. PICK fails \in SUBSET Forks(h) :
          DownUp(h, fails) /\ mode' = IF h = "wisp" /\ "start" \in fails THEN mode ELSE h
    BY <1>2 DEF SetMode
  <2> QED BY <1>1, <2>1, DownUpMail
<1>3. CASE Request
  <2>1. ASSUME ParamRefused PROVE MailInv'
    <3>1. PICK fails \in SUBSET Forks("none") : DownUp("none", fails)
      BY <2>1 DEF ParamRefused
    <3> QED BY <1>1, <3>1, DownUpMail
  <2> QED BY <1>2, <1>3, <2>1 DEF Request, ParamSet
<1>4. CASE AutoSwitch
  BY <1>2, <1>4 DEF AutoSwitch, Modes
<1>5. CASE LinkCheck
  <2>1. hander \in Modes /\ UNCHANGED mode
    BY <1>5 DEF LinkCheck, WanInv, TypeOK
  <2>2. CASE mode = "dhcp" /\ link.cable /\ ~link.ifstats
    <3>1. PICK fails \in SUBSET Forks(hander) : DownUp(hander, fails)
      BY <1>5, <2>2 DEF LinkCheck
    <3>2. hander # "static"
      BY <2>2 DEF WanInv, Unsaved
    <3> QED BY <1>1, <2>1, <3>1, <3>2, DownUpMail
  <2>3. CASE ~(mode = "dhcp" /\ link.cable /\ ~link.ifstats)
    BY <1>5, <2>1, <2>3, StillMail DEF LinkCheck, procVars
  <2> QED BY <2>2, <2>3
<1> QED BY <1>3, <1>4, <1>5

LEMMA MailStep == WanInv /\ ClientInv /\ MailInv /\ [Next]_vars => MailInv'
<1> SUFFICES ASSUME WanInv, ClientInv, MailInv, [Next]_vars PROVE MailInv'
  OBVIOUS
<1>1. CASE AutoStop \/ Plug \/ UNCHANGED vars
  BY <1>1, StillMail DEF AutoStop, Plug, vars, ifaceVars, procVars
<1>2. CASE Timer
  BY <1>1, <1>2, ModeMail, PppoeDoMail, PppdRestartMail DEF Timer
<1> QED BY <1>1, <1>2, ModeMail, DeliverMail, ProgramMail, HelperMail DEF Next

----------------------------------------------------------------------------
(***************************************************************************)
(* What mu knows of its client.                                            *)
(***************************************************************************)
\* WanInv, ClientInv and MailInv together.
THEOREM MailInvariant == Spec => [](WanInv /\ ClientInv /\ MailInv)
BY MailInit, MailStep, ClientInit, ClientStep, WanInvariant, PTL DEF Spec

\* A client that has an address has the interface up when mu has read all, a udhcpc with
\* its own address, for any number of processes and of messages of dead clients that
\* mu cannot tell from those of the client that lives: unless another one is on the WAN,
\* which a failed fork left alive or a late restart of pppd has started.
THEOREM BoundReported == Spec => []Reported
<1>1. MailInv => Reported
  <2> SUFFICES ASSUME MailInv, Alone, inbox = <<>>, ~failed, NEW i \in Procs, run[i] = "bound"
               PROVE  status = "up" /\ (i \in Dhcp => addr = i)
    BY DEF Reported
  <2>1. Len(inbox) = 0
    OBVIOUS
  <2>2. CASE i \in Dhcp
    BY <2>1, <2>2 DEF MailInv, Said, UdhcpcSaid
  <2>3. CASE i \in Ppp
    BY <2>1, <2>3, Kinds DEF MailInv, Said, PppdSaid
  <2> QED BY <2>2, <2>3, Kinds
<1> QED BY <1>1, MailInvariant, PTL

\* Only a message that mu reads can take the interface down while the queue shrinks.
LEMMA DownByMail ==
  ASSUME WanInv, [Next]_vars,
         inbox # <<>>, inbox' = Tail(inbox), status = "up", status' = "down"
  PROVE  Deliver
<1>1. /\ inbox \in Seq(Message) /\ Len(inbox) \in Nat \ {0}
      /\ Len(inbox') = Len(inbox) - 1
  BY TakenAt DEF WanInv, TypeOK
<1>2. ASSUME NEW h, NEW fails, DownUp(h, fails) PROVE FALSE
  <2>1. Len(inbox') = Len(inbox)
    BY <1>1, <1>2, OrphanedAt DEF DownUp
  <2> QED BY <1>1, <2>1
<1>3. ~Request /\ ~AutoSwitch
  BY <1>2 DEF Request, ParamSet, ParamRefused, AutoSwitch, SetMode
<1>4. ~LinkCheck
  BY <1>2 DEF LinkCheck
<1>5. inbox' # inbox
  <2> DEFINE n == Len(inbox)
  <2>1. n \in Nat /\ Len(inbox') = n - 1
    BY <1>1
  <2> HIDE DEF n
  <2>2. n - 1 # n
    BY <2>1
  <2> QED BY <2>1, <2>2 DEF n
<1>6. ~PppdRestart /\ ~AutoStop /\ ~PppoeDo
  BY <1>5 DEF PppdRestart, AutoStop, PppoeDo, procVars
<1>7. ~Client /\ ~Helper /\ ~Plug /\ ~UNCHANGED vars
  BY <1>5 DEF Client, Deconfig, PppLost, Bound, Helper, WispUp, WispLost, WispDown, W3gDials,
              Plug, vars, ifaceVars, procVars
<1> QED BY <1>3, <1>4, <1>6, <1>7 DEF Next, Timer

\* However late a message that an address is lost is read, the interface that it takes
\* down had that address or a dead client's, as long as no other client is on the WAN.
THEOREM DownsAreOwn == Spec => DownIsOwn
<1> DEFINE Own == Alone /\ inbox # <<>> /\ inbox' = Tail(inbox) /\ status = "up" /\ status' = "down" =>
                    addr \in {Head(inbox).from, "gone"}
<1>1. WanInv /\ ClientInv /\ MailInv /\ [Next]_vars => [Own]_vars
  <2> SUFFICES ASSUME WanInv, ClientInv, MailInv, [Next]_vars, Alone, inbox # <<>>,
                      inbox' = Tail(inbox), status = "up", status' = "down"
               PROVE  addr \in {Head(inbox).from, "gone"}
    OBVIOUS
  <2>1. Deliver
    BY DownByMail
  <2>2. Len(inbox) \in Nat \ {0} /\ Head(inbox) = inbox[1]
    BY TakenAt DEF WanInv
  <2>3. addr \in Procs \cup {"gone"}
    BY <2>1 DEF MailInv, AddrUp, Deliver
  <2>4. CASE addr \in Procs
    <3>1. inbox[1].from \in Procs /\ Alive(addr)
      BY <2>2, <2>4 DEF MailInv, Said, AddrOwn, AddrAlive
    <3>2. Alive(inbox[1].from)
      BY <2>2, <3>1 DEF MailInv, AliveSent
    <3> QED BY <2>2, <2>4, <3>1, <3>2, AloneSingle
  <2> QED BY <2>3, <2>4
<1>2. Spec => [][Own]_vars
  BY <1>1, MailInvariant, PTL DEF Spec
<1> QED BY <1>2 DEF DownIsOwn
=============================================================================
