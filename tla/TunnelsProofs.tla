--------------------------- MODULE TunnelsProofs ---------------------------
(***************************************************************************)
(* Theorems about Tunnels, for any delays, addresses and results of        *)
(* malloc: nothing of a tunnel outlives the settings it belongs to.        *)
(***************************************************************************)
EXTENDS Tunnels, SchedulerProofs, FiniteSetTheorems

Lists     == Seq(Entry)
Statics   == [Slots -> Addrs \cup {Null}]
Tables    == [Slots -> Tunnel]
Rules     == [masq : SUBSET Slots, dnat : SUBSET Slots, jumps : Nat]
Processes == [pptp : SUBSET Slots, l2tp : SUBSET Slots, xl2tpd : BOOLEAN]
Pppds     == SUBSET (Slots \X Kinds)

\* The states a handler goes through.
State ==
  [evs : Lists, h : Statics, tcfg : Tables, nat : Rules, procs : Processes,
   started : Pppds, ret : {0, -1}]

(***************************************************************************)
(* A slot: u is the tunnel in it, p and l say whether there is a pppd of   *)
(* either kind, a is what l2tp[] has.  The hander has to be known too: it  *)
(* decides what tunnel_down kills, and a request that fails half-way       *)
(* leaves it apart from the settings.  A restart goes by the index in the  *)
(* settings, which is that of the slot in all that have a name.            *)
(***************************************************************************)
Wants(u, kind) == u.invalid /\ u.conf.enable /\ u.conf.type = kind

SlotOK(u, i, p, l, a) ==
  /\ ~u.invalid => u.hander = None /\ u.status # "up" /\ ~u.conf.named
  /\ u.invalid => u.hander \in Kinds
  /\ u.conf.named => u.conf.index = i /\ u.conf.type \in Kinds
  /\ p => u.hander = "pptp" /\ Wants(u, "pptp")
  /\ l => u.hander = "l2tp" /\ Wants(u, "l2tp")
  /\ a # Null => u.hander = "l2tp" /\ Wants(u, "l2tp") /\ u.conf.index = i

SlotsOK(tc, pr, h) ==
  \A i \in Slots : SlotOK(tc[i], i, i \in pr.pptp, i \in pr.l2tp, h[i])

UpOf(tc) == {i \in Slots : tc[i].status = "up"}

RulesOK(tc, n) ==
  /\ n.masq = UpOf(tc) /\ n.dnat \subseteq UpOf(tc)
  /\ n.jumps <= Cardinality(UpOf(tc))

StateOK(s) ==
  /\ s \in State
  /\ Linked(s.evs, s.h, Null)
  /\ SlotsOK(s.tcfg, s.procs, s.h)
  /\ RulesOK(s.tcfg, s.nat)

\* Nothing of the tunnel in the slot is left.
Quiet(s, i) ==
  /\ i \notin s.procs.pptp /\ i \notin s.procs.l2tp
  /\ s.h[i] = Null /\ s.tcfg[i].status # "up"

----------------------------------------------------------------------------
LEMMA SlotsFinite ==
  ASSUME NEW S \in SUBSET Slots
  PROVE  /\ IsFiniteSet(S) /\ Cardinality(S) \in Nat
         /\ \A i \in S : Cardinality(S \ {i}) = Cardinality(S) - 1
         /\ \A i \in Slots \ S : Cardinality(S \cup {i}) = Cardinality(S) + 1
<1>1. IsFiniteSet({0} \cup {1})
  BY FS_Singleton, FS_AddElement
<1>2. IsFiniteSet(S)
  <2>1. S \subseteq {0} \cup {1}
    BY DEF Slots
  <2> QED BY <1>1, <2>1, FS_Subset
<1> QED BY <1>2, FS_CardinalityType, FS_RemoveElement, FS_AddElement

(***************************************************************************)
(* What the assignments of the handlers leave of the state, one lemma for  *)
(* each.                                                                   *)
(***************************************************************************)
LEMMA FailIs ==
  ASSUME NEW s \in State
  PROVE  LET q == Fail(s) IN
         /\ q \in State /\ q.evs = s.evs /\ q.h = s.h /\ q.tcfg = s.tcfg /\ q.nat = s.nat
         /\ q.procs = s.procs /\ q.started = s.started /\ q.ret = -1
BY DEF State, Fail

\* The slot i is written.
Written(s, q, i, d) ==
  /\ q \in State
  /\ q.evs = s.evs /\ q.h = s.h /\ q.nat = s.nat /\ q.procs = s.procs
  /\ q.started = s.started /\ q.ret = s.ret
  /\ q.tcfg[i] = d /\ \A j \in Slots \ {i} : q.tcfg[j] = s.tcfg[j]

LEMMA SlotWritten ==
  ASSUME NEW s \in State, NEW i \in Slots, NEW d \in Tunnel, NEW q,
         q.tcfg = [s.tcfg EXCEPT ![i] = d],
         q.evs = s.evs, q.h = s.h, q.nat = s.nat, q.procs = s.procs,
         q.started = s.started, q.ret = s.ret, q.tcfg \in Tables => q \in State
  PROVE  Written(s, q, i, d)
BY DEF State, Tables, Written

LEMMA WithConfIs ==
  ASSUME NEW s \in State, NEW i \in Slots, NEW c \in Confs
  PROVE  LET u == s.tcfg[i]
         IN  Written(s, [s EXCEPT !.tcfg[i].conf = c], i,
                     [invalid |-> u.invalid, hander |-> u.hander, status |-> u.status,
                      conf |-> c])
<1> DEFINE u == s.tcfg[i]
           d == [invalid |-> u.invalid, hander |-> u.hander, status |-> u.status, conf |-> c]
           q == [s EXCEPT !.tcfg[i].conf = c]
<1>1. /\ q.evs = s.evs /\ q.h = s.h /\ q.nat = s.nat /\ q.procs = s.procs
      /\ q.started = s.started /\ q.ret = s.ret /\ (q.tcfg \in Tables => q \in State)
      /\ q.tcfg = [s.tcfg EXCEPT ![i] = [@ EXCEPT !.conf = c]]
  BY DEF State
<1> HIDE DEF q
<1>2. s.tcfg \in Tables /\ u \in Tunnel
  BY DEF State, Tables
<1>3. [u EXCEPT !.conf = c] = d /\ d \in Tunnel
  <2> HIDE DEF u
  <2> QED BY <1>2 DEF Tunnel
<1>4. q.tcfg = [s.tcfg EXCEPT ![i] = d]
  BY <1>1, <1>2, <1>3 DEF Tables
<1> HIDE DEF d, u
<1>5. Written(s, q, i, d)
  BY <1>1, <1>3, <1>4, SlotWritten
<1> QED BY <1>5 DEF q, d, u

LEMMA HanderIs ==
  ASSUME NEW s \in State, NEW i \in Slots, NEW k \in Kinds
  PROVE  LET u == s.tcfg[i]
         IN  Written(s, [s EXCEPT !.tcfg[i].hander = k], i,
                     [invalid |-> u.invalid, hander |-> k, status |-> u.status,
                      conf |-> u.conf])
<1> DEFINE u == s.tcfg[i]
           d == [invalid |-> u.invalid, hander |-> k, status |-> u.status, conf |-> u.conf]
           q == [s EXCEPT !.tcfg[i].hander = k]
<1>1. /\ q.evs = s.evs /\ q.h = s.h /\ q.nat = s.nat /\ q.procs = s.procs
      /\ q.started = s.started /\ q.ret = s.ret /\ (q.tcfg \in Tables => q \in State)
      /\ q.tcfg = [s.tcfg EXCEPT ![i] = [@ EXCEPT !.hander = k]]
  BY DEF State
<1> HIDE DEF q
<1>2. s.tcfg \in Tables /\ u \in Tunnel
  BY DEF State, Tables
<1>3. [u EXCEPT !.hander = k] = d /\ d \in Tunnel
  <2> HIDE DEF u
  <2> QED BY <1>2 DEF Tunnel
<1>4. q.tcfg = [s.tcfg EXCEPT ![i] = d]
  BY <1>1, <1>2, <1>3 DEF Tables
<1> HIDE DEF d, u
<1>5. Written(s, q, i, d)
  BY <1>1, <1>3, <1>4, SlotWritten
<1> QED BY <1>5 DEF q, d, u

LEMMA TakenIs ==
  ASSUME NEW s \in State, NEW i \in Slots
  PROVE  LET u == s.tcfg[i]
             d == [u EXCEPT !.invalid = TRUE]
         IN  /\ Written(s, [s EXCEPT !.tcfg[i].invalid = TRUE], i, d)
             /\ d.invalid /\ d.hander = u.hander /\ d.status = u.status /\ d.conf = u.conf
<1> DEFINE u == s.tcfg[i]
           d == [u EXCEPT !.invalid = TRUE]
           q == [s EXCEPT !.tcfg[i].invalid = TRUE]
<1>1. /\ q.evs = s.evs /\ q.h = s.h /\ q.nat = s.nat /\ q.procs = s.procs
      /\ q.started = s.started /\ q.ret = s.ret /\ (q.tcfg \in Tables => q \in State)
      /\ q.tcfg = [s.tcfg EXCEPT ![i] = [@ EXCEPT !.invalid = TRUE]]
  BY DEF State
<1> HIDE DEF q
<1>2. s.tcfg \in Tables /\ u \in Tunnel
  BY DEF State, Tables
<1>3. d \in Tunnel
  <2> HIDE DEF u
  <2> QED BY <1>2 DEF Tunnel
<1>4. d.invalid /\ d.hander = u.hander /\ d.status = u.status /\ d.conf = u.conf
  <2> HIDE DEF u
  <2> QED BY <1>2 DEF Tunnel
<1>5. q.tcfg = [s.tcfg EXCEPT ![i] = d]
  BY <1>1, <1>2 DEF Tables
<1> HIDE DEF d, u
<1>6. Written(s, q, i, d)
  BY <1>1, <1>3, <1>5, SlotWritten
<1> QED BY <1>4, <1>6 DEF q, d, u

LEMMA UnusedIs ==
  ASSUME NEW s \in State, NEW i \in Slots
  PROVE  Written(s, [s EXCEPT !.tcfg[i] = Unused], i, Unused)
<1> DEFINE q == [s EXCEPT !.tcfg[i] = Unused]
<1>1. /\ q.evs = s.evs /\ q.h = s.h /\ q.nat = s.nat /\ q.procs = s.procs
      /\ q.started = s.started /\ q.ret = s.ret /\ (q.tcfg \in Tables => q \in State)
      /\ q.tcfg = [s.tcfg EXCEPT ![i] = Unused]
  BY DEF State
<1>2. Unused \in Tunnel
  BY DEF Unused, Tunnel, Zero, Confs, Slots, None
<1> HIDE DEF q
<1> QED BY <1>1, <1>2, SlotWritten DEF q

\* The pppds are those of the slots p and l.
ProcsAre(s, q, p, l) ==
  /\ q \in State
  /\ q.evs = s.evs /\ q.h = s.h /\ q.tcfg = s.tcfg /\ q.nat = s.nat /\ q.ret = s.ret
  /\ q.procs.pptp = p /\ q.procs.l2tp = l

LEMMA PptpKilledIs ==
  ASSUME NEW s \in State
  PROVE  ProcsAre(s, [s EXCEPT !.procs.pptp = {}], {}, s.procs.l2tp)
<1> DEFINE q == [s EXCEPT !.procs.pptp = {}]
           p == s.procs
<1>1. /\ q.evs = s.evs /\ q.h = s.h /\ q.tcfg = s.tcfg /\ q.nat = s.nat /\ q.ret = s.ret
      /\ q.procs = [p EXCEPT !.pptp = {}] /\ (q.procs \in Processes => q \in State)
  BY DEF State
<1>2. p \in Processes
  BY DEF State
<1> HIDE DEF q, p
<1>3. q.procs \in Processes /\ q.procs.pptp = {} /\ q.procs.l2tp = p.l2tp
  BY <1>1, <1>2 DEF Processes
<1> QED BY <1>1, <1>3 DEF ProcsAre, p, q

LEMMA L2tpKilledIs ==
  ASSUME NEW s \in State
  PROVE  ProcsAre(s, KillL2tp(s), s.procs.pptp, {})
<1> DEFINE q == KillL2tp(s)
           p == s.procs
<1>1. /\ q.evs = s.evs /\ q.h = s.h /\ q.tcfg = s.tcfg /\ q.nat = s.nat /\ q.ret = s.ret
      /\ q.procs = [p EXCEPT !.l2tp = {}, !.xl2tpd = FALSE]
      /\ (q.procs \in Processes => q \in State)
  BY DEF State, KillL2tp
<1>2. p \in Processes
  BY DEF State
<1> HIDE DEF q, p
<1>3. q.procs.pptp = p.pptp /\ q.procs.l2tp = {}
  BY <1>1, <1>2 DEF Processes
<1>4. q.procs \in Processes
  BY <1>1, <1>2 DEF Processes
<1> QED BY <1>1, <1>3, <1>4 DEF ProcsAre, p, q

LEMMA PptpStartedIs ==
  ASSUME NEW s \in State, NEW i \in Slots
  PROVE  ProcsAre(s, [s EXCEPT !.procs.pptp = @ \cup {i},
                              !.started = @ \cup {<<i, "pptp">>}],
                  s.procs.pptp \cup {i}, s.procs.l2tp)
<1> DEFINE p == s.procs
           f == <<i, "pptp">>
           q == [s EXCEPT !.procs.pptp = @ \cup {i}, !.started = @ \cup {f}]
<1>1. /\ q.evs = s.evs /\ q.h = s.h /\ q.tcfg = s.tcfg /\ q.nat = s.nat /\ q.ret = s.ret
      /\ q.procs = [p EXCEPT !.pptp = @ \cup {i}] /\ q.started = s.started \cup {f}
      /\ (q.procs \in Processes /\ q.started \in Pppds => q \in State)
  BY DEF State
<1>2. p \in Processes /\ s.started \in Pppds
  BY DEF State
<1>3. s.started \cup {f} \in Pppds
  BY <1>2 DEF Pppds, Kinds
<1> HIDE DEF q, p, f
<1>4. q.procs.pptp = p.pptp \cup {i} /\ q.procs.l2tp = p.l2tp
  BY <1>1, <1>2 DEF Processes
<1>5. q.procs \in Processes
  BY <1>1, <1>2 DEF Processes
<1>6. ProcsAre(s, q, p.pptp \cup {i}, p.l2tp)
  BY <1>1, <1>3, <1>4, <1>5 DEF ProcsAre
<1> QED BY <1>6 DEF p, q, f

LEMMA TimerDroppedIs ==
  ASSUME NEW s \in State, NEW i \in Slots, Linked(s.evs, s.h, Null)
  PROVE  LET q == IF s.h[i] = Null THEN s
                  ELSE [s EXCEPT !.evs = Dropped(@, s.h[i]), !.h[i] = Null]
         IN  /\ q \in State /\ q.tcfg = s.tcfg /\ q.nat = s.nat /\ q.procs = s.procs
             /\ q.ret = s.ret /\ Linked(q.evs, q.h, Null) /\ q.h[i] = Null
             /\ \A j \in Slots : q.h[j] = s.h[j] \/ q.h[j] = Null
<1> DEFINE left == IF s.h[i] = Null THEN s.evs ELSE Dropped(s.evs, s.h[i])
           g    == [s.h EXCEPT ![i] = Null]
           q    == [s EXCEPT !.evs = Dropped(@, s.h[i]), !.h[i] = Null]
<1>1. Held = Slots /\ s.h \in Statics
  BY TunnelsAssumption DEF State
<1>2. Linked(left, g, Null)
  BY <1>1, CancelledLinked
<1>3. CASE s.h[i] = Null
  BY <1>3
<1>4. CASE s.h[i] # Null
  <2>1. /\ q.evs = Dropped(s.evs, s.h[i]) /\ q.h = g /\ q.tcfg = s.tcfg /\ q.nat = s.nat
        /\ q.procs = s.procs /\ q.ret = s.ret
        /\ (q.evs \in Lists /\ q.h \in Statics => q \in State)
    BY DEF State
  <2>2. left \in Lists /\ g \in Statics
    BY <1>1, <1>2 DEF Linked, List, Lists, Statics
  <2>3. g[i] = Null /\ \A j \in Slots : g[j] = s.h[j] \/ g[j] = Null
    BY <1>1 DEF Statics
  <2>4. q.evs = left
    BY <1>4, <2>1
  <2> HIDE DEF q, g, left
  <2>5. /\ q \in State /\ q.tcfg = s.tcfg /\ q.nat = s.nat /\ q.procs = s.procs
        /\ q.ret = s.ret /\ Linked(q.evs, q.h, Null) /\ q.h[i] = Null
        /\ \A j \in Slots : q.h[j] = s.h[j] \/ q.h[j] = Null
    BY <1>2, <2>1, <2>2, <2>3, <2>4
  <2> QED BY <1>4, <2>5 DEF q
<1> QED BY <1>3, <1>4

\* The timer is set and xl2tpd is started.
Armed(s, i, a) ==
  [s EXCEPT !.evs = Scheduled(@, a, i, Delay["dial"]), !.h[i] = a, !.procs.xl2tpd = TRUE]

LEMMA TimerSetIs ==
  ASSUME NEW s \in State, NEW i \in Slots, Linked(s.evs, s.h, Null), s.h[i] = Null,
         NEW a \in Allocs(s.evs)
  PROVE  LET q == Armed(s, i, a)
         IN  /\ q \in State /\ q.tcfg = s.tcfg /\ q.nat = s.nat /\ q.ret = s.ret
             /\ q.procs.pptp = s.procs.pptp /\ q.procs.l2tp = s.procs.l2tp
             /\ Linked(q.evs, q.h, Null)
             /\ \A j \in Slots \ {i} : q.h[j] = s.h[j]
<1> DEFINE p   == s.procs
           d   == Delay["dial"]
           new == Scheduled(s.evs, a, i, d)
           g   == [s.h EXCEPT ![i] = a]
           q   == Armed(s, i, a)
<1>1. Held = Slots /\ Clients = Slots /\ d \in Int
  BY TunnelsAssumption, SchedulerAssumption
<1>2. s.h \in Statics /\ p \in Processes
  BY DEF State
<1> HIDE DEF d
<1>3. Linked(new, Remember(s.h, i, a), Null)
  BY <1>1, ScheduledLinked
<1>4. Linked(new, g, Null)
  BY <1>1, <1>3 DEF Remember
<1>5. /\ q.evs = new /\ q.h = g /\ q.tcfg = s.tcfg /\ q.nat = s.nat /\ q.ret = s.ret
      /\ q.procs = [p EXCEPT !.xl2tpd = TRUE]
      /\ (q.evs \in Lists /\ q.h \in Statics /\ q.procs \in Processes => q \in State)
  BY DEF State, Armed, d
<1>6. new \in Lists /\ g \in Statics
  BY <1>1, <1>4 DEF Linked, List, Lists, Statics
<1>7. \A j \in Slots \ {i} : g[j] = s.h[j]
  BY <1>2 DEF Statics
<1> HIDE DEF q, p, new, g
<1>8. q.procs.pptp = p.pptp /\ q.procs.l2tp = p.l2tp
  BY <1>2, <1>5 DEF Processes
<1>9. q.procs \in Processes
  BY <1>2, <1>5 DEF Processes
<1> QED BY <1>4, <1>5, <1>6, <1>7, <1>8, <1>9 DEF p, q, d

\* schedule() found no memory.
LEMMA TimerFailedIs ==
  ASSUME NEW s \in State, NEW i \in Slots, s.h[i] = Null
  PROVE  LET q == [Fail(s) EXCEPT !.h[i] = Null]
         IN  /\ q \in State /\ q.evs = s.evs /\ q.h = s.h /\ q.tcfg = s.tcfg
             /\ q.nat = s.nat /\ q.procs = s.procs /\ q.ret = -1
<1> DEFINE f == Fail(s)
           q == [f EXCEPT !.h[i] = Null]
<1>1. /\ f \in State /\ f.evs = s.evs /\ f.h = s.h /\ f.tcfg = s.tcfg /\ f.nat = s.nat
      /\ f.procs = s.procs /\ f.ret = -1
  BY FailIs
<1> HIDE DEF f
<1>2. /\ q.evs = f.evs /\ q.h = [f.h EXCEPT ![i] = Null] /\ q.tcfg = f.tcfg
      /\ q.nat = f.nat /\ q.procs = f.procs /\ q.ret = f.ret
      /\ (q.h \in Statics => q \in State)
  BY <1>1 DEF State
<1>3. f.h \in Statics
  BY <1>1 DEF State
<1>4. [f.h EXCEPT ![i] = Null] = f.h
  BY <1>1, <1>3 DEF Statics
<1> HIDE DEF q
<1> QED BY <1>1, <1>2, <1>3, <1>4 DEF q, f

LEMMA IpDownIs ==
  ASSUME NEW s \in State, NEW i \in Slots, RulesOK(s.tcfg, s.nat)
  PROVE  /\ IpDown(s, i) \in State
         /\ IpDown(s, i).evs = s.evs /\ IpDown(s, i).h = s.h
         /\ IpDown(s, i).procs = s.procs /\ IpDown(s, i).ret = s.ret
         /\ IpDown(s, i).tcfg = [s.tcfg EXCEPT ![i] = [@ EXCEPT !.status = "down"]]
         /\ RulesOK(IpDown(s, i).tcfg, IpDown(s, i).nat)
<1> DEFINE u  == s.tcfg[i]
           d  == [u EXCEPT !.status = "down"]
           tc == [s.tcfg EXCEPT ![i] = d]
           n  == [masq |-> s.nat.masq \ {i}, dnat |-> {}, jumps |-> Less(s.nat.jumps)]
<1>1. /\ s.tcfg \in [Slots -> Tunnel] /\ u \in Tunnel
      /\ s.nat \in Rules /\ s.nat.jumps \in Nat
  BY DEF State, Tables, Rules
<1>2. d \in Tunnel /\ d.status = "down"
  <2> HIDE DEF u
  <2> QED BY <1>1 DEF Tunnel
<1>3. CASE u.status = "down"
  <2>1. IpDown(s, i) = s
    BY <1>3 DEF IpDown
  <2>2. d = u
    <3> HIDE DEF u
    <3> QED BY <1>1, <1>3 DEF Tunnel
  <2>3. tc = s.tcfg
    BY <1>1, <2>2
  <2> QED BY <2>1, <2>3
<1>4. CASE u.status # "down"
  <2>1. IpDown(s, i) = [evs |-> s.evs, h |-> s.h, tcfg |-> tc, nat |-> n,
                        procs |-> s.procs, started |-> s.started, ret |-> s.ret]
    BY <1>1, <1>4 DEF IpDown, State, Rules
  <2>2. tc \in [Slots -> Tunnel] /\ tc[i] = d /\ \A j \in Slots \ {i} : tc[j] = s.tcfg[j]
    BY <1>1, <1>2
  <2>3. n \in Rules /\ n.masq = s.nat.masq \ {i} /\ n.dnat = {}
        /\ n.jumps = Less(s.nat.jumps)
    BY <1>1 DEF Rules, Less
  <2>4. [s.tcfg EXCEPT ![i] = [@ EXCEPT !.status = "down"]] = tc
    BY <1>1
  <2> HIDE DEF n, tc, d
  <2>5. UpOf(tc) = UpOf(s.tcfg) \ {i}
    BY <1>2, <2>2 DEF UpOf
  <2>6. n.jumps <= Cardinality(UpOf(tc))
    <3>1. /\ UpOf(s.tcfg) \in SUBSET Slots
          /\ s.nat.jumps <= Cardinality(UpOf(s.tcfg))
      BY DEF UpOf, RulesOK
    <3>2. Cardinality(UpOf(s.tcfg)) \in Nat /\ Cardinality(UpOf(tc)) \in Nat
      BY <2>5, <3>1, SlotsFinite
    <3>3. CASE i \in UpOf(s.tcfg)
      <4>1. Cardinality(UpOf(tc)) = Cardinality(UpOf(s.tcfg)) - 1
        BY <2>5, <3>1, <3>3, SlotsFinite
      <4> QED BY <1>1, <2>3, <3>1, <3>2, <4>1 DEF Less
    <3>4. CASE i \notin UpOf(s.tcfg)
      <4>1. UpOf(tc) = UpOf(s.tcfg)
        BY <2>5, <3>4
      <4> QED BY <1>1, <2>3, <3>1, <3>2, <4>1 DEF Less
    <3> QED BY <3>3, <3>4
  <2>7. RulesOK(tc, n)
    BY <2>3, <2>5, <2>6 DEF RulesOK
  <2>8. IpDown(s, i) \in State
    BY <2>1, <2>2, <2>3 DEF State, Tables
  <2> QED BY <2>1, <2>4, <2>7, <2>8
<1> QED BY <1>3, <1>4

LEMMA DownOK ==
  ASSUME NEW u \in Tunnel, NEW i, NEW p, NEW l, NEW a, SlotOK(u, i, p, l, a)
  PROVE  SlotOK([u EXCEPT !.status = "down"], i, p, l, a)
<1> DEFINE d == [u EXCEPT !.status = "down"]
<1>1. /\ d.invalid = u.invalid /\ d.hander = u.hander /\ d.conf = u.conf
      /\ d.status = "down"
  BY DEF Tunnel
<1> HIDE DEF d
<1> QED BY <1>1 DEF SlotOK, Wants, d

(***************************************************************************)
(* tunnel_down: the hander's processes and the timer are gone, and the     *)
(* other kind's are not there.                                             *)
(***************************************************************************)
DownOf(s, t, i) ==
  /\ StateOK(t) /\ Quiet(t, i) /\ t.ret = s.ret
  /\ t.tcfg[i].invalid = s.tcfg[i].invalid /\ t.tcfg[i].conf = s.tcfg[i].conf
  /\ \A j \in Slots \ {i} : t.tcfg[j] = s.tcfg[j]

\* What is left when the pppds in the set of slots k of a kind are killed.
LEMMA KilledDown ==
  ASSUME NEW s, StateOK(s), NEW i \in Slots, NEW t \in State,
         t.tcfg = s.tcfg, t.nat = s.nat, t.ret = s.ret,
         Linked(t.evs, t.h, Null),
         t.procs.pptp \subseteq s.procs.pptp, t.procs.l2tp \subseteq s.procs.l2tp,
         \A j \in Slots : t.h[j] = s.h[j] \/ t.h[j] = Null,
         i \notin t.procs.pptp, i \notin t.procs.l2tp, t.h[i] = Null
  PROVE  DownOf(s, IpDown(t, i), i)
<1> DEFINE v == IpDown(t, i)
<1>1. s.tcfg \in [Slots -> Tunnel] /\ RulesOK(t.tcfg, t.nat)
  BY DEF StateOK, State, Tables
<1>2. /\ v \in State /\ v.evs = t.evs /\ v.h = t.h /\ v.procs = t.procs /\ v.ret = t.ret
      /\ v.tcfg = [s.tcfg EXCEPT ![i] = [@ EXCEPT !.status = "down"]]
      /\ RulesOK(v.tcfg, v.nat)
  BY <1>1, IpDownIs
<1> HIDE DEF v
<1> DEFINE u == s.tcfg[i]
           d == [u EXCEPT !.status = "down"]
<1>3. u \in Tunnel /\ v.tcfg[i] = d /\ \A j \in Slots \ {i} : v.tcfg[j] = s.tcfg[j]
  BY <1>1, <1>2
<1>4. d.invalid = u.invalid /\ d.conf = u.conf /\ d.status = "down"
  <2> HIDE DEF u
  <2> QED BY <1>3 DEF Tunnel
<1>5. ASSUME NEW j \in Slots
      PROVE  SlotOK(v.tcfg[j], j, j \in v.procs.pptp, j \in v.procs.l2tp, v.h[j])
  <2>1. SlotOK(s.tcfg[j], j, j \in s.procs.pptp, j \in s.procs.l2tp, s.h[j])
    BY DEF StateOK, SlotsOK
  <2>2. SlotOK(s.tcfg[j], j, j \in v.procs.pptp, j \in v.procs.l2tp, v.h[j])
    <3>1. /\ (j \in v.procs.pptp) => (j \in s.procs.pptp)
          /\ (j \in v.procs.l2tp) => (j \in s.procs.l2tp)
          /\ v.h[j] = s.h[j] \/ v.h[j] = Null
      BY <1>2
    <3> QED BY <2>1, <3>1 DEF SlotOK
  <2>3. CASE j = i
    <3>1. SlotOK(d, j, j \in v.procs.pptp, j \in v.procs.l2tp, v.h[j])
      BY <1>3, <2>2, <2>3, DownOK
    <3> QED BY <1>3, <2>3, <3>1
  <2>4. CASE j # i
    BY <1>3, <2>2, <2>4
  <2> QED BY <2>3, <2>4
<1> HIDE DEF d, u
<1>6. StateOK(v)
  BY <1>2, <1>5 DEF StateOK, SlotsOK
<1>7. Quiet(v, i)
  BY <1>2, <1>3, <1>4 DEF Quiet
<1> QED BY <1>2, <1>3, <1>4, <1>6, <1>7 DEF DownOf, v, u

LEMMA TunnelDownIs ==
  ASSUME NEW s, StateOK(s), NEW i \in Slots
  PROVE  DownOf(s, TunnelDown(s, i), i)
<1> DEFINE u == s.tcfg[i]
<1>1. s \in State /\ u \in Tunnel /\ Linked(s.evs, s.h, Null)
  BY DEF StateOK, State, Tables
<1>2. SlotOK(u, i, i \in s.procs.pptp, i \in s.procs.l2tp, s.h[i])
  BY DEF StateOK, SlotsOK
<1>3. CASE u.hander = "pptp"
  <2> DEFINE t == [s EXCEPT !.procs.pptp = {}]
  <2>1. TunnelDown(s, i) = IpDown(t, i)
    BY <1>3 DEF TunnelDown, PptpDown
  <2>2. ProcsAre(s, t, {}, s.procs.l2tp)
    BY <1>1, PptpKilledIs
  <2>3. i \notin s.procs.l2tp /\ s.h[i] = Null
    BY <1>2, <1>3 DEF SlotOK
  <2> HIDE DEF t
  <2>4. DownOf(s, IpDown(t, i), i)
    BY <1>1, <2>2, <2>3, KilledDown DEF ProcsAre
  <2> QED BY <2>1, <2>4
<1>4. CASE u.hander = "l2tp"
  <2> DEFINE w == IF s.h[i] = Null THEN s
                  ELSE [s EXCEPT !.evs = Dropped(@, s.h[i]), !.h[i] = Null]
             t == KillL2tp(w)
  <2>1. TunnelDown(s, i) = IpDown(t, i)
    BY <1>4 DEF TunnelDown, L2tpDown
  <2>2. /\ w \in State /\ w.tcfg = s.tcfg /\ w.nat = s.nat /\ w.procs = s.procs
        /\ w.ret = s.ret /\ Linked(w.evs, w.h, Null) /\ w.h[i] = Null
        /\ \A j \in Slots : w.h[j] = s.h[j] \/ w.h[j] = Null
    BY <1>1, TimerDroppedIs
  <2> HIDE DEF w
  <2>3. ProcsAre(w, t, w.procs.pptp, {})
    BY <2>2, L2tpKilledIs
  <2>4. i \notin s.procs.pptp
    BY <1>2, <1>4 DEF SlotOK
  <2> HIDE DEF t
  <2>5. DownOf(s, IpDown(t, i), i)
    BY <2>2, <2>3, <2>4, KilledDown DEF ProcsAre
  <2> QED BY <2>1, <2>5
<1>5. CASE u.hander = None
  <2>1. TunnelDown(s, i) = s
    BY <1>5 DEF TunnelDown, None
  <2>2. ~u.invalid
    BY <1>2, <1>5 DEF SlotOK, Kinds, None
  <2>3. Quiet(s, i)
    BY <1>2, <2>2 DEF SlotOK, Wants, Quiet
  <2> QED BY <2>1, <2>3 DEF DownOf
<1> QED BY <1>1, <1>3, <1>4, <1>5 DEF Tunnel, Kinds

(***************************************************************************)
(* The rest of tunnel_set.                                                 *)
(***************************************************************************)
WithConf(s, i, c) == [s EXCEPT !.tcfg[i].conf = c]

\* The slots but the one that is being set.
OthersOK(s, i) ==
  \A j \in Slots \ {i} :
    SlotOK(s.tcfg[j], j, j \in s.procs.pptp, j \in s.procs.l2tp, s.h[j])

Sound(s, i) ==
  s \in State /\ Linked(s.evs, s.h, Null) /\ RulesOK(s.tcfg, s.nat) /\ OthersOK(s, i)

\* The slot as tunnel_down leaves it, or just taken for a new tunnel.
Fit(u, i) ==
  /\ u.status # "up"
  /\ ~u.invalid => u.hander = None /\ ~u.conf.named
  /\ u.conf.named => u.conf.index = i /\ u.conf.type \in Kinds

Raisable(s, i) == Sound(s, i) /\ Quiet(s, i) /\ Fit(s.tcfg[i], i)

\* It failed and the slot keeps its settings, or the new ones are what it is up for.
RaisedOf(s, t, i, c) ==
  /\ t \in State /\ t.tcfg[i].conf = s.tcfg[i].conf
  /\ \/ t.ret = -1 /\ StateOK(t)
     \/ t.ret = s.ret /\ StateOK(WithConf(t, i, c))

\* A slot that is quiet may have any settings that name it, and any hander.
LEMMA FitOK ==
  ASSUME NEW u, NEW i, Fit(u, i), u.invalid => u.hander \in Kinds,
         NEW p, NEW l, ~p, ~l
  PROVE  SlotOK(u, i, p, l, Null)
BY DEF SlotOK, Fit

LEMMA SoundOK ==
  ASSUME NEW s, NEW i \in Slots, Sound(s, i),
         SlotOK(s.tcfg[i], i, i \in s.procs.pptp, i \in s.procs.l2tp, s.h[i])
  PROVE  StateOK(s)
BY DEF StateOK, SlotsOK, OthersOK, Sound

\* The rules go by the status only.
LEMMA WrittenSound ==
  ASSUME NEW s, NEW i \in Slots, Sound(s, i), NEW d, d.status = "up" <=> s.tcfg[i].status = "up",
         NEW q, Written(s, q, i, d)
  PROVE  Sound(q, i)
<1>1. \A j \in Slots : q.tcfg[j].status = "up" <=> s.tcfg[j].status = "up"
  BY DEF Written
<1>2. UpOf(q.tcfg) = UpOf(s.tcfg)
  BY <1>1 DEF UpOf
<1>3. RulesOK(q.tcfg, q.nat)
  BY <1>2 DEF Sound, Written, RulesOK
<1> QED BY <1>3 DEF Sound, Written, OthersOK

LEMMA WithConfSound ==
  ASSUME NEW s, NEW i \in Slots, Sound(s, i), NEW c \in Confs
  PROVE  LET u == s.tcfg[i]
             v == WithConf(s, i, c)
         IN  /\ Sound(v, i) /\ v.procs = s.procs /\ v.h = s.h
             /\ v.tcfg[i].invalid = u.invalid /\ v.tcfg[i].hander = u.hander
             /\ v.tcfg[i].status = u.status /\ v.tcfg[i].conf = c
<1> DEFINE u == s.tcfg[i]
           d == [invalid |-> u.invalid, hander |-> u.hander, status |-> u.status, conf |-> c]
           v == WithConf(s, i, c)
<1>1. Written(s, v, i, d)
  BY WithConfIs DEF WithConf, Sound
<1>2. /\ d.invalid = u.invalid /\ d.hander = u.hander
      /\ d.status = u.status /\ d.conf = c
  OBVIOUS
<1> HIDE DEF d, v
<1>3. Sound(v, i)
  BY <1>1, <1>2, WrittenSound
<1> QED BY <1>1, <1>2, <1>3 DEF v, Written

LEMMA UpOK ==
  ASSUME NEW q, NEW i \in Slots, Sound(q, i), NEW c \in Confs,
         q.tcfg[i].invalid, q.tcfg[i].hander = c.type, q.tcfg[i].status # "up",
         c.index = i, c.type \in Kinds, c.named,
         i \in q.procs.pptp => c.enable /\ c.type = "pptp",
         i \in q.procs.l2tp => c.enable /\ c.type = "l2tp",
         q.h[i] # Null => c.enable /\ c.type = "l2tp"
  PROVE  StateOK(WithConf(q, i, c))
<1> DEFINE v == WithConf(q, i, c)
<1>1. /\ Sound(v, i) /\ v.procs = q.procs /\ v.h = q.h
      /\ v.tcfg[i].invalid /\ v.tcfg[i].hander = c.type
      /\ v.tcfg[i].status # "up" /\ v.tcfg[i].conf = c
  BY WithConfSound
<1> HIDE DEF v
<1>2. SlotOK(v.tcfg[i], i, i \in v.procs.pptp, i \in v.procs.l2tp, v.h[i])
  BY <1>1 DEF SlotOK, Wants
<1>3. StateOK(v)
  BY <1>1, <1>2, SoundOK
<1> QED BY <1>3 DEF v

\* pppd or the options' file fails, the handler that called it does too.
LEMMA FailOK == ASSUME NEW s, StateOK(s) PROVE StateOK(Fail(s))
BY FailIs DEF StateOK

LEMMA RaiseIs ==
  ASSUME NEW s, NEW i \in Slots, Raisable(s, i), NEW c \in Confs,
         c.index = i, c.type \in Kinds, c.named, NEW t \in Raise(s, i, c)
  PROVE  RaisedOf(s, t, i, c)
<1> DEFINE u == s.tcfg[i]
           d == [invalid |-> u.invalid, hander |-> c.type, status |-> u.status, conf |-> u.conf]
           w == [s EXCEPT !.tcfg[i].hander = c.type]
<1>1. s \in State /\ c.type # None /\ (c.type = "pptp" \/ c.type = "l2tp")
  BY DEF Raisable, Sound, Kinds, None
<1>2. CASE ~u.invalid
  <2>1. t = Fail(s)
    BY <1>2 DEF Raise
  <2>2. SlotOK(u, i, i \in s.procs.pptp, i \in s.procs.l2tp, s.h[i])
    <3>1. Fit(u, i) /\ i \notin s.procs.pptp /\ i \notin s.procs.l2tp /\ s.h[i] = Null
      BY DEF Raisable, Quiet
    <3> HIDE DEF u
    <3>2. SlotOK(u, i, i \in s.procs.pptp, i \in s.procs.l2tp, Null)
      BY <1>2, <3>1, FitOK
    <3> QED BY <3>1, <3>2
  <2>3. StateOK(s)
    BY <2>2, SoundOK DEF Raisable
  <2> QED BY <1>1, <2>1, <2>3, FailIs, FailOK DEF RaisedOf
<1>3. CASE u.invalid
  <2>1. Written(s, w, i, d)
    BY <1>1, HanderIs
  <2>2. d.invalid /\ d.hander = c.type /\ d.status = u.status /\ d.conf = u.conf
    BY <1>3
  <2>3. \/ ~c.enable /\ t = w
        \/ c.enable /\ c.type = "pptp" /\ t \in PptpUp(w, i)
        \/ c.enable /\ c.type = "l2tp" /\ t \in L2tpUp(w, i)
    BY <1>1, <1>3 DEF Raise
  <2> HIDE DEF d, w
  <2>4. Sound(w, i)
    BY <2>1, <2>2, WrittenSound DEF Raisable
  <2>5. /\ w \in State /\ w.ret = s.ret /\ w.tcfg[i] = d /\ w.procs = s.procs
        /\ w.h = s.h
    BY <2>1 DEF Written
  <2>6. /\ i \notin w.procs.pptp /\ i \notin w.procs.l2tp /\ w.h[i] = Null
        /\ d.status # "up"
    BY <2>2, <2>5 DEF Raisable, Quiet
  <2>7. StateOK(w)
    <3>1. Fit(d, i)
      BY <2>2, <2>6 DEF Raisable, Fit
    <3>2. SlotOK(d, i, i \in w.procs.pptp, i \in w.procs.l2tp, Null)
      BY <2>2, <2>6, <3>1, FitOK
    <3> QED BY <2>4, <2>5, <2>6, <3>2, SoundOK
  <2>8. ASSUME NEW q, Sound(q, i), q.tcfg = w.tcfg, q.ret = s.ret,
               i \in q.procs.pptp => c.enable /\ c.type = "pptp",
               i \in q.procs.l2tp => c.enable /\ c.type = "l2tp",
               q.h[i] # Null => c.enable /\ c.type = "l2tp"
        PROVE  RaisedOf(s, q, i, c)
    <3>1. StateOK(WithConf(q, i, c))
      BY <2>2, <2>5, <2>6, <2>8, UpOK
    <3> QED BY <2>2, <2>5, <2>8, <3>1 DEF RaisedOf, Sound
  <2>9. RaisedOf(s, Fail(w), i, c)
    BY <2>2, <2>5, <2>7, FailIs, FailOK DEF RaisedOf
  <2>10. RaisedOf(s, w, i, c)
    BY <2>4, <2>5, <2>6, <2>8
  <2>11. CASE c.enable /\ c.type = "pptp" /\ t \in PptpUp(w, i)
    <3> DEFINE q == [w EXCEPT !.procs.pptp = @ \cup {i}, !.started = @ \cup {<<i, "pptp">>}]
    <3>1. t = Fail(w) \/ t = q
      BY <2>11 DEF PptpUp
    <3>2. ProcsAre(w, q, w.procs.pptp \cup {i}, w.procs.l2tp)
      BY <2>5, PptpStartedIs
    <3> HIDE DEF q
    <3>3. Sound(q, i)
      BY <2>4, <3>2 DEF Sound, ProcsAre, OthersOK
    <3>4. RaisedOf(s, q, i, c)
      BY <2>5, <2>6, <2>8, <2>11, <3>2, <3>3 DEF ProcsAre
    <3> QED BY <2>9, <3>1, <3>4
  <2>12. CASE c.enable /\ c.type = "l2tp" /\ t \in L2tpUp(w, i)
    <3>1. CASE t = w
      BY <2>10, <3>1
    <3>2. CASE t # w
      <4> DEFINE no == [Fail(w) EXCEPT !.h[i] = Null]
      <4>1. PICK a \in Allocs(w.evs) :
              t = IF a = Null THEN no ELSE Armed(w, i, a)
        BY <2>12, <3>2 DEF L2tpUp, Armed
      <4>2. CASE a = Null
        <5>1. /\ no \in State /\ no.evs = w.evs /\ no.h = w.h /\ no.tcfg = w.tcfg
              /\ no.nat = w.nat /\ no.procs = w.procs /\ no.ret = -1
          BY <2>5, <2>6, TimerFailedIs
        <5> HIDE DEF no
        <5>2. StateOK(no)
          BY <2>7, <5>1 DEF StateOK
        <5> QED BY <2>2, <2>5, <4>1, <4>2, <5>1, <5>2 DEF RaisedOf
      <4>3. CASE a # Null
        <5> DEFINE q == Armed(w, i, a)
        <5>1. /\ q \in State /\ q.tcfg = w.tcfg /\ q.nat = w.nat /\ q.ret = w.ret
              /\ q.procs.pptp = w.procs.pptp /\ q.procs.l2tp = w.procs.l2tp
              /\ Linked(q.evs, q.h, Null)
              /\ \A j \in Slots \ {i} : q.h[j] = w.h[j]
          <6>1. w \in State /\ Linked(w.evs, w.h, Null) /\ w.h[i] = Null
            BY <2>4, <2>6 DEF Sound
          <6> QED BY <6>1, TimerSetIs
        <5>2. t = q
          BY <4>1, <4>3
        <5> HIDE DEF q
        <5>3. Sound(q, i)
          BY <2>4, <5>1 DEF Sound, OthersOK
        <5>4. RaisedOf(s, q, i, c)
          BY <2>5, <2>6, <2>8, <2>12, <5>1, <5>3
        <5> QED BY <5>2, <5>4
      <4> QED BY <4>2, <4>3
    <3> QED BY <3>1, <3>2
  <2> QED BY <2>3, <2>10, <2>11, <2>12
<1> QED BY <1>2, <1>3

\* tunnel_set for a slot.
SetOf(s, t, i, c) ==
  /\ t \in State
  /\ c.named => t.tcfg[i].conf = s.tcfg[i].conf
  /\ ~c.named => StateOK(t)
  /\ \/ t.ret = -1 /\ StateOK(t)
     \/ t.ret = s.ret /\ StateOK(WithConf(t, i, c))

LEMMA TunnelSetIs ==
  ASSUME NEW s, StateOK(s), NEW i \in Slots, NEW c \in Confs,
         c.named => c.index = i /\ c.type \in Kinds, NEW t \in TunnelSet(s, i, c)
  PROVE  SetOf(s, t, i, c)
<1> DEFINE w == TunnelDown(s, i)
<1>1. DownOf(s, w, i)
  BY TunnelDownIs
<1>2. IF c.named THEN t \in Raise(w, i, c) ELSE t = [w EXCEPT !.tcfg[i] = Unused]
  BY DEF TunnelSet
<1> HIDE DEF w
<1>3. StateOK(w) /\ Quiet(w, i) /\ w.ret = s.ret /\ w.tcfg[i].conf = s.tcfg[i].conf
  BY <1>1 DEF DownOf
<1>4. Sound(w, i) /\ SlotOK(w.tcfg[i], i, i \in w.procs.pptp, i \in w.procs.l2tp, w.h[i])
  BY <1>3 DEF StateOK, SlotsOK, Sound, OthersOK
<1>5. CASE c.named
  <2>1. Fit(w.tcfg[i], i)
    BY <1>3, <1>4 DEF SlotOK, Fit, Quiet
  <2>2. RaisedOf(w, t, i, c)
    BY <1>2, <1>3, <1>4, <1>5, <2>1, RaiseIs DEF Raisable
  <2> QED BY <1>3, <1>5, <2>2 DEF RaisedOf, SetOf
<1>6. CASE ~c.named
  <2> DEFINE v == WithConf(t, i, c)
  <2>1. Written(w, t, i, Unused)
    BY <1>2, <1>4, <1>6, UnusedIs DEF Sound
  <2>2. /\ ~Unused.invalid /\ Unused.hander = None /\ Unused.status # "up"
        /\ ~Unused.conf.named
    BY DEF Unused, Zero, None
  <2>3. Unused.status = "up" <=> w.tcfg[i].status = "up"
    BY <1>3, <2>2 DEF Quiet
  <2>4. Sound(t, i)
    BY <1>4, <2>1, <2>3, WrittenSound
  <2>5. /\ i \notin t.procs.pptp /\ i \notin t.procs.l2tp /\ t.h[i] = Null
        /\ t.tcfg[i] = Unused /\ t.ret = s.ret
    BY <1>3, <2>1 DEF Quiet, Written
  <2>6. SlotOK(t.tcfg[i], i, i \in t.procs.pptp, i \in t.procs.l2tp, t.h[i])
    BY <2>2, <2>5 DEF SlotOK
  <2>7. StateOK(t)
    BY <2>4, <2>6, SoundOK
  <2>8. /\ Sound(v, i) /\ v.procs = t.procs /\ v.h = t.h
        /\ v.tcfg[i].invalid = Unused.invalid /\ v.tcfg[i].hander = Unused.hander
        /\ v.tcfg[i].status = Unused.status /\ v.tcfg[i].conf = c
    BY <2>4, <2>5, WithConfSound
  <2> HIDE DEF v
  <2>9. SlotOK(v.tcfg[i], i, i \in v.procs.pptp, i \in v.procs.l2tp, v.h[i])
    BY <1>6, <2>2, <2>5, <2>8 DEF SlotOK
  <2>10. StateOK(v)
    BY <2>8, <2>9, SoundOK
  <2> QED BY <1>6, <2>4, <2>5, <2>7, <2>10 DEF SetOf, Sound, v
<1> QED BY <1>5, <1>6

\* The first free slot is taken.
LEMMA TakenSetIs ==
  ASSUME NEW s, StateOK(s), NEW i \in Slots, ~s.tcfg[i].invalid,
         NEW c \in Confs, c.named, c.index = i, c.type \in Kinds,
         NEW t \in Raise([s EXCEPT !.tcfg[i].invalid = TRUE], i, c)
  PROVE  \/ t.ret = -1 /\ StateOK(t)
         \/ t.ret = s.ret /\ StateOK(WithConf(t, i, c))
<1> DEFINE u == s.tcfg[i]
           d == [u EXCEPT !.invalid = TRUE]
           w == [s EXCEPT !.tcfg[i].invalid = TRUE]
<1>1. s \in State /\ SlotOK(u, i, i \in s.procs.pptp, i \in s.procs.l2tp, s.h[i])
  BY DEF StateOK, SlotsOK
<1>2. /\ Written(s, w, i, d)
      /\ d.invalid /\ d.hander = u.hander /\ d.status = u.status /\ d.conf = u.conf
  BY <1>1, TakenIs
<1> HIDE DEF d, w
<1>3. Quiet(s, i) /\ ~u.conf.named /\ u.status # "up"
  BY <1>1 DEF SlotOK, Wants, Quiet
<1>4. Sound(s, i)
  BY DEF StateOK, SlotsOK, Sound, OthersOK
<1>5. Sound(w, i)
  BY <1>2, <1>4, WrittenSound
<1>6. Quiet(w, i) /\ Fit(w.tcfg[i], i) /\ w.ret = s.ret
  BY <1>2, <1>3 DEF Written, Quiet, Fit
<1>7. RaisedOf(w, t, i, c)
  BY <1>5, <1>6, RaiseIs DEF Raisable, w
<1> QED BY <1>6, <1>7 DEF RaisedOf

\* A slot whose settings are saved once more.
LEMMA SameConf ==
  ASSUME NEW t \in State, NEW i \in Slots, StateOK(WithConf(t, i, t.tcfg[i].conf))
  PROVE  StateOK(t)
<1> DEFINE u == t.tcfg[i]
           v == WithConf(t, i, u.conf)
           d == [invalid |-> u.invalid, hander |-> u.hander, status |-> u.status,
                 conf |-> u.conf]
<1>1. t.tcfg \in Tables /\ u \in Tunnel /\ u.conf \in Confs
  BY DEF State, Tables, Tunnel
<1>2. d = u
  <2> HIDE DEF u
  <2> QED BY <1>1 DEF Tunnel
<1>3. Written(t, v, i, d)
  BY <1>1, WithConfIs DEF WithConf
<1> HIDE DEF d
<1>4. v.tcfg \in Tables /\ v.tcfg[i] = u
  BY <1>2, <1>3 DEF Written, State
<1>5. v.tcfg = t.tcfg
  <2>1. \A j \in Slots : v.tcfg[j] = t.tcfg[j]
    BY <1>3, <1>4 DEF Written
  <2> QED BY <1>1, <1>4, <2>1 DEF Tables
<1>6. StateOK(v)
  OBVIOUS
<1> HIDE DEF v
<1> QED BY <1>3, <1>5, <1>6 DEF Written, StateOK

LEMMA RestartedOK ==
  ASSUME NEW s, StateOK(s), NEW i \in Slots, NEW t \in Restarted(s, i)
  PROVE  StateOK(t)
<1> DEFINE c == s.tcfg[i].conf
<1>1. s.tcfg[i] \in Tunnel /\ c \in Confs /\ c.index \in Slots
  BY DEF StateOK, State, Tables, Tunnel, Confs
<1>2. c.named => c.index = i /\ c.type \in Kinds
  BY DEF StateOK, SlotsOK, SlotOK
<1>3. CASE ~s.tcfg[i].invalid
  BY <1>3 DEF Restarted
<1>4. CASE s.tcfg[i].invalid
  <2>1. t \in TunnelSet(s, c.index, c)
    BY <1>4 DEF Restarted
  <2> HIDE DEF c
  <2>2. SetOf(s, t, c.index, c)
    BY <1>1, <1>2, <2>1, TunnelSetIs
  <2>3. CASE ~c.named
    BY <2>2, <2>3 DEF SetOf
  <2>4. CASE c.named
    <3>1. t \in State /\ t.tcfg[i].conf = c /\ (StateOK(t) \/ StateOK(WithConf(t, i, c)))
      BY <1>2, <2>2, <2>4 DEF SetOf, c
    <3> QED BY <3>1, SameConf
  <2> QED BY <2>3, <2>4
<1> QED BY <1>3, <1>4

\* tunnel_save_config.
LEMMA SavedOK ==
  ASSUME NEW t, NEW i, NEW c,
         \/ t.ret = -1 /\ StateOK(t)
         \/ t.ret = 0 /\ StateOK(WithConf(t, i, c))
  PROVE  StateOK(Saved(t, i, c))
BY DEF Saved, WithConf

----------------------------------------------------------------------------
(***************************************************************************)
(* The invariant: the list of timers is in order, and the slots and the    *)
(* rules are as they are between any two calls of a handler.               *)
(***************************************************************************)
TableType ==
  tcfg \in Tables /\ nat \in Rules /\ procs \in Processes /\ started \in Pppds

TunnelInv ==
  ListInv /\ TableType /\ SlotsOK(tcfg, procs, handle) /\ RulesOK(tcfg, nat)

\* What a handler finds, and what it leaves.
LEMMA NowOK == ASSUME TunnelInv, Called PROVE StateOK(Now)
<1>1. Linked(events, handle, Null)
  BY CalledLinked DEF ListInv, TunnelInv, Called, Notified
<1>2. events \in Lists /\ handle \in Statics
  BY <1>1, TunnelsAssumption DEF Linked, List, Lists, Statics
<1>3. Now \in State
  BY <1>2 DEF TunnelInv, TableType, Now, State
<1>4. /\ Now.evs = events /\ Now.h = handle /\ Now.tcfg = tcfg /\ Now.nat = nat
      /\ Now.procs = procs
  BY DEF Now
<1> QED BY <1>1, <1>3, <1>4 DEF TunnelInv, StateOK

LEMMA BecomeOK ==
  ASSUME NEW s, StateOK(s), Become(s), Answered
  PROVE  TunnelInv'
<1>1. Linked(events', handle', Null)
  BY DEF StateOK, Become
<1>2. ListInv'
  BY <1>1, AnsweredKeeps
<1>3. TableType'
  BY DEF StateOK, State, Become, TableType
<1>4. SlotsOK(tcfg', procs', handle') /\ RulesOK(tcfg', nat')
  BY DEF StateOK, Become
<1> QED BY <1>2, <1>3, <1>4 DEF TunnelInv

LEMMA AddKeeps == TunnelInv /\ Add => TunnelInv'
<1> SUFFICES ASSUME TunnelInv, Add PROVE TunnelInv'
  OBVIOUS
<1> DEFINE i == FirstFree
<1>1. Called /\ FreeSlots # {} /\ Answered
  BY DEF Add
<1>2. i \in Slots /\ ~tcfg[i].invalid
  <2>1. \E k \in FreeSlots : \A j \in FreeSlots : k <= j
    BY <1>1 DEF FreeSlots, Slots
  <2>2. FirstFree \in FreeSlots
    BY <2>1 DEF FirstFree
  <2> QED BY <2>2 DEF FreeSlots
<1>3. PICK c \in New :
        \E s \in TunnelAdd(Now, [c EXCEPT !.index = i]) :
          Become(Saved(s, i, [c EXCEPT !.index = i]))
  BY DEF Add
<1> DEFINE d == [c EXCEPT !.index = i]
<1>4. PICK s \in TunnelAdd(Now, d) : Become(Saved(s, i, d))
  BY <1>3
<1>5. s \in Raise([Now EXCEPT !.tcfg[i].invalid = TRUE], i, d)
  BY <1>4 DEF TunnelAdd
<1>6. StateOK(Now) /\ Now.tcfg = tcfg /\ Now.ret = 0
  BY <1>1, NowOK DEF Now
<1> HIDE DEF i
<1>7. d \in Confs /\ d.named /\ d.index = i /\ d.type \in Kinds
  BY <1>2 DEF New, Confs
<1> HIDE DEF d
<1>8. \/ s.ret = -1 /\ StateOK(s)
      \/ s.ret = 0 /\ StateOK(WithConf(s, i, d))
  BY <1>2, <1>5, <1>6, <1>7, TakenSetIs
<1> QED BY <1>1, <1>4, <1>8, SavedOK, BecomeOK

\* tunnel_set and tunnel_save_config for a slot.
LEMMA SetKeeps ==
  ASSUME TunnelInv, Called, Answered, NEW i \in Slots, NEW c \in Confs,
         c.named => c.index = i /\ c.type \in Kinds,
         NEW s \in TunnelSet(Now, i, c), Become(Saved(s, i, c))
  PROVE  TunnelInv'
<1>1. StateOK(Now) /\ Now.ret = 0
  BY NowOK DEF Now
<1>2. \/ s.ret = -1 /\ StateOK(s)
      \/ s.ret = 0 /\ StateOK(WithConf(s, i, c))
  BY <1>1, TunnelSetIs DEF SetOf
<1> QED BY <1>2, SavedOK, BecomeOK

LEMMA ChangeKeeps == ASSUME TunnelInv, NEW i \in Slots, Change(i) PROVE TunnelInv'
<1>1. PICK c \in New :
        c.index = i /\ \E s \in TunnelSet(Now, i, c) : Become(Saved(s, i, c))
  BY DEF Change
<1>2. c \in Confs /\ c.named /\ c.type \in Kinds
  BY DEF New
<1> QED BY <1>1, <1>2, SetKeeps DEF Change

LEMMA RemoveKeeps == ASSUME TunnelInv, NEW i \in Slots, Remove(i) PROVE TunnelInv'
<1> DEFINE c == [Zero EXCEPT !.index = i]
<1>1. \E s \in TunnelSet(Now, i, c) : Become(Saved(s, i, c))
  BY DEF Remove
<1>2. c \in Confs /\ ~c.named
  BY DEF Zero, Confs, None, Slots
<1> HIDE DEF c
<1> QED BY <1>1, <1>2, SetKeeps DEF Remove

LEMMA ResetKeeps == TunnelInv /\ Reset => TunnelInv'
<1> SUFFICES ASSUME TunnelInv, Reset PROVE TunnelInv'
  OBVIOUS
<1>1. PICK s \in Restarted(Now, 0) : \E t \in Restarted(s, 1) : Become(t)
  BY DEF Reset
<1>2. PICK t \in Restarted(s, 1) : Become(t)
  BY <1>1
<1>3. Called /\ Answered /\ 0 \in Slots /\ 1 \in Slots
  BY DEF Reset, Slots
<1>4. StateOK(s)
  BY <1>3, NowOK, RestartedOK
<1>5. StateOK(t)
  BY <1>3, <1>4, RestartedOK
<1> QED BY <1>2, <1>3, <1>5, BecomeOK

----------------------------------------------------------------------------
\* tunnel_generic_ip_up: the rules of a tunnel are added once.
LEMMA IpUpKeeps ==
  ASSUME TunnelInv, NEW i \in Slots, NEW kind \in Kinds, TunnelIpUp(i, kind)
  PROVE  TunnelInv'
<1> DEFINE u == tcfg[i]
           d == [u EXCEPT !.status = "up"]
<1>1. /\ Called /\ Answered /\ events' = events /\ handle' = handle /\ procs' = procs
      /\ started' = started /\ u.hander # None /\ u.status # "up"
      /\ tcfg' = [tcfg EXCEPT ![i].status = "up"]
      /\ nat' = [masq |-> nat.masq \cup {i}, dnat |-> nat.dnat \cup {i},
                 jumps |-> nat.jumps + 1]
  BY DEF TunnelIpUp, Believed, Leave
<1>2. tcfg \in Tables /\ u \in Tunnel /\ nat \in Rules /\ nat.jumps \in Nat
  BY DEF TunnelInv, TableType, Tables, Rules
<1>3. d \in Tunnel /\ d.status = "up"
  <2> HIDE DEF u
  <2> QED BY <1>2 DEF Tunnel
<1>4. d.invalid = u.invalid /\ d.hander = u.hander /\ d.conf = u.conf
  <2> HIDE DEF u
  <2> QED BY <1>2 DEF Tunnel
<1>5. /\ tcfg' \in Tables /\ tcfg'[i] = d
      /\ \A j \in Slots \ {i} : tcfg'[j] = tcfg[j]
  BY <1>1, <1>2, <1>3 DEF Tables
<1>6. SlotOK(u, i, i \in procs.pptp, i \in procs.l2tp, handle[i])
  BY DEF TunnelInv, SlotsOK
<1> HIDE DEF d
<1>7. SlotOK(d, i, i \in procs.pptp, i \in procs.l2tp, handle[i])
  <2>1. u.invalid
    BY <1>1, <1>6 DEF SlotOK
  <2> HIDE DEF u
  <2> QED BY <1>4, <1>6, <2>1 DEF SlotOK, Wants
<1>8. SlotsOK(tcfg', procs', handle')
  BY <1>1, <1>5, <1>7 DEF TunnelInv, SlotsOK
<1>9. UpOf(tcfg') = UpOf(tcfg) \cup {i} /\ i \notin UpOf(tcfg)
  BY <1>1, <1>3, <1>5 DEF UpOf
<1>10. /\ UpOf(tcfg) \in SUBSET Slots /\ nat.masq = UpOf(tcfg)
       /\ nat.dnat \subseteq UpOf(tcfg) /\ nat.jumps <= Cardinality(UpOf(tcfg))
  BY DEF UpOf, TunnelInv, RulesOK
<1>11. Cardinality(UpOf(tcfg')) = Cardinality(UpOf(tcfg)) + 1
       /\ Cardinality(UpOf(tcfg)) \in Nat
  BY <1>9, <1>10, SlotsFinite
<1>12. RulesOK(tcfg', nat')
  <2> DEFINE n == Cardinality(UpOf(tcfg))
  <2>1. /\ nat'.masq = nat.masq \cup {i} /\ nat'.dnat = nat.dnat \cup {i}
        /\ nat'.jumps = nat.jumps + 1
    BY <1>1
  <2>2. nat.jumps + 1 <= n + 1
    <3> HIDE DEF n
    <3>1. nat.jumps \in Nat /\ n \in Nat /\ nat.jumps <= n
      BY <1>2, <1>10, <1>11 DEF n
    <3> QED BY <3>1
  <2>3. nat'.jumps <= Cardinality(UpOf(tcfg'))
    BY <1>11, <2>1, <2>2
  <2> QED BY <1>9, <1>10, <2>1, <2>3 DEF RulesOK
<1>13. nat' \in Rules
  BY <1>1, <1>2 DEF Rules
<1>14. TableType'
  BY <1>1, <1>5, <1>13 DEF TunnelInv, TableType
<1>15. ListInv'
  BY <1>1, CalledLinked, AnsweredKeeps DEF ListInv, TunnelInv, Called, Notified
<1> QED BY <1>8, <1>12, <1>14, <1>15 DEF TunnelInv

LEMMA IpDownKeeps ==
  ASSUME TunnelInv, NEW i \in Slots, NEW kind \in Kinds, TunnelIpDown(i, kind)
  PROVE  TunnelInv'
<1> DEFINE v == IpDown(Now, i)
           u == tcfg[i]
           d == [u EXCEPT !.status = "down"]
<1>1. Called /\ Answered /\ Become(v)
  BY DEF TunnelIpDown
<1>2. /\ StateOK(Now) /\ Now.tcfg = tcfg /\ Now.evs = events /\ Now.h = handle
      /\ Now.procs = procs
  BY <1>1, NowOK DEF Now
<1>3. Now \in State /\ RulesOK(Now.tcfg, Now.nat) /\ SlotsOK(tcfg, procs, handle)
  BY <1>2 DEF StateOK
<1>4. /\ v \in State /\ v.evs = events /\ v.h = handle /\ v.procs = procs
      /\ v.tcfg = [Now.tcfg EXCEPT ![i] = [@ EXCEPT !.status = "down"]]
      /\ RulesOK(v.tcfg, v.nat)
  BY <1>2, <1>3, IpDownIs
<1>5. tcfg \in Tables /\ u \in Tunnel
  BY DEF TunnelInv, TableType, Tables
<1>6. v.tcfg[i] = d /\ \A j \in Slots \ {i} : v.tcfg[j] = tcfg[j]
  BY <1>2, <1>4, <1>5 DEF Tables
<1>7. SlotOK(d, i, i \in procs.pptp, i \in procs.l2tp, handle[i])
  BY <1>3, <1>5, DownOK DEF SlotsOK
<1> HIDE DEF v, d
<1>8. SlotsOK(v.tcfg, v.procs, v.h)
  BY <1>3, <1>4, <1>6, <1>7 DEF SlotsOK
<1>9. StateOK(v)
  BY <1>2, <1>4, <1>8 DEF StateOK
<1> QED BY <1>1, <1>9, BecomeOK

(***************************************************************************)
(* l2tp_cb: the timer is that of the slot, and the slot still wants it.    *)
(***************************************************************************)
LEMMA DialKeeps == ASSUME TunnelInv, NEW i \in Slots, L2tpCb(i) PROVE TunnelInv'
<1> DEFINE c == tcfg[i].conf
<1>1. /\ Due(i) /\ Ran /\ events' = events /\ handle' = Cleared(c.index)
      /\ tcfg' = tcfg /\ nat' = nat
      /\ \/ /\ procs' = [procs EXCEPT !.l2tp = @ \cup {c.index}]
            /\ started' = started \cup {<<c.index, "l2tp">>}
         \/ procs' = procs /\ started' = started
  BY DEF L2tpCb, Leave
<1>2. loop.at = "check" /\ loop.cur \in Addresses(events) /\ Current.cb = i
  BY <1>1 DEF Due, Readable
<1>3. Linked(events, handle, Null)
  BY <1>2 DEF LoopInv, TunnelInv, ListInv, Exempt
<1>4. Current \in Items(events) /\ Current.addr = loop.cur
  <2>1. \E k \in 1..Len(events) : events[k].addr = loop.cur
    BY <1>2 DEF Addresses
  <2> QED BY <2>1 DEF Current, Position, Items
<1>5. handle[i] # Null
  <2>1. loop.cur # Null
    BY <1>2, <1>3, AddressesType DEF Linked
  <2> QED BY <1>2, <1>3, <1>4, <2>1, TunnelsAssumption DEF Linked, HandleKnows
<1>6. /\ SlotOK(tcfg[i], i, i \in procs.pptp, i \in procs.l2tp, handle[i])
      /\ tcfg[i].hander = "l2tp" /\ Wants(tcfg[i], "l2tp") /\ c.index = i
  BY <1>5 DEF TunnelInv, SlotsOK, SlotOK
<1>7. handle \in Statics /\ procs \in Processes /\ started \in Pppds
  BY <1>3, TunnelsAssumption DEF Linked, Statics, TunnelInv, TableType
<1>8. handle' = [handle EXCEPT ![i] = Null]
  BY <1>1, <1>6 DEF Cleared
<1>9. /\ handle'[i] = Null /\ \A j \in Slots \ {i} : handle'[j] = handle[j]
  BY <1>7, <1>8 DEF Statics
<1>10. /\ procs' \in Processes /\ procs'.pptp = procs.pptp
       /\ procs'.l2tp \subseteq procs.l2tp \cup {i}
  BY <1>1, <1>6, <1>7 DEF Processes
<1>11. started' \in Pppds
  BY <1>1, <1>6, <1>7 DEF Pppds, Kinds
<1>12. SlotsOK(tcfg', procs', handle')
  <2> SUFFICES ASSUME NEW j \in Slots
               PROVE  SlotOK(tcfg[j], j, j \in procs'.pptp, j \in procs'.l2tp, handle'[j])
    BY <1>1 DEF SlotsOK
  <2>1. SlotOK(tcfg[j], j, j \in procs.pptp, j \in procs.l2tp, handle[j])
    BY DEF TunnelInv, SlotsOK
  <2>2. CASE j = i
    BY <1>6, <1>9, <1>10, <2>1, <2>2 DEF SlotOK
  <2>3. CASE j # i
    BY <1>9, <1>10, <2>1, <2>3 DEF SlotOK
  <2> QED BY <2>2, <2>3
<1>13. ListInv'
  <2>1. Linked(events, Remember(handle, i, Null), loop.cur)
    BY <1>1, DueLinked DEF ListInv, TunnelInv
  <2>2. Linked(events', handle', loop.cur)
    BY <1>1, <1>8, <2>1, TunnelsAssumption DEF Remember
  <2> QED BY <1>1, <2>2, RanKeeps DEF TunnelInv
<1> QED BY <1>1, <1>10, <1>11, <1>12, <1>13 DEF TunnelInv, TableType

LEMMA ProcessEndsKeeps == TunnelInv /\ ProcessEnds => TunnelInv'
<1> SUFFICES ASSUME TunnelInv, ProcessEnds PROVE TunnelInv'
  OBVIOUS
<1>1. UNCHANGED <<schedVars, tcfg, nat, started>> /\ procs \in Processes
  BY DEF ProcessEnds, TunnelInv, TableType
<1>2. /\ procs' \in Processes /\ procs'.pptp \subseteq procs.pptp
      /\ procs'.l2tp \subseteq procs.l2tp
  BY <1>1 DEF ProcessEnds, Processes
<1>3. SlotsOK(tcfg', procs', handle')
  <2> SUFFICES ASSUME NEW j \in Slots
               PROVE  SlotOK(tcfg[j], j, j \in procs'.pptp, j \in procs'.l2tp, handle[j])
    BY <1>1 DEF SlotsOK, schedVars
  <2>1. SlotOK(tcfg[j], j, j \in procs.pptp, j \in procs.l2tp, handle[j])
    BY DEF TunnelInv, SlotsOK
  <2> QED BY <1>2, <2>1 DEF SlotOK
<1>4. ListInv'
  BY <1>1 DEF LoopInv, TunnelInv, schedVars, ListInv, LoopType, Exempt
<1> QED BY <1>1, <1>2, <1>3, <1>4 DEF TunnelInv, TableType

LEMMA LoopKeeps == TunnelInv /\ (Loop \/ Tick) => TunnelInv'
<1> SUFFICES ASSUME TunnelInv, Loop \/ Tick PROVE TunnelInv'
  OBVIOUS
<1>1. ListInv' /\ UNCHANGED tunnelVars
  BY WalkKeeps DEF Loop, Tick, TunnelInv
<1>2. \A j \in Slots : handle'[j] = handle[j]
  BY DEF Loop, Tick, Walk, Skip, Release, WakeUp, OtherNetlink, Leave, SchedulerTick
<1>3. SlotsOK(tcfg', procs', handle')
  BY <1>1, <1>2 DEF TunnelInv, SlotsOK, tunnelVars
<1> QED BY <1>1, <1>3 DEF TunnelInv, TableType, tunnelVars

----------------------------------------------------------------------------
(***************************************************************************)
(* tunnel_init: no tunnel that is read from the flash is up, and the       *)
(* restart of what is stored keeps what the handlers keep.                 *)
(***************************************************************************)
LEMMA NoneUp == Cardinality({}) = 0 /\ IsFiniteSet({})
BY FS_EmptySet

LEMMA FirstOK ==
  ASSUME NEW n, NEW c \in [Slots -> Confs],
         \A i \in Slots : c[i] \in IF i < n THEN Named(i) ELSE {Zero}
  PROVE  StateOK([Blank EXCEPT !.tcfg =
                    [i \in Slots |-> IF i < n THEN Stored(i, c[i]) ELSE Unused]])
<1> DEFINE tc == [i \in Slots |-> IF i < n THEN Stored(i, c[i]) ELSE Unused]
           b  == [Blank EXCEPT !.tcfg = tc]
<1>1. /\ Unused \in Tunnel /\ ~Unused.invalid /\ Unused.hander = None
      /\ Unused.status # "up" /\ ~Unused.conf.named
  BY DEF Unused, Tunnel, Zero, Confs, Slots, None
<1>2. ASSUME NEW i \in Slots, NEW d \in Named(i)
      PROVE  /\ Stored(i, d) \in Tunnel /\ Stored(i, d).invalid
             /\ Stored(i, d).hander = d.type /\ Stored(i, d).status # "up"
             /\ Stored(i, d).conf = d
  BY DEF Stored, Named, Tunnel, None
<1>3. ASSUME NEW i \in Slots
      PROVE  tc[i] \in Tunnel /\ tc[i].status # "up" /\ SlotOK(tc[i], i, FALSE, FALSE, Null)
  <2>1. CASE i < n
    <3>1. c[i] \in Named(i) /\ tc[i] = Stored(i, c[i])
      BY <2>1
    <3> HIDE DEF tc
    <3> QED BY <1>2, <3>1 DEF SlotOK, Named
  <2>2. CASE ~(i < n)
    <3>1. tc[i] = Unused
      BY <2>2
    <3> HIDE DEF tc
    <3> QED BY <1>1, <3>1 DEF SlotOK
  <2> QED BY <2>1, <2>2
<1>4. tc \in Tables /\ UpOf(tc) = {}
  BY <1>3 DEF Tables, UpOf
<1> HIDE DEF tc
<1>5. /\ Blank.evs = <<>> /\ Blank.h = [i \in Slots |-> Null] /\ Blank.started = {}
      /\ Blank.nat = [masq |-> {}, dnat |-> {}, jumps |-> 0] /\ Blank.ret = 0
      /\ Blank.procs = [pptp |-> {}, l2tp |-> {}, xl2tpd |-> FALSE]
      /\ Blank.tcfg = [i \in Slots |-> Unused]
  BY DEF Blank
<1>6. Linked(Blank.evs, Blank.h, Null)
  BY <1>5, EmptyLinked, TunnelsAssumption
<1>7. Blank.evs \in Lists /\ Blank.h \in Statics
  BY <1>6, TunnelsAssumption DEF Linked, List, Lists, Statics
<1>8. /\ Blank.nat \in Rules /\ Blank.nat.masq = {} /\ Blank.nat.dnat = {}
      /\ Blank.nat.jumps = 0
  BY <1>5 DEF Rules
<1>9. Blank.procs \in Processes /\ Blank.procs.pptp = {} /\ Blank.procs.l2tp = {}
  BY <1>5 DEF Processes
<1>10. Blank.tcfg \in Tables /\ Blank.started \in Pppds /\ Blank.ret \in {0, -1}
  BY <1>1, <1>5 DEF Tables, Pppds
<1>11. Blank \in State
  BY <1>7, <1>8, <1>9, <1>10 DEF Blank, State
<1>12. /\ b.evs = Blank.evs /\ b.h = Blank.h /\ b.nat = Blank.nat
       /\ b.procs = Blank.procs /\ b.tcfg = tc /\ (b.tcfg \in Tables => b \in State)
  BY <1>11 DEF State
<1> HIDE DEF b
<1>13. SlotsOK(b.tcfg, b.procs, b.h)
  <2> SUFFICES ASSUME NEW i \in Slots
               PROVE  SlotOK(tc[i], i, i \in b.procs.pptp, i \in b.procs.l2tp, b.h[i])
    BY <1>12 DEF SlotsOK
  <2>1. i \notin b.procs.pptp /\ i \notin b.procs.l2tp /\ b.h[i] = Null
    BY <1>5, <1>9, <1>12
  <2> QED BY <1>3, <2>1 DEF SlotOK
<1>14. RulesOK(b.tcfg, b.nat)
  <2>1. UpOf(b.tcfg) = {} /\ b.nat.masq = {} /\ b.nat.dnat = {} /\ b.nat.jumps = 0
    BY <1>4, <1>8, <1>12
  <2>2. b.nat.jumps <= Cardinality(UpOf(b.tcfg))
    <3>1. Cardinality(UpOf(b.tcfg)) = 0
      BY <2>1, NoneUp
    <3> QED BY <2>1, <3>1
  <2> QED BY <2>1, <2>2 DEF RulesOK
<1> QED BY <1>4, <1>6, <1>12, <1>13, <1>14 DEF StateOK, b, tc

LEMMA InitInv == Init => TunnelInv
<1> SUFFICES ASSUME Init PROVE TunnelInv
  OBVIOUS
<1>1. PICK n \in 0..Cardinality(Slots), c \in [Slots -> Confs] :
        /\ \A i \in Slots : c[i] \in IF i < n THEN Named(i) ELSE {Zero}
        /\ LET b == [Blank EXCEPT !.tcfg = [i \in Slots |->
                       IF i < n THEN Stored(i, c[i]) ELSE Unused]] IN
           \E s \in Restarted(b, 0) : \E t \in Restarted(s, 1) :
             /\ events = t.evs /\ handle = t.h /\ tcfg = t.tcfg /\ nat = t.nat
             /\ procs = t.procs /\ started = t.started
             /\ loop = IF events = <<>> THEN Selecting ELSE LookAt(events, events[1].addr)
  BY DEF Init
<1> DEFINE b == [Blank EXCEPT !.tcfg = [i \in Slots |->
                   IF i < n THEN Stored(i, c[i]) ELSE Unused]]
<1>2. StateOK(b)
  BY <1>1, FirstOK
<1>3. PICK s \in Restarted(b, 0) : \E t \in Restarted(s, 1) :
        /\ events = t.evs /\ handle = t.h /\ tcfg = t.tcfg /\ nat = t.nat
        /\ procs = t.procs /\ started = t.started
        /\ loop = IF events = <<>> THEN Selecting ELSE LookAt(events, events[1].addr)
  BY <1>1
<1> HIDE DEF b
<1>4. StateOK(s)
  BY <1>2, <1>3, RestartedOK DEF Slots
<1>5. PICK t \in Restarted(s, 1) :
        /\ events = t.evs /\ handle = t.h /\ tcfg = t.tcfg /\ nat = t.nat
        /\ procs = t.procs /\ started = t.started
        /\ loop = IF events = <<>> THEN Selecting ELSE LookAt(events, events[1].addr)
  BY <1>3
<1>6. StateOK(t)
  BY <1>4, RestartedOK DEF Slots
<1>7. TableType /\ SlotsOK(tcfg, procs, handle) /\ RulesOK(tcfg, nat)
  BY <1>5, <1>6 DEF StateOK, State, TableType
<1>8. Linked(events, handle, Null)
  BY <1>5, <1>6 DEF StateOK
<1>9. ListInv
  <2>1. CASE events = <<>>
    <3>1. loop = [at |-> "select", cur |-> Null, nxt |-> Null, late |-> 0]
      BY <1>5, <2>1 DEF Selecting
    <3> QED BY <1>8, <3>1 DEF LoopInv, ListInv, LoopType, Phases, Cursors, Exempt, Walkable
  <2>2. CASE events # <<>>
    <3>1. events \in Seq(Entry) /\ List(events)
      BY <1>8 DEF Linked, List
    <3>2. 1 \in 1..Len(events)
      BY <2>2, <3>1, EmptySeq, LenProperties
    <3>3. events[1].addr \in Addresses(events)
      BY <3>2 DEF Addresses
    <3>4. loop = LookAt(events, events[1].addr)
      BY <1>5, <2>2
    <3>5. LoopType /\ loop.at = "check" /\ Walkable(events, loop)
      BY <3>1, <3>3, <3>4, LookAtList DEF LoopType
    <3> QED BY <1>8, <3>5 DEF LoopInv, ListInv, Exempt
  <2> QED BY <2>1, <2>2
<1> QED BY <1>7, <1>9 DEF TunnelInv

\* The invariant holds in every state the tunnels can be in.
THEOREM TunnelInductive == Spec => []TunnelInv
<1>1. TunnelInv /\ [Next]_vars => TunnelInv'
  <2> SUFFICES ASSUME TunnelInv, [Next]_vars PROVE TunnelInv'
    OBVIOUS
  <2>1. CASE UNCHANGED vars
    BY <2>1 DEF LoopInv, vars, schedVars, tunnelVars, TunnelInv, TableType, ListInv, LoopType, Exempt
  <2>2. CASE Request
    BY <2>2, AddKeeps, ResetKeeps, ChangeKeeps, RemoveKeeps DEF Request
  <2>3. CASE Report
    BY <2>3, IpUpKeeps, IpDownKeeps DEF Report
  <2>4. CASE Dial
    BY <2>4, DialKeeps DEF Dial
  <2> QED BY <2>1, <2>2, <2>3, <2>4, ProcessEndsKeeps, LoopKeeps DEF Next
<1> QED BY <1>1, InitInv, PTL DEF Spec

----------------------------------------------------------------------------
\* No pppd outlives its tunnel: one that runs is of the kind its slot is set to, and
\* the tunnel is enabled.
THEOREM NoneStray == Spec => []NoStrayPppd
<1>1. TunnelInv => NoStrayPppd
  <2> SUFFICES ASSUME TunnelInv PROVE NoStrayPppd
    OBVIOUS
  <2>1. procs.pptp \subseteq Slots /\ procs.l2tp \subseteq Slots
    BY DEF TunnelInv, TableType, Processes
  <2> QED BY <2>1 DEF TunnelInv, SlotsOK, SlotOK, Wants, NoStrayPppd, Wanted
<1> QED BY <1>1, TunnelInductive, PTL

\* A dial that is pending is for a tunnel that still wants it, with the settings of
\* its own slot, whatever was added, changed, removed or reset since it was set.
THEOREM DialsOwn == Spec => []DialIsOwn
<1>1. TunnelInv => DialIsOwn
  BY DEF TunnelInv, SlotsOK, SlotOK, Wants, DialIsOwn, Wanted
<1> QED BY <1>1, TunnelInductive, PTL

\* The rules in iptables are those of the tunnels that are up.
THEOREM RulesFollow == Spec => []RulesOnlyForUp
<1>1. TunnelInv => RulesOnlyForUp
  BY DEF TunnelInv, RulesOK, UpOf, RulesOnlyForUp
<1> QED BY <1>1, TunnelInductive, PTL

\* l2tp[] points to the pending timer of its own slot.
THEOREM DialHandles == Spec => []HandlesLive
<1>1. TunnelInv => HandlesLive
  BY DEF LoopInv, TunnelInv, ListInv, Linked, HandleSound, Items, HandlesLive
<1> QED BY <1>1, TunnelInductive, PTL
=============================================================================
