-------------------------- MODULE GuestHostsProofs --------------------------
(***************************************************************************)
(* Theorems about GuestHosts, for any number of hosts, entries and         *)
(* messages, any delays and any settings.                                  *)
(***************************************************************************)
EXTENDS GuestHosts, SchedulerProofs

(***************************************************************************)
(* What an entry says, changed field by field.                             *)
(***************************************************************************)
Allownr == 0..AllowMax

LEMMA GuestRecIs ==
  GuestRec = [mac : Macs, online : BOOLEAN, authon : BOOLEAN, authoff : BOOLEAN,
              passid : BOOLEAN, allownr : Allownr, rules : SUBSET Rules]
BY DEF GuestRec, Allownr

LEMMA AllownrType == 0 \in Allownr /\ \A n \in Allownr : n # AllowMax => n + 1 \in Allownr
BY GuestHostsAssumption DEF Allownr

\* The same host, with or without the rules of before.
SameButRules(new, g) ==
  /\ new \in GuestRec
  /\ new.mac = g.mac /\ new.online = g.online
  /\ new.authon = g.authon /\ new.authoff = g.authoff

LEMMA DelRuleIs ==
  ASSUME NEW g \in GuestRec
  PROVE  SameButRules(DelRule(g), g) /\ DelRule(g).rules = {}
BY GuestRecIs DEF DelRule, SameButRules

LEMMA RuledIs ==
  ASSUME NEW g \in GuestRec, NEW rs \in SUBSET Rules
  PROVE  SameButRules([g EXCEPT !.rules = rs], g) /\ [g EXCEPT !.rules = rs].rules = rs
BY GuestRecIs DEF SameButRules

LEMMA AddRuleIs ==
  ASSUME NEW g \in GuestRec
  PROVE  SameButRules(AddRule(g), g) /\ "black" \in AddRule(g).rules
<1> DEFINE rs == g.rules \cup IF conf.wechat /\ ~g.authoff THEN Rules ELSE {"black"}
<1>1. rs \in SUBSET Rules /\ "black" \in rs
  BY GuestRecIs DEF Rules
<1>2. AddRule(g) = [g EXCEPT !.rules = rs]
  BY DEF AddRule
<1> HIDE DEF rs
<1> QED BY <1>1, <1>2, RuledIs

LEMMA AllowedIs ==
  ASSUME NEW g \in GuestRec
  PROVE  SameButRules(Allowed(g), g) /\ Allowed(g).rules = g.rules \ {"dnsrd", "black"}
<1> DEFINE n == IF g.allownr = AllowMax THEN g.allownr ELSE g.allownr + 1
<1>1. n \in Allownr
  BY GuestRecIs, AllownrType
<1>2. Allowed(g) = [g EXCEPT !.rules = g.rules \ {"dnsrd", "black"}, !.allownr = n]
  BY DEF Allowed
<1> HIDE DEF n
<1> QED BY <1>1, <1>2, GuestRecIs DEF SameButRules

LEMMA FreshIs ==
  ASSUME NEW m \in Macs
  PROVE  /\ Fresh(m) \in GuestRec /\ Fresh(m).mac = m
         /\ Fresh(m).rules = {} /\ ~Fresh(m).authon /\ Fresh(m).online
BY GuestRecIs, AllownrType DEF Fresh

LEMMA OnlineIs ==
  ASSUME NEW g \in GuestRec, NEW on \in BOOLEAN
  PROVE  LET n == [DelRule(g) EXCEPT !.online = on]
         IN  /\ n \in GuestRec /\ n.mac = g.mac /\ n.online = on /\ n.rules = {}
             /\ n.authon = g.authon /\ n.authoff = g.authoff
BY GuestRecIs DEF DelRule

LEMMA LetInIs ==
  ASSUME NEW g \in GuestRec, NEW passid \in BOOLEAN
  PROVE  LET n == [DelRule(g) EXCEPT !.allownr = 0, !.authon = TRUE,
                                     !.passid = g.passid \/ passid]
         IN  /\ n \in GuestRec /\ n.mac = g.mac /\ n.online = g.online /\ n.rules = {}
             /\ n.authon
<1> DEFINE p == g.passid \/ passid
<1>1. p \in BOOLEAN
  BY GuestRecIs
<1> HIDE DEF p
<1>2. LET n == [DelRule(g) EXCEPT !.allownr = 0, !.authon = TRUE, !.passid = p]
      IN  /\ n \in GuestRec /\ n.mac = g.mac /\ n.online = g.online /\ n.rules = {}
          /\ n.authon
  BY <1>1, GuestRecIs, AllownrType DEF DelRule
<1> QED BY <1>2 DEF p

LEMMA ShutOutIs ==
  ASSUME NEW g \in GuestRec
  PROVE  LET n == ShutOut(g)
         IN  /\ n \in GuestRec /\ n.mac = g.mac /\ n.online = g.online
             /\ "black" \in n.rules /\ ~n.authon
<1> DEFINE rs == g.rules \cup {"black"}
<1>1. rs \in SUBSET Rules /\ "black" \in rs
  BY GuestRecIs DEF Rules
<1> HIDE DEF rs
<1>2. LET n == [g EXCEPT !.rules = rs, !.authon = FALSE, !.authoff = TRUE]
      IN  /\ n \in GuestRec /\ n.mac = g.mac /\ n.online = g.online
          /\ "black" \in n.rules /\ ~n.authon
  BY <1>1, GuestRecIs
<1> QED BY <1>2 DEF rs, ShutOut

LEMMA OutIs ==
  ASSUME NEW g \in GuestRec
  PROVE  LET n == [g EXCEPT !.authon = FALSE, !.passid = FALSE]
         IN  /\ n \in GuestRec /\ n.mac = g.mac /\ n.online = g.online /\ ~n.authon
BY GuestRecIs

(***************************************************************************)
(* The table: an entry that is appended, or taken out.                     *)
(***************************************************************************)
Elements(s) == {s[i] : i \in 1..Len(s)}
NoneTwice(s) == \A i, j \in 1..Len(s) : s[i] = s[j] => i = j

LEMMA AppendedTable ==
  ASSUME NEW s \in Seq(Entries), NoneTwice(s), NEW e \in Entries, e \notin Elements(s)
  PROVE  /\ Append(s, e) \in Seq(Entries) /\ NoneTwice(Append(s, e))
         /\ Len(Append(s, e)) = Len(s) + 1
         /\ Elements(Append(s, e)) = Elements(s) \cup {e}
<1> DEFINE t == Append(s, e)
<1>1. /\ t \in Seq(Entries) /\ Len(t) = Len(s) + 1 /\ Len(s) \in Nat
      /\ \A i \in 1..Len(s) : t[i] = s[i]
      /\ t[Len(s) + 1] = e
  BY AppendProperties, LenProperties
<1> HIDE DEF t
<1>2. \A i \in 1..Len(t) : i \in 1..Len(s) \/ i = Len(s) + 1
  BY <1>1
<1>3. NoneTwice(t)
  BY <1>1, <1>2 DEF NoneTwice, Elements
<1>4. Elements(t) = Elements(s) \cup {e}
  <2>1. ASSUME NEW i \in 1..Len(t) PROVE t[i] \in Elements(s) \cup {e}
    BY <1>1, <1>2 DEF Elements
  <2>2. ASSUME NEW i \in 1..Len(s) PROVE \E j \in 1..Len(t) : t[j] = s[i]
    BY <1>1
  <2>3. Len(s) + 1 \in 1..Len(t) /\ t[Len(s) + 1] = e
    BY <1>1
  <2>4. ASSUME NEW x \in Elements(t) PROVE x \in Elements(s) \cup {e}
    BY <2>1 DEF Elements
  <2>5. ASSUME NEW x \in Elements(s) PROVE x \in Elements(t)
    BY <2>2 DEF Elements
  <2>6. e \in Elements(t)
    BY <2>3 DEF Elements
  <2> QED BY <2>4, <2>5, <2>6
<1> QED BY <1>1, <1>3, <1>4 DEF t

LEMMA UnlistedTable ==
  ASSUME vhost \in Seq(Entries), NoneTwice(vhost), NEW e \in Listed
  PROVE  /\ Unlisted(e) \in Seq(Entries) /\ NoneTwice(Unlisted(e))
         /\ Len(Unlisted(e)) = Len(vhost) - 1
         /\ Elements(Unlisted(e)) = Listed \ {e}
<1> DEFINE kept == {i \in 1..Len(vhost) : vhost[i] # e}
           p    == Picked(vhost, kept)
<1>1. Unlisted(e) = p /\ kept \in SUBSET (1..Len(vhost))
  BY DEF Unlisted
<1>2. Len(vhost) \in Nat
  BY LenProperties
<1>3. PICK k \in 1..Len(vhost) : vhost[k] = e
  BY DEF Listed
<1>4. kept = (1..Len(vhost)) \ {k}
  BY <1>3 DEF NoneTwice
<1>5. Cardinality(kept) = Len(vhost) - 1
  <2>1. IsFiniteSet(1..Len(vhost)) /\ Cardinality(1..Len(vhost)) = Len(vhost)
    BY <1>2, FS_Interval
  <2> QED BY <1>4, <2>1, FS_RemoveElement
<1>6. {vhost[i] : i \in kept} = Listed \ {e}
  BY DEF Listed
<1> HIDE DEF kept
<1>7. p \in Seq(Entries) /\ Len(p) = Len(vhost) - 1
  BY <1>1, <1>5, PickedAt
<1>8. NoneTwice(p) /\ Elements(p) = Listed \ {e}
  BY <1>1, <1>6, PickedElements DEF NoneTwice, Elements
<1> QED BY <1>1, <1>7, <1>8

TableType ==
  /\ conf \in Settings
  /\ vhost \in Seq(Entries) /\ NoneTwice(vhost) /\ Len(vhost) <= TableMax
  /\ guest \in [Entries -> GuestRec \cup {Null}]
  /\ \A e \in Entries : e \in Listed <=> guest[e] # Null

LEMMA TableIs ==
  /\ TableType => /\ Len(vhost) \in Nat /\ Listed = Elements(vhost) /\ Listed \subseteq Entries
                  /\ \A e \in Listed : guest[e] \in GuestRec
  /\ TableMax \in Nat /\ HostMax \in Nat /\ TableMax > HostMax
<1>1. Listed = Elements(vhost)
  BY DEF Listed, Elements
<1>2. TableType => Len(vhost) \in Nat /\ Listed \subseteq Entries
  BY LenProperties DEF TableType, Listed
<1> QED BY <1>1, <1>2, GuestHostsAssumption DEF TableType, TableMax

\* An entry says something else, is taken out, or is new.
LEMMA TableChanged ==
  ASSUME TableType, NEW e \in Listed, NEW g \in GuestRec,
         guest' = [guest EXCEPT ![e] = g], vhost' = vhost, conf' = conf
  PROVE  TableType' /\ Listed' = Listed
<1>1. Listed' = Listed
  BY DEF Listed
<1> QED BY <1>1, GuestHostsAssumption DEF TableType

LEMMA TableWithout ==
  ASSUME TableType, NEW e \in Listed,
         guest' = [guest EXCEPT ![e] = Null], vhost' = Unlisted(e), conf' = conf
  PROVE  TableType' /\ Listed' = Listed \ {e}
<1>1. /\ vhost' \in Seq(Entries) /\ NoneTwice(vhost') /\ Len(vhost') = Len(vhost) - 1
      /\ Elements(vhost') = Listed \ {e}
  BY UnlistedTable DEF TableType
<1>2. Listed' = Listed \ {e}
  BY <1>1 DEF Listed, Elements
<1>3. Len(vhost') <= TableMax
  BY <1>1, TableIs DEF TableType
<1>4. e \in Entries /\ guest' \in [Entries -> GuestRec \cup {Null}]
  BY TableIs DEF TableType
<1> QED BY <1>1, <1>2, <1>3, <1>4 DEF TableType

LEMMA TableWith ==
  ASSUME TableType, NEW e \in Entries, NEW g \in GuestRec, NEW s \in Seq(Entries),
         NoneTwice(s), Elements(s) = Listed \ {e}, Len(s) < TableMax,
         guest' = [guest EXCEPT ![e] = g], vhost' = Append(s, e), conf' = conf
  PROVE  TableType' /\ Listed' = Listed \cup {e}
<1>1. /\ vhost' \in Seq(Entries) /\ NoneTwice(vhost') /\ Len(vhost') = Len(s) + 1
      /\ Elements(vhost') = Elements(s) \cup {e}
  BY AppendedTable
<1>2. Listed' = Listed \cup {e}
  BY <1>1 DEF Listed, Elements
<1>3. Len(vhost') <= TableMax
  BY <1>1, TableIs, LenProperties
<1>4. guest' \in [Entries -> GuestRec \cup {Null}]
  BY DEF TableType
<1> QED BY <1>1, <1>2, <1>3, <1>4, GuestHostsAssumption DEF TableType

LEMMA TableSame ==
  ASSUME TableType, UNCHANGED guestVars, conf' \in Settings
  PROVE  TableType' /\ Listed' = Listed
<1>1. vhost' = vhost /\ guest' = guest
  BY DEF guestVars
<1>2. Listed' = Listed
  BY <1>1 DEF Listed
<1> QED BY <1>1, <1>2 DEF TableType

(***************************************************************************)
(* What the handlers do to the table.                                      *)
(***************************************************************************)
LEMMA GoneTable ==
  ASSUME TableType, NEW e \in Listed, Gone(e), conf' = conf
  PROVE  /\ TableType' /\ Listed' \subseteq Listed
         /\ \A f \in Entries \ {e} : guest'[f] = guest[f]
         /\ guest'[e] # Null =>
              /\ guest'[e].mac = guest[e].mac /\ ~guest'[e].online
              /\ guest'[e].rules = {} /\ guest'[e].authon = guest[e].authon
<1>1. guest[e] \in GuestRec /\ e \in Entries
  BY TableIs
<1>2. CASE guest[e].authon \/ guest[e].authoff
  <2> DEFINE n == [DelRule(guest[e]) EXCEPT !.online = FALSE]
  <2>1. guest' = [guest EXCEPT ![e] = n] /\ vhost' = vhost
    BY <1>2 DEF Gone
  <2>2. /\ n \in GuestRec /\ n.mac = guest[e].mac /\ ~n.online
        /\ n.rules = {} /\ n.authon = guest[e].authon
    BY <1>1, OnlineIs
  <2> HIDE DEF n
  <2>3. TableType' /\ Listed' = Listed
    BY <2>1, <2>2, TableChanged
  <2> QED BY <1>1, <2>1, <2>2, <2>3 DEF TableType
<1>3. CASE ~(guest[e].authon \/ guest[e].authoff)
  <2>1. vhost' = Unlisted(e) /\ guest' = [guest EXCEPT ![e] = Null]
    BY <1>3 DEF Gone
  <2>2. TableType' /\ Listed' = Listed \ {e}
    BY <2>1, TableWithout
  <2> QED BY <1>1, <2>1, <2>2 DEF TableType
<1> QED BY <1>2, <1>3

LEMMA AdmitIs ==
  ASSUME TableType, NEW e \in Entries, NEW g \in GuestRec, NEW evs, NEW h,
         Admit(e, g, evs, h)
  PROVE  \E n \in GuestRec :
           /\ guest' = [guest EXCEPT ![e] = n] /\ SameButRules(n, g)
           /\ \/ "black" \in n.rules /\ Leave(evs, h)
              \/ /\ "black" \notin n.rules
                 /\ \E a \in Allocs(evs) :
                      /\ handle' = [h EXCEPT ![e] = a]
                      /\ events' = Scheduled(evs, a, e, Delay["minute"])
<1>1. CASE ~conf.wechat \/ g.authoff
  <2> DEFINE n == [g EXCEPT !.rules = {"black"}]
  <2>1. guest' = [guest EXCEPT ![e] = n] /\ Leave(evs, h)
    BY <1>1 DEF Admit
  <2>2. SameButRules(n, g) /\ n.rules = {"black"}
    BY RuledIs DEF Rules
  <2> HIDE DEF n
  <2> QED BY <2>1, <2>2 DEF SameButRules
<1>2. CASE ~(~conf.wechat \/ g.authoff)
  <2> DEFINE p == [g EXCEPT !.rules = {"page"}]
             n == Allowed(p)
  <2>1. /\ guest' = [guest EXCEPT ![e] = n]
        /\ \E a \in Allocs(evs) :
             /\ handle' = [h EXCEPT ![e] = a]
             /\ events' = Scheduled(evs, a, e, Delay["minute"])
    BY <1>2 DEF Admit
  <2>2. SameButRules(p, g) /\ p.rules = {"page"}
    BY RuledIs DEF Rules
  <2> HIDE DEF p
  <2>3. SameButRules(n, p) /\ n.rules = p.rules \ {"dnsrd", "black"}
    BY <2>2, AllowedIs DEF SameButRules
  <2> HIDE DEF n
  <2>4. SameButRules(n, g) /\ "black" \notin n.rules
    BY <2>2, <2>3 DEF SameButRules
  <2> QED BY <2>1, <2>4 DEF SameButRules
<1> QED BY <1>1, <1>2

\* The entry that a full table gives up.
LEMMA VictimIs ==
  ASSUME TableType, \E e \in Listed : Offline(e)
  PROVE  /\ Victim \in Listed /\ ~guest[Victim].online
         /\ Unlisted(Victim) \in Seq(Entries) /\ NoneTwice(Unlisted(Victim))
         /\ Elements(Unlisted(Victim)) = Listed \ {Victim}
         /\ Len(Unlisted(Victim)) < TableMax
<1> DEFINE S == {i \in 1..Len(vhost) : Offline(vhost[i])}
<1>1. Len(vhost) \in Nat
  BY TableIs
<1>2. S \in SUBSET Nat /\ S # {}
  BY <1>1 DEF Listed
<1>3. PICK i \in S : \A j \in S : i <= j
  BY <1>2, Least
<1>4. Offline(vhost[i]) /\ \A j \in 1..(i - 1) : ~Offline(vhost[j])
  <2>1. ASSUME NEW j \in 1..(i - 1) PROVE ~Offline(vhost[j])
    <3>1. j \in 1..Len(vhost) /\ j < i
      BY <1>1, <1>3
    <3> QED BY <1>2, <1>3, <3>1
  <2> QED BY <1>3, <2>1
<1>5. Victim \in Listed /\ ~guest[Victim].online
  <2>1. \E k \in 1..Len(vhost) : Offline(vhost[k]) /\ \A j \in 1..(k - 1) : ~Offline(vhost[j])
    BY <1>3, <1>4
  <2> QED BY <2>1 DEF Victim, Listed, Offline
<1>6. /\ Unlisted(Victim) \in Seq(Entries) /\ NoneTwice(Unlisted(Victim))
      /\ Len(Unlisted(Victim)) = Len(vhost) - 1
      /\ Elements(Unlisted(Victim)) = Listed \ {Victim}
  BY <1>5, UnlistedTable DEF TableType
<1>7. Len(Unlisted(Victim)) < TableMax
  BY <1>1, <1>6, TableIs DEF TableType
<1> QED BY <1>5, <1>6, <1>7

\* A host that comes online is let in again, or admitted: to its own entry, whose
\* timer goes, or to one that is new or was offline.
LetIn(m, e) ==
  /\ guest[e].mac = m /\ guest[e].authon /\ guest'[e] \in GuestRec
  /\ guest'[e].mac = m /\ guest'[e].rules = {}
  /\ guest'[e].authon /\ guest'[e].online
  /\ Leave(Cancelled(events, e), Cleared(e))

Admitted(m, e, g, evs) ==
  /\ g.mac = m /\ g.online /\ ~g.authon /\ g.rules = {}
  /\ Admit(e, g, evs, Cleared(e))
  /\ \/ e \in EntriesOf(m) /\ evs = Cancelled(events, e)
     \/ EntriesOf(m) = {} /\ (e \in Listed => ~guest[e].online) /\ evs = events

LEMMA OnlineIsOne ==
  ASSUME TableType, NEW m \in Macs, conf' = conf,
         OnlineAgain(m) \/ OnlineNew(m) \/ OnlineInstead(m)
  PROVE  /\ TableType'
         /\ \/ Ignore
            \/ \E e \in Entries :
                 /\ Listed' = Listed \cup {e}
                 /\ \A f \in Entries \ {e} : guest'[f] = guest[f]
                 /\ \/ e \in Listed /\ LetIn(m, e)
                    \/ \E g \in GuestRec, evs \in {events, Cancelled(events, e)} :
                         Admitted(m, e, g, evs) /\ guest'[e] # Null /\ SameButRules(guest'[e], g)
<1>0. Listed \subseteq Entries /\ guest \in [Entries -> GuestRec \cup {Null}]
  BY TableIs DEF TableType
<1>1. CASE OnlineAgain(m)
  <2>1. PICK e \in EntriesOf(m) :
          LET g == [DelRule(guest[e]) EXCEPT !.online = TRUE] IN
          /\ UNCHANGED vhost
          /\ IF g.authon
             THEN /\ guest' = [guest EXCEPT ![e] = g]
                  /\ Leave(Cancelled(events, e), Cleared(e))
             ELSE Admit(e, g, Cancelled(events, e), Cleared(e))
    BY <1>1 DEF OnlineAgain
  <2> DEFINE g == [DelRule(guest[e]) EXCEPT !.online = TRUE]
  <2>2. e \in Listed /\ e \in Entries /\ guest[e].mac = m /\ guest[e] \in GuestRec
    BY <1>0, TableIs DEF EntriesOf
  <2>3. /\ g \in GuestRec /\ g.mac = m /\ g.online /\ g.rules = {}
        /\ g.authon = guest[e].authon
    BY <2>2, OnlineIs
  <2>4. CASE g.authon
    <3>1. /\ guest' = [guest EXCEPT ![e] = g] /\ vhost' = vhost
          /\ Leave(Cancelled(events, e), Cleared(e))
      BY <2>1, <2>4
    <3> HIDE DEF g
    <3>2. TableType' /\ Listed' = Listed
      BY <2>2, <2>3, <3>1, TableChanged
    <3>3. guest'[e] = g /\ \A f \in Entries \ {e} : guest'[f] = guest[f]
      BY <1>0, <2>2, <3>1
    <3>4. LetIn(m, e)
      BY <2>2, <2>3, <2>4, <3>1, <3>3 DEF LetIn
    <3> QED BY <2>2, <3>2, <3>3, <3>4
  <2>5. CASE ~g.authon
    <3>1. Admit(e, g, Cancelled(events, e), Cleared(e)) /\ vhost' = vhost
      BY <2>1, <2>5
    <3> HIDE DEF g
    <3>2. PICK n \in GuestRec : guest' = [guest EXCEPT ![e] = n] /\ SameButRules(n, g)
      BY <2>2, <2>3, <3>1, AdmitIs
    <3>3. TableType' /\ Listed' = Listed
      BY <2>2, <3>1, <3>2, TableChanged
    <3>4. guest'[e] = n /\ n # Null /\ \A f \in Entries \ {e} : guest'[f] = guest[f]
      BY <1>0, <2>2, <3>2, GuestHostsAssumption
    <3>5. Admitted(m, e, g, Cancelled(events, e))
      BY <2>2, <2>3, <2>5, <3>1 DEF Admitted, EntriesOf
    <3> QED BY <2>2, <2>3, <3>2, <3>3, <3>4, <3>5
  <2> QED BY <2>4, <2>5
<1> DEFINE g == Fresh(m)
<1>2. /\ g \in GuestRec /\ g.mac = m /\ g.online /\ g.rules = {} /\ ~g.authon
  BY FreshIs
<1>3. ASSUME NEW e \in Entries, NEW s \in Seq(Entries), NoneTwice(s),
             Elements(s) = Listed \ {e}, Len(s) < TableMax, vhost' = Append(s, e),
             Admit(e, g, events, Cleared(e)), e \in Listed => ~guest[e].online,
             EntriesOf(m) = {}
      PROVE  /\ TableType' /\ Listed' = Listed \cup {e}
             /\ \A f \in Entries \ {e} : guest'[f] = guest[f]
             /\ Admitted(m, e, g, events) /\ guest'[e] # Null /\ SameButRules(guest'[e], g)
  <2> HIDE DEF g
  <2>1. PICK n \in GuestRec : guest' = [guest EXCEPT ![e] = n] /\ SameButRules(n, g)
    BY <1>2, <1>3, AdmitIs
  <2>2. TableType' /\ Listed' = Listed \cup {e}
    BY <1>3, <2>1, TableWith
  <2>3. guest'[e] = n /\ n # Null /\ \A f \in Entries \ {e} : guest'[f] = guest[f]
    BY <1>0, <2>1, GuestHostsAssumption
  <2>4. Admitted(m, e, g, events)
    BY <1>2, <1>3 DEF Admitted
  <2> QED BY <2>1, <2>2, <2>3, <2>4
<1>4. CASE OnlineNew(m)
  <2>1. CASE Ignore
    BY <2>1, TableSame DEF Ignore, TableType
  <2>2. CASE ~Ignore
    <3>1. PICK e \in Entries \ Listed :
            /\ vhost' = Append(vhost, e)
            /\ Admit(e, Fresh(m), events, Cleared(e))
      BY <1>4, <2>2 DEF OnlineNew, Cleared
    <3>2. /\ vhost \in Seq(Entries) /\ NoneTwice(vhost) /\ Elements(vhost) = Listed \ {e}
          /\ Len(vhost) < TableMax
      BY <1>4, TableIs DEF OnlineNew, TableType
    <3> HIDE DEF g
    <3>3. EntriesOf(m) = {}
      BY <1>4 DEF OnlineNew
    <3> QED BY <1>2, <1>3, <3>1, <3>2, <3>3 DEF g
  <2> QED BY <2>1, <2>2
<1>5. CASE OnlineInstead(m)
  <2>1. /\ \E e \in Listed : Offline(e)
        /\ EntriesOf(m) = {}
        /\ vhost' = Append(Unlisted(Victim), Victim)
        /\ Admit(Victim, Fresh(m), events, Cleared(Victim))
    BY <1>5 DEF OnlineInstead, Cleared
  <2>2. /\ Victim \in Listed /\ ~guest[Victim].online /\ Victim \in Entries
        /\ Unlisted(Victim) \in Seq(Entries) /\ NoneTwice(Unlisted(Victim))
        /\ Elements(Unlisted(Victim)) = Listed \ {Victim}
        /\ Len(Unlisted(Victim)) < TableMax
    BY <1>0, <2>1, VictimIs
  <2> QED BY <1>2, <1>3, <2>1, <2>2
<1> QED BY <1>1, <1>4, <1>5

LEMMA HostAddTable ==
  ASSUME TableType, NEW m \in Macs, NEW passid \in BOOLEAN, HostAdd(m, passid)
  PROVE  \E e \in Listed :
           /\ TableType' /\ Listed' = Listed /\ \A f \in Entries \ {e} : guest'[f] = guest[f]
           /\ guest'[e] \in GuestRec /\ guest'[e].mac = guest[e].mac
           /\ guest'[e].online = guest[e].online
           /\ guest'[e].authon /\ guest'[e].rules = {}
           /\ Leave(Cancelled(events, e), Cleared(e))
<1>1. PICK e \in EntriesOf(m) :
        LET g == guest[e] IN
        /\ guest' = [guest EXCEPT ![e] =
             [DelRule(g) EXCEPT !.allownr = 0, !.authon = TRUE,
                                !.passid = g.passid \/ passid]]
        /\ Leave(Cancelled(events, e), Cleared(e))
  BY DEF HostAdd
<1> DEFINE g == guest[e]
           n == [DelRule(g) EXCEPT !.allownr = 0, !.authon = TRUE,
                                   !.passid = g.passid \/ passid]
<1>2. e \in Listed /\ e \in Entries /\ g \in GuestRec
  BY TableIs DEF EntriesOf
<1>3. /\ n \in GuestRec /\ n.mac = g.mac /\ n.online = g.online /\ n.rules = {} /\ n.authon
  BY <1>2, LetInIs
<1>4. guest' = [guest EXCEPT ![e] = n] /\ vhost' = vhost /\ conf' = conf
  BY <1>1 DEF HostAdd
<1> HIDE DEF n
<1>5. TableType' /\ Listed' = Listed
  BY <1>2, <1>3, <1>4, TableChanged
<1>6. guest'[e] = n /\ \A f \in Entries \ {e} : guest'[f] = guest[f]
  BY <1>2, <1>4 DEF TableType
<1> QED BY <1>1, <1>2, <1>3, <1>5, <1>6

LEMMA HostDelTable ==
  ASSUME TableType, NEW m \in Macs, HostDel(m)
  PROVE  \E e \in Listed :
           /\ TableType' /\ Listed' = Listed /\ \A f \in Entries \ {e} : guest'[f] = guest[f]
           /\ guest'[e] \in GuestRec /\ guest'[e].mac = guest[e].mac
           /\ guest'[e].online = guest[e].online
           /\ ~guest'[e].authon /\ "black" \in guest'[e].rules
           /\ Leave(events, handle)
<1>1. PICK e \in EntriesOf(m) :
        guest' = [guest EXCEPT ![e] = ShutOut(@)]
  BY DEF HostDel
<1> DEFINE g == guest[e]
           n == ShutOut(g)
<1>2. e \in Listed /\ e \in Entries /\ g \in GuestRec
  BY TableIs DEF EntriesOf
<1>3. /\ n \in GuestRec /\ n.mac = g.mac /\ n.online = g.online
      /\ "black" \in n.rules /\ ~n.authon
  BY <1>2, ShutOutIs
<1>4. guest' = [guest EXCEPT ![e] = n] /\ vhost' = vhost /\ conf' = conf
  BY <1>1 DEF HostDel
<1> HIDE DEF n
<1>5. TableType' /\ Listed' = Listed
  BY <1>2, <1>3, <1>4, TableChanged
<1>6. guest'[e] = n /\ \A f \in Entries \ {e} : guest'[f] = guest[f]
  BY <1>2, <1>4 DEF TableType
<1> QED BY <1>1, <1>2, <1>3, <1>5, <1>6 DEF HostDel

LEMMA WechatAllowTable ==
  ASSUME TableType, NEW m \in Macs, WechatAllow(m)
  PROVE  \E e \in Listed :
           /\ TableType' /\ Listed' = Listed /\ \A f \in Entries \ {e} : guest'[f] = guest[f]
           /\ guest'[e] \in GuestRec /\ SameButRules(guest'[e], guest[e])
           /\ ~guest[e].authon /\ handle[e] = Null
           /\ Arm(events, handle, e, "minute")
<1>1. PICK e \in EntriesOf(m) :
        /\ handle[e] = Null /\ ~guest[e].authon
        /\ guest' = [guest EXCEPT ![e] = Allowed(@)]
        /\ Arm(events, handle, e, "minute")
  BY DEF WechatAllow
<1> DEFINE n == Allowed(guest[e])
<1>2. e \in Listed /\ e \in Entries /\ guest[e] \in GuestRec
  BY TableIs DEF EntriesOf
<1>3. SameButRules(n, guest[e]) /\ n \in GuestRec
  BY <1>2, AllowedIs DEF SameButRules
<1>4. guest' = [guest EXCEPT ![e] = n] /\ vhost' = vhost /\ conf' = conf
  BY <1>1 DEF WechatAllow
<1> HIDE DEF n
<1>5. TableType' /\ Listed' = Listed
  BY <1>2, <1>3, <1>4, TableChanged
<1>6. guest'[e] = n /\ \A f \in Entries \ {e} : guest'[f] = guest[f]
  BY <1>2, <1>4 DEF TableType
<1> QED BY <1>1, <1>2, <1>3, <1>5, <1>6

LEMMA WechatCleanTable ==
  ASSUME TableType, WechatClean
  PROVE  LET named == {e \in Listed : guest[e].passid} IN
         /\ TableType' /\ Listed' = Listed
         /\ \A e \in Entries \ named : guest'[e] = guest[e]
         /\ \A e \in named :
              /\ guest'[e] \in GuestRec /\ guest'[e].mac = guest[e].mac
              /\ guest'[e].online = guest[e].online /\ ~guest'[e].authon
              /\ guest[e].online => "black" \in guest'[e].rules
         /\ Leave(Untimed(named), Forgotten(named))
<1> DEFINE named  == {e \in Listed : guest[e].passid}
           Out(g) == [g EXCEPT !.authon = FALSE, !.passid = FALSE]
           new(e) == IF e \notin named THEN guest[e]
                     ELSE IF guest[e].online THEN AddRule(Out(guest[e])) ELSE Out(guest[e])
<1>1. /\ guest' = [e \in Entries |-> new(e)] /\ vhost' = vhost /\ conf' = conf
      /\ Leave(Untimed(named), Forgotten(named))
  BY DEF WechatClean
<1>2. ASSUME NEW e \in named
      PROVE  /\ new(e) \in GuestRec /\ new(e).mac = guest[e].mac
             /\ new(e).online = guest[e].online /\ ~new(e).authon
             /\ guest[e].online => "black" \in new(e).rules
  <2> DEFINE g == Out(guest[e])
  <2>1. guest[e] \in GuestRec
    BY TableIs
  <2>2. g \in GuestRec /\ g.mac = guest[e].mac /\ g.online = guest[e].online /\ ~g.authon
    BY <2>1, OutIs
  <2>3. new(e) = IF guest[e].online THEN AddRule(g) ELSE g
    OBVIOUS
  <2> HIDE DEF g, new
  <2>4. SameButRules(AddRule(g), g) /\ "black" \in AddRule(g).rules
    BY <2>2, AddRuleIs
  <2>5. CASE guest[e].online
    <3>1. new(e) = AddRule(g)
      BY <2>3, <2>5
    <3> QED BY <2>2, <2>4, <3>1 DEF SameButRules
  <2>6. CASE ~guest[e].online
    <3>1. new(e) = g
      BY <2>3, <2>6
    <3> QED BY <2>2, <2>6, <3>1
  <2> QED BY <2>5, <2>6
<1>3. named \subseteq Entries /\ Listed \subseteq Entries
  BY TableIs
<1>4. \A e \in Entries \ named : new(e) = guest[e]
  OBVIOUS
<1> HIDE DEF new
<1>5. \A e \in Entries : guest'[e] = new(e)
  BY <1>1
<1>6. guest' \in [Entries -> GuestRec \cup {Null}]
  <2>1. \A e \in Entries : new(e) \in GuestRec \cup {Null}
    BY <1>2, <1>4 DEF TableType
  <2> QED BY <1>1, <2>1
<1>7. Listed' = Listed
  BY <1>1 DEF Listed
<1>8. \A e \in Entries : e \in Listed' <=> guest'[e] # Null
  BY <1>2, <1>4, <1>5, <1>7, GuestHostsAssumption DEF TableType
<1>9. TableType'
  BY <1>1, <1>6, <1>8 DEF TableType
<1> QED BY <1>1, <1>2, <1>3, <1>4, <1>5, <1>7, <1>9

LEMMA MinuteCbTable ==
  ASSUME TableType, NEW e \in Entries, MinuteCb(e)
  PROVE  /\ TableType' /\ Listed' = Listed /\ \A f \in Entries \ {e} : guest'[f] = guest[f]
         /\ (guest[e] = Null /\ guest'[e] = Null)
            \/ /\ e \in Listed /\ SameButRules(guest'[e], guest[e])
               /\ "black" \in guest'[e].rules
         /\ Leave(events, Cleared(e))
<1> DEFINE g == guest[e]
           n == CutOff(g)
<1>1. /\ guest' = [guest EXCEPT ![e] = IF g = Null THEN g ELSE n]
      /\ vhost' = vhost /\ conf' = conf /\ Leave(events, Cleared(e))
  BY DEF MinuteCb
<1>2. CASE g = Null
  <2>1. guest' = guest
    BY <1>1, <1>2 DEF TableType
  <2>2. TableType' /\ Listed' = Listed
    BY <1>1, <2>1, TableSame DEF TableType, guestVars
  <2> QED BY <1>1, <1>2, <2>1, <2>2
<1>3. CASE g # Null
  <2>1. e \in Listed /\ g \in GuestRec
    BY <1>3 DEF TableType
  <2>2. g.rules \cup {"black", "dnsrd"} \in SUBSET Rules
    BY <2>1, GuestRecIs DEF Rules
  <2>3. SameButRules(n, g) /\ "black" \in n.rules /\ n \in GuestRec
    BY <2>1, <2>2, RuledIs DEF SameButRules, CutOff
  <2>4. guest' = [guest EXCEPT ![e] = n]
    BY <1>1, <1>3
  <2> HIDE DEF n
  <2>5. TableType' /\ Listed' = Listed
    BY <1>1, <2>1, <2>3, <2>4, TableChanged
  <2>6. guest'[e] = n /\ \A f \in Entries \ {e} : guest'[f] = guest[f]
    BY <2>4 DEF TableType
  <2> QED BY <1>1, <2>1, <2>3, <2>5, <2>6
<1> QED BY <1>2, <1>3

LEMMA VapCbTable ==
  ASSUME TableType, VapCb
  PROVE  /\ TableType'
         /\ \/ /\ Listed' = {} /\ (\A e \in Entries : guest'[e] = Null)
               /\ Leave(Untimed(Listed), [c \in Held |-> Null])
            \/ /\ Listed' = Listed /\ guest' = guest
               /\ Leave(events, Cleared("wifi_vap"))
<1>0. conf' = conf
  BY DEF VapCb
<1>1. CASE /\ vhost' = <<>> /\ guest' = [e \in Entries |-> Null]
           /\ Leave(Untimed(Listed), [c \in Held |-> Null])
  <2>1. vhost' \in Seq(Entries) /\ Len(vhost') = 0 /\ 1..Len(vhost') = {}
    BY <1>1
  <2>2. Listed' = {} /\ NoneTwice(vhost')
    BY <2>1 DEF Listed, NoneTwice
  <2>3. TableType'
    BY <1>0, <1>1, <2>1, <2>2, TableIs DEF TableType
  <2> QED BY <1>1, <2>2, <2>3
<1>2. CASE Leave(events, Cleared("wifi_vap")) /\ UNCHANGED <<vhost, guest>>
  BY <1>0, <1>2, TableSame DEF guestVars, TableType
<1> QED BY <1>1, <1>2 DEF VapCb

LEMMA TableKeeps ==
  ASSUME TableType, [Next]_vars
  PROVE  TableType'
<1>1. CASE UNCHANGED vars
  BY <1>1, TableSame DEF vars, guestVars, TableType
<1>2. ASSUME NEW e \in Entries, MinuteCb(e) PROVE TableType'
  BY <1>2, MinuteCbTable
<1>3. CASE VapCb
  BY <1>3, VapCbTable
<1>4. CASE ChangeCb
  BY <1>4, TableSame, GoneTable DEF ChangeCb, guestVars, TableType
<1>5. CASE Message
  BY <1>5, HostAddTable, HostDelTable, WechatAllowTable, WechatCleanTable, TableSame
     DEF Message, SetVap
<1>6. ASSUME NEW m \in Macs, Online(m) PROVE TableType'
  BY <1>6, OnlineIsOne, TableSame DEF Online, Ignore, TableType
<1>7. ASSUME NEW m \in Macs, OfflineMsg(m) PROVE TableType'
  BY <1>7, GoneTable, TableSame DEF OfflineMsg, Ignore, EntriesOf, TableType
<1>8. CASE Kernel \/ Loop \/ Idle \/ Tick
  BY <1>8, TableSame DEF Kernel, Loop, Idle, Tick, TableType
<1> QED BY <1>1, <1>2, <1>3, <1>4, <1>5, <1>6, <1>7, <1>8 DEF Next, Callback, Netlink

----------------------------------------------------------------------------
(***************************************************************************)
(* The timers.  A guest with leave has none that its entry knows of, and   *)
(* with a malloc that does not fail, nobody has the net for nothing.  An   *)
(* entry that another guest takes over may have a timer it does not know:  *)
(* the static variables are right where they are set (Anchored), but do    *)
(* not know of every timer.                                                *)
(***************************************************************************)
Roomy == ~MallocMayFail /\ ~IsFiniteSet(Addrs)

GuestOk(g, t) ==
  /\ g.authon => t = Null
  /\ Roomy /\ g.online /\ ~g.authon /\ "black" \notin g.rules => t # Null

EntryOk(e) == IF guest[e] # Null THEN GuestOk(guest[e], handle[e]) ELSE handle[e] = Null

GuestsInv ==
  /\ TableType
  /\ Moored /\ ClockInv
  /\ \A e \in Entries : EntryOk(e)

LEMMA ClientsAre ==
  /\ Entries \subseteq Held /\ "wifi_vap" \in Held /\ "wifi_vap" \notin Entries
  /\ "ap_change" \in Clients /\ "ap_change" \notin Held /\ Held \subseteq Clients
  /\ Delay["set"] \in Int /\ Delay["minute"] \in Int /\ Delay["change"] \in Int
  /\ {Delay["set"], Delay["minute"], Delay["change"]} \subseteq Delays
<1>1. "wifi_vap" \notin Entries /\ "ap_change" \notin Entries
  BY GuestHostsAssumption
<1>2. "ap_change" # "wifi_vap"
  OBVIOUS
<1>3. Delay["set"] \in Nat /\ Delay["minute"] \in Nat /\ Delay["change"] \in Nat
  BY GuestHostsAssumption, SchedulerAssumption
<1> QED BY <1>1, <1>2, <1>3, GuestHostsAssumption DEF Delays

\* An entry that neither says something else nor has another timer stays as it was.
LEMMA OthersOk ==
  ASSUME NEW e, EntryOk(e), guest'[e] = guest[e], handle'[e] = handle[e]
  PROVE  EntryOk(e)'
BY DEF EntryOk, GuestOk, Roomy

(***************************************************************************)
(* What a step does to the minutes of one entry.                           *)
(***************************************************************************)
\* No minute of its goes astray, or one in a way that MinuteIsOwn allows.
GoesAstray(e, a) == Astray(e, a)' /\ ~Astray(e, a)

Owns(e) ==
  \A a \in Addrs : GoesAstray(e, a) =>
    \/ Due(e) /\ (loop.cur = a \/ Astray(e, loop.cur))
    \/ e \in Listed \cap Listed' /\ Offline(e) /\ guest'[e].mac # guest[e].mac

\* Its timer is left alone, or it is cancelled and there is another one or none.
Untouched(e) ==
  /\ handle'[e] = handle[e]
  /\ \A n \in Items(events') :
       n.cb = e => \E f \in Items(events) : f.addr = n.addr /\ f.cb = n.cb

Renewed(e) ==
  \A n \in Items(events') :
    \/ n \in Items(events) /\ n.addr # handle[e]
    \/ n.cb = e /\ n.addr = handle'[e] /\ n.due \in Delays

LEMMA AstrayIs ==
  ASSUME NEW e, NEW a
  PROVE  /\ Astray(e, a) <=> \E n \in Items(events) : n.cb = e /\ n.addr = a /\ handle[e] # a
         /\ Astray(e, a)' <=> \E n \in Items(events') : n.cb = e /\ n.addr = a /\ handle'[e] # a
BY DEF Astray, Items

LEMMA UntouchedOwns ==
  ASSUME NEW e, Untouched(e)
  PROVE  Owns(e)
BY AstrayIs DEF Untouched, Owns, GoesAstray

LEMMA RenewedOwns ==
  ASSUME NEW e, Renewed(e)
  PROVE  Owns(e)
BY AstrayIs DEF Renewed, Owns, GoesAstray

\* Of a timer that is called back only that one, or one that another was taken for.
LEMMA CalledBackOwns ==
  ASSUME NEW e, Moored, Due(e), events' = events
  PROVE  Owns(e)
<1> SUFFICES ASSUME NEW a \in Addrs, GoesAstray(e, a), loop.cur # a
             PROVE  Astray(e, loop.cur)
  BY DEF Owns
<1>1. handle[e] = a
  BY AstrayIs DEF GoesAstray
<1>2. Current \in Items(events) /\ Current.addr = loop.cur /\ Current.cb = e
  BY DueAnchored
<1> QED BY <1>1, <1>2, AstrayIs

\* A minute begins: there is memory for its timer.
LEMMA MinuteBegins ==
  ASSUME NEW evs, NEW h, Anchored(evs, h, Null),
         NEW e \in Entries, h[e] = Null, NEW a \in Allocs(evs),
         handle' = [h EXCEPT ![e] = a],
         events' = Scheduled(evs, a, e, Delay["minute"])
  PROVE  /\ Anchored(events', handle', Null)
         /\ \A n \in Items(events') :
              n \in Items(evs) \/ (n.cb = e /\ n.addr = handle'[e] /\ n.due \in Delays)
         /\ handle'[e] = a /\ \A c \in Held \ {e} : handle'[c] = h[c]
         /\ Roomy => a # Null
<1>1. e \in Held /\ e \in Clients /\ Delay["minute"] \in Int
  BY ClientsAre
<1>2. handle' = Remember(h, e, a)
  BY <1>1 DEF Remember
<1>3. handle'[e] = a /\ \A c \in Held \ {e} : handle'[c] = h[c]
  BY <1>1 DEF Anchored
<1>4. /\ Anchored(events', handle', Null)
      /\ \A n \in Items(events') :
           n \in Items(evs) \/ (n.cb = e /\ n.addr = a /\ n.due \in Delays)
  <2> DEFINE d   == Delay["minute"]
             new == Scheduled(evs, a, e, d)
  <2>1. d \in Int /\ d \in Delays
    BY <1>1, ClientsAre
  <2> HIDE DEF d
  <2>2. /\ Anchored(new, Remember(h, e, a), Null)
        /\ \A n \in Items(new) : n \in Items(evs) \/ (n.addr = a /\ n.cb = e /\ n.due = d)
    BY <1>1, <2>1, ScheduledAnchored
  <2>3. events' = new
    BY DEF d
  <2> QED BY <1>2, <2>1, <2>2, <2>3
<1>5. ASSUME Roomy PROVE a # Null
  <2> DEFINE n == Len(evs)
             f == [i \in 1..n |-> evs[i].addr]
  <2>1. Addresses(evs) \subseteq Addrs /\ n \in Nat
    BY AddressesType, ItemsType DEF Anchored
  <2>2. IsFiniteSet(1..n)
    <3> HIDE DEF n
    <3>1. n \in Int /\ 1 \in Int
      BY <2>1
    <3> QED BY <3>1, FS_Interval
  <2>3. IsFiniteSet(Addresses(evs))
    <3>1. f \in Surjection(1..n, Addresses(evs))
      BY DEF Addresses, Surjection
    <3> HIDE DEF f, n
    <3> QED BY <2>2, <3>1, FS_Surjection
  <2>4. Addrs \ Addresses(evs) # {}
    <3> SUFFICES ASSUME Addrs \ Addresses(evs) = {} PROVE FALSE
      OBVIOUS
    <3>1. Addrs = Addresses(evs)
      BY <2>1
    <3> QED BY <1>5, <2>3, <3>1 DEF Roomy
  <2> QED BY <1>5, <2>4, SchedulerAssumption DEF Allocs, Roomy
<1> QED BY <1>3, <1>4, <1>5

\* A timer of an entry is taken out.
LEMMA TimerGoes ==
  ASSUME NEW x, Anchored(events, handle, x), NEW e \in Entries
  PROVE  /\ Anchored(Cancelled(events, e), Cleared(e), x)
         /\ \A n \in Items(Cancelled(events, e)) : n \in Items(events) /\ n.addr # handle[e]
         /\ Cleared(e)[e] = Null /\ \A c \in Held \ {e} : Cleared(e)[c] = handle[c]
<1>1. e \in Held /\ handle \in [Held -> Addrs \cup {Null}]
  BY ClientsAre DEF Anchored
<1>2. /\ Anchored(Cancelled(events, e), Cleared(e), x)
      /\ \A n \in Items(Cancelled(events, e)) : n \in Items(events) /\ n.addr # handle[e]
  BY <1>1, CancelledAnchored DEF Cancelled, Cleared
<1> QED BY <1>1, <1>2 DEF Cleared

\* Its entry forgets it, and it goes on.
LEMMA TimerLost ==
  ASSUME NEW x, Anchored(events, handle, x), NEW e \in Entries
  PROVE  /\ Anchored(events, Cleared(e), x)
         /\ Cleared(e)[e] = Null /\ \A c \in Held \ {e} : Cleared(e)[c] = handle[c]
<1>1. e \in Held /\ handle \in [Held -> Addrs \cup {Null}]
  BY ClientsAre DEF Anchored
<1>2. /\ Cleared(e) \in [Held -> Addrs \cup {Null}] /\ Cleared(e)[e] = Null
      /\ \A c \in Held \ {e} : Cleared(e)[c] = handle[c]
  BY <1>1 DEF Cleared
<1>3. HandleSound(events, Cleared(e), x)
  BY <1>2 DEF Anchored, HandleSound
<1> QED BY <1>2, <1>3 DEF Anchored

LEMMA LeaveKeeps ==
  ASSUME GuestsInv, UNCHANGED schedVars, TableType', guest' = guest
  PROVE  GuestsInv' /\ \A e \in Entries : Owns(e)
<1>1. /\ events' = events /\ handle' = handle /\ loop' = loop
      /\ timeout' = timeout /\ slow' = slow
  BY DEF schedVars
<1>2. Moored' /\ ClockInv'
  BY <1>1 DEF GuestsInv, Moored, LoopType, Exempt, ClockInv, Clock
<1>3. \A e \in Entries : EntryOk(e)'
  BY <1>1, OthersOk DEF GuestsInv
<1>4. \A e \in Entries : Owns(e)
  BY <1>1, UntouchedOwns DEF Untouched
<1> QED BY <1>2, <1>3, <1>4 DEF GuestsInv

LEMMA LoopKeeps ==
  ASSUME GuestsInv, Walk \/ OtherCall \/ OtherNetlink \/ SchedulerTick, TableType',
         guest' = guest
  PROVE  GuestsInv' /\ \A e \in Entries : Owns(e)
<1>1. /\ Moored' /\ handle' = handle
      /\ \A n \in Items(events') :
           \E f \in Items(events) : n.addr = f.addr /\ n.cb = f.cb
  BY WalkMoored DEF GuestsInv
<1>2. ClockInv'
  BY MooredWalkClock DEF GuestsInv
<1>3. \A e \in Entries : EntryOk(e)'
  BY <1>1, OthersOk DEF GuestsInv
<1>4. \A e \in Entries : Owns(e)
  BY <1>1, UntouchedOwns DEF Untouched
<1> QED BY <1>1, <1>2, <1>3, <1>4 DEF GuestsInv

\* A request or a message about one entry.
LEMMA OneKeeps ==
  ASSUME GuestsInv, TableType', Answered \/ Handled, Anchored(events', handle', Null),
         NEW e \in Entries, EntryOk(e)', Owns(e),
         \A n \in Items(events') : n \in Items(events) \/ (n.cb = e /\ n.due \in Delays),
         \A f \in Entries \ {e} : guest'[f] = guest[f] /\ handle'[f] = handle[f]
  PROVE  GuestsInv' /\ \A f \in Entries : Owns(f)
<1>1. Moored'
  BY RestMoored DEF GuestsInv, Moored, Handled
<1>2. ClockInv'
  BY MooredCallClock DEF GuestsInv
<1>3. ASSUME NEW f \in Entries PROVE EntryOk(f)' /\ Owns(f)
  <2>1. CASE f = e
    BY <2>1
  <2>2. CASE f # e
    <3>1. EntryOk(f)'
      BY <2>2, OthersOk DEF GuestsInv
    <3>2. Untouched(f)
      BY <2>2 DEF Untouched
    <3> QED BY <3>1, <3>2, UntouchedOwns
  <2> QED BY <2>1, <2>2
<1> QED BY <1>1, <1>2, <1>3 DEF GuestsInv

LEMMA NetlinkState ==
  ASSUME GuestsInv, Called \/ Notified
  PROVE  Anchored(events, handle, Null)
BY CalledAnchored DEF GuestsInv, Called, Notified

\* A guest that keeps its leave and gets rules: what LeaveIsLasting is about.
Shut(e) ==
  /\ e \in Listed \cap Listed' /\ guest[e].authon /\ guest[e].rules = {}
  /\ guest'[e].authon /\ guest'[e].rules # {}

(***************************************************************************)
(* One lemma per handler.                                                  *)
(***************************************************************************)
LEMMA HostAddKeeps ==
  ASSUME GuestsInv, NEW m \in Macs, NEW passid \in BOOLEAN, HostAdd(m, passid)
  PROVE  GuestsInv' /\ \A f \in Entries : Owns(f) /\ ~Shut(f)
<1>1. PICK e \in Listed :
        /\ TableType' /\ \A f \in Entries \ {e} : guest'[f] = guest[f]
        /\ guest'[e] \in GuestRec /\ guest'[e].authon /\ guest'[e].rules = {}
        /\ Leave(Cancelled(events, e), Cleared(e))
  BY HostAddTable DEF GuestsInv
<1>2. e \in Entries /\ Called /\ Answered
  BY TableIs DEF GuestsInv, HostAdd
<1>3. Anchored(events, handle, Null)
  BY <1>2, NetlinkState
<1>4. /\ Anchored(events', handle', Null) /\ events' = Cancelled(events, e)
      /\ \A n \in Items(events') : n \in Items(events) /\ n.addr # handle[e]
      /\ handle'[e] = Null /\ \A c \in Held \ {e} : handle'[c] = handle[c]
  BY <1>1, <1>2, <1>3, TimerGoes DEF Leave
<1>5. EntryOk(e)'
  BY <1>1, <1>4 DEF EntryOk, GuestOk
<1>6. Owns(e)
  BY <1>4, RenewedOwns DEF Renewed
<1>7. \A f \in Entries : ~Shut(f)
  BY <1>1 DEF Shut
<1> QED BY <1>1, <1>2, <1>4, <1>5, <1>6, <1>7, OneKeeps, ClientsAre

LEMMA HostDelKeeps ==
  ASSUME GuestsInv, NEW m \in Macs, HostDel(m)
  PROVE  GuestsInv' /\ \A f \in Entries : Owns(f) /\ ~Shut(f)
<1>1. PICK e \in Listed :
        /\ TableType' /\ \A f \in Entries \ {e} : guest'[f] = guest[f]
        /\ guest'[e] \in GuestRec /\ guest'[e].online = guest[e].online
        /\ ~guest'[e].authon /\ "black" \in guest'[e].rules
        /\ Leave(events, handle)
  BY HostDelTable DEF GuestsInv
<1>2. e \in Entries /\ guest[e] # Null /\ Called /\ Answered
  BY TableIs DEF GuestsInv, TableType, HostDel
<1>3. Anchored(events', handle', Null) /\ events' = events /\ handle' = handle
  BY <1>1, <1>2, NetlinkState DEF Leave
<1>4. EntryOk(e)'
  BY <1>1, <1>2, <1>3, GuestHostsAssumption DEF EntryOk, GuestOk, GuestsInv
<1>5. Owns(e)
  BY <1>3, UntouchedOwns DEF Untouched
<1>6. \A f \in Entries : ~Shut(f)
  BY <1>1 DEF Shut
<1> QED BY <1>1, <1>2, <1>3, <1>4, <1>5, <1>6, OneKeeps

LEMMA WechatAllowKeeps ==
  ASSUME GuestsInv, NEW m \in Macs, WechatAllow(m)
  PROVE  GuestsInv' /\ \A f \in Entries : Owns(f) /\ ~Shut(f)
<1>1. PICK e \in Listed :
        /\ TableType' /\ \A f \in Entries \ {e} : guest'[f] = guest[f]
        /\ guest'[e] \in GuestRec /\ SameButRules(guest'[e], guest[e])
        /\ ~guest[e].authon /\ handle[e] = Null
        /\ Arm(events, handle, e, "minute")
  BY WechatAllowTable DEF GuestsInv
<1>2. e \in Entries /\ e \in Held /\ Called /\ Answered
  BY TableIs, ClientsAre DEF GuestsInv, WechatAllow
<1>3. PICK a \in Allocs(events) :
        /\ events' = Scheduled(events, a, e, Delay["minute"])
        /\ handle' = [handle EXCEPT ![e] = a]
  BY <1>1, <1>2 DEF Arm
<1>4. /\ Anchored(events', handle', Null) /\ Anchored(events, handle, Null)
      /\ \A n \in Items(events') :
           n \in Items(events) \/ (n.cb = e /\ n.addr = handle'[e] /\ n.due \in Delays)
      /\ handle'[e] = a /\ \A c \in Held \ {e} : handle'[c] = handle[c]
      /\ Roomy => a # Null
  <2>1. Anchored(events, handle, Null)
    BY <1>2, NetlinkState
  <2> DEFINE evs == events
             h   == handle
  <2>2. /\ Anchored(evs, h, Null) /\ a \in Allocs(evs) /\ h[e] = Null /\ e \in Entries
        /\ handle' = [h EXCEPT ![e] = a]
        /\ events' = Scheduled(evs, a, e, Delay["minute"])
    BY <1>1, <1>2, <1>3, <2>1
  <2>3. /\ Anchored(events', handle', Null)
        /\ \A n \in Items(events') :
             n \in Items(evs) \/ (n.cb = e /\ n.addr = handle'[e] /\ n.due \in Delays)
        /\ handle'[e] = a /\ \A c \in Held \ {e} : handle'[c] = h[c]
        /\ Roomy => a # Null
    <3> HIDE DEF evs, h
    <3> QED BY <2>2, MinuteBegins
  <2> QED BY <2>1, <2>3
<1>5. EntryOk(e)'
  BY <1>1, <1>4, GuestHostsAssumption DEF EntryOk, GuestOk, SameButRules, Roomy
<1>6. Owns(e)
  <2>1. \A n \in Items(events) : n.addr # handle[e]
    BY <1>1, <1>4, ItemsType, SchedulerAssumption DEF Anchored, Entry
  <2> QED BY <1>4, <2>1, RenewedOwns DEF Renewed
<1>7. \A f \in Entries : ~Shut(f)
  BY <1>1 DEF Shut
<1> QED BY <1>1, <1>2, <1>4, <1>5, <1>6, <1>7, OneKeeps, ClientsAre

LEMMA WechatCleanKeeps ==
  ASSUME GuestsInv, WechatClean
  PROVE  GuestsInv' /\ \A f \in Entries : Owns(f) /\ ~Shut(f)
<1> DEFINE named == {e \in Listed : guest[e].passid}
<1>1. /\ TableType' /\ Listed' = Listed
      /\ \A e \in Entries \ named : guest'[e] = guest[e]
      /\ \A e \in named :
           /\ guest'[e] \in GuestRec
           /\ guest'[e].online = guest[e].online /\ ~guest'[e].authon
           /\ guest[e].online => "black" \in guest'[e].rules
      /\ events' = Untimed(named) /\ handle' = Forgotten(named)
  BY WechatCleanTable DEF GuestsInv, Leave
<1>2. named \subseteq Held /\ Called /\ Answered
  BY TableIs, ClientsAre DEF GuestsInv, WechatClean
<1>3. /\ Anchored(events', handle', Null)
      /\ \A n \in Items(events') : n \in Items(events) /\ \A c \in named : n.addr # handle[c]
  <2> HIDE DEF named
  <2>1. Anchored(events, handle, Null)
    BY <1>2, NetlinkState
  <2>2. /\ Untimed(named) = Without(events, EntriesOfAll(handle, named))
        /\ Forgotten(named) = Forget(handle, named)
    BY DEF Untimed, Forgotten, EntriesOfAll, Forget
  <2> QED BY <1>1, <1>2, <2>1, <2>2, WithoutAnchored
<1>4. \A e \in Entries : handle'[e] = IF e \in named THEN Null ELSE handle[e]
  BY <1>1, ClientsAre DEF Forgotten
<1> HIDE DEF named
<1>5. Moored' /\ ClockInv'
  BY <1>2, <1>3, RestMoored, MooredCallClock DEF GuestsInv, Moored
<1>6. ASSUME NEW e \in Entries PROVE EntryOk(e)' /\ Owns(e) /\ ~Shut(e)
  <2>1. CASE e \in named
    <3>1. EntryOk(e)'
      <4>1. handle'[e] = Null /\ ~guest'[e].authon
        BY <1>1, <1>4, <2>1
      <4>2. guest'[e].online => "black" \in guest'[e].rules
        BY <1>1, <2>1
      <4> QED BY <4>1, <4>2 DEF EntryOk, GuestOk
    <3>2. Owns(e)
      BY <1>3, <2>1, RenewedOwns DEF Renewed
    <3> QED BY <1>1, <2>1, <3>1, <3>2 DEF Shut
  <2>2. CASE e \notin named
    <3>1. EntryOk(e)'
      BY <1>1, <1>4, <2>2, OthersOk DEF GuestsInv
    <3>2. Owns(e)
      BY <1>3, <1>4, <2>2, UntouchedOwns DEF Untouched
    <3> QED BY <1>1, <2>2, <3>1, <3>2 DEF Shut
  <2> QED BY <2>1, <2>2
<1> QED BY <1>1, <1>5, <1>6 DEF GuestsInv

LEMMA SetVapKeeps ==
  ASSUME GuestsInv, SetVap
  PROVE  GuestsInv' /\ \A f \in Entries : Owns(f) /\ ~Shut(f)
<1>1. PICK a \in Allocs(events) \ {Null} :
        /\ events' = Without(Scheduled(events, a, "wifi_vap", Delay["set"]),
                             {handle["wifi_vap"]})
        /\ handle' = [handle EXCEPT !["wifi_vap"] = a]
  BY DEF SetVap, Leave
<1>2. Called /\ Answered /\ vhost' = vhost /\ guest' = guest /\ conf' \in Settings
  BY DEF SetVap, guestVars
<1>3. TableType'
  BY <1>2, TableSame DEF GuestsInv, guestVars
<1> DEFINE c  == "wifi_vap"
           cs == {c}
           d  == Delay["set"]
           n  == [addr |-> a, cb |-> c, due |-> d]
<1>4. /\ c \in Held /\ d \in Int /\ d \in Delays /\ cs \in SUBSET Held /\ c \notin Entries
      /\ n.cb = c /\ n.due = d
  BY ClientsAre
<1>5. Anchored(events, handle, Null)
  BY <1>2, NetlinkState
<1>6. EntriesOfAll(handle, cs) = {handle[c]} /\ Replace(handle, cs, c, a) = handle'
  BY <1>1, <1>4, <1>5 DEF Anchored, EntriesOfAll, Replace
<1>7. /\ Anchored(events', handle', Null)
      /\ \A e \in Items(events') : e = n \/ e \in Items(events)
  <2>1. events' = Without(Scheduled(events, a, c, d), EntriesOfAll(handle, cs))
    BY <1>1, <1>6
  <2>2. c \in cs
    OBVIOUS
  <2> HIDE DEF c, d, cs
  <2>3. a \in Allocs(events) /\ a # Null
    OBVIOUS
  <2>4. LET new == Without(Scheduled(events, a, c, d), EntriesOfAll(handle, cs))
        IN  /\ Anchored(new, Replace(handle, cs, c, a), Null)
            /\ \A e \in Items(new) :
                 \/ e = [addr |-> a, cb |-> c, due |-> d]
                 \/ e \in Items(events) /\ \A b \in cs : e.addr # handle[b]
    BY <1>4, <1>5, <2>2, <2>3, ReplacedAnchored
  <2> QED BY <1>6, <2>1, <2>4
<1> HIDE DEF n
<1>8. Moored' /\ ClockInv'
  BY <1>2, <1>4, <1>7, RestMoored, MooredCallClock DEF GuestsInv, Moored
<1>9. ASSUME NEW e \in Entries PROVE EntryOk(e)' /\ Owns(e) /\ ~Shut(e)
  <2>1. handle'[e] = handle[e]
    BY <1>1, <1>5, ClientsAre DEF Anchored
  <2>2. EntryOk(e)'
    BY <1>2, <2>1, OthersOk DEF GuestsInv
  <2>3. Untouched(e)
    BY <1>4, <1>7, <2>1 DEF Untouched
  <2> QED BY <1>2, <2>2, <2>3, UntouchedOwns DEF Shut
<1> QED BY <1>3, <1>8, <1>9 DEF GuestsInv

LEMMA OnlineKeeps ==
  ASSUME GuestsInv, NEW m \in Macs, Online(m)
  PROVE  GuestsInv' /\ \A f \in Entries : Owns(f) /\ ~Shut(f)
<1>1. Notified /\ Handled /\ conf' = conf
  BY DEF Online, Told
<1>2. Anchored(events, handle, Null)
  BY <1>1, NetlinkState
<1>3. CASE Ignore
  <2>1. OtherNetlink /\ guest' = guest /\ vhost' = vhost
    BY <1>1, <1>3 DEF Ignore, OtherNetlink, guestVars
  <2>2. TableType'
    BY <1>1, <2>1, TableSame DEF GuestsInv, guestVars, TableType
  <2>3. \A f \in Entries : ~Shut(f)
    BY <2>1 DEF Shut
  <2> QED BY <2>1, <2>2, <2>3, LoopKeeps
<1>4. CASE ~Ignore
  <2>1. PICK e \in Entries :
          /\ TableType' /\ Listed' = Listed \cup {e}
          /\ \A f \in Entries \ {e} : guest'[f] = guest[f]
          /\ \/ e \in Listed /\ LetIn(m, e)
             \/ \E g \in GuestRec, evs \in {events, Cancelled(events, e)} :
                  Admitted(m, e, g, evs) /\ guest'[e] # Null /\ SameButRules(guest'[e], g)
    BY <1>1, <1>4, OnlineIsOne DEF Online, GuestsInv
  <2>2. \A f \in Entries : ~Shut(f)
    BY <2>1 DEF Shut, LetIn, Admitted, SameButRules
  <2> SUFFICES GuestsInv' /\ \A f \in Entries : Owns(f)
    BY <2>2
  <2>3. /\ Anchored(Cancelled(events, e), Cleared(e), Null)
        /\ \A n \in Items(Cancelled(events, e)) : n \in Items(events) /\ n.addr # handle[e]
        /\ Cleared(e)[e] = Null /\ \A c \in Held \ {e} : Cleared(e)[c] = handle[c]
    BY <1>2, TimerGoes
  <2>4. CASE LetIn(m, e)
    <3>1. events' = Cancelled(events, e) /\ handle' = Cleared(e)
      BY <2>4 DEF LetIn, Leave
    <3>2. EntryOk(e)'
      BY <2>3, <2>4, <3>1 DEF EntryOk, GuestOk, LetIn
    <3>3. Owns(e)
      BY <2>3, <3>1, RenewedOwns DEF Renewed
    <3> QED BY <1>1, <2>1, <2>3, <3>1, <3>2, <3>3, OneKeeps, ClientsAre
  <2>5. ASSUME NEW g \in GuestRec, NEW evs \in {events, Cancelled(events, e)},
               Admitted(m, e, g, evs), guest'[e] # Null, SameButRules(guest'[e], g)
        PROVE  GuestsInv' /\ \A f \in Entries : Owns(f)
    <3>1. Anchored(evs, Cleared(e), Null) /\ Items(evs) \subseteq Items(events)
      BY <1>2, <2>3, TimerLost
    <3>2. PICK n \in GuestRec :
            /\ guest' = [guest EXCEPT ![e] = n] /\ SameButRules(n, g)
            /\ \/ "black" \in n.rules /\ Leave(evs, Cleared(e))
               \/ /\ "black" \notin n.rules
                  /\ \E a \in Allocs(evs) :
                       /\ handle' = [Cleared(e) EXCEPT ![e] = a]
                       /\ events' = Scheduled(evs, a, e, Delay["minute"])
      BY <2>5, AdmitIs DEF GuestsInv, Admitted
    <3>3. guest'[e] = n /\ n # Null /\ n.online /\ ~n.authon /\ n.mac = m
      BY <2>5, <3>2 DEF GuestsInv, TableType, SameButRules, Admitted
    <3>4. ASSUME \A i \in Items(events') :
                   i \in Items(evs) \/ (i.cb = e /\ i.addr = handle'[e] /\ i.due \in Delays)
          PROVE  Owns(e)
      <4>1. CASE evs = Cancelled(events, e)
        BY <2>3, <3>4, <4>1, RenewedOwns DEF Renewed
      <4>2. CASE EntriesOf(m) = {} /\ (e \in Listed => ~guest[e].online) /\ evs = events
        <5>1. CASE e \in Listed
          <6>1. guest[e].mac # m /\ Offline(e)
            BY <4>2, <5>1 DEF EntriesOf, Offline
          <6>2. e \in Listed \cap Listed' /\ Offline(e) /\ guest'[e].mac # guest[e].mac
            BY <2>1, <3>3, <5>1, <6>1
          <6> QED BY <6>2 DEF Owns
        <5>2. CASE e \notin Listed
          <6>1. handle[e] = Null
            BY <5>2 DEF GuestsInv, EntryOk, TableType
          <6>2. \A i \in Items(events) : i.addr # handle[e]
            BY <1>2, <6>1, ItemsType, SchedulerAssumption DEF Anchored, Entry
          <6> QED BY <3>4, <4>2, <6>2, RenewedOwns DEF Renewed
        <5> QED BY <5>1, <5>2
      <4> QED BY <2>5, <4>1, <4>2 DEF Admitted
    <3>5. CASE "black" \in n.rules /\ Leave(evs, Cleared(e))
      <4>1. events' = evs /\ handle' = Cleared(e)
        BY <3>5 DEF Leave
      <4>2. EntryOk(e)'
        BY <3>3, <3>5 DEF EntryOk, GuestOk
      <4>3. Owns(e)
        BY <3>4, <4>1
      <4> QED BY <1>1, <2>1, <2>3, <3>1, <4>1, <4>2, <4>3, OneKeeps, ClientsAre
    <3>6. ASSUME NEW a \in Allocs(evs), handle' = [Cleared(e) EXCEPT ![e] = a],
                 events' = Scheduled(evs, a, e, Delay["minute"])
          PROVE  GuestsInv' /\ \A f \in Entries : Owns(f)
      <4>1. /\ Anchored(events', handle', Null)
            /\ \A i \in Items(events') :
                 i \in Items(evs) \/ (i.cb = e /\ i.addr = handle'[e] /\ i.due \in Delays)
            /\ handle'[e] = a /\ \A c \in Held \ {e} : handle'[c] = Cleared(e)[c]
            /\ Roomy => a # Null
        BY <2>3, <3>1, <3>6, MinuteBegins
      <4>2. EntryOk(e)'
        BY <3>3, <4>1 DEF EntryOk, GuestOk, Roomy
      <4>3. Owns(e)
        BY <3>4, <4>1
      <4>4. \A i \in Items(events') : i \in Items(events) \/ (i.cb = e /\ i.due \in Delays)
        BY <3>1, <4>1
      <4> QED BY <1>1, <2>1, <2>3, <4>1, <4>2, <4>3, <4>4, OneKeeps, ClientsAre
    <3> QED BY <3>2, <3>5, <3>6
  <2> QED BY <2>1, <2>4, <2>5
<1> QED BY <1>3, <1>4

LEMMA OfflineKeeps ==
  ASSUME GuestsInv, NEW m \in Macs, OfflineMsg(m)
  PROVE  GuestsInv' /\ \A f \in Entries : Owns(f) /\ ~Shut(f)
<1>1. Notified /\ Handled /\ conf' = conf
  BY DEF OfflineMsg, Told
<1>2. CASE Ignore
  <2>1. OtherNetlink /\ guest' = guest /\ vhost' = vhost
    BY <1>1, <1>2 DEF Ignore, OtherNetlink, guestVars
  <2>2. TableType'
    BY <1>1, <2>1, TableSame DEF GuestsInv, guestVars, TableType
  <2>3. \A f \in Entries : ~Shut(f)
    BY <2>1 DEF Shut
  <2> QED BY <2>1, <2>2, <2>3, LoopKeeps
<1>3. CASE ~Ignore
  <2>1. PICK e \in Listed : Gone(e) /\ Leave(Cancelled(events, e), Cleared(e))
    BY <1>3 DEF OfflineMsg, EntriesOf
  <2>2. e \in Entries /\ EntryOk(e) /\ guest[e] # Null
    BY TableIs DEF GuestsInv, TableType
  <2>3. /\ TableType' /\ \A f \in Entries \ {e} : guest'[f] = guest[f]
        /\ guest'[e] # Null => ~guest'[e].online /\ guest'[e].rules = {}
    BY <1>1, <2>1, GoneTable DEF GuestsInv
  <2>4. /\ Anchored(events', handle', Null)
        /\ \A n \in Items(events') : n \in Items(events) /\ n.addr # handle[e]
        /\ handle'[e] = Null /\ \A c \in Held \ {e} : handle'[c] = handle[c]
    BY <1>1, <2>1, <2>2, NetlinkState, TimerGoes DEF Leave
  <2>5. EntryOk(e)'
    BY <2>3, <2>4 DEF EntryOk, GuestOk
  <2>6. Owns(e)
    BY <2>4, RenewedOwns DEF Renewed
  <2>7. \A f \in Entries : ~Shut(f)
    BY <2>3 DEF Shut, TableType
  <2> QED BY <1>1, <2>2, <2>3, <2>4, <2>5, <2>6, <2>7, OneKeeps, ClientsAre
<1> QED BY <1>2, <1>3

\* The one that can shut out a guest with leave: the entry knows of no minute then.
LEMMA MinuteCbKeeps ==
  ASSUME GuestsInv, NEW e \in Entries, MinuteCb(e)
  PROVE  /\ GuestsInv' /\ \A f \in Entries : Owns(f)
         /\ \A f \in Entries : Shut(f) => Due(f) /\ Astray(f, loop.cur)
<1>1. Due(e) /\ Ran /\ e \in Held
  BY ClientsAre DEF MinuteCb
<1>2. /\ TableType' /\ \A f \in Entries \ {e} : guest'[f] = guest[f]
      /\ (guest[e] = Null /\ guest'[e] = Null)
         \/ /\ e \in Listed /\ SameButRules(guest'[e], guest[e])
            /\ "black" \in guest'[e].rules
      /\ events' = events /\ handle' = Cleared(e)
  BY MinuteCbTable DEF GuestsInv, Leave
<1>3. /\ Anchored(events, handle, Null) /\ Anchored(events, Cleared(e), loop.cur)
      /\ Current \in Items(events) /\ Current.addr = loop.cur /\ Current.cb = e
      /\ loop.cur # Null
  BY <1>1, DueAnchored DEF GuestsInv, Remember, Cleared
<1>4. Moored' /\ ClockInv'
  BY <1>1, <1>2, <1>3, RanMoored, MooredCallClock DEF GuestsInv, Moored
<1>5. handle'[e] = Null /\ \A c \in Held \ {e} : handle'[c] = handle[c]
  BY <1>1, <1>2, <1>3 DEF Cleared, Anchored
<1>6. EntryOk(e)'
  BY <1>2, <1>5 DEF EntryOk, GuestOk
<1>7. \A f \in Entries \ {e} : EntryOk(f)'
  BY <1>2, <1>5, OthersOk, ClientsAre DEF GuestsInv
<1>8. Owns(e)
  BY <1>1, <1>2, CalledBackOwns DEF GuestsInv
<1>9. ASSUME NEW f \in Entries \ {e} PROVE Owns(f) /\ ~Shut(f)
  <2>1. Untouched(f)
    BY <1>2, <1>5, ClientsAre DEF Untouched
  <2> QED BY <1>2, <2>1, UntouchedOwns DEF Shut
<1>10. ASSUME Shut(e) PROVE Astray(e, loop.cur)
  <2>1. handle[e] = Null
    BY <1>2, <1>10 DEF Shut, GuestsInv, EntryOk, GuestOk, TableType
  <2> QED BY <1>3, <2>1, AstrayIs
<1> QED BY <1>1, <1>2, <1>4, <1>6, <1>7, <1>8, <1>9, <1>10 DEF GuestsInv

LEMMA VapCbKeeps ==
  ASSUME GuestsInv, VapCb
  PROVE  GuestsInv' /\ \A f \in Entries : Owns(f) /\ ~Shut(f)
<1> DEFINE h == Cleared("wifi_vap")
<1>1. /\ Due("wifi_vap") /\ Ran /\ "wifi_vap" \in Held
  BY ClientsAre DEF VapCb
<1>2. Anchored(events, handle, Null) /\ Anchored(events, h, loop.cur)
  BY <1>1, DueAnchored DEF GuestsInv, Remember, Cleared
<1>3. \A e \in Entries : h[e] = handle[e]
  BY <1>2, ClientsAre DEF Cleared, Anchored
<1>4. CASE /\ Listed' = {} /\ \A e \in Entries : guest'[e] = Null
           /\ Leave(Untimed(Listed), [c \in Held |-> Null])
  <2>1. \A e \in Entries \ Listed : handle[e] = Null
    BY DEF GuestsInv, TableType, EntryOk
  <2>2. Listed \in SUBSET Held
    BY TableIs, ClientsAre DEF GuestsInv
  <2>3. Untimed(Listed) = Without(events, EntriesOfAll(h, Listed))
    <3>1. Listed \subseteq Entries
      BY TableIs DEF GuestsInv
    <3> HIDE DEF h
    <3>2. {handle[e] : e \in Listed} = {h[e] : e \in Listed}
      BY <1>3, <3>1
    <3> QED BY <3>2 DEF Untimed, EntriesOfAll
  <2>4. [c \in Held |-> Null] = Forget(h, Listed)
    <3>1. \A c \in Held : c \in Listed \/ h[c] = Null
      BY <1>1, <1>2, <1>3, <2>1, GuestHostsAssumption DEF Cleared, Anchored
    <3> HIDE DEF h
    <3> QED BY <3>1 DEF Forget
  <2>5. LET left == Without(events, EntriesOfAll(h, Listed))
        IN  /\ Anchored(left, Forget(h, Listed), loop.cur)
            /\ \A n \in Items(left) : n \in Items(events) /\ \A c \in Listed : n.addr # h[c]
    <3> HIDE DEF h
    <3> QED BY <1>2, <2>2, WithoutAnchored
  <2>6. /\ Anchored(events', handle', loop.cur)
        /\ \A n \in Items(events') : n \in Items(events) /\ \A c \in Listed : n.addr # h[c]
    BY <1>4, <2>3, <2>4, <2>5 DEF Leave
  <2>7. Moored' /\ ClockInv'
    BY <1>1, <2>6, RanMoored, MooredCallClock DEF GuestsInv, Moored
  <2>8. \A e \in Entries : EntryOk(e)'
    BY <1>4, ClientsAre DEF EntryOk, Leave
  <2>9. TableType'
    BY VapCbTable DEF GuestsInv
  <2>10. ASSUME NEW e \in Entries PROVE Owns(e)
    <3>1. \A n \in Items(events) : n.addr # Null
      BY <1>2, ItemsType, SchedulerAssumption DEF Anchored, Entry
    <3>2. Renewed(e)
      BY <1>3, <2>1, <2>6, <3>1 DEF Renewed
    <3> QED BY <3>2, RenewedOwns
  <2> QED BY <1>4, <2>7, <2>8, <2>9, <2>10 DEF GuestsInv, Shut
<1>5. CASE guest' = guest /\ Leave(events, h)
  <2>1. events' = events /\ handle' = h
    BY <1>5 DEF Leave
  <2>2. Moored' /\ ClockInv'
    BY <1>1, <1>2, <2>1, RanMoored, MooredCallClock DEF GuestsInv, Moored
  <2>3. ASSUME NEW e \in Entries PROVE EntryOk(e)' /\ Owns(e) /\ ~Shut(e)
    <3>1. EntryOk(e)'
      BY <1>3, <1>5, <2>1, OthersOk DEF GuestsInv
    <3>2. Untouched(e)
      BY <1>3, <2>1 DEF Untouched
    <3> QED BY <1>5, <3>1, <3>2, UntouchedOwns DEF Shut
  <2>4. TableType'
    BY VapCbTable DEF GuestsInv
  <2> QED BY <2>2, <2>3, <2>4 DEF GuestsInv
<1>6. TableType
  BY DEF GuestsInv
<1> QED BY <1>4, <1>5, <1>6, VapCbTable

LEMMA ChangeCbKeeps ==
  ASSUME GuestsInv, ChangeCb
  PROVE  GuestsInv' /\ \A f \in Entries : Owns(f) /\ ~Shut(f)
<1> DEFINE c == "ap_change"
<1>1. /\ Due(c) /\ Ran /\ c \in Clients /\ c \notin Held /\ Delay["change"] \in Int
      /\ Delay["change"] \in Delays /\ c \notin Entries /\ conf' = conf
  BY ClientsAre DEF ChangeCb
<1>2. Anchored(events, handle, loop.cur)
  BY <1>1, DueAnchored DEF GuestsInv, Remember
<1>3. CASE Arm(events, handle, c, "change") /\ UNCHANGED <<vhost, guest>>
  <2>1. /\ Anchored(events', handle', loop.cur)
        /\ \A b \in Held \ {c} : handle'[b] = handle[b]
        /\ \A n \in Items(events') :
             n \in Items(events) \/ (n.cb = c /\ n.due = Delay["change"])
    <3> HIDE DEF c
    <3>1. Anchored(events', handle', loop.cur)
      BY <1>1, <1>2, <1>3, ArmAnchored
    <3>2. \A b \in Held \ {c} : handle'[b] = handle[b]
      BY <1>1, <1>2, <1>3, ArmAnchored
    <3>3. \A n \in Items(events') :
            n \in Items(events) \/ (n.cb = c /\ n.due = Delay["change"])
      BY <1>1, <1>2, <1>3, ArmAnchored
    <3> QED BY <3>1, <3>2, <3>3
  <2>2. Moored' /\ ClockInv'
    BY <1>1, <2>1, RanMoored, MooredCallClock DEF GuestsInv, Moored
  <2>3. TableType'
    BY <1>1, <1>3, TableSame DEF GuestsInv, guestVars, TableType
  <2>4. ASSUME NEW e \in Entries PROVE EntryOk(e)' /\ Owns(e) /\ ~Shut(e)
    <3>1. handle'[e] = handle[e]
      BY <1>1, <2>1, ClientsAre
    <3>2. EntryOk(e)'
      BY <1>3, <3>1, OthersOk DEF GuestsInv
    <3>3. Untouched(e)
      BY <1>1, <2>1, <3>1 DEF Untouched
    <3> QED BY <1>3, <3>2, <3>3, UntouchedOwns DEF Shut
  <2> QED BY <2>2, <2>3, <2>4 DEF GuestsInv
<1>4. ASSUME NEW e \in Listed, Gone(e), Arm(Cancelled(events, e), Cleared(e), c, "change")
      PROVE  GuestsInv' /\ \A f \in Entries : Owns(f) /\ ~Shut(f)
  <2>1. e \in Entries
    BY TableIs DEF GuestsInv
  <2>2. /\ Anchored(Cancelled(events, e), Cleared(e), loop.cur)
        /\ \A n \in Items(Cancelled(events, e)) : n \in Items(events) /\ n.addr # handle[e]
        /\ Cleared(e)[e] = Null /\ \A b \in Held \ {e} : Cleared(e)[b] = handle[b]
    BY <1>2, <2>1, TimerGoes
  <2>3. /\ Anchored(events', handle', loop.cur)
        /\ \A b \in Held \ {c} : handle'[b] = Cleared(e)[b]
        /\ \A n \in Items(events') :
             \/ n \in Items(Cancelled(events, e))
             \/ n.cb = c /\ n.due = Delay["change"]
    <3> HIDE DEF c
    <3>1. Anchored(events', handle', loop.cur)
      BY <1>1, <1>4, <2>2, ArmAnchored
    <3>2. \A b \in Held \ {c} : handle'[b] = Cleared(e)[b]
      BY <1>1, <1>4, <2>2, ArmAnchored
    <3>3. \A n \in Items(events') :
            \/ n \in Items(Cancelled(events, e))
            \/ n.cb = c /\ n.due = Delay["change"]
      BY <1>1, <1>4, <2>2, ArmAnchored
    <3> QED BY <3>1, <3>2, <3>3
  <2>4. \A n \in Items(events') :
          \/ n \in Items(events) /\ n.addr # handle[e]
          \/ n.cb = c /\ n.due \in Delays
    BY <1>1, <2>2, <2>3
  <2>5. Moored' /\ ClockInv'
    BY <1>1, <2>3, <2>4, RanMoored, MooredCallClock DEF GuestsInv, Moored
  <2>6. /\ TableType' /\ \A f \in Entries \ {e} : guest'[f] = guest[f]
        /\ guest'[e] # Null => ~guest'[e].online /\ guest'[e].rules = {}
    BY <1>1, <1>4, GoneTable DEF GuestsInv
  <2>7. handle'[e] = Null /\ \A f \in Entries \ {e} : handle'[f] = handle[f]
    BY <1>1, <2>1, <2>2, <2>3, ClientsAre
  <2>8. EntryOk(e)' /\ Owns(e) /\ ~Shut(e)
    <3>1. EntryOk(e)'
      BY <2>6, <2>7 DEF EntryOk, GuestOk
    <3>2. Owns(e)
      BY <1>1, <2>1, <2>4, AstrayIs DEF Owns, GoesAstray
    <3>3. ~Shut(e)
      <4>1. e \in Listed' => guest'[e] # Null
        BY <1>1, <2>6, TableIs DEF TableType, GuestsInv
      <4> QED BY <2>6, <4>1 DEF Shut
    <3> QED BY <3>1, <3>2, <3>3
  <2>9. ASSUME NEW f \in Entries \ {e} PROVE EntryOk(f)' /\ Owns(f) /\ ~Shut(f)
    <3>1. EntryOk(f)'
      BY <2>6, <2>7, OthersOk DEF GuestsInv
    <3>2. Untouched(f)
      BY <1>1, <2>4, <2>7 DEF Untouched
    <3> QED BY <2>6, <3>1, <3>2, UntouchedOwns DEF Shut
  <2> QED BY <2>5, <2>6, <2>8, <2>9 DEF GuestsInv
<1> QED BY <1>3, <1>4 DEF ChangeCb

LEMMA GuestsInit ==
  Init => GuestsInv
<1> SUFFICES ASSUME Init PROVE GuestsInv
  OBVIOUS
<1> DEFINE h == [c \in Held |-> Null]
           c == "ap_change"
           d == Delay["change"]
<1>1. PICK a \in Addrs : events = Scheduled(<<>>, a, c, d) /\ loop = LookAt(events, a)
  BY DEF Init
<1>2. handle = h
  BY DEF Init
<1>3. Anchored(<<>>, h, Null) /\ Addresses(<<>>) = {}
  BY EmptyLinked, LinkedIs
<1>4. c \in Clients /\ c \notin Held /\ d \in Int /\ a \in Allocs(<<>>)
  BY <1>3, ClientsAre DEF Allocs
<1>5. Remember(h, c, a) = h
  BY <1>4 DEF Remember
<1>6. /\ Anchored(events, h, Null)
      /\ \A e \in Items(events) : e \in Items(<<>>) \/ (e.addr = a /\ e.cb = c /\ e.due = d)
  <2> HIDE DEF h, c, d
  <2> QED BY <1>1, <1>3, <1>4, <1>5, ScheduledAnchored
<1>7. Items(<<>>) = {}
  <2>1. 1..Len(<<>>) = {}
    OBVIOUS
  <2> QED BY <2>1 DEF Items
<1>8. Moored
  <2>1. List(events) /\ a \in Cursors
    BY <1>6 DEF Anchored, Cursors
  <2>2. LoopType /\ loop.at = "check"
    BY <1>1, <2>1, LookAtType DEF LoopType
  <2> QED BY <1>2, <1>6, <2>2 DEF Moored, Exempt
<1>9. TableType
  <2>1. vhost = <<>> /\ guest = [e \in Entries |-> Null] /\ conf \in Settings
    BY DEF Init
  <2>2. vhost \in Seq(Entries) /\ Len(vhost) = 0 /\ 1..Len(vhost) = {}
    BY <2>1
  <2> QED BY <2>1, <2>2, TableIs DEF TableType, Listed, NoneTwice
<1>10. \A e \in Entries : EntryOk(e)
  BY ClientsAre DEF Init, EntryOk
<1>11. ClockInv
  <2>1. DueInTime(events)
    BY <1>6, <1>7, LongestDelay, ClientsAre DEF DueInTime
  <2>2. timeout = Forever /\ slow = 0 /\ loop.late = 0
    BY <1>1 DEF Init, LookAt
  <2> QED BY <2>1, <2>2, LongestDelay DEF ClockInv, Clock
<1> QED BY <1>8, <1>9, <1>10, <1>11 DEF GuestsInv

LEMMA GuestsSteps ==
  ASSUME GuestsInv, [Next]_vars
  PROVE  /\ GuestsInv' /\ \A e \in Entries : Owns(e)
         /\ \A e \in Entries : Shut(e) => Due(e) /\ Astray(e, loop.cur)
<1>0. TableType'
  BY TableKeeps DEF GuestsInv
<1>1. guest' = guest => \A e \in Entries : ~Shut(e)
  BY DEF Shut
<1>2. CASE UNCHANGED vars
  BY <1>0, <1>1, <1>2, LeaveKeeps DEF vars, guestVars
<1>3. CASE Callback
  BY <1>3, MinuteCbKeeps, VapCbKeeps, ChangeCbKeeps DEF Callback
<1>4. CASE Message
  BY <1>4, HostAddKeeps, HostDelKeeps, WechatAllowKeeps, WechatCleanKeeps, SetVapKeeps
     DEF Message
<1>5. CASE Netlink
  BY <1>5, OnlineKeeps, OfflineKeeps DEF Netlink
<1>6. CASE Kernel
  BY <1>0, <1>1, <1>6, LeaveKeeps DEF Kernel, guestVars
<1>7. CASE Loop \/ Idle \/ Tick
  BY <1>0, <1>1, <1>7, LoopKeeps DEF Loop, Idle, Tick, guestVars
<1> QED BY <1>2, <1>3, <1>4, <1>5, <1>6, <1>7 DEF Next

LEMMA GuestsAlways == Spec => []GuestsInv
BY GuestsInit, GuestsSteps, PTL DEF Spec

\* A guest that is online without leave and not cut off has a timer that will cut it
\* off and that its entry knows of (wifi_wechat_allow, wifi_vap_host_online), as long
\* as malloc does not fail: however many minutes of earlier guests go astray, memory
\* does not run out.
THEOREM NoFreeRideHolds ==
  ASSUME ~MallocMayFail, ~IsFiniteSet(Addrs)
  PROVE  Spec => []NoFreeRide
<1>1. Roomy
  BY DEF Roomy
<1>2. GuestsInv => NoFreeRide
  <2> SUFFICES ASSUME GuestsInv, NEW e \in Listed, guest[e].online, ~guest[e].authon,
                      "black" \notin guest[e].rules
               PROVE  \E i \in 1..Len(events) :
                        events[i].cb = e /\ events[i].addr = handle[e]
    BY DEF NoFreeRide
  <2>1. e \in Entries /\ e \in Held
    BY TableIs, ClientsAre DEF GuestsInv
  <2>2. handle[e] # Null
    BY <1>1, <2>1 DEF GuestsInv, TableType, EntryOk, GuestOk
  <2>3. \E n \in Items(events) : n.addr = handle[e] /\ n.cb = e
    BY <2>1, <2>2 DEF GuestsInv, Moored, Anchored, HandleSound
  <2> QED BY <2>3 DEF Items
<1> QED BY <1>2, GuestsAlways, PTL

\* A guest with leave is cut off by nothing but the end of a minute that went astray,
\* of the guest who had the entry before.
THEOREM LeaveIsLastingHolds == Spec => LeaveIsLasting
<1> DEFINE Lasting ==
      \A e \in Listed \cap Listed' :
        guest[e].authon /\ guest[e].rules = {} /\ guest'[e].authon /\ guest'[e].rules # {} =>
          Due(e) /\ Astray(e, loop.cur)
<1>1. GuestsInv /\ [Next]_vars => [Lasting]_vars
  BY GuestsSteps, TableIs DEF Shut, GuestsInv
<1>2. Spec => [][Lasting]_vars
  BY <1>1, GuestsAlways, PTL DEF Spec
<1> QED BY <1>2 DEF LeaveIsLasting

\* A minute goes astray only when a full table gives the entry of a guest that is
\* offline to another host, or when one that is astray already ends.
THEOREM MinuteIsOwnHolds == Spec => MinuteIsOwn
<1> DEFINE Own ==
      \A e \in Entries, a \in Addrs :
        Astray(e, a)' /\ ~Astray(e, a) =>
          \/ Due(e) /\ (loop.cur = a \/ Astray(e, loop.cur))
          \/ e \in Listed \cap Listed' /\ Offline(e) /\ guest'[e].mac # guest[e].mac
<1>1. GuestsInv /\ [Next]_vars => [Own]_vars
  BY GuestsSteps DEF Owns, GoesAstray
<1>2. Spec => [][Own]_vars
  BY <1>1, GuestsAlways, PTL DEF Spec
<1> QED BY <1>2 DEF MinuteIsOwn

----------------------------------------------------------------------------
(***************************************************************************)
(* The full table.  The guests that mu takes for online are among the      *)
(* hosts that were alive when the kernel sent the oldest message mu has    *)
(* not read.  The messages lead from those hosts, step by step, to the     *)
(* ones that are alive now, and at no time were there more than HostMax:   *)
(* A[k] is who was alive after the first k messages.                       *)
(***************************************************************************)
KernelType ==
  /\ place \in [Macs -> {"off", "vap", "ap"}]
  /\ queue \in Seq(Messages) /\ Len(queue) <= QueueMax

After(msg, S) == IF msg.action = "ADD" THEN S \cup {msg.mac} ELSE S \ {msg.mac}

Lag(A, q, S) ==
  /\ A[Len(q)] = S
  /\ \A k \in 0..Len(q) : IsFiniteSet(A[k]) /\ Cardinality(A[k]) <= HostMax
  /\ \A k \in 1..Len(q) : A[k] = After(q[k], A[k - 1])

MacsOwn == \A e, f \in Listed : guest[e].mac = guest[f].mac => e = f

Among(S) == \A e \in Listed : guest[e].online => guest[e].mac \in S

TableInv ==
  /\ TableType /\ KernelType /\ MacsOwn
  /\ \E A : Lag(A, queue, Alive) /\ Among(A[0])

\* Of the guests of before some are left, and none has come online.
Fewer ==
  /\ Listed' \subseteq Listed
  /\ \A e \in Listed' : /\ guest'[e].mac = guest[e].mac
                        /\ guest'[e].online => guest[e].online

LEMMA FewerOne ==
  ASSUME TableType, Listed' \subseteq Listed, NEW e,
         \A f \in Entries \ {e} : guest'[f] = guest[f],
         e \in Listed' => /\ guest'[e].mac = guest[e].mac
                          /\ guest'[e].online => guest[e].online
  PROVE  Fewer
BY TableIs DEF Fewer

LEMMA FewerOwn ==
  ASSUME MacsOwn, Fewer
  PROVE  MacsOwn' /\ \A S : Among(S) => Among(S)'
BY DEF MacsOwn, Fewer, Among

LEMMA FewerSteps ==
  ASSUME TableType, Callback \/ Message \/ Loop \/ Idle \/ Tick \/ UNCHANGED vars
  PROVE  Fewer /\ place' = place /\ queue' = queue
<1>0. place' = place /\ queue' = queue
  BY DEF Callback, MinuteCb, VapCb, ChangeCb, Message, HostAdd, HostDel, WechatAllow,
     WechatClean, SetVap, Loop, Idle, Tick, vars, kernelVars
<1> SUFFICES Fewer
  BY <1>0
<1>1. CASE UNCHANGED guestVars
  BY <1>1 DEF Fewer, guestVars, Listed
<1>2. ASSUME NEW e \in Entries, MinuteCb(e) PROVE Fewer
  <2>1. /\ Listed' = Listed /\ \A f \in Entries \ {e} : guest'[f] = guest[f]
        /\ guest'[e] = guest[e] \/ SameButRules(guest'[e], guest[e])
    BY <1>2, MinuteCbTable
  <2> QED BY <2>1, FewerOne DEF SameButRules
<1>3. CASE VapCb
  <2>1. Listed' = {} \/ (Listed' = Listed /\ guest' = guest)
    BY <1>3, VapCbTable
  <2> QED BY <2>1 DEF Fewer
<1>4. CASE ChangeCb
  <2>1. CASE \E e \in Listed : Gone(e)
    <3>1. PICK e \in Listed : Gone(e)
      BY <2>1
    <3>2. /\ TableType' /\ Listed' \subseteq Listed
          /\ \A f \in Entries \ {e} : guest'[f] = guest[f]
          /\ guest'[e] # Null => guest'[e].mac = guest[e].mac /\ ~guest'[e].online
      BY <1>4, <3>1, GoneTable DEF ChangeCb
    <3>3. e \in Listed' => guest'[e] # Null
      BY <3>1, <3>2, TableIs DEF TableType
    <3> QED BY <3>2, <3>3, FewerOne
  <2>2. CASE ~ \E e \in Listed : Gone(e)
    BY <1>1, <1>4, <2>2 DEF ChangeCb, guestVars
  <2> QED BY <2>1, <2>2
<1>5. ASSUME NEW m \in Macs, NEW passid \in BOOLEAN, HostAdd(m, passid) PROVE Fewer
  <2>1. PICK e \in Listed :
          /\ Listed' = Listed /\ \A f \in Entries \ {e} : guest'[f] = guest[f]
          /\ guest'[e].mac = guest[e].mac /\ guest'[e].online = guest[e].online
    BY <1>5, HostAddTable
  <2> QED BY <2>1, FewerOne
<1>6. ASSUME NEW m \in Macs, HostDel(m) PROVE Fewer
  <2>1. PICK e \in Listed :
          /\ Listed' = Listed /\ \A f \in Entries \ {e} : guest'[f] = guest[f]
          /\ guest'[e].mac = guest[e].mac /\ guest'[e].online = guest[e].online
    BY <1>6, HostDelTable
  <2> QED BY <2>1, FewerOne
<1>7. ASSUME NEW m \in Macs, WechatAllow(m) PROVE Fewer
  <2>1. PICK e \in Listed :
          /\ Listed' = Listed /\ \A f \in Entries \ {e} : guest'[f] = guest[f]
          /\ SameButRules(guest'[e], guest[e])
    BY <1>7, WechatAllowTable
  <2> QED BY <2>1, FewerOne DEF SameButRules
<1>8. CASE WechatClean
  <2> DEFINE named == {e \in Listed : guest[e].passid}
  <2>1. /\ Listed' = Listed
        /\ \A e \in Entries \ named : guest'[e] = guest[e]
        /\ \A e \in named : guest'[e].mac = guest[e].mac /\ guest'[e].online = guest[e].online
    BY <1>8, WechatCleanTable
  <2>2. ASSUME NEW e \in Listed
        PROVE  guest'[e].mac = guest[e].mac /\ guest'[e].online = guest[e].online
    <3>1. e \in Entries
      BY TableIs
    <3> QED BY <2>1, <3>1
  <2> QED BY <2>1, <2>2 DEF Fewer
<1> QED BY <1>1, <1>2, <1>3, <1>4, <1>5, <1>6, <1>7, <1>8
        DEF Callback, Message, SetVap, Loop, Idle, Tick, vars

\* A message is read: A shifts by one.
LEMMA LagRead ==
  ASSUME KernelType, NEW A, Lag(A, queue, Alive), NEW action, NEW m, Told(action, m),
         place' = place
  PROVE  /\ KernelType' /\ A[1] = After([action |-> action, mac |-> m], A[0])
         /\ \E B : Lag(B, queue', Alive') /\ B[0] = A[1]
<1>1. /\ queue # <<>> /\ queue \in Seq(Messages)
      /\ Head(queue) = [action |-> action, mac |-> m] /\ queue' = Tail(queue)
  BY DEF Told, KernelType
<1>2. /\ queue' \in Seq(Messages) /\ Len(queue') = Len(queue) - 1
      /\ \A i \in 1..Len(queue') : queue'[i] = queue[i + 1]
  BY <1>1, HeadTailProperties
<1>3. Len(queue) \in Nat \ {0} /\ Len(queue') \in Nat /\ Head(queue) = queue[1]
  BY <1>1, <1>2, EmptySeq, LenProperties
<1>4. Alive' = Alive
  BY DEF Alive
<1>5. KernelType'
  BY <1>2, <1>3, GuestHostsAssumption DEF KernelType
<1>6. A[1] = After([action |-> action, mac |-> m], A[0])
  <2>1. 1 \in 1..Len(queue) /\ 1 - 1 = 0
    BY <1>3
  <2> QED BY <1>1, <1>3, <2>1 DEF Lag
<1> DEFINE n == Len(queue')
           B == [k \in 0..n |-> A[k + 1]]
<1>7. \A k \in 0..n : B[k] = A[k + 1] /\ k + 1 \in 0..Len(queue)
  BY <1>2, <1>3
<1>8. \A k \in 1..n : /\ k - 1 \in 0..n /\ k \in 0..n /\ k + 1 \in 1..Len(queue)
                      /\ (k - 1) + 1 = k /\ (k + 1) - 1 = k
  BY <1>2, <1>3
<1>9. n \in 0..n /\ 0 \in 0..n /\ n + 1 = Len(queue) /\ 0 + 1 = 1
  BY <1>2, <1>3
<1> HIDE DEF B
<1>10. Lag(B, queue', Alive')
  <2>1. B[n] = Alive'
    BY <1>4, <1>7, <1>9 DEF Lag
  <2>2. \A k \in 0..n : IsFiniteSet(B[k]) /\ Cardinality(B[k]) <= HostMax
    BY <1>7 DEF Lag
  <2>3. ASSUME NEW k \in 1..n PROVE B[k] = After(queue'[k], B[k - 1])
    <3>1. B[k] = A[k + 1] /\ B[k - 1] = A[k] /\ queue'[k] = queue[k + 1]
      BY <1>2, <1>7, <1>8
    <3>2. A[k + 1] = After(queue[k + 1], A[k])
      BY <1>8 DEF Lag
    <3> QED BY <3>1, <3>2
  <2> QED BY <2>1, <2>2, <2>3 DEF Lag
<1>11. B[0] = A[1]
  BY <1>7, <1>9
<1> QED BY <1>5, <1>6, <1>10, <1>11

\* A message is sent: A goes on.
LEMMA LagSent ==
  ASSUME KernelType, NEW A, Lag(A, queue, Alive), NEW msg \in Messages,
         queue' = Append(queue, msg), Len(queue) < QueueMax,
         place' \in [Macs -> {"off", "vap", "ap"}],
         Alive' = After(msg, Alive), Cardinality(Alive') <= HostMax
  PROVE  KernelType' /\ \E B : Lag(B, queue', Alive') /\ B[0] = A[0]
<1>1. /\ queue' \in Seq(Messages) /\ Len(queue') = Len(queue) + 1
      /\ \A i \in 1..Len(queue) : queue'[i] = queue[i]
      /\ queue'[Len(queue) + 1] = msg /\ Len(queue) \in Nat
  BY AppendProperties, LenProperties DEF KernelType
<1>2. KernelType'
  BY <1>1, GuestHostsAssumption DEF KernelType
<1> DEFINE n == Len(queue)
           B == [k \in 0..(n + 1) |-> IF k = n + 1 THEN Alive' ELSE A[k]]
<1>3. n \in 0..n /\ n \in Nat /\ IsFiniteSet(Alive)
  BY <1>1 DEF Lag
<1>4. IsFiniteSet(Alive')
  <2>1. IsFiniteSet(Alive \cup {msg.mac}) /\ IsFiniteSet(Alive \ {msg.mac})
    BY <1>3, FS_AddElement, FS_RemoveElement
  <2> QED BY <2>1 DEF After
<1>5. B[n + 1] = Alive' /\ \A k \in 0..n : B[k] = A[k]
  BY <1>3
<1> HIDE DEF B
<1>6. \A k \in 0..(n + 1) : k \in 0..n \/ k = n + 1
  BY <1>3
<1>7. Lag(B, queue', Alive')
  <2>1. \A k \in 0..(n + 1) : IsFiniteSet(B[k]) /\ Cardinality(B[k]) <= HostMax
    BY <1>4, <1>5, <1>6 DEF Lag
  <2>2. ASSUME NEW k \in 1..(n + 1) PROVE B[k] = After(queue'[k], B[k - 1])
    <3>1. CASE k = n + 1
      <4>1. k - 1 = n /\ B[k - 1] = Alive
        BY <1>3, <1>5, <3>1 DEF Lag
      <4> QED BY <1>1, <1>5, <3>1, <4>1
    <3>2. CASE k # n + 1
      <4>1. k \in 1..n /\ k \in 0..n /\ k - 1 \in 0..n
        BY <1>3, <3>2
      <4> QED BY <1>1, <1>5, <4>1 DEF Lag
    <3> QED BY <3>1, <3>2
  <2> QED BY <1>1, <1>5, <2>1, <2>2 DEF Lag
<1>8. B[0] = A[0]
  BY <1>3, <1>5
<1> QED BY <1>2, <1>7, <1>8

LEMMA KernelKeeps ==
  ASSUME TableInv, Kernel
  PROVE  TableInv'
<1>1. guest' = guest /\ vhost' = vhost /\ TableType'
  BY TableSame DEF Kernel, guestVars, TableInv, TableType
<1>2. MacsOwn' /\ \A S : Among(S) => Among(S)'
  BY <1>1 DEF TableInv, MacsOwn, Among, Listed
<1>3. PICK A : Lag(A, queue, Alive) /\ Among(A[0])
  BY DEF TableInv
<1>4. /\ KernelType /\ place \in [Macs -> {"off", "vap", "ap"}]
      /\ IsFiniteSet(Alive) /\ Cardinality(Alive) <= HostMax
  <2>1. Len(queue) \in 0..Len(queue) /\ KernelType
    BY LenProperties DEF TableInv, KernelType
  <2> QED BY <1>3, <2>1 DEF Lag, KernelType
<1>5. Cardinality(Alive) \in Nat /\ HostMax \in Nat
  BY <1>4, FS_CardinalityType, GuestHostsAssumption
<1>6. ASSUME NEW m \in Macs, Appear(m) \/ Disappear(m)
      PROVE  KernelType' /\ \E B : Lag(B, queue', Alive') /\ B[0] = A[0]
  <2>1. CASE Appear(m)
    <3> DEFINE msg == [action |-> "ADD", mac |-> m]
    <3>1. PICK p \in {"vap", "ap"} : place' = [place EXCEPT ![m] = p]
      BY <2>1 DEF Appear
    <3>2. /\ queue' = Append(queue, msg) /\ msg \in Messages /\ Len(queue) < QueueMax
          /\ Cardinality(Alive) < HostMax
      BY <2>1 DEF Appear, Messages
    <3>3. place' \in [Macs -> {"off", "vap", "ap"}] /\ Alive' = Alive \cup {m}
      BY <1>4, <3>1 DEF Alive
    <3>4. Cardinality(Alive \cup {m}) \in {Cardinality(Alive), Cardinality(Alive) + 1}
      BY <1>4, FS_AddElement
    <3>5. Cardinality(Alive') <= HostMax
      BY <1>5, <3>2, <3>3, <3>4
    <3>6. Alive' = After(msg, Alive)
      BY <3>3 DEF After
    <3> HIDE DEF msg
    <3> QED BY <1>3, <1>4, <3>2, <3>3, <3>5, <3>6, LagSent
  <2>2. CASE Disappear(m)
    <3> DEFINE msg == [action |-> "DEL", mac |-> m]
    <3>1. /\ queue' = Append(queue, msg) /\ msg \in Messages /\ Len(queue) < QueueMax
          /\ place' = [place EXCEPT ![m] = "off"]
      BY <2>2 DEF Disappear, Messages
    <3>2. place' \in [Macs -> {"off", "vap", "ap"}] /\ Alive' = Alive \ {m}
      BY <1>4, <3>1 DEF Alive
    <3>3. Cardinality(Alive \ {m}) \in {Cardinality(Alive), Cardinality(Alive) - 1}
      BY <1>4, FS_RemoveElement
    <3>4. Cardinality(Alive') <= HostMax
      BY <1>4, <1>5, <3>2, <3>3
    <3>5. Alive' = After(msg, Alive)
      BY <3>2 DEF After
    <3> HIDE DEF msg
    <3> QED BY <1>3, <1>4, <3>1, <3>2, <3>4, <3>5, LagSent
  <2> QED BY <1>6, <2>1, <2>2
<1>7. ASSUME NEW m \in Macs, GoOver(m)
      PROVE  KernelType' /\ \E B : Lag(B, queue', Alive') /\ B[0] = A[0]
  <2>1. /\ place' = [place EXCEPT ![m] = IF place[m] = "vap" THEN "ap" ELSE "vap"]
        /\ queue' = queue /\ m \in Alive
    BY <1>7 DEF GoOver
  <2>2. place' \in [Macs -> {"off", "vap", "ap"}] /\ Alive' = Alive
    BY <1>4, <2>1 DEF Alive
  <2>3. KernelType'
    BY <1>4, <2>1, <2>2 DEF KernelType
  <2> QED BY <1>3, <2>1, <2>2, <2>3
<1>8. KernelType' /\ \E B : Lag(B, queue', Alive') /\ B[0] = A[0]
  BY <1>6, <1>7 DEF Kernel
<1> QED BY <1>1, <1>2, <1>3, <1>8 DEF TableInv

LEMMA NetlinkKeeps ==
  ASSUME TableInv, NEW m \in Macs, Online(m) \/ OfflineMsg(m)
  PROVE  TableInv'
<1>1. PICK A : Lag(A, queue, Alive) /\ Among(A[0])
  BY DEF TableInv
<1>2. TableType /\ KernelType /\ MacsOwn /\ conf' = conf /\ place' = place
  BY DEF TableInv, Online, OfflineMsg
<1>3. CASE Online(m)
  <2>1. /\ KernelType' /\ A[1] = After([action |-> "ADD", mac |-> m], A[0])
        /\ \E B : Lag(B, queue', Alive') /\ B[0] = A[1]
    BY <1>1, <1>2, <1>3, LagRead DEF Online
  <2>2. A[1] = A[0] \cup {m}
    BY <2>1 DEF After
  <2>3. TableType' /\ MacsOwn' /\ Among(A[1])'
    <3>1. CASE Ignore
      <4>1. TableType' /\ Listed' = Listed /\ guest' = guest
        BY <1>2, <3>1, TableSame DEF Ignore, guestVars, TableType
      <4> QED BY <1>1, <1>2, <2>2, <4>1 DEF MacsOwn, Among
    <3>2. CASE ~Ignore
      <4>1. OnlineAgain(m) \/ OnlineNew(m) \/ OnlineInstead(m)
        BY <1>3, <3>2 DEF Online
      <4>2. PICK e \in Entries :
              /\ TableType' /\ Listed' = Listed \cup {e}
              /\ \A f \in Entries \ {e} : guest'[f] = guest[f]
              /\ \/ e \in Listed /\ LetIn(m, e)
                 \/ \E g \in GuestRec, evs \in {events, Cancelled(events, e)} :
                      Admitted(m, e, g, evs) /\ SameButRules(guest'[e], g)
        BY <1>2, <3>2, <4>1, OnlineIsOne
      <4>3. guest'[e].mac = m
        BY <4>2 DEF LetIn, Admitted, SameButRules
      <4>4. Among(A[1])'
        BY <1>1, <1>2, <2>2, <4>2, <4>3, TableIs DEF Among
      <4>5. \A f \in Listed \ {e} : guest[f].mac # m
        BY <1>2, <4>2 DEF LetIn, Admitted, EntriesOf, MacsOwn
      <4>6. MacsOwn'
        BY <1>2, <4>2, <4>3, <4>5, TableIs DEF MacsOwn
      <4> QED BY <4>2, <4>4, <4>6
    <3> QED BY <3>1, <3>2
  <2> QED BY <2>1, <2>3 DEF TableInv
<1>4. CASE OfflineMsg(m)
  <2>1. /\ KernelType' /\ A[1] = After([action |-> "DEL", mac |-> m], A[0])
        /\ \E B : Lag(B, queue', Alive') /\ B[0] = A[1]
    BY <1>1, <1>2, <1>4, LagRead DEF OfflineMsg
  <2>2. A[1] = A[0] \ {m}
    BY <2>1 DEF After
  <2>3. TableType' /\ MacsOwn' /\ Among(A[1])'
    <3>1. CASE EntriesOf(m) = {} /\ Ignore
      <4>1. TableType' /\ Listed' = Listed /\ guest' = guest
        BY <1>2, <3>1, TableSame DEF Ignore, guestVars, TableType
      <4> QED BY <1>1, <1>2, <2>2, <3>1, <4>1 DEF MacsOwn, Among, EntriesOf
    <3>2. ASSUME NEW e \in EntriesOf(m), Gone(e)
          PROVE  TableType' /\ MacsOwn' /\ Among(A[1])'
      <4>1. e \in Listed /\ guest[e].mac = m
        BY DEF EntriesOf
      <4>2. /\ TableType' /\ Listed' \subseteq Listed
            /\ \A f \in Entries \ {e} : guest'[f] = guest[f]
            /\ guest'[e] # Null => guest'[e].mac = guest[e].mac /\ ~guest'[e].online
        BY <1>2, <3>2, <4>1, GoneTable
      <4>3. e \in Listed' => guest'[e].mac = guest[e].mac /\ ~guest'[e].online
        BY <1>2, <4>1, <4>2, TableIs DEF TableType
      <4>4. Fewer
        BY <1>2, <4>2, <4>3, FewerOne
      <4>5. MacsOwn' /\ Among(A[0])'
        BY <1>1, <1>2, <4>4, FewerOwn
      <4>6. ASSUME NEW f \in Listed', guest'[f].online PROVE guest'[f].mac # m
        BY <1>2, <4>1, <4>3, <4>4, <4>6 DEF Fewer, MacsOwn
      <4>7. Among(A[1])'
        BY <2>2, <4>5, <4>6 DEF Among
      <4> QED BY <4>2, <4>5, <4>7
    <3> QED BY <1>4, <3>1, <3>2 DEF OfflineMsg
  <2> QED BY <2>1, <2>3 DEF TableInv
<1> QED BY <1>3, <1>4

LEMMA TableInit == Init => TableInv
<1> SUFFICES ASSUME Init PROVE TableInv
  OBVIOUS
<1>1. /\ place = [m \in Macs |-> "off"] /\ queue = <<>> /\ vhost = <<>>
  BY DEF Init
<1>2. TableType
  BY GuestsInit DEF GuestsInv
<1>3. queue \in Seq(Messages) /\ Len(queue) = 0 /\ Len(vhost) = 0
  BY <1>1
<1>4. KernelType
  BY <1>1, <1>3, GuestHostsAssumption DEF KernelType
<1>5. Listed = {} /\ Alive = {}
  BY <1>1, <1>3 DEF Listed, Alive
<1> DEFINE A == [k \in 0..0 |-> {}]
<1>6. A[0] = {} /\ IsFiniteSet({}) /\ Cardinality({}) <= HostMax
  BY FS_EmptySet, GuestHostsAssumption
<1> HIDE DEF A
<1>7. Lag(A, queue, Alive)
  <2>1. \A k \in 0..Len(queue) : k = 0
    BY <1>3
  <2>2. 1..Len(queue) = {}
    BY <1>3
  <2>3. \A k \in 0..Len(queue) : IsFiniteSet(A[k]) /\ Cardinality(A[k]) <= HostMax
    BY <1>6, <2>1
  <2> QED BY <1>3, <1>5, <1>6, <2>2, <2>3 DEF Lag
<1> QED BY <1>2, <1>4, <1>5, <1>7 DEF TableInv, MacsOwn, Among

LEMMA TableInvKeeps == TableInv /\ [Next]_vars => TableInv'
<1> SUFFICES ASSUME TableInv, [Next]_vars PROVE TableInv'
  OBVIOUS
<1>1. CASE Callback \/ Message \/ Loop \/ Idle \/ Tick \/ UNCHANGED vars
  <2>1. Fewer /\ place' = place /\ queue' = queue
    BY <1>1, FewerSteps DEF TableInv
  <2>2. MacsOwn' /\ \A S : Among(S) => Among(S)'
    BY <2>1, FewerOwn DEF TableInv
  <2>3. TableType' /\ KernelType' /\ Alive' = Alive
    BY <2>1, TableKeeps DEF TableInv, KernelType, Alive
  <2> QED BY <2>1, <2>2, <2>3 DEF TableInv
<1>2. CASE Netlink
  BY <1>2, NetlinkKeeps DEF Netlink
<1>3. CASE Kernel
  BY <1>3, KernelKeeps
<1> QED BY <1>1, <1>2, <1>3 DEF Next

\* With one entry more than hosts can be alive, a full table has a guest offline,
\* however far mu lags behind the kernel: wifi_vap_host_online finds one to reuse.
THEOREM VictimExistsHolds == Spec => []VictimExists
<1>1. TableInv => VictimExists
  <2> SUFFICES ASSUME TableInv, Len(vhost) = TableMax, \A e \in Listed : guest[e].online
               PROVE  FALSE
    BY DEF VictimExists, Offline
  <2>1. PICK A : Lag(A, queue, Alive) /\ Among(A[0])
    BY DEF TableInv
  <2>2. /\ Len(vhost) \in Nat /\ HostMax \in Nat /\ TableMax = HostMax + 1
        /\ NoneTwice(vhost) /\ \A i \in 1..Len(vhost) : vhost[i] \in Listed
    BY TableIs DEF TableInv, TableType, TableMax, Listed
  <2>3. IsFiniteSet(A[0]) /\ Cardinality(A[0]) <= HostMax
    <3>1. 0 \in 0..Len(queue)
      BY LenProperties DEF TableInv, KernelType
    <3> QED BY <2>1, <3>1 DEF Lag
  <2> DEFINE f == [i \in 1..Len(vhost) |-> guest[vhost[i]].mac]
  <2>4. f \in [1..Len(vhost) -> A[0]]
    BY <2>1, <2>2 DEF Among
  <2>5. ASSUME NEW i \in 1..Len(vhost), NEW j \in 1..Len(vhost), f[i] = f[j] PROVE i = j
    <3>1. vhost[i] = vhost[j]
      BY <2>2, <2>5 DEF TableInv, MacsOwn
    <3> QED BY <2>2, <3>1 DEF NoneTwice
  <2> HIDE DEF f
  <2>6. f \in Injection(1..Len(vhost), A[0])
    BY <2>4, <2>5 DEF Injection, IsInjective
  <2>7. Cardinality(1..Len(vhost)) <= Cardinality(A[0])
    BY <2>3, <2>6, FS_Injection
  <2>8. Cardinality(1..Len(vhost)) = Len(vhost)
    BY <2>2, FS_Interval
  <2>9. Cardinality(A[0]) \in Nat
    BY <2>3, FS_CardinalityType
  <2> QED BY <2>2, <2>3, <2>7, <2>8, <2>9
<1> QED BY <1>1, TableInit, TableInvKeeps, PTL DEF Spec

\* The list, the table and the kernel's messages keep their types.
THEOREM GuestsTyped == Spec => []TypeOK
<1>1. GuestsInv /\ TableInv => TypeOK
  BY MooredClockType DEF GuestsInv, TableInv, TableType, KernelType, TypeOK
<1> QED BY <1>1, GuestsAlways, TableInit, TableInvKeeps, PTL DEF Spec
=============================================================================
