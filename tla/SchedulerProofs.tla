-------------------------- MODULE SchedulerProofs --------------------------
(***************************************************************************)
(* What schedule() and dschedule() do to the list of Scheduler, for any    *)
(* list, and what they keep of the relation between the list and the       *)
(* static variables.  The modules whose callbacks and requests call them   *)
(* have their invariants from here.                                        *)
(***************************************************************************)
EXTENDS Scheduler, SequenceTheorems, FiniteSetTheorems, WellFoundedInduction, TLAPS

\* The list without its order, with a due time of any size.
Entry        == [addr : Addrs, cb : Clients, due : Int]
Items(evs) == {evs[i] : i \in 1..Len(evs)}

\* No address is in the list twice, and the list is sorted.
Distinct(evs) == \A i, j \in 1..Len(evs) : evs[i].addr = evs[j].addr => i = j
Sorted(evs)   == \A i, j \in 1..Len(evs) : i < j => evs[i].due <= evs[j].due
List(evs)     == evs \in Seq(Entry) /\ Distinct(evs) /\ Sorted(evs)

(***************************************************************************)
(* The list as positions: what is inserted at one, or taken from one.      *)
(***************************************************************************)
InsertedAt(new, evs, k, e) ==
  /\ k \in 1..(Len(evs) + 1)
  /\ Len(new) = Len(evs) + 1
  /\ \A i \in 1..Len(new) :
       new[i] = IF i < k THEN evs[i] ELSE IF i = k THEN e ELSE evs[i - 1]

RemovedAt(new, evs, k) ==
  /\ k \in 1..Len(evs)
  /\ Len(new) = Len(evs) - 1
  /\ \A i \in 1..Len(new) : new[i] = IF i < k THEN evs[i] ELSE evs[i + 1]

\* The pieces a list is cut into.
LEMMA Piece ==
  ASSUME NEW evs \in Seq(Entry), NEW m \in 1..(Len(evs) + 1), NEW n \in 0..Len(evs),
         m <= n + 1
  PROVE  /\ SubSeq(evs, m, n) \in Seq(Entry)
         /\ Len(SubSeq(evs, m, n)) = n - m + 1
         /\ \A i \in 1..(n - m + 1) : SubSeq(evs, m, n)[i] = evs[m + i - 1]
<1>1. Len(evs) \in Nat
  BY LenProperties
<1>2. \A i \in m..n : evs[i] \in Entry
  BY <1>1, ElementOfSeq
<1>3. m \in Int /\ n \in Int
  BY <1>1
<1>4. /\ SubSeq(evs, m, n) \in Seq(Entry)
      /\ Len(SubSeq(evs, m, n)) = (IF m <= n THEN n - m + 1 ELSE 0)
      /\ \A i \in 1..(n - m + 1) : SubSeq(evs, m, n)[i] = evs[m + i - 1]
  BY <1>2, <1>3, SubSeqProperties
<1> QED BY <1>1, <1>3, <1>4

\* A set of numbers that is not empty has a least one.
LEMMA Least ==
  ASSUME NEW S \in SUBSET Nat, S # {}
  PROVE  \E i \in S : \A j \in S : i <= j
<1>1. \E i \in S : \A j \in S : <<j, i>> \notin OpToRel(<, Nat)
  BY NatLessThanWellFounded, WFMin
<1>2. PICK i \in S : \A j \in S : <<j, i>> \notin OpToRel(<, Nat)
  BY <1>1
<1>3. \A j \in S : ~(j < i)
  BY <1>2 DEF OpToRel
<1> QED BY <1>3

\* schedule() inserts the entry before the first that is due later.
LEMMA ScheduledAt ==
  ASSUME NEW evs \in Seq(Entry), NEW a \in Addrs, NEW c \in Clients, NEW d \in Int
  PROVE  /\ Scheduled(evs, a, c, d) \in Seq(Entry)
         /\ \E k \in 1..(Len(evs) + 1) :
              /\ InsertedAt(Scheduled(evs, a, c, d), evs, k, [addr |-> a, cb |-> c, due |-> d])
              /\ \A i \in 1..(k - 1) : evs[i].due <= d
              /\ k <= Len(evs) => d < evs[k].due
<1> DEFINE later == {i \in 1..Len(evs) : d < evs[i].due}
           at    == IF later = {} THEN Len(evs) + 1
                    ELSE CHOOSE i \in later : \A j \in later : i <= j
           e     == [addr |-> a, cb |-> c, due |-> d]
           front == SubSeq(evs, 1, at - 1)
           back  == SubSeq(evs, at, Len(evs))
           new   == front \o <<e>> \o back
<1>0. Len(evs) \in Nat
  BY LenProperties
<1>1. \A i \in 1..Len(evs) : evs[i].due \in Int
  <2>1. \A i \in 1..Len(evs) : evs[i] \in Entry
    BY ElementOfSeq
  <2> QED BY <2>1 DEF Entry
<1>2. a # Null
  BY SchedulerAssumption
<1>3. Scheduled(evs, a, c, d) = new
  BY <1>2 DEF Scheduled
<1>4. /\ at \in 1..(Len(evs) + 1)
      /\ \A i \in 1..(at - 1) : evs[i].due <= d
      /\ at <= Len(evs) => d < evs[at].due
  <2>1. CASE later = {}
    <3>1. at = Len(evs) + 1
      BY <2>1
    <3>2. \A i \in 1..Len(evs) : evs[i].due <= d
      BY <1>1, <2>1
    <3> HIDE DEF at
    <3> QED BY <1>0, <3>1, <3>2
  <2>2. CASE later # {}
    <3>0. later \subseteq 1..Len(evs) /\ later \subseteq Nat
      BY <1>0
    <3>1. \E i \in later : \A j \in later : i <= j
      <4> HIDE DEF later
      <4> QED BY <2>2, <3>0, Least
    <3>2. at \in later /\ \A j \in later : at <= j
      <4>1. at = CHOOSE i \in later : \A j \in later : i <= j
        BY <2>2
      <4> HIDE DEF at, later
      <4> QED BY <3>1, <4>1
    <3>3. at \in 1..Len(evs) /\ d < evs[at].due
      BY <3>2
    <3> HIDE DEF at
    <3>4. ASSUME NEW i \in 1..(at - 1) PROVE evs[i].due <= d
      <4>1. i \in 1..Len(evs) /\ ~(at <= i)
        BY <1>0, <3>3
      <4>2. i \notin later
        BY <3>2, <4>1
      <4> QED BY <1>1, <4>1, <4>2
    <3> QED BY <1>0, <3>3, <3>4
  <2> QED BY <2>1, <2>2
<1> HIDE DEF at
<1>5. e \in Entry /\ <<e>> \in Seq(Entry) /\ Len(<<e>>) = 1 /\ <<e>>[1] = e
  BY DEF Entry
<1>6. /\ front \in Seq(Entry) /\ Len(front) = at - 1
      /\ \A i \in 1..(at - 1) : front[i] = evs[i]
  <2>1. at - 1 \in 0..Len(evs) /\ 1 \in 1..(Len(evs) + 1) /\ 1 <= (at - 1) + 1
    BY <1>0, <1>4
  <2>2. /\ front \in Seq(Entry) /\ Len(front) = at - 1 - 1 + 1
        /\ \A i \in 1..(at - 1 - 1 + 1) : front[i] = evs[1 + i - 1]
    BY <2>1, Piece
  <2> QED BY <1>0, <1>4, <2>2
<1>7. /\ back \in Seq(Entry) /\ Len(back) = Len(evs) - at + 1
      /\ \A i \in 1..(Len(evs) - at + 1) : back[i] = evs[at + i - 1]
  <2>1. Len(evs) \in 0..Len(evs) /\ at <= Len(evs) + 1
    BY <1>0, <1>4
  <2> QED BY <1>4, <2>1, Piece
<1> HIDE DEF front, back, e
<1>8. /\ front \o <<e>> \in Seq(Entry) /\ Len(front \o <<e>>) = at
      /\ \A i \in 1..at : (front \o <<e>>)[i] = IF i < at THEN evs[i] ELSE e
  <2>1. /\ front \o <<e>> \in Seq(Entry)
        /\ Len(front \o <<e>>) = Len(front) + Len(<<e>>)
        /\ \A i \in 1..Len(front) : (front \o <<e>>)[i] = front[i]
        /\ \A i \in 1..Len(<<e>>) : (front \o <<e>>)[Len(front) + i] = <<e>>[i]
    BY <1>5, <1>6, ConcatProperties
  <2>2. (front \o <<e>>)[at] = e
    <3>1. 1 \in 1..Len(<<e>>) /\ Len(front) + 1 = at
      BY <1>0, <1>4, <1>5, <1>6
    <3> QED BY <1>5, <2>1, <3>1
  <2>3. \A i \in 1..at : i < at => (front \o <<e>>)[i] = evs[i]
    BY <1>0, <1>4, <1>6, <2>1
  <2> QED BY <1>0, <1>4, <1>5, <1>6, <2>1, <2>2, <2>3
<1> DEFINE head == front \o <<e>>
<1> HIDE DEF head
<1>9. /\ new \in Seq(Entry) /\ Len(new) = Len(evs) + 1
      /\ \A i \in 1..at : new[i] = IF i < at THEN evs[i] ELSE e
      /\ \A i \in 1..(Len(evs) - at + 1) : new[at + i] = evs[at + i - 1]
  <2>1. new = head \o back
    BY DEF head
  <2> HIDE DEF new
  <2>3. head \in Seq(Entry)
    BY <1>8 DEF head
  <2>4. Len(head) = at /\ \A i \in 1..at : head[i] = IF i < at THEN evs[i] ELSE e
    BY <1>8 DEF head
  <2>5. back \in Seq(Entry)
    BY <1>7
  <2>2. /\ head \o back \in Seq(Entry)
        /\ Len(head \o back) = Len(head) + Len(back)
        /\ \A i \in 1..Len(head) : (head \o back)[i] = head[i]
        /\ \A i \in 1..Len(back) : (head \o back)[Len(head) + i] = back[i]
    BY <2>3, <2>5, ConcatProperties
  <2>6. new \in Seq(Entry) /\ Len(new) = at + (Len(evs) - at + 1)
    BY <1>7, <2>1, <2>2, <2>4
  <2>7. \A i \in 1..at : new[i] = head[i]
    BY <2>1, <2>2, <2>4
  <2>8. \A i \in 1..(Len(evs) - at + 1) : new[at + i] = back[i]
    BY <1>7, <2>1, <2>2, <2>4
  <2>9. at + (Len(evs) - at + 1) = Len(evs) + 1
    BY <1>0, <1>4
  <2> QED BY <1>7, <2>4, <2>6, <2>7, <2>8, <2>9
<1> HIDE DEF new
<1>10. InsertedAt(new, evs, at, e)
  <2>1. ASSUME NEW i \in 1..Len(new), i > at PROVE new[i] = evs[i - 1]
    <3>1. i - at \in 1..(Len(evs) - at + 1) /\ at + (i - at) = i /\ at + (i - at) - 1 = i - 1
      BY <1>0, <1>4, <1>9, <2>1
    <3> QED BY <1>9, <3>1
  <2>2. \A i \in 1..Len(new) : i <= at => i \in 1..at
    BY <1>0, <1>4, <1>9
  <2>3. \A i \in 1..Len(new) : i < at \/ i = at \/ i > at
    BY <1>0, <1>4
  <2> QED BY <1>0, <1>4, <1>9, <2>1, <2>2, <2>3 DEF InsertedAt
<1> QED BY <1>3, <1>4, <1>9, <1>10 DEF e

\* dschedule() takes out the entry of the address.
LEMMA DroppedAt ==
  ASSUME NEW evs \in Seq(Entry), NEW a \in Addresses(evs)
  PROVE  /\ Dropped(evs, a) \in Seq(Entry)
         /\ \E k \in 1..Len(evs) : evs[k].addr = a /\ RemovedAt(Dropped(evs, a), evs, k)
<1> DEFINE k     == Position(evs, a)
           front == SubSeq(evs, 1, k - 1)
           back  == SubSeq(evs, k + 1, Len(evs))
           new   == front \o back
<1>0. Len(evs) \in Nat
  BY LenProperties
<1>1. k \in 1..Len(evs) /\ evs[k].addr = a
  <2>1. \E i \in 1..Len(evs) : evs[i].addr = a
    BY DEF Addresses
  <2> QED BY <2>1 DEF Position
<1>2. Dropped(evs, a) = new
  BY DEF Dropped
<1> HIDE DEF k
<1>3. /\ front \in Seq(Entry) /\ Len(front) = k - 1
      /\ \A i \in 1..(k - 1) : front[i] = evs[i]
  <2>1. k - 1 \in 0..Len(evs) /\ 1 \in 1..(Len(evs) + 1) /\ 1 <= (k - 1) + 1
    BY <1>0, <1>1
  <2>2. /\ front \in Seq(Entry) /\ Len(front) = k - 1 - 1 + 1
        /\ \A i \in 1..(k - 1 - 1 + 1) : front[i] = evs[1 + i - 1]
    BY <2>1, Piece
  <2> QED BY <1>0, <1>1, <2>2
<1>4. /\ back \in Seq(Entry) /\ Len(back) = Len(evs) - k
      /\ \A i \in 1..(Len(evs) - k) : back[i] = evs[k + i]
  <2>1. k + 1 \in 1..(Len(evs) + 1) /\ Len(evs) \in 0..Len(evs) /\ k + 1 <= Len(evs) + 1
    BY <1>0, <1>1
  <2>2. /\ back \in Seq(Entry) /\ Len(back) = Len(evs) - (k + 1) + 1
        /\ \A i \in 1..(Len(evs) - (k + 1) + 1) : back[i] = evs[k + 1 + i - 1]
    BY <2>1, Piece
  <2> QED BY <1>0, <1>1, <2>2
<1> HIDE DEF front, back
<1>5. /\ new \in Seq(Entry) /\ Len(new) = Len(front) + Len(back)
      /\ \A i \in 1..Len(front) : new[i] = front[i]
      /\ \A i \in 1..Len(back) : new[Len(front) + i] = back[i]
  <2>1. front \in Seq(Entry) /\ back \in Seq(Entry)
    BY <1>3, <1>4
  <2> QED BY <2>1, ConcatProperties
<1> HIDE DEF new
<1>6. Len(new) = Len(evs) - 1
  BY <1>0, <1>1, <1>3, <1>4, <1>5
<1>7. ASSUME NEW i \in 1..Len(new), i < k PROVE new[i] = evs[i]
  BY <1>0, <1>1, <1>3, <1>5, <1>7
<1>8. ASSUME NEW i \in 1..Len(new), ~(i < k) PROVE new[i] = evs[i + 1]
  <2>1. /\ i - (k - 1) \in 1..(Len(evs) - k)
        /\ (k - 1) + (i - (k - 1)) = i /\ k + (i - (k - 1)) = i + 1
    BY <1>0, <1>1, <1>6, <1>8
  <2> QED BY <1>3, <1>4, <1>5, <2>1
<1>9. RemovedAt(new, evs, k)
  BY <1>1, <1>6, <1>7, <1>8 DEF RemovedAt
<1> QED BY <1>1, <1>2, <1>5, <1>9

(***************************************************************************)
(* Several elements of a sequence: each position kept has as many before   *)
(* it as its place in the result tells.                                    *)
(***************************************************************************)
LEMMA PickedAt ==
  ASSUME NEW T, NEW s \in Seq(T), NEW kept \in SUBSET (1..Len(s))
  PROVE  /\ IsFiniteSet(kept) /\ Cardinality(kept) \in Nat
         /\ Picked(s, kept) \in Seq(T) /\ Len(Picked(s, kept)) = Cardinality(kept)
         /\ \E f \in [1..Cardinality(kept) -> kept] :
              /\ \A m, n \in 1..Cardinality(kept) : m < n => f[m] < f[n]
              /\ \A i \in kept : \E n \in 1..Cardinality(kept) : f[n] = i
              /\ \A n \in 1..Cardinality(kept) : Picked(s, kept)[n] = s[f[n]]
<1> DEFINE K        == Cardinality(kept)
           below(i) == {j \in kept : j < i}
           rank     == [i \in kept |-> Cardinality(below(i)) + 1]
           at(n)    == CHOOSE i \in kept : Cardinality(below(i)) = n - 1
           f        == [n \in 1..K |-> at(n)]
<1>1. Len(s) \in Nat /\ kept \subseteq Nat
  BY LenProperties
<1>2. IsFiniteSet(kept) /\ K \in Nat
  <2>1. IsFiniteSet(1..Len(s))
    BY <1>1, FS_Interval
  <2> QED BY <2>1, FS_Subset, FS_CardinalityType
<1>3. ASSUME NEW i \in kept
      PROVE  /\ IsFiniteSet(below(i)) /\ Cardinality(below(i)) \in Nat
             /\ Cardinality(below(i) \cup {i}) = Cardinality(below(i)) + 1
             /\ rank[i] = Cardinality(below(i)) + 1
  <2>1. below(i) \subseteq kept /\ i \notin below(i)
    BY <1>1
  <2> HIDE DEF below
  <2>2. IsFiniteSet(below(i)) /\ Cardinality(below(i)) \in Nat
    BY <1>2, <2>1, FS_Subset, FS_CardinalityType
  <2> QED BY <2>1, <2>2, FS_AddElement
<1>4. ASSUME NEW i \in kept, NEW k \in kept, i < k
      PROVE  rank[i] < rank[k]
  <2>1. below(i) \cup {i} \subseteq below(k)
    <3>1. ASSUME NEW j \in below(i) PROVE j \in below(k)
      <4>1. j \in kept /\ j < i
        OBVIOUS
      <4>2. j < k
        BY <1>1, <1>4, <4>1
      <4> QED BY <4>1, <4>2
    <3> QED BY <1>4, <3>1
  <2>2. IsFiniteSet(below(k)) /\ Cardinality(below(k)) \in Nat /\ Cardinality(below(i)) \in Nat
    BY <1>3
  <2> HIDE DEF below
  <2>3. Cardinality(below(i) \cup {i}) <= Cardinality(below(k))
    BY <2>1, <2>2, FS_Subset
  <2>4. rank[i] = Cardinality(below(i)) + 1 /\ rank[k] = Cardinality(below(k)) + 1
    BY <1>3
  <2>5. Cardinality(below(i) \cup {i}) = Cardinality(below(i)) + 1
    BY <1>3
  <2> QED BY <2>2, <2>3, <2>4, <2>5
<1>5. rank \in [kept -> 1..K]
  <2>1. ASSUME NEW i \in kept PROVE Cardinality(below(i)) + 1 \in 1..K
    <3>1. below(i) \cup {i} \subseteq kept
      OBVIOUS
    <3>2. /\ Cardinality(below(i)) \in Nat
          /\ Cardinality(below(i) \cup {i}) = Cardinality(below(i)) + 1
      BY <1>3
    <3> HIDE DEF below
    <3>3. Cardinality(below(i) \cup {i}) <= K
      BY <1>2, <3>1, FS_Subset
    <3> QED BY <1>2, <3>2, <3>3
  <2> QED BY <2>1
<1>6. ASSUME NEW n \in 1..K, NEW i \in kept, rank[i] = n
      PROVE  f[n] \in kept /\ rank[f[n]] = n
  <2>1. Cardinality(below(i)) = n - 1
    <3>1. Cardinality(below(i)) \in Nat /\ n = Cardinality(below(i)) + 1
      BY <1>3, <1>6
    <3> HIDE DEF below
    <3> QED BY <3>1
  <2>2. at(n) \in kept /\ Cardinality(below(at(n))) = n - 1
    <3> HIDE DEF below
    <3> QED BY <2>1
  <2>3. f[n] = at(n)
    OBVIOUS
  <2>4. rank[at(n)] = (n - 1) + 1
    BY <2>2
  <2>5. n \in Int
    BY <1>2
  <2> HIDE DEF below, at, f, rank
  <2> QED BY <2>2, <2>3, <2>4, <2>5
<1>7. Picked(s, kept) = [n \in 1..K |-> s[f[n]]]
  BY DEF Picked
<1> HIDE DEF rank, f, at, below
<1>8. \A i, k \in kept : rank[i] = rank[k] => i = k
  <2> SUFFICES ASSUME NEW i \in kept, NEW k \in kept, rank[i] = rank[k] PROVE i = k
    OBVIOUS
  <2>1. rank[i] \in Nat /\ rank[k] \in Nat
    BY <1>2, <1>5
  <2>2. ~(i < k) /\ ~(k < i)
    BY <1>4, <2>1
  <2> QED BY <1>1, <2>2
<1>9. \A n \in 1..K : \E i \in kept : rank[i] = n
  <2>1. rank \in Injection(kept, 1..K)
    BY <1>5, <1>8 DEF Injection, IsInjective
  <2>2. IsFiniteSet(1..K) /\ Cardinality(1..K) = K
    BY <1>2, FS_Interval
  <2>3. rank \in Surjection(kept, 1..K)
    BY <2>1, <2>2, FS_Injection
  <2> QED BY <2>3 DEF Surjection
<1>10. \A n \in 1..K : f[n] \in kept /\ rank[f[n]] = n
  BY <1>6, <1>9
<1>11. f \in [1..K -> kept]
  BY <1>10 DEF f
<1>12. \A m, n \in 1..K : m < n => f[m] < f[n]
  <2> SUFFICES ASSUME NEW m \in 1..K, NEW n \in 1..K, m < n PROVE f[m] < f[n]
    OBVIOUS
  <2>1. f[m] \in kept /\ f[n] \in kept /\ rank[f[m]] = m /\ rank[f[n]] = n
    BY <1>10
  <2>2. m \in Int /\ n \in Int /\ f[m] \in Nat /\ f[n] \in Nat
    <3>1. m \in Int /\ n \in Int
      OBVIOUS
    <3> HIDE DEF K
    <3> QED BY <1>1, <2>1, <3>1
  <2>3. f[n] < f[m] => n < m
    BY <1>4, <2>1
  <2>4. f[n] = f[m] => n = m
    BY <2>1
  <2> QED BY <2>2, <2>3, <2>4
<1>13. \A i \in kept : \E n \in 1..K : f[n] = i
  <2> SUFFICES ASSUME NEW i \in kept PROVE \E n \in 1..K : f[n] = i
    OBVIOUS
  <2>1. rank[i] \in 1..K
    BY <1>5
  <2>2. f[rank[i]] = i
    BY <1>8, <1>10, <2>1
  <2> QED BY <2>1, <2>2
<1>14. Picked(s, kept) \in Seq(T) /\ Len(Picked(s, kept)) = K
  <2>1. \A n \in 1..K : s[f[n]] \in T
    BY <1>10, ElementOfSeq
  <2> HIDE DEF K
  <2>2. [n \in 1..K |-> s[f[n]]] \in Seq(T)
    BY <1>2, <2>1, IsASeq
  <2>3. Len([n \in 1..K |-> s[f[n]]]) = K
    BY <1>2
  <2> QED BY <1>7, <2>2, <2>3
<1>15. \A n \in 1..K : Picked(s, kept)[n] = s[f[n]]
  BY <1>7
<1> QED BY <1>2, <1>11, <1>12, <1>13, <1>14, <1>15

LEMMA PickedElements ==
  ASSUME NEW T, NEW s \in Seq(T), NEW kept \in SUBSET (1..Len(s))
  PROVE  LET p == Picked(s, kept) IN
         /\ {p[n] : n \in 1..Len(p)} = {s[i] : i \in kept}
         /\ (\A i, j \in 1..Len(s) : s[i] = s[j] => i = j)
              => \A m, n \in 1..Len(p) : p[m] = p[n] => m = n
<1> DEFINE p == Picked(s, kept)
           K == Cardinality(kept)
<1>1. PICK f \in [1..K -> kept] :
        /\ \A m, n \in 1..K : m < n => f[m] < f[n]
        /\ \A i \in kept : \E n \in 1..K : f[n] = i
        /\ \A n \in 1..K : p[n] = s[f[n]]
  BY PickedAt
<1>2. Len(p) = K /\ K \in Nat
  BY PickedAt
<1> HIDE DEF p, K
<1>3. {p[n] : n \in 1..K} = {s[i] : i \in kept}
  <2>1. \A n \in 1..K : p[n] = s[f[n]] /\ f[n] \in kept
    BY <1>1
  <2>2. \A i \in kept : \E n \in 1..K : p[n] = s[i]
    BY <1>1
  <2>3. ASSUME NEW n \in 1..K PROVE p[n] \in {s[i] : i \in kept}
    BY <2>1
  <2>4. ASSUME NEW i \in kept PROVE s[i] \in {p[n] : n \in 1..K}
    BY <2>2
  <2> QED BY <2>3, <2>4
<1>4. ASSUME NEW m \in 1..K, NEW n \in 1..K, f[m] = f[n] PROVE m = n
  <2>1. m \in Int /\ n \in Int
    BY <1>2
  <2>2. f[m] \in Int
    <3>1. f[m] \in 1..Len(s)
      BY <1>1
    <3> QED BY <3>1, LenProperties
  <2>3. m < n => f[m] < f[n]
    BY <1>1
  <2>4. n < m => f[n] < f[m]
    BY <1>1
  <2>5. ~(m < n) /\ ~(n < m)
    BY <1>4, <2>1, <2>2, <2>3, <2>4
  <2> QED BY <2>1, <2>5
<1>5. ASSUME \A i, j \in 1..Len(s) : s[i] = s[j] => i = j,
             NEW m \in 1..K, NEW n \in 1..K, p[m] = p[n]
      PROVE  m = n
  <2>1. f[m] \in 1..Len(s) /\ f[n] \in 1..Len(s) /\ s[f[m]] = s[f[n]]
    BY <1>1, <1>5
  <2> QED BY <1>4, <1>5, <2>1
<1>6. (\A i, j \in 1..Len(s) : s[i] = s[j] => i = j)
        => \A m, n \in 1..K : p[m] = p[n] => m = n
  BY <1>5
<1> QED BY <1>2, <1>3, <1>6 DEF p

(***************************************************************************)
(* The list as a set of entries.                                           *)
(***************************************************************************)
LEMMA ItemsType ==
  ASSUME NEW evs, List(evs)
  PROVE  /\ Len(evs) \in Nat
         /\ Items(evs) \subseteq Entry
         /\ Addresses(evs) = {e.addr : e \in Items(evs)}
         /\ \A e, f \in Items(evs) : e.addr = f.addr => e = f
<1>1. Len(evs) \in Nat
  BY LenProperties DEF List
<1>2. \A i \in 1..Len(evs) : evs[i] \in Entry
  BY ElementOfSeq DEF List
<1>3. Addresses(evs) = {e.addr : e \in Items(evs)}
  BY DEF Addresses, Items
<1>4. \A e, f \in Items(evs) : e.addr = f.addr => e = f
  BY DEF List, Distinct, Items
<1> QED BY <1>1, <1>2, <1>3, <1>4 DEF Items

\* An entry inserted where it belongs, with an address of its own, keeps the list.
LEMMA Inserted ==
  ASSUME NEW evs, NEW new \in Seq(Entry), NEW e \in Entry, NEW k, List(evs),
         InsertedAt(new, evs, k, e), e.addr \notin Addresses(evs),
         \A i \in 1..(k - 1) : evs[i].due <= e.due,
         k <= Len(evs) => e.due < evs[k].due
  PROVE  List(new) /\ Items(new) = Items(evs) \cup {e}
<1>1. /\ Len(evs) \in Nat /\ k \in 1..(Len(evs) + 1) /\ Len(new) = Len(evs) + 1
      /\ \A i \in 1..Len(new) :
           new[i] = IF i < k THEN evs[i] ELSE IF i = k THEN e ELSE evs[i - 1]
  BY ItemsType DEF InsertedAt
<1>2. \A i \in 1..Len(evs) : evs[i].due \in Int /\ evs[i].addr # e.addr
  <2>1. \A i \in 1..Len(evs) : evs[i] \in Entry
    BY ElementOfSeq DEF List
  <2> QED BY <2>1 DEF Entry, Addresses
<1>3. \A i, j \in 1..Len(evs) : i < j => evs[i].due <= evs[j].due
  BY DEF List, Sorted
<1>4. \A i, j \in 1..Len(evs) : evs[i].addr = evs[j].addr => i = j
  BY DEF List, Distinct
<1>5. e.due \in Int
  BY DEF Entry
<1> DEFINE from(i) == IF i < k THEN i ELSE i - 1
<1>6. /\ new[k] = e
      /\ \A i \in 1..Len(new) : i # k => from(i) \in 1..Len(evs) /\ new[i] = evs[from(i)]
      /\ \A i, j \in 1..Len(new) : i # k /\ j # k /\ from(i) = from(j) => i = j
      /\ \A i, j \in 1..Len(new) : i # k /\ j # k /\ i < j => from(i) < from(j)
      /\ \A i \in 1..Len(new) : i < k => from(i) \in 1..(k - 1)
      /\ \A i \in 1..Len(new) : i > k => from(i) \in k..Len(evs)
  <2>1. new[k] = e
    BY <1>1
  <2>2. \A i \in 1..Len(new) : i # k => from(i) \in 1..Len(evs) /\ new[i] = evs[from(i)]
    BY <1>1
  <2>3. \A i, j \in 1..Len(new) : i # k /\ j # k /\ from(i) = from(j) => i = j
    BY <1>1
  <2>4. \A i, j \in 1..Len(new) : i # k /\ j # k /\ i < j => from(i) < from(j)
    BY <1>1
  <2>5. \A i \in 1..Len(new) : i < k => from(i) \in 1..(k - 1)
    BY <1>1
  <2>6. \A i \in 1..Len(new) : i > k => from(i) \in k..Len(evs)
    BY <1>1
  <2> HIDE DEF from
  <2> QED BY <2>1, <2>2, <2>3, <2>4, <2>5, <2>6
<1> HIDE DEF from
<1>7. \A i \in k..Len(evs) : e.due <= evs[i].due
  <2>1. ASSUME NEW i \in k..Len(evs) PROVE e.due <= evs[i].due
    <3>1. k \in 1..Len(evs) /\ i \in 1..Len(evs) /\ (i = k \/ k < i)
      BY <1>1
    <3>2. evs[k].due <= evs[i].due
      BY <1>2, <1>3, <3>1
    <3> QED BY <1>2, <1>5, <3>1, <3>2
  <2> QED BY <2>1
<1>8. Distinct(new)
  <2> SUFFICES ASSUME NEW i \in 1..Len(new), NEW j \in 1..Len(new),
                      new[i].addr = new[j].addr
               PROVE  i = j
    BY DEF Distinct
  <2>1. CASE i # k /\ j # k
    BY <1>4, <1>6, <2>1
  <2>2. CASE i = k /\ j # k
    BY <1>2, <1>6, <2>2
  <2>3. CASE i # k /\ j = k
    BY <1>2, <1>6, <2>3
  <2> QED BY <2>1, <2>2, <2>3
<1>9. Sorted(new)
  <2> SUFFICES ASSUME NEW i \in 1..Len(new), NEW j \in 1..Len(new), i < j
               PROVE  new[i].due <= new[j].due
    BY DEF Sorted
  <2>1. CASE i # k /\ j # k
    BY <1>3, <1>6, <2>1
  <2>2. CASE i # k /\ j = k
    BY <1>6, <2>2
  <2>3. CASE i = k
    <3>1. j > k /\ j # k
      BY <1>1, <2>3
    <3> QED BY <1>6, <1>7, <2>3, <3>1
  <2> QED BY <2>1, <2>2, <2>3
<1>10. Items(new) = Items(evs) \cup {e}
  <2>1. \A i \in 1..Len(new) : new[i] \in Items(evs) \cup {e}
    <3>1. ASSUME NEW i \in 1..Len(new) PROVE new[i] \in Items(evs) \cup {e}
      <4>1. CASE i = k
        BY <1>6, <4>1
      <4>2. CASE i # k
        BY <1>6, <4>2 DEF Items
      <4> QED BY <4>1, <4>2
    <3> QED BY <3>1
  <2>2. ASSUME NEW i \in 1..Len(evs) PROVE \E j \in 1..Len(new) : new[j] = evs[i]
    <3>1. CASE i < k
      BY <1>1, <3>1
    <3>2. CASE ~(i < k)
      <4>1. i + 1 \in 1..Len(new) /\ ~(i + 1 < k) /\ i + 1 # k /\ i + 1 - 1 = i
        BY <1>1, <3>2
      <4>2. new[i + 1] = evs[i]
        BY <1>1, <4>1
      <4> QED BY <4>1, <4>2
    <3> QED BY <3>1, <3>2
  <2>3. k \in 1..Len(new) /\ new[k] = e
    BY <1>1
  <2> QED BY <2>1, <2>2, <2>3 DEF Items
<1> QED BY <1>8, <1>9, <1>10 DEF List

\* So does a list from which an entry is taken.
LEMMA Removed ==
  ASSUME NEW evs, NEW new \in Seq(Entry), NEW k, List(evs), RemovedAt(new, evs, k)
  PROVE  List(new) /\ Items(new) = Items(evs) \ {evs[k]}
<1>1. /\ Len(evs) \in Nat /\ k \in 1..Len(evs) /\ Len(new) = Len(evs) - 1
      /\ \A i \in 1..Len(new) : new[i] = IF i < k THEN evs[i] ELSE evs[i + 1]
  BY ItemsType DEF RemovedAt
<1>2. \A i, j \in 1..Len(evs) : i < j => evs[i].due <= evs[j].due
  BY DEF List, Sorted
<1>3. \A i, j \in 1..Len(evs) : evs[i].addr = evs[j].addr => i = j
  BY DEF List, Distinct
<1> DEFINE from(i) == IF i < k THEN i ELSE i + 1
<1>4. /\ \A i \in 1..Len(new) :
           from(i) \in 1..Len(evs) /\ from(i) # k /\ new[i] = evs[from(i)]
      /\ \A i, j \in 1..Len(new) : from(i) = from(j) => i = j
      /\ \A i, j \in 1..Len(new) : i < j => from(i) < from(j)
      /\ \A m \in 1..Len(evs) : m # k => \E i \in 1..Len(new) : from(i) = m
  <2>1. ASSUME NEW m \in 1..Len(evs), m # k PROVE \E i \in 1..Len(new) : from(i) = m
    <3>1. CASE m < k
      BY <1>1, <3>1
    <3>2. CASE m > k
      <4>1. m - 1 \in 1..Len(new) /\ from(m - 1) = m
        BY <1>1, <3>2
      <4> QED BY <4>1
    <3> QED BY <1>1, <2>1, <3>1, <3>2
  <2>2. ASSUME NEW i \in 1..Len(new)
        PROVE  from(i) \in 1..Len(evs) /\ from(i) # k /\ new[i] = evs[from(i)]
    BY <1>1
  <2>3. \A i, j \in 1..Len(new) : from(i) = from(j) => i = j
    BY <1>1
  <2>4. \A i, j \in 1..Len(new) : i < j => from(i) < from(j)
    BY <1>1
  <2> HIDE DEF from
  <2> QED BY <2>1, <2>2, <2>3, <2>4
<1> HIDE DEF from
<1>5. Distinct(new)
  BY <1>3, <1>4 DEF Distinct
<1>6. Sorted(new)
  BY <1>2, <1>4 DEF Sorted
<1>7. Items(new) = Items(evs) \ {evs[k]}
  <2>1. \A i \in 1..Len(new) : new[i] \in Items(evs) \ {evs[k]}
    <3>1. ASSUME NEW i \in 1..Len(new) PROVE new[i] # evs[k]
      BY <1>1, <1>3, <1>4
    <3>2. \A i \in 1..Len(new) : new[i] \in Items(evs)
      BY <1>4 DEF Items
    <3> QED BY <3>1, <3>2
  <2>2. \A m \in 1..Len(evs) : evs[m] # evs[k] => \E i \in 1..Len(new) : new[i] = evs[m]
    BY <1>4
  <2> QED BY <2>1, <2>2 DEF Items
<1> QED BY <1>5, <1>6, <1>7 DEF List

LEMMA ScheduledList ==
  ASSUME NEW evs, List(evs), NEW a \in Addrs, a \notin Addresses(evs),
         NEW c \in Clients, NEW d \in Int
  PROVE  /\ List(Scheduled(evs, a, c, d))
         /\ Items(Scheduled(evs, a, c, d))
              = Items(evs) \cup {[addr |-> a, cb |-> c, due |-> d]}
<1> DEFINE new == Scheduled(evs, a, c, d)
           e   == [addr |-> a, cb |-> c, due |-> d]
<1>1. evs \in Seq(Entry)
  BY DEF List
<1>2. /\ new \in Seq(Entry)
      /\ \E k \in 1..(Len(evs) + 1) :
           /\ InsertedAt(new, evs, k, e)
           /\ \A i \in 1..(k - 1) : evs[i].due <= d
           /\ k <= Len(evs) => d < evs[k].due
  BY <1>1, ScheduledAt
<1>3. e \in Entry /\ e.addr = a /\ e.due = d
  BY DEF Entry
<1> HIDE DEF new, e
<1>4. PICK k \in 1..(Len(evs) + 1) :
        /\ InsertedAt(new, evs, k, e)
        /\ \A i \in 1..(k - 1) : evs[i].due <= e.due
        /\ k <= Len(evs) => e.due < evs[k].due
  BY <1>2, <1>3
<1>5. List(new) /\ Items(new) = Items(evs) \cup {e}
  BY <1>2, <1>3, <1>4, Inserted
<1> QED BY <1>5 DEF new, e

LEMMA DroppedList ==
  ASSUME NEW evs, List(evs), NEW a \in Addresses(evs)
  PROVE  /\ List(Dropped(evs, a))
         /\ Items(Dropped(evs, a)) = {e \in Items(evs) : e.addr # a}
<1>1. /\ Dropped(evs, a) \in Seq(Entry)
      /\ \E k \in 1..Len(evs) : evs[k].addr = a /\ RemovedAt(Dropped(evs, a), evs, k)
  BY DroppedAt DEF List
<1>2. PICK k \in 1..Len(evs) : evs[k].addr = a /\ RemovedAt(Dropped(evs, a), evs, k)
  BY <1>1
<1>3. List(Dropped(evs, a)) /\ Items(Dropped(evs, a)) = Items(evs) \ {evs[k]}
  BY <1>1, <1>2, Removed
<1>4. evs[k] \in Items(evs) /\ \A e \in Items(evs) : e.addr = a => e = evs[k]
  BY <1>2, ItemsType DEF Items
<1> QED BY <1>2, <1>3, <1>4

LEMMA WithoutList ==
  ASSUME NEW evs, List(evs), NEW gone
  PROVE  /\ List(Without(evs, gone))
         /\ Items(Without(evs, gone)) = {e \in Items(evs) : e.addr \notin gone}
<1> DEFINE kept == {i \in 1..Len(evs) : evs[i].addr \notin gone}
           new  == Picked(evs, kept)
           K    == Cardinality(kept)
<1>1. evs \in Seq(Entry) /\ kept \in SUBSET (1..Len(evs)) /\ Without(evs, gone) = new
  BY DEF List, Without
<1>2. Items(new) = {e \in Items(evs) : e.addr \notin gone}
  <2>1. Items(new) = {evs[i] : i \in kept}
    <3> HIDE DEF kept
    <3> QED BY <1>1, PickedElements DEF Items
  <2> QED BY <2>1 DEF Items
<1>3. \A i \in kept : i \in 1..Len(evs)
  OBVIOUS
<1> HIDE DEF kept
<1>4. new \in Seq(Entry) /\ Len(new) = K /\ K \in Nat
  BY <1>1, PickedAt
<1>5. PICK f \in [1..K -> kept] :
        /\ \A m, n \in 1..K : m < n => f[m] < f[n]
        /\ \A n \in 1..K : new[n] = evs[f[n]]
  BY <1>1, PickedAt
<1> HIDE DEF new, K
<1>6. ASSUME NEW m \in 1..K, NEW n \in 1..K, m < n
      PROVE  new[m].addr # new[n].addr /\ new[m].due <= new[n].due
  <2>1. /\ f[m] \in 1..Len(evs) /\ f[n] \in 1..Len(evs) /\ f[m] < f[n]
        /\ new[m] = evs[f[m]] /\ new[n] = evs[f[n]]
    BY <1>3, <1>5, <1>6
  <2>2. f[m] # f[n]
    BY <2>1, ItemsType
  <2> QED BY <2>1, <2>2 DEF List, Distinct, Sorted
<1>7. Distinct(new)
  BY <1>4, <1>6 DEF Distinct
<1>8. Sorted(new)
  BY <1>4, <1>6 DEF Sorted
<1> QED BY <1>1, <1>2, <1>4, <1>7, <1>8 DEF List

(***************************************************************************)
(* The list and the static variables.  x is the address of the entry whose *)
(* callback has run and that is still to be freed, Null if there is none:  *)
(* the static variables have forgotten that one already.                   *)
(***************************************************************************)
HandleSound(evs, h, x) ==
  \A c \in Held :
    h[c] # Null => h[c] # x /\ \E e \in Items(evs) : e.addr = h[c] /\ e.cb = c

HandleKnows(evs, h, x) ==
  \A e \in Items(evs) : e.cb \in Held /\ e.addr # x => h[e.cb] = e.addr

Anchored(evs, h, x) ==
  /\ List(evs)
  /\ h \in [Held -> Addrs \cup {Null}]
  /\ x \in Addresses(evs) \cup {Null}
  /\ HandleSound(evs, h, x)

\* No entry of a client with a static variable is left behind either.
Linked(evs, h, x) ==
  /\ List(evs)
  /\ h \in [Held -> Addrs \cup {Null}]
  /\ x \in Addresses(evs) \cup {Null}
  /\ HandleSound(evs, h, x)
  /\ HandleKnows(evs, h, x)

LEMMA LinkedIs ==
  ASSUME NEW evs, NEW h, NEW x
  PROVE  Linked(evs, h, x) <=> Anchored(evs, h, x) /\ HandleKnows(evs, h, x)
BY DEF Linked, Anchored

Remember(h, c, a) == IF c \in Held THEN [h EXCEPT ![c] = a] ELSE h

\* A client without an entry gets one, or none if malloc fails.
LEMMA ScheduledAnchored ==
  ASSUME NEW evs, NEW h, NEW x, Anchored(evs, h, x), NEW c \in Clients, NEW d \in Int,
         c \in Held => h[c] = Null, NEW a \in Allocs(evs)
  PROVE  /\ Anchored(Scheduled(evs, a, c, d), Remember(h, c, a), x)
         /\ Addresses(evs) \subseteq Addresses(Scheduled(evs, a, c, d))
         /\ Addresses(Scheduled(evs, a, c, d)) \subseteq Addresses(evs) \cup {a}
         /\ \A e \in Items(Scheduled(evs, a, c, d)) :
              e \in Items(evs) \/ (e.addr = a /\ e.cb = c /\ e.due = d)
<1> DEFINE new == Scheduled(evs, a, c, d)
           g   == Remember(h, c, a)
           e   == [addr |-> a, cb |-> c, due |-> d]
<1>1. Anchored(evs, h, x) /\ h \in [Held -> Addrs \cup {Null}]
  BY DEF Anchored
<1>2. CASE a = Null
  <2>1. new = evs
    BY <1>2 DEF Scheduled
  <2>2. g = h
    BY <1>1, <1>2 DEF Remember
  <2> QED BY <1>1, <2>1, <2>2
<1>3. CASE a # Null
  <2>1. a \in Addrs /\ a \notin Addresses(evs)
    BY <1>3 DEF Allocs
  <2>2. List(new) /\ Items(new) = Items(evs) \cup {e}
    BY <1>1, <2>1, ScheduledList DEF Anchored
  <2>3. e.addr = a /\ e.cb = c /\ e.due = d
    OBVIOUS
  <2>4. /\ g \in [Held -> Addrs \cup {Null}]
        /\ c \in Held => g[c] = a
        /\ \A b \in Held \ {c} : g[b] = h[b]
    BY <1>1, <2>1 DEF Remember
  <2> HIDE DEF new, g, e
  <2>5. /\ Addresses(evs) = {f.addr : f \in Items(evs)}
        /\ Addresses(new) = {f.addr : f \in Items(new)}
    BY <1>1, <2>2, ItemsType DEF Anchored
  <2>6. Addresses(evs) \subseteq Addresses(new) /\ Addresses(new) \subseteq Addresses(evs) \cup {a}
    BY <2>2, <2>3, <2>5
  <2>7. x \in Addresses(new) \cup {Null} /\ x # a
    BY <1>1, <1>3, <2>1, <2>6 DEF Anchored
  <2>8. HandleSound(new, g, x)
    BY <1>1, <2>2, <2>3, <2>4, <2>7 DEF Anchored, HandleSound
  <2> QED BY <2>2, <2>3, <2>4, <2>6, <2>7, <2>8 DEF Anchored, new, g
<1> QED BY <1>2, <1>3

LEMMA ScheduledLinked ==
  ASSUME NEW evs, NEW h, NEW x, Linked(evs, h, x), NEW c \in Clients, NEW d \in Int,
         c \in Held => h[c] = Null, NEW a \in Allocs(evs)
  PROVE  /\ Linked(Scheduled(evs, a, c, d), Remember(h, c, a), x)
         /\ Addresses(evs) \subseteq Addresses(Scheduled(evs, a, c, d))
         /\ Addresses(Scheduled(evs, a, c, d)) \subseteq Addresses(evs) \cup {a}
         /\ \A e \in Items(Scheduled(evs, a, c, d)) :
              e \in Items(evs) \/ (e.addr = a /\ e.cb = c /\ e.due = d)
<1> DEFINE new == Scheduled(evs, a, c, d)
           g   == Remember(h, c, a)
<1>1. Anchored(evs, h, x) /\ HandleKnows(evs, h, x) /\ h \in [Held -> Addrs \cup {Null}]
  BY DEF Linked, Anchored
<1>2. /\ Anchored(new, g, x)
      /\ Addresses(evs) \subseteq Addresses(new) /\ Addresses(new) \subseteq Addresses(evs) \cup {a}
      /\ \A e \in Items(new) :
           e \in Items(evs) \/ (e.addr = a /\ e.cb = c /\ e.due = d)
  BY <1>1, ScheduledAnchored
<1>3. /\ c \in Held => g[c] = a
      /\ \A b \in Held \ {c} : g[b] = h[b]
  BY <1>1 DEF Remember
<1> HIDE DEF new, g
<1>4. HandleKnows(new, g, x)
  <2> SUFFICES ASSUME NEW f \in Items(new), f.cb \in Held, f.addr # x
               PROVE  g[f.cb] = f.addr
    BY DEF HandleKnows
  <2>1. CASE f.addr = a /\ f.cb = c
    BY <1>3, <2>1
  <2>2. CASE f \in Items(evs)
    <3>1. h[f.cb] = f.addr
      BY <1>1, <2>2 DEF HandleKnows
    <3>2. f.addr # Null
      BY <2>2, ItemsType, SchedulerAssumption DEF Linked, Entry
    <3> QED BY <1>3, <3>1, <3>2
  <2> QED BY <1>2, <2>1, <2>2
<1>5. Linked(new, g, x)
  BY <1>2, <1>4, LinkedIs
<1> QED BY <1>2, <1>5 DEF new, g

\* What is cancelled is the entry of the client, and nothing else is lost.
LEMMA CancelledAnchored ==
  ASSUME NEW evs, NEW h, NEW x, Anchored(evs, h, x), NEW c \in Held
  PROVE  LET left == IF h[c] = Null THEN evs ELSE Dropped(evs, h[c])
         IN  /\ Anchored(left, [h EXCEPT ![c] = Null], x)
             /\ \A e \in Items(left) : e \in Items(evs) /\ e.addr # h[c]
<1> DEFINE left == IF h[c] = Null THEN evs ELSE Dropped(evs, h[c])
           g    == [h EXCEPT ![c] = Null]
<1> SUFFICES Anchored(left, g, x) /\ \A e \in Items(left) : e \in Items(evs) /\ e.addr # h[c]
  OBVIOUS
<1>1. List(evs) /\ h \in [Held -> Addrs \cup {Null}]
  BY DEF Anchored
<1>2. /\ g \in [Held -> Addrs \cup {Null}]
      /\ g[c] = Null /\ \A b \in Held \ {c} : g[b] = h[b]
  BY <1>1
<1>3. CASE h[c] = Null
  <2>1. g = h /\ left = evs
    BY <1>1, <1>3
  <2>2. \A e \in Items(left) : e.addr # h[c]
    BY <1>1, <1>3, <2>1, ItemsType, SchedulerAssumption DEF Entry
  <2> QED BY <2>1, <2>2
<1>4. CASE h[c] # Null
  <2>1. PICK e \in Items(evs) : e.addr = h[c] /\ e.cb = c
    BY <1>4 DEF Anchored, HandleSound
  <2>2. /\ Addresses(evs) = {f.addr : f \in Items(evs)}
        /\ \A f \in Items(evs) : f.addr = h[c] => f.cb = c
    BY <1>1, <2>1, ItemsType
  <2>3. List(left) /\ Items(left) = {f \in Items(evs) : f.addr # h[c]}
    BY <1>1, <1>4, <2>1, <2>2, DroppedList
  <2> HIDE DEF left, g
  <2>4. HandleSound(left, g, x)
    <3> SUFFICES ASSUME NEW b \in Held, g[b] # Null
                 PROVE  g[b] # x /\ \E f \in Items(left) : f.addr = g[b] /\ f.cb = b
      BY DEF HandleSound
    <3>1. b # c /\ g[b] = h[b]
      BY <1>2
    <3>2. PICK f \in Items(evs) : f.addr = h[b] /\ f.cb = b
      BY <3>1 DEF Anchored, HandleSound
    <3>3. f.addr # h[c]
      BY <2>2, <3>1, <3>2
    <3>4. h[b] # x
      BY <3>1 DEF Anchored, HandleSound
    <3> QED BY <2>3, <3>1, <3>2, <3>3, <3>4
  <2>6. x \in Addresses(left) \cup {Null}
    <3>1. x # h[c]
      BY <1>4 DEF Anchored, HandleSound
    <3>2. Addresses(left) = {f.addr : f \in Items(left)}
      BY <2>3, ItemsType
    <3> QED BY <2>2, <2>3, <3>1, <3>2 DEF Anchored
  <2> QED BY <1>2, <2>3, <2>4, <2>6 DEF Anchored
<1> HIDE DEF left, g
<1> QED BY <1>3, <1>4

LEMMA CancelledLinked ==
  ASSUME NEW evs, NEW h, NEW x, Linked(evs, h, x), NEW c \in Held
  PROVE  LET left == IF h[c] = Null THEN evs ELSE Dropped(evs, h[c])
         IN  Linked(left, [h EXCEPT ![c] = Null], x) /\ Items(left) \subseteq Items(evs)
<1> DEFINE left == IF h[c] = Null THEN evs ELSE Dropped(evs, h[c])
           g    == [h EXCEPT ![c] = Null]
<1>1. Anchored(evs, h, x) /\ HandleKnows(evs, h, x) /\ h \in [Held -> Addrs \cup {Null}]
  BY DEF Linked, Anchored
<1>2. Anchored(left, g, x) /\ \A e \in Items(left) : e \in Items(evs) /\ e.addr # h[c]
  BY <1>1, CancelledAnchored
<1>3. \A b \in Held \ {c} : g[b] = h[b]
  BY <1>1
<1> HIDE DEF left, g
<1>4. HandleKnows(left, g, x)
  BY <1>1, <1>2, <1>3 DEF HandleKnows
<1>5. Linked(left, g, x)
  BY <1>2, <1>4, LinkedIs
<1> QED BY <1>2, <1>5 DEF left, g

\* The entries of several clients; the static variables without them, and with a
\* new entry for one of them.
EntriesOfAll(h, cs) == {h[c] : c \in cs}
Forget(h, cs)       == [c \in Held |-> IF c \in cs THEN Null ELSE h[c]]
Replace(h, cs, c, a) ==
  [b \in Held |-> IF b = c THEN a ELSE IF b \in cs THEN Null ELSE h[b]]

\* Several clients are cancelled at once.
LEMMA WithoutAnchored ==
  ASSUME NEW evs, NEW h, NEW x, Anchored(evs, h, x), NEW cs \in SUBSET Held
  PROVE  /\ Anchored(Without(evs, EntriesOfAll(h, cs)), Forget(h, cs), x)
         /\ \A e \in Items(Without(evs, EntriesOfAll(h, cs))) :
              e \in Items(evs) /\ \A c \in cs : e.addr # h[c]
<1> DEFINE gone == {h[c] : c \in cs}
           left == Without(evs, gone)
           g    == [c \in Held |-> IF c \in cs THEN Null ELSE h[c]]
<1> SUFFICES /\ Anchored(left, g, x)
             /\ \A e \in Items(left) : e \in Items(evs) /\ \A c \in cs : e.addr # h[c]
  BY DEF EntriesOfAll, Forget
<1>1. List(evs) /\ h \in [Held -> Addrs \cup {Null}]
  BY DEF Anchored
<1>2. List(left) /\ Items(left) = {e \in Items(evs) : e.addr \notin gone}
  BY <1>1, WithoutList
<1>3. /\ g \in [Held -> Addrs \cup {Null}]
      /\ \A c \in cs : g[c] = Null /\ h[c] \in gone
      /\ \A c \in Held \ cs : g[c] = h[c]
      /\ \A a \in gone : \E c \in cs : h[c] = a
  BY <1>1
<1> HIDE DEF gone, left, g
<1>4. /\ Addresses(evs) = {f.addr : f \in Items(evs)}
      /\ Addresses(left) = {f.addr : f \in Items(left)}
      /\ \A e, f \in Items(evs) : e.addr = f.addr => e = f
  BY <1>1, <1>2, ItemsType
<1>5. x \in Addresses(left) \cup {Null}
  <2>1. x # Null => x \notin gone
    BY <1>3 DEF Anchored, HandleSound
  <2> QED BY <1>2, <1>4, <2>1 DEF Anchored
<1>6. HandleSound(left, g, x)
  <2> SUFFICES ASSUME NEW b \in Held, g[b] # Null
               PROVE  g[b] # x /\ \E f \in Items(left) : f.addr = g[b] /\ f.cb = b
    BY DEF HandleSound
  <2>1. b \notin cs /\ g[b] = h[b]
    BY <1>3
  <2>2. h[b] # x
    BY <2>1 DEF Anchored, HandleSound
  <2>3. PICK e \in Items(evs) : e.addr = h[b] /\ e.cb = b
    BY <2>1 DEF Anchored, HandleSound
  <2>4. e.addr \notin gone
    <3> SUFFICES ASSUME NEW c \in cs, h[c] = e.addr PROVE FALSE
      BY <1>3
    <3>1. \E f \in Items(evs) : f.addr = h[c] /\ f.cb = c
      BY <2>1, <2>3 DEF Anchored, HandleSound
    <3> QED BY <1>4, <2>1, <2>3, <3>1
  <2> QED BY <1>2, <2>1, <2>2, <2>3, <2>4
<1>8. \A e \in Items(left) : e \in Items(evs) /\ \A c \in cs : e.addr # h[c]
  BY <1>2, <1>3
<1> QED BY <1>2, <1>3, <1>5, <1>6, <1>8 DEF Anchored

LEMMA WithoutLinked ==
  ASSUME NEW evs, NEW h, NEW x, Linked(evs, h, x), NEW cs \in SUBSET Held
  PROVE  /\ Linked(Without(evs, EntriesOfAll(h, cs)), Forget(h, cs), x)
         /\ Items(Without(evs, EntriesOfAll(h, cs))) \subseteq Items(evs)
<1> DEFINE left == Without(evs, EntriesOfAll(h, cs))
           g    == Forget(h, cs)
<1>1. Anchored(evs, h, x) /\ HandleKnows(evs, h, x)
  BY DEF Linked, Anchored
<1>2. /\ Anchored(left, g, x)
      /\ \A e \in Items(left) : e \in Items(evs) /\ \A c \in cs : e.addr # h[c]
  BY <1>1, WithoutAnchored
<1>3. \A b \in Held \ cs : g[b] = h[b]
  BY DEF Forget
<1> HIDE DEF left, g
<1>4. HandleKnows(left, g, x)
  BY <1>1, <1>2, <1>3 DEF HandleKnows
<1>5. Linked(left, g, x)
  BY <1>2, <1>4, LinkedIs
<1> QED BY <1>2, <1>5 DEF left, g

\* A new entry replaces the one its client has, and cancels others.
LEMMA ReplacedAnchored ==
  ASSUME NEW evs, NEW h, NEW x, Anchored(evs, h, x), NEW cs \in SUBSET Held, NEW c \in cs,
         NEW d \in Int, NEW a \in Allocs(evs), a # Null
  PROVE  LET new == Without(Scheduled(evs, a, c, d), EntriesOfAll(h, cs))
         IN  /\ Anchored(new, Replace(h, cs, c, a), x)
             /\ \A e \in Items(new) :
                  \/ e = [addr |-> a, cb |-> c, due |-> d]
                  \/ e \in Items(evs) /\ \A b \in cs : e.addr # h[b]
<1> DEFINE gone == {h[b] : b \in cs}
           more == Scheduled(evs, a, c, d)
           new  == Without(more, gone)
           n    == [addr |-> a, cb |-> c, due |-> d]
           g    == [b \in Held |-> IF b = c THEN a ELSE IF b \in cs THEN Null ELSE h[b]]
<1> SUFFICES /\ Anchored(new, g, x)
             /\ \A e \in Items(new) : e = n \/ (e \in Items(evs) /\ \A b \in cs : e.addr # h[b])
  BY DEF EntriesOfAll, Replace
<1>1. /\ List(evs) /\ h \in [Held -> Addrs \cup {Null}]
      /\ a \in Addrs /\ a \notin Addresses(evs) /\ c \in Clients
  BY SchedulerAssumption DEF Anchored, Allocs
<1>2. List(more) /\ Items(more) = Items(evs) \cup {n}
  BY <1>1, ScheduledList
<1>3. List(new) /\ Items(new) = {e \in Items(evs) \cup {n} : e.addr \notin gone}
  <2> HIDE DEF more, n
  <2> QED BY <1>2, WithoutList
<1>4. /\ g \in [Held -> Addrs \cup {Null}] /\ g[c] = a
      /\ \A b \in cs \ {c} : g[b] = Null
      /\ \A b \in Held \ cs : g[b] = h[b]
      /\ \A b \in cs : h[b] \in gone
      /\ \A z \in gone : \E b \in cs : h[b] = z
      /\ n.addr = a /\ n.cb = c
  BY <1>1
<1> HIDE DEF gone, more, new, n, g
<1>5. /\ Addresses(evs) = {f.addr : f \in Items(evs)}
      /\ Addresses(new) = {f.addr : f \in Items(new)}
      /\ \A e, f \in Items(evs) : e.addr = f.addr => e = f
  BY <1>1, <1>3, ItemsType
<1>6. a \notin gone
  <2> SUFFICES ASSUME NEW b \in cs, h[b] = a PROVE FALSE
    BY <1>4
  <2>1. \E f \in Items(evs) : f.addr = a
    BY DEF Anchored, HandleSound
  <2> QED BY <1>1, <1>5, <2>1
<1>7. x \in Addresses(new) \cup {Null} /\ x # a
  <2>1. x # Null => x \notin gone
    BY <1>4 DEF Anchored, HandleSound
  <2> QED BY <1>1, <1>3, <1>5, <2>1 DEF Anchored
<1>8. HandleSound(new, g, x)
  <2> SUFFICES ASSUME NEW b \in Held, g[b] # Null
               PROVE  g[b] # x /\ \E f \in Items(new) : f.addr = g[b] /\ f.cb = b
    BY DEF HandleSound
  <2>1. CASE b = c
    BY <1>3, <1>4, <1>6, <1>7, <2>1
  <2>2. CASE b # c
    <3>1. b \notin cs /\ g[b] = h[b]
      BY <1>4, <2>2
    <3>2. h[b] # x
      BY <3>1 DEF Anchored, HandleSound
    <3>3. PICK e \in Items(evs) : e.addr = h[b] /\ e.cb = b
      BY <3>1 DEF Anchored, HandleSound
    <3>4. e.addr \notin gone
      <4> SUFFICES ASSUME NEW k \in cs, h[k] = e.addr PROVE FALSE
        BY <1>4
      <4>1. \E f \in Items(evs) : f.addr = h[k] /\ f.cb = k
        BY <3>1, <3>3 DEF Anchored, HandleSound
      <4> QED BY <1>5, <3>1, <3>3, <4>1
    <3> QED BY <1>3, <3>1, <3>2, <3>3, <3>4
  <2> QED BY <2>1, <2>2
<1>10. \A e \in Items(new) : e = n \/ (e \in Items(evs) /\ \A b \in cs : e.addr # h[b])
  BY <1>3, <1>4
<1> QED BY <1>3, <1>4, <1>7, <1>8, <1>10 DEF Anchored

LEMMA ReplacedLinked ==
  ASSUME NEW evs, NEW h, NEW x, Linked(evs, h, x), NEW cs \in SUBSET Held, NEW c \in cs,
         NEW d \in Int, NEW a \in Allocs(evs), a # Null
  PROVE  LET new == Without(Scheduled(evs, a, c, d), EntriesOfAll(h, cs))
         IN  /\ Linked(new, Replace(h, cs, c, a), x)
             /\ Items(new) \subseteq Items(evs) \cup {[addr |-> a, cb |-> c, due |-> d]}
<1> DEFINE new == Without(Scheduled(evs, a, c, d), EntriesOfAll(h, cs))
           n   == [addr |-> a, cb |-> c, due |-> d]
           g   == Replace(h, cs, c, a)
<1>1. Anchored(evs, h, x) /\ HandleKnows(evs, h, x)
  BY DEF Linked, Anchored
<1>2. /\ Anchored(new, g, x)
      /\ \A e \in Items(new) : e = n \/ (e \in Items(evs) /\ \A b \in cs : e.addr # h[b])
  BY <1>1, ReplacedAnchored
<1>3. /\ c \in Held => g[c] = a
      /\ \A b \in Held \ cs : g[b] = h[b]
      /\ n.addr = a /\ n.cb = c
  BY DEF Replace
<1> HIDE DEF new, n, g
<1>4. HandleKnows(new, g, x)
  BY <1>1, <1>2, <1>3 DEF HandleKnows
<1>5. Linked(new, g, x)
  BY <1>2, <1>4, LinkedIs
<1> QED BY <1>2, <1>5 DEF new, n, g

\* A callback begins: its static variable forgets the entry that the walk will free,
\* or another one, if the entry is not the one it remembers.
LEMMA BegunAnchored ==
  ASSUME NEW evs, NEW h, Anchored(evs, h, Null), NEW e \in Items(evs)
  PROVE  Anchored(evs, Remember(h, e.cb, Null), e.addr)
<1> DEFINE g == Remember(h, e.cb, Null)
           c == e.cb
<1>1. List(evs) /\ h \in [Held -> Addrs \cup {Null}]
  BY DEF Anchored
<1>2. /\ Addresses(evs) = {f.addr : f \in Items(evs)}
      /\ \A f \in Items(evs) : f.addr = e.addr => f = e
      /\ e.addr # Null
  BY <1>1, ItemsType, SchedulerAssumption DEF Entry
<1>3. /\ g \in [Held -> Addrs \cup {Null}]
      /\ c \in Held => g[c] = Null
      /\ \A b \in Held \ {c} : g[b] = h[b]
  BY <1>1 DEF Remember
<1> HIDE DEF g
<1>4. HandleSound(evs, g, e.addr)
  <2> SUFFICES ASSUME NEW b \in Held, g[b] # Null
               PROVE  g[b] # e.addr /\ \E f \in Items(evs) : f.addr = g[b] /\ f.cb = b
    BY DEF HandleSound
  <2>1. b # c /\ g[b] = h[b]
    BY <1>3
  <2>2. PICK f \in Items(evs) : f.addr = h[b] /\ f.cb = b
    BY <2>1 DEF Anchored, HandleSound
  <2> QED BY <1>2, <2>1, <2>2
<1>6. e.addr \in Addresses(evs)
  BY <1>2
<1>7. Anchored(evs, g, e.addr)
  BY <1>1, <1>3, <1>4, <1>6 DEF Anchored
<1> QED BY <1>7 DEF g

LEMMA BegunLinked ==
  ASSUME NEW evs, NEW h, Linked(evs, h, Null), NEW e \in Items(evs)
  PROVE  Linked(evs, Remember(h, e.cb, Null), e.addr)
<1> DEFINE g == Remember(h, e.cb, Null)
           c == e.cb
<1>1. /\ List(evs) /\ h \in [Held -> Addrs \cup {Null}]
      /\ Anchored(evs, h, Null) /\ HandleKnows(evs, h, Null)
  BY DEF Linked, Anchored
<1>2. Anchored(evs, g, e.addr)
  BY <1>1, BegunAnchored
<1>3. \A b \in Held \ {c} : g[b] = h[b]
  BY <1>1 DEF Remember
<1> HIDE DEF g
<1>4. HandleKnows(evs, g, e.addr)
  <2> SUFFICES ASSUME NEW f \in Items(evs), f.cb \in Held, f.addr # e.addr
               PROVE  g[f.cb] = f.addr
    BY DEF HandleKnows
  <2>1. h[f.cb] = f.addr
    BY <1>1, ItemsType, SchedulerAssumption DEF HandleKnows, Entry
  <2>2. f.cb # c
    <3>1. SUFFICES ASSUME f.cb = c PROVE FALSE
      OBVIOUS
    <3>2. h[c] = e.addr
      BY <1>1, <3>1, ItemsType, SchedulerAssumption DEF HandleKnows, Entry
    <3> QED BY <2>1, <3>1, <3>2
  <2> QED BY <1>3, <2>1, <2>2
<1>5. Linked(evs, g, e.addr)
  BY <1>2, <1>4, LinkedIs
<1> QED BY <1>5 DEF g

\* The entry whose callback has run is freed.
LEMMA ReleasedAnchored ==
  ASSUME NEW evs, NEW h, NEW x, Anchored(evs, h, x), x \in Addresses(evs)
  PROVE  /\ Anchored(Dropped(evs, x), h, Null)
         /\ Addresses(Dropped(evs, x)) = Addresses(evs) \ {x}
         /\ Items(Dropped(evs, x)) = {e \in Items(evs) : e.addr # x}
<1> DEFINE left == Dropped(evs, x)
<1>1. List(evs) /\ h \in [Held -> Addrs \cup {Null}]
  BY DEF Anchored
<1>2. List(left) /\ Items(left) = {e \in Items(evs) : e.addr # x}
  BY <1>1, DroppedList
<1> HIDE DEF left
<1>3. /\ Addresses(evs) = {f.addr : f \in Items(evs)}
      /\ Addresses(left) = {f.addr : f \in Items(left)}
  BY <1>1, <1>2, ItemsType
<1>4. Addresses(left) = Addresses(evs) \ {x}
  BY <1>2, <1>3
<1>5. HandleSound(left, h, Null)
  BY <1>2 DEF Anchored, HandleSound
<1>7. Anchored(left, h, Null)
  BY <1>1, <1>2, <1>5 DEF Anchored
<1> QED BY <1>2, <1>4, <1>7 DEF left

LEMMA ReleasedLinked ==
  ASSUME NEW evs, NEW h, NEW x, Linked(evs, h, x), x \in Addresses(evs)
  PROVE  /\ Linked(Dropped(evs, x), h, Null)
         /\ Addresses(Dropped(evs, x)) = Addresses(evs) \ {x}
<1> DEFINE left == Dropped(evs, x)
<1>1. Anchored(evs, h, x) /\ HandleKnows(evs, h, x)
  BY DEF Linked, Anchored
<1>2. /\ Anchored(left, h, Null) /\ Addresses(left) = Addresses(evs) \ {x}
      /\ Items(left) = {e \in Items(evs) : e.addr # x}
  BY <1>1, ReleasedAnchored
<1> HIDE DEF left
<1>3. HandleKnows(left, h, Null)
  BY <1>1, <1>2 DEF HandleKnows
<1>4. Linked(left, h, Null)
  BY <1>2, <1>3, LinkedIs
<1> QED BY <1>2, <1>4 DEF left

\* Time passes for every entry alike.
Aged(evs) == [i \in 1..Len(evs) |-> [evs[i] EXCEPT !.due = Nearer(@)]]

LEMMA NearerType ==
  /\ \A n \in Int : Nearer(n) \in Int
  /\ \A m, n \in Int : m <= n => Nearer(m) <= Nearer(n)
BY SchedulerAssumption DEF Nearer

LEMMA AgedAt ==
  ASSUME NEW evs \in Seq(Entry)
  PROVE  /\ Aged(evs) \in Seq(Entry) /\ Len(Aged(evs)) = Len(evs)
         /\ \A i \in 1..Len(evs) :
              /\ Aged(evs)[i].addr = evs[i].addr /\ Aged(evs)[i].cb = evs[i].cb
              /\ Aged(evs)[i].due = Nearer(evs[i].due)
<1> DEFINE new == Aged(evs)
<1>1. Len(evs) \in Nat
  BY LenProperties
<1>2. \A i \in 1..Len(evs) : evs[i] \in Entry
  BY ElementOfSeq
<1>3. Len(new) = Len(evs)
  BY <1>1 DEF Aged
<1>4. ASSUME NEW i \in 1..Len(evs)
      PROVE  /\ new[i] \in Entry /\ new[i] = [evs[i] EXCEPT !.due = Nearer(@)]
             /\ new[i].addr = evs[i].addr /\ new[i].cb = evs[i].cb
             /\ new[i].due = Nearer(evs[i].due)
  <2> DEFINE e == evs[i]
             n == Nearer(e.due)
  <2>1. e \in Entry /\ n \in Int
    BY <1>2, NearerType DEF Entry
  <2>2. new[i] = [e EXCEPT !.due = n]
    BY DEF Aged
  <2> HIDE DEF e, n, new
  <2>3. new[i] \in Entry /\ new[i].addr = e.addr /\ new[i].cb = e.cb /\ new[i].due = n
    BY <2>1, <2>2 DEF Entry
  <2> QED BY <2>2, <2>3 DEF e, n
<1>5. new \in Seq(Entry)
  <2>1. \A i \in 1..Len(evs) : [evs[i] EXCEPT !.due = Nearer(@)] \in Entry
    BY <1>4
  <2>2. [i \in 1..Len(evs) |-> [evs[i] EXCEPT !.due = Nearer(@)]] \in Seq(Entry)
    BY <1>1, <2>1, IsASeq
  <2> QED BY <2>2 DEF Aged
<1> QED BY <1>3, <1>4, <1>5

LEMMA TickedAnchored ==
  ASSUME NEW evs, NEW h, NEW x, Anchored(evs, h, x)
  PROVE  /\ Anchored(Aged(evs), h, x) /\ Addresses(Aged(evs)) = Addresses(evs)
         /\ \A e \in Items(Aged(evs)) :
              \E f \in Items(evs) : e.addr = f.addr /\ e.cb = f.cb
<1> DEFINE new == Aged(evs)
<1>1. /\ List(evs) /\ Len(evs) \in Nat
      /\ h \in [Held -> Addrs \cup {Null}] /\ x \in Addresses(evs) \cup {Null}
  BY ItemsType DEF Anchored
<1>2. /\ new \in Seq(Entry) /\ Len(new) = Len(evs)
      /\ \A i \in 1..Len(evs) :
           /\ new[i].addr = evs[i].addr /\ new[i].cb = evs[i].cb
           /\ new[i].due = Nearer(evs[i].due)
  BY <1>1, AgedAt DEF List
<1> HIDE DEF new
<1>3. Distinct(new)
  BY <1>1, <1>2 DEF List, Distinct
<1>4. Sorted(new)
  <2>1. \A i \in 1..Len(evs) : evs[i] \in Entry
    BY <1>1, ElementOfSeq DEF List
  <2>2. \A i \in 1..Len(evs) : evs[i].due \in Int
    BY <2>1 DEF Entry
  <2> QED BY <1>1, <1>2, <2>2, NearerType DEF List, Sorted
<1>5. Addresses(new) = Addresses(evs)
  BY <1>2 DEF Addresses
<1>6. HandleSound(new, h, x)
  <2> SUFFICES ASSUME NEW c \in Held, h[c] # Null
               PROVE  h[c] # x /\ \E e \in Items(new) : e.addr = h[c] /\ e.cb = c
    BY DEF HandleSound
  <2>1. h[c] # x /\ \E e \in Items(evs) : e.addr = h[c] /\ e.cb = c
    BY DEF Anchored, HandleSound
  <2>2. PICK i \in 1..Len(evs) : evs[i].addr = h[c] /\ evs[i].cb = c
    BY <2>1 DEF Items
  <2>3. new[i] \in Items(new) /\ new[i].addr = h[c] /\ new[i].cb = c
    BY <1>2, <2>2 DEF Items
  <2> QED BY <2>1, <2>3
<1>8. \A e \in Items(new) : \E f \in Items(evs) : e.addr = f.addr /\ e.cb = f.cb
  BY <1>2 DEF Items
<1> QED BY <1>1, <1>2, <1>3, <1>4, <1>5, <1>6, <1>8 DEF Anchored, List, new

LEMMA TickedLinked ==
  ASSUME NEW evs, NEW h, NEW x, Linked(evs, h, x)
  PROVE  /\ Linked(Aged(evs), h, x) /\ Addresses(Aged(evs)) = Addresses(evs)
         /\ \A e \in Items(Aged(evs)) :
              \E f \in Items(evs) : e.addr = f.addr /\ e.cb = f.cb
<1> DEFINE new == Aged(evs)
<1>1. Anchored(evs, h, x) /\ HandleKnows(evs, h, x)
  BY DEF Linked, Anchored
<1>2. /\ Anchored(new, h, x) /\ Addresses(new) = Addresses(evs)
      /\ \A e \in Items(new) :
           \E f \in Items(evs) : e.addr = f.addr /\ e.cb = f.cb
  BY <1>1, TickedAnchored
<1> HIDE DEF new
<1>3. HandleKnows(new, h, x)
  BY <1>1, <1>2 DEF HandleKnows
<1>4. Linked(new, h, x)
  BY <1>2, <1>3, LinkedIs
<1> QED BY <1>2, <1>4 DEF new

\* What the walk has read is in the list: the entry it looks at, and the next one.
LEMMA LookedAt ==
  ASSUME NEW evs, List(evs), NEW a \in Addresses(evs)
  PROVE  LookAt(evs, a).nxt = End \/ LookAt(evs, a).nxt \in Addresses(evs) \ {a}
<1> DEFINE i == Position(evs, a)
<1>1. i \in 1..Len(evs) /\ evs[i].addr = a
  <2>1. \E j \in 1..Len(evs) : evs[j].addr = a
    BY DEF Addresses
  <2> QED BY <2>1 DEF Position
<1>2. LookAt(evs, a).nxt = IF i = Len(evs) THEN End ELSE evs[i + 1].addr
  BY DEF LookAt, Successor
<1> HIDE DEF i
<1>3. CASE i # Len(evs)
  <2>1. i + 1 \in 1..Len(evs) /\ i + 1 # i
    BY <1>1, <1>3, ItemsType
  <2>2. evs[i + 1].addr \in Addresses(evs)
    BY <2>1 DEF Addresses
  <2>3. evs[i + 1].addr # a
    BY <1>1, <2>1 DEF List, Distinct
  <2> QED BY <1>2, <1>3, <2>2, <2>3
<1> QED BY <1>2, <1>3

LEMMA EmptyLinked == Linked(<<>>, [c \in Held |-> Null], Null) /\ Addresses(<<>>) = {}
<1>1. <<>> \in Seq(Entry) /\ Len(<<>>) = 0
  BY EmptySeq
<1>2. 1..Len(<<>>) = {}
  BY <1>1
<1>3. List(<<>>) /\ Addresses(<<>>) = {} /\ Items(<<>>) = {}
  BY <1>1, <1>2 DEF List, Distinct, Sorted, Addresses, Items
<1> QED BY <1>3 DEF Linked, HandleSound, HandleKnows

LEMMA AddressesType ==
  ASSUME NEW evs, List(evs)
  PROVE  Addresses(evs) \subseteq Addrs /\ Null \notin Addresses(evs)
BY ItemsType, SchedulerAssumption DEF Entry

(***************************************************************************)
(* The list under the walk: it agrees with the static variables but for    *)
(* the entry whose callback has run, and (Walkable) what the walk has read *)
(* is still listed.  The steps of the loop keep both.  A callback keeps    *)
(* the second if it takes nothing out of the list, and a request does in   *)
(* any case.                                                               *)
(***************************************************************************)
LoopType == loop \in [at : Phases, cur : Cursors, nxt : Cursors, late : Int]

Exempt == IF loop.at = "ran" THEN loop.cur ELSE Null

LoopInv == LoopType /\ Linked(events, handle, Exempt)

Walkable(evs, l) ==
  l.at \in {"check", "ran"} =>
    /\ l.cur \in Addresses(evs)
    /\ l.nxt = End \/ l.nxt \in Addresses(evs) \ {l.cur}

ListInv == LoopInv /\ Walkable(events, loop)

LEMMA ArmLinked ==
  ASSUME NEW evs, NEW h, NEW x, Linked(evs, h, x), NEW c \in Clients, NEW site,
         Delay[site] \in Int, c \in Held => h[c] = Null, Arm(evs, h, c, site)
  PROVE  /\ Linked(events', handle', x) /\ Addresses(evs) \subseteq Addresses(events')
         /\ \A e \in Items(events') :
              e \in Items(evs) \/ (e.cb = c /\ e.due = Delay[site])
         /\ \A b \in Held \ {c} : handle'[b] = h[b]
         /\ \E a : \A e \in Items(events') : e \in Items(evs) \/ e.addr = a
<1>1. PICK a \in Allocs(evs) :
        /\ events' = Scheduled(evs, a, c, Delay[site])
        /\ handle' = Remember(h, c, a)
  BY DEF Arm, Remember
<1>2. \A b \in Held \ {c} : handle'[b] = h[b]
  BY <1>1 DEF Remember, Linked
<1> QED BY <1>1, <1>2, ScheduledLinked

\* A callback: its static variable is cleared first.
LEMMA DueLinked ==
  ASSUME LoopInv, NEW c, Due(c)
  PROVE  /\ Linked(events, handle, Null)
         /\ Linked(events, Remember(handle, c, Null), loop.cur)
         /\ Current \in Items(events) /\ Current.addr = loop.cur /\ Current.cb = c
<1>1. loop.at = "check" /\ loop.cur \in Addresses(events) /\ Current.cb = c
  BY DEF Due, Readable
<1>2. Linked(events, handle, Null)
  BY <1>1 DEF LoopInv, Exempt
<1>3. Current \in Items(events) /\ Current.addr = loop.cur
  <2>1. \E i \in 1..Len(events) : events[i].addr = loop.cur
    BY <1>1 DEF Addresses
  <2> QED BY <2>1 DEF Current, Position, Items
<1> QED BY <1>1, <1>2, <1>3, BegunLinked

LEMMA RanLoop ==
  ASSUME LoopInv, NEW c, Due(c), Ran, Linked(events', handle', loop.cur)
  PROVE  /\ LoopInv' /\ Exempt' = loop.cur
         /\ loop'.at = "ran" /\ loop'.cur = loop.cur /\ loop'.nxt = loop.nxt
<1>1. loop.at = "check" /\ loop' = [loop EXCEPT !.at = "ran"]
  BY DEF Due, Ran
<1>2. LoopType' /\ loop'.at = "ran" /\ loop'.cur = loop.cur /\ loop'.nxt = loop.nxt
  BY <1>1 DEF LoopInv, LoopType, Phases
<1> QED BY <1>2 DEF LoopInv, Exempt

LEMMA RanKeeps ==
  ASSUME ListInv, NEW c, Due(c), Ran,
         Linked(events', handle', loop.cur), Addresses(events) \subseteq Addresses(events')
  PROVE  ListInv'
<1>1. loop.at = "check"
  BY DEF Due
<1>2. LoopInv' /\ loop'.at = "ran" /\ loop'.cur = loop.cur /\ loop'.nxt = loop.nxt
  BY RanLoop DEF ListInv
<1> QED BY <1>1, <1>2 DEF ListInv, Walkable

\* A request comes in while nothing is walked.
LEMMA CalledLinked ==
  ASSUME LoopInv, Notified
  PROVE  Linked(events, handle, Null)
BY DEF LoopInv, Exempt, Notified

\* Nothing is walked, or the walk is at an entry whose callback has not run.
LEMMA AtRest ==
  ASSUME LoopType', loop'.at # "ran", Linked(events', handle', Null)
  PROVE  LoopInv'
BY DEF LoopInv, Exempt

LEMMA SelectingKeeps ==
  ASSUME loop' \in {Selecting, [Selecting EXCEPT !.at = "netlink"]},
         Linked(events', handle', Null)
  PROVE  ListInv'
<1>1. \/ loop' = [at |-> "select", cur |-> Null, nxt |-> Null, late |-> 0]
      \/ loop' = [at |-> "netlink", cur |-> Null, nxt |-> Null, late |-> 0]
  BY DEF Selecting
<1>2. LoopType' /\ loop'.at \in {"select", "netlink"}
  BY <1>1 DEF LoopType, Phases, Cursors
<1> QED BY <1>2, AtRest DEF ListInv, Walkable

LEMMA AnsweredKeeps ==
  ASSUME Answered, Linked(events', handle', Null)
  PROVE  ListInv'
BY SelectingKeeps DEF Answered

\* The walk begins, or goes on with an entry.
LEMMA LookAtType ==
  ASSUME NEW evs, List(evs), NEW a \in Cursors
  PROVE  /\ LookAt(evs, a) \in [at : Phases, cur : Cursors, nxt : Cursors, late : Int]
         /\ LookAt(evs, a).at = "check" /\ LookAt(evs, a).cur = a
<1> DEFINE n == LookAt(evs, a).nxt
<1>1. n \in Cursors
  <2>1. CASE a \in Addresses(evs)
    BY <2>1, LookedAt, AddressesType DEF Cursors
  <2>2. CASE a \notin Addresses(evs)
    BY <2>2 DEF LookAt, Cursors
  <2> QED BY <2>1, <2>2
<1>2. LookAt(evs, a) = [at |-> "check", cur |-> a, late |-> 0, nxt |-> n]
  BY DEF LookAt
<1> HIDE DEF n
<1> QED BY <1>1, <1>2 DEF Phases

LEMMA LookAtList ==
  ASSUME NEW evs, List(evs), NEW a \in Addresses(evs)
  PROVE  /\ LookAt(evs, a) \in [at : Phases, cur : Cursors, nxt : Cursors, late : Int]
         /\ LookAt(evs, a).at = "check"
         /\ Walkable(evs, LookAt(evs, a))
<1>1. a \in Cursors
  BY AddressesType DEF Cursors
<1> QED BY <1>1, LookAtType, LookedAt DEF Walkable

LEMMA LookAtKeeps ==
  ASSUME NEW a \in Addresses(events'), loop' = LookAt(events', a),
         Linked(events', handle', Null)
  PROVE  ListInv'
<1>1. List(events')
  BY DEF Linked
<1>2. LoopType' /\ loop'.at = "check" /\ Walkable(events', loop')
  BY <1>1, LookAtList DEF LoopType
<1> QED BY <1>2, AtRest DEF ListInv

LEMMA BeginKeeps ==
  ASSUME loop' = IF events' = <<>> THEN Selecting ELSE LookAt(events', events'[1].addr),
         Linked(events', handle', Null)
  PROVE  ListInv'
<1>1. CASE events' = <<>>
  BY <1>1, SelectingKeeps
<1>2. CASE events' # <<>>
  <2>1. events' \in Seq(Entry)
    BY DEF Linked, List
  <2>2. 1 \in 1..Len(events')
    BY <1>2, <2>1, EmptySeq, LenProperties
  <2>3. events'[1].addr \in Addresses(events')
    BY <2>2 DEF Addresses
  <2> QED BY <1>2, <2>3, LookAtKeeps
<1> QED BY <1>1, <1>2

\* The walk goes on with an entry that may have been freed.
LEMMA AdvanceLoop ==
  ASSUME LoopType, Advance(events'), Linked(events', handle', Null)
  PROVE  LoopInv'
<1>1. CASE loop.nxt = End
  BY <1>1, SelectingKeeps DEF Advance, ListInv
<1>2. CASE loop.nxt # End
  <2>1. List(events') /\ loop.nxt \in Cursors /\ loop' = LookAt(events', loop.nxt)
    BY <1>2 DEF Advance, LoopType, Linked
  <2>2. LoopType' /\ loop'.at = "check"
    BY <2>1, LookAtType DEF LoopType
  <2> QED BY <2>2, AtRest
<1> QED BY <1>1, <1>2

LEMMA AdvanceKeeps ==
  ASSUME Advance(events'), Linked(events', handle', Null),
         loop.nxt = End \/ loop.nxt \in Addresses(events')
  PROVE  ListInv'
<1>1. CASE loop.nxt = End
  BY <1>1, SelectingKeeps DEF Advance
<1>2. CASE loop.nxt # End
  BY <1>2, LookAtKeeps DEF Advance
<1> QED BY <1>1, <1>2

LEMMA ReleaseLinked ==
  ASSUME LoopInv, Release
  PROVE  /\ Linked(events', handle', Null)
         /\ Addresses(events') = Addresses(events) \ {loop.cur}
         /\ Items(events') = {e \in Items(events) : e.addr # loop.cur}
<1>1. /\ events' = Dropped(events, loop.cur) /\ handle' = handle
      /\ loop.at = "ran" /\ loop.cur \in Addresses(events)
  BY DEF Release, Readable
<1>2. Linked(events, handle, loop.cur)
  BY <1>1 DEF LoopInv, Exempt
<1> QED BY <1>1, <1>2, ReleasedLinked, DroppedList DEF Linked

LEMMA TickLinked ==
  ASSUME LoopInv, SchedulerTick
  PROVE  /\ LoopInv' /\ Exempt' = Exempt /\ Addresses(events') = Addresses(events)
         /\ loop'.at = loop.at /\ loop'.cur = loop.cur /\ loop'.nxt = loop.nxt
         /\ \A e \in Items(events') :
              \E f \in Items(events) : e.addr = f.addr /\ e.cb = f.cb
<1>1. events' = Aged(events) /\ handle' = handle
  BY DEF SchedulerTick, Aged
<1>2. /\ Linked(events', handle', Exempt) /\ Addresses(events') = Addresses(events)
      /\ \A e \in Items(events') :
           \E f \in Items(events) : e.addr = f.addr /\ e.cb = f.cb
  BY <1>1, TickedLinked DEF LoopInv
<1>3. \/ loop' = loop
      \/ loop' = [loop EXCEPT !.late = loop.late + 1]
  BY DEF SchedulerTick
<1>4. LoopType' /\ loop'.at = loop.at /\ loop'.cur = loop.cur /\ loop'.nxt = loop.nxt
  BY <1>3 DEF LoopInv, LoopType
<1>5. Exempt' = Exempt
  BY <1>4 DEF Exempt
<1> QED BY <1>2, <1>4, <1>5 DEF LoopInv

\* The steps of the loop, whatever callbacks have freed.
LEMMA WalkLoop ==
  LoopInv /\ (Walk \/ OtherCall \/ OtherNetlink \/ SchedulerTick) => LoopInv'
<1> SUFFICES ASSUME LoopInv, Walk \/ OtherCall \/ OtherNetlink \/ SchedulerTick
             PROVE  LoopInv'
  OBVIOUS
<1>1. CASE OtherNetlink
  <2>1. Linked(events', handle', Null)
    BY <1>1, CalledLinked DEF OtherNetlink, Leave
  <2> QED BY <1>1, <2>1, BeginKeeps DEF OtherNetlink, Handled, Begin, ListInv
<1>2. CASE OtherCall
  <2>1. Linked(events', handle', Null)
    BY <1>2, CalledLinked DEF OtherCall, Leave, Called, Notified
  <2> QED BY <1>2, <2>1, AnsweredKeeps DEF OtherCall, ListInv
<1>3. CASE WakeUp
  <2>1. events' = events /\ handle' = handle /\ Notified
    BY <1>3 DEF WakeUp, Notified
  <2>2. Linked(events', handle', Null)
    BY <2>1, CalledLinked
  <2> QED BY <1>3, <2>1, <2>2, BeginKeeps DEF WakeUp, Begin, ListInv
<1>4. CASE Skip
  <2>1. events' = events /\ handle' = handle /\ loop.at = "check"
    BY <1>4 DEF Skip
  <2>2. Linked(events', handle', Null)
    BY <2>1 DEF LoopInv, Exempt
  <2>3. Advance(events')
    BY <1>4, <2>1 DEF Skip
  <2> QED BY <2>2, <2>3, AdvanceLoop DEF LoopInv
<1>5. CASE Release
  BY <1>5, ReleaseLinked, AdvanceLoop DEF Release, LoopInv
<1>6. CASE SchedulerTick
  BY <1>6, TickLinked
<1> QED BY <1>1, <1>2, <1>3, <1>4, <1>5, <1>6 DEF Walk

LEMMA WalkKeeps ==
  ListInv /\ (Walk \/ OtherCall \/ OtherNetlink \/ SchedulerTick) => ListInv'
<1> SUFFICES ASSUME ListInv, Walk \/ OtherCall \/ OtherNetlink \/ SchedulerTick
             PROVE  ListInv'
  OBVIOUS
<1>0. LoopInv
  BY DEF ListInv
<1>1. CASE OtherNetlink
  <2>1. Linked(events', handle', Null)
    BY <1>0, <1>1, CalledLinked DEF OtherNetlink, Leave
  <2> QED BY <1>1, <2>1, BeginKeeps DEF OtherNetlink, Handled, Begin
<1>2. CASE OtherCall
  <2>1. Linked(events', handle', Null)
    BY <1>0, <1>2, CalledLinked DEF OtherCall, Leave, Called, Notified
  <2> QED BY <1>2, <2>1, AnsweredKeeps DEF OtherCall
<1>3. CASE WakeUp
  <2>1. events' = events /\ handle' = handle /\ Notified
    BY <1>3 DEF WakeUp, Notified
  <2>2. Linked(events', handle', Null)
    BY <1>0, <2>1, CalledLinked
  <2> QED BY <1>3, <2>1, <2>2, BeginKeeps DEF WakeUp, Begin
<1>4. CASE Skip
  <2>1. events' = events /\ handle' = handle /\ loop.at = "check"
    BY <1>4 DEF Skip
  <2>2. Linked(events', handle', Null) /\ (loop.nxt = End \/ loop.nxt \in Addresses(events'))
    BY <1>0, <2>1 DEF ListInv, LoopInv, Exempt, Walkable
  <2>3. Advance(events')
    BY <1>4, <2>1 DEF Skip
  <2> QED BY <2>2, <2>3, AdvanceKeeps
<1>5. CASE Release
  <2>1. Linked(events', handle', Null) /\ Addresses(events') = Addresses(events) \ {loop.cur}
    BY <1>0, <1>5, ReleaseLinked
  <2>2. loop.at = "ran" /\ Advance(events')
    BY <1>5 DEF Release
  <2>3. loop.nxt = End \/ loop.nxt \in Addresses(events')
    BY <2>1, <2>2 DEF ListInv, Walkable
  <2> QED BY <2>1, <2>2, <2>3, AdvanceKeeps
<1>6. CASE SchedulerTick
  BY <1>0, <1>6, TickLinked DEF ListInv, Walkable
<1> QED BY <1>1, <1>2, <1>3, <1>4, <1>5, <1>6 DEF Walk

(***************************************************************************)
(* The same for a module whose entries are left behind: its static         *)
(* variables are right, where they are set.                                *)
(***************************************************************************)
Moored == LoopType /\ Anchored(events, handle, Exempt)

LEMMA LoopMoored == LoopInv => Moored
BY LinkedIs DEF LoopInv, Moored

LEMMA ArmAnchored ==
  ASSUME NEW evs, NEW h, NEW x, Anchored(evs, h, x), NEW c \in Clients, NEW site,
         Delay[site] \in Int, c \in Held => h[c] = Null, Arm(evs, h, c, site)
  PROVE  /\ Anchored(events', handle', x)
         /\ \A e \in Items(events') :
              e \in Items(evs) \/ (e.cb = c /\ e.due = Delay[site])
         /\ \A b \in Held \ {c} : handle'[b] = h[b]
         /\ c \in Held => \A e \in Items(events') : e \in Items(evs) \/ e.addr = handle'[c]
<1>1. PICK a \in Allocs(evs) :
        /\ events' = Scheduled(evs, a, c, Delay[site])
        /\ handle' = Remember(h, c, a)
  BY DEF Arm, Remember
<1>2. /\ \A b \in Held \ {c} : handle'[b] = h[b]
      /\ c \in Held => handle'[c] = a
  BY <1>1 DEF Remember, Anchored
<1> QED BY <1>1, <1>2, ScheduledAnchored

LEMMA DueAnchored ==
  ASSUME Moored, NEW c, Due(c)
  PROVE  /\ Anchored(events, handle, Null)
         /\ Anchored(events, Remember(handle, c, Null), loop.cur)
         /\ Current \in Items(events) /\ Current.addr = loop.cur /\ Current.cb = c
         /\ loop.cur # Null
<1>1. loop.at = "check" /\ loop.cur \in Addresses(events) /\ Current.cb = c
  BY DEF Due, Readable
<1>2. Anchored(events, handle, Null)
  BY <1>1 DEF Moored, Exempt
<1>3. Current \in Items(events) /\ Current.addr = loop.cur
  <2>1. \E i \in 1..Len(events) : events[i].addr = loop.cur
    BY <1>1 DEF Addresses
  <2> QED BY <2>1 DEF Current, Position, Items
<1>4. loop.cur # Null
  BY <1>1, <1>2, AddressesType DEF Anchored
<1> QED BY <1>1, <1>2, <1>3, <1>4, BegunAnchored

LEMMA CalledAnchored ==
  ASSUME Moored, Notified
  PROVE  Anchored(events, handle, Null)
BY DEF Moored, Exempt, Notified

\* After a callback, and after a request or a step of the walk.
LEMMA RanMoored ==
  ASSUME LoopType, NEW c, Due(c), Ran, Anchored(events', handle', loop.cur)
  PROVE  Moored'
<1>1. LoopType' /\ loop'.at = "ran" /\ loop'.cur = loop.cur
  BY DEF Due, Ran, LoopType, Phases
<1> QED BY <1>1 DEF Moored, Exempt

LEMMA RestMoored ==
  ASSUME LoopType, Answered \/ Begin(events') \/ Advance(events'),
         Anchored(events', handle', Null)
  PROVE  Moored'
<1>0. List(events')
  BY DEF Anchored
<1>1. CASE loop' \in {Selecting, [Selecting EXCEPT !.at = "netlink"]}
  <2>1. \/ loop' = [at |-> "select", cur |-> Null, nxt |-> Null, late |-> 0]
        \/ loop' = [at |-> "netlink", cur |-> Null, nxt |-> Null, late |-> 0]
    BY <1>1 DEF Selecting
  <2>2. LoopType' /\ loop'.at # "ran"
    BY <2>1 DEF LoopType, Phases, Cursors
  <2> QED BY <2>2 DEF Moored, Exempt
<1>2. ASSUME NEW a \in Cursors, loop' = LookAt(events', a) PROVE Moored'
  <2>1. LoopType' /\ loop'.at # "ran"
    BY <1>0, <1>2, LookAtType DEF LoopType
  <2> QED BY <2>1 DEF Moored, Exempt
<1>3. CASE Answered
  BY <1>1, <1>3 DEF Answered
<1>4. CASE Begin(events')
  <2>1. CASE events' = <<>>
    BY <1>1, <1>4, <2>1 DEF Begin
  <2>2. CASE events' # <<>>
    <3>1. 1 \in 1..Len(events')
      BY <1>0, <2>2, EmptySeq, LenProperties DEF List
    <3>2. events'[1].addr \in Cursors
      BY <1>0, <3>1, AddressesType DEF Addresses, Cursors
    <3> QED BY <1>2, <1>4, <2>2, <3>2 DEF Begin
  <2> QED BY <2>1, <2>2
<1>5. CASE Advance(events')
  <2>1. CASE loop.nxt = End
    BY <1>1, <1>5, <2>1 DEF Advance
  <2>2. CASE loop.nxt # End
    BY <1>2, <1>5, <2>2 DEF Advance, LoopType
  <2> QED BY <2>1, <2>2
<1> QED BY <1>3, <1>4, <1>5

LEMMA ReleaseAnchored ==
  ASSUME Moored, Release
  PROVE  /\ Anchored(events', handle', Null)
         /\ Items(events') \subseteq Items(events)
<1>1. /\ events' = Dropped(events, loop.cur) /\ handle' = handle
      /\ loop.at = "ran" /\ loop.cur \in Addresses(events)
  BY DEF Release, Readable
<1>2. Anchored(events, handle, loop.cur)
  BY <1>1 DEF Moored, Exempt
<1> QED BY <1>1, <1>2, ReleasedAnchored

LEMMA TickAnchored ==
  ASSUME Moored, SchedulerTick
  PROVE  /\ Moored'
         /\ \A e \in Items(events') :
              \E f \in Items(events) : e.addr = f.addr /\ e.cb = f.cb
<1>1. events' = Aged(events) /\ handle' = handle
  BY DEF SchedulerTick, Aged
<1>2. /\ Anchored(events', handle', Exempt)
      /\ \A e \in Items(events') :
           \E f \in Items(events) : e.addr = f.addr /\ e.cb = f.cb
  BY <1>1, TickedAnchored DEF Moored
<1>3. \/ loop' = loop
      \/ loop' = [loop EXCEPT !.late = loop.late + 1]
  BY DEF SchedulerTick
<1>4. LoopType' /\ loop'.at = loop.at /\ loop'.cur = loop.cur
  BY <1>3 DEF Moored, LoopType
<1>5. Exempt' = Exempt
  BY <1>4 DEF Exempt
<1> QED BY <1>2, <1>4, <1>5 DEF Moored

\* The steps of the loop: they call back nobody and forget nothing.
LEMMA WalkMoored ==
  ASSUME Moored, Walk \/ OtherCall \/ OtherNetlink \/ SchedulerTick
  PROVE  /\ Moored' /\ handle' = handle
         /\ \A e \in Items(events') :
              \E f \in Items(events) : e.addr = f.addr /\ e.cb = f.cb
<1>1. CASE OtherCall \/ OtherNetlink \/ WakeUp \/ Skip
  <2>1. /\ events' = events /\ handle' = handle /\ loop.at # "ran"
        /\ Answered \/ Begin(events') \/ Advance(events')
    BY <1>1 DEF OtherCall, OtherNetlink, WakeUp, Skip, Leave, Handled, Called, Notified
  <2>2. Anchored(events', handle', Null)
    BY <2>1 DEF Moored, Exempt
  <2> QED BY <2>1, <2>2, RestMoored DEF Moored
<1>2. CASE Release
  <2>1. Anchored(events', handle', Null) /\ Items(events') \subseteq Items(events)
    BY <1>2, ReleaseAnchored
  <2>2. handle' = handle /\ Advance(events')
    BY <1>2 DEF Release
  <2> QED BY <2>1, <2>2, RestMoored DEF Moored
<1>3. CASE SchedulerTick
  BY <1>3, TickAnchored DEF SchedulerTick
<1> QED BY <1>1, <1>2, <1>3 DEF Walk

----------------------------------------------------------------------------
(***************************************************************************)
(* The times: no entry is due later than the longest delay, nor longer     *)
(* overdue than a walk takes, and select() waits for no longer.            *)
(***************************************************************************)
Delays == {Delay[site] : site \in DOMAIN Delay}

DueInTime(evs) == \A e \in Items(evs) : -WalkTicks <= e.due /\ e.due <= MaxDelay

Clock ==
  /\ timeout \in 0..Forever
  /\ slow \in 0..WalkTicks
  /\ loop.late \in 0..slow

ClockInv == DueInTime(events) /\ Clock

LEMMA LongestDelay ==
  /\ MaxDelay \in Nat /\ WalkTicks \in Nat /\ Forever = MaxDelay + WalkTicks + 1
  /\ \A d \in Delays : d \in Int /\ -WalkTicks <= d /\ d <= MaxDelay
<1>1. \E d \in Delays : \A s \in DOMAIN Delay : Delay[s] <= d
  BY SchedulerAssumption DEF Delays
<1>2. MaxDelay \in Delays /\ \A s \in DOMAIN Delay : Delay[s] <= MaxDelay
  BY <1>1 DEF MaxDelay, Delays
<1>3. \A d \in Delays : d \in Nat
  BY SchedulerAssumption DEF Delays
<1>4. WalkTicks \in Nat
  BY SchedulerAssumption
<1>5. ASSUME NEW d \in Delays PROVE d \in Int /\ -WalkTicks <= d /\ d <= MaxDelay
  <2>1. d \in Nat /\ d <= MaxDelay /\ MaxDelay \in Nat
    BY <1>2, <1>3 DEF Delays
  <2> QED BY <1>4, <2>1
<1> QED BY <1>2, <1>3, <1>4, <1>5 DEF Forever

LEMMA MooredClockType ==
  ASSUME Moored, ClockInv
  PROVE  SchedulerTypeOK
<1>1. events \in Seq(Entry) /\ handle \in [Held -> Addrs \cup {Null}]
  BY DEF Moored, Anchored, List
<1>2. Len(events) \in Nat /\ MaxDelay \in Int /\ WalkTicks \in Int
  BY <1>1, LongestDelay, LenProperties
<1>3. ASSUME NEW i \in 1..Len(events) PROVE events[i] \in EventEntries
  <2>1. events[i] \in Entry /\ events[i] \in Items(events)
    BY <1>1, ElementOfSeq DEF Items
  <2>2. events[i].due \in -WalkTicks..MaxDelay
    BY <1>2, <2>1 DEF ClockInv, DueInTime, Entry
  <2> QED BY <2>1, <2>2 DEF Entry, EventEntries
<1>4. events \in Seq(EventEntries)
  <2>1. events = [i \in 1..Len(events) |-> events[i]]
    BY <1>1, LenProperties
  <2> QED BY <1>2, <1>3, <2>1, IsASeq
<1>5. loop.late \in 0..WalkTicks
  BY <1>2 DEF ClockInv, Clock
<1>6. loop \in [at : Phases, cur : Cursors, nxt : Cursors, late : 0..WalkTicks]
  BY <1>5 DEF Moored, LoopType
<1> QED BY <1>1, <1>4, <1>6 DEF SchedulerTypeOK, ClockInv, Clock

\* A request or a callback.
LEMMA MooredCallClock ==
  ASSUME Moored, ClockInv, Answered \/ Handled \/ Ran,
         \A e \in Items(events') : e \in Items(events) \/ e.due \in Delays
  PROVE  ClockInv'
<1>1. DueInTime(events')
  BY LongestDelay DEF ClockInv, DueInTime
<1>2. slow' = slow /\ slow \in 0..WalkTicks /\ timeout' \in {timeout, Forever}
  BY DEF Answered, Handled, Begin, Ran, ClockInv, Clock
<1>3. Forever \in 0..Forever
  BY LongestDelay
<1>4. loop'.late \in {0, loop.late}
  <2>1. CASE Answered
    BY <2>1 DEF Answered, Selecting
  <2>2. CASE Handled
    BY <2>2 DEF Handled, Begin, Selecting, LookAt
  <2>3. CASE Ran
    BY <2>3 DEF Ran, Moored, LoopType
  <2> QED BY <2>1, <2>2, <2>3
<1>5. loop'.late \in 0..slow
  BY <1>2, <1>4, LongestDelay DEF ClockInv, Clock
<1> QED BY <1>1, <1>2, <1>3, <1>5 DEF ClockInv, Clock

LEMMA AdvanceClock ==
  ASSUME ClockInv, Advance(events'), events' \in Seq(Entry),
         Items(events') \subseteq Items(events)
  PROVE  ClockInv'
<1>1. DueInTime(events')
  BY DEF ClockInv, DueInTime
<1>2. /\ WalkTicks \in Nat /\ MaxDelay \in Nat /\ Forever = MaxDelay + WalkTicks + 1
      /\ slow \in 0..WalkTicks /\ loop.late \in 0..slow
  BY LongestDelay DEF ClockInv, Clock
<1>3. CASE loop.nxt = End
  <2>1. loop' = Selecting /\ timeout' = Timeout(events') /\ slow' = 0
    BY <1>3 DEF Advance
  <2>2. Timeout(events') \in 0..Forever
    <3>1. CASE events' = <<>>
      BY <1>2, <3>1 DEF Timeout
    <3>2. CASE events' # <<>>
      <4>1. events'[1] \in Items(events') /\ events'[1] \in Entry
        <5>1. 1 \in 1..Len(events')
          BY <3>2, EmptySeq
        <5> QED BY <5>1, ElementOfSeq DEF Items
      <4> DEFINE d == events'[1].due
      <4>2. d \in Int /\ d <= MaxDelay
        BY <1>1, <4>1 DEF DueInTime, Entry
      <4>3. Timeout(events') = IF d + loop.late <= 0 THEN 1 ELSE d + loop.late
        BY <3>2 DEF Timeout
      <4> HIDE DEF d
      <4> QED BY <1>2, <4>2, <4>3
    <3> QED BY <3>1, <3>2
  <2>3. loop'.late = 0
    BY <2>1 DEF Selecting
  <2> QED BY <1>1, <1>2, <2>1, <2>2, <2>3 DEF ClockInv, Clock
<1>4. CASE loop.nxt # End
  <2>1. loop' = LookAt(events', loop.nxt) /\ timeout' = timeout /\ slow' = slow
    BY <1>4 DEF Advance
  <2>2. loop'.late = 0
    BY <2>1 DEF LookAt
  <2> QED BY <1>1, <1>2, <2>1, <2>2 DEF ClockInv, Clock
<1> QED BY <1>3, <1>4

LEMMA TickClock ==
  ASSUME Moored, ClockInv, SchedulerTick
  PROVE  ClockInv'
<1>1. /\ WalkTicks \in Nat /\ MaxDelay \in Nat /\ Forever = MaxDelay + WalkTicks + 1
      /\ slow \in 0..WalkTicks /\ loop.late \in 0..slow /\ timeout \in 0..Forever
  BY LongestDelay DEF ClockInv, Clock
<1>2. events' = Aged(events) /\ events \in Seq(Entry)
  BY DEF SchedulerTick, Aged, Moored, Anchored, List
<1>3. /\ Len(Aged(events)) = Len(events)
      /\ \A i \in 1..Len(events) : Aged(events)[i].due = Nearer(events[i].due)
  BY <1>2, AgedAt
<1>4. ASSUME NEW e \in Items(events') PROVE -WalkTicks <= e.due /\ e.due <= MaxDelay
  <2>1. PICK i \in 1..Len(events) : e.due = Nearer(events[i].due)
    BY <1>2, <1>3 DEF Items
  <2>2. events[i].due \in Int /\ -WalkTicks <= events[i].due /\ events[i].due <= MaxDelay
    <3>1. events[i] \in Entry /\ events[i] \in Items(events)
      BY <1>2, ElementOfSeq DEF Items
    <3> QED BY <3>1 DEF ClockInv, DueInTime, Entry
  <2> QED BY <1>1, <2>1, <2>2 DEF Nearer
<1>5. timeout' \in 0..Forever
  BY <1>1 DEF SchedulerTick, Less
<1>6. slow' \in 0..WalkTicks /\ loop'.late \in 0..slow'
  <2>1. CASE UNCHANGED <<loop, slow>>
    BY <1>1, <2>1
  <2>2. CASE /\ slow < WalkTicks /\ slow' = slow + 1
             /\ loop' = IF loop.at = "ran" THEN [loop EXCEPT !.late = @ + 1] ELSE loop
    <3>1. loop'.late \in {loop.late, loop.late + 1}
      BY <2>2 DEF Moored, LoopType
    <3> QED BY <1>1, <2>2, <3>1
  <2> QED BY <2>1, <2>2 DEF SchedulerTick
<1> QED BY <1>4, <1>5, <1>6 DEF ClockInv, Clock, DueInTime

LEMMA MooredWalkClock ==
  ASSUME Moored, ClockInv, Walk \/ OtherCall \/ OtherNetlink \/ SchedulerTick
  PROVE  ClockInv'
<1>1. CASE OtherCall \/ OtherNetlink
  BY <1>1, MooredCallClock DEF OtherCall, OtherNetlink, Leave
<1>2. CASE WakeUp
  <2>1. Handled /\ events' = events
    BY <1>2 DEF WakeUp, Handled, Begin
  <2> QED BY <2>1, MooredCallClock
<1>3. CASE Skip
  <2>1. events' = events /\ Advance(events') /\ events' \in Seq(Entry)
    BY <1>3 DEF Skip, Moored, Anchored, List
  <2> QED BY <2>1, AdvanceClock
<1>4. CASE Release
  <2>1. Anchored(events', handle', Null) /\ Items(events') \subseteq Items(events)
    BY <1>4, ReleaseAnchored
  <2>2. Advance(events') /\ events' \in Seq(Entry)
    BY <1>4, <2>1 DEF Release, Anchored, List
  <2> QED BY <2>1, <2>2, AdvanceClock
<1> QED BY <1>1, <1>2, <1>3, <1>4, TickClock DEF Walk

\* The same from LoopInv.
LEMMA ClockType ==
  ASSUME LoopInv, ClockInv
  PROVE  SchedulerTypeOK
BY LoopMoored, MooredClockType

LEMMA CallClock ==
  ASSUME LoopInv, ClockInv, Answered \/ Handled \/ Ran,
         \A e \in Items(events') : e \in Items(events) \/ e.due \in Delays
  PROVE  ClockInv'
BY LoopMoored, MooredCallClock

LEMMA WalkClock ==
  ASSUME LoopInv, ClockInv, Walk \/ OtherCall \/ OtherNetlink \/ SchedulerTick
  PROVE  ClockInv'
BY LoopMoored, MooredWalkClock

----------------------------------------------------------------------------
(***************************************************************************)
(* How many entries there are.  A client without a static variable has one *)
(* entry at most, when it schedules itself anew only in its own callback.  *)
(* A client that has none then finds memory for one, if there is enough    *)
(* for an entry of each client and one that is still to be freed.          *)
(***************************************************************************)
OneEntry(evs, x, c) ==
  \A e, f \in Items(evs) :
    e.cb = c /\ f.cb = c /\ e.addr # x /\ f.addr # x => e.addr = f.addr

LEMMA WalkOne ==
  ASSUME LoopInv, NEW c, OneEntry(events, Exempt, c),
         Walk \/ OtherCall \/ OtherNetlink \/ SchedulerTick
  PROVE  OneEntry(events', Exempt', c)
<1>1. CASE Skip \/ WakeUp \/ OtherCall \/ OtherNetlink
  <2>1. events' = events /\ loop.at # "ran"
    BY <1>1 DEF Skip, WakeUp, OtherCall, OtherNetlink, Leave, Called, Notified
  <2>2. \A e \in Items(events) : e.addr # Null
    BY ItemsType, SchedulerAssumption DEF LoopInv, Linked, Entry
  <2> QED BY <2>1, <2>2 DEF OneEntry, Exempt
<1>2. CASE Release
  <2>1. Items(events') = {e \in Items(events) : e.addr # loop.cur} /\ Exempt = loop.cur
    BY <1>2, ReleaseLinked DEF Release, Exempt
  <2> QED BY <2>1 DEF OneEntry
<1>3. CASE SchedulerTick
  <2>1. /\ Exempt' = Exempt
        /\ \A e \in Items(events') :
             \E f \in Items(events) : e.addr = f.addr /\ e.cb = f.cb
    BY <1>3, TickLinked
  <2> QED BY <2>1 DEF OneEntry
<1> QED BY <1>1, <1>2, <1>3 DEF Walk

\* A request that schedules nothing for the client.
LEMMA RequestOne ==
  ASSUME LoopInv, NEW c, OneEntry(events, Exempt, c), Notified,
         (Called /\ Answered) \/ Handled, Linked(events', handle', Null),
         \A e \in Items(events') : e \in Items(events) \/ e.cb # c
  PROVE  LoopInv' /\ OneEntry(events', Exempt', c)
<1>1. LoopInv'
  BY AnsweredKeeps, BeginKeeps DEF Handled, Begin, ListInv
<1>2. Exempt = Null
  BY DEF Notified, Exempt
<1>3. Exempt' \notin {e.addr : e \in Items(events')}
  <2>1. CASE Called /\ Answered
    <3>1. loop'.at = "netlink"
      BY <2>1 DEF Answered, Selecting
    <3> QED BY <3>1, ItemsType, SchedulerAssumption DEF Exempt, Linked, Entry
  <2>2. CASE Handled
    <3>1. loop'.at # "ran"
      BY <2>2 DEF Handled, Begin, Selecting, LookAt
    <3> QED BY <3>1, ItemsType, SchedulerAssumption DEF Exempt, Linked, Entry
  <2> QED BY <2>1, <2>2
<1>4. \A e \in Items(events) : e.addr # Null
  BY ItemsType, SchedulerAssumption DEF LoopInv, Linked, Entry
<1> QED BY <1>1, <1>2, <1>3, <1>4 DEF OneEntry

\* A callback of another client, or the client's own, which schedules it anew.
LEMMA CallbackOne ==
  ASSUME LoopInv, NEW c, OneEntry(events, Exempt, c), NEW b, Due(b), Ran,
         Linked(events', handle', loop.cur),
         \A e \in Items(events') : e \in Items(events) \/ e.cb # c
  PROVE  LoopInv' /\ OneEntry(events', Exempt', c)
<1>1. LoopInv' /\ Exempt' = loop.cur /\ Exempt = Null
  BY RanLoop DEF Due, Exempt
<1>2. \A e \in Items(events) : e.addr # Null
  BY ItemsType, SchedulerAssumption DEF LoopInv, Linked, Entry
<1> QED BY <1>1, <1>2 DEF OneEntry

LEMMA AnewOne ==
  ASSUME LoopInv, NEW c, OneEntry(events, Exempt, c), Due(c), Ran,
         Linked(events', handle', loop.cur),
         \E a : \A e \in Items(events') : e \in Items(events) \/ e.addr = a
  PROVE  LoopInv' /\ OneEntry(events', Exempt', c)
<1>1. LoopInv' /\ Exempt' = loop.cur /\ Exempt = Null
  BY RanLoop DEF Due, Exempt
<1>2. \A e \in Items(events) : e.addr # Null
  BY ItemsType, SchedulerAssumption DEF LoopInv, Linked, Entry
<1>3. Current \in Items(events) /\ Current.addr = loop.cur /\ Current.cb = c
  BY DueLinked
<1>4. \A e \in Items(events) : e.cb = c => e.addr = loop.cur
  BY <1>1, <1>2, <1>3 DEF OneEntry
<1> QED BY <1>1, <1>4 DEF OneEntry

LEMMA SpaceLeft ==
  ASSUME NEW evs, NEW h, NEW x, Linked(evs, h, x), IsFiniteSet(Clients),
         \A b \in Clients \ Held : OneEntry(evs, x, b),
         NEW c \in Clients, \A e \in Items(evs) : e.addr # x => e.cb # c
  PROVE  /\ IsFiniteSet(Addresses(evs) \ {x})
         /\ Cardinality(Addresses(evs) \ {x}) < Cardinality(Clients)
<1> DEFINE A     == Addresses(evs) \ {x}
           at(a) == CHOOSE e \in Items(evs) : e.addr = a
           f     == [a \in A |-> at(a).cb]
<1>1. /\ Addresses(evs) = {e.addr : e \in Items(evs)}
      /\ \A e, g \in Items(evs) : e.addr = g.addr => e = g
      /\ \A e \in Items(evs) : e.cb \in Clients
  BY ItemsType DEF Linked, Entry
<1>2. ASSUME NEW a \in A
      PROVE  at(a) \in Items(evs) /\ at(a).addr = a /\ a # x
  BY <1>1
<1>3. f \in [A -> Clients \ {c}]
  <2>1. \A a \in A : at(a).cb \in Clients \ {c}
    <3> HIDE DEF at, A
    <3> QED BY <1>1, <1>2
  <2> QED BY <2>1
<1>4. ASSUME NEW a \in A, NEW b \in A, f[a] = f[b] PROVE a = b
  <2>1. /\ at(a) \in Items(evs) /\ at(a).addr = a /\ a # x
        /\ at(b) \in Items(evs) /\ at(b).addr = b /\ b # x /\ at(a).cb = at(b).cb
    BY <1>2, <1>4
  <2> HIDE DEF at
  <2>2. CASE at(a).cb \in Held
    BY <2>1, <2>2 DEF Linked, HandleKnows
  <2>3. CASE at(a).cb \notin Held
    BY <1>1, <2>1, <2>3 DEF OneEntry
  <2> QED BY <2>2, <2>3
<1> HIDE DEF f, A
<1>5. f \in Injection(A, Clients \ {c})
  BY <1>3, <1>4 DEF Injection, IsInjective
<1>6. /\ IsFiniteSet(Clients \ {c}) /\ Cardinality(Clients \ {c}) = Cardinality(Clients) - 1
      /\ Cardinality(Clients) \in Nat
  BY FS_RemoveElement, FS_CardinalityType
<1>7. IsFiniteSet(A) /\ Cardinality(A) <= Cardinality(Clients \ {c})
  BY <1>5, <1>6, FS_Injection
<1>8. Cardinality(A) \in Nat
  BY <1>7, FS_CardinalityType
<1>9. Cardinality(A) < Cardinality(Clients)
  BY <1>6, <1>7, <1>8
<1> QED BY <1>7, <1>9 DEF A

\* There is memory for the entry of a client that has none.
LEMMA AllocsLeft ==
  ASSUME NEW evs, NEW h, NEW x, Linked(evs, h, x), IsFiniteSet(Clients), IsFiniteSet(Addrs),
         \A b \in Clients \ Held : OneEntry(evs, x, b),
         NEW c \in Clients, \A e \in Items(evs) : e.addr # x => e.cb # c,
         \/ Cardinality(Addrs) > Cardinality(Clients)
         \/ x = Null /\ Cardinality(Addrs) >= Cardinality(Clients)
  PROVE  Addrs \ Addresses(evs) # {} /\ (~MallocMayFail => Null \notin Allocs(evs))
<1> DEFINE A == Addresses(evs) \ {x}
<1>1. IsFiniteSet(A) /\ Cardinality(A) < Cardinality(Clients)
  BY SpaceLeft
<1>2. Cardinality(A) \in Nat /\ Cardinality(Clients) \in Nat /\ Cardinality(Addrs) \in Nat
  BY <1>1, FS_CardinalityType
<1>3. Null \notin Addresses(evs)
  BY AddressesType DEF Linked
<1>4. Addrs \ Addresses(evs) # {}
  <2> SUFFICES ASSUME Addrs \subseteq Addresses(evs) PROVE FALSE
    OBVIOUS
  <2>1. Addrs = A \/ Addrs = A \cup {x}
    BY AddressesType DEF Linked
  <2>2. x = Null => Addrs = A
    BY <1>3, <2>1, SchedulerAssumption
  <2> HIDE DEF A
  <2>3. Cardinality(A \cup {x}) \in {Cardinality(A), Cardinality(A) + 1}
    BY <1>1, FS_AddElement
  <2> QED BY <1>1, <1>2, <2>1, <2>2, <2>3
<1> QED BY <1>4, SchedulerAssumption DEF Allocs

\* The same for a client whose static variable is NULL.
LEMMA HeldRoom ==
  ASSUME ~MallocMayFail, IsFiniteSet(Clients), IsFiniteSet(Addrs),
         Cardinality(Addrs) > Cardinality(Clients),
         NEW evs, NEW h, NEW x, Linked(evs, h, x),
         \A b \in Clients \ Held : OneEntry(evs, x, b),
         NEW c \in Held, h[c] = Null
  PROVE  Null \notin Allocs(evs)
<1>1. \A e \in Items(evs) : e.addr # x => e.cb # c
  <2> SUFFICES ASSUME NEW e \in Items(evs), e.addr # x, e.cb = c PROVE FALSE
    OBVIOUS
  <2>1. h[c] = e.addr
    BY DEF Linked, HandleKnows
  <2>2. e.addr # Null
    BY ItemsType, SchedulerAssumption DEF Linked, Entry
  <2> QED BY <2>1, <2>2
<1>2. c \in Clients
  BY SchedulerAssumption
<1> QED BY <1>1, <1>2, AllocsLeft
=============================================================================
