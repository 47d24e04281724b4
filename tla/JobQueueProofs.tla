--------------------------- MODULE JobQueueProofs ---------------------------
(***************************************************************************)
(* Proof that the task runner, driven by mu's main loop, implements        *)
(* JobQueue, for every process table and every set of commands and groups. *)
(*                                                                         *)
(* The log of a group is read off its shape (MuSupervisorProofs): its      *)
(* started commands are the ended prefix and at most one more, so their    *)
(* number is known without counting.  What one walk does to one group is   *)
(* the end of a command, the start of the next one, both, or the expiry of *)
(* the group, and each of them is a move of its log.                       *)
(***************************************************************************)
EXTENDS MuSupervisorProofs, FiniteSetTheorems

\* A log by its parts.
LogOf(a, s, e) == [accepted |-> a, started |-> s, ended |-> e]

Accepted(t) == [i \in 1..Len(t.sub) |-> t.sub[i].cmd]

\* How many commands of a group with a shape were started.
Begun(t) ==
  IF t.finish_nr < t.nr /\ t.sub[t.finish_nr + 1].pid # Pending
  THEN t.finish_nr + 1 ELSE t.finish_nr

LEMMA LogIs ==
  ASSUME NEW t \in GroupRecords, Shape(t)
  PROVE  /\ Log(t) = LogOf(Accepted(t), Begun(t), t.finish_nr)
         /\ Accepted(t) \in Seq(Cmds) /\ Len(Accepted(t)) = t.nr
         /\ Begun(t) \in Nat /\ t.finish_nr \in Nat /\ t.nr \in Nat
<1>1. /\ t.nr \in Nat /\ t.finish_nr \in Nat /\ t.nr = Len(t.sub) /\ t.finish_nr <= t.nr
      /\ \A i \in 1..Len(t.sub) : t.sub[i].cmd \in Cmds
  BY RecordType DEF Shape
<1>2. Accepted(t) \in Seq(Cmds) /\ Len(Accepted(t)) = t.nr
  BY <1>1 DEF Accepted
<1>3. Begun(t) \in Nat
  BY <1>1 DEF Begun
<1>4. {i \in 1..Len(t.sub) : t.sub[i].pid # Pending} = 1..Begun(t)
  <2>1. Ended # Pending
    BY DEF Pending, Ended
  <2>2. ASSUME NEW i \in 1..Len(t.sub)
        PROVE  t.sub[i].pid # Pending <=> i <= Begun(t)
    <3>1. CASE i <= t.finish_nr
      BY <1>1, <2>1, <3>1 DEF Shape, Begun
    <3>2. CASE i = t.finish_nr + 1
      BY <1>1, <3>2 DEF Begun
    <3>3. CASE i > t.finish_nr + 1
      BY <1>1, <3>3 DEF Shape, Begun
    <3> QED BY <1>1, <3>1, <3>2, <3>3
  <2>3. Begun(t) <= Len(t.sub)
    BY <1>1 DEF Begun
  <2> QED BY <1>1, <1>3, <2>2, <2>3
<1>5. Cardinality(1..Begun(t)) = Begun(t)
  BY <1>3, FS_Interval
<1> QED BY <1>1, <1>2, <1>3, <1>4, <1>5 DEF Log, LogOf, Accepted

----------------------------------------------------------------------------
(* The moves of a log.                                                     *)
LEMMA StayMove == ASSUME NEW q PROVE q \in Queue!Moves(q)
  BY DEF Queue!Moves

LEMMA EndMove ==
  ASSUME NEW a \in Seq(Cmds), NEW s \in Nat, NEW e \in Nat, e < s
  PROVE  LogOf(a, s, e + 1) \in Queue!End(LogOf(a, s, e))
  BY DEF LogOf, Queue!End

LEMMA StartMove ==
  ASSUME NEW a \in Seq(Cmds), NEW s \in Nat, s < Len(a)
  PROVE  /\ LogOf(a, s + 1, s) \in Queue!Start(LogOf(a, s, s))
         /\ LogOf(a, s + 1, s + 1) \in Queue!Start(LogOf(a, s, s))
<1> DEFINE q == LogOf(a, s, s)
<1>1. q.accepted = a /\ q.started = s /\ q.ended = s
  BY DEF LogOf
<1>2. [q EXCEPT !.started = q.started + 1] = LogOf(a, s + 1, s)
  BY DEF LogOf
<1>3. [q EXCEPT !.started = q.started + 1, !.ended = q.ended + 1] = LogOf(a, s + 1, s + 1)
  <2>1. q.ended + 1 = s + 1
    BY <1>1
  <2> DEFINE x == LogOf(a, s + 1, s)
  <2>2. [x EXCEPT !.ended = s + 1] = LogOf(a, s + 1, s + 1)
    BY DEF LogOf
  <2>3. [q EXCEPT !.started = q.started + 1, !.ended = s + 1] = [x EXCEPT !.ended = s + 1]
    BY <1>2
  <2> QED BY <2>1, <2>2, <2>3
<1> HIDE DEF q
<1> QED BY <1>1, <1>2, <1>3 DEF Queue!Start, q

LEMMA ForgetMove ==
  ASSUME NEW a \in Seq(Cmds), NEW s \in Nat
  PROVE  Queue!NoJobs \in Queue!Forget(LogOf(a, s, Len(a)))
  BY DEF LogOf, Queue!Forget

LEMMA EndStartMove ==
  ASSUME NEW q, NEW r, NEW u, r \in Queue!End(q), u \in Queue!Start(r)
  PROVE  u \in Queue!Moves(q)
  BY DEF Queue!Moves

----------------------------------------------------------------------------
(* What happens to one group, read on its log.                             *)
LEMMA NoGroupLog == Log(NoGroup) = Queue!NoJobs
<1>1. /\ Log(NoGroup) = LogOf(Accepted(NoGroup), Begun(NoGroup), NoGroup.finish_nr)
      /\ NoGroup.finish_nr = 0 /\ NoGroup.nr = 0
  BY NoGroupFacts, LogIs DEF NoGroup
<1>2. Begun(NoGroup) = 0
  BY <1>1 DEF Begun
<1>3. Accepted(NoGroup) = <<>>
  <2>1. Accepted(NoGroup) \in Seq(Cmds) /\ Len(Accepted(NoGroup)) = 0
    BY <1>1, NoGroupFacts, LogIs
  <2> QED BY <2>1
<1> QED BY <1>1, <1>2, <1>3 DEF LogOf, Queue!NoJobs

\* The log depends on the commands, where they stand and how many have ended.
LEMMA SameLog ==
  ASSUME NEW t, NEW u, u.sub = t.sub, u.finish_nr = t.finish_nr
  PROVE  Log(u) = Log(t)
  BY DEF Log

LEMMA SameAccepted ==
  ASSUME NEW t, NEW u, Len(u.sub) = Len(t.sub),
         \A i \in 1..Len(t.sub) : u.sub[i].cmd = t.sub[i].cmd
  PROVE  Accepted(u) = Accepted(t)
  BY DEF Accepted

LEMMA EndLog ==
  ASSUME NEW t \in GroupRecords, Shape(t), NEW k \in 1..Len(t.sub),
         t.sub[k].pid \in Pids, NEW how
  PROVE  Log(EndTask(t, k, how)) \in Queue!End(Log(t))
<1> DEFINE u == EndTask(t, k, how)
<1>1. /\ u \in GroupRecords /\ Shape(u) /\ Len(u.sub) = Len(t.sub)
      /\ u.sub[k].cmd = t.sub[k].cmd /\ u.finish_nr = k
      /\ \A i \in 1..Len(t.sub) : i # k => u.sub[i] = t.sub[i]
  BY EndFacts
<1> HIDE DEF u
<1>2. /\ Log(t) = LogOf(Accepted(t), Begun(t), t.finish_nr)
      /\ Accepted(t) \in Seq(Cmds) /\ Begun(t) \in Nat
      /\ t.finish_nr \in Nat /\ t.nr \in Nat /\ t.nr = Len(t.sub)
  BY LogIs DEF Shape
<1>3. /\ Log(u) = LogOf(Accepted(u), Begun(u), u.finish_nr)
      /\ u.nr \in Nat /\ u.nr = Len(u.sub)
  BY <1>1, LogIs DEF Shape
<1>4. k = t.finish_nr + 1 /\ Begun(t) = k
  BY <1>2, PidFact DEF Shape, Begun
<1>5. Begun(u) = k
  <2>1. ASSUME k < u.nr PROVE u.sub[k + 1].pid = Pending
    <3>1. k + 1 \in 1..t.nr /\ k + 1 > t.finish_nr + 1 /\ k + 1 # k
      BY <1>1, <1>2, <1>3, <1>4, <2>1
    <3>2. t.sub[k + 1].pid = Pending
      BY <3>1 DEF Shape
    <3> QED BY <1>1, <1>2, <3>1, <3>2
  <2> QED BY <1>1, <2>1 DEF Begun
<1>6. Accepted(u) = Accepted(t)
  BY <1>1, SameAccepted
<1>7. LogOf(Accepted(t), Begun(t), t.finish_nr + 1) \in Queue!End(Log(t))
  BY <1>2, <1>4, EndMove
<1> QED BY <1>1, <1>3, <1>4, <1>5, <1>6, <1>7 DEF u

LEMMA StartLog ==
  ASSUME NEW t \in GroupRecords, Shape(t), t.finish_nr + 1 \in 1..t.nr,
         t.sub[t.finish_nr + 1].pid = Pending,
         NEW r \in Pids \cup {NoPid}
  PROVE  Log(StartTask(t, t.finish_nr + 1, r)) \in Queue!Start(Log(t))
<1> DEFINE j == t.finish_nr + 1
           u == StartTask(t, j, r)
<1>1. /\ u \in GroupRecords /\ Shape(u) /\ Len(u.sub) = Len(t.sub)
      /\ u.sub[j].pid = (IF r = NoPid THEN Ended ELSE r)
      /\ u.sub[j].cmd = t.sub[j].cmd
      /\ \A i \in 1..Len(t.sub) : i # j => u.sub[i] = t.sub[i]
  BY StartFacts
<1> HIDE DEF u
<1>2. /\ Log(t) = LogOf(Accepted(t), Begun(t), t.finish_nr)
      /\ Accepted(t) \in Seq(Cmds) /\ Len(Accepted(t)) = t.nr
      /\ t.finish_nr \in Nat /\ t.nr \in Nat /\ t.nr = Len(t.sub)
  BY LogIs DEF Shape
<1>3. /\ Log(u) = LogOf(Accepted(u), Begun(u), u.finish_nr)
      /\ u.nr \in Nat /\ u.finish_nr \in Nat /\ u.nr = Len(u.sub) /\ u.finish_nr <= u.nr
  BY <1>1, LogIs DEF Shape
<1>4. Begun(t) = t.finish_nr
  BY <1>2 DEF Begun
<1>5. Accepted(u) = Accepted(t)
  BY <1>1, SameAccepted
<1>6. \A i \in 1..t.nr : i < j => u.sub[i].pid = Ended
  BY <1>1, <1>2 DEF Shape
<1>7. \A i \in 1..t.nr : i > j => u.sub[i].pid = Pending
  BY <1>1, <1>2 DEF Shape
<1>8. Pending # Ended
  BY DEF Pending, Ended
<1>9. CASE r = NoPid
  <2>1. u.sub[j].pid = Ended /\ j \in 1..u.nr
    BY <1>1, <1>2, <1>3, <1>9
  <2>2. u.finish_nr = j
    <3>1. u.finish_nr >= j
      BY <1>1, <1>2, <1>3, <2>1 DEF Shape
    <3>2. ~ u.finish_nr > j
      BY <1>1, <1>2, <1>3, <1>7, <1>8 DEF Shape
    <3> QED BY <1>2, <1>3, <3>1, <3>2
  <2>3. Begun(u) = j
    BY <1>1, <1>2, <1>3, <1>7, <2>2 DEF Begun
  <2> QED BY <1>2, <1>3, <1>4, <1>5, <2>2, <2>3, StartMove DEF u
<1>10. CASE r # NoPid
  <2>1. u.sub[j].pid = r /\ r # Ended /\ r # Pending /\ j \in 1..u.nr
    BY <1>1, <1>2, <1>3, <1>10, PidFact
  <2>2. u.finish_nr = t.finish_nr
    <3>1. ~ u.finish_nr >= j
      BY <1>1, <1>2, <1>3, <2>1 DEF Shape
    <3>2. ~ u.finish_nr < t.finish_nr
      <4> SUFFICES ASSUME u.finish_nr < t.finish_nr PROVE FALSE
        OBVIOUS
      <4>1. t.finish_nr \in 1..u.nr /\ t.finish_nr \in 1..t.nr
        BY <1>1, <1>2, <1>3
      <4>2. u.sub[t.finish_nr].pid = Ended
        BY <1>2, <1>6, <4>1
      <4> QED BY <1>1, <1>2, <1>3, <4>1, <4>2 DEF Shape
    <3> QED BY <1>2, <1>3, <3>1, <3>2
  <2>3. Begun(u) = j
    BY <1>1, <1>2, <1>3, <2>1, <2>2 DEF Begun
  <2> QED BY <1>2, <1>3, <1>4, <1>5, <2>2, <2>3, StartMove DEF u
<1> QED BY <1>9, <1>10

\* A finished group goes, or stays as it is: by a poll or by its minute.
LEMMA ForgetLog ==
  ASSUME NEW t \in GroupRecords, Shape(t), AllEnded(t)
  PROVE  Log(NoGroup) \in Queue!Moves(Log(t))
<1>1. /\ Log(t) = LogOf(Accepted(t), Begun(t), t.finish_nr)
      /\ Accepted(t) \in Seq(Cmds) /\ Len(Accepted(t)) = t.finish_nr
      /\ Begun(t) = t.finish_nr /\ Begun(t) \in Nat
  BY LogIs DEF AllEnded, Begun
<1>2. Queue!NoJobs \in Queue!Forget(Log(t))
  BY <1>1, ForgetMove
<1> QED BY <1>2, NoGroupLog DEF Queue!Moves

LEMMA ExpireLog ==
  ASSUME NEW t \in GroupRecords, Shape(t), AllEnded(t)
  PROVE  Log(ExpireGroup(t)) \in Queue!Moves(Log(t))
<1> DEFINE u == [t EXCEPT !.timeout = 0]
<1>1. u.sub = t.sub /\ u.finish_nr = t.finish_nr
  BY DEF GroupRecords
<1>2. ExpireGroup(t) \in {t, u, NoGroup}
  BY DEF ExpireGroup
<1> HIDE DEF u
<1>3. Log(u) = Log(t)
  BY <1>1, SameLog
<1> QED BY <1>2, <1>3, StayMove, ForgetLog

----------------------------------------------------------------------------
(* What the walk over the groups does to one of them.                      *)
\* What a walk makes of group t, b being the group with the end of its reaped
\* command recorded: nothing, the start of its next command, or, when it found
\* the group finished, its expiry.
Walked(b, t, u) ==
  \/ u = b
  \/ b = t /\ AllEnded(t) /\ u = ExpireGroup(b)
  \/ /\ b.finish_nr + 1 \in 1..b.nr
     /\ b.sub[b.finish_nr + 1].pid = Pending
     /\ \E r \in Pids \cup {NoPid} : u = StartTask(b, b.finish_nr + 1, r)

LEMMA WalkIs ==
  ASSUME NEW ch, NEW base \in [Groups -> GroupRecords], NEW from \in [Groups -> Nat],
         Shapes(base),
         \A g \in Groups : from[g] <= base[g].finish_nr + 1,
         \A g \in Groups : AllEnded(igd_sys_task_head[g]) => base[g] = igd_sys_task_head[g],
         Walk(ch, base, from),
         NEW g \in Groups
  PROVE  Walked(base[g], igd_sys_task_head[g], igd_sys_task_head'[g])
<1> DEFINE S == Starters(base, from)
           j == base[g].finish_nr + 1
           u == igd_sys_task_head'[g]
<1>1. base[g] \in GroupRecords /\ Shape(base[g])
  BY DEF Shapes
<1>2. PICK f \in Forks(ch, S) :
        igd_sys_task_head' =
          [h \in Groups |->
             IF h \in S THEN StartTask(base[h], NextOpen(base[h], from[h]), f[h])
             ELSE IF ~AllEnded(igd_sys_task_head[h]) THEN base[h]
             ELSE ExpireGroup(base[h])]
  BY DEF Walk
<1>3. CASE g \in S
  <2>1. from[g] # 0 /\ Starts(base[g], from[g])
    BY <1>3 DEF Starters
  <2>2. from[g] \in 1..(base[g].finish_nr + 1)
    BY <1>1, <2>1, RecordType
  <2>3. NextOpen(base[g], from[g]) = j /\ j \in 1..base[g].nr
    BY <1>1, <2>1, <2>2, NextOpenIs DEF Starts
  <2>4. base[g].sub[j].pid = Pending
    BY <2>1, <2>3 DEF Starts
  <2>5. f[g] \in Pids \cup {NoPid}
    BY <1>3 DEF Forks, FreePids
  <2>6. u = StartTask(base[g], j, f[g])
    BY <1>2, <1>3, <2>3
  <2> HIDE DEF u
  <2> QED BY <2>3, <2>4, <2>5, <2>6 DEF Walked, u
<1>4. CASE g \notin S /\ ~AllEnded(igd_sys_task_head[g])
  BY <1>2, <1>4 DEF Walked
<1>5. CASE g \notin S /\ AllEnded(igd_sys_task_head[g])
  BY <1>2, <1>5 DEF Walked
<1> QED BY <1>3, <1>4, <1>5

\* The two calls of igd_sys_task_check: by the timer no command ends, for a
\* reaped pid at most the one that ran as it.
LEMMA TimerWalked ==
  ASSUME IInv, Timer, NEW g \in Groups
  PROVE  Walked(igd_sys_task_head[g], igd_sys_task_head[g], igd_sys_task_head'[g])
<1> DEFINE H == igd_sys_task_head
           from == [h \in Groups |-> 1]
<1>1. PICK ch \in OomTables : Walk(ch, H, from)
  BY DEF Timer, TaskCheckTimer
<1>2. H \in [Groups -> GroupRecords] /\ Shapes(H)
  BY DEF IInv, TypeOK, TaskTypeOK
<1>3. from \in [Groups -> Nat] /\ \A h \in Groups : from[h] <= H[h].finish_nr + 1
  BY <1>2, RecordType
<1> HIDE DEF from
<1> QED BY <1>1, <1>2, <1>3, WalkIs

EndWalked(t, u) ==
  \E k \in 1..Len(t.sub), how \in ChildStates :
    t.sub[k].pid \in Pids /\ Walked(EndTask(t, k, how), t, u)

LEMMA WaitPidWalked ==
  ASSUME IInv, NEW p \in Pids, WaitPid(p), NEW y \in Groups
  PROVE  \/ igd_sys_task_head'[y] = igd_sys_task_head[y]
         \/ Walked(igd_sys_task_head[y], igd_sys_task_head[y], igd_sys_task_head'[y])
         \/ EndWalked(igd_sys_task_head[y], igd_sys_task_head'[y])
<1> DEFINE ch == Reaped(child, p)
           H  == igd_sys_task_head
<1>1. H \in [Groups -> GroupRecords] /\ Shapes(H)
  BY DEF IInv, TypeOK, TaskTypeOK
<1>2. CASE FindPid(p) # {}
  BY <1>2 DEF WaitPid
<1>3. CASE FindPid(p) = {} /\ Found(p) = {}
  <2> DEFINE from == [g \in Groups |-> 0]
  <2>1. Walk(ch, H, from)
    BY <1>3 DEF WaitPid, TaskCheckPid
  <2>2. from \in [Groups -> Nat] /\ \A g \in Groups : from[g] <= H[g].finish_nr + 1
    BY <1>1, RecordType
  <2> HIDE DEF from, ch
  <2> QED BY <1>1, <2>1, <2>2, WalkIs
<1>4. CASE FindPid(p) = {} /\ Found(p) # {}
  <2>1. TaskCheckPid(p, child[p].st, ch)
    BY <1>4 DEF WaitPid
  <2>2. PICK x \in Found(p) : \E after \in SUBSET Groups :
          LET base == [H EXCEPT ![x[1]] = EndTask(@, x[2], child[p].st)]
          IN Walk(ch, base,
                  [g \in Groups |-> IF g = x[1] THEN x[2] + 1
                                    ELSE IF g \in after THEN 1 ELSE 0])
    BY <1>4, <2>1 DEF TaskCheckPid
  <2>3. PICK after \in SUBSET Groups :
          LET base == [H EXCEPT ![x[1]] = EndTask(@, x[2], child[p].st)]
          IN Walk(ch, base,
                  [g \in Groups |-> IF g = x[1] THEN x[2] + 1
                                    ELSE IF g \in after THEN 1 ELSE 0])
    BY <2>2
  <2> DEFINE g == x[1]
             k == x[2]
             how == child[p].st
             u == EndTask(H[g], k, how)
             base == [H EXCEPT ![g] = EndTask(@, k, child[p].st)]
             from == [h \in Groups |-> IF h = g THEN k + 1
                                       ELSE IF h \in after THEN 1 ELSE 0]
  <2>4. Walk(ch, base, from)
    BY <2>3
  <2>5. /\ g \in Groups /\ k \in 1..Len(H[g].sub) /\ k \in Nat
        /\ H[g].sub[k].pid = p /\ ~AllEnded(H[g])
    BY <1>1, RecordType, TaskAssumption DEF Found
  <2> HIDE DEF g, k, from, how
  <2>6. base[g] = u /\ \A h \in Groups : h # g => base[h] = H[h]
    BY <1>1, <2>5 DEF how
  <2>7. H[g] \in GroupRecords /\ Shape(H[g])
    BY <1>1, <2>5 DEF Shapes
  <2>8. u \in GroupRecords /\ Shape(u) /\ u.finish_nr = k
    BY <2>5, <2>7, EndFacts
  <2> HIDE DEF u
  <2>10. base \in [Groups -> GroupRecords] /\ Shapes(base)
    <3>1. base = [h \in Groups |-> base[h]]
      BY <1>1
    <3> HIDE DEF base
    <3> QED BY <1>1, <2>6, <2>8, <3>1 DEF Shapes
  <2> HIDE DEF base, ch
  <2>11. from \in [Groups -> Nat] /\ \A h \in Groups : from[h] <= base[h].finish_nr + 1
    BY <2>5, <2>6, <2>8, <2>10, RecordType DEF from
  <2>12. \A h \in Groups : AllEnded(H[h]) => base[h] = H[h]
    BY <2>5, <2>6
  <2>13. Walked(base[y], H[y], H'[y])
    BY <2>4, <2>10, <2>11, <2>12, WalkIs
  <2>14. CASE y = g
    <3>1. how \in ChildStates
      BY DEF how, WaitPid, Zombie, ChildStates
    <3> QED BY <2>5, <2>6, <2>13, <2>14, <3>1 DEF EndWalked, u
  <2>15. CASE y # g
    BY <2>6, <2>13, <2>15
  <2> QED BY <2>14, <2>15
<1> QED BY <1>2, <1>3, <1>4

----------------------------------------------------------------------------
(* The handlers are steps of the queue.                                    *)
LEMMA WalkedMoves ==
  ASSUME NEW b \in GroupRecords, Shape(b), NEW t, NEW u, Walked(b, t, u)
  PROVE  \/ Log(u) \in {Log(b)} \cup Queue!Start(Log(b))
         \/ b = t /\ Log(u) \in Queue!Moves(Log(b))
  BY StartLog, ExpireLog DEF Walked

LEMMA PassFacts ==
  ASSUME \A g \in Groups :
           Log(igd_sys_task_head'[g]) \in Queue!Moves(Log(igd_sys_task_head[g]))
  PROVE  Queue!Next
<1> DEFINE jobs == [g \in Groups |-> Log(igd_sys_task_head[g])]
<1>1. \A g \in Groups : jobs'[g] \in Queue!Moves(jobs[g])
  OBVIOUS
<1>2. jobs' \in [Groups -> UNION {Queue!Moves(jobs[g]) : g \in Groups}]
  BY <1>1
<1> QED BY <1>1, <1>2 DEF Queue!Next, Queue!Pass

LEMMA SubmitStep ==
  ASSUME IInv, NEW g \in Groups, NEW c \in Cmds, TaskAdd(g, c)
  PROVE  Queue!Next
<1> DEFINE H == igd_sys_task_head
           t == H[g]
           e == [cmd |-> c, pid |-> Pending, ret |-> "none"]
           s == Append(t.sub, e)
           u == [t EXCEPT !.nr = t.nr + 1, !.timeout = Unset, !.sub = s]
           q == Log(t)
           jobs == [h \in Groups |-> Log(H[h])]
<1>1. H \in [Groups -> GroupRecords] /\ t \in GroupRecords /\ Shape(t)
  BY DEF IInv, TypeOK, TaskTypeOK, Shapes
<1>2. H' = [H EXCEPT ![g] = u] /\ H'[g] = u
  BY <1>1 DEF TaskAdd
<1>3. ~ \E i \in 1..Len(t.sub) : Open(t, i) /\ t.sub[i].cmd = c
  BY DEF TaskAdd
<1>4. e \in Tasks /\ e.pid = Pending /\ e.cmd = c
  BY DEF Tasks, Results
<1>5. /\ t.sub \in Seq(Tasks) /\ t.nr = Len(t.sub) /\ t.nr \in Nat /\ t.finish_nr \in Nat
      /\ t.finish_nr <= t.nr
  BY <1>1, RecordType DEF Shape
<1> HIDE DEF e
<1>6. /\ s \in Seq(Tasks) /\ Len(s) = t.nr + 1 /\ s[t.nr + 1] = e
      /\ \A i \in 1..t.nr : s[i] = t.sub[i]
  BY <1>4, <1>5
<1> HIDE DEF s
<1>7. u.sub = s /\ u.nr = t.nr + 1 /\ u.finish_nr = t.finish_nr /\ u \in GroupRecords
  <2>1. u = AddedTo(t, s)
    BY DEF AddedTo
  <2> HIDE DEF u, t
  <2> QED BY <1>1, <1>6, <2>1, AddedRecord
<1>8. Shape(u)
  BY <1>2, AddTaskFacts DEF Shapes
<1> HIDE DEF u
<1>9. /\ q = LogOf(Accepted(t), Begun(t), t.finish_nr)
      /\ Accepted(t) \in Seq(Cmds) /\ Len(Accepted(t)) = t.nr
  BY <1>1, LogIs
<1>10. /\ Log(u) = LogOf(Accepted(u), Begun(u), t.finish_nr)
       /\ Accepted(u) \in Seq(Cmds) /\ Len(Accepted(u)) = t.nr + 1
  BY <1>7, <1>8, LogIs
<1>11. Begun(u) = Begun(t)
  <2>1. CASE t.finish_nr < t.nr
    <3>1. t.finish_nr + 1 \in 1..t.nr
      BY <1>5, <2>1
    <3>2. u.sub[t.finish_nr + 1] = t.sub[t.finish_nr + 1]
      BY <1>6, <1>7, <3>1
    <3> QED BY <1>5, <1>7, <2>1, <3>2 DEF Begun
  <2>2. CASE t.finish_nr = t.nr
    <3>1. u.sub[t.finish_nr + 1].pid = Pending
      BY <1>4, <1>6, <1>7, <2>2
    <3> QED BY <1>5, <1>7, <2>2, <3>1 DEF Begun
  <2> QED BY <1>5, <2>1, <2>2
<1>12. Accepted(u) = Append(Accepted(t), c)
  <2>1. \A i \in 1..t.nr : Accepted(u)[i] = Accepted(t)[i]
    BY <1>5, <1>6, <1>7 DEF Accepted
  <2>2. Accepted(u)[t.nr + 1] = c
    BY <1>4, <1>5, <1>6, <1>7 DEF Accepted
  <2> QED BY <1>5, <1>9, <1>10, <2>1, <2>2
<1>13. c \notin Queue!Outstanding(q)
  <2> SUFFICES ASSUME c \in Queue!Outstanding(q) PROVE FALSE
    OBVIOUS
  <2>1. q.accepted = Accepted(t) /\ q.ended = t.finish_nr
    BY <1>9 DEF LogOf
  <2>2. PICK i \in (t.finish_nr + 1)..t.nr : Accepted(t)[i] = c
    BY <1>9, <2>1 DEF Queue!Outstanding
  <2>3. i \in 1..Len(t.sub) /\ t.sub[i].cmd = c /\ ~ i <= t.finish_nr
    BY <1>5, <2>2 DEF Accepted
  <2>4. t.sub[i].pid # Ended
    BY <1>1, <1>5, <2>3 DEF Shape
  <2> QED BY <1>3, <2>3, <2>4 DEF Open
<1>14. Log(u) = [q EXCEPT !.accepted = Append(@, c)]
  <2>1. q.accepted = Accepted(t)
    BY <1>9 DEF LogOf
  <2>2. [q EXCEPT !.accepted = Append(Accepted(t), c)] =
          LogOf(Append(Accepted(t), c), Begun(t), t.finish_nr)
    <3>1. q = LogOf(Accepted(t), Begun(t), t.finish_nr)
      BY <1>9
    <3> HIDE DEF q, t
    <3>2. [LogOf(Accepted(t), Begun(t), t.finish_nr) EXCEPT !.accepted = Append(Accepted(t), c)] =
            LogOf(Append(Accepted(t), c), Begun(t), t.finish_nr)
      <4> DEFINE a == Accepted(t)
                 b == Append(a, c)
                 n == Begun(t)
                 m == t.finish_nr
      <4> HIDE DEF a, b, n, m
      <4>1. [LogOf(a, n, m) EXCEPT !.accepted = b] = LogOf(b, n, m)
        BY DEF LogOf
      <4> QED BY <4>1 DEF a, b, n, m
    <3> QED BY <3>1, <3>2
  <2> HIDE DEF q
  <2> QED BY <1>10, <1>11, <1>12, <2>1, <2>2
<1> HIDE DEF q
<1>15. jobs[g] = q /\ jobs' = [jobs EXCEPT ![g] = [q EXCEPT !.accepted = Append(@, c)]]
  <2>1. jobs' = [h \in Groups |-> Log(H'[h])] /\ jobs[g] = q
    BY DEF q
  <2>2. \A h \in Groups : H'[h] = IF h = g THEN u ELSE H[h]
    BY <1>1, <1>2
  <2> HIDE DEF H
  <2>3. \A h \in Groups : Log(H'[h]) = IF h = g THEN Log(u) ELSE Log(H[h])
    BY <2>2
  <2> QED BY <1>14, <2>1, <2>3
<1>16. Queue!Submit(g, c)
  BY <1>13, <1>15 DEF Queue!Submit
<1> QED BY <1>16 DEF Queue!Next

LEMMA DumpQueue ==
  ASSUME IInv, NEW g \in Groups, TaskDump(g)
  PROVE  Queue!Next
<1> DEFINE H == igd_sys_task_head
<1>1. H \in [Groups -> GroupRecords] /\ H[g] \in GroupRecords /\ Shape(H[g])
      /\ AllEnded(H[g]) /\ H' = [H EXCEPT ![g] = NoGroup]
  BY DEF IInv, TypeOK, TaskTypeOK, Shapes, TaskDump
<1>2. ASSUME NEW h \in Groups PROVE Log(H'[h]) \in Queue!Moves(Log(H[h]))
  BY <1>1, ForgetLog, StayMove
<1> QED BY <1>2, PassFacts

LEMMA TimerQueue ==
  ASSUME IInv, Timer
  PROVE  Queue!Next
<1> DEFINE H == igd_sys_task_head
<1>1. ASSUME NEW g \in Groups PROVE Log(H'[g]) \in Queue!Moves(Log(H[g]))
  <2>1. H[g] \in GroupRecords /\ Shape(H[g])
    BY DEF IInv, TypeOK, TaskTypeOK, Shapes
  <2>2. Walked(H[g], H[g], H'[g])
    BY TimerWalked
  <2> QED BY <2>1, <2>2, WalkedMoves DEF Queue!Moves
<1> QED BY <1>1, PassFacts

LEMMA WaitPidQueue ==
  ASSUME IInv, NEW p \in Pids, WaitPid(p)
  PROVE  Queue!Next
<1> DEFINE H == igd_sys_task_head
<1>1. ASSUME NEW g \in Groups PROVE Log(H'[g]) \in Queue!Moves(Log(H[g]))
  <2> DEFINE t == H[g]
             u == H'[g]
  <2> SUFFICES Log(u) \in Queue!Moves(Log(t))
    OBVIOUS
  <2>1. t \in GroupRecords /\ Shape(t)
    BY DEF IInv, TypeOK, TaskTypeOK, Shapes
  <2>2. u = t \/ Walked(t, t, u) \/ EndWalked(t, u)
    BY WaitPidWalked
  <2> HIDE DEF t, u
  <2>3. CASE u = t
    BY <2>3, StayMove
  <2>4. CASE Walked(t, t, u)
    BY <2>1, <2>4, WalkedMoves DEF Queue!Moves
  <2>5. CASE EndWalked(t, u)
    <3>1. PICK k \in 1..Len(t.sub), how \in ChildStates :
            t.sub[k].pid \in Pids /\ Walked(EndTask(t, k, how), t, u)
      BY <2>5 DEF EndWalked
    <3> DEFINE b == EndTask(t, k, how)
    <3>2. b \in GroupRecords /\ Shape(b) /\ b.sub[k].pid = Ended
      BY <2>1, <3>1, EndFacts
    <3>3. Log(b) \in Queue!End(Log(t))
      BY <2>1, <3>1, EndLog
    <3>4. b # t
      BY <3>1, <3>2, PidFact
    <3> HIDE DEF b
    <3>5. Log(u) \in {Log(b)} \cup Queue!Start(Log(b))
      BY <3>1, <3>2, <3>4, WalkedMoves DEF b
    <3> QED BY <3>3, <3>5, EndStartMove DEF Queue!Moves
  <2> QED BY <2>2, <2>3, <2>4, <2>5
<1> QED BY <1>1, PassFacts

LEMMA TickQueue ==
  ASSUME IInv, TaskTick
  PROVE  Queue!Next
<1> DEFINE H == igd_sys_task_head
           aged(t) == IF t.timeout \in 0..TaskKeep THEN [t EXCEPT !.timeout = @ + 1] ELSE t
<1>1. H \in [Groups -> GroupRecords] /\ H' = [g \in Groups |-> aged(H[g])]
  BY DEF IInv, TypeOK, TaskTypeOK, TaskTick
<1>2. ASSUME NEW t \in GroupRecords
      PROVE  aged(t).sub = t.sub /\ aged(t).finish_nr = t.finish_nr
  BY DEF GroupRecords
<1> HIDE DEF aged
<1>3. ASSUME NEW g \in Groups PROVE Log(H'[g]) \in Queue!Moves(Log(H[g]))
  <2>1. Log(aged(H[g])) = Log(H[g])
    BY <1>1, <1>2, SameLog
  <2> QED BY <1>1, <2>1, StayMove
<1> QED BY <1>3, PassFacts

----------------------------------------------------------------------------
(* The refinement.                                                         *)
LEMMA InitQueue == Init => Queue!Init
<1> SUFFICES ASSUME Init PROVE Queue!Init
  OBVIOUS
<1>1. igd_sys_task_head = [g \in Groups |-> NoGroup]
  BY DEF Init, TaskInit
<1> QED BY <1>1, NoGroupLog DEF Queue!Init

LEMMA NextQueue ==
  IInv /\ [Next]_vars =>
    [Queue!Next]_([g \in Groups |-> Log(igd_sys_task_head[g])])
<1> SUFFICES ASSUME IInv, [Next]_vars
             PROVE  Queue!Next \/ igd_sys_task_head' = igd_sys_task_head
  OBVIOUS
<1>1. CASE UNCHANGED vars
  BY <1>1 DEF vars
<1>2. ASSUME NEW n \in DaemonNames, AddDaemon(n) \/ DelDaemon(n)
      PROVE  igd_sys_task_head' = igd_sys_task_head
  BY <1>2 DEF AddDaemon, DelDaemon
<1>3. ASSUME NEW g \in Groups, NEW c \in Cmds, AddTask(g, c) PROVE Queue!Next
  BY <1>3, SubmitStep DEF AddTask
<1>4. ASSUME NEW g \in Groups, DumpTask(g) PROVE Queue!Next
  BY <1>4, DumpQueue DEF DumpTask
<1>5. ASSUME NEW p \in Pids, WaitPid(p) PROVE Queue!Next
  BY <1>5, WaitPidQueue
<1>6. ASSUME NEW p \in Pids, ReportOom(p) \/ ChildExit(p) \/ ChildDie(p)
      PROVE  igd_sys_task_head' = igd_sys_task_head
  BY <1>6 DEF ReportOom, ChildExit, ChildDie
<1>7. CASE Timer
  BY <1>7, TimerQueue
<1>8. CASE Exec
  BY <1>8 DEF Exec
<1>9. CASE Tick
  BY <1>9, TickQueue DEF Tick
<1> QED BY <1>1, <1>2, <1>3, <1>4, <1>5, <1>6, <1>7, <1>8, <1>9 DEF Next

\* The task runner keeps what JobQueue promises its clients: whatever exits,
\* failed forks, polls and requests come in whatever order, the commands of a
\* group start in the order they were accepted, one at a time, no command is
\* lost or run twice, and a group is forgotten only when all of it has ended.
THEOREM TaskRunnerRefines == Spec => ImplementsJobQueue
<1> QED BY InitQueue, NextQueue, Inductive, PTL DEF Spec, ImplementsJobQueue, Queue!Spec

----------------------------------------------------------------------------
(* The counters a client polls.                                            *)
Errors(t) == {i \in 1..Len(t.sub) : t.sub[i].ret = "error"}

\* err_nr counts the errors, and only an ended command has one: the end of a
\* command is never counted over an error it already had.
Counted(t) ==
  /\ t.err_nr = Cardinality(Errors(t))
  /\ \A i \in 1..Len(t.sub) : t.sub[i].ret = "error" => t.sub[i].pid = Ended

Counting == \A g \in Groups : Counted(igd_sys_task_head[g])

LEMMA SameCounted ==
  ASSUME NEW t, Counted(t), NEW u, u.sub = t.sub, u.err_nr = t.err_nr
  PROVE  Counted(u)
  BY DEF Counted, Errors

LEMMA NoGroupCounted == Counted(NoGroup)
<1>1. Errors(NoGroup) = {} /\ NoGroup.err_nr = 0 /\ Len(NoGroup.sub) = 0
  BY NoGroupFacts DEF Errors, NoGroup
<1> QED BY <1>1, FS_EmptySet DEF Counted

LEMMA ErrorsFinite ==
  ASSUME NEW t \in GroupRecords
  PROVE  IsFiniteSet(Errors(t)) /\ Cardinality(Errors(t)) \in Nat
<1>1. Len(t.sub) \in Nat
  BY RecordType
<1>2. IsFiniteSet(1..Len(t.sub))
  BY <1>1, FS_Interval
<1>3. Errors(t) \in SUBSET (1..Len(t.sub))
  BY DEF Errors
<1> QED BY <1>2, <1>3, FS_Subset, FS_CardinalityType

\* Command k, not ended before, becomes e; err_nr counts it if e is an error.
LEMMA ReplacedCounted ==
  ASSUME NEW t \in GroupRecords, Counted(t), NEW k \in 1..Len(t.sub),
         t.sub[k].pid # Ended,
         NEW e \in Tasks, e.ret = "error" => e.pid = Ended,
         NEW f \in Nat, NEW n \in Nat,
         n = IF e.ret = "error" THEN t.err_nr + 1 ELSE t.err_nr
  PROVE  Counted(Replaced(t, k, e, f, n))
<1> DEFINE u == Replaced(t, k, e, f, n)
<1>1. /\ u \in GroupRecords /\ Len(u.sub) = Len(t.sub) /\ u.sub[k] = e
      /\ \A i \in 1..Len(t.sub) : i # k => u.sub[i] = t.sub[i]
  BY NewRecord
<1>2. u.err_nr = n
  BY DEF Replaced, GroupRecords
<1> HIDE DEF u
<1>3. k \notin Errors(t)
  BY DEF Counted, Errors
<1>4. Errors(u) = IF e.ret = "error" THEN Errors(t) \cup {k} ELSE Errors(t)
  BY <1>1, <1>3 DEF Errors
<1>5. Cardinality(Errors(u)) = n
  <2> DEFINE E == Errors(t)
  <2>1. IsFiniteSet(E) /\ Cardinality(E) = t.err_nr /\ k \notin E
    BY <1>3, ErrorsFinite DEF Counted
  <2> HIDE DEF E
  <2>2. Cardinality(E \cup {k}) = t.err_nr + 1
    BY <2>1, FS_AddElement
  <2> QED BY <1>4, <2>1, <2>2 DEF E
<1>6. \A i \in 1..Len(u.sub) : u.sub[i].ret = "error" => u.sub[i].pid = Ended
  BY <1>1 DEF Counted
<1> QED BY <1>2, <1>5, <1>6 DEF Counted, u

LEMMA StartCounted ==
  ASSUME NEW t \in GroupRecords, Counted(t), NEW j \in 1..Len(t.sub),
         t.sub[j].pid = Pending, NEW r \in Pids \cup {NoPid}
  PROVE  Counted(StartTask(t, j, r))
<1>1. /\ t.finish_nr \in Nat /\ t.err_nr \in Nat /\ t.sub[j] \in Tasks
      /\ t.sub[j].pid # Ended /\ t.sub[j].ret # "error"
  <2>1. Pending # Ended
    BY DEF Pending, Ended
  <2> QED BY <2>1, RecordType DEF Counted
<1>2. CASE r # NoPid
  <2> DEFINE e == [t.sub[j] EXCEPT !.pid = r]
  <2>1. e \in Tasks /\ e.ret # "error"
    BY <1>1, <1>2 DEF Tasks
  <2>2. StartTask(t, j, r) = Replaced(t, j, e, t.finish_nr, t.err_nr)
    BY <1>2 DEF StartTask, GroupRecords, Replaced
  <2> HIDE DEF e
  <2> QED BY <1>1, <2>1, <2>2, ReplacedCounted
<1>3. CASE r = NoPid
  <2> DEFINE e == Finished(t.sub[j], "error")
  <2>1. e \in Tasks /\ e.pid = Ended /\ e.ret = "error"
    BY <1>1 DEF Finished, Tasks, Results
  <2>2. StartTask(t, j, r) = Replaced(t, j, e, t.finish_nr + 1, t.err_nr + 1)
    BY <1>3 DEF StartTask, Replaced
  <2> HIDE DEF e
  <2> QED BY <1>1, <2>1, <2>2, ReplacedCounted
<1> QED BY <1>2, <1>3

LEMMA EndCounted ==
  ASSUME NEW t \in GroupRecords, Counted(t), NEW k \in 1..Len(t.sub),
         t.sub[k].pid \in Pids, NEW how
  PROVE  Counted(EndTask(t, k, how))
<1> DEFINE ret == IF how = "signaled" THEN "error" ELSE "ok"
           e == Finished(t.sub[k], ret)
           n == IF ret = "error" THEN t.err_nr + 1 ELSE t.err_nr
<1>1. /\ t.finish_nr \in Nat /\ t.err_nr \in Nat /\ t.sub[k] \in Tasks
      /\ t.sub[k].pid # Ended
  BY RecordType, PidFact
<1>2. ret \in Results
  BY DEF Results
<1>3. EndTask(t, k, how) = Replaced(t, k, e, t.finish_nr + 1, n)
  BY DEF EndTask, Replaced
<1> HIDE DEF ret
<1>4. e \in Tasks /\ e.pid = Ended /\ e.ret = ret
  BY <1>1, <1>2 DEF Finished, Tasks
<1>5. n \in Nat
  BY <1>1
<1> HIDE DEF e
<1> QED BY <1>1, <1>3, <1>4, <1>5, ReplacedCounted

LEMMA ExpireCounted ==
  ASSUME NEW t \in GroupRecords, Counted(t)
  PROVE  Counted(ExpireGroup(t))
<1> DEFINE u == [t EXCEPT !.timeout = 0]
<1>1. u.sub = t.sub /\ u.err_nr = t.err_nr
  BY DEF GroupRecords
<1>2. ExpireGroup(t) \in {t, u, NoGroup}
  BY DEF ExpireGroup
<1> HIDE DEF u
<1> QED BY <1>1, <1>2, SameCounted, NoGroupCounted

LEMMA WalkedCounted ==
  ASSUME NEW b \in GroupRecords, Shape(b), Counted(b), NEW t, NEW u, Walked(b, t, u)
  PROVE  Counted(u)
<1>1. b.nr = Len(b.sub)
  BY DEF Shape
<1> QED BY <1>1, StartCounted, ExpireCounted DEF Walked

LEMMA AddedCounted ==
  ASSUME IInv, Counting, NEW g \in Groups, NEW c \in Cmds, TaskAdd(g, c)
  PROVE  Counting'
<1> DEFINE H == igd_sys_task_head
           t == H[g]
           e == [cmd |-> c, pid |-> Pending, ret |-> "none"]
           s == Append(t.sub, e)
           u == [t EXCEPT !.nr = t.nr + 1, !.timeout = Unset, !.sub = s]
<1>1. H \in [Groups -> GroupRecords] /\ t \in GroupRecords /\ Counted(t)
  BY DEF IInv, TypeOK, TaskTypeOK, Counting
<1>2. H' = [H EXCEPT ![g] = u]
  BY DEF TaskAdd
<1>3. e \in Tasks /\ e.ret # "error"
  BY DEF Tasks, Results
<1>4. t.sub \in Seq(Tasks) /\ Len(t.sub) \in Nat
  BY <1>1, RecordType
<1> HIDE DEF e
<1>5. /\ Len(s) = Len(t.sub) + 1 /\ s[Len(t.sub) + 1] = e
      /\ \A i \in 1..Len(t.sub) : s[i] = t.sub[i]
  BY <1>3, <1>4
<1> HIDE DEF s
<1>6. u.sub = s /\ u.err_nr = t.err_nr
  BY <1>1 DEF GroupRecords
<1> HIDE DEF u
<1>7. Errors(u) = Errors(t)
  BY <1>3, <1>4, <1>5, <1>6 DEF Errors
<1>8. \A i \in 1..Len(u.sub) : u.sub[i].ret = "error" => u.sub[i].pid = Ended
  BY <1>1, <1>3, <1>4, <1>5, <1>6 DEF Counted
<1>9. Counted(u)
  BY <1>1, <1>6, <1>7, <1>8 DEF Counted
<1> QED BY <1>1, <1>2, <1>9 DEF Counting

LEMMA CountingKept ==
  ASSUME IInv, Counting, [Next]_vars
  PROVE  Counting'
<1> DEFINE H == igd_sys_task_head
<1>0. \A g \in Groups : H[g] \in GroupRecords /\ Shape(H[g]) /\ Counted(H[g])
  BY DEF IInv, TypeOK, TaskTypeOK, Shapes, Counting
<1>1. CASE H' = H
  BY <1>1 DEF Counting
<1>2. ASSUME NEW g \in Groups, DumpTask(g) PROVE Counting'
  <2>1. H \in [Groups -> GroupRecords] /\ H' = [H EXCEPT ![g] = NoGroup]
    BY <1>2 DEF DumpTask, TaskDump, IInv, TypeOK, TaskTypeOK
  <2> QED BY <1>0, <2>1, NoGroupCounted DEF Counting
<1>3. ASSUME NEW p \in Pids, WaitPid(p) PROVE Counting'
  <2>1. ASSUME NEW g \in Groups PROVE Counted(H'[g])
    <3> DEFINE t == H[g]
               u == H'[g]
    <3> SUFFICES Counted(u)
      OBVIOUS
    <3>1. u = t \/ Walked(t, t, u) \/ EndWalked(t, u)
      BY <1>3, WaitPidWalked
    <3>2. t \in GroupRecords /\ Shape(t) /\ Counted(t)
      BY <1>0
    <3> HIDE DEF t, u
    <3>3. CASE EndWalked(t, u)
      <4>1. PICK k \in 1..Len(t.sub), how \in ChildStates :
              t.sub[k].pid \in Pids /\ Walked(EndTask(t, k, how), t, u)
        BY <3>3 DEF EndWalked
      <4> DEFINE b == EndTask(t, k, how)
      <4>2. b \in GroupRecords /\ Shape(b)
        BY <3>2, <4>1, EndFacts
      <4>3. Counted(b)
        BY <3>2, <4>1, EndCounted
      <4> HIDE DEF b
      <4> QED BY <4>1, <4>2, <4>3, WalkedCounted DEF b
    <3> QED BY <3>1, <3>2, <3>3, WalkedCounted
  <2> QED BY <2>1 DEF Counting
<1>4. CASE Timer
  <2>1. ASSUME NEW g \in Groups PROVE Counted(H'[g])
    BY <1>0, <1>4, TimerWalked, WalkedCounted
  <2> QED BY <2>1 DEF Counting
<1>5. CASE Tick
  <2> DEFINE aged(t) == IF t.timeout \in 0..TaskKeep THEN [t EXCEPT !.timeout = @ + 1] ELSE t
  <2>1. H' = [g \in Groups |-> aged(H[g])]
    BY <1>5 DEF Tick, TaskTick
  <2>2. ASSUME NEW t \in GroupRecords PROVE aged(t).sub = t.sub /\ aged(t).err_nr = t.err_nr
    BY DEF GroupRecords
  <2> HIDE DEF aged
  <2>3. \A g \in Groups : Counted(aged(H[g]))
    BY <1>0, <2>2, SameCounted
  <2> QED BY <2>1, <2>3 DEF Counting
<1>6. ASSUME NEW n \in DaemonNames, AddDaemon(n) \/ DelDaemon(n) PROVE H' = H
  BY <1>6 DEF AddDaemon, DelDaemon
<1>7. ASSUME NEW p \in Pids, ReportOom(p) \/ ChildExit(p) \/ ChildDie(p) PROVE H' = H
  BY <1>7 DEF ReportOom, ChildExit, ChildDie
<1>8. ASSUME NEW g \in Groups, NEW c \in Cmds, AddTask(g, c) PROVE Counting'
  BY <1>8, AddedCounted DEF AddTask
<1>9. UNCHANGED vars \/ Exec => H' = H
  BY DEF vars, Exec
<1> QED BY <1>1, <1>2, <1>3, <1>4, <1>5, <1>6, <1>7, <1>8, <1>9 DEF Next

LEMMA CountersFollow ==
  ASSUME IInv, Counting
  PROVE  CountersAgree
<1> SUFFICES ASSUME NEW g \in Groups
             PROVE  LET t == igd_sys_task_head[g] IN
                      /\ t.nr = Len(t.sub)
                      /\ t.finish_nr = Cardinality({i \in 1..Len(t.sub) : t.sub[i].pid = Ended})
                      /\ t.err_nr = Cardinality({i \in 1..Len(t.sub) : t.sub[i].ret = "error"})
  BY DEF CountersAgree
<1> DEFINE t == igd_sys_task_head[g]
<1>1. t \in GroupRecords /\ Shape(t) /\ Counted(t)
  BY DEF IInv, TypeOK, TaskTypeOK, Shapes, Counting
<1> HIDE DEF t
<1>2. /\ t.nr \in Nat /\ t.finish_nr \in Nat /\ t.nr = Len(t.sub) /\ t.finish_nr <= t.nr
      /\ \A i \in 1..Len(t.sub) : t.sub[i].pid = Ended <=> i <= t.finish_nr
  BY <1>1, RecordType DEF Shape
<1>3. {i \in 1..Len(t.sub) : t.sub[i].pid = Ended} = 1..t.finish_nr
  BY <1>2
<1>4. Cardinality(1..t.finish_nr) = t.finish_nr
  BY <1>2, FS_Interval
<1> QED BY <1>1, <1>2, <1>3, <1>4 DEF Counted, Errors, t

\* The numbers TASK_DUMP answers a client with (commands, ended, in error) are
\* those of the commands, although they are counted up in five places.
THEOREM Counters == Spec => []CountersAgree
<1>1. Init => Counting
  BY NoGroupCounted DEF Init, TaskInit, Counting
<1>2. IInv /\ Counting /\ [Next]_vars => Counting'
  BY CountingKept
<1>3. IInv /\ Counting => CountersAgree
  BY CountersFollow
<1> QED BY <1>1, <1>2, <1>3, Inductive, PTL DEF Spec
=============================================================================
