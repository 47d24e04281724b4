------------------------- MODULE MuSupervisorProofs -------------------------
(***************************************************************************)
(* Proofs about MuSupervisor, for every process table, every set of        *)
(* daemons, commands and groups, and every value of the bounds.            *)
(*                                                                         *)
(* The invariants of MuSupervisor are inductive only together with what    *)
(* ties the two lists to the child table: a reaped pid must be known to    *)
(* have had at most one owner, and a free pid none.  Handlers that kill or *)
(* fork twice pass through tables that are never a state, so the parts of  *)
(* the invariant are stated of a child table ch, a list L and groups H.    *)
(***************************************************************************)
EXTENDS MuSupervisor, TLAPS

ChildTables == [Pids -> Children \cup {Free}]

\* The supervisor's part: entries and daemon processes match one to one.
DaemonsMatch(ch, L) ==
  /\ \A d, e \in L : d.name = e.name => d = e
  /\ \A d \in L : ch[d.pid] # Free /\ ch[d.pid].prog = d.name
  /\ \A p \in Pids : ch[p].st = "run" /\ ch[p].prog \in DaemonNames =>
                       \E d \in L : d.pid = p

\* The task runner's part: a group is an ended prefix, at most one command that
\* runs, and pending ones; finish_nr is the length of the prefix.
Shape(t) ==
  /\ t.nr = Len(t.sub)
  /\ t.nr <= MaxTasks
  /\ t.finish_nr <= t.nr
  /\ \A i \in 1..t.nr : t.sub[i].pid = Ended <=> i <= t.finish_nr
  /\ \A i \in 1..t.nr : i > t.finish_nr + 1 => t.sub[i].pid = Pending

Shapes(H) == \A g \in Groups : Shape(H[g])

\* Running commands and command processes match one to one.
TasksMatch(ch, H) ==
  /\ \A g \in Groups : \A i \in 1..Len(H[g].sub) :
       H[g].sub[i].pid \in Pids =>
         ch[H[g].sub[i].pid] # Free /\ ch[H[g].sub[i].pid].prog = H[g].sub[i].cmd
  /\ \A g, h \in Groups : \A i \in 1..Len(H[g].sub), j \in 1..Len(H[h].sub) :
       H[g].sub[i].pid \in Pids /\ H[g].sub[i].pid = H[h].sub[j].pid => g = h /\ i = j
  /\ \A p \in Pids : ch[p] # Free /\ ch[p].prog \in Cmds =>
       \E g \in Groups : \E i \in 1..Len(H[g].sub) : H[g].sub[i].pid = p

IInv ==
  /\ TypeOK
  /\ DaemonsMatch(child, sys_daemon_list)
  /\ Shapes(igd_sys_task_head)
  /\ TasksMatch(child, igd_sys_task_head)

----------------------------------------------------------------------------
(* System calls on a child table.                                          *)
LEMMA FreeFact == Free.st = "free" /\ Free.prog = Background /\ Free \notin Children
  BY DEF Free, Children, ChildStates

LEMMA PidFact == \A p \in Pids : p # Pending /\ p # Ended /\ p # NoPid
  BY TaskPidAssumption

LEMMA ForkType ==
  ASSUME NEW ch \in ChildTables, NEW r \in ForkResults(ch), NEW prog \in Programs
  PROVE  /\ Forked(ch, r, prog) \in ChildTables
         /\ r # NoPid => /\ r \in Pids
                         /\ ch[r] = Free
                         /\ Forked(ch, r, prog)[r] = [st |-> "run", prog |-> prog]
         /\ \A p \in Pids : p # r => Forked(ch, r, prog)[p] = ch[p]
  BY TaskPidAssumption DEF ChildTables, ForkResults, FreePids, Forked, Children, ChildStates

LEMMA ForkOnly ==
  ASSUME NEW ch \in ChildTables, NEW prog \in Programs, NEW r \in ForkResults(ch)
  PROVE  /\ Forked(ch, r, prog) \in ChildTables
         /\ \A p \in Pids : Forked(ch, r, prog)[p] = ch[p]
                             \/ (ch[p] = Free /\ Forked(ch, r, prog)[p].prog = prog)
<1> DEFINE fch == Forked(ch, r, prog)
<1>1. fch \in ChildTables /\ \A p \in Pids : p # r => fch[p] = ch[p]
  BY ForkType
<1>2. r # NoPid => ch[r] = Free /\ fch[r] = [st |-> "run", prog |-> prog]
  BY ForkType
<1>3. \A p \in Pids : p # NoPid
  BY PidFact
<1> HIDE DEF fch
<1> QED BY <1>1, <1>2, <1>3 DEF fch

LEMMA ForkDaemon ==
  ASSUME NEW ch \in ChildTables, NEW L \in SUBSET Entries,
         DaemonsMatch(ch, L),
         NEW n \in DaemonNames, \A d \in L : d.name # n,
         NEW r \in ForkResults(ch)
  PROVE  /\ L \cup Entry(n, r) \in SUBSET Entries
         /\ DaemonsMatch(Forked(ch, r, n), L \cup Entry(n, r))
<1> n \in Programs
  BY DEF Programs
<1>1. CASE r = NoPid
  BY <1>1 DEF Forked, Entry
<1>2. CASE r # NoPid
  <2> DEFINE new == [name |-> n, pid |-> r]
             fch == Forked(ch, r, n)
  <2>1. r \in Pids /\ ch[r] = Free /\ fch[r] = [st |-> "run", prog |-> n]
    BY <1>2, ForkType
  <2>2. \A p \in Pids : p # r => fch[p] = ch[p]
    BY ForkType
  <2>3. Entry(n, r) = {new}
    BY <1>2 DEF Entry
  <2>4. \A d \in L : d.pid \in Pids /\ d.pid # r
    BY <2>1 DEF DaemonsMatch, Entries
  <2>5. fch[r] # Free
    BY <2>1, FreeFact
  <2> HIDE DEF fch
  <2>6. \A d \in L \cup {new} : fch[d.pid] # Free /\ fch[d.pid].prog = d.name
    BY <2>1, <2>2, <2>4, <2>5 DEF DaemonsMatch
  <2>7. ASSUME NEW p \in Pids, fch[p].st = "run", fch[p].prog \in DaemonNames
        PROVE  \E d \in L \cup {new} : d.pid = p
    <3>1. CASE p = r
      <4> new.pid = p /\ new \in L \cup {new}
        BY <3>1
      <4> QED OBVIOUS
    <3>2. CASE p # r
      BY <2>2, <2>7, <3>2 DEF DaemonsMatch
    <3> QED BY <3>1, <3>2
  <2>8. \A d, e \in L \cup {new} : d.name = e.name => d = e
    BY DEF DaemonsMatch
  <2>9. L \cup {new} \in SUBSET Entries
    BY <2>1 DEF Entries
  <2> QED BY <2>3, <2>6, <2>7, <2>8, <2>9 DEF DaemonsMatch, fch
<1> QED BY <1>1, <1>2

\* A kill and a removal: the entry of the killed process goes.
LEMMA KillDaemon ==
  ASSUME NEW ch \in ChildTables, NEW L \in SUBSET Entries,
         DaemonsMatch(ch, L), NEW d \in L
  PROVE  /\ Killed(ch, d.pid) \in ChildTables
         /\ L \ {d} \in SUBSET Entries
         /\ DaemonsMatch(Killed(ch, d.pid), L \ {d})
         /\ \A p \in Pids : /\ Killed(ch, d.pid)[p] = Free <=> ch[p] = Free
                           /\ Killed(ch, d.pid)[p].prog = ch[p].prog
<1> DEFINE kch == Killed(ch, d.pid)
<1>1. d.pid \in Pids
  BY DEF Entries
<1>2. \A p \in Pids : ch[p] = Free \/ ch[p] \in Children
  BY DEF ChildTables
<1>3. /\ kch \in ChildTables
      /\ \A p \in Pids : p # d.pid => kch[p] = ch[p]
      /\ kch[d.pid].st # "run" /\ kch[d.pid].prog = ch[d.pid].prog
      /\ kch[d.pid] = Free <=> ch[d.pid] = Free
  <2>1. CASE ch[d.pid].st = "run"
    <3>1. ch[d.pid] \in Children
      BY <1>1, <1>2, <2>1, FreeFact
    <3>2. kch[d.pid] = [ch[d.pid] EXCEPT !.st = "dying"] /\ kch[d.pid] \in Children
      BY <1>1, <2>1, <3>1 DEF Killed, ChildTables, Children, ChildStates
    <3>3. kch[d.pid].st = "dying" /\ kch[d.pid].prog = ch[d.pid].prog
      BY <3>1, <3>2 DEF Children
    <3> QED BY <1>1, <2>1, <3>1, <3>2, <3>3, FreeFact DEF Killed, ChildTables
  <2>2. CASE ch[d.pid].st # "run"
    BY <2>2 DEF Killed
  <2> QED BY <2>1, <2>2
<1> HIDE DEF kch
<1>4. \A e \in L \ {d} : e.pid \in Pids /\ e.pid # d.pid
  BY DEF DaemonsMatch, Entries
<1>5. ASSUME NEW p \in Pids, kch[p].st = "run", kch[p].prog \in DaemonNames
      PROVE  \E e \in L \ {d} : e.pid = p
  BY <1>3, <1>5 DEF DaemonsMatch
<1>6. \A e \in L \ {d} : kch[e.pid] # Free /\ kch[e.pid].prog = e.name
  BY <1>3, <1>4 DEF DaemonsMatch
<1>7. \A e, x \in L \ {d} : e.name = x.name => e = x
  BY DEF DaemonsMatch
<1>8. DaemonsMatch(kch, L \ {d})
  BY <1>5, <1>6, <1>7 DEF DaemonsMatch
<1> QED BY <1>3, <1>8 DEF kch

LEMMA RecordType ==
  ASSUME NEW t \in GroupRecords
  PROVE  /\ t.nr \in Nat /\ t.err_nr \in Nat /\ t.finish_nr \in Nat
         /\ t.sub \in Seq(Tasks) /\ Len(t.sub) \in Nat
         /\ \A i \in 1..Len(t.sub) :
              /\ t.sub[i] \in Tasks /\ t.sub[i].cmd \in Cmds
              /\ t.sub[i].pid \in Pids \cup {Pending, Ended}
<1>1. t.nr \in Nat /\ t.err_nr \in Nat /\ t.finish_nr \in Nat /\ t.sub \in Seq(Tasks)
  BY DEF GroupRecords
<1>2. Len(t.sub) \in Nat /\ \A i \in 1..Len(t.sub) : t.sub[i] \in Tasks
  BY <1>1
<1> QED BY <1>1, <1>2 DEF Tasks

\* A table in which programs and owners of pids are the same, and nothing of a
\* daemon starts to run, serves the same entries and commands.
LEMMA SameDaemons ==
  ASSUME NEW ch, NEW ch2, NEW L \in SUBSET Entries,
         DaemonsMatch(ch, L),
         \A d \in L : ch2[d.pid] # Free /\ ch2[d.pid].prog = ch[d.pid].prog,
         \A p \in Pids : ch2[p].st = "run" /\ ch2[p].prog \in DaemonNames =>
                            ch[p].st = "run" /\ ch[p].prog = ch2[p].prog
  PROVE  DaemonsMatch(ch2, L)
  BY DEF DaemonsMatch

LEMMA SameTasks ==
  ASSUME NEW ch, NEW ch2, NEW H \in [Groups -> GroupRecords],
         TasksMatch(ch, H),
         \A p \in Pids : (ch[p] # Free /\ ch[p].prog \in Cmds) =>
                            ch2[p] # Free /\ ch2[p].prog = ch[p].prog,
         \A p \in Pids : (ch2[p] # Free /\ ch2[p].prog \in Cmds) =>
                            ch[p] # Free /\ ch[p].prog = ch2[p].prog
  PROVE  TasksMatch(ch2, H)
<1>1. \A g \in Groups : \A i \in 1..Len(H[g].sub) : H[g].sub[i].cmd \in Cmds
  BY RecordType
<1> QED BY <1>1 DEF TasksMatch

\* Reaping a process that no entry names.
LEMMA ReapType ==
  ASSUME NEW ch \in ChildTables, NEW p \in Pids
  PROVE  /\ Reaped(ch, p) \in ChildTables
         /\ Reaped(ch, p)[p] = Free
         /\ \A q \in Pids : q # p => Reaped(ch, p)[q] = ch[q]
  BY DEF ChildTables, Reaped

LEMMA ReapOther ==
  ASSUME NEW ch \in ChildTables, NEW L \in SUBSET Entries,
         DaemonsMatch(ch, L), NEW p \in Pids, \A d \in L : d.pid # p
  PROVE  DaemonsMatch(Reaped(ch, p), L)
<1>1. \A d \in L : d.pid \in Pids /\ d.pid # p
  BY DEF Entries
<1> QED BY <1>1, ReapType, FreeFact DEF DaemonsMatch

\* Reaping the process of an entry, with the entry taken out.
LEMMA ReapDaemon ==
  ASSUME NEW ch \in ChildTables, NEW L \in SUBSET Entries,
         DaemonsMatch(ch, L), NEW d \in L
  PROVE  DaemonsMatch(Reaped(ch, d.pid), L \ {d})
<1>1. d.pid \in Pids /\ \A e \in L \ {d} : e.pid \in Pids /\ e.pid # d.pid
  BY DEF DaemonsMatch, Entries
<1> QED BY <1>1, ReapType, FreeFact DEF DaemonsMatch

----------------------------------------------------------------------------
(* One group of the task runner.                                           *)
LEMMA NextOpenIs ==
  ASSUME NEW t \in GroupRecords, Shape(t), NEW i \in 1..(t.finish_nr + 1)
  PROVE  NextOpen(t, i) # 0 =>
           NextOpen(t, i) = t.finish_nr + 1 /\ NextOpen(t, i) \in 1..t.nr
<1> DEFINE open == {j \in i..Len(t.sub) : t.sub[j].pid # Ended}
           m    == t.finish_nr + 1
<1>1. t.nr \in Nat /\ t.finish_nr \in Nat /\ t.nr = Len(t.sub) /\ t.finish_nr <= t.nr
  BY RecordType DEF Shape
<1>2. \A j \in open : j \in 1..t.nr /\ j >= m
  BY <1>1 DEF Shape
<1>3. CASE t.finish_nr = t.nr
  <2>1. open = {}
    BY <1>1, <1>2, <1>3
  <2> QED BY <2>1 DEF NextOpen
<1>4. CASE t.finish_nr # t.nr
  <2>1. m \in 1..t.nr /\ t.sub[m].pid # Ended
    BY <1>1, <1>4 DEF Shape
  <2>2. m \in open
    BY <1>1, <2>1
  <2>3. \A k \in open : m <= k
    BY <1>1, <1>2
  <2> DEFINE c == CHOOSE j \in open : \A k \in open : j <= k
  <2>4. c \in open /\ \A k \in open : c <= k
    BY <2>2, <2>3
  <2>5. c = m
    BY <1>1, <1>2, <2>2, <2>4
  <2>6. NextOpen(t, i) = c
    BY <2>2 DEF NextOpen
  <2> QED BY <2>1, <2>5, <2>6
<1> QED BY <1>3, <1>4

LEMMA SubExcept ==
  ASSUME NEW s \in Seq(Tasks), NEW i \in 1..Len(s), NEW e \in Tasks
  PROVE  LET u == [s EXCEPT ![i] = e]
         IN /\ u \in Seq(Tasks) /\ Len(u) = Len(s) /\ u[i] = e
            /\ \A j \in 1..Len(s) : j # i => u[j] = s[j]
  OBVIOUS

LEMMA StartedFacts ==
  ASSUME NEW x \in Tasks, NEW p \in Pids
  PROVE  /\ [x EXCEPT !.pid = p] \in Tasks
         /\ [x EXCEPT !.pid = p].pid = p /\ [x EXCEPT !.pid = p].cmd = x.cmd
  BY DEF Tasks

LEMMA EndedFacts ==
  ASSUME NEW x \in Tasks, NEW ret \in Results
  PROVE  /\ Finished(x, ret) \in Tasks
         /\ Finished(x, ret).pid = Ended /\ Finished(x, ret).cmd = x.cmd
  BY DEF Finished, Tasks

\* A group whose command k was replaced by e, its counters set to f and n.
Replaced(t, k, e, f, n) == [t EXCEPT !.finish_nr = f, !.err_nr = n, !.sub[k] = e]

LEMMA NewRecord ==
  ASSUME NEW t \in GroupRecords, NEW k \in 1..Len(t.sub), NEW e \in Tasks,
         NEW f \in Nat, NEW n \in Nat
  PROVE  LET u == Replaced(t, k, e, f, n)
         IN /\ u \in GroupRecords /\ u.nr = t.nr /\ u.finish_nr = f
            /\ Len(u.sub) = Len(t.sub) /\ u.sub[k] = e
            /\ \A i \in 1..Len(t.sub) : i # k => u.sub[i] = t.sub[i]
<1> DEFINE s == [t.sub EXCEPT ![k] = e]
           u == Replaced(t, k, e, f, n)
<1>1. /\ s \in Seq(Tasks) /\ Len(s) = Len(t.sub) /\ s[k] = e
      /\ \A j \in 1..Len(s) : j # k => s[j] = t.sub[j]
  BY RecordType, SubExcept
<1>2. u = [t EXCEPT !.finish_nr = f, !.err_nr = n, !.sub = s]
  BY DEF Replaced
<1> HIDE DEF s
<1> HIDE DEF u
<1>3. u \in GroupRecords /\ u.sub = s /\ u.nr = t.nr /\ u.finish_nr = f
  BY <1>1, <1>2 DEF GroupRecords
<1> QED BY <1>1, <1>3 DEF u

LEMMA StartFacts ==
  ASSUME NEW t \in GroupRecords, Shape(t), t.finish_nr + 1 \in 1..t.nr,
         t.sub[t.finish_nr + 1].pid = Pending,
         NEW r \in Pids \cup {NoPid}
  PROVE  LET j == t.finish_nr + 1
             u == StartTask(t, j, r)
         IN /\ u \in GroupRecords /\ Shape(u) /\ Len(u.sub) = Len(t.sub)
            /\ u.sub[j].pid = (IF r = NoPid THEN Ended ELSE r)
            /\ u.sub[j].cmd = t.sub[j].cmd
            /\ \A i \in 1..Len(t.sub) : i # j => u.sub[i] = t.sub[i]
<1> DEFINE j == t.finish_nr + 1
           u == StartTask(t, j, r)
<1>1. /\ t.nr \in Nat /\ t.finish_nr \in Nat /\ t.err_nr \in Nat
      /\ j \in 1..Len(t.sub) /\ t.nr = Len(t.sub) /\ t.sub[j] \in Tasks
  BY RecordType DEF Shape
<1>2. CASE r # NoPid
  <2> DEFINE e == [t.sub[j] EXCEPT !.pid = r]
  <2>1. e \in Tasks /\ e.pid = r /\ e.cmd = t.sub[j].cmd
    BY <1>1, <1>2, StartedFacts
  <2>2. u = Replaced(t, j, e, t.finish_nr, t.err_nr)
    BY <1>2 DEF StartTask, GroupRecords, Replaced
  <2> HIDE DEF e, u
  <2>3. /\ u \in GroupRecords /\ u.nr = t.nr /\ u.finish_nr = t.finish_nr
        /\ Len(u.sub) = Len(t.sub) /\ u.sub[j] = e
        /\ \A i \in 1..Len(t.sub) : i # j => u.sub[i] = t.sub[i]
    BY <1>1, <2>1, <2>2, NewRecord
  <2>4. r # Ended /\ r # Pending
    BY <1>2, PidFact
  <2>5. Shape(u)
    BY <1>1, <2>1, <2>3, <2>4 DEF Shape
  <2> QED BY <1>2, <2>1, <2>3, <2>5 DEF u
<1>3. CASE r = NoPid
  <2> DEFINE e == Finished(t.sub[j], "error")
  <2>1. e \in Tasks /\ e.pid = Ended /\ e.cmd = t.sub[j].cmd
    <3> "error" \in Results
      BY DEF Results
    <3> HIDE DEF e
    <3> QED BY <1>1, EndedFacts DEF e
  <2>2. u = Replaced(t, j, e, t.finish_nr + 1, t.err_nr + 1)
    BY <1>3 DEF StartTask, Replaced
  <2> HIDE DEF e, u
  <2>3. /\ u \in GroupRecords /\ u.nr = t.nr /\ u.finish_nr = t.finish_nr + 1
        /\ Len(u.sub) = Len(t.sub) /\ u.sub[j] = e
        /\ \A i \in 1..Len(t.sub) : i # j => u.sub[i] = t.sub[i]
    BY <1>1, <2>1, <2>2, NewRecord
  <2>5. \A i \in 1..u.nr : u.sub[i].pid = Ended <=> i <= u.finish_nr
    BY <1>1, <2>1, <2>3 DEF Shape
  <2>6. \A i \in 1..u.nr : i > u.finish_nr + 1 => u.sub[i].pid = Pending
    BY <1>1, <2>3 DEF Shape
  <2>7. u.nr = Len(u.sub) /\ u.nr <= MaxTasks /\ u.finish_nr <= u.nr
    BY <1>1, <2>3 DEF Shape
  <2>8. Shape(u)
    BY <2>5, <2>6, <2>7 DEF Shape
  <2> QED BY <1>3, <2>1, <2>3, <2>8 DEF u
<1> QED BY <1>2, <1>3

LEMMA EndFacts ==
  ASSUME NEW t \in GroupRecords, Shape(t), NEW k \in 1..Len(t.sub),
         t.sub[k].pid \in Pids, NEW how
  PROVE  LET u == EndTask(t, k, how)
         IN /\ u \in GroupRecords /\ Shape(u) /\ Len(u.sub) = Len(t.sub)
            /\ u.sub[k].pid = Ended /\ u.sub[k].cmd = t.sub[k].cmd
            /\ u.finish_nr = k
            /\ \A i \in 1..Len(t.sub) : i # k => u.sub[i] = t.sub[i]
<1> DEFINE u == EndTask(t, k, how)
           ret == IF how = "signaled" THEN "error" ELSE "ok"
           e == Finished(t.sub[k], ret)
           n == IF ret = "error" THEN t.err_nr + 1 ELSE t.err_nr
<1>1. /\ t.nr \in Nat /\ t.finish_nr \in Nat /\ t.err_nr \in Nat
      /\ t.nr = Len(t.sub) /\ t.sub[k] \in Tasks
  BY RecordType DEF Shape
<1>2. k = t.finish_nr + 1
  BY <1>1, PidFact DEF Shape
<1>3. ret \in Results
  BY DEF Results
<1>4. n \in Nat
  BY <1>1
<1>5. u = Replaced(t, k, e, t.finish_nr + 1, n)
  BY DEF EndTask, Replaced
<1> HIDE DEF ret, u, n
<1>6. e \in Tasks /\ e.pid = Ended /\ e.cmd = t.sub[k].cmd
  BY <1>1, <1>3, EndedFacts
<1> HIDE DEF e
<1>7. /\ u \in GroupRecords /\ u.nr = t.nr /\ u.finish_nr = t.finish_nr + 1
      /\ Len(u.sub) = Len(t.sub) /\ u.sub[k] = e
      /\ \A i \in 1..Len(t.sub) : i # k => u.sub[i] = t.sub[i]
  BY <1>1, <1>4, <1>5, <1>6, NewRecord
<1>8. Shape(u)
  <2>1. \A i \in 1..u.nr : u.sub[i].pid = Ended <=> i <= u.finish_nr
    BY <1>1, <1>2, <1>6, <1>7 DEF Shape
  <2>2. \A i \in 1..u.nr : i > u.finish_nr + 1 => u.sub[i].pid = Pending
    BY <1>1, <1>2, <1>7 DEF Shape
  <2>3. u.nr = Len(u.sub) /\ u.nr <= MaxTasks /\ u.finish_nr <= u.nr
    BY <1>1, <1>2, <1>7 DEF Shape
  <2> QED BY <2>1, <2>2, <2>3 DEF Shape
<1> QED BY <1>2, <1>6, <1>7, <1>8 DEF u

LEMMA NoGroupFacts == NoGroup \in GroupRecords /\ Shape(NoGroup) /\ Len(NoGroup.sub) = 0
<1>1. <<>> \in Seq(Tasks) /\ Len(<<>>) = 0
  OBVIOUS
<1> QED BY <1>1, TaskAssumption DEF NoGroup, GroupRecords, Shape

LEMMA ExpireFacts ==
  ASSUME NEW t \in GroupRecords, Shape(t), AllEnded(t)
  PROVE  /\ ExpireGroup(t) \in GroupRecords /\ Shape(ExpireGroup(t))
         /\ \/ ExpireGroup(t).sub = t.sub
            \/ ExpireGroup(t) = NoGroup
         /\ \A i \in 1..Len(t.sub) : t.sub[i].pid = Ended
<1> DEFINE u == [t EXCEPT !.timeout = 0]
<1>1. u \in GroupRecords /\ u.sub = t.sub /\ u.nr = t.nr /\ u.finish_nr = t.finish_nr
  BY TaskAssumption DEF GroupRecords
<1>2. Shape(u)
  BY <1>1 DEF Shape
<1>3. \A i \in 1..Len(t.sub) : t.sub[i].pid = Ended
  BY RecordType DEF Shape, AllEnded
<1>4. ExpireGroup(t) \in {t, u, NoGroup}
  BY DEF ExpireGroup
<1> QED BY <1>1, <1>2, <1>3, <1>4, NoGroupFacts

----------------------------------------------------------------------------
(* The walk over the groups.                                               *)
LEMMA WalkFacts ==
  ASSUME NEW ch \in ChildTables, NEW base \in [Groups -> GroupRecords],
         NEW from \in [Groups -> Nat],
         Shapes(base), TasksMatch(ch, base),
         \A g \in Groups : from[g] <= base[g].finish_nr + 1,
         \A g \in Groups : AllEnded(igd_sys_task_head[g]) => base[g] = igd_sys_task_head[g],
         Walk(ch, base, from)
  PROVE  /\ child' \in ChildTables
         /\ igd_sys_task_head' \in [Groups -> GroupRecords]
         /\ Shapes(igd_sys_task_head')
         /\ TasksMatch(child', igd_sys_task_head')
         /\ \A p \in Pids : child'[p] = ch[p]
                             \/ (ch[p] = Free /\ child'[p].prog \in Cmds)
<1> DEFINE S == Starters(base, from)
           j(g) == base[g].finish_nr + 1
           H2 == igd_sys_task_head'
           run(g) == [st |-> "run", prog |-> base[g].sub[j(g)].cmd]
<1>1. \A g \in Groups : base[g] \in GroupRecords /\ Shape(base[g])
  BY DEF Shapes
<1>2. ASSUME NEW g \in S
      PROVE  /\ g \in Groups /\ NextOpen(base[g], from[g]) = j(g)
             /\ j(g) \in 1..base[g].nr /\ j(g) \in 1..Len(base[g].sub)
             /\ base[g].sub[j(g)].pid = Pending
             /\ base[g].sub[j(g)].cmd \in Cmds
  <2>1. g \in Groups /\ from[g] # 0 /\ Starts(base[g], from[g])
    BY DEF Starters
  <2>2. from[g] \in 1..(base[g].finish_nr + 1)
    BY <1>1, <2>1, RecordType
  <2>3. NextOpen(base[g], from[g]) = j(g) /\ j(g) \in 1..base[g].nr
    BY <1>1, <2>1, <2>2, NextOpenIs DEF Starts
  <2>4. base[g].sub[j(g)].pid = Pending
    BY <2>1, <2>3 DEF Starts
  <2>5. j(g) \in 1..Len(base[g].sub)
    BY <1>1, <2>1, <2>3 DEF Shape
  <2> QED BY <1>1, <2>1, <2>3, <2>4, <2>5, RecordType
<1>3. PICK f \in Forks(ch, S) :
        /\ child' = [p \in Pids |->
                       IF \E g \in S : f[g] = p
                       THEN LET g == CHOOSE g \in S : f[g] = p
                            IN [st |-> "run",
                                prog |-> base[g].sub[NextOpen(base[g], from[g])].cmd]
                       ELSE ch[p]]
        /\ H2 = [g \in Groups |->
                   IF g \in S THEN StartTask(base[g], NextOpen(base[g], from[g]), f[g])
                   ELSE IF ~AllEnded(igd_sys_task_head[g]) THEN base[g]
                   ELSE ExpireGroup(base[g])]
  BY DEF Walk
<1> HIDE DEF S
<1>4. /\ \A g \in S : f[g] \in Pids \cup {NoPid}
      /\ \A g \in S : f[g] # NoPid => f[g] \in Pids /\ ch[f[g]] = Free
      /\ \A g, h \in S : f[g] = f[h] /\ f[g] # NoPid => g = h
  BY DEF Forks, FreePids
<1>5. \A g \in S : f[g] \in Pids => child'[f[g]] = run(g)
  <2> SUFFICES ASSUME NEW g \in S, f[g] \in Pids
               PROVE  child'[f[g]] = run(g)
    OBVIOUS
  <2> DEFINE c == CHOOSE h \in S : f[h] = f[g]
  <2>1. c \in S /\ f[c] = f[g]
    OBVIOUS
  <2>2. c = g
    BY <1>4, <2>1, PidFact
  <2>3. child'[f[g]] = [st |-> "run", prog |-> base[c].sub[NextOpen(base[c], from[c])].cmd]
    BY <1>3
  <2> QED BY <1>2, <2>2, <2>3
<1>6. \A p \in Pids : (\A g \in S : f[g] # p) => child'[p] = ch[p]
  BY <1>3
<1>7. child' \in ChildTables
  <2>1. ASSUME NEW p \in Pids PROVE child'[p] \in Children \cup {Free}
    <3>1. CASE \A g \in S : f[g] # p
      BY <1>6, <3>1 DEF ChildTables
    <3>2. CASE \E g \in S : f[g] = p
      <4>1. PICK g \in S : f[g] = p
        BY <3>2
      <4>2. child'[p] = run(g) /\ base[g].sub[j(g)].cmd \in Cmds
        BY <1>2, <1>5, <4>1
      <4> QED BY <4>2 DEF Children, ChildStates, Programs
    <3> QED BY <3>1, <3>2
  <2>2. child' = [p \in Pids |-> child'[p]]
    BY <1>3
  <2> QED BY <2>1, <2>2 DEF ChildTables
<1>8. \A p \in Pids : child'[p] = ch[p] \/ (ch[p] = Free /\ child'[p].prog \in Cmds)
  <2> SUFFICES ASSUME NEW p \in Pids, child'[p] # ch[p]
               PROVE  ch[p] = Free /\ child'[p].prog \in Cmds
    OBVIOUS
  <2>1. PICK g \in S : f[g] = p
    BY <1>6
  <2>2. child'[p] = run(g) /\ ch[p] = Free
    BY <1>4, <1>5, <2>1, PidFact
  <2>3. run(g).prog \in Cmds
    BY <1>2, <2>1
  <2> QED BY <2>2, <2>3
<1>9. ASSUME NEW g \in S
      PROVE  /\ H2[g] \in GroupRecords /\ Shape(H2[g])
             /\ Len(H2[g].sub) = Len(base[g].sub)
             /\ H2[g].sub[j(g)].pid = (IF f[g] = NoPid THEN Ended ELSE f[g])
             /\ H2[g].sub[j(g)].cmd = base[g].sub[j(g)].cmd
             /\ \A i \in 1..Len(base[g].sub) : i # j(g) => H2[g].sub[i] = base[g].sub[i]
  <2>1. H2[g] = StartTask(base[g], j(g), f[g])
    BY <1>2, <1>3
  <2> QED BY <1>1, <1>2, <1>4, <2>1, StartFacts
<1>10. ASSUME NEW g \in Groups, g \notin S
       PROVE  /\ H2[g] \in GroupRecords /\ Shape(H2[g])
              /\ \/ H2[g].sub = base[g].sub
                 \/ Len(H2[g].sub) = 0 /\ \A i \in 1..Len(base[g].sub) : base[g].sub[i].pid = Ended
  <2>1. CASE ~AllEnded(igd_sys_task_head[g])
    BY <1>1, <1>3, <1>10, <2>1
  <2>2. CASE AllEnded(igd_sys_task_head[g])
    <3>1. H2[g] = ExpireGroup(base[g]) /\ AllEnded(base[g])
      BY <1>3, <1>10, <2>2
    <3> QED BY <1>1, <3>1, ExpireFacts, NoGroupFacts
  <2> QED BY <2>1, <2>2
<1>11. H2 \in [Groups -> GroupRecords] /\ Shapes(H2)
  <2>1. H2 = [g \in Groups |-> H2[g]]
    BY <1>3
  <2> QED BY <1>9, <1>10, <2>1 DEF Shapes
<1> HIDE DEF run
\* A command with a pid after the walk was just started, or had it before.
<1>12. ASSUME NEW g \in Groups, NEW i \in 1..Len(H2[g].sub), H2[g].sub[i].pid \in Pids
       PROVE  \/ g \in S /\ i = j(g) /\ f[g] \in Pids /\ H2[g].sub[i].pid = f[g]
                /\ H2[g].sub[i].cmd = base[g].sub[i].cmd
              \/ i \in 1..Len(base[g].sub) /\ H2[g].sub[i] = base[g].sub[i]
  <2>1. CASE g \in S
    BY <1>2, <1>4, <1>9, <1>12, <2>1, PidFact
  <2>2. CASE g \notin S
    <3>1. CASE H2[g].sub = base[g].sub
      BY <3>1
    <3>2. CASE Len(H2[g].sub) = 0
      BY <3>2
    <3> QED BY <1>10, <2>2, <3>1, <3>2
  <2> QED BY <2>1, <2>2
<1>13. \A g \in Groups : \A i \in 1..Len(base[g].sub) :
         base[g].sub[i].pid \in Pids => ch[base[g].sub[i].pid] # Free
  BY DEF TasksMatch
<1>14. ASSUME NEW g \in Groups, NEW i \in 1..Len(H2[g].sub), H2[g].sub[i].pid \in Pids
       PROVE  child'[H2[g].sub[i].pid] # Free
                /\ child'[H2[g].sub[i].pid].prog = H2[g].sub[i].cmd
  <2>1. CASE g \in S /\ i = j(g) /\ f[g] \in Pids /\ H2[g].sub[i].pid = f[g]
               /\ H2[g].sub[i].cmd = base[g].sub[i].cmd
    <3>1. child'[f[g]] = run(g) /\ i = j(g)
      BY <1>5, <2>1
    <3>2. run(g).st = "run" /\ run(g).prog = base[g].sub[j(g)].cmd
      BY DEF run
    <3>3. run(g) # Free
      BY <3>2, FreeFact
    <3> QED BY <2>1, <3>1, <3>2, <3>3
  <2>2. CASE i \in 1..Len(base[g].sub) /\ H2[g].sub[i] = base[g].sub[i]
    <3> DEFINE p == base[g].sub[i].pid
    <3>1. p \in Pids /\ H2[g].sub[i].pid = p
      BY <1>14, <2>2
    <3>2. ch[p] # Free /\ ch[p].prog = base[g].sub[i].cmd
      BY <2>2, <3>1 DEF TasksMatch
    <3>3. child'[p] = ch[p]
      BY <1>8, <3>1, <3>2
    <3>4. H2[g].sub[i].cmd = base[g].sub[i].cmd
      BY <2>2
    <3> HIDE DEF p
    <3> QED BY <3>1, <3>2, <3>3, <3>4
  <2> QED BY <1>12, <1>14, <2>1, <2>2
<1>15. ASSUME NEW g \in Groups, NEW h \in Groups,
              NEW i \in 1..Len(H2[g].sub), NEW k \in 1..Len(H2[h].sub),
              H2[g].sub[i].pid \in Pids, H2[g].sub[i].pid = H2[h].sub[k].pid
       PROVE  g = h /\ i = k
  <2>1. CASE g \in S /\ i = j(g) /\ f[g] \in Pids /\ H2[g].sub[i].pid = f[g]
    <3>1. CASE h \in S /\ k = j(h) /\ f[h] \in Pids /\ H2[h].sub[k].pid = f[h]
      BY <1>4, <1>15, <2>1, <3>1, PidFact
    <3>2. CASE k \in 1..Len(base[h].sub) /\ H2[h].sub[k] = base[h].sub[k]
      BY <1>4, <1>13, <1>15, <2>1, <3>2, PidFact
    <3> QED BY <1>12, <1>15, <3>1, <3>2
  <2>2. CASE i \in 1..Len(base[g].sub) /\ H2[g].sub[i] = base[g].sub[i]
    <3>1. CASE h \in S /\ k = j(h) /\ f[h] \in Pids /\ H2[h].sub[k].pid = f[h]
      BY <1>4, <1>13, <1>15, <2>2, <3>1, PidFact
    <3>2. CASE k \in 1..Len(base[h].sub) /\ H2[h].sub[k] = base[h].sub[k]
      BY <1>15, <2>2, <3>2 DEF TasksMatch
    <3> QED BY <1>12, <1>15, <3>1, <3>2
  <2> QED BY <1>12, <1>15, <2>1, <2>2
<1>16. ASSUME NEW p \in Pids, child'[p] # Free, child'[p].prog \in Cmds
       PROVE  \E g \in Groups : \E i \in 1..Len(H2[g].sub) : H2[g].sub[i].pid = p
  <2>1. CASE \E g \in S : f[g] = p
    <3>1. PICK g \in S : f[g] = p
      BY <2>1
    <3>2. g \in Groups /\ j(g) \in 1..Len(H2[g].sub) /\ H2[g].sub[j(g)].pid = p
      BY <1>2, <1>9, <3>1, PidFact
    <3> QED BY <3>2
  <2>2. CASE \A g \in S : f[g] # p
    <3>1. ch[p] # Free /\ ch[p].prog \in Cmds
      BY <1>6, <1>16, <2>2
    <3>a. PICK g \in Groups : \E i \in 1..Len(base[g].sub) : base[g].sub[i].pid = p
      BY <3>1 DEF TasksMatch
    <3>2. PICK i \in 1..Len(base[g].sub) : base[g].sub[i].pid = p
      BY <3>a
    <3>3. i \in 1..Len(H2[g].sub) /\ H2[g].sub[i].pid = p
      <4>1. CASE g \in S
        BY <1>2, <1>9, <3>2, <4>1, PidFact
      <4>2. CASE g \notin S
        BY <1>10, <3>2, <4>2, PidFact
      <4> QED BY <4>1, <4>2
    <3> QED BY <3>3
  <2> QED BY <2>1, <2>2
<1>17. TasksMatch(child', H2)
  BY <1>14, <1>15, <1>16 DEF TasksMatch
<1> QED BY <1>7, <1>8, <1>11, <1>17

----------------------------------------------------------------------------
(* Changes of the groups other than by a walk.                             *)
LEMMA SameOwners ==
  ASSUME NEW ch, NEW H \in [Groups -> GroupRecords], NEW H2 \in [Groups -> GroupRecords],
         TasksMatch(ch, H),
         \A g \in Groups : \A i \in 1..Len(H2[g].sub) :
           H2[g].sub[i].pid \in Pids =>
             i \in 1..Len(H[g].sub) /\ H2[g].sub[i] = H[g].sub[i],
         \A g \in Groups : \A i \in 1..Len(H[g].sub) :
           H[g].sub[i].pid \in Pids =>
             i \in 1..Len(H2[g].sub) /\ H2[g].sub[i] = H[g].sub[i]
  PROVE  TasksMatch(ch, H2)
<1>1. \A g, h \in Groups : \A i \in 1..Len(H2[g].sub), j \in 1..Len(H2[h].sub) :
        H2[g].sub[i].pid \in Pids /\ H2[g].sub[i].pid = H2[h].sub[j].pid => g = h /\ i = j
  <2> SUFFICES ASSUME NEW g \in Groups, NEW h \in Groups,
                      NEW i \in 1..Len(H2[g].sub), NEW j \in 1..Len(H2[h].sub),
                      H2[g].sub[i].pid \in Pids, H2[g].sub[i].pid = H2[h].sub[j].pid
               PROVE  g = h /\ i = j
    OBVIOUS
  <2>1. i \in 1..Len(H[g].sub) /\ H[g].sub[i] = H2[g].sub[i]
    OBVIOUS
  <2>2. j \in 1..Len(H[h].sub) /\ H[h].sub[j] = H2[h].sub[j]
    OBVIOUS
  <2> QED BY <2>1, <2>2 DEF TasksMatch
<1>2. \A g \in Groups : \A i \in 1..Len(H2[g].sub) :
        H2[g].sub[i].pid \in Pids =>
          ch[H2[g].sub[i].pid] # Free /\ ch[H2[g].sub[i].pid].prog = H2[g].sub[i].cmd
  BY DEF TasksMatch
<1>3. ASSUME NEW p \in Pids, ch[p] # Free, ch[p].prog \in Cmds
      PROVE  \E g \in Groups : \E i \in 1..Len(H2[g].sub) : H2[g].sub[i].pid = p
  <2>1. PICK g \in Groups : \E i \in 1..Len(H[g].sub) : H[g].sub[i].pid = p
    BY <1>3 DEF TasksMatch
  <2>2. PICK i \in 1..Len(H[g].sub) : H[g].sub[i].pid = p
    BY <2>1
  <2>3. i \in 1..Len(H2[g].sub) /\ H2[g].sub[i].pid = p
    BY <2>2
  <2> QED BY <2>3
<1> QED BY <1>1, <1>2, <1>3 DEF TasksMatch

\* A group with one more command, its list now s.
AddedTo(t, s) == [t EXCEPT !.nr = t.nr + 1, !.timeout = Unset, !.sub = s]

LEMMA AddedRecord ==
  ASSUME NEW t \in GroupRecords, NEW s \in Seq(Tasks)
  PROVE  LET u == AddedTo(t, s)
         IN /\ u \in GroupRecords /\ u.sub = s
            /\ u.nr = t.nr + 1 /\ u.finish_nr = t.finish_nr
<1> DEFINE u == AddedTo(t, s)
           x == [t EXCEPT !.timeout = Unset]
<1>1. x \in GroupRecords /\ x.nr = t.nr /\ x.finish_nr = t.finish_nr
  BY DEF GroupRecords
<1> DEFINE y == [x EXCEPT !.nr = t.nr + 1]
<1>2. t.nr + 1 \in Nat
  BY DEF GroupRecords
<1> HIDE DEF x
<1>3. y \in GroupRecords /\ y.nr = t.nr + 1 /\ y.finish_nr = t.finish_nr
  BY <1>1, <1>2 DEF GroupRecords
<1> HIDE DEF y
<1>4. u = [y EXCEPT !.sub = s]
  BY DEF AddedTo, GroupRecords, x, y
<1> HIDE DEF u
<1>5. u \in GroupRecords /\ u.sub = s /\ u.nr = t.nr + 1 /\ u.finish_nr = t.finish_nr
  BY <1>3, <1>4 DEF GroupRecords
<1> QED BY <1>5 DEF u

LEMMA AddTaskFacts ==
  ASSUME IInv, NEW g \in Groups, NEW c \in Cmds, TaskAdd(g, c)
  PROVE  /\ igd_sys_task_head' \in [Groups -> GroupRecords]
         /\ Shapes(igd_sys_task_head')
         /\ TasksMatch(child, igd_sys_task_head')
<1> DEFINE H == igd_sys_task_head
           t == H[g]
           e == [cmd |-> c, pid |-> Pending, ret |-> "none"]
           s == Append(t.sub, e)
           u == [t EXCEPT !.nr = t.nr + 1, !.timeout = Unset, !.sub = s]
<1>1. H \in [Groups -> GroupRecords] /\ t \in GroupRecords /\ Shape(t) /\ t.nr < MaxTasks
  BY DEF IInv, TypeOK, TaskTypeOK, Shapes, TaskAdd
<1>2. H' = [H EXCEPT ![g] = u]
  BY DEF TaskAdd
<1>3. e \in Tasks /\ e.pid = Pending
  BY DEF Tasks, Results
<1>4. /\ t.sub \in Seq(Tasks) /\ t.nr = Len(t.sub) /\ t.nr \in Nat /\ t.finish_nr \in Nat
  BY <1>1, RecordType DEF Shape
<1> HIDE DEF e
<1>5. /\ s \in Seq(Tasks) /\ Len(s) = t.nr + 1 /\ s[t.nr + 1] = e
      /\ \A i \in 1..t.nr : s[i] = t.sub[i]
  BY <1>3, <1>4
<1> HIDE DEF s
<1>6. u \in GroupRecords /\ u.sub = s /\ u.nr = t.nr + 1 /\ u.finish_nr = t.finish_nr
  <2>1. u = AddedTo(t, s)
    BY DEF AddedTo
  <2> HIDE DEF u, t
  <2> QED BY <1>1, <1>4, <1>5, <2>1, AddedRecord
<1>7. Shape(u)
  <2>1. Pending # Ended
    BY DEF Pending, Ended
  <2>2. \A i \in 1..u.nr : u.sub[i].pid = Ended <=> i <= u.finish_nr
    BY <1>1, <1>3, <1>4, <1>5, <1>6, <2>1 DEF Shape
  <2>3. \A i \in 1..u.nr : i > u.finish_nr + 1 => u.sub[i].pid = Pending
    BY <1>1, <1>3, <1>4, <1>5, <1>6 DEF Shape
  <2>4. u.nr = Len(u.sub) /\ u.nr <= MaxTasks /\ u.finish_nr <= u.nr
    BY <1>1, <1>4, <1>5, <1>6, TaskAssumption DEF Shape
  <2> QED BY <2>2, <2>3, <2>4 DEF Shape
<1>8. H' \in [Groups -> GroupRecords] /\ Shapes(H')
  BY <1>1, <1>2, <1>6, <1>7 DEF Shapes, IInv
<1>9. ASSUME NEW h \in Groups, NEW i \in 1..Len(H'[h].sub), H'[h].sub[i].pid \in Pids
      PROVE  i \in 1..Len(H[h].sub) /\ H'[h].sub[i] = H[h].sub[i]
  BY <1>1, <1>2, <1>3, <1>4, <1>5, <1>6, <1>9, PidFact
<1>10. ASSUME NEW h \in Groups, NEW i \in 1..Len(H[h].sub)
       PROVE  i \in 1..Len(H'[h].sub) /\ H'[h].sub[i] = H[h].sub[i]
  BY <1>1, <1>2, <1>4, <1>5, <1>6
<1> QED BY <1>1, <1>8, <1>9, <1>10, SameOwners DEF IInv

LEMMA DumpTaskFacts ==
  ASSUME IInv, NEW g \in Groups, TaskDump(g)
  PROVE  /\ igd_sys_task_head' \in [Groups -> GroupRecords]
         /\ Shapes(igd_sys_task_head')
         /\ TasksMatch(child, igd_sys_task_head')
<1> DEFINE H == igd_sys_task_head
<1>1. H \in [Groups -> GroupRecords] /\ H[g] \in GroupRecords /\ Shape(H[g]) /\ AllEnded(H[g])
  BY DEF IInv, TypeOK, TaskTypeOK, Shapes, TaskDump
<1>2. H' = [H EXCEPT ![g] = NoGroup]
  BY DEF TaskDump
<1>3. H' \in [Groups -> GroupRecords] /\ Shapes(H')
  BY <1>1, <1>2, NoGroupFacts DEF Shapes, IInv
<1>4. \A i \in 1..Len(H[g].sub) : H[g].sub[i].pid \notin Pids
  BY <1>1, ExpireFacts, PidFact
<1>5. ASSUME NEW h \in Groups, NEW i \in 1..Len(H'[h].sub)
      PROVE  i \in 1..Len(H[h].sub) /\ H'[h].sub[i] = H[h].sub[i]
  BY <1>1, <1>2, NoGroupFacts
<1>6. ASSUME NEW h \in Groups, NEW i \in 1..Len(H[h].sub), H[h].sub[i].pid \in Pids
      PROVE  i \in 1..Len(H'[h].sub) /\ H'[h].sub[i] = H[h].sub[i]
  BY <1>1, <1>2, <1>4, <1>6
<1> QED BY <1>1, <1>3, <1>5, <1>6, SameOwners DEF IInv

LEMMA TickFacts ==
  ASSUME IInv, TaskTick
  PROVE  /\ igd_sys_task_head' \in [Groups -> GroupRecords]
         /\ Shapes(igd_sys_task_head')
         /\ TasksMatch(child, igd_sys_task_head')
<1> DEFINE H == igd_sys_task_head
           aged(t) == IF t.timeout \in 0..TaskKeep THEN [t EXCEPT !.timeout = @ + 1] ELSE t
<1>1. H \in [Groups -> GroupRecords] /\ H' = [g \in Groups |-> aged(H[g])]
  BY DEF IInv, TypeOK, TaskTypeOK, TaskTick
<1>2. ASSUME NEW t \in GroupRecords
      PROVE  /\ aged(t) \in GroupRecords /\ aged(t).sub = t.sub
             /\ aged(t).nr = t.nr /\ aged(t).finish_nr = t.finish_nr
  BY TaskAssumption DEF GroupRecords, Unset
<1> HIDE DEF aged
<1>3. H' \in [Groups -> GroupRecords]
  BY <1>1, <1>2
<1>4. ASSUME NEW g \in Groups PROVE Shape(H'[g]) /\ H'[g].sub = H[g].sub
  <2>1. Shape(H[g]) /\ H[g] \in GroupRecords /\ H'[g] = aged(H[g])
    BY <1>1 DEF IInv, Shapes
  <2> QED BY <1>2, <2>1 DEF Shape
<1> QED BY <1>1, <1>3, <1>4, SameOwners DEF IInv, Shapes

\* A command's process is reaped and the command has ended.
LEMMA EndMatch ==
  ASSUME NEW ch \in ChildTables, NEW H \in [Groups -> GroupRecords],
         TasksMatch(ch, H), Shapes(H),
         NEW p \in Pids, NEW g \in Groups, NEW k \in 1..Len(H[g].sub),
         H[g].sub[k].pid = p, NEW how
  PROVE  LET base == [H EXCEPT ![g] = EndTask(@, k, how)]
         IN /\ base \in [Groups -> GroupRecords] /\ Shapes(base)
            /\ base[g].finish_nr = k
            /\ TasksMatch(Reaped(ch, p), base)
<1> DEFINE u == EndTask(H[g], k, how)
           base == [H EXCEPT ![g] = EndTask(@, k, how)]
           rch == Reaped(ch, p)
<1>1. H[g] \in GroupRecords /\ Shape(H[g])
  BY DEF Shapes
<1>2. /\ u \in GroupRecords /\ Shape(u) /\ Len(u.sub) = Len(H[g].sub)
      /\ u.sub[k].pid = Ended /\ u.finish_nr = k
      /\ \A i \in 1..Len(H[g].sub) : i # k => u.sub[i] = H[g].sub[i]
  BY <1>1, EndFacts
<1>3. base[g] = u /\ \A h \in Groups : h # g => base[h] = H[h]
  OBVIOUS
<1> HIDE DEF u
<1>4. base \in [Groups -> GroupRecords] /\ Shapes(base)
  BY <1>2, <1>3 DEF Shapes, u
<1>5. rch[p] = Free /\ \A q \in Pids : q # p => rch[q] = ch[q]
  BY ReapType
<1> HIDE DEF base, rch
<1>6. ASSUME NEW h \in Groups, NEW i \in 1..Len(base[h].sub), base[h].sub[i].pid \in Pids
      PROVE  /\ i \in 1..Len(H[h].sub) /\ base[h].sub[i] = H[h].sub[i]
             /\ base[h].sub[i].pid # p
  <2>1. i \in 1..Len(H[h].sub) /\ base[h].sub[i] = H[h].sub[i] /\ ~(h = g /\ i = k)
    BY <1>2, <1>3, <1>6, PidFact
  <2> QED BY <1>6, <2>1 DEF TasksMatch
<1>7. ASSUME NEW h \in Groups, NEW i \in 1..Len(H[h].sub), H[h].sub[i].pid \in Pids,
             H[h].sub[i].pid # p
      PROVE  i \in 1..Len(base[h].sub) /\ base[h].sub[i] = H[h].sub[i]
  BY <1>2, <1>3, <1>7
<1>8. \A x, h \in Groups : \A i \in 1..Len(base[x].sub), j \in 1..Len(base[h].sub) :
        base[x].sub[i].pid \in Pids /\ base[x].sub[i].pid = base[h].sub[j].pid => x = h /\ i = j
  <2> SUFFICES ASSUME NEW x \in Groups, NEW h \in Groups,
                      NEW i \in 1..Len(base[x].sub), NEW j \in 1..Len(base[h].sub),
                      base[x].sub[i].pid \in Pids, base[x].sub[i].pid = base[h].sub[j].pid
               PROVE  x = h /\ i = j
    OBVIOUS
  <2>1. i \in 1..Len(H[x].sub) /\ base[x].sub[i] = H[x].sub[i]
    BY <1>6
  <2>2. j \in 1..Len(H[h].sub) /\ base[h].sub[j] = H[h].sub[j]
    BY <1>6
  <2> QED BY <2>1, <2>2 DEF TasksMatch
<1>9. ASSUME NEW h \in Groups, NEW i \in 1..Len(base[h].sub), base[h].sub[i].pid \in Pids
      PROVE  rch[base[h].sub[i].pid] # Free /\ rch[base[h].sub[i].pid].prog = base[h].sub[i].cmd
  <2>1. i \in 1..Len(H[h].sub) /\ base[h].sub[i] = H[h].sub[i] /\ base[h].sub[i].pid # p
    BY <1>6, <1>9
  <2>2. rch[base[h].sub[i].pid] = ch[H[h].sub[i].pid]
    BY <1>5, <1>9, <2>1
  <2> QED BY <1>9, <2>1, <2>2 DEF TasksMatch
<1>10. ASSUME NEW q \in Pids, rch[q] # Free, rch[q].prog \in Cmds
       PROVE  \E h \in Groups : \E i \in 1..Len(base[h].sub) : base[h].sub[i].pid = q
  <2>1. q # p /\ ch[q] # Free /\ ch[q].prog \in Cmds
    BY <1>5, <1>10
  <2>2. PICK h \in Groups : \E i \in 1..Len(H[h].sub) : H[h].sub[i].pid = q
    BY <2>1 DEF TasksMatch
  <2>3. PICK i \in 1..Len(H[h].sub) : H[h].sub[i].pid = q
    BY <2>2
  <2>4. i \in 1..Len(base[h].sub) /\ base[h].sub[i].pid = q
    BY <1>7, <2>1, <2>3
  <2> QED BY <2>4
<1>11. TasksMatch(rch, base)
  BY <1>8, <1>9, <1>10 DEF TasksMatch
<1> QED BY <1>2, <1>3, <1>4, <1>11 DEF base, rch

\* A walk starts commands only: what the supervisor watches is not touched.
LEMMA WalkDaemons ==
  ASSUME NEW ch \in ChildTables, NEW ch2 \in ChildTables, NEW L \in SUBSET Entries,
         DaemonsMatch(ch, L),
         \A p \in Pids : ch2[p] = ch[p] \/ (ch[p] = Free /\ ch2[p].prog \in Cmds)
  PROVE  DaemonsMatch(ch2, L)
<1>1. \A d \in L : d.pid \in Pids /\ ch[d.pid] # Free
  BY DEF Entries, DaemonsMatch
<1>2. \A d \in L : ch2[d.pid] = ch[d.pid]
  BY <1>1
<1>3. \A p \in Pids : ch2[p].st = "run" /\ ch2[p].prog \in DaemonNames =>
                        ch[p].st = "run" /\ ch[p].prog = ch2[p].prog
  BY ProcsAssumption
<1> QED BY <1>1, <1>2, <1>3, SameDaemons

\* The process of a command that has not ended is found; one that is not found
\* belongs to no command.
LEMMA ReapUnowned ==
  ASSUME NEW ch \in ChildTables, igd_sys_task_head \in [Groups -> GroupRecords],
         TasksMatch(ch, igd_sys_task_head), Shapes(igd_sys_task_head),
         NEW p \in Pids, Found(p) = {}
  PROVE  TasksMatch(Reaped(ch, p), igd_sys_task_head)
<1> DEFINE H == igd_sys_task_head
           rch == Reaped(ch, p)
<1>1. ASSUME NEW g \in Groups, NEW i \in 1..Len(H[g].sub), H[g].sub[i].pid = p
      PROVE  FALSE
  <2>1. Shape(H[g]) /\ H[g] \in GroupRecords
    BY DEF Shapes
  <2>2. H[g].nr = Len(H[g].sub) /\ H[g].nr \in Nat /\ H[g].nr <= MaxTasks
    BY <2>1, RecordType DEF Shape
  <2>3. H[g].sub[i].pid # Ended
    BY <1>1, PidFact
  <2>4. ~AllEnded(H[g])
    BY <2>1, <2>2, <2>3 DEF Shape, AllEnded
  <2>5. <<g, i>> \in Groups \X (1..MaxTasks)
    BY <2>2, TaskAssumption
  <2>6. <<g, i>> \in Found(p)
    BY <1>1, <2>4, <2>5 DEF Found
  <2> QED BY <2>6
<1>2. rch[p] = Free /\ \A q \in Pids : q # p => rch[q] = ch[q]
  BY ReapType
<1> HIDE DEF rch
<1>3. ASSUME NEW q \in Pids, rch[q] # Free, rch[q].prog \in Cmds
      PROVE  \E g \in Groups : \E i \in 1..Len(H[g].sub) : H[g].sub[i].pid = q
  BY <1>2, <1>3 DEF TasksMatch
<1>4. ASSUME NEW g \in Groups, NEW i \in 1..Len(H[g].sub), H[g].sub[i].pid \in Pids
      PROVE  rch[H[g].sub[i].pid] # Free /\ rch[H[g].sub[i].pid].prog = H[g].sub[i].cmd
  BY <1>1, <1>2, <1>4 DEF TasksMatch
<1>5. TasksMatch(rch, H)
  BY <1>3, <1>4 DEF TasksMatch
<1> QED BY <1>5 DEF rch

----------------------------------------------------------------------------
(* The handlers that touch both lists or the child table.                  *)
LEMMA OomFacts ==
  ASSUME IInv, NEW ch, OomCheck(ch)
  PROVE  /\ ch \in ChildTables
         /\ DaemonTypeOK'
         /\ DaemonsMatch(ch, sys_daemon_list')
         /\ TasksMatch(ch, igd_sys_task_head)
<1> DEFINE L == sys_daemon_list
           q == sys_oomkill_list
<1>1. /\ child \in ChildTables /\ L \in SUBSET Entries /\ q \in Seq(DaemonNames)
      /\ oomkill_age \in 0..OomDelay /\ 0 \in 0..OomDelay
      /\ igd_sys_task_head \in [Groups -> GroupRecords]
      /\ DaemonsMatch(child, L) /\ TasksMatch(child, igd_sys_task_head)
  BY DaemonAssumption DEF IInv, TypeOK, ProcsTypeOK, DaemonTypeOK, TaskTypeOK, ChildTables
<1>2. CASE OomWait(ch)
  BY <1>1, <1>2 DEF OomWait, daemonVars, DaemonTypeOK
<1>3. CASE OomIdle(ch)
  BY <1>1, <1>3 DEF OomIdle, DaemonTypeOK
<1>4. CASE OomForget(ch)
  <2>1. q # <<>> /\ Tail(q) \in Seq(DaemonNames)
    BY <1>1, <1>4 DEF OomForget
  <2> QED BY <1>1, <1>4, <2>1 DEF OomForget, DaemonTypeOK
<1>5. CASE OomRestart(ch)
  <2> DEFINE n == Head(q)
  <2>1. q # <<>> /\ Tail(q) \in Seq(DaemonNames) /\ n \in DaemonNames
    BY <1>1, <1>5 DEF OomRestart
  <2>2. sys_oomkill_list' = Tail(q) /\ oomkill_age' = 0
    BY <1>5 DEF OomRestart
  <2> HIDE DEF n
  <2>3. CASE FindName(n) # {}
    <3>1. ch = child /\ L' = L
      BY <1>5, <2>3 DEF OomRestart, n
    <3> QED BY <1>1, <2>1, <2>2, <3>1 DEF DaemonTypeOK
  <2>4. CASE FindName(n) = {}
    <3>1. PICK r \in ForkResults(child) :
            ch = Forked(child, r, n) /\ L' = L \cup Entry(n, r)
      BY <1>5, <2>4 DEF OomRestart, n
    <3>2. \A d \in L : d.name # n
      BY <2>4 DEF FindName
    <3>3. L' \in SUBSET Entries /\ DaemonsMatch(ch, L')
      BY <1>1, <2>1, <3>1, <3>2, ForkDaemon
    <3>4. /\ ch \in ChildTables
          /\ \A p \in Pids : ch[p] = child[p]
                              \/ (child[p] = Free /\ ch[p].prog = n)
      BY <1>1, <2>1, <3>1, ForkOnly DEF Programs
    <3>5. n \notin Cmds
      BY <2>1, ProcsAssumption
    <3>6. TasksMatch(ch, igd_sys_task_head)
      BY <1>1, <3>4, <3>5, SameTasks
    <3> QED BY <1>1, <2>1, <2>2, <3>3, <3>4, <3>6 DEF DaemonTypeOK
  <2> QED BY <2>3, <2>4
<1> QED BY <1>2, <1>3, <1>4, <1>5 DEF OomCheck

LEMMA TimerStep ==
  ASSUME IInv, Timer
  PROVE  IInv'
<1>1. PICK ch \in OomTables : OomCheck(ch) /\ TaskCheckTimer(ch)
  BY DEF Timer
<1>2. /\ ch \in ChildTables /\ DaemonTypeOK' /\ DaemonsMatch(ch, sys_daemon_list')
      /\ TasksMatch(ch, igd_sys_task_head)
  BY <1>1, OomFacts
<1> DEFINE base == igd_sys_task_head
           from == [g \in Groups |-> 1]
<1>3. Walk(ch, base, from)
  BY <1>1 DEF TaskCheckTimer
<1>4. base \in [Groups -> GroupRecords] /\ Shapes(base)
  BY DEF IInv, TypeOK, TaskTypeOK
<1>5. from \in [Groups -> Nat] /\ \A g \in Groups : from[g] <= base[g].finish_nr + 1
  BY <1>4, RecordType
<1> HIDE DEF from
<1>6. /\ child' \in ChildTables
      /\ igd_sys_task_head' \in [Groups -> GroupRecords]
      /\ Shapes(igd_sys_task_head') /\ TasksMatch(child', igd_sys_task_head')
      /\ \A p \in Pids : child'[p] = ch[p] \/ (ch[p] = Free /\ child'[p].prog \in Cmds)
  BY <1>2, <1>3, <1>4, <1>5, WalkFacts
<1>7. DaemonsMatch(child', sys_daemon_list')
  BY <1>2, <1>6, WalkDaemons DEF DaemonTypeOK
<1> QED BY <1>2, <1>6, <1>7 DEF IInv, TypeOK, ProcsTypeOK, TaskTypeOK, ChildTables

LEMMA WaitPidStep ==
  ASSUME IInv, NEW p \in Pids, WaitPid(p)
  PROVE  IInv'
<1> DEFINE ch == Reaped(child, p)
           L  == sys_daemon_list
           H  == igd_sys_task_head
<1>1. /\ child \in ChildTables /\ L \in SUBSET Entries
      /\ H \in [Groups -> GroupRecords]
      /\ DaemonsMatch(child, L) /\ Shapes(H) /\ TasksMatch(child, H)
  BY DEF IInv, TypeOK, ProcsTypeOK, DaemonTypeOK, TaskTypeOK, ChildTables
<1>2. ch \in ChildTables /\ ch[p] = Free /\ \A x \in Pids : x # p => ch[x] = child[x]
  BY <1>1, ReapType
<1>3. CASE FindPid(p) # {}
  <2>1. DaemonCheck(p, ch) /\ H' = H
    BY <1>3 DEF WaitPid
  <2>2. PICK d \in FindPid(p) : \E r \in ForkResults(ch) :
          /\ child' = Forked(ch, r, d.name)
          /\ L' = (L \ {d}) \cup Entry(d.name, r)
    BY <2>1 DEF DaemonCheck
  <2>3. PICK r \in ForkResults(ch) :
          /\ child' = Forked(ch, r, d.name)
          /\ L' = (L \ {d}) \cup Entry(d.name, r)
    BY <2>2
  <2>4. d \in L /\ d.pid = p /\ d.name \in DaemonNames
    BY <1>1 DEF FindPid, Entries
  <2>5. DaemonsMatch(ch, L \ {d})
    BY <1>1, <2>4, ReapDaemon
  <2>6. \A e \in L \ {d} : e.name # d.name
    BY <1>1, <2>4 DEF DaemonsMatch
  <2>7. L' \in SUBSET Entries /\ DaemonsMatch(child', L')
    BY <1>1, <1>2, <2>3, <2>4, <2>5, <2>6, ForkDaemon
  <2>8. /\ child' \in ChildTables
        /\ \A x \in Pids : child'[x] = ch[x]
                            \/ (ch[x] = Free /\ child'[x].prog = d.name)
    <3>1. d.name \in Programs
      BY <2>4 DEF Programs
    <3> HIDE DEF ch
    <3> QED BY <1>2, <2>3, <3>1, ForkOnly
  <2>9. d.name \notin Cmds /\ child[p].prog = d.name
    BY <1>1, <2>4, ProcsAssumption DEF DaemonsMatch
  <2> HIDE DEF ch
  <2>10. TasksMatch(child', H)
    BY <1>1, <1>2, <2>8, <2>9, SameTasks
  <2>11. DaemonTypeOK'
    BY <2>1, <2>7 DEF IInv, TypeOK, DaemonTypeOK, DaemonCheck
  <2> QED BY <1>1, <2>1, <2>7, <2>8, <2>10, <2>11
          DEF IInv, TypeOK, ProcsTypeOK, TaskTypeOK, ChildTables
<1>4. CASE FindPid(p) = {}
  <2>1. TaskCheckPid(p, child[p].st, ch) /\ UNCHANGED daemonVars
    BY <1>4 DEF WaitPid
  <2>2. \A d \in L : d.pid # p
    BY <1>4 DEF FindPid
  <2>3. DaemonsMatch(ch, L)
    BY <1>1, <2>2, ReapOther
  <2>4. /\ child' \in ChildTables
        /\ H' \in [Groups -> GroupRecords]
        /\ Shapes(H') /\ TasksMatch(child', H')
        /\ \A x \in Pids : child'[x] = ch[x] \/ (ch[x] = Free /\ child'[x].prog \in Cmds)
    <3>1. CASE Found(p) = {}
      <4> DEFINE from == [g \in Groups |-> 0]
      <4>1. Walk(ch, H, from)
        BY <2>1, <3>1 DEF TaskCheckPid
      <4>2. from \in [Groups -> Nat] /\ \A g \in Groups : from[g] <= H[g].finish_nr + 1
        BY <1>1, RecordType
      <4>3. TasksMatch(ch, H)
        BY <1>1, <3>1, ReapUnowned
      <4> HIDE DEF from, ch
      <4> QED BY <1>1, <1>2, <4>1, <4>2, <4>3, WalkFacts
    <3>2. CASE Found(p) # {}
      <4>1. PICK x \in Found(p) : \E after \in SUBSET Groups :
              LET base == [H EXCEPT ![x[1]] = EndTask(@, x[2], child[p].st)]
              IN Walk(ch, base,
                      [g \in Groups |-> IF g = x[1] THEN x[2] + 1
                                        ELSE IF g \in after THEN 1 ELSE 0])
        BY <2>1, <3>2 DEF TaskCheckPid
      <4>2. PICK after \in SUBSET Groups :
              LET base == [H EXCEPT ![x[1]] = EndTask(@, x[2], child[p].st)]
              IN Walk(ch, base,
                      [g \in Groups |-> IF g = x[1] THEN x[2] + 1
                                        ELSE IF g \in after THEN 1 ELSE 0])
        BY <4>1
      <4> DEFINE g == x[1]
                 k == x[2]
                 base == [H EXCEPT ![g] = EndTask(@, k, child[p].st)]
                 from == [h \in Groups |-> IF h = g THEN k + 1
                                           ELSE IF h \in after THEN 1 ELSE 0]
      <4>3. Walk(ch, base, from)
        BY <4>2
      <4>4. /\ g \in Groups /\ k \in 1..Len(H[g].sub) /\ k \in Nat
            /\ H[g].sub[k].pid = p /\ ~AllEnded(H[g])
        BY <1>1, RecordType, TaskAssumption DEF Found
      <4> HIDE DEF g, k, from
      <4>5. /\ base \in [Groups -> GroupRecords] /\ Shapes(base)
            /\ base[g].finish_nr = k
            /\ TasksMatch(ch, base)
        <5> DEFINE how == child[p].st
        <5> HIDE DEF how
        <5>1. [H EXCEPT ![g] = EndTask(@, k, how)] = base
          BY DEF how
        <5> HIDE DEF base, H
        <5> QED BY <1>1, <4>4, <5>1, EndMatch
      <4>6. \A h \in Groups : h # g => base[h] = H[h]
        OBVIOUS
      <4> HIDE DEF base, ch
      <4>7. from \in [Groups -> Nat] /\ \A h \in Groups : from[h] <= base[h].finish_nr + 1
        BY <4>4, <4>5, RecordType DEF from
      <4>8. \A h \in Groups : AllEnded(H[h]) => base[h] = H[h]
        BY <4>4, <4>6
      <4> QED BY <1>2, <4>3, <4>5, <4>7, <4>8, WalkFacts
    <3> QED BY <3>1, <3>2
  <2> HIDE DEF ch
  <2>5. DaemonsMatch(child', L')
    BY <1>1, <1>2, <2>1, <2>3, <2>4, WalkDaemons DEF daemonVars
  <2> QED BY <2>1, <2>4, <2>5
          DEF IInv, TypeOK, ProcsTypeOK, DaemonTypeOK, TaskTypeOK, ChildTables, daemonVars
<1> QED BY <1>3, <1>4

----------------------------------------------------------------------------
(* The handlers that are one change of one list.                           *)
LEMMA DelDaemonStep ==
  ASSUME IInv, NEW n \in DaemonNames, DelDaemon(n)
  PROVE  IInv'
<1>1. /\ child \in ChildTables /\ sys_daemon_list \in SUBSET Entries
      /\ DaemonsMatch(child, sys_daemon_list)
      /\ igd_sys_task_head \in [Groups -> GroupRecords]
      /\ TasksMatch(child, igd_sys_task_head)
  BY DEF IInv, TypeOK, ProcsTypeOK, DaemonTypeOK, TaskTypeOK, ChildTables
<1>2. PICK d \in sys_daemon_list :
        child' = Killed(child, d.pid) /\ sys_daemon_list' = sys_daemon_list \ {d}
  BY DEF DelDaemon, DaemonDel, FindName
<1>3. /\ child' \in ChildTables /\ sys_daemon_list' \in SUBSET Entries
      /\ DaemonsMatch(child', sys_daemon_list')
      /\ \A p \in Pids : /\ child'[p] = Free <=> child[p] = Free
                         /\ child'[p].prog = child[p].prog
  BY <1>1, <1>2, KillDaemon
<1>4. TasksMatch(child', igd_sys_task_head)
  BY <1>1, <1>3, SameTasks
<1>5. UNCHANGED <<sys_oomkill_list, oomkill_age, igd_sys_task_head>>
  BY DEF DelDaemon, DaemonDel
<1> QED BY <1>1, <1>3, <1>4, <1>5
        DEF IInv, TypeOK, ProcsTypeOK, DaemonTypeOK, TaskTypeOK, ChildTables, Shapes

LEMMA ReportOomStep ==
  ASSUME IInv, NEW p \in Pids, ReportOom(p)
  PROVE  IInv'
<1>1. /\ child \in ChildTables /\ sys_daemon_list \in SUBSET Entries
      /\ DaemonsMatch(child, sys_daemon_list)
      /\ igd_sys_task_head \in [Groups -> GroupRecords]
      /\ TasksMatch(child, igd_sys_task_head)
      /\ sys_oomkill_list \in Seq(DaemonNames) /\ 0 \in 0..OomDelay
  BY DaemonAssumption DEF IInv, TypeOK, ProcsTypeOK, DaemonTypeOK, TaskTypeOK, ChildTables
<1>2. PICK d \in sys_daemon_list :
        /\ child' = Killed(child, d.pid)
        /\ sys_daemon_list' = sys_daemon_list \ {d}
        /\ sys_oomkill_list' = Append(sys_oomkill_list, d.name)
  BY DEF ReportOom, DaemonOom, FindPid
<1>3. /\ child' \in ChildTables /\ sys_daemon_list' \in SUBSET Entries
      /\ DaemonsMatch(child', sys_daemon_list')
      /\ \A q \in Pids : /\ child'[q] = Free <=> child[q] = Free
                         /\ child'[q].prog = child[q].prog
  BY <1>1, <1>2, KillDaemon
<1>4. TasksMatch(child', igd_sys_task_head)
  BY <1>1, <1>3, SameTasks
<1>5. oomkill_age' = 0 /\ UNCHANGED igd_sys_task_head
  BY DEF ReportOom, DaemonOom
<1>6. sys_oomkill_list' \in Seq(DaemonNames)
  BY <1>1, <1>2 DEF Entries
<1> QED BY <1>1, <1>3, <1>4, <1>5, <1>6
        DEF IInv, TypeOK, ProcsTypeOK, DaemonTypeOK, TaskTypeOK, ChildTables, Shapes

LEMMA AddDaemonStep ==
  ASSUME IInv, NEW n \in DaemonNames, AddDaemon(n)
  PROVE  IInv'
<1>1. /\ child \in ChildTables /\ sys_daemon_list \in SUBSET Entries
      /\ DaemonsMatch(child, sys_daemon_list)
      /\ igd_sys_task_head \in [Groups -> GroupRecords]
      /\ TasksMatch(child, igd_sys_task_head)
  BY DEF IInv, TypeOK, ProcsTypeOK, DaemonTypeOK, TaskTypeOK, ChildTables
<1>2. PICK r \in ForkResults(child) :
        /\ child' = Forked(child, r, n)
        /\ sys_daemon_list' = sys_daemon_list \cup Entry(n, r)
  BY DEF AddDaemon, DaemonAdd
<1>3. \A d \in sys_daemon_list : d.name # n
  BY DEF AddDaemon, DaemonAdd, FindName
<1>4. sys_daemon_list' \in SUBSET Entries /\ DaemonsMatch(child', sys_daemon_list')
  BY <1>1, <1>2, <1>3, ForkDaemon
<1>5. n \in Programs /\ n \notin Cmds
  BY ProcsAssumption DEF Programs
<1>6. /\ child' \in ChildTables
      /\ \A p \in Pids : child'[p] = child[p] \/ (child[p] = Free /\ child'[p].prog = n)
  BY <1>1, <1>2, <1>5, ForkOnly
<1>7. TasksMatch(child', igd_sys_task_head)
  BY <1>1, <1>5, <1>6, SameTasks
<1>8. UNCHANGED <<sys_oomkill_list, oomkill_age, igd_sys_task_head>>
  BY DEF AddDaemon, DaemonAdd
<1> QED BY <1>1, <1>4, <1>6, <1>7, <1>8
        DEF IInv, TypeOK, ProcsTypeOK, DaemonTypeOK, TaskTypeOK, ChildTables, Shapes

\* A child that changes its state only, or a child nobody tracks that is forked.
LEMMA ChildStep ==
  ASSUME IInv, child' \in ChildTables, UNCHANGED <<daemonVars, igd_sys_task_head>>,
         \A p \in Pids : \/ child'[p] = child[p]
                         \/ child[p] = Free /\ child'[p].prog = Background
                         \/ /\ child[p] # Free /\ child'[p] # Free
                            /\ child'[p].prog = child[p].prog /\ child'[p].st # "run"
  PROVE  IInv'
<1>1. /\ child \in ChildTables /\ sys_daemon_list \in SUBSET Entries
      /\ DaemonsMatch(child, sys_daemon_list)
      /\ igd_sys_task_head \in [Groups -> GroupRecords]
      /\ TasksMatch(child, igd_sys_task_head)
  BY DEF IInv, TypeOK, ProcsTypeOK, DaemonTypeOK, TaskTypeOK, ChildTables
<1>2. Background \notin DaemonNames /\ Background \notin Cmds
  BY ProcsAssumption
<1>3. \A d \in sys_daemon_list : d.pid \in Pids /\ child[d.pid] # Free
  BY <1>1 DEF Entries, DaemonsMatch
<1>4. DaemonsMatch(child', sys_daemon_list)
  BY <1>1, <1>2, <1>3, SameDaemons
<1>5. TasksMatch(child', igd_sys_task_head)
  BY <1>1, <1>2, SameTasks
<1> QED BY <1>1, <1>4, <1>5
        DEF IInv, TypeOK, ProcsTypeOK, DaemonTypeOK, TaskTypeOK, ChildTables, Shapes, daemonVars

\* A child in one of its states.
InState(ch, p, how) == [ch EXCEPT ![p].st = how]

LEMMA ChildIs ==
  ASSUME NEW ch \in ChildTables, NEW p \in Pids, ch[p].st # "free", NEW how \in ChildStates,
         NEW ch2, ch2 = InState(ch, p, how)
  PROVE  /\ ch2 \in ChildTables /\ ch[p] # Free /\ ch2[p] # Free
         /\ ch2[p].st = how /\ ch2[p].prog = ch[p].prog
         /\ \A q \in Pids : q # p => ch2[q] = ch[q]
<1>1. ch[p] \in Children
  BY FreeFact DEF ChildTables
<1> DEFINE x == [ch[p] EXCEPT !.st = how]
<1>2. x \in Children /\ x.st = how /\ x.prog = ch[p].prog
  BY <1>1 DEF Children
<1>3. ch2 = [ch EXCEPT ![p] = x]
  BY DEF InState
<1> HIDE DEF x
<1>4. ch2 \in ChildTables /\ ch2[p] = x /\ \A q \in Pids : q # p => ch2[q] = ch[q]
  BY <1>2, <1>3 DEF ChildTables
<1>5. ch[p] # Free /\ ch2[p] # Free
  BY <1>1, <1>2, <1>4, FreeFact
<1> QED BY <1>2, <1>4, <1>5

LEMMA ChildExitStep ==
  ASSUME IInv, NEW p \in Pids, ChildExit(p)
  PROVE  IInv'
<1>1. child \in ChildTables /\ child[p].st = "run"
  BY DEF IInv, TypeOK, ProcsTypeOK, ChildTables, ChildExit, Exit, Running
<1>2. PICK how \in {"exited", "signaled"} : child' = InState(child, p, how)
  BY DEF ChildExit, Exit, InState
<1>3. how \in ChildStates /\ how # "run"
  BY DEF ChildStates
<1>4. /\ child' \in ChildTables /\ child[p] # Free /\ child'[p] # Free
      /\ child'[p].st = how /\ child'[p].prog = child[p].prog
      /\ \A q \in Pids : q # p => child'[q] = child[q]
  BY <1>1, <1>2, <1>3, ChildIs
<1> QED BY <1>3, <1>4, ChildStep DEF ChildExit

LEMMA ChildDieStep ==
  ASSUME IInv, NEW p \in Pids, ChildDie(p)
  PROVE  IInv'
<1>1. child \in ChildTables /\ child[p].st = "dying"
  BY DEF IInv, TypeOK, ProcsTypeOK, ChildTables, ChildDie, Die
<1>2. child' = InState(child, p, "signaled") /\ "signaled" \in ChildStates
  BY DEF ChildDie, Die, ChildStates, InState
<1>3. /\ child' \in ChildTables /\ child[p] # Free /\ child'[p] # Free
      /\ child'[p].st = "signaled" /\ child'[p].prog = child[p].prog
      /\ \A q \in Pids : q # p => child'[q] = child[q]
  BY <1>1, <1>2, ChildIs
<1> QED BY <1>3, ChildStep DEF ChildDie

LEMMA ExecStep ==
  ASSUME IInv, Exec
  PROVE  IInv'
<1>1. child \in ChildTables
  BY DEF IInv, TypeOK, ProcsTypeOK, ChildTables
<1>2. PICK r \in FreePids(child) : child' = Forked(child, r, Background)
  BY DEF Exec, ExecBackground
<1>3. r \in ForkResults(child) /\ Background \in Programs
  BY DEF ForkResults, Programs
<1>4. /\ child' \in ChildTables
      /\ \A p \in Pids : child'[p] = child[p]
                          \/ (child[p] = Free /\ child'[p].prog = Background)
  BY <1>1, <1>2, <1>3, ForkOnly
<1> QED BY <1>4, ChildStep DEF Exec

LEMMA GroupStep ==
  ASSUME IInv, UNCHANGED <<child, sys_daemon_list, sys_oomkill_list>>,
         oomkill_age' \in 0..OomDelay,
         igd_sys_task_head' \in [Groups -> GroupRecords],
         Shapes(igd_sys_task_head'), TasksMatch(child, igd_sys_task_head')
  PROVE  IInv'
  BY DEF IInv, TypeOK, ProcsTypeOK, DaemonTypeOK, TaskTypeOK

LEMMA TickStep ==
  ASSUME IInv, Tick
  PROVE  IInv'
<1>1. oomkill_age' \in 0..OomDelay
  BY DaemonAssumption DEF IInv, TypeOK, DaemonTypeOK, Tick, DaemonTick
<1>2. UNCHANGED <<child, sys_daemon_list, sys_oomkill_list>> /\ TaskTick
  BY DEF Tick, DaemonTick
<1> QED BY <1>1, <1>2, TickFacts, GroupStep

LEMMA TaskRequestStep ==
  ASSUME IInv, NEW g \in Groups,
         (\E c \in Cmds : AddTask(g, c)) \/ DumpTask(g)
  PROVE  IInv'
<1>1. UNCHANGED <<child, sys_daemon_list, sys_oomkill_list>> /\ oomkill_age' \in 0..OomDelay
  BY DEF IInv, TypeOK, DaemonTypeOK, AddTask, DumpTask, daemonVars
<1>2. CASE \E c \in Cmds : AddTask(g, c)
  BY <1>1, <1>2, AddTaskFacts, GroupStep DEF AddTask
<1>3. CASE DumpTask(g)
  BY <1>1, <1>3, DumpTaskFacts, GroupStep DEF DumpTask
<1> QED BY <1>2, <1>3

----------------------------------------------------------------------------
LEMMA InitIInv == Init => IInv
<1> SUFFICES ASSUME Init PROVE IInv
  OBVIOUS
<1>1. /\ child = [p \in Pids |-> Free] /\ sys_daemon_list = {}
      /\ sys_oomkill_list = <<>> /\ oomkill_age = 0
      /\ igd_sys_task_head = [g \in Groups |-> NoGroup]
  BY DEF Init, DaemonInit, TaskInit
<1>2. TypeOK
  BY <1>1, NoGroupFacts, DaemonAssumption
  DEF TypeOK, ProcsTypeOK, DaemonTypeOK, TaskTypeOK
<1>3. DaemonsMatch(child, sys_daemon_list)
  BY <1>1, FreeFact DEF DaemonsMatch
<1>4. Shapes(igd_sys_task_head)
  BY <1>1, NoGroupFacts DEF Shapes
<1>5. TasksMatch(child, igd_sys_task_head)
  BY <1>1, NoGroupFacts DEF TasksMatch
<1> QED BY <1>2, <1>3, <1>4, <1>5 DEF IInv

LEMMA NextIInv == IInv /\ [Next]_vars => IInv'
<1> SUFFICES ASSUME IInv, [Next]_vars PROVE IInv'
  OBVIOUS
<1>1. CASE UNCHANGED vars
  BY <1>1 DEF IInv, TypeOK, ProcsTypeOK, DaemonTypeOK, TaskTypeOK, Shapes, vars, daemonVars
<1>2. ASSUME NEW n \in DaemonNames, AddDaemon(n) PROVE IInv'
  BY <1>2, AddDaemonStep
<1>3. ASSUME NEW n \in DaemonNames, DelDaemon(n) PROVE IInv'
  BY <1>3, DelDaemonStep
<1>4. ASSUME NEW g \in Groups, NEW c \in Cmds, AddTask(g, c) PROVE IInv'
  BY <1>4, TaskRequestStep
<1>5. ASSUME NEW g \in Groups, DumpTask(g) PROVE IInv'
  BY <1>5, TaskRequestStep
<1>6. ASSUME NEW p \in Pids, ReportOom(p) PROVE IInv'
  BY <1>6, ReportOomStep
<1>7. ASSUME NEW p \in Pids, WaitPid(p) PROVE IInv'
  BY <1>7, WaitPidStep
<1>8. ASSUME NEW p \in Pids, ChildExit(p) PROVE IInv'
  BY <1>8, ChildExitStep
<1>9. ASSUME NEW p \in Pids, ChildDie(p) PROVE IInv'
  BY <1>9, ChildDieStep
<1>10. CASE Timer
  BY <1>10, TimerStep
<1>11. CASE Exec
  BY <1>11, ExecStep
<1>12. CASE Tick
  BY <1>12, TickStep
<1> QED BY <1>1, <1>2, <1>3, <1>4, <1>5, <1>6, <1>7, <1>8, <1>9, <1>10, <1>11, <1>12 DEF Next

----------------------------------------------------------------------------
(* What the invariant says of the program.                                 *)
LEMMA SupervisorSafe ==
  ASSUME IInv
  PROVE  OneEntryPerName /\ EntryHasChild /\ NoRunawayDaemon /\ OneInstance
<1>1. OneEntryPerName
  BY DEF IInv, DaemonsMatch, OneEntryPerName
<1>2. EntryHasChild
  BY DEF IInv, DaemonsMatch, EntryHasChild, Exists
<1>3. NoRunawayDaemon
  BY DEF IInv, DaemonsMatch, NoRunawayDaemon, Running
<1>4. ASSUME NEW p \in Pids, NEW q \in Pids, Running(p), Running(q),
             child[p].prog = child[q].prog, child[p].prog \in DaemonNames
      PROVE  p = q
  <2>1. PICK d \in sys_daemon_list : d.pid = p
    BY <1>3, <1>4 DEF NoRunawayDaemon
  <2>2. PICK e \in sys_daemon_list : e.pid = q
    BY <1>3, <1>4 DEF NoRunawayDaemon
  <2>3. d.name = e.name
    BY <1>2, <1>4, <2>1, <2>2 DEF EntryHasChild
  <2> QED BY <1>1, <2>1, <2>2, <2>3 DEF OneEntryPerName
<1> QED BY <1>1, <1>2, <1>3, <1>4 DEF OneInstance

LEMMA TasksSafe ==
  ASSUME IInv
  PROVE  InOrder /\ TaskHasChild /\ OneOwner /\ NoSharedPid
<1> DEFINE H == igd_sys_task_head
<1>1. H \in [Groups -> GroupRecords] /\ Shapes(H) /\ TasksMatch(child, H)
  BY DEF IInv, TypeOK, TaskTypeOK
<1>2. ASSUME NEW g \in Groups, NEW i \in 1..Len(H[g].sub), NEW j \in 1..Len(H[g].sub),
             i < j, H[g].sub[j].pid # Pending
      PROVE  H[g].sub[i].pid = Ended
  <2>1. Shape(H[g]) /\ H[g].nr \in Nat /\ H[g].finish_nr \in Nat
    BY <1>1, RecordType DEF Shapes
  <2> QED BY <1>2, <2>1 DEF Shape
<1>3. TaskHasChild
  BY <1>1 DEF TasksMatch, TaskHasChild, Exists
<1>4. ASSUME NEW p \in Pids, Exists(p), child[p].prog \in Cmds
      PROVE  \E g \in Groups : \E i \in 1..Len(H[g].sub) :
               /\ H[g].sub[i].pid = p
               /\ \A h \in Groups : \A j \in 1..Len(H[h].sub) :
                    H[h].sub[j].pid = p => h = g /\ j = i
  <2>1. PICK g \in Groups : \E i \in 1..Len(H[g].sub) : H[g].sub[i].pid = p
    BY <1>1, <1>4 DEF TasksMatch, Exists
  <2>2. PICK i \in 1..Len(H[g].sub) : H[g].sub[i].pid = p
    BY <2>1
  <2>3. \A h \in Groups : \A j \in 1..Len(H[h].sub) :
          H[h].sub[j].pid = p => h = g /\ j = i
    BY <1>1, <2>2 DEF TasksMatch
  <2> QED BY <2>2, <2>3
\* A daemon is no command, so one child cannot be both.
<1>5. ASSUME NEW d \in sys_daemon_list, NEW g \in Groups, NEW i \in 1..Len(H[g].sub),
             H[g].sub[i].pid = d.pid
      PROVE  FALSE
  <2>1. d \in Entries /\ child[d.pid].prog = d.name
    BY DEF IInv, TypeOK, DaemonTypeOK, DaemonsMatch
  <2>2. H[g].sub[i].cmd \in Cmds
    BY <1>1, RecordType
  <2>3. child[d.pid].prog = H[g].sub[i].cmd
    BY <1>1, <1>5, <2>1 DEF TasksMatch, Entries
  <2> QED BY <2>1, <2>2, <2>3, ProcsAssumption DEF Entries
<1> QED BY <1>2, <1>3, <1>4, <1>5 DEF InOrder, OneOwner, NoSharedPid

----------------------------------------------------------------------------
(* The theorems.                                                           *)
\* The two lists of mu and the child table agree after every handler, whatever
\* exits, kills, failed forks and requests came before.
THEOREM Inductive == Spec => []IInv
<1> QED BY InitIInv, NextIInv, PTL DEF Spec

\* The variables keep their types.
THEOREM TypeCorrect == Spec => []TypeOK
<1>1. IInv => TypeOK
  BY DEF IInv
<1> QED BY <1>1, Inductive, PTL

\* igd_sys_daemon_check finds the entry of every supervised daemon that exits.
THEOREM ExitsFound == Spec => [](OneEntryPerName /\ EntryHasChild)
<1>1. IInv => OneEntryPerName /\ EntryHasChild
  BY SupervisorSafe
<1> QED BY <1>1, Inductive, PTL

\* No process of a daemon runs on that DEL, an OOM kill or a failed restart forgot.
THEOREM NoRunaway == Spec => []NoRunawayDaemon
<1>1. IInv => NoRunawayDaemon
  BY SupervisorSafe
<1> QED BY <1>1, Inductive, PTL

\* No daemon runs twice, because none runs without its entry.
THEOREM Supervision == Spec => []OneInstance
<1>1. IInv => OneInstance
  BY SupervisorSafe
<1> QED BY <1>1, Inductive, PTL

\* igd_sys_task_check runs the commands of a group in order, one at a time.
THEOREM Order == Spec => []InOrder
<1>1. IInv => InOrder
  BY TasksSafe
<1> QED BY <1>1, Inductive, PTL

\* A reaped pid ends exactly the command that ran as it.
THEOREM Ownership == Spec => [](TaskHasChild /\ OneOwner /\ NoSharedPid)
<1>1. IInv => TaskHasChild /\ OneOwner /\ NoSharedPid
  BY TasksSafe
<1> QED BY <1>1, Inductive, PTL
=============================================================================
