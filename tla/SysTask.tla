------------------------------ MODULE SysTask ------------------------------
(***************************************************************************)
(* The task runner of mu (igd_system.c): named groups of shell commands    *)
(* (the web server's copy, move and remove jobs) that run one at a time    *)
(* per group, in the order they were added, each in a child process of mu. *)
(* Clients poll a group with SYSTEM_MOD_TASK_DUMP; a finished group is     *)
(* forgotten by the poll that saw it finished, or a minute later.          *)
(*                                                                         *)
(* The list of groups is a function from names: only which groups come     *)
(* after a given one in it is left open (see TaskCheck).  sub is the       *)
(* group's list in the order the code walks it, oldest command first.      *)
(***************************************************************************)
EXTENDS MuProcs, Integers, Sequences

CONSTANTS
  Groups,    \* names of task groups
  TaskKeep,  \* the 60 seconds a finished group is kept, in ticks
  MaxTasks   \* bound: commands a group holds

ASSUME TaskAssumption == TaskKeep \in Nat /\ MaxTasks \in Nat

VARIABLE igd_sys_task_head  \* name -> the group, or NoGroup

\* isti->pid before the command's fork (0), and after its end (< 0).
Pending == "pending"
Ended   == "ended"

ASSUME TaskPidAssumption == {Pending, Ended, NoPid} \cap Pids = {}

Unset == -1  \* istl->timeout before the finished group was seen: 0 in the code

\* How the end of a command was counted; the code keeps isti->ret, which nobody
\* reads, and counts a failed fork without setting it.
Results == {"none", "ok", "error"}

Tasks == [cmd : Cmds, pid : Pids \cup {Pending, Ended}, ret : Results]

GroupRecords ==
  [nr : Nat, err_nr : Nat, finish_nr : Nat,
   timeout : {Unset} \cup 0..(TaskKeep + 1), sub : Seq(Tasks)]

NoGroup == [nr |-> 0, err_nr |-> 0, finish_nr |-> 0,
            timeout |-> Unset, sub |-> <<>>]

TaskTypeOK == igd_sys_task_head \in [Groups -> GroupRecords]

TaskInit == igd_sys_task_head = [g \in Groups |-> NoGroup]

AllEnded(t) == t.nr = t.finish_nr
Open(t, i)  == i \in 1..Len(t.sub) /\ t.sub[i].pid # Ended

----------------------------------------------------------------------------
\* Faulty variant: list_add_tail for list_add.
TaskAddTail(g, c) ==
  LET t == igd_sys_task_head[g] IN
    /\ t.nr < MaxTasks
    /\ ~ \E i \in 1..Len(t.sub) : Open(t, i) /\ t.sub[i].cmd = c
    /\ igd_sys_task_head' =
         [igd_sys_task_head EXCEPT ![g] =
            [t EXCEPT !.nr = t.nr + 1, !.timeout = Unset,
                      !.sub = <<[cmd |-> c, pid |-> Pending, ret |-> "none"]>> \o t.sub]]

\* igd_sys_task_add: a command that is already waiting or running in its group
\* is not added again; the client is told it was.
TaskAdd(g, c) ==
  LET t == igd_sys_task_head[g] IN
    /\ t.nr < MaxTasks
    /\ ~ \E i \in 1..Len(t.sub) : Open(t, i) /\ t.sub[i].cmd = c
    /\ igd_sys_task_head' =
         [igd_sys_task_head EXCEPT ![g] =
            [t EXCEPT !.nr = t.nr + 1, !.timeout = Unset,
                      !.sub = Append(t.sub, [cmd |-> c, pid |-> Pending, ret |-> "none"])]]

\* Faulty variant: the poll frees the group it reports, finished or not.
TaskDumpAlways(g) ==
  /\ igd_sys_task_head[g].nr > 0
  /\ igd_sys_task_head' = [igd_sys_task_head EXCEPT ![g] = NoGroup]

\* igd_sys_task_dump frees a group it reports as finished.
TaskDump(g) ==
  LET t == igd_sys_task_head[g] IN
    /\ t.nr > 0
    /\ AllEnded(t)
    /\ igd_sys_task_head' = [igd_sys_task_head EXCEPT ![g] = NoGroup]

----------------------------------------------------------------------------
(***************************************************************************)
(* igd_sys_task_check walks the groups.  With a reaped pid it looks for    *)
(* the command that ran as that pid and records its end; from there on,    *)
(* and from the beginning when it is called by the timer, it starts the    *)
(* next command of every group in which none runs.                         *)
(***************************************************************************)
\* Faulty variants: the list walked newest first; ended commands not skipped.
NextOpenNewest(t, i) ==
  LET open == {j \in i..Len(t.sub) : t.sub[j].pid # Ended} IN
    IF open = {} THEN 0 ELSE CHOOSE j \in open : \A k \in open : k <= j

NextOpenNoSkip(t, i) == IF i <= Len(t.sub) THEN i ELSE 0

\* The first open command from i on, 0 if there is none: where the walk of a
\* group stops.
NextOpen(t, i) ==
  LET open == {j \in i..Len(t.sub) : t.sub[j].pid # Ended} IN
    IF open = {} THEN 0 ELSE CHOOSE j \in open : \A k \in open : j <= k

Finished(task, ret) == [task EXCEPT !.pid = Ended, !.ret = ret]

\* The command found to have run as pid p: a child that was killed by a signal
\* counts as an error (the child's exit status is always that of exit(0)).
EndTask(t, i, how) ==
  LET ret == IF how = "signaled" THEN "error" ELSE "ok" IN
    [t EXCEPT !.finish_nr = t.finish_nr + 1,
              !.err_nr = IF ret = "error" THEN t.err_nr + 1 ELSE t.err_nr,
              !.sub[i] = Finished(t.sub[i], ret)]

\* Faulty variant: a failed fork counts as an error but not as finished.
StartTaskNoFinish(t, i, r) ==
  IF r # NoPid
  THEN [t EXCEPT !.sub[i] = [t.sub[i] EXCEPT !.pid = r]]
  ELSE [t EXCEPT !.err_nr = t.err_nr + 1, !.sub[i] = Finished(t.sub[i], "error")]

\* fork() of command i returned r; a command whose fork fails has ended.
StartTask(t, i, r) ==
  IF r # NoPid
  THEN [t EXCEPT !.sub[i] = [t.sub[i] EXCEPT !.pid = r]]
  ELSE [t EXCEPT !.finish_nr = t.finish_nr + 1, !.err_nr = t.err_nr + 1,
                 !.sub[i] = Finished(t.sub[i], "error")]

\* Faulty variant: the time stamp is renewed by every walk.
ExpireGroupRestamp(t) ==
  IF t.nr = 0 THEN t
  ELSE IF t.timeout > TaskKeep THEN NoGroup ELSE [t EXCEPT !.timeout = 0]

\* The minute after which a finished group nobody polled is freed.
ExpireGroup(t) ==
  IF t.nr = 0 THEN t
  ELSE IF t.timeout = Unset THEN [t EXCEPT !.timeout = 0]
  ELSE IF t.timeout > TaskKeep THEN NoGroup ELSE t

\* Does the walk of group t from position i on start a command?
Starts(t, i) == NextOpen(t, i) # 0 /\ t.sub[NextOpen(t, i)].pid = Pending

\* The commands that ran as pid p; the groups of finished commands are skipped.
Found(p) ==
  {x \in Groups \X (1..MaxTasks) :
     LET t == igd_sys_task_head[x[1]] IN
       ~AllEnded(t) /\ x[2] <= Len(t.sub) /\ t.sub[x[2]].pid = p}

\* What the forks of one walk can return: one child per starting group.
Forks(ch, S) ==
  {f \in [S -> FreePids(ch) \cup {NoPid}] :
     /\ \A g, h \in S : f[g] = f[h] /\ f[g] # NoPid => g = h
     /\ (\E g \in S : f[g] = NoPid) =>
          ForkMayFail \/ FreePids(ch) \subseteq {f[g] : g \in S}}

\* The walk itself: base are the groups with the end of the reaped command
\* recorded, from[g] the position at which group g is walked in search of a
\* command to start, 0 for a group that was passed while still looking.  Which
\* groups are finished was tested before that end was recorded.
Starters(base, from) ==
  {g \in Groups : ~AllEnded(igd_sys_task_head[g]) /\ from[g] # 0 /\ Starts(base[g], from[g])}

Walk(ch, base, from) ==
  LET S       == Starters(base, from)
      next(g) == NextOpen(base[g], from[g])
  IN \E f \in Forks(ch, S) :
       /\ child' = [p \in Pids |->
                      IF \E g \in S : f[g] = p
                      THEN LET g == CHOOSE g \in S : f[g] = p
                           IN [st |-> "run", prog |-> base[g].sub[next(g)].cmd]
                      ELSE ch[p]]
       /\ igd_sys_task_head' =
            [g \in Groups |->
               IF g \in S THEN StartTask(base[g], next(g), f[g])
               ELSE IF ~AllEnded(igd_sys_task_head[g]) THEN base[g]
               ELSE ExpireGroup(base[g])]

\* igd_sys_task_check(NULL), ch the child table so far.
TaskCheckTimer(ch) ==
  Walk(ch, igd_sys_task_head, [g \in Groups |-> 1])

\* igd_sys_task_check for the reaped pid p, ended as how says, ch the table
\* without it.  Groups after the one it was found in may start a command too.
TaskCheckPid(p, how, ch) ==
  IF Found(p) = {}
  THEN Walk(ch, igd_sys_task_head, [g \in Groups |-> 0])
  ELSE \E x \in Found(p), after \in SUBSET Groups :
         LET base == [igd_sys_task_head EXCEPT ![x[1]] = EndTask(@, x[2], how)]
         IN Walk(ch, base,
                 [g \in Groups |-> IF g = x[1] THEN x[2] + 1
                                   ELSE IF g \in after THEN 1 ELSE 0])

TaskTick ==
  igd_sys_task_head' =
    [g \in Groups |->
       LET t == igd_sys_task_head[g] IN
         IF t.timeout \in 0..TaskKeep THEN [t EXCEPT !.timeout = @ + 1] ELSE t]

----------------------------------------------------------------------------
(***************************************************************************)
(* Properties of the task runner.                                          *)
(***************************************************************************)
\* What a client reads with TASK_DUMP is true of the commands: nr, finish_nr and
\* err_nr are incremented in five places and compared, never recomputed.
CountersAgree ==
  \A g \in Groups :
    LET t == igd_sys_task_head[g] IN
      /\ t.nr = Len(t.sub)
      /\ t.finish_nr = Cardinality({i \in 1..Len(t.sub) : t.sub[i].pid = Ended})
      /\ t.err_nr = Cardinality({i \in 1..Len(t.sub) : t.sub[i].ret = "error"})

\* Commands of a group run in the order they were added and one at a time: once a
\* command was started, every earlier one has ended.
InOrder ==
  \A g \in Groups :
    LET s == igd_sys_task_head[g].sub IN
      \A i, j \in 1..Len(s) : i < j /\ s[j].pid # Pending => s[i].pid = Ended

\* A running command's pid is a child mu has not reaped, running that command: its
\* end cannot be missed, which would block its group for ever.
TaskHasChild ==
  \A g \in Groups :
    LET s == igd_sys_task_head[g].sub IN
      \A i \in 1..Len(s) :
        s[i].pid \in Pids =>
          Exists(s[i].pid) /\ child[s[i].pid].prog = s[i].cmd

\* A process of a command is the process of exactly one command of one group: a
\* reaped pid ends one command, and no command's process is forgotten.
OneOwner ==
  \A p \in Pids :
    Exists(p) /\ child[p].prog \in Cmds =>
      \E g \in Groups : \E i \in 1..Len(igd_sys_task_head[g].sub) :
        /\ igd_sys_task_head[g].sub[i].pid = p
        /\ \A h \in Groups : \A j \in 1..Len(igd_sys_task_head[h].sub) :
             igd_sys_task_head[h].sub[j].pid = p => h = g /\ j = i
=============================================================================
