---------------------------- MODULE MuSupervisor ----------------------------
(***************************************************************************)
(* The daemon supervisor and the task runner together, as one iteration of *)
(* mu's main loop drives them: the 1 second timer (igd_sys_task_timer),    *)
(* requests over the IPC socket, the kernel's OOM reports over netlink,    *)
(* and one waitpid(-1, WNOHANG) whose result is offered to the supervisor  *)
(* first and to the task runner next (igd_sys_waitpid).                    *)
(*                                                                         *)
(* mu is single-threaded: each of these is one step.  Children run, exit   *)
(* and die between steps, and any number of seconds passes between them.   *)
(***************************************************************************)
EXTENDS SysDaemon, SysTask

vars == <<child, daemonVars, igd_sys_task_head>>

TypeOK == ProcsTypeOK /\ DaemonTypeOK /\ TaskTypeOK

Init ==
  /\ child = [p \in Pids |-> Free]
  /\ DaemonInit
  /\ TaskInit

----------------------------------------------------------------------------
(* Requests and reports.                                                   *)
AddDaemon(n)  == DaemonAdd(n) /\ UNCHANGED igd_sys_task_head
DelDaemon(n)  == DaemonDel(n) /\ UNCHANGED igd_sys_task_head
ReportOom(p)  == DaemonOom(p) /\ UNCHANGED igd_sys_task_head
AddTask(g, c) == TaskAdd(g, c) /\ UNCHANGED <<child, daemonVars>>
DumpTask(g)   == TaskDump(g) /\ UNCHANGED <<child, daemonVars>>

\* igd_sys_task_timer: both halves, every second.
Timer == \E ch \in OomTables : OomCheck(ch) /\ TaskCheckTimer(ch)

\* Faulty variant: only children somebody asked for are waited for.
WaitPidKnown(p) ==
  /\ Zombie(p)
  /\ LET ch == Reaped(child, p) IN
       \/ FindPid(p) # {} /\ DaemonCheck(p, ch) /\ UNCHANGED igd_sys_task_head
       \/ /\ FindPid(p) = {} /\ Found(p) # {}
          /\ TaskCheckPid(p, child[p].st, ch) /\ UNCHANGED daemonVars

\* The end of an iteration of the main loop, when waitpid returns child p.
WaitPid(p) ==
  /\ Zombie(p)
  /\ LET ch == Reaped(child, p) IN
       IF FindPid(p) # {}
       THEN DaemonCheck(p, ch) /\ UNCHANGED igd_sys_task_head
       ELSE TaskCheckPid(p, child[p].st, ch) /\ UNCHANGED daemonVars

\* Children of mu, and time.
ChildExit(p) == Exit(p) /\ UNCHANGED <<daemonVars, igd_sys_task_head>>
ChildDie(p)  == Die(p) /\ UNCHANGED <<daemonVars, igd_sys_task_head>>
Exec         == ExecBackground /\ UNCHANGED <<daemonVars, igd_sys_task_head>>
Tick         == DaemonTick /\ TaskTick /\ UNCHANGED child

Next ==
  \/ \E n \in DaemonNames : AddDaemon(n) \/ DelDaemon(n)
  \/ \E g \in Groups, c \in Cmds : AddTask(g, c)
  \/ \E g \in Groups : DumpTask(g)
  \/ \E p \in Pids : ReportOom(p) \/ WaitPid(p) \/ ChildExit(p) \/ ChildDie(p)
  \/ Timer
  \/ Exec
  \/ Tick

Spec == Init /\ [][Next]_vars

----------------------------------------------------------------------------
(***************************************************************************)
(* Fairness.  The main loop never blocks longer than the earliest timer    *)
(* (select's timeout), and igd_sys_task_timer is always armed: timer and   *)
(* waitpid are both reached again and again.  waitpid(-1) scans mu's       *)
(* children oldest first, so no zombie is passed over for ever.  A killed  *)
(* child dies.  Time passes.  Commands of the task runner end by           *)
(* themselves (copies, moves, removals): TaskFairness assumes it, since    *)
(* the code has no timeout on them.                                        *)
(***************************************************************************)
Fairness ==
  /\ WF_vars(Timer)
  /\ WF_vars(Tick)
  /\ \A p \in Pids : WF_vars(WaitPid(p)) /\ WF_vars(ChildDie(p))

TaskFairness ==
  \A p \in Pids : WF_vars(child[p].prog \in Cmds /\ ChildExit(p))

FairSpec == Spec /\ Fairness /\ TaskFairness

----------------------------------------------------------------------------
\* A reaped exit is never claimed by both: the supervisor is asked first, and
\* would take the exit of a command away from its group if a pid were in both.
NoSharedPid ==
  \A d \in sys_daemon_list, g \in Groups :
    \A i \in 1..Len(igd_sys_task_head[g].sub) :
      igd_sys_task_head[g].sub[i].pid # d.pid

Supervised(n) == FindName(n) # {}
Alive(n)      == \E d \in FindName(n) : Running(d.pid)

\* A supervised daemon that exits or crashes runs again, unless it is deleted,
\* parked, or its fork fails: its death is noticed.
DaemonRestarted == \A n \in DaemonNames : Supervised(n) ~> Alive(n) \/ ~Supervised(n)

\* Every zombie is reaped, those nobody waits for included: one waitpid per
\* iteration keeps up.
ZombiesReaped == \A p \in Pids : Zombie(p) ~> ~Zombie(p)

\* Every accepted command is started and ends, whatever is added behind it.
CommandEnds ==
  \A g \in Groups, i \in 1..MaxTasks :
    Open(igd_sys_task_head[g], i) ~> ~Open(igd_sys_task_head[g], i)

\* A finished group does not stay for ever when nobody polls it.
GroupForgotten ==
  \A g \in Groups :
    LET t == igd_sys_task_head[g] IN
      (t.nr > 0 /\ AllEnded(t)) ~> (t.nr = 0 \/ ~AllEnded(t))

----------------------------------------------------------------------------
\* The task runner is a JobQueue: commands of a group run once, in order, one at
\* a time, and are forgotten only when all have ended, whatever the children, the
\* failed forks and the order of exits and requests were.
Log(t) ==
  [accepted |-> [i \in 1..Len(t.sub) |-> t.sub[i].cmd],
   started  |-> Cardinality({i \in 1..Len(t.sub) : t.sub[i].pid # Pending}),
   ended    |-> t.finish_nr]

Queue == INSTANCE JobQueue WITH jobs <- [g \in Groups |-> Log(igd_sys_task_head[g])]

ImplementsJobQueue == Queue!Spec
=============================================================================
