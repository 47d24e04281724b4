------------------------------ MODULE JobQueue ------------------------------
(***************************************************************************)
(* What the task runner promises its clients (igd_sys_task_add and         *)
(* igd_sys_task_dump), without processes, counters or timers: per group, a *)
(* log of accepted commands of which a prefix has ended and at most the    *)
(* next one runs.  MuSupervisor implements it.                             *)
(***************************************************************************)
EXTENDS Naturals, Sequences

CONSTANTS Groups, Cmds

VARIABLE jobs  \* name -> [accepted, started, ended]

NoJobs == [accepted |-> <<>>, started |-> 0, ended |-> 0]

Init == jobs = [g \in Groups |-> NoJobs]

Outstanding(q) == {q.accepted[i] : i \in (q.ended + 1)..Len(q.accepted)}

\* A command is accepted unless the same one is already outstanding.
Submit(g, c) ==
  /\ c \notin Outstanding(jobs[g])
  /\ jobs' = [jobs EXCEPT ![g].accepted = Append(@, c)]

\* The running command ends.
End(q) == IF q.ended < q.started THEN {[q EXCEPT !.ended = @ + 1]} ELSE {}

\* The next command starts, or could not be started and counts as ended.
Start(q) ==
  IF q.started = q.ended /\ q.started < Len(q.accepted)
  THEN {[q EXCEPT !.started = @ + 1],
        [q EXCEPT !.started = @ + 1, !.ended = @ + 1]}
  ELSE {}

\* The log is forgotten once all of it has ended.
Forget(q) == IF q.ended = Len(q.accepted) THEN {NoJobs} ELSE {}

\* What one pass over the groups can do to one of them.
Moves(q) ==
  {q} \cup End(q) \cup Start(q) \cup Forget(q) \cup (UNION {Start(r) : r \in End(q)})

Pass ==
  /\ jobs' \in [Groups -> UNION {Moves(jobs[g]) : g \in Groups}]
  /\ \A g \in Groups : jobs'[g] \in Moves(jobs[g])

Next == Pass \/ \E g \in Groups, c \in Cmds : Submit(g, c)

Spec == Init /\ [][Next]_jobs
=============================================================================
