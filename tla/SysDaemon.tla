----------------------------- MODULE SysDaemon -----------------------------
(***************************************************************************)
(* The daemon supervisor of mu (igd_system.c): programs that must keep     *)
(* running.  It restarts a daemon whose exit mu's main loop has reaped,    *)
(* stops one on request, and parks one that the kernel reports as the      *)
(* victim of memory pressure until memory has been plentiful for a while.  *)
(*                                                                         *)
(* This module holds the handlers; MuSupervisor puts them together with    *)
(* the task runner into one specification.  Times are ages in ticks that   *)
(* stop counting where the code no longer tells them apart.                *)
(***************************************************************************)
EXTENDS MuProcs, Naturals, Sequences

CONSTANTS
  OomDelay,  \* the 10*60 seconds of igd_sys_oom_check, in ticks
  MaxOom     \* bound: daemons parked at the same time

ASSUME DaemonAssumption == OomDelay \in Nat /\ MaxOom \in Nat

VARIABLES
  sys_daemon_list,   \* the supervised daemons: a set of [name, pid]
  sys_oomkill_list,  \* names of the parked daemons, oldest first
  oomkill_age        \* now - sys_oomkill_time, up to OomDelay

daemonVars == <<sys_daemon_list, sys_oomkill_list, oomkill_age>>

Entries == [name : DaemonNames, pid : Pids]

DaemonTypeOK ==
  /\ sys_daemon_list \subseteq Entries
  /\ sys_oomkill_list \in Seq(DaemonNames)
  /\ oomkill_age \in 0..OomDelay

DaemonInit ==
  /\ sys_daemon_list = {}
  /\ sys_oomkill_list = <<>>
  /\ oomkill_age = 0

\* igd_sys_daemon_find, by name and by pid.
FindName(n) == {d \in sys_daemon_list : d.name = n}
FindPid(p)  == {d \in sys_daemon_list : d.pid = p}

\* The entry a successful fork adds, none for a failed one.
Entry(n, r) == IF r = NoPid THEN {} ELSE {[name |-> n, pid |-> r]}

----------------------------------------------------------------------------
\* Faulty variant: the entry is listed without a look at what fork returned.
DaemonAddUnforked(n) ==
  /\ FindName(n) = {}
  /\ \E r \in ForkResults(child) :
       /\ child' = Forked(child, r, n)
       /\ sys_daemon_list' = sys_daemon_list \cup {[name |-> n, pid |-> r]}
  /\ UNCHANGED <<sys_oomkill_list, oomkill_age>>

\* igd_sys_daemon_add and igd_plug_daemon_add: -2 when the name is already
\* supervised; a daemon whose fork fails is not remembered.
DaemonAdd(n) ==
  /\ FindName(n) = {}
  /\ \E r \in ForkResults(child) :
       /\ child' = Forked(child, r, n)
       /\ sys_daemon_list' = sys_daemon_list \cup Entry(n, r)
  /\ UNCHANGED <<sys_oomkill_list, oomkill_age>>

\* Faulty variant: DEL that unlinks the entry and forgets the kill().
DaemonDelNoKill(n) ==
  /\ \E d \in FindName(n) : sys_daemon_list' = sys_daemon_list \ {d}
  /\ UNCHANGED <<child, sys_oomkill_list, oomkill_age>>

\* igd_sys_daemon_del: only sys_daemon_list is searched; the killed process
\* is left to the main loop to reap.
DaemonDel(n) ==
  /\ \E d \in FindName(n) :
       /\ child' = Killed(child, d.pid)
       /\ sys_daemon_list' = sys_daemon_list \ {d}
  /\ UNCHANGED <<sys_oomkill_list, oomkill_age>>

\* igd_sys_daemon_oom: the kernel named pid p, which by now may be anybody's.
DaemonOom(p) ==
  /\ Len(sys_oomkill_list) < MaxOom
  /\ \E d \in FindPid(p) :
       /\ child' = Killed(child, d.pid)
       /\ sys_daemon_list' = sys_daemon_list \ {d}
       /\ sys_oomkill_list' = Append(sys_oomkill_list, d.name)
  /\ oomkill_age' = 0

----------------------------------------------------------------------------
(***************************************************************************)
(* igd_sys_oom_check, the first half of the 1 second timer.  ch is the     *)
(* child table it leaves to the second half.                               *)
(***************************************************************************)
\* Too early since the last OOM kill or restart, or too little free memory.
OomWait(ch) ==
  /\ ch = child
  /\ UNCHANGED daemonVars

OomIdle(ch) ==
  /\ oomkill_age = OomDelay
  /\ sys_oomkill_list = <<>>
  /\ ch = child
  /\ oomkill_age' = 0
  /\ UNCHANGED <<sys_daemon_list, sys_oomkill_list>>

\* The program is no longer installed: its entry goes, the next second looks
\* at the next entry.
OomForget(ch) ==
  /\ oomkill_age = OomDelay
  /\ sys_oomkill_list # <<>>
  /\ ch = child
  /\ sys_oomkill_list' = Tail(sys_oomkill_list)
  /\ UNCHANGED <<sys_daemon_list, oomkill_age>>

\* Faulty variant: the restart forks without looking the name up first.
OomRestartNoFind(ch) ==
  /\ oomkill_age = OomDelay
  /\ sys_oomkill_list # <<>>
  /\ \E r \in ForkResults(child) :
       /\ ch = Forked(child, r, Head(sys_oomkill_list))
       /\ sys_daemon_list' = sys_daemon_list \cup Entry(Head(sys_oomkill_list), r)
  /\ sys_oomkill_list' = Tail(sys_oomkill_list)
  /\ oomkill_age' = 0

\* One daemon is restarted, unless it was added again meanwhile; whatever
\* igd_plug_daemon_add returns, the parked entry is freed.
OomRestart(ch) ==
  /\ oomkill_age = OomDelay
  /\ sys_oomkill_list # <<>>
  /\ LET n == Head(sys_oomkill_list) IN
       IF FindName(n) = {}
       THEN \E r \in ForkResults(child) :
              /\ ch = Forked(child, r, n)
              /\ sys_daemon_list' = sys_daemon_list \cup Entry(n, r)
       ELSE ch = child /\ UNCHANGED sys_daemon_list
  /\ sys_oomkill_list' = Tail(sys_oomkill_list)
  /\ oomkill_age' = 0

OomCheck(ch) == OomWait(ch) \/ OomIdle(ch) \/ OomForget(ch) \/ OomRestart(ch)

\* The child tables igd_sys_oom_check can leave.
OomTables ==
  {child} \cup
    (IF sys_oomkill_list = <<>> THEN {}
     ELSE {Forked(child, p, Head(sys_oomkill_list)) : p \in FreePids(child)})

----------------------------------------------------------------------------
\* Faulty variants: the entry stays when the fork fails; the new pid is not stored.
DaemonCheckKeepEntry(p, ch) ==
  /\ \E d \in FindPid(p), r \in ForkResults(ch) :
       /\ child' = Forked(ch, r, d.name)
       /\ sys_daemon_list' =
            IF r = NoPid THEN sys_daemon_list
            ELSE (sys_daemon_list \ {d}) \cup Entry(d.name, r)
  /\ UNCHANGED <<sys_oomkill_list, oomkill_age>>

DaemonCheckStalePid(p, ch) ==
  /\ \E d \in FindPid(p), r \in ForkResults(ch) : child' = Forked(ch, r, d.name)
  /\ UNCHANGED daemonVars

\* igd_sys_daemon_check for the reaped pid p, ch the table without it: the
\* daemon is forked again under its entry, or its entry goes when that fails.
DaemonCheck(p, ch) ==
  /\ \E d \in FindPid(p), r \in ForkResults(ch) :
       /\ child' = Forked(ch, r, d.name)
       /\ sys_daemon_list' = (sys_daemon_list \ {d}) \cup Entry(d.name, r)
  /\ UNCHANGED <<sys_oomkill_list, oomkill_age>>

\* A second passes; the age stops at the delay, beyond which the code tells no times
\* apart.
DaemonTick ==
  /\ oomkill_age' = IF oomkill_age < OomDelay THEN oomkill_age + 1 ELSE OomDelay
  /\ UNCHANGED <<sys_daemon_list, sys_oomkill_list>>

----------------------------------------------------------------------------
(***************************************************************************)
(* Properties of the supervisor.                                           *)
(***************************************************************************)
\* At most one entry per name: find-before-add holds along every path that
\* adds, the restart out of sys_oomkill_list included.
OneEntryPerName ==
  \A d, e \in sys_daemon_list : d.name = e.name => d = e

\* An entry always names a child mu has not reaped yet, and one that runs that
\* daemon: no exit of a supervised daemon can be reaped without its entry being
\* found, so none is lost to supervision.
EntryHasChild ==
  \A d \in sys_daemon_list : Exists(d.pid) /\ child[d.pid].prog = d.name

\* No process of a daemon runs on without supervision: DEL, OOM and a failed
\* restart forget an entry only when its process was killed or is gone.
NoRunawayDaemon ==
  \A p \in Pids :
    Running(p) /\ child[p].prog \in DaemonNames =>
      \E d \in sys_daemon_list : d.pid = p

\* The three together: one instance of a daemon at a time, whatever mix of
\* ADD, DEL, OOM reports, restarts and crashes happened before.
OneInstance ==
  \A p, q \in Pids :
    Running(p) /\ Running(q) /\ child[p].prog = child[q].prog
               /\ child[p].prog \in DaemonNames => p = q
=============================================================================
