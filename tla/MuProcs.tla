------------------------------ MODULE MuProcs ------------------------------
(***************************************************************************)
(* The child processes of the daemon mu, as the kernel keeps them and as   *)
(* mu uses them: fork(), kill(pid, SIGKILL), the exit of a child, and the  *)
(* one waitpid(-1, WNOHANG) of mu's main loop (main.c).                    *)
(*                                                                         *)
(* A pid belongs to a child from fork() until the child has exited AND mu  *)
(* has reaped it; only then may fork() hand the same pid out again.  Pids  *)
(* of processes that are not children of mu are not modelled, nor are the  *)
(* children that exec_cmd (igd_lib.c) waits for itself, before it returns. *)
(***************************************************************************)
EXTENDS FiniteSets

CONSTANTS
  Pids,         \* the pids fork() can return: the size of the process table
  DaemonNames,  \* command lines handed to the daemon supervisor
  Cmds,         \* command lines handed to the task runner
  Background,   \* stands for any exec_cmd("... &") child, which nobody tracks
  ForkMayFail   \* TRUE: fork() may fail even when a pid is free

ASSUME ProcsAssumption ==
  /\ ForkMayFail \in BOOLEAN
  /\ DaemonNames \cap Cmds = {}
  /\ Background \notin DaemonNames \cup Cmds

VARIABLE child  \* pid -> the child of mu that owns the pid, or Free

Programs == DaemonNames \cup Cmds \cup {Background}

\* What a pid stands for while no child of mu owns it.
Free == [st |-> "free", prog |-> Background]

\* "run": alive; "dying": SIGKILL was sent and it has not exited yet;
\* "exited", "signaled": a zombie, told apart by WIFEXITED of its status.
ChildStates == {"run", "dying", "exited", "signaled"}
Children    == [st : ChildStates, prog : Programs]

ProcsTypeOK == child \in [Pids -> Children \cup {Free}]

Exists(p)  == child[p] # Free
Running(p) == child[p].st = "run"
Zombie(p)  == child[p].st \in {"exited", "signaled"}

----------------------------------------------------------------------------
(***************************************************************************)
(* System calls, as functions from a child table to the next one: one      *)
(* handler may kill and fork in the same uninterrupted call.               *)
(***************************************************************************)
FreePids(ch) == {p \in Pids : ch[p] = Free}

NoPid == "no_pid"  \* the -1 of a failed fork()

ForkResults(ch) ==
  FreePids(ch) \cup (IF ForkMayFail \/ FreePids(ch) = {} THEN {NoPid} ELSE {})

Forked(ch, r, prog) ==
  IF r = NoPid THEN ch ELSE [ch EXCEPT ![r] = [st |-> "run", prog |-> prog]]

Killed(ch, p) ==
  IF ch[p].st = "run" THEN [ch EXCEPT ![p].st = "dying"] ELSE ch

Reaped(ch, p) == [ch EXCEPT ![p] = Free]

----------------------------------------------------------------------------
(***************************************************************************)
(* What happens to a child between two calls of mu.                        *)
(***************************************************************************)
\* A program ends by itself, or is ended by a signal mu did not send (a crash,
\* the kernel's OOM killer).
Exit(p) ==
  /\ Running(p)
  /\ \E how \in {"exited", "signaled"} : child' = [child EXCEPT ![p].st = how]

\* A child that was sent SIGKILL dies of it.
Die(p) ==
  /\ child[p].st = "dying"
  /\ child' = [child EXCEPT ![p].st = "signaled"]

\* exec_cmd("... &"): mu forks and forgets the child.
ExecBackground ==
  \E r \in FreePids(child) : child' = Forked(child, r, Background)
=============================================================================
