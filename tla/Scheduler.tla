----------------------------- MODULE Scheduler -----------------------------
(***************************************************************************)
(* The timer list of mu (igd_lib.c) and the loop that serves it (main.c):  *)
(* schedule() puts a malloc'ed entry into a list sorted by expiry,         *)
(* dschedule() takes one out and frees it, and process_schedule() walks    *)
(* the list, calls back what is due and frees it, between two select()s    *)
(* whose timeout is the time to the first entry left.                      *)
(*                                                                         *)
(* The walk is list_for_each_entry_safe: it has read the NEXT entry before *)
(* the callback runs.  A callback is free to call schedule() and           *)
(* dschedule(), so the model keeps addresses: an entry that is freed can   *)
(* be the one the walk goes on with, and malloc may hand its memory out    *)
(* again.  Time is what is left until an entry is due; an overdue one has  *)
(* less than 0, down to -WalkTicks.                                        *)
(*                                                                         *)
(* The callbacks and requests are those of the modules that extend this    *)
(* one.  mu is single-threaded: a callback or a request is one step, and   *)
(* the time it takes passes before the next one.                           *)
(***************************************************************************)
EXTENDS Integers, Sequences, FiniteSets

CONSTANTS
  Addrs,          \* what malloc can return for a schedule_entry
  Null,
  Clients,        \* callback functions, each with its data
  Held,           \* those whose entry is remembered in a static variable
  Delay,          \* schedule()'s time, in ticks, by the name of the call
  WalkTicks,      \* bound: ticks that pass during one walk
  MallocMayFail   \* TRUE: malloc may fail even when an address is free

ASSUME SchedulerAssumption ==
  /\ Null \notin Addrs
  /\ Held \subseteq Clients
  /\ \A site \in DOMAIN Delay : Delay[site] \in Nat \ {0}
  /\ \E longest \in DOMAIN Delay : \A site \in DOMAIN Delay : Delay[site] <= Delay[longest]
  /\ WalkTicks \in Nat
  /\ MallocMayFail \in BOOLEAN

VARIABLES
  events,   \* the list, as a sequence of [addr, cb, due]
  handle,   \* the static variables: client -> address or Null
  loop,     \* where main's loop is: [at, cur, nxt, late]
  timeout,  \* what select() was given, counting down
  slow      \* ticks that have passed during the walk

schedVars == <<events, handle, loop, timeout, slow>>

MaxDelay == CHOOSE d \in {Delay[s] : s \in DOMAIN Delay} :
              \A s \in DOMAIN Delay : Delay[s] <= d

\* A NULL timeout is longer than any other, and the list ends at its head.
Forever == MaxDelay + WalkTicks + 1
End     == "end"

EventEntries == [addr : Addrs, cb : Clients, due : -WalkTicks..MaxDelay]
Cursors      == Addrs \cup {Null, End}
Phases       == {"select", "netlink", "check", "ran"}

SchedulerTypeOK ==
  /\ events \in Seq(EventEntries)
  /\ handle \in [Held -> Addrs \cup {Null}]
  /\ loop \in [at : Phases, cur : Cursors, nxt : Cursors, late : 0..WalkTicks]
  /\ timeout \in 0..Forever
  /\ slow \in 0..WalkTicks

----------------------------------------------------------------------------
(***************************************************************************)
(* schedule() and dschedule(), as functions from a list to the next one.   *)
(***************************************************************************)
Addresses(evs) == {evs[i].addr : i \in 1..Len(evs)}
Position(evs, a) == CHOOSE i \in 1..Len(evs) : evs[i].addr = a

\* What malloc can return; the NULL of a failure is what schedule() returns too.
Allocs(evs) ==
  LET unused == Addrs \ Addresses(evs) IN
    unused \cup (IF MallocMayFail \/ unused = {} THEN {Null} ELSE {})

\* Faulty variant: the entry put at the tail.
ScheduledTail(evs, a, c, d) ==
  IF a = Null THEN evs ELSE Append(evs, [addr |-> a, cb |-> c, due |-> d])

\* Before the first entry that is due later, at the tail if there is none.
Scheduled(evs, a, c, d) ==
  LET later == {i \in 1..Len(evs) : d < evs[i].due}
      at    == IF later = {} THEN Len(evs) + 1
               ELSE CHOOSE i \in later : \A j \in later : i <= j
  IN IF a = Null THEN evs
     ELSE SubSeq(evs, 1, at - 1) \o <<[addr |-> a, cb |-> c, due |-> d]>>
            \o SubSeq(evs, at, Len(evs))

Dropped(evs, a) ==
  IF a \notin Addresses(evs) THEN evs
  ELSE SubSeq(evs, 1, Position(evs, a) - 1)
         \o SubSeq(evs, Position(evs, a) + 1, Len(evs))

\* The elements of a sequence at the positions kept, in their order.
Picked(s, kept) ==
  [n \in 1..Cardinality(kept) |->
     s[CHOOSE i \in kept : Cardinality({j \in kept : j < i}) = n - 1]]

\* The list after dschedule() of everything at the addresses gone.
Without(evs, gone) == Picked(evs, {i \in 1..Len(evs) : evs[i].addr \notin gone})

\* "if (handle) { dschedule(handle); handle = NULL; }"
Cancelled(evs, c) == IF handle[c] = Null THEN evs ELSE Dropped(evs, handle[c])

\* A callback or a request that calls schedule() for client c at the named place,
\* with the list and the static variables as it has left them so far.
Arm(evs, h, c, site) ==
  \E a \in Allocs(evs) :
    /\ events' = Scheduled(evs, a, c, Delay[site])
    /\ handle' = IF c \in Held THEN [h EXCEPT ![c] = a] ELSE h

\* Neither, but for what the callback or the request has done already.
Leave(evs, h) == events' = evs /\ handle' = h

\* The static variables after "handle = NULL".
Cleared(c) == [handle EXCEPT ![c] = Null]

----------------------------------------------------------------------------
(***************************************************************************)
(* The loop: main.c and process_schedule().                                *)
(***************************************************************************)
Successor(evs, a) ==
  LET i == Position(evs, a) IN IF i = Len(evs) THEN End ELSE evs[i + 1].addr

\* The state in which the walk of a list begins: an empty one is not walked, and
\* select() waits for requests only.
Selecting == [at |-> "select", cur |-> Null, nxt |-> Null, late |-> 0]

\* The walk looks at an entry: it has read the one that follows.
LookAt(evs, a) ==
  [at |-> "check", cur |-> a, late |-> 0,
   nxt |-> IF a \in Addresses(evs) THEN Successor(evs, a) ELSE Null]

Begin(evs) ==
  /\ timeout' = Forever
  /\ loop' = IF evs = <<>> THEN Selecting ELSE LookAt(evs, evs[1].addr)

\* select() returned because a message came over IPC, and after it one over
\* netlink is handled in the same turn, or none.
Called == loop.at = "select"
Answered ==
  /\ loop' = [Selecting EXCEPT !.at = "netlink"]
  /\ timeout' = Forever
  /\ UNCHANGED slow

Notified == loop.at \in {"select", "netlink"}
Handled  == Begin(events') /\ UNCHANGED slow

OtherCall    == Called /\ Leave(events, handle) /\ Answered
OtherNetlink == Notified /\ Leave(events, handle) /\ Handled

WakeUp ==
  /\ loop.at = "select"
  /\ timeout = 0
  /\ Begin(events)
  /\ UNCHANGED <<events, handle, slow>>

\* Faulty variant: an entry that became due during the walk is taken for none.
TimeoutNaive(evs) ==
  IF evs = <<>> \/ evs[1].due <= 0 THEN Forever ELSE evs[1].due

\* What process_schedule leaves for select: at least a second when something
\* became due during the walk.  It counts from the time it looked at the last
\* entry, so what that entry's callback took is slept once more.
Timeout(evs) ==
  IF evs = <<>> THEN Forever
  ELSE IF evs[1].due + loop.late <= 0 THEN 1 ELSE evs[1].due + loop.late

\* The walk goes on with the entry it has saved, whatever that memory is by now.
Advance(evs) ==
  IF loop.nxt = End
  THEN loop' = Selecting /\ timeout' = Timeout(evs) /\ slow' = 0
  ELSE loop' = LookAt(evs, loop.nxt) /\ UNCHANGED <<timeout, slow>>

Current == events[Position(events, loop.cur)]

\* The entry under the cursor can be read: without it the program's behaviour is
\* undefined, and the model ends.
Readable == loop.cur \in Addresses(events)

\* Not due yet.
Skip ==
  /\ loop.at = "check" /\ Readable /\ Current.due > 0
  /\ Advance(events)
  /\ UNCHANGED <<events, handle>>

\* The guard of a callback, and the mark it leaves.
Due(c)    == loop.at = "check" /\ Readable /\ Current.due <= 0 /\ Current.cb = c
Ran       == loop' = [loop EXCEPT !.at = "ran"] /\ UNCHANGED <<timeout, slow>>

\* After the callback its entry is taken out and freed.
Release ==
  /\ loop.at = "ran" /\ Readable
  /\ events' = Dropped(events, loop.cur)
  /\ Advance(events')
  /\ UNCHANGED handle

Less(n) == IF n = 0 THEN 0 ELSE n - 1
Nearer(n) == IF n = -WalkTicks THEN n ELSE n - 1

\* A second passes: in select(), or while the walk and its callbacks take time.
SchedulerTick ==
  /\ events' = [i \in 1..Len(events) |-> [events[i] EXCEPT !.due = Nearer(@)]]
  /\ \/ /\ Notified
        /\ timeout' = IF timeout = Forever THEN Forever ELSE Less(timeout)
        /\ UNCHANGED <<loop, slow>>
     \/ /\ ~Notified
        /\ slow < WalkTicks
        /\ slow' = slow + 1
        /\ loop' = IF loop.at = "ran" THEN [loop EXCEPT !.late = @ + 1] ELSE loop
        /\ UNCHANGED timeout
  /\ UNCHANGED handle

Walk == Skip \/ Release \/ WakeUp \/ (loop.at = "netlink" /\ OtherNetlink)

----------------------------------------------------------------------------
(***************************************************************************)
(* Properties.                                                             *)
(***************************************************************************)
\* process_schedule never goes on with an entry that a callback has freed.
NoFreedEntryUsed == loop.at \in {"check", "ran"} => Readable

\* The list is sorted: the first entry is the one select() must wake up for.
SortedByDue == \A i, j \in 1..Len(events) : i < j => events[i].due <= events[j].due

\* A static variable that is set points to the entry of its own callback, so that
\* dschedule() cancels what it was meant to and never frees an entry twice.  The
\* one exception is the time between a callback and the free() of its entry.
HandlesLive ==
  \A c \in Held :
    handle[c] # Null =>
      \E i \in 1..Len(events) : events[i].addr = handle[c] /\ events[i].cb = c

\* An entry whose callback is remembered in a static variable is the one that
\* variable points to: none is left behind that nobody could cancel.
NoOrphan ==
  \A i \in 1..Len(events) :
    events[i].cb \in Held /\ ~(loop.at = "ran" /\ loop.cur = events[i].addr) =>
      handle[events[i].cb] = events[i].addr

\* What is due is called back, or cancelled: no walk passes it by for ever, and
\* select() never sleeps through it.
DueServed ==
  \A a \in Addrs :
    LET due == \E i \in 1..Len(events) : events[i].addr = a /\ events[i].due <= 0
    IN  due ~> ~due
=============================================================================
