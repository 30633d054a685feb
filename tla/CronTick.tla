------------------------------ MODULE CronTick ------------------------------
(***************************************************************************)
(* The minute cron (worker.js, scheduled) behind its idle gate             *)
(* (scheduler.js, schedulerIdleGate): the marker row stats/scheduler_wake, *)
(* the probe for rows changed lately, the sweep that ignores both, the     *)
(* bootstrap of a cold isolate with its cooldown after a failure, and what *)
(* each tick writes back of the work it sees.                              *)
(*                                                                         *)
(* The work is one command's rows in D1: live, parked on an approval, or   *)
(* gone; `age` is the minutes since they were last written.  The gate and  *)
(* the look at D1 are over within their minute (boundedD1 ends a statement *)
(* that hangs), the rest of a tick may last and be overtaken.  A minute is *)
(* the unit of time; Sweep, Dirty, Dead and Cooldown are in minutes.  Its  *)
(* names stand beside those of AccountBudget (MCAccountSpending).          *)
(***************************************************************************)
EXTENDS Naturals, FiniteSets

CONSTANTS
  Worker,
  Slot,       \* bound: ticks under way at once
  Sweep,      \* IDLE_SAFETY_EVERY_MINUTES
  Dirty,      \* IDLE_DIRTY_WINDOW_MS
  Dead,       \* DEAD_WORK_MS
  Cooldown,   \* HYDRATE_COOLDOWN
  Faults,     \* bound: calls that fail and isolates evicted
  Commands    \* bound: commands and approvals

ASSUME CronTickAssumption ==
  /\ Worker # {} /\ IsFiniteSet(Worker)
  /\ {Sweep, Cooldown, Faults, Commands} \subseteq Nat /\ Sweep > 0 /\ Cooldown <= Sweep
  /\ Dirty \in 1..Dead /\ Dead \in Nat

VARIABLES
  minute,     \* of the hour, as far as the sweep reads it
  fired,      \* the cron of this minute has been called
  work,       \* the command's rows in D1
  marker,     \* stats/scheduler_wake
  mark,       \* a command or approval is about to call markSchedulerWork
  boot,       \* each isolate's store: cold, hydrated, or failed `cool` minutes ago
  view,       \* what is live in its store
  tick,
  waited,     \* history: minutes since its release that the live work was not looked at
  stolen,     \* history: a tick wrote "idle" over work that came after its look
  bad,        \* history: faults so far
  asked       \* history: commands and approvals so far

gateVars == <<minute, fired, work, marker, mark, boot, view, tick, waited, stolen, bad, asked>>

\* A chain whose rows have not moved for Dead minutes is no work (touchedWithin).
Alive == work.state = "live" /\ work.age < Dead

\* What schedulerHasLiveWork finds in a store that holds the rows of D1: live rows
\* that are not dead, or an approval that is pending, however old.
HoldsFresh(w) == w.state = "parked" \/ (w.state = "live" /\ w.age < Dirty)
Holds(w) == w.state = "parked" \/ (w.state = "live" /\ w.age < Dead)

\* prev: what the gate read of the marker; behind: the work came to life after it looked.
NoTick == [pc |-> "free", iso |-> CHOOSE i \in Worker : TRUE, prev |-> "unknown",
           behind |-> FALSE]
Wake == {"unknown", "pending", "idle"}

GateTypeOK ==
  /\ minute \in 0..(Sweep - 1) /\ fired \in BOOLEAN
  /\ work \in [state : {"none", "live", "parked"}, age : 0..Dead]
  /\ marker \in {"none", "pending", "idle"} /\ mark \in BOOLEAN
  /\ boot \in [Worker -> [state : {"cold", "warm", "failed"}, cool : 0..Cooldown]]
  /\ view \in [Worker -> BOOLEAN]
  /\ tick \in [Slot -> [pc : {"free", "look", "run"}, iso : Worker, prev : Wake,
                  behind : BOOLEAN]]
  /\ waited \in Nat /\ stolen \in BOOLEAN
  /\ bad \in 0..Faults /\ asked \in 0..Commands

CallFails == bad < Faults /\ bad' = bad + 1

-----------------------------------------------------------------------------
\* The request side.  Rows first, then the marker: a founder command is new work, an
\* approval releases work that is parked.  They are served by some isolate, whose store
\* has the rows at once.

Overtake == tick' = [s \in Slot |-> [tick[s] EXCEPT !.behind = @ \/ tick[s].pc = "run"]]

Release(i) ==
  /\ asked < Commands /\ asked' = asked + 1
  /\ work.state \in {"none", "parked"}
  /\ ~mark
  /\ work' = [state |-> "live", age |-> 0]
  /\ view' = [view EXCEPT ![i] = TRUE]
  /\ mark' = TRUE
  /\ Overtake
  /\ waited' = 0
  /\ UNCHANGED <<minute, fired, marker, boot, stolen, bad>>

markSchedulerWork ==
  /\ mark
  /\ mark' = FALSE
  /\ marker' = "pending"
  /\ UNCHANGED <<minute, fired, work, boot, view, tick, waited, stolen, bad, asked>>

\* Its failure is swallowed.
MarkFails ==
  /\ mark
  /\ CallFails
  /\ mark' = FALSE
  /\ UNCHANGED <<minute, fired, work, marker, boot, view, tick, waited, stolen, asked>>

-----------------------------------------------------------------------------
\* The cron.

Free(s) == tick[s].pc = "free"
Call(s, i, prev) ==
  /\ ~fired /\ fired' = TRUE
  /\ Free(s)
  /\ tick' = [tick EXCEPT ![s] = [NoTick EXCEPT !.pc = "look", !.iso = i, !.prev = prev]]
  /\ UNCHANGED <<minute, work, marker, mark, boot, view, waited, stolen, asked>>

\* rowsChangedSince: the probe for rows written in the last Dirty minutes, of a row that
\* is finished or parked too.
RowsChanged == work.age < Dirty

SweepNever == FALSE
IsSweep == minute = 0

\* The gate: the sweep reads nothing, so what it writes back it always writes.
RunSweep(s, i) == IsSweep /\ Call(s, i, "unknown") /\ UNCHANGED bad
RunPending(s, i) == ~IsSweep /\ marker = "pending" /\ Call(s, i, "pending") /\ UNCHANGED bad
RunUnmarked(s, i) == ~IsSweep /\ marker = "none" /\ Call(s, i, "unknown") /\ UNCHANGED bad
RunChanged(s, i) ==
  ~IsSweep /\ marker = "idle" /\ RowsChanged /\ Call(s, i, "idle") /\ UNCHANGED bad

\* A marker or a probe that cannot be read opens the gate.
RunUnreadable(s, i) ==
  /\ ~IsSweep
  /\ CallFails
  /\ \E prev \in {"unknown"} \cup (IF marker = "idle" THEN {"idle"} ELSE {}) : Call(s, i, prev)

Skip ==
  /\ ~IsSweep /\ ~fired
  /\ marker = "idle" /\ ~RowsChanged
  /\ fired' = TRUE
  /\ UNCHANGED <<minute, work, marker, mark, boot, view, tick, waited, stolen, bad, asked>>

\* The store of an isolate can load: it never did and has not failed lately, or it is
\* hydrated and takes in the rows that changed.
CanLoad(i) == boot[i].state \in {"cold", "warm"} \/ boot[i].cool = 0

Looked(s, i, seen) ==
  /\ view' = [view EXCEPT ![i] = seen]
  /\ tick' = [tick EXCEPT ![s].pc = "run"]
  /\ UNCHANGED <<minute, fired, work, marker, mark, stolen, asked>>

Look(s) ==
  LET i == tick[s].iso
  IN  /\ tick[s].pc = "look"
      /\ CanLoad(i)
      /\ boot' = [boot EXCEPT ![i] = [state |-> "warm", cool |-> 0]]
      /\ waited' = 0
      /\ Looked(s, i, Holds(work))
      /\ UNCHANGED bad

\* The load fails: hydrateScheduler returns false and the isolate counts as initialised
\* for Cooldown minutes; a hydrated store only misses what changed.
LookFails(s) ==
  LET i == tick[s].iso
  IN  /\ tick[s].pc = "look"
      /\ CanLoad(i)
      /\ CallFails
      /\ boot' = [boot EXCEPT ![i] = IF @.state = "warm" THEN @
                                     ELSE [state |-> "failed", cool |-> Cooldown]]
      /\ UNCHANGED waited
      /\ Looked(s, i, view[i])

\* Within the cooldown the tick runs on the store as it is.
LookBlind(s) ==
  LET i == tick[s].iso
  IN  /\ tick[s].pc = "look"
      /\ ~CanLoad(i)
      /\ UNCHANGED <<boot, bad, waited>>
      /\ Looked(s, i, view[i])

\* The scheduler moves work it sees: on, to its end, or onto an approval.
Work(s) ==
  /\ tick[s].pc = "run"
  /\ view[tick[s].iso] /\ Alive
  /\ \E next \in {"live", "none", "parked"} :
       /\ work' = [state |-> next, age |-> 0]
       /\ view' = [view EXCEPT ![tick[s].iso] = next # "none"]
  /\ UNCHANGED <<minute, fired, marker, mark, boot, tick, waited, stolen, bad, asked>>

\* retireStaleWork.
Retire(s) ==
  /\ tick[s].pc = "run"
  /\ boot[tick[s].iso].state = "warm"
  /\ work.state = "live" /\ ~Alive
  /\ work' = [state |-> "none", age |-> 0]
  /\ UNCHANGED <<minute, fired, marker, mark, boot, view, tick, waited, stolen, bad, asked>>

\* schedulerHasLiveWork on the store as it is by now, then writeSchedulerWake: nothing is
\* written when the gate already read that answer.
Answer(i) == IF view[i] THEN "pending" ELSE "idle"

\* "previous" taken for known although the sweep read nothing.
WrittenIfPending(s, a) == a = "pending"
Written(s, a) == tick[s].prev # a

End(s) ==
  LET a == Answer(tick[s].iso)
  IN  /\ tick[s].pc = "run"
      /\ marker' = IF Written(s, a) THEN a ELSE marker
      /\ stolen' = (stolen \/ (Written(s, a) /\ a = "idle" /\ Alive /\ tick[s].behind))
      /\ tick' = [tick EXCEPT ![s] = NoTick]
      /\ UNCHANGED <<minute, fired, work, mark, boot, view, waited, bad, asked>>

\* The write of the marker fails, or the invocation is cut before it.
EndLost(s) ==
  /\ tick[s].pc = "run"
  /\ CallFails
  /\ tick' = [tick EXCEPT ![s] = NoTick]
  /\ UNCHANGED <<minute, fired, work, marker, mark, boot, view, waited, stolen, asked>>

-----------------------------------------------------------------------------
EvictWorker(i) ==
  /\ CallFails
  /\ boot' = [boot EXCEPT ![i] = [state |-> "cold", cool |-> 0]]
  /\ view' = [view EXCEPT ![i] = FALSE]
  /\ tick' = [s \in Slot |-> IF tick[s].iso = i THEN NoTick ELSE tick[s]]
  /\ UNCHANGED <<minute, fired, work, marker, mark, waited, stolen, asked>>

NextMinuteNoWrap == minute + 1
NextMinute == (minute + 1) % Sweep

Minute ==
  /\ fired /\ fired' = FALSE
  /\ \A s \in Slot : tick[s].pc # "look"
  /\ \E s \in Slot : Free(s)
  /\ ~mark
  /\ minute' = NextMinute
  /\ work' = [work EXCEPT !.age = IF @ < Dead THEN @ + 1 ELSE Dead]
  /\ waited' = IF Alive THEN waited + 1 ELSE 0
  /\ boot' = [i \in Worker |-> [boot[i] EXCEPT !.cool = IF @ = 0 THEN 0 ELSE @ - 1]]
  /\ UNCHANGED <<marker, mark, view, tick, stolen, bad, asked>>

GateInit ==
  /\ minute \in 0..(Sweep - 1) /\ fired = FALSE
  /\ work = [state |-> "none", age |-> Dead]
  /\ marker = "none" /\ mark = FALSE
  /\ boot = [i \in Worker |-> [state |-> "cold", cool |-> 0]]
  /\ view = [i \in Worker |-> FALSE]
  /\ tick = [s \in Slot |-> NoTick]
  /\ waited = 0 /\ stolen = FALSE /\ bad = 0 /\ asked = 0

GateNext ==
  \/ \E i \in Worker : Release(i) \/ EvictWorker(i)
  \/ markSchedulerWork \/ MarkFails
  \/ \E s \in Slot, i \in Worker :
       RunSweep(s, i) \/ RunPending(s, i) \/ RunUnmarked(s, i) \/ RunChanged(s, i)
         \/ RunUnreadable(s, i)
  \/ Skip
  \/ \E s \in Slot : Look(s) \/ LookFails(s) \/ LookBlind(s) \/ Work(s) \/ Retire(s)
                          \/ End(s) \/ EndLost(s)
  \/ Minute

GateSpec == GateInit /\ [][GateNext]_gateVars

-----------------------------------------------------------------------------
\* However the marker was lost, overwritten or unreadable, live work waits for a tick no
\* longer than a sweep, and a sweep more for each tick that could not load D1 ("a missed
\* update can delay a tick by minutes, never wedge the scheduler", scheduler.js:62).
WorkIsNeverWedged == waited <= Sweep * (1 + bad)

\* Work just released is looked at by the next minute's tick, although a slower tick may
\* write "idle" over its marker.
FreshWorkIsQuick == bad = 0 /\ ~stolen => waited <= 1
=============================================================================
