---------------------------- MODULE ProjectLock ----------------------------
(***************************************************************************)
(* The lock around one project's execution: the durable object that keeps  *)
(* the lock row (execution-coordinator.js), the wrapper that acquires,     *)
(* heartbeats and releases it around a body (execution-coordination.js),   *)
(* and the body schedulerTick runs inside it, which is raced against a     *)
(* deadline that does not cancel it (scheduler.js, core.js withDeadline).  *)
(*                                                                         *)
(* A session is one call of withProjectExecutionLock for this project, by  *)
(* a cron tick, an approval, a command hand-off or the dashboard, in any   *)
(* isolate.  Its token is a fresh UUID, so the session stands for it.      *)
(* Time is counted in whole units and kept relative: what is left of the   *)
(* lease, the age of the body, the age of the last heartbeat.  Nothing is  *)
(* bounded but those three, each by its own constant.                      *)
(***************************************************************************)
EXTENDS Naturals

CONSTANTS
  Session,     \* calls of withProjectExecutionLock for this project
  NoSession,   \* the NULL token
  Lease,       \* leaseMs, 120 s
  Beat,        \* heartbeatMs, 30 s
  Budget       \* projectBudgetMs, 190 s

ASSUME SessionAssumption == NoSession \notin Session
ASSUME TimeAssumption == /\ Lease \in Nat \ {0}
                         /\ Beat \in Nat \ {0}
                         /\ Budget \in Nat \ {0}

VARIABLES
  token,      \* coordinator_lock.token
  left,       \* how long until coordinator_lock.busy_until, 0 once it is past
  pc,         \* where each session is in withProjectExecutionLock
  body,       \* the scheduler body each session started
  age,        \* time since the body started, up to Budget
  beatAge,    \* time since the session last sent a heartbeat, up to Beat
  calls,      \* renew and release calls on their way to the coordinator
  leaseLeft   \* what is left of the lease each session was last granted (history)

lockVars == <<token, left, pc, body, age, beatAge, calls, leaseLeft>>

Call == [op : {"renew", "release"}, session : Session]

LockTypeOK ==
  /\ token \in Session \cup {NoSession}
  /\ left \in 0..Lease
  /\ pc \in [Session -> {"idle", "busy", "locked", "out", "crashed"}]
  /\ body \in [Session -> {"none", "running", "settled"}]
  /\ age \in [Session -> 0..Budget]
  /\ beatAge \in [Session -> 0..Beat]
  /\ calls \subseteq Call
  /\ leaseLeft \in [Session -> 0..Lease]

LockInit ==
  /\ token = NoSession
  /\ left = 0
  /\ pc = [s \in Session |-> "idle"]
  /\ body = [s \in Session |-> "none"]
  /\ age = [s \in Session |-> 0]
  /\ beatAge = [s \in Session |-> 0]
  /\ calls = {}
  /\ leaseLeft = [s \in Session |-> 0]

Renew(s) == [op |-> "renew", session |-> s]
Release(s) == [op |-> "release", session |-> s]

Down(n) == IF n = 0 THEN 0 ELSE n - 1
UpWithoutCap(n, max) == n + 1
Up(n, max) == IF n < max THEN n + 1 ELSE max

-----------------------------------------------------------------------------
\* The coordinator's handlers.  The object runs one call at a time and keeps
\* its row in SQL, so a handler is atomic and an eviction loses nothing.

FreeEarly == left <= 1
Free == left = 0

GrantTo(s) ==
  /\ token' = s
  /\ left' = Lease

HandleRenewUnchecked(s) ==
  /\ token' = s
  /\ left' = Lease
  /\ leaseLeft' = [leaseLeft EXCEPT ![s] = Lease]

\* renew looks at the token and not at the expiry: a lease that ran out and was
\* not taken is extended.
HandleRenew(s) ==
  IF token = s
  THEN /\ left' = Lease
       /\ leaseLeft' = [leaseLeft EXCEPT ![s] = Lease]
       /\ UNCHANGED token
  ELSE UNCHANGED <<token, left, leaseLeft>>

HandleReleaseUnchecked(s) ==
  /\ token' = NoSession
  /\ left' = 0

HandleRelease(s) ==
  IF token = s
  THEN /\ token' = NoSession
       /\ left' = 0
  ELSE UNCHANGED <<token, left>>

-----------------------------------------------------------------------------
\* The wrapper and the body.

Acquire(s) ==
  /\ pc[s] \in {"idle", "busy"}
  /\ Free
  /\ GrantTo(s)
  /\ pc' = [pc EXCEPT ![s] = "locked"]
  /\ body' = [body EXCEPT ![s] = "running"]
  /\ age' = [age EXCEPT ![s] = 0]
  /\ beatAge' = [beatAge EXCEPT ![s] = 0]
  /\ leaseLeft' = [leaseLeft EXCEPT ![s] = Lease]
  /\ UNCHANGED calls

\* The coordinator granted the lease and the reply was lost: the caller throws
\* out of `await stub.acquire` with no token to release.
AcquireReplyLost(s) ==
  /\ pc[s] \in {"idle", "busy"}
  /\ Free
  /\ GrantTo(s)
  /\ pc' = [pc EXCEPT ![s] = "out"]
  /\ UNCHANGED <<body, age, beatAge, calls, leaseLeft>>

\* {granted: false}: the call answers coordinator-busy; a later tick tries again.
AcquireRefused(s) ==
  /\ pc[s] = "idle"
  /\ ~Free
  /\ pc' = [pc EXCEPT ![s] = "busy"]
  /\ UNCHANGED <<token, left, body, age, beatAge, calls, leaseLeft>>

\* The interval sends a renewal and waits for no answer.
SendRenew(s) ==
  /\ pc[s] = "locked"
  /\ beatAge[s] = Beat
  /\ beatAge' = [beatAge EXCEPT ![s] = 0]
  /\ calls' = calls \cup {Renew(s)}
  /\ UNCHANGED <<token, left, pc, body, age, leaseLeft>>

\* `finally`: stop the interval, send the release.
LeaveLock(s) ==
  /\ pc' = [pc EXCEPT ![s] = "out"]
  /\ calls' = calls \cup {Release(s)}

BodySettles(s) ==
  /\ body[s] = "running"
  /\ body' = [body EXCEPT ![s] = "settled"]
  /\ IF pc[s] = "locked" THEN LeaveLock(s) ELSE UNCHANGED <<pc, calls>>
  /\ UNCHANGED <<token, left, age, beatAge, leaseLeft>>

DeadlineNeverFires(s) ==
  /\ FALSE
  /\ UNCHANGED lockVars

\* withDeadline rejects, the wrapper leaves, and the body goes on by itself.
DeadlineFires(s) ==
  /\ pc[s] = "locked"
  /\ age[s] = Budget
  /\ LeaveLock(s)
  /\ UNCHANGED <<token, left, body, age, beatAge, leaseLeft>>

-----------------------------------------------------------------------------
\* The calls between a session and the coordinator, the isolates and the clock.

DeliverRenew(s) ==
  /\ Renew(s) \in calls
  /\ HandleRenew(s)
  /\ calls' = calls \ {Renew(s)}
  /\ UNCHANGED <<pc, body, age, beatAge>>

DeliverRelease(s) ==
  /\ Release(s) \in calls
  /\ HandleRelease(s)
  /\ calls' = calls \ {Release(s)}
  /\ UNCHANGED <<pc, body, age, beatAge, leaseLeft>>

\* `.catch(() => null)` on both calls: nobody learns that one failed.
LoseCall(s) ==
  /\ \E c \in calls : c.session = s /\ calls' = calls \ {c}
  /\ UNCHANGED <<token, left, pc, body, age, beatAge, leaseLeft>>

\* The isolate is evicted: the body and the interval die, `finally` never runs.
Evict(s) ==
  /\ pc[s] = "locked" \/ body[s] = "running"
  /\ pc' = [pc EXCEPT ![s] = "crashed"]
  /\ body' = [body EXCEPT ![s] = "settled"]
  /\ UNCHANGED <<token, left, age, beatAge, calls, leaseLeft>>

Elapse ==
  /\ left' = Down(left)
  /\ leaseLeft' = [s \in Session |-> Down(leaseLeft[s])]
  /\ age' = [s \in Session |-> IF body[s] = "running" THEN Up(age[s], Budget) ELSE age[s]]
  /\ beatAge' = [s \in Session |-> IF pc[s] = "locked" THEN Up(beatAge[s], Beat) ELSE beatAge[s]]
  /\ UNCHANGED <<token, pc, body, calls>>

LockNext ==
  \/ Elapse
  \/ \E s \in Session :
       \/ Acquire(s) \/ AcquireReplyLost(s) \/ AcquireRefused(s)
       \/ SendRenew(s) \/ BodySettles(s) \/ DeadlineFires(s)
       \/ DeliverRenew(s) \/ DeliverRelease(s) \/ LoseCall(s)
       \/ Evict(s)

\* Time passes, and a timer that is due fires: setTimeout is the only thing the
\* wrapper relies on.  No body has to settle, no call has to arrive, no isolate
\* has to survive.
LockFairness ==
  /\ WF_lockVars(Elapse)
  /\ \A s \in Session : WF_lockVars(DeadlineFires(s))
  /\ \A s \in Session : WF_lockVars(DeliverRenew(s) \/ LoseCall(s))

LockSpec == LockInit /\ [][LockNext]_lockVars

FairLockSpec == LockSpec /\ LockFairness

-----------------------------------------------------------------------------
\* Properties.

\* A session has lapsed when the lock no longer protects its body: it has left
\* the wrapper (its deadline fired), or the last lease it was granted ran out
\* because its renewals were late or lost.
Lapsed(s) == pc[s] # "locked" \/ leaseLeft[s] = 0

\* Two schedulers work on the project at once only when the lock of one of them
\* has lapsed.  As long as a body is inside its deadline and its renewals reach
\* the coordinator, it is alone: no late call, lost reply, crash or retry of
\* another session breaks that.
OverlapOnlyAfterLapse ==
  \A s, t \in Session :
    s # t /\ body[s] = "running" /\ body[t] = "running" => Lapsed(s) \/ Lapsed(t)

\* The lock row of a session that is still inside the wrapper, with time left on
\* its lease, is not cleared or taken by anyone: neither by the delayed release
\* of an earlier session nor by its delayed renewal.
LiveLeaseKept ==
  [][\A s \in Session :
       token = s /\ left > 0 /\ pc[s] = "locked" => token' = s]_lockVars

\* The coordinator implements an exclusive lease: the owner is the session whose
\* unexpired token the row holds.
owner == IF left > 0 THEN token ELSE NoSession

EL == INSTANCE ExclusiveLease WITH holder <- owner

ImplementsExclusiveLease == EL!Spec

\* No session keeps the project for ever: a body that never settles is cut off
\* from the lock by its deadline, and a crash, a lost release or a lost grant
\* costs the project one lease.
NoPermanentHold ==
  \A s \in Session : owner = s ~> owner # s

\* What execution-coordinator.js and the README say of the coordinator: only one
\* scheduler executes the project at any time.
OneBodyAtATime ==
  \A s, t \in Session :
    body[s] = "running" /\ body[t] = "running" => s = t
=============================================================================
