--------------------------- MODULE MCProjectLock ---------------------------
(***************************************************************************)
(* ProjectLock for TLC.  A unit is 30 s: a heartbeat each unit, a lease of *)
(* four (120 s), a body budget of six (190 s).                             *)
(***************************************************************************)
EXTENDS ProjectLock

\* The best day the lock can have: timers fire on time, every call arrives before
\* the next unit of time, nothing is lost and no isolate is evicted.
BestDayTick ==
  /\ calls = {}
  /\ \A s \in Session : pc[s] = "locked" => beatAge[s] < Beat /\ age[s] < Budget
  /\ Elapse

BestDayNext ==
  \/ BestDayTick
  \/ \E s \in Session :
       \/ Acquire(s) \/ AcquireRefused(s)
       \/ SendRenew(s) \/ BodySettles(s) \/ DeadlineFires(s)
       \/ DeliverRenew(s) \/ DeliverRelease(s)

BestDaySpec == LockInit /\ [][BestDayNext]_lockVars
=============================================================================
