--------------------------- MODULE MCEntityStore ---------------------------
(***************************************************************************)
(* EntityStore for TLC.                                                    *)
(***************************************************************************)
EXTENDS EntityStore, TLC

CONSTANT MaxEvents  \* bound: puts, reads and faults, in all

VARIABLE reads      \* how many so far

Symmetry == Permutations(Isolate)

\* The row was there before, and every isolate has read it.
Created ==
  /\ db = [ver |-> 1, val |-> [f \in Field |-> Unput]]
  /\ mem = [i \in Isolate |-> db.val]
  /\ versions = [i \in Isolate |-> 1]
  /\ reading = [i \in Isolate |-> NoReading]
  /\ write = [p \in Put |-> Blank(Nobody)]
  /\ stage = [p \in Put |-> "unmade"]
  /\ made = 0
  /\ promised = [i \in Isolate |-> NoPromise]
  /\ clock = 1
  /\ faults = 0
  /\ missed = [i \in Isolate |-> {}]
  /\ blind = FALSE
  /\ reads = 0

Reads == \E i \in Isolate : Sync(i) \/ Hydrate(i)

GoesOn ==
  \/ \E i \in Isolate :
       \/ \E f \in Field : PlainPut(i, f) \/ PutDurable(i, f)
       \/ Confirm(i) \/ ConfirmUnread(i) \/ Reapply(i) \/ Apply(i) \/ Crash(i)
  \/ \E p \in Put :
       \/ Land(p) \/ LandReplyLost(p) \/ Reject(p) \/ Defer(p)
       \/ Reread(p) \/ RereadFails(p) \/ Settle(p)
  \/ Tick

\* Next, with what it does counted.
CountedNext ==
  /\ (Reads /\ reads' = reads + 1) \/ (GoesOn /\ reads' = reads)
  /\ made' + reads' + faults' <= MaxEvents

CreatedSpec == Created /\ [][CountedNext]_<<vars, reads>>

\* Puts and durable puts that D1 may refuse, nobody reads but to merge, and no
\* read fails.
ReadsWorkNext ==
  \/ \E i \in Isolate :
       \/ \E f \in Field : PlainPut(i, f) \/ PutDurable(i, f)
       \/ Confirm(i) \/ Reapply(i)
  \/ \E p \in Put : Land(p) \/ Reject(p) \/ Defer(p) \/ Reread(p) \/ Settle(p)

ReadsWorkSpec == Created /\ [][ReadsWorkNext /\ UNCHANGED reads]_<<vars, reads>>

\* Plain puts only: no fault, and nobody reads but to merge.
PlainNext ==
  \/ \E i \in Isolate, f \in Field : PlainPut(i, f)
  \/ \E p \in Put : Land(p) \/ Reject(p) \/ Reread(p) \/ Settle(p)

PlainSpec == Created /\ [][PlainNext /\ UNCHANGED reads]_<<vars, reads>>
=============================================================================
