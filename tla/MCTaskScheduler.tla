-------------------------- MODULE MCTaskScheduler --------------------------
(***************************************************************************)
(* TaskScheduler for TLC.                                                  *)
(***************************************************************************)
EXTENDS TaskScheduler

CONSTANTS t1, t2, x, y

\* One agent can do the first task, both can do the second.
MCCapable == [t \in {t1, t2} |-> IF t = t1 THEN {x} ELSE {x, y}]

Independent == [t \in {t1, t2} |-> {}]
Chained == [t \in {t1, t2} |-> IF t = t2 THEN {t1} ELSE {}]
MCPlans == {Independent, Chained}
=============================================================================
