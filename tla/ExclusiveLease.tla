--------------------------- MODULE ExclusiveLease ---------------------------
(***************************************************************************)
(* What the per-project coordinator promises its callers: the project is   *)
(* leased to at most one session at a time, and a lease never passes       *)
(* straight from one session to another: it is given back, or it runs out, *)
(* before the next session can take it.                                    *)
(***************************************************************************)
CONSTANTS Session, NoSession

VARIABLE holder

Init == holder = NoSession

Take(s) ==
  /\ holder = NoSession
  /\ holder' = s

GiveUp ==
  /\ holder # NoSession
  /\ holder' = NoSession

Next == GiveUp \/ \E s \in Session : Take(s)

Spec == Init /\ [][Next]_holder
=============================================================================
