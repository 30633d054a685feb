---------------------------- MODULE Subsequences ----------------------------
(***************************************************************************)
(* What is picked out of a list, in its order.  It is a recursive function *)
(* and takes a set, where SelectSeq takes an operator.                     *)
(***************************************************************************)
EXTENDS Naturals, Sequences

\* The elements of s that are in S.
OnlyIn(s, S) ==
  LET kept[n \in 0..Len(s)] ==
        IF n = 0 THEN <<>>
        ELSE IF s[n] \in S THEN Append(kept[n - 1], s[n]) ELSE kept[n - 1]
  IN kept[Len(s)]
=============================================================================
