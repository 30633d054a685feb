--------------------------- MODULE AccountBudget ---------------------------
(***************************************************************************)
(* The daily row budget of D1 as the isolates keep it: the counter of an   *)
(* isolate and its block (state, canWriteD1, noteD1WriteBlocked), the      *)
(* ledger row they share (refreshLedger, flushAccountBudget), and the      *)
(* writes that ask both before they are sent (d1Put, d1Event, the DELETEs  *)
(* of the prune jobs).                                                     *)
(*                                                                         *)
(* The shared counters roll over when they are next looked at, so that a   *)
(* flush may find those of yesterday; nothing looks at the isolate's own   *)
(* counter without rolling it over, so it is reset at midnight.            *)
(*                                                                         *)
(* Whether a minute has passed since the last flush, or half of one since  *)
(* the ledger was read, is open at any moment.  Rows read are counted like *)
(* rows written and guarded at their own ratio: here they only start a     *)
(* flush.  The rows the ledger itself costs (under 1%, d1-quota.js:21) are *)
(* not counted, as they are not in the code.                               *)
(***************************************************************************)
EXTENDS Naturals, FiniteSetsExt

CONSTANTS
  Isolate,
  NoOne,
  Put,        \* bound: writes under way at once
  Limit,      \* DAILY_ROW_WRITE_LIMIT
  Critical,   \* the part of it critical writes may use, by the ledger
  Guard,      \* the part of it other writes may use, by the ledger
  Safety,     \* SAFETY_LIMIT, by the isolate's own counter
  Bounds      \* bounds: how many midnights, how many calls refused, failed or
              \* unanswered and isolates evicted, in all; of each pair one behaviour

ASSUME NoOneAssumption == NoOne \notin Isolate
ASSUME FiniteAssumption == IsFiniteSet(Isolate) /\ IsFiniteSet(Put)
ASSUME LimitAssumption ==
  /\ Limit \in Nat /\ Critical \in Nat /\ Guard \in Nat /\ Safety \in Nat
  /\ Guard <= Critical /\ Critical <= Limit
ASSUME BoundAssumption == Bounds \subseteq [midnights : Nat, faults : Nat]

VARIABLES
  day,
  billed,     \* rows D1 has counted today
  refused,    \* D1 has refused a write today
  row,        \* stats/account_budget
  quota,      \* env.__MAULI_D1_QUOTA of each isolate
  local,      \* env.__MAULI_ACCOUNT_BUDGET of each isolate
  flush,      \* its `flushing`
  put,
  left,       \* what is left of the bounds
  doubt,      \* history: something was counted that D1 did not bill today
  lost        \* history: something D1 billed today was dropped from the count

vars == <<day, billed, refused, row, quota, local, flush, put, left, doubt, lost>>

Day == Nat

Quota == [used : 0..Limit, blocked : BOOLEAN]
NoQuota == [used |-> 0, blocked |-> FALSE]
\* pend: rows not flushed yet; seen: the ledger as last read.
Local == [day : Day, pend : Nat, seen : Nat]
NoLocal(d) == [day |-> d, pend |-> 0, seen |-> 0]
\* from: the day its rows were collected; day: the day it writes them for.
Flush == [pc : {"none", "read", "write", "reply"}, rows : Nat, base : Nat,
          from : Day, day : Day]
NoFlush == [pc |-> "none", rows |-> 0, base |-> 0, from |-> 0, day |-> 0]
\* on: the day D1 answered.  critical: as long as it matters.
Write == [pc : {"idle", "asking", "sent", "billed", "stale", "refused"},
          by : Isolate \cup {NoOne}, critical : BOOLEAN, on : Day]
NoWrite == [pc |-> "idle", by |-> NoOne, critical |-> FALSE, on |-> 0]

TypeOK ==
  /\ day \in Day
  /\ billed \in 0..Limit /\ refused \in BOOLEAN
  /\ row \in [day : Day, n : Nat]
  /\ quota \in [Isolate -> Quota]
  /\ local \in [Isolate -> Local]
  /\ flush \in [Isolate -> Flush]
  /\ put \in [Put -> Write]
  /\ left \in [midnights : Nat, faults : Nat]
  /\ doubt \in BOOLEAN /\ lost \in BOOLEAN

Fault == left.faults > 0 /\ left' = [left EXCEPT !.faults = @ - 1]

Spent == billed >= Limit

-----------------------------------------------------------------------------
\* What accountLocal(env) gives.
accountLocal(i) == IF local[i].day = day THEN local[i] ELSE NoLocal(day)

\* What the shared row says of a day.
Recorded(d) == IF row.day = d THEN row.n ELSE 0

canWriteD1(i, critical, estimate) ==
  /\ ~quota[i].blocked
  /\ quota[i].used + estimate <= Limit
  /\ ~critical => quota[i].used + estimate < Safety

optionalWriteAllowed(l, critical) ==
  l.seen + l.pend < (IF critical THEN Critical ELSE Guard)

-----------------------------------------------------------------------------
\* The ledger.

\* flushAccountBudget up to its first await; l is what accountLocal gave.
FlushDue(i, l) == flush[i].pc = "none" /\ l.pend > 0
StartFlush(i, l) ==
  flush' = [flush EXCEPT ![i] = [pc |-> "read", rows |-> l.pend, base |-> 0,
                                 from |-> l.day, day |-> l.day]]

\* noteAccountRead.
NoteRead(i) ==
  /\ FlushDue(i, accountLocal(i))
  /\ StartFlush(i, accountLocal(i))
  /\ local' = [local EXCEPT ![i] = accountLocal(i)]
  /\ UNCHANGED <<day, billed, refused, row, quota, put, left, doubt, lost>>

\* What refreshLedger returns: the row of the day the isolate has by now; what was
\* read before when the read fails.
BaseWithPending(i, ok) ==
  local[i].pend + (IF ok THEN Recorded(local[i].day) ELSE local[i].seen)
Base(i, ok) == IF ok THEN Recorded(local[i].day) ELSE local[i].seen

FlushRead(i, ok) ==
  /\ flush[i].pc = "read"
  /\ IF ok THEN UNCHANGED left ELSE Fault
  /\ flush' = [flush EXCEPT ![i].pc = "write", ![i].base = Base(i, ok),
                            ![i].day = local[i].day]
  /\ local' = [local EXCEPT ![i].seen = Base(i, ok)]
  /\ UNCHANGED <<day, billed, refused, row, quota, put, doubt, lost>>

\* D1 executes its upsert, whatever the row has become since.
FlushWrite(i) ==
  /\ flush[i].pc = "write"
  /\ ~Spent
  /\ LET f == flush[i]
     IN  /\ row' = [day |-> f.day, n |-> f.base + f.rows]
         /\ doubt' = (doubt \/ f.day # f.from)
         /\ lost' = (lost \/ f.base < Recorded(f.day) \/ f.day < row.day)
  /\ flush' = [flush EXCEPT ![i].pc = "reply"]
  /\ UNCHANGED <<day, billed, refused, quota, local, put, left>>

FlushRefused(i) ==
  /\ flush[i].pc = "write"
  /\ Spent
  /\ refused' = TRUE
  /\ flush' = [flush EXCEPT ![i] = NoFlush]
  /\ UNCHANGED <<day, billed, row, quota, local, put, left, doubt, lost>>

\* Only the flushed delta is cleared.  Across midnight the rows of one day are taken
\* from the other, and the ledger of yesterday for that of today.
RemainingNone(l, f) == 0
Remaining(l, f) == IF l.pend > f.rows THEN l.pend - f.rows ELSE 0

FlushReply(i) ==
  /\ flush[i].pc = "reply"
  /\ LET f == flush[i]
         l == local[i]
     IN  /\ local' = [local EXCEPT ![i].pend = Remaining(l, f), ![i].seen = f.base + f.rows]
         /\ lost' = (lost \/ (l.day # f.from /\ l.pend > 0))
         /\ doubt' = (doubt \/ l.day # f.day)
  /\ flush' = [flush EXCEPT ![i] = NoFlush]
  /\ UNCHANGED <<day, billed, refused, row, quota, put, left>>

FlushReplyLost(i) ==
  /\ Fault
  /\ flush[i].pc = "reply"
  /\ flush' = [flush EXCEPT ![i] = NoFlush]
  /\ doubt' = TRUE
  /\ UNCHANGED <<day, billed, refused, row, quota, local, put, lost>>

-----------------------------------------------------------------------------
\* A write: d1Put (it reserves two rows) and d1Event (one) ask the ledger, which may
\* have to be read; a DELETE of a prune asks the isolate's counter alone.

Sent(i) == [NoWrite EXCEPT !.pc = "sent", !.by = i]
Asking(i, critical) == [NoWrite EXCEPT !.pc = "asking", !.by = i, !.critical = critical]

Reserve(p, i, critical, estimate) ==
  /\ put[p].pc = "idle"
  /\ canWriteD1(i, critical, estimate)
  /\ put' = [put EXCEPT ![p] = Asking(i, critical)]
  /\ local' = [local EXCEPT ![i] = accountLocal(i)]
  /\ UNCHANGED <<day, billed, refused, row, quota, flush, left, doubt, lost>>

\* With the ledger as it is read now, as it was read before, or as it was when the
\* read fails.
Decide(p) ==
  /\ put[p].pc = "asking"
  /\ LET i == put[p].by
     IN  \E seen \in {Recorded(local[i].day), local[i].seen} :
           /\ local' = [local EXCEPT ![i].seen = seen]
           /\ put' = [put EXCEPT ![p] =
                IF optionalWriteAllowed(local'[i], put[p].critical) THEN Sent(i) ELSE NoWrite]
  /\ UNCHANGED <<day, billed, refused, row, quota, flush, left, doubt, lost>>

Prune(p, i) ==
  /\ put[p].pc = "idle"
  /\ canWriteD1(i, FALSE, 1)
  /\ put' = [put EXCEPT ![p] = Sent(i)]
  /\ UNCHANGED <<day, billed, refused, row, quota, local, flush, left, doubt, lost>>

\* D1 executes it, or refuses it for the day's limit.
Land(p) ==
  /\ put[p].pc = "sent"
  /\ put' = [put EXCEPT ![p].on = day, ![p].pc = IF Spent THEN "refused" ELSE "billed"]
  /\ IF Spent THEN refused' = TRUE /\ UNCHANGED billed
     ELSE billed' = billed + 1 /\ UNCHANGED refused
  /\ UNCHANGED <<day, row, quota, local, flush, left, doubt, lost>>

\* The comparison with updated_at fails: no row is written.
LandStale(p) ==
  /\ Fault
  /\ put[p].pc = "sent"
  /\ put' = [put EXCEPT ![p].on = day, ![p].pc = "stale"]
  /\ UNCHANGED <<day, billed, refused, row, quota, local, flush, doubt, lost>>

CountUncapped(n) == n + 1
Count(n) == IF n < Limit THEN n + 1 ELSE Limit

\* recordD1Write counts one row at least, also for a refused comparison.
Record(p) ==
  /\ put[p].pc \in {"billed", "stale"}
  /\ LET i == put[p].by
         l == [accountLocal(i) EXCEPT !.pend = @ + 1]
     IN  /\ quota' = [quota EXCEPT ![i].used = Count(@)]
         /\ local' = [local EXCEPT ![i] = l]
         /\ \/ UNCHANGED flush
            \/ FlushDue(i, l) /\ StartFlush(i, l)
  /\ doubt' = (doubt \/ put[p].pc = "stale" \/ put[p].on # day)
  /\ put' = [put EXCEPT ![p] = NoWrite]
  /\ UNCHANGED <<day, billed, refused, row, left, lost>>

noteD1WriteBlocked(p) ==
  /\ put[p].pc = "refused"
  /\ quota' = [quota EXCEPT ![put[p].by].blocked = TRUE]
  /\ put' = [put EXCEPT ![p] = NoWrite]
  /\ UNCHANGED <<day, billed, refused, row, local, flush, left, doubt, lost>>

\* Another error, with or without the write: nothing is counted.
Unanswered(p) ==
  /\ Fault
  /\ put[p].pc \in {"sent", "billed"}
  /\ lost' = (lost \/ (put[p].pc = "billed" /\ put[p].on = day))
  /\ put' = [put EXCEPT ![p] = NoWrite]
  /\ UNCHANGED <<day, billed, refused, row, quota, local, flush, doubt>>

-----------------------------------------------------------------------------
\* Time and the platform.

\* What an isolate has counted today and the row does not hold yet.
Unreported(i) ==
  IF local[i].day # day THEN 0
  ELSE IF flush[i].pc = "reply" /\ flush[i].from = day /\ flush[i].day = day
  THEN Remaining(local[i], flush[i])
  ELSE local[i].pend

Own(i) == {p \in Put : put[p].by = i}
Landed(ps) == {p \in ps : put[p].pc = "billed" /\ put[p].on = day}

\* Midnight UTC: Cloudflare's meter starts again.  What an isolate has of yesterday
\* only its flush can still read, or a write that waits for the ledger.
Midnight ==
  /\ left.midnights > 0
  /\ left' = [left EXCEPT !.midnights = @ - 1]
  /\ day' = day + 1
  /\ billed' = 0 /\ refused' = FALSE
  /\ doubt' = FALSE /\ lost' = FALSE
  /\ quota' = [i \in Isolate |-> NoQuota]
  /\ local' = [i \in Isolate |->
       IF flush[i].pc = "none" /\ \A p \in Own(i) : put[p].pc # "asking"
       THEN NoLocal(day + 1) ELSE local[i]]
  /\ UNCHANGED <<row, flush, put>>

\* Another isolate in its place: its counters begin at zero.
Evict(i) ==
  /\ Fault
  /\ quota' = [quota EXCEPT ![i] = NoQuota]
  /\ local' = [local EXCEPT ![i] = NoLocal(day)]
  /\ flush' = [flush EXCEPT ![i] = NoFlush]
  /\ put' = [p \in Put |-> IF p \in Own(i) THEN NoWrite ELSE put[p]]
  /\ lost' = (lost \/ Unreported(i) > 0 \/ Landed(Own(i)) # {})
  /\ UNCHANGED <<day, billed, refused, row, doubt>>

Init ==
  /\ day = 0 /\ billed = 0 /\ refused = FALSE
  /\ row = [day |-> 0, n |-> 0]
  /\ quota = [i \in Isolate |-> NoQuota]
  /\ local = [i \in Isolate |-> NoLocal(0)]
  /\ flush = [i \in Isolate |-> NoFlush]
  /\ put = [p \in Put |-> NoWrite]
  /\ left \in Bounds
  /\ doubt = FALSE /\ lost = FALSE

Next ==
  \/ \E i \in Isolate :
       \/ NoteRead(i)
       \/ \E ok \in BOOLEAN : FlushRead(i, ok)
       \/ FlushWrite(i) \/ FlushRefused(i) \/ FlushReply(i) \/ FlushReplyLost(i)
       \/ Evict(i)
  \/ \E p \in Put, i \in Isolate :
       \/ \E critical \in BOOLEAN, estimate \in {1, 2} : Reserve(p, i, critical, estimate)
       \/ Prune(p, i)
  \/ \E p \in Put :
       \/ Decide(p) \/ Land(p) \/ LandStale(p) \/ Record(p)
       \/ noteD1WriteBlocked(p) \/ Unanswered(p)
  \/ Midnight

Spec == Init /\ [][Next]_vars

-----------------------------------------------------------------------------
OnItsWay == MapThenSumSet(Unreported, Isolate)

\* The ledger and what is on its way to it never hold a row twice (the comment in
\* flushAccountBudget, d1-quota.js:118): the guard does not stop work D1 would take,
\* unless what was counted was not billed today: a refused comparison, a flush whose
\* answer was lost, rows that crossed midnight on their way.
NeverCountedTwice == ~doubt => Recorded(day) + OnItsWay <= billed

\* Every row D1 bills is in the ledger, or on its way to it in an isolate, unless an
\* update of it was lost: then the guard (d1-quota.js:173) opens too far.
NothingSlipsPast ==
  ~lost => Recorded(day) + OnItsWay + Cardinality(Landed(Put)) >= billed

\* A block lasts for the day D1 refused a write of ("the day rollover in state()
\* clears this automatically at midnight UTC", d1-quota.js:214).
BlockedOnTheDayOnly == \A i \in Isolate : quota[i].blocked => refused
=============================================================================
