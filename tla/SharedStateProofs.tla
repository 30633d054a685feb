------------------------- MODULE SharedStateProofs -------------------------
(***************************************************************************)
(* Proofs about the state that isolates share.                             *)
(*                                                                         *)
(* ProjectLock, for any number of sessions and any lease, heartbeat and    *)
(* budget: a session inside the wrapper whose last granted lease has time  *)
(* left is the session the row names, and the row promises at least that   *)
(* time.  What keeps it inductive is that a release is only ever sent by a *)
(* session that has left the wrapper, and that none comes back.            *)
(*                                                                         *)
(* EntityStore, for any isolates, fields, puts and retries: a version is   *)
(* an identity.  As long as no write goes without one, D1's version only   *)
(* grows, so whoever still holds D1's version holds D1's row, but for what *)
(* it put itself since and for the fields it is known to miss.  The        *)
(* invariant says so of the three places a version is kept, with an        *)
(* isolate's copy, in a write on its way and in a row read and not yet     *)
(* applied, and of each copy against its own writes on their way: that is  *)
(* what the version of a write that settles will vouch for.                *)
(***************************************************************************)
EXTENDS ProjectLock, EntityStore, TLAPS

-----------------------------------------------------------------------------
\* ProjectLock.

\* Only a session that left the wrapper has a release on its way.
ReleasedHaveLeft ==
  \A s \in Session : Release(s) \in calls => pc[s] \in {"out", "crashed"}

\* The coordinator's row backs every lease a session inside the wrapper counts on.
RowBacksLease ==
  \A s \in Session :
    pc[s] = "locked" /\ leaseLeft[s] > 0 => token = s /\ leaseLeft[s] <= left

LockInv == LockTypeOK /\ ReleasedHaveLeft /\ RowBacksLease

-----------------------------------------------------------------------------
\* Time arithmetic: the two counters stay inside their ranges.
LEMMA DownRange ==
  ASSUME NEW max \in Nat, NEW n \in 0..max
  PROVE  Down(n) \in 0..max /\ Down(n) <= n
BY DEF Down

\* Counting down keeps the order of two counters.
LEMMA DownMonotone ==
  ASSUME NEW m \in Nat, NEW n \in Nat, m <= n
  PROVE  Down(m) <= Down(n) /\ (Down(m) > 0 => m > 0)
BY DEF Down

LEMMA UpRange ==
  ASSUME NEW max \in Nat, NEW n \in 0..max
  PROVE  Up(n, max) \in 0..max
BY DEF Up

\* A renew and a release are different calls, and a call names its session.
LEMMA CallFacts ==
  ASSUME NEW s \in Session, NEW t \in Session
  PROVE  /\ Renew(s) \in Call /\ Release(s) \in Call
         /\ Renew(s) # Release(t)
         /\ (Release(s) = Release(t) => s = t)
BY DEF Renew, Release, Call

-----------------------------------------------------------------------------
LEMMA InitTypeOK == LockInit => LockTypeOK
BY SessionAssumption, TimeAssumption DEF LockInit, LockTypeOK

\* Each action keeps the types.
LEMMA NextTypeOK == LockTypeOK /\ [LockNext]_lockVars => LockTypeOK'
<1> SUFFICES ASSUME LockTypeOK, [LockNext]_lockVars
             PROVE  LockTypeOK'
  OBVIOUS
<1> USE SessionAssumption, TimeAssumption
<1>1. CASE Elapse
  <2>1. left' \in 0..Lease
    BY <1>1, DownRange DEF Elapse, LockTypeOK
  <2>2. leaseLeft' \in [Session -> 0..Lease]
    BY <1>1, DownRange DEF Elapse, LockTypeOK
  <2>3. age' \in [Session -> 0..Budget]
    BY <1>1, UpRange DEF Elapse, LockTypeOK
  <2>4. beatAge' \in [Session -> 0..Beat]
    BY <1>1, UpRange DEF Elapse, LockTypeOK
  <2>5. QED
    BY <1>1, <2>1, <2>2, <2>3, <2>4 DEF Elapse, LockTypeOK
<1>2. ASSUME NEW s \in Session, Acquire(s) PROVE LockTypeOK'
  BY <1>2 DEF Acquire, GrantTo, LockTypeOK
<1>3. ASSUME NEW s \in Session, AcquireReplyLost(s) PROVE LockTypeOK'
  BY <1>3 DEF AcquireReplyLost, GrantTo, LockTypeOK
<1>4. ASSUME NEW s \in Session, AcquireRefused(s) PROVE LockTypeOK'
  BY <1>4 DEF AcquireRefused, LockTypeOK
<1>5. ASSUME NEW s \in Session, SendRenew(s) PROVE LockTypeOK'
  BY <1>5, CallFacts DEF SendRenew, LockTypeOK
<1>6. ASSUME NEW s \in Session, BodySettles(s) PROVE LockTypeOK'
  BY <1>6, CallFacts DEF BodySettles, LeaveLock, LockTypeOK
<1>7. ASSUME NEW s \in Session, DeadlineFires(s) PROVE LockTypeOK'
  BY <1>7, CallFacts DEF DeadlineFires, LeaveLock, LockTypeOK
<1>8. ASSUME NEW s \in Session, DeliverRenew(s) PROVE LockTypeOK'
  BY <1>8 DEF DeliverRenew, HandleRenew, LockTypeOK
<1>9. ASSUME NEW s \in Session, DeliverRelease(s) PROVE LockTypeOK'
  BY <1>9 DEF DeliverRelease, HandleRelease, LockTypeOK
<1>10. ASSUME NEW s \in Session, LoseCall(s) PROVE LockTypeOK'
  BY <1>10 DEF LoseCall, LockTypeOK
<1>11. ASSUME NEW s \in Session, Evict(s) PROVE LockTypeOK'
  BY <1>11 DEF Evict, LockTypeOK
<1>12. CASE UNCHANGED lockVars
  BY <1>12 DEF lockVars, LockTypeOK
<1>13. QED
  BY <1>1, <1>2, <1>3, <1>4, <1>5, <1>6, <1>7, <1>8, <1>9, <1>10, <1>11, <1>12 DEF LockNext

\* ProjectLock!LockTypeOK: the row, the timers and the calls keep their types.
THEOREM LockTypeCorrect == LockSpec => []LockTypeOK
BY InitTypeOK, NextTypeOK, PTL DEF LockSpec

-----------------------------------------------------------------------------
\* No session inside the wrapper has a release on its way, and none returns to it.
LEMMA NextReleasedHaveLeft ==
  LockInv /\ [LockNext]_lockVars => ReleasedHaveLeft'
<1> SUFFICES ASSUME LockInv, [LockNext]_lockVars, NEW t \in Session, Release(t) \in calls'
             PROVE  pc'[t] \in {"out", "crashed"}
  BY DEF ReleasedHaveLeft
<1> USE DEF LockInv, ReleasedHaveLeft, LockTypeOK
<1>1. CASE Elapse
  BY <1>1 DEF Elapse
<1>2. ASSUME NEW s \in Session,
             Acquire(s) \/ AcquireReplyLost(s) \/ AcquireRefused(s)
      PROVE  pc'[t] \in {"out", "crashed"}
  <2>1. Release(t) \in calls
    BY <1>2 DEF Acquire, AcquireReplyLost, AcquireRefused
  <2>2. s # t
    BY <1>2, <2>1 DEF Acquire, AcquireReplyLost, AcquireRefused
  <2>3. QED
    BY <1>2, <2>1, <2>2 DEF Acquire, AcquireReplyLost, AcquireRefused
<1>3. ASSUME NEW s \in Session, SendRenew(s) PROVE pc'[t] \in {"out", "crashed"}
  BY <1>3, CallFacts DEF SendRenew
<1>4. ASSUME NEW s \in Session, BodySettles(s) \/ DeadlineFires(s)
      PROVE  pc'[t] \in {"out", "crashed"}
  BY <1>4, CallFacts DEF BodySettles, DeadlineFires, LeaveLock
<1>5. ASSUME NEW s \in Session,
             DeliverRenew(s) \/ DeliverRelease(s) \/ LoseCall(s) \/ Evict(s)
      PROVE  pc'[t] \in {"out", "crashed"}
  BY <1>5 DEF DeliverRenew, DeliverRelease, LoseCall, Evict
<1>6. CASE UNCHANGED lockVars
  BY <1>6 DEF lockVars
<1>7. QED
  BY <1>1, <1>2, <1>3, <1>4, <1>5, <1>6 DEF LockNext

\* The row goes on backing the leases of the sessions inside the wrapper.
LEMMA NextRowBacksLease ==
  LockInv /\ [LockNext]_lockVars => RowBacksLease'
<1> SUFFICES ASSUME LockInv, [LockNext]_lockVars, NEW t \in Session,
                    pc'[t] = "locked", leaseLeft'[t] > 0
             PROVE  token' = t /\ leaseLeft'[t] <= left'
  BY DEF RowBacksLease
<1> USE SessionAssumption, TimeAssumption DEF LockInv, RowBacksLease, LockTypeOK
<1>1. CASE Elapse
  <2>1. pc[t] = "locked" /\ leaseLeft'[t] = Down(leaseLeft[t]) /\ left' = Down(left)
    BY <1>1 DEF Elapse
  <2>2. leaseLeft[t] > 0
    BY <2>1 DEF Down
  <2>3. token = t /\ leaseLeft[t] <= left
    BY <2>1, <2>2
  <2>4. QED
    BY <1>1, <2>1, <2>3, DownMonotone DEF Elapse
<1>2. ASSUME NEW s \in Session, Acquire(s)
      PROVE  token' = t /\ leaseLeft'[t] <= left'
  <2>1. CASE s = t
    BY <1>2, <2>1 DEF Acquire, GrantTo
  <2>2. CASE s # t
    BY <1>2, <2>2 DEF Acquire, Free
  <2>3. QED
    BY <2>1, <2>2
<1>3. ASSUME NEW s \in Session, AcquireReplyLost(s)
      PROVE  token' = t /\ leaseLeft'[t] <= left'
  BY <1>3 DEF AcquireReplyLost, Free
<1>4. ASSUME NEW s \in Session,
             AcquireRefused(s) \/ SendRenew(s) \/ LoseCall(s) \/ Evict(s)
      PROVE  token' = t /\ leaseLeft'[t] <= left'
  BY <1>4 DEF AcquireRefused, SendRenew, LoseCall, Evict
<1>5. ASSUME NEW s \in Session, BodySettles(s) \/ DeadlineFires(s)
      PROVE  token' = t /\ leaseLeft'[t] <= left'
  BY <1>5 DEF BodySettles, DeadlineFires, LeaveLock
<1>6. ASSUME NEW s \in Session, DeliverRenew(s)
      PROVE  token' = t /\ leaseLeft'[t] <= left'
  <2>1. CASE token = s
    <3>1. token' = s /\ left' = Lease /\ leaseLeft' \in [Session -> 0..Lease]
      BY <1>6, <2>1 DEF DeliverRenew, HandleRenew
    <3>2. t = s
      BY <1>6, <2>1 DEF DeliverRenew, HandleRenew
    <3>3. QED
      BY <3>1, <3>2
  <2>2. CASE token # s
    BY <1>6, <2>2 DEF DeliverRenew, HandleRenew
  <2>3. QED
    BY <2>1, <2>2
<1>7. ASSUME NEW s \in Session, DeliverRelease(s)
      PROVE  token' = t /\ leaseLeft'[t] <= left'
  <2>1. pc[t] = "locked" /\ leaseLeft[t] > 0
    BY <1>7 DEF DeliverRelease
  <2>2. token = t
    BY <2>1
  <2>3. pc[s] \in {"out", "crashed"}
    BY <1>7 DEF DeliverRelease, ReleasedHaveLeft
  <2>4. token # s
    BY <2>1, <2>2, <2>3
  <2>5. QED
    BY <1>7, <2>1, <2>4 DEF DeliverRelease, HandleRelease
<1>8. CASE UNCHANGED lockVars
  BY <1>8 DEF lockVars
<1>9. QED
  BY <1>1, <1>2, <1>3, <1>4, <1>5, <1>6, <1>7, <1>8 DEF LockNext

LEMMA InitLockInv == LockInit => LockInv
BY InitTypeOK DEF LockInit, LockInv, ReleasedHaveLeft, RowBacksLease

\* The inductive invariant holds in every reachable state.
THEOREM LockInvariant == LockSpec => []LockInv
<1>1. LockInv /\ [LockNext]_lockVars => LockInv'
  BY NextTypeOK, NextReleasedHaveLeft, NextRowBacksLease DEF LockInv
<1>2. QED
  BY InitLockInv, <1>1, PTL DEF LockSpec

-----------------------------------------------------------------------------
\* Bodies overlap only when the lock of one of them has lapsed: two sessions
\* with time left on their leases would both be the one the row names.
THEOREM MutualExclusion == LockSpec => []OverlapOnlyAfterLapse
<1>1. LockInv => OverlapOnlyAfterLapse
  BY DEF LockInv, LockTypeOK, RowBacksLease, OverlapOnlyAfterLapse, Lapsed
<1>2. QED
  BY LockInvariant, <1>1, PTL

\* Nobody clears or takes the row of a session inside the wrapper whose lease
\* has time left.
THEOREM LiveLeaseIsKept == LockSpec => LiveLeaseKept
<1>1. ASSUME LockInv, [LockNext]_lockVars, NEW t \in Session,
             token = t, left > 0, pc[t] = "locked"
      PROVE  token' = t
  <2> USE <1>1, SessionAssumption DEF LockInv, LockTypeOK
  <2>1. CASE Elapse
    BY <2>1 DEF Elapse
  <2>2. ASSUME NEW s \in Session, DeliverRelease(s)
        PROVE  token' = t
    <3>1. s # t
      BY <2>2 DEF DeliverRelease, ReleasedHaveLeft
    <3>2. QED
      BY <2>2, <3>1 DEF DeliverRelease, HandleRelease
  <2>3. ASSUME NEW s \in Session,
               Acquire(s) \/ AcquireReplyLost(s)
        PROVE  token' = t
    BY <2>3 DEF Acquire, AcquireReplyLost, Free
  <2>4. ASSUME NEW s \in Session,
               AcquireRefused(s) \/ SendRenew(s) \/ BodySettles(s) \/ DeadlineFires(s)
                 \/ DeliverRenew(s) \/ LoseCall(s) \/ Evict(s)
        PROVE  token' = t
    BY <2>4 DEF AcquireRefused, SendRenew, BodySettles, DeadlineFires, DeliverRenew,
                HandleRenew, LoseCall, Evict
  <2>5. CASE UNCHANGED lockVars
    BY <2>5 DEF lockVars
  <2>6. QED
    BY <2>1, <2>2, <2>3, <2>4, <2>5 DEF LockNext
<1>2. LockInv /\ [LockNext]_lockVars
        => [\A s \in Session : token = s /\ left > 0 /\ pc[s] = "locked" => token' = s]_lockVars
  BY <1>1
<1>3. QED
  BY LockInvariant, <1>2, PTL DEF LockSpec, LiveLeaseKept

-----------------------------------------------------------------------------
\* Every step of the coordinator is a step of the exclusive lease or a stutter:
\* a grant or a late renewal takes a free lease, a release or the clock gives it
\* up, everything else leaves the owner alone.
THEOREM CoordinatorIsExclusiveLease == LockSpec => ImplementsExclusiveLease
<1>1. LockInit => EL!Init
  BY DEF LockInit, EL!Init, owner
<1>2. ASSUME LockTypeOK, [LockNext]_lockVars
      PROVE  [EL!Next]_owner
  <2> USE <1>2, SessionAssumption, TimeAssumption DEF LockTypeOK
  <2>1. CASE Elapse
    BY <2>1 DEF Elapse, Down, owner, EL!Next, EL!GiveUp
  <2>2. ASSUME NEW s \in Session, Acquire(s) \/ AcquireReplyLost(s)
        PROVE  [EL!Next]_owner
    <3>1. owner = NoSession /\ owner' = s
      BY <2>2 DEF Acquire, AcquireReplyLost, GrantTo, Free, owner
    <3>2. QED
      BY <3>1 DEF EL!Next, EL!Take
  <2>3. ASSUME NEW s \in Session, DeliverRenew(s)
        PROVE  [EL!Next]_owner
    BY <2>3 DEF DeliverRenew, HandleRenew, owner, EL!Next, EL!Take
  <2>4. ASSUME NEW s \in Session, DeliverRelease(s)
        PROVE  [EL!Next]_owner
    BY <2>4 DEF DeliverRelease, HandleRelease, owner, EL!Next, EL!GiveUp
  <2>5. ASSUME NEW s \in Session,
               AcquireRefused(s) \/ SendRenew(s) \/ BodySettles(s) \/ DeadlineFires(s)
                 \/ LoseCall(s) \/ Evict(s)
        PROVE  UNCHANGED owner
    BY <2>5 DEF AcquireRefused, SendRenew, BodySettles, DeadlineFires, LoseCall, Evict, owner
  <2>6. CASE UNCHANGED lockVars
    BY <2>6 DEF lockVars, owner
  <2>7. QED
    BY <2>1, <2>2, <2>3, <2>4, <2>5, <2>6 DEF LockNext
<1>3. QED
  BY <1>1, <1>2, LockTypeCorrect, PTL DEF LockSpec, ImplementsExclusiveLease, EL!Spec

-----------------------------------------------------------------------------
\* EntityStore.

\* val differs from base only in what i put later, but in the fields of `but`.
Follows(i, val, base, but) == \A f \in Field \ but : UpToOwn(i, val[f], base[f])

MadePutsHaveAuthors ==
  \A p \in Put : /\ write[p].by # Nobody => p <= made
                 /\ stage[p] # "unmade" => write[p].by # Nobody
                 /\ stage[p] = "reread" => write[p].try < MaxRetries

\* Nobody knows a put that was not made.
KnownUpTo(n) == [Field -> (0..n) \cup {Unput}]

ValuesAreMade ==
  /\ db.val \in KnownUpTo(made)
  /\ \A i \in Isolate : /\ mem[i] \in KnownUpTo(made)
                        /\ reading[i].val \in KnownUpTo(made)
                        /\ promised[i].item \in KnownUpTo(made)
  /\ \A p \in Put : write[p].item \in KnownUpTo(made)

RowIsVersioned == db.ver = 0 => db = NoRow

\* What the version beside a copy vouches for.
CopiesBehind ==
  \A i \in Isolate : missed[i] # Field =>
    /\ versions[i] <= db.ver
    /\ versions[i] # 0 /\ versions[i] = db.ver => Follows(i, mem[i], db.val, missed[i])

\* What the version in a write vouches for.
Vouched(p) ==
  \A f \in Field \ write[p].older :
    write[p].item[f] = p \/ UpToOwn(write[p].by, write[p].item[f], db.val[f])

WritesBehind ==
  \A p \in Put : stage[p] = "send" /\ write[p].expected # 0 /\ write[p].older # Field =>
    /\ write[p].expected <= db.ver
    /\ write[p].expected = db.ver => Vouched(p)

\* What the version of a row read vouches for.
ReadsBehind ==
  \A i \in Isolate : reading[i] # NoReading =>
    /\ reading[i].ver # 0
    /\ reading[i].ver <= db.ver
    /\ reading[i].ver = db.ver => Follows(i, reading[i].val, db.val, reading[i].figured)

\* The copy has what its isolate's writes on their way store, and later puts.
CopiesAhead ==
  \A p \in Put : InFlight(p) =>
    /\ Follows(write[p].by, mem[write[p].by], write[p].item,
               missed[write[p].by] \cup write[p].newer)
    /\ stage[p] = "written" =>
         /\ write[p].ver <= db.ver
         /\ write[p].ver = db.ver => db.val = write[p].item

Coupled == CopiesBehind /\ WritesBehind /\ ReadsBehind /\ CopiesAhead

StoreInv ==
  TypeOK /\ MadePutsHaveAuthors /\ ValuesAreMade /\ RowIsVersioned /\ (~blind => Coupled)

-----------------------------------------------------------------------------
\* Values and rows built from values and rows.

LEMMA NoValTyped ==
  /\ NoVal \in Val /\ NoRow \in Row /\ NoReading \in Reading
  /\ NoPromise \in [put : 0..MaxPuts, item : Val]
  /\ \A n \in Nat : NoVal \in KnownUpTo(n)
BY BoundAssumption DEF NoVal, NoRow, NoReading, NoPromise, Val, Row, Reading, Unput, KnownUpTo

LEMMA BlankTyped ==
  ASSUME NEW i \in Isolate \cup {Nobody}
  PROVE  Blank(i) \in Write /\ Blank(i).by = i /\ Blank(i).item = NoVal
BY NoValTyped, BoundAssumption DEF Blank, Write

LEMMA StampTyped ==
  ASSUME TypeOK, NEW expected \in Nat
  PROVE  Stamp(expected) \in Nat \ {0} /\ Stamp(expected) > expected
BY BoundAssumption DEF TypeOK, Stamp

LEMMA MergeTyped ==
  ASSUME TypeOK, NEW p \in Put, NEW val \in Val
  PROVE  Merge(p, val) \in Val
BY DEF TypeOK, Merge, Val, Write

LEMMA MergeMade ==
  ASSUME NEW p \in Put, NEW n \in Nat, NEW val \in KnownUpTo(n), write[p].item \in KnownUpTo(n)
  PROVE  Merge(p, val) \in KnownUpTo(n)
BY DEF Merge, KnownUpTo

LEMMA KnownGrows ==
  ASSUME NEW n \in Nat, NEW val \in KnownUpTo(n)
  PROVE  val \in KnownUpTo(n + 1)
BY DEF KnownUpTo

\* What a put does to the writes.
LEMMA SendTyped ==
  ASSUME TypeOK, NEW i \in Isolate, NEW fields \in SUBSET Field, NEW item \in Val,
         NEW expected \in Nat, NEW older \in SUBSET Field,
         Send(i, fields, item, expected, older)
  PROVE  /\ made' \in 0..MaxPuts /\ made' = made + 1 /\ made + 1 \in Put
         /\ mem' = [mem EXCEPT ![i] = item]
         /\ mem' \in [Isolate -> Val]
         /\ write' \in [Put -> Write]
         /\ stage' \in [Put -> Stages]
         /\ write'[made + 1].by = i
         /\ write'[made + 1].item = item
         /\ write'[made + 1].expected = expected
         /\ write'[made + 1].older = older
         /\ write'[made + 1].newer = {}
         /\ stage'[made + 1] = "send"
         /\ \A p \in Put : p # made + 1 => write'[p] = write[p] /\ stage'[p] = stage[p]
<1> USE BoundAssumption DEF Send, TypeOK
<1>1. made' \in 0..MaxPuts /\ made + 1 \in Put /\ mem' \in [Isolate -> Val]
  BY DEF Put
<1>2. [by |-> i, fields |-> fields, item |-> item, expected |-> expected,
       try |-> 0, ver |-> 0, older |-> older, newer |-> {}] \in Write
  BY DEF Write
<1>3. QED
  BY <1>1, <1>2 DEF Stages

\* What the steps of a write do to the writes.
LEMMA RetryTyped ==
  ASSUME TypeOK, NEW p \in Put, NEW fields \in SUBSET Field, NEW item \in Val,
         NEW expected \in Nat, NEW older \in SUBSET Field, NEW newer \in SUBSET Field,
         Retry(p, fields, item, expected, older, newer), write[p].try < MaxRetries
  PROVE  /\ write' \in [Put -> Write]
         /\ stage' \in [Put -> Stages]
         /\ write'[p].by = write[p].by
         /\ write'[p].item = item
         /\ write'[p].expected = expected
         /\ write'[p].older = older
         /\ write'[p].newer = newer
         /\ stage'[p] = "send"
         /\ \A q \in Put : q # p => write'[q] = write[q] /\ stage'[q] = stage[q]
<1> USE BoundAssumption DEF Retry, TypeOK
<1>1. [by |-> write[p].by, fields |-> fields, item |-> item, expected |-> expected,
       try |-> write[p].try + 1, ver |-> 0, older |-> older, newer |-> newer] \in Write
  BY DEF Write
<1>2. write' \in [Put -> Write] /\ stage' \in [Put -> Stages]
  BY <1>1 DEF Stages
<1>3. QED
  BY <1>2

\* The merge after a read, and after a read that failed.
LEMMA RereadTyped ==
  ASSUME TypeOK, MadePutsHaveAuthors, NEW p \in Put, Reread(p)
  PROVE  /\ write' \in [Put -> Write]
         /\ stage' \in [Put -> Stages]
         /\ stage[p] = "reread" /\ stage'[p] = "send"
         /\ write'[p].by = write[p].by
         /\ write'[p].item = Merge(p, db.val)
         /\ write'[p].expected = db.ver
         /\ write'[p].older =
              {f \in write[p].fields : write[p].item[f] # db.val[f] /\ write[p].item[f] # p}
         /\ write'[p].newer = write[p].newer
              \cup (Lagging(write[p].by, write[p].item, db.val) \ write[p].fields)
         /\ \A q \in Put : q # p => write'[q] = write[q] /\ stage'[q] = stage[q]
<1> DEFINE fields == {f \in write[p].fields : write[p].item[f] # db.val[f]}
           older  == {f \in fields : write[p].item[f] # p}
           newer  == write[p].newer
                       \cup (Lagging(write[p].by, write[p].item, db.val) \ write[p].fields)
<1>1. write[p] \in Write /\ db.ver \in Nat /\ db.val \in Val
  BY DEF TypeOK, Row
<1>2. fields \in SUBSET Field /\ older \in SUBSET Field /\ newer \in SUBSET Field
  BY <1>1 DEF Write, Lagging
<1>3. Merge(p, db.val) \in Val
  BY <1>1, MergeTyped
<1>4. /\ stage[p] = "reread" /\ write[p].try < MaxRetries
      /\ Retry(p, fields, Merge(p, db.val), db.ver, older, newer)
  BY DEF Reread, MadePutsHaveAuthors
<1> HIDE DEF fields, older, newer
<1>5. /\ write' \in [Put -> Write]
      /\ stage' \in [Put -> Stages]
      /\ write'[p].by = write[p].by
      /\ write'[p].item = Merge(p, db.val)
      /\ write'[p].expected = db.ver
      /\ write'[p].older = older
      /\ write'[p].newer = newer
      /\ stage'[p] = "send"
      /\ \A q \in Put : q # p => write'[q] = write[q] /\ stage'[q] = stage[q]
  BY <1>1, <1>2, <1>3, <1>4, RetryTyped
<1>6. older = {f \in write[p].fields : write[p].item[f] # db.val[f] /\ write[p].item[f] # p}
  BY DEF older, fields
<1>7. QED
  BY <1>4, <1>5, <1>6 DEF newer

LEMMA RereadFailsTyped ==
  ASSUME TypeOK, MadePutsHaveAuthors, NEW p \in Put, RereadFails(p)
  PROVE  /\ write' \in [Put -> Write]
         /\ stage' \in [Put -> Stages]
         /\ stage[p] = "reread" /\ stage'[p] = "send"
         /\ write'[p].by = write[p].by
         /\ write'[p].item = Merge(p, NoVal)
         /\ write'[p].expected = 0
         /\ write'[p].older = Field
         /\ write'[p].newer = Field
         /\ \A q \in Put : q # p => write'[q] = write[q] /\ stage'[q] = stage[q]
<1>1. Merge(p, NoVal) \in Val /\ write[p].fields \in SUBSET Field
  BY MergeTyped, NoValTyped DEF TypeOK, Write
<1>2. /\ stage[p] = "reread" /\ write[p].try < MaxRetries
      /\ Retry(p, write[p].fields, Merge(p, NoVal), 0, Field, Field)
  BY DEF RereadFails, MadePutsHaveAuthors
<1>3. 0 \in Nat /\ Field \in SUBSET Field
  OBVIOUS
<1> DEFINE all == Field
<1>4. all = Field /\ all \in SUBSET Field
  BY <1>3
<1>5. Retry(p, write[p].fields, Merge(p, NoVal), 0, all, all)
  BY <1>2
<1> HIDE DEF all
<1>6. /\ write' \in [Put -> Write]
      /\ stage' \in [Put -> Stages]
      /\ write'[p].by = write[p].by
      /\ write'[p].item = Merge(p, NoVal)
      /\ write'[p].expected = 0
      /\ write'[p].older = all
      /\ write'[p].newer = all
      /\ stage'[p] = "send"
      /\ \A q \in Put : q # p => write'[q] = write[q] /\ stage'[q] = stage[q]
  BY <1>1, <1>2, <1>3, <1>4, <1>5, RetryTyped
<1>7. QED
  BY <1>2, <1>4, <1>6

LEMMA WriteStepTyped ==
  ASSUME TypeOK, MadePutsHaveAuthors, NEW p \in Put,
         Land(p) \/ LandReplyLost(p) \/ Reject(p) \/ Defer(p) \/ Reread(p) \/ RereadFails(p)
           \/ Settle(p)
  PROVE  /\ write' \in [Put -> Write]
         /\ stage' \in [Put -> Stages]
         /\ write'[p].by = write[p].by
         /\ stage[p] # "unmade" /\ stage'[p] # "unmade"
         /\ stage'[p] = "reread" => write'[p].try < MaxRetries
         /\ \A q \in Put : q # p => write'[q] = write[q] /\ stage'[q] = stage[q]
<1>w. write[p] \in Write
  BY DEF TypeOK
<1>1. CASE Land(p) \/ Reject(p)
  <2>1. Stamp(write[p].expected) \in Nat
    BY <1>w, StampTyped DEF Write
  <2>2. write' = [write EXCEPT ![p].ver = Stamp(write[p].expected)] /\ stage[p] = "send"
    BY <1>1 DEF Land, Reject
  <2>3. /\ write' \in [Put -> Write]
        /\ write'[p].by = write[p].by /\ write'[p].try = write[p].try
        /\ \A q \in Put : q # p => write'[q] = write[q]
    BY <1>w, <2>1, <2>2 DEF Write, TypeOK
  <2>4. /\ stage' \in [Put -> Stages]
        /\ stage'[p] # "unmade"
        /\ stage'[p] = "reread" => write[p].try < MaxRetries
        /\ \A q \in Put : q # p => stage'[q] = stage[q]
    BY <1>1 DEF Land, Reject, Stages, TypeOK
  <2>5. QED
    BY <2>2, <2>3, <2>4
<1>2. CASE LandReplyLost(p) \/ Defer(p)
  BY <1>2 DEF LandReplyLost, Defer, Stages, TypeOK
<1>3. CASE Reread(p)
  BY <1>3, RereadTyped
<1>4. CASE RereadFails(p)
  BY <1>4, RereadFailsTyped
<1>5. CASE Settle(p)
  <2>1. write[p].by \in Isolate
    BY <1>5, <1>w DEF Settle, Write, MadePutsHaveAuthors
  <2>2. QED
    BY <1>5, <2>1, BlankTyped DEF Settle, Stages, TypeOK
<1>6. QED
  BY <1>1, <1>2, <1>3, <1>4, <1>5

LEMMA InitTyped == Init => TypeOK /\ MadePutsHaveAuthors /\ ValuesAreMade
<1> SUFFICES ASSUME Init
             PROVE  TypeOK /\ MadePutsHaveAuthors /\ ValuesAreMade
  OBVIOUS
<1>1. Blank(Nobody) \in Write /\ Blank(Nobody).by = Nobody /\ Blank(Nobody).item = NoVal
  BY BlankTyped
<1>2. write \in [Put -> Write] /\ stage \in [Put -> Stages]
  BY <1>1 DEF Init, Stages
<1>a. db \in Row /\ mem \in [Isolate -> Val] /\ reading \in [Isolate -> Reading]
  BY NoValTyped DEF Init
<1>b. promised \in [Isolate -> [put : 0..MaxPuts, item : Val]]
  BY NoValTyped DEF Init
<1>c. made \in 0..MaxPuts /\ clock \in 1..MaxClock /\ faults \in 0..MaxFaults
  BY BoundAssumption DEF Init
<1>3. TypeOK
  BY <1>2, <1>a, <1>b, <1>c DEF Init, TypeOK
<1>4. MadePutsHaveAuthors
  BY <1>1 DEF Init, MadePutsHaveAuthors
<1>5. ValuesAreMade
  BY <1>1, NoValTyped DEF Init, NoRow, NoReading, NoPromise, ValuesAreMade
<1>6. QED
  BY <1>3, <1>4, <1>5

-----------------------------------------------------------------------------
\* A put of one field: what PutField and Reapply hand to Send is typed.
LEMMA PutFieldTyped ==
  ASSUME TypeOK, NEW i \in Isolate, NEW f \in Field, PutField(i, f)
  PROVE  /\ [mem[i] EXCEPT ![f] = made + 1] \in Val
         /\ {f} \in SUBSET Field
         /\ versions[i] \in Nat
         /\ missed[i] \in SUBSET Field
         /\ made + 1 \in Put
BY BoundAssumption DEF TypeOK, PutField, Send, Val, Unput, Put

\* What Reapply does, whether it writes or not.
LEMMA ReapplyTyped ==
  ASSUME TypeOK, NEW i \in Isolate, Reapply(i)
  PROVE  /\ missed' \in [Isolate -> SUBSET Field]
         /\ missed' = [missed EXCEPT ![i] = missed[i]
              \cup Lagging(i, promised[i].item, mem[i])
              \cup Lagging(i, promised[i].item, db.val)]
         /\ mem' = [mem EXCEPT ![i] = promised[i].item]
         /\ \/ UNCHANGED <<mem, write, stage, made>>
            \/ \E fields \in SUBSET Field :
                 Send(i, fields, promised[i].item, db.ver, missed'[i])
<1>1. promised[i].item \in Val /\ mem \in [Isolate -> Val] /\ missed \in [Isolate -> SUBSET Field]
  BY DEF TypeOK
<1>2. missed' = [missed EXCEPT ![i] = missed[i]
              \cup Lagging(i, promised[i].item, mem[i])
              \cup Lagging(i, promised[i].item, db.val)]
  BY <1>1 DEF Reapply
<1>3. missed' \in [Isolate -> SUBSET Field]
  BY <1>1, <1>2 DEF Lagging
<1>4. CASE mem[i] = promised[i].item
  <2>1. UNCHANGED <<mem, write, stage, made>>
    BY <1>4 DEF Reapply
  <2>2. mem' = [mem EXCEPT ![i] = promised[i].item]
    BY <1>1, <1>4, <2>1
  <2>3. QED
    BY <1>2, <1>3, <2>1, <2>2
<1>5. CASE mem[i] # promised[i].item
  <2>1. PICK fields \in SUBSET Field : Send(i, fields, promised[i].item, db.ver, missed'[i])
    BY <1>5 DEF Reapply
  <2>2. mem' = [mem EXCEPT ![i] = promised[i].item]
    BY <2>1 DEF Send
  <2>3. QED
    BY <1>2, <1>3, <2>1, <2>2
<1>6. QED
  BY <1>4, <1>5

\* What an isolate reads of the row.
LEMMA ReadTyped ==
  ASSUME TypeOK, NEW i \in Isolate, Sync(i) \/ Hydrate(i)
  PROVE  \E r \in Reading :
           /\ reading' = [reading EXCEPT ![i] = r]
           /\ r.ver = db.ver
           /\ \A f \in Field : r.val[f] = IF f \in r.figured THEN Unput ELSE db.val[f]
<1>1. db.ver \in Nat /\ db.val \in Val
  BY DEF TypeOK, Row
<1>2. CASE Sync(i)
  <2>1. [ver |-> db.ver, val |-> db.val, figured |-> {}] \in Reading
    BY <1>1 DEF Reading
  <2>2. QED
    BY <1>2, <2>1 DEF Sync
<1>3. CASE Hydrate(i)
  <2>1. PICK figured \in SUBSET Derived :
          reading' = [reading EXCEPT ![i] =
            [ver |-> db.ver,
             val |-> [f \in Field |-> IF f \in figured THEN Unput ELSE db.val[f]],
             figured |-> figured]]
    BY <1>3 DEF Hydrate
  <2>2. [f \in Field |-> IF f \in figured THEN Unput ELSE db.val[f]] \in Val
    BY <1>1, BoundAssumption DEF Val, Unput
  <2>3. [ver |-> db.ver,
         val |-> [f \in Field |-> IF f \in figured THEN Unput ELSE db.val[f]],
         figured |-> figured] \in Reading
    BY <1>1, <2>2 DEF Reading
  <2>4. QED
    BY <2>1, <2>3
<1>4. QED
  BY <1>2, <1>3

-----------------------------------------------------------------------------
\* Types, and authors and values of puts, step by step.

LEMMA TypeStep ==
  TypeOK /\ MadePutsHaveAuthors /\ [Next]_vars => TypeOK' /\ MadePutsHaveAuthors'
<1> SUFFICES ASSUME TypeOK, MadePutsHaveAuthors, [Next]_vars
             PROVE  TypeOK' /\ MadePutsHaveAuthors'
  OBVIOUS
<1> USE NobodyAssumption, BoundAssumption, NoValTyped
<1>1. ASSUME NEW i \in Isolate, NEW f \in Field, PlainPut(i, f) \/ PutDurable(i, f)
      PROVE  TypeOK' /\ MadePutsHaveAuthors'
  <2>1. PutField(i, f)
    BY <1>1 DEF PlainPut, PutDurable
  <2>2. PICK item \in Val, expected \in Nat, older \in SUBSET Field :
          Send(i, {f}, item, expected, older)
    BY <2>1, PutFieldTyped DEF PutField
  <2>3. {f} \in SUBSET Field
    OBVIOUS
  <2>4. promised' \in [Isolate -> [put : 0..MaxPuts, item : Val]]
    <3>0. mem' \in [Isolate -> Val] /\ made + 1 \in Put
      BY <2>2, <2>3, SendTyped
    <3>1. mem'[i] \in Val /\ made + 1 \in 0..MaxPuts
      BY <3>0 DEF Put
    <3>2. [put |-> made + 1, item |-> mem'[i]] \in [put : 0..MaxPuts, item : Val]
      BY <3>1
    <3>3. QED
      BY <1>1, <3>2 DEF PlainPut, PutDurable, TypeOK
  <2>5. TypeOK'
    <3>1. made' \in 0..MaxPuts /\ mem' \in [Isolate -> Val] /\ write' \in [Put -> Write]
            /\ stage' \in [Put -> Stages]
      BY <2>2, <2>3, SendTyped
    <3>2. QED
      BY <2>1, <2>4, <3>1 DEF PutField, TypeOK
  <2>6. MadePutsHaveAuthors'
    BY <2>2, <2>3, SendTyped DEF Send, TypeOK, Put, MadePutsHaveAuthors
  <2>7. QED
    BY <2>5, <2>6
<1>2. ASSUME NEW i \in Isolate, Confirm(i) \/ ConfirmUnread(i)
      PROVE  TypeOK' /\ MadePutsHaveAuthors'
  <2>1. TypeOK'
    BY <1>2 DEF Confirm, ConfirmUnread, Returns, Fault, TypeOK
  <2>2. MadePutsHaveAuthors'
    BY <1>2 DEF Confirm, ConfirmUnread, MadePutsHaveAuthors
  <2>3. QED
    BY <2>1, <2>2
<1>3. ASSUME NEW i \in Isolate, Reapply(i)
      PROVE  TypeOK' /\ MadePutsHaveAuthors'
  <2>1. promised[i].item \in Val /\ db.ver \in Nat
    BY DEF TypeOK, Row
  <2>2. missed' \in [Isolate -> SUBSET Field] /\ missed'[i] \in SUBSET Field
    BY <1>3, ReapplyTyped
  <2>3. CASE UNCHANGED <<mem, write, stage, made>>
    <3>1. TypeOK'
      BY <1>3, <2>1, <2>2, <2>3 DEF Reapply, Returns, TypeOK
    <3>2. QED
      BY <2>3, <3>1 DEF MadePutsHaveAuthors
  <2>4. CASE \E fields \in SUBSET Field : Send(i, fields, promised[i].item, db.ver, missed'[i])
    <3>1. PICK fields \in SUBSET Field : Send(i, fields, promised[i].item, db.ver, missed'[i])
      BY <2>4
    <3>2. made' \in 0..MaxPuts /\ mem' \in [Isolate -> Val] /\ write' \in [Put -> Write]
            /\ stage' \in [Put -> Stages]
      BY <2>1, <2>2, <3>1, SendTyped
    <3>3. TypeOK'
      BY <1>3, <2>1, <2>2, <3>2 DEF Reapply, Returns, TypeOK
    <3>4. MadePutsHaveAuthors'
      BY <2>1, <2>2, <3>1, SendTyped DEF Send, TypeOK, Put, MadePutsHaveAuthors
    <3>5. QED
      BY <3>3, <3>4
  <2>5. QED
    BY <1>3, <2>3, <2>4, ReapplyTyped
<1>4. ASSUME NEW i \in Isolate, Sync(i) \/ Hydrate(i)
      PROVE  TypeOK' /\ MadePutsHaveAuthors'
  <2>1. reading' \in [Isolate -> Reading]
    BY <1>4, ReadTyped DEF TypeOK
  <2>2. TypeOK'
    BY <1>4, <2>1 DEF Sync, Hydrate, TypeOK
  <2>3. MadePutsHaveAuthors'
    BY <1>4 DEF Sync, Hydrate, MadePutsHaveAuthors
  <2>4. QED
    BY <2>2, <2>3
<1>5. ASSUME NEW i \in Isolate, Apply(i)
      PROVE  TypeOK' /\ MadePutsHaveAuthors'
  <2>1. reading[i] \in Reading
    BY DEF TypeOK
  <2>2. reading[i].val \in Val /\ reading[i].ver \in Nat /\ reading[i].figured \in SUBSET Field
    BY <2>1, DerivedAssumption DEF Reading
  <2>3. Overlooked(i) \in SUBSET Field
    BY <2>2 DEF Overlooked, Lagging
  <2>4. TypeOK'
    BY <1>5, <2>2, <2>3 DEF Apply, TypeOK
  <2>5. MadePutsHaveAuthors'
    BY <1>5 DEF Apply, MadePutsHaveAuthors
  <2>6. QED
    BY <2>4, <2>5
<1>6. ASSUME NEW i \in Isolate, Crash(i)
      PROVE  TypeOK' /\ MadePutsHaveAuthors'
  <2>1. write' \in [Put -> Write] /\ stage' \in [Put -> Stages]
    BY <1>6, BlankTyped DEF Crash, TypeOK, Stages
  <2>2. TypeOK'
    BY <1>6, <2>1 DEF Crash, Fault, TypeOK
  <2>3. MadePutsHaveAuthors'
    BY <1>6, BlankTyped DEF Crash, Pending, InFlight, MadePutsHaveAuthors
  <2>4. QED
    BY <2>2, <2>3
<1>7. ASSUME NEW p \in Put,
             Land(p) \/ LandReplyLost(p) \/ Reject(p) \/ Defer(p) \/ Reread(p) \/ RereadFails(p)
               \/ Settle(p)
      PROVE  TypeOK' /\ MadePutsHaveAuthors'
  <2>1. write[p] \in Write /\ Stamp(write[p].expected) \in Nat
    BY StampTyped DEF TypeOK, Write
  <2>2. write' \in [Put -> Write] /\ stage' \in [Put -> Stages]
    BY <1>7, WriteStepTyped
  <2>3. CASE Land(p) \/ LandReplyLost(p)
    <3>a. Store(p)
      BY <2>3 DEF Land, LandReplyLost
    <3>1. db' \in Row /\ blind' \in BOOLEAN
      BY <2>1, <3>a DEF Store, Row, Write, TypeOK
    <3>2. QED
      BY <2>2, <2>3, <3>1, <1>7, WriteStepTyped
         DEF Land, LandReplyLost, Fault, TypeOK, MadePutsHaveAuthors
  <2>4. CASE Reject(p) \/ Defer(p) \/ Reread(p) \/ RereadFails(p)
    <3>0. faults' \in 0..MaxFaults
      <4>1. faults \in 0..MaxFaults
        BY DEF TypeOK
      <4>2. UNCHANGED faults \/ Fault
        BY <2>4 DEF Reject, Defer, Reread, RereadFails
      <4>3. QED
        BY <4>1, <4>2 DEF Fault
    <3>1. UNCHANGED <<db, mem, versions, reading, made, promised, clock, missed, blind>>
      BY <2>4 DEF Reject, Defer, Reread, RereadFails, Fault, TypeOK
    <3>2. TypeOK'
      BY <2>2, <3>0, <3>1 DEF TypeOK
    <3>3. MadePutsHaveAuthors'
      BY <3>1, <1>7, WriteStepTyped DEF MadePutsHaveAuthors
    <3>4. QED
      BY <3>2, <3>3
  <2>5. CASE Settle(p)
    <3>1. versions' \in [Isolate -> Nat] /\ missed' \in [Isolate -> SUBSET Field]
      BY <2>1, <2>5 DEF Settle, TypeOK, Write
    <3>2. QED
      BY <2>2, <2>5, <3>1, <1>7, WriteStepTyped DEF Settle, TypeOK, MadePutsHaveAuthors
  <2>6. QED
    BY <1>7, <2>3, <2>4, <2>5
<1>8. CASE Tick \/ UNCHANGED vars
  <2>1. TypeOK'
    BY <1>8 DEF Tick, vars, TypeOK
  <2>2. MadePutsHaveAuthors'
    BY <1>8 DEF Tick, vars, MadePutsHaveAuthors
  <2>3. QED
    BY <2>1, <2>2
<1>9. QED
  BY <1>1, <1>2, <1>3, <1>4, <1>5, <1>6, <1>7, <1>8 DEF Next

\* EntityStore!TypeOK: the row, the copies and the writes keep their types; a
\* retry always has the whole row, and no write is tried more than it may be.
THEOREM TypeCorrect == Spec => []TypeOK
BY InitTyped, TypeStep, PTL DEF Spec

\* No step makes a value of a put that was not made.
LEMMA ValuesStep ==
  ASSUME TypeOK, MadePutsHaveAuthors, ValuesAreMade, [Next]_vars
  PROVE  ValuesAreMade'
<1> USE DEF ValuesAreMade
<1>k. \A val \in KnownUpTo(made) : val \in KnownUpTo(made + 1)
  BY KnownGrows DEF TypeOK
<1>n. NoVal \in KnownUpTo(made)
  BY NoValTyped DEF TypeOK
<1>1. ASSUME NEW i \in Isolate, NEW f \in Field, PlainPut(i, f) \/ PutDurable(i, f)
      PROVE  ValuesAreMade'
  <2>1. PutField(i, f)
    BY <1>1 DEF PlainPut, PutDurable
  <2>2. PICK item \in Val : item = [mem[i] EXCEPT ![f] = made + 1]
    BY <2>1, PutFieldTyped
  <2>3. item \in KnownUpTo(made + 1)
    BY <2>2 DEF KnownUpTo, TypeOK
  <2>4. /\ {f} \in SUBSET Field /\ versions[i] \in Nat /\ missed[i] \in SUBSET Field
        /\ Send(i, {f}, item, versions[i], missed[i])
    BY <2>1, <2>2, PutFieldTyped DEF PutField
  <2>5. /\ made' = made + 1
        /\ mem' = [mem EXCEPT ![i] = item]
        /\ write'[made + 1].item = item
        /\ \A p \in Put : p # made + 1 => write'[p] = write[p]
    BY <2>1, <2>4, PutFieldTyped DEF Send, TypeOK
  <2>6. db' = db /\ reading' = reading
    BY <2>1 DEF PutField
  <2>7. \A j \in Isolate : promised'[j].item \in {promised[j].item, item}
    BY <1>1, <2>5 DEF PlainPut, PutDurable, TypeOK
  <2>8. \A j \in Isolate : mem'[j] \in {mem[j], item}
    BY <2>5 DEF TypeOK
  <2>9. \A p \in Put : write'[p].item \in {write[p].item, item}
    BY <2>5
  <2>10. QED
    BY <1>k, <2>3, <2>5, <2>6, <2>7, <2>8, <2>9
<1>2. ASSUME NEW i \in Isolate, Confirm(i) \/ ConfirmUnread(i)
      PROVE  ValuesAreMade'
  <2>1. UNCHANGED <<db, mem, reading, write, made>> /\ Returns(i)
    BY <1>2 DEF Confirm, ConfirmUnread
  <2>2. \A j \in Isolate : promised'[j].item \in {promised[j].item, NoVal}
    BY <2>1 DEF Returns, NoPromise, TypeOK
  <2>3. QED
    BY <2>1, <2>2, <1>n
<1>3. ASSUME NEW i \in Isolate, Reapply(i)
      PROVE  ValuesAreMade'
  <2> DEFINE item == promised[i].item
  <2>1. item \in Val /\ db.ver \in Nat /\ item \in KnownUpTo(made)
    BY DEF TypeOK, Row
  <2>2. missed'[i] \in SUBSET Field /\ mem' = [mem EXCEPT ![i] = item]
    BY <1>3, ReapplyTyped
  <2>3. db' = db /\ reading' = reading
    BY <1>3 DEF Reapply
  <2>4. \A j \in Isolate : promised'[j].item \in {promised[j].item, NoVal}
    BY <1>3 DEF Reapply, Returns, NoPromise, TypeOK
  <2>5. \A j \in Isolate : mem'[j] \in {mem[j], item}
    BY <2>2 DEF TypeOK
  <2>6. CASE UNCHANGED <<mem, write, stage, made>>
    BY <1>n, <2>1, <2>3, <2>4, <2>5, <2>6
  <2>7. CASE \E fields \in SUBSET Field : Send(i, fields, item, db.ver, missed'[i])
    <3>1. PICK fields \in SUBSET Field : Send(i, fields, item, db.ver, missed'[i])
      BY <2>7
    <3>2. /\ made' = made + 1
          /\ write'[made + 1].item = item
          /\ \A p \in Put : p # made + 1 => write'[p] = write[p]
      BY <2>1, <2>2, <3>1, BoundAssumption DEF Send, TypeOK, Put
    <3>3. \A p \in Put : write'[p].item \in {write[p].item, item}
      BY <3>2
    <3>4. QED
      BY <1>k, <1>n, <2>1, <2>3, <2>4, <2>5, <3>2, <3>3
  <2>8. QED
    BY <1>3, <2>6, <2>7, ReapplyTyped
<1>4. ASSUME NEW i \in Isolate, Sync(i) \/ Hydrate(i)
      PROVE  ValuesAreMade'
  <2>1. UNCHANGED <<db, mem, write, promised, made>>
    BY <1>4 DEF Sync, Hydrate
  <2>2. PICK r \in Reading :
          /\ reading' = [reading EXCEPT ![i] = r]
          /\ \A f \in Field : r.val[f] = IF f \in r.figured THEN Unput ELSE db.val[f]
    BY <1>4, ReadTyped
  <2>3. r.val \in KnownUpTo(made)
    BY <2>2 DEF KnownUpTo, Reading, Val
  <2>4. \A j \in Isolate : reading'[j].val \in {reading[j].val, r.val}
    BY <2>2 DEF TypeOK
  <2>5. QED
    BY <2>1, <2>3, <2>4
<1>5. ASSUME NEW i \in Isolate, Apply(i) \/ Crash(i)
      PROVE  ValuesAreMade'
  <2>1. UNCHANGED <<db, made>>
    BY <1>5 DEF Apply, Crash
  <2>2. \A j \in Isolate : /\ mem'[j] \in {mem[j], reading[j].val, NoVal}
                           /\ reading'[j].val \in {reading[j].val, NoVal}
                           /\ promised'[j].item \in {promised[j].item, NoVal}
    BY <1>5 DEF Apply, Crash, NoReading, NoPromise, TypeOK
  <2>3. \A p \in Put : write'[p].item \in {write[p].item, NoVal}
    BY <1>5, BlankTyped DEF Apply, Crash
  <2>4. QED
    BY <2>1, <2>2, <2>3, <1>n
<1>6. ASSUME NEW p \in Put,
             Land(p) \/ LandReplyLost(p) \/ Reject(p) \/ Defer(p) \/ Reread(p) \/ RereadFails(p)
               \/ Settle(p)
      PROVE  ValuesAreMade'
  <2>1. UNCHANGED <<mem, reading, promised, made>>
    BY <1>6 DEF Land, LandReplyLost, Reject, Defer, Reread, RereadFails, Settle
  <2>2. db'.val \in {db.val, write[p].item}
    BY <1>6 DEF Land, LandReplyLost, Reject, Defer, Reread, RereadFails, Settle, Store
  <2>3. \A q \in Put : q # p => write'[q] = write[q]
    BY <1>6, WriteStepTyped
  <2>4. write'[p].item \in {write[p].item, Merge(p, db.val), Merge(p, NoVal), NoVal}
    <3>1. CASE Land(p) \/ LandReplyLost(p) \/ Reject(p) \/ Defer(p)
      <4>1. write[p] \in Write
        BY DEF TypeOK
      <4>2. write'[p].item = write[p].item
        BY <3>1, <4>1 DEF Land, LandReplyLost, Reject, Defer, TypeOK, Write
      <4>3. QED
        BY <4>2
    <3>2. CASE Reread(p) \/ RereadFails(p)
      BY <3>2, RereadTyped, RereadFailsTyped
    <3>3. CASE Settle(p)
      <4>1. write[p].by \in Isolate \cup {Nobody}
        BY DEF TypeOK, Write
      <4>2. QED
        BY <3>3, <4>1, BlankTyped DEF Settle, TypeOK
    <3>4. QED
      BY <1>6, <3>1, <3>2, <3>3
  <2>5. Merge(p, db.val) \in KnownUpTo(made) /\ Merge(p, NoVal) \in KnownUpTo(made)
    BY <1>n, MergeMade DEF TypeOK
  <2>6. write'[p].item \in KnownUpTo(made)
    BY <2>4, <2>5, <1>n
  <2>7. QED
    BY <2>1, <2>2, <2>3, <2>6
<1>7. CASE Tick \/ UNCHANGED vars
  BY <1>7 DEF Tick, vars
<1>8. QED
  BY <1>1, <1>2, <1>3, <1>4, <1>5, <1>6, <1>7 DEF Next

-----------------------------------------------------------------------------
\* Authors do not change: what was put later by i stays put later by i.

\* The author of a made put is fixed.
AuthorsKept == \A p \in Put : write[p].by # Nobody => write'[p].by = write[p].by

LEMMA AuthorsStep == TypeOK /\ MadePutsHaveAuthors /\ [Next]_vars => AuthorsKept
<1> SUFFICES ASSUME TypeOK, MadePutsHaveAuthors, [Next]_vars
             PROVE  AuthorsKept
  OBVIOUS
<1>1. ASSUME NEW i \in Isolate, NEW f \in Field, PlainPut(i, f) \/ PutDurable(i, f)
      PROVE  AuthorsKept
  <2>1. made + 1 \notin {p \in Put : write[p].by # Nobody}
    BY DEF MadePutsHaveAuthors, TypeOK
  <2>2. \A p \in Put : p # made + 1 => write'[p] = write[p]
    BY <1>1 DEF PlainPut, PutDurable, PutField, Send, TypeOK
  <2>3. QED
    BY <2>1, <2>2 DEF AuthorsKept
<1>2. ASSUME NEW i \in Isolate, Reapply(i)
      PROVE  AuthorsKept
  <2>1. made + 1 \notin {p \in Put : write[p].by # Nobody}
    BY DEF MadePutsHaveAuthors, TypeOK
  <2>2. \A p \in Put : p # made + 1 => write'[p] = write[p]
    BY <1>2 DEF Reapply, Send, TypeOK
  <2>3. QED
    BY <2>1, <2>2 DEF AuthorsKept
<1>3. ASSUME NEW i \in Isolate, Crash(i)
      PROVE  AuthorsKept
  BY <1>3, BlankTyped DEF Crash, Pending, AuthorsKept
<1>4. ASSUME NEW p \in Put,
             Land(p) \/ LandReplyLost(p) \/ Reject(p) \/ Defer(p) \/ Reread(p) \/ RereadFails(p)
               \/ Settle(p)
      PROVE  AuthorsKept
  BY <1>4, WriteStepTyped DEF AuthorsKept
<1>5. ASSUME NEW i \in Isolate,
             Confirm(i) \/ ConfirmUnread(i) \/ Sync(i) \/ Hydrate(i) \/ Apply(i)
      PROVE  AuthorsKept
  BY <1>5 DEF Confirm, ConfirmUnread, Sync, Hydrate, Apply, AuthorsKept
<1>6. CASE Tick \/ UNCHANGED vars
  BY <1>6 DEF Tick, vars, AuthorsKept
<1>7. QED
  BY <1>1, <1>2, <1>3, <1>4, <1>5, <1>6 DEF Next

\* UpToOwn and Follows, with the authors known after the step.
UpToOwnNext(i, v, w) ==
  \/ v = w
  \/ v \in Put /\ write'[v].by = i /\ (w \in Put => w < v)

FollowsNext(i, val, base, but) == \A f \in Field \ but : UpToOwnNext(i, val[f], base[f])

LEMMA UpToOwnKept ==
  ASSUME AuthorsKept, NEW i \in Isolate, NEW v, NEW w, UpToOwn(i, v, w)
  PROVE  UpToOwnNext(i, v, w)
BY NobodyAssumption DEF AuthorsKept, UpToOwn, UpToOwnNext

LEMMA FollowsKept ==
  ASSUME AuthorsKept, NEW i \in Isolate, NEW val, NEW base, NEW but, Follows(i, val, base, but)
  PROVE  FollowsNext(i, val, base, but)
BY UpToOwnKept DEF Follows, FollowsNext

LEMMA UpToOwnTransitive ==
  ASSUME NEW i, NEW u, NEW v, NEW w, UpToOwn(i, u, v), UpToOwn(i, v, w)
  PROVE  UpToOwn(i, u, w)
BY BoundAssumption DEF UpToOwn, Put

LEMMA FollowsSelf ==
  ASSUME NEW i, NEW val, NEW but
  PROVE  Follows(i, val, val, but) /\ FollowsNext(i, val, val, but)
BY DEF Follows, FollowsNext, UpToOwn, UpToOwnNext

\* The next put is later than all that is known.
LEMMA FollowsPut ==
  ASSUME TypeOK, AuthorsKept, NEW i \in Isolate, NEW val \in Val, NEW base \in KnownUpTo(made),
         NEW but, NEW g \in Field, NEW item, item = [val EXCEPT ![g] = made + 1],
         Follows(i, val, base, but), made + 1 \in Put, write'[made + 1].by = i
  PROVE  FollowsNext(i, item, base, but)
<1>1. FollowsNext(i, val, base, but)
  BY FollowsKept
<1>2. base[g] \in Put => base[g] < made + 1
  <2>1. base[g] \in (0..made) \cup {Unput}
    BY DEF KnownUpTo
  <2>2. made \in 0..MaxPuts
    BY DEF TypeOK
  <2>3. QED
    BY <2>1, <2>2, BoundAssumption DEF Put, Unput
<1>3. UpToOwnNext(i, made + 1, base[g])
  BY <1>2 DEF UpToOwnNext
<1>4. QED
  BY <1>1, <1>3 DEF FollowsNext, Val

-----------------------------------------------------------------------------
\* Storing a row gives it a version D1 never had.
LEMMA StoreGrows ==
  ASSUME TypeOK, RowIsVersioned, NEW p \in Put, Accepted(p), Store(p), ~blind'
  PROVE  db'.ver \in Nat /\ db'.ver > db.ver /\ db'.val = write[p].item
<1>1. write[p].expected \in Nat /\ db.ver \in Nat
  BY DEF TypeOK, Write, Row
<1>2. Stamp(write[p].expected) \in Nat \ {0} /\ Stamp(write[p].expected) > write[p].expected
  BY <1>1, StampTyped
<1>3. db'.ver = Stamp(write[p].expected) /\ db'.val = write[p].item
  BY DEF Store
<1>4. CASE write[p].expected = db.ver
  BY <1>1, <1>2, <1>3, <1>4
<1>5. CASE write[p].expected = 0 /\ db.ver # 0
  <2>1. db = NoRow
    BY <1>5 DEF Store, TypeOK
  <2>2. QED
    BY <1>5, <2>1 DEF NoRow
<1>6. QED
  BY <1>4, <1>5 DEF Accepted

LEMMA VersionedStep == TypeOK /\ RowIsVersioned /\ [Next]_vars => RowIsVersioned'
<1> SUFFICES ASSUME TypeOK, RowIsVersioned, [Next]_vars
             PROVE  RowIsVersioned'
  OBVIOUS
<1>1. ASSUME NEW p \in Put, Land(p) \/ LandReplyLost(p)
      PROVE  RowIsVersioned'
  <2>1. write[p].expected \in Nat
    BY DEF TypeOK, Write
  <2>2. Stamp(write[p].expected) # 0
    BY <2>1, StampTyped
  <2>3. QED
    BY <1>1, <2>2 DEF Land, LandReplyLost, Store, RowIsVersioned
<1>2. CASE UNCHANGED db
  BY <1>2 DEF RowIsVersioned
<1>3. QED
  BY <1>1, <1>2 DEF Next, vars, PlainPut, PutDurable, PutField, Confirm, ConfirmUnread, Reapply,
     Sync, Hydrate, Apply, Crash, Reject, Defer, Reread, RereadFails, Settle, Tick

-----------------------------------------------------------------------------
\* The coupling of versions and rows is kept, one lemma for each group of actions.

\* What a version vouches for, one copy and one write at a time, after the step.
CopyBehindNext(i) ==
  missed'[i] # Field =>
    /\ versions'[i] <= db'.ver
    /\ versions'[i] # 0 /\ versions'[i] = db'.ver => FollowsNext(i, mem'[i], db'.val, missed'[i])

WriteBehindNext(p) ==
  stage'[p] = "send" /\ write'[p].expected # 0 /\ write'[p].older # Field =>
    /\ write'[p].expected <= db'.ver
    /\ write'[p].expected = db'.ver =>
         \A f \in Field \ write'[p].older :
           \/ write'[p].item[f] = p
           \/ UpToOwnNext(write'[p].by, write'[p].item[f], db'.val[f])

ReadBehindNext(i) ==
  reading'[i] # NoReading =>
    /\ reading'[i].ver # 0
    /\ reading'[i].ver <= db'.ver
    /\ reading'[i].ver = db'.ver =>
         FollowsNext(i, reading'[i].val, db'.val, reading'[i].figured)

CopyAheadNext(p) ==
  stage'[p] \notin {"unmade", "settled"} =>
    /\ FollowsNext(write'[p].by, mem'[write'[p].by], write'[p].item,
                   missed'[write'[p].by] \cup write'[p].newer)
    /\ stage'[p] = "written" =>
         /\ write'[p].ver <= db'.ver
         /\ write'[p].ver = db'.ver => db'.val = write'[p].item

LEMMA CoupledNext ==
  ASSUME \A i \in Isolate : CopyBehindNext(i) /\ ReadBehindNext(i),
         \A p \in Put : WriteBehindNext(p) /\ CopyAheadNext(p)
  PROVE  Coupled'
<1>1. CopiesBehind'
  BY DEF CopyBehindNext, CopiesBehind, Follows, UpToOwn, FollowsNext, UpToOwnNext
<1>2. ReadsBehind'
  BY DEF ReadBehindNext, ReadsBehind, Follows, UpToOwn, FollowsNext, UpToOwnNext
<1>3. WritesBehind'
  BY DEF WriteBehindNext, WritesBehind, Vouched, UpToOwn, UpToOwnNext
<1>4. CopiesAhead'
  BY DEF CopyAheadNext, CopiesAhead, InFlight, Follows, UpToOwn, FollowsNext, UpToOwnNext
<1>5. QED
  BY <1>1, <1>2, <1>3, <1>4 DEF Coupled

\* What a step leaves alone stays coupled.
LEMMA CopyBehindKept ==
  ASSUME TypeOK, Coupled, AuthorsKept, NEW i \in Isolate, db' = db,
         mem'[i] = mem[i], versions'[i] = versions[i], missed'[i] = missed[i]
  PROVE  CopyBehindNext(i)
BY FollowsKept DEF Coupled, CopiesBehind, CopyBehindNext

LEMMA ReadBehindKept ==
  ASSUME TypeOK, Coupled, AuthorsKept, NEW i \in Isolate, db' = db, reading'[i] = reading[i]
  PROVE  ReadBehindNext(i)
BY FollowsKept DEF Coupled, ReadsBehind, ReadBehindNext

LEMMA AuthorIsIsolate ==
  ASSUME TypeOK, MadePutsHaveAuthors, NEW p \in Put, stage[p] # "unmade"
  PROVE  write[p].by \in Isolate
BY DEF TypeOK, MadePutsHaveAuthors, Write

LEMMA WriteBehindKept ==
  ASSUME TypeOK, MadePutsHaveAuthors, Coupled, AuthorsKept, NEW p \in Put, db' = db,
         stage'[p] = "send" => write'[p] = write[p] /\ stage[p] = "send"
  PROVE  WriteBehindNext(p)
<1> SUFFICES ASSUME stage'[p] = "send", write'[p].expected # 0, write'[p].older # Field
             PROVE  WriteBehindNext(p)
  BY DEF WriteBehindNext
<1>1. write[p].by \in Isolate
  BY AuthorIsIsolate
<1>2. \A f \in Field : UpToOwn(write[p].by, write[p].item[f], db.val[f])
                         => UpToOwnNext(write[p].by, write[p].item[f], db.val[f])
  BY <1>1, UpToOwnKept
<1>3. QED
  BY <1>2 DEF Coupled, WritesBehind, Vouched, WriteBehindNext

\* The copy may miss more than before.
LEMMA CopyAheadKept ==
  ASSUME TypeOK, MadePutsHaveAuthors, Coupled, AuthorsKept, NEW p \in Put, db' = db,
         write'[p] = write[p] /\ stage'[p] = stage[p],
         stage[p] \notin {"unmade", "settled"} =>
           /\ mem'[write[p].by] = mem[write[p].by]
           /\ missed[write[p].by] \subseteq missed'[write[p].by]
  PROVE  CopyAheadNext(p)
<1> SUFFICES ASSUME stage[p] \notin {"unmade", "settled"}
             PROVE  CopyAheadNext(p)
  BY DEF CopyAheadNext
<1>1. write[p].by \in Isolate
  BY AuthorIsIsolate
<1> DEFINE i == write[p].by
<1>2. Follows(i, mem[i], write[p].item, missed[i] \cup write[p].newer)
  BY DEF Coupled, CopiesAhead, InFlight
<1>3. FollowsNext(i, mem[i], write[p].item, missed[i] \cup write[p].newer)
  BY <1>1, <1>2, FollowsKept
<1>4. FollowsNext(i, mem'[i], write[p].item, missed'[i] \cup write[p].newer)
  BY <1>3 DEF FollowsNext
<1>5. stage[p] = "written" =>
        /\ write[p].ver <= db.ver
        /\ write[p].ver = db.ver => db.val = write[p].item
  BY DEF Coupled, CopiesAhead, InFlight
<1>6. QED
  BY <1>4, <1>5 DEF CopyAheadNext

\* A write sent with all the values known before it: what Send leaves coupled.
LEMMA SendKeepsCoupled ==
  ASSUME StoreInv, Coupled, AuthorsKept, NEW i \in Isolate, NEW fields \in SUBSET Field,
         NEW item \in Val, NEW expected \in Nat,
         missed' \in [Isolate -> SUBSET Field], missed[i] \subseteq missed'[i],
         \A j \in Isolate : j # i => versions'[j] = versions[j] /\ missed'[j] = missed[j],
         Send(i, fields, item, expected, missed'[i]),
         db' = db, reading' = reading, versions'[i] = expected,
         CopyBehindNext(i),
         \A p \in Put : InFlight(p) /\ write[p].by = i =>
           FollowsNext(i, item, write[p].item, missed'[i] \cup write[p].newer)
  PROVE  Coupled'
<1> USE DEF StoreInv
<1>1. made + 1 \in Put /\ mem' = [mem EXCEPT ![i] = item]
  BY BoundAssumption DEF Send, TypeOK, Put
<1>2. /\ write'[made + 1].by = i
      /\ write'[made + 1].item = item
      /\ write'[made + 1].expected = expected
      /\ write'[made + 1].older = missed'[i]
      /\ stage'[made + 1] = "send"
      /\ \A p \in Put : p # made + 1 => write'[p] = write[p] /\ stage'[p] = stage[p]
  BY <1>1 DEF Send, TypeOK
<1>3. mem'[i] = item /\ \A j \in Isolate : j # i => mem'[j] = mem[j]
  BY <1>1 DEF TypeOK
<1>4. \A j \in Isolate : CopyBehindNext(j)
  BY <1>3, CopyBehindKept
<1>5. \A j \in Isolate : ReadBehindNext(j)
  BY ReadBehindKept
<1>6. \A p \in Put : WriteBehindNext(p)
  <2> TAKE p \in Put
  <2>1. CASE p # made + 1
    BY <2>1, <1>2, WriteBehindKept
  <2>2. CASE p = made + 1
    BY <2>2, <1>1, <1>2, <1>3 DEF CopyBehindNext, WriteBehindNext, FollowsNext
  <2>3. QED
    BY <2>1, <2>2
<1>7. \A p \in Put : CopyAheadNext(p)
  <2> TAKE p \in Put
  <2>1. CASE p = made + 1
    BY <2>1, <1>2, <1>3, FollowsSelf DEF CopyAheadNext
  <2>2. CASE p # made + 1 /\ write[p].by # i
    <3>1. write'[p] = write[p] /\ stage'[p] = stage[p]
      BY <2>2, <1>2
    <3>2. stage[p] \notin {"unmade", "settled"} =>
            mem'[write[p].by] = mem[write[p].by] /\ missed'[write[p].by] = missed[write[p].by]
      BY <2>2, <1>3, AuthorIsIsolate
    <3>3. QED
      BY <3>1, <3>2, CopyAheadKept
  <2>3. CASE p # made + 1 /\ write[p].by = i
    <3>1. write'[p] = write[p] /\ stage'[p] = stage[p]
      BY <2>3, <1>2
    <3>2. stage[p] = "written" =>
            /\ write[p].ver <= db.ver
            /\ write[p].ver = db.ver => db.val = write[p].item
      BY DEF Coupled, CopiesAhead, InFlight
    <3>3. stage[p] \notin {"unmade", "settled"} =>
            FollowsNext(i, item, write[p].item, missed'[i] \cup write[p].newer)
      BY <2>3 DEF InFlight
    <3>4. QED
      BY <2>3, <3>1, <3>2, <3>3, <1>3 DEF CopyAheadNext
  <2>4. QED
    BY <2>1, <2>2, <2>3
<1>8. QED
  BY <1>4, <1>5, <1>6, <1>7, CoupledNext

\* A put, plain or durable.
LEMMA PutKeepsCoupled ==
  ASSUME StoreInv, Coupled, AuthorsKept, TypeOK', NEW i \in Isolate, NEW g \in Field,
         PutField(i, g)
  PROVE  Coupled'
<1> USE DEF StoreInv
<1>1. PICK item \in Val : item = [mem[i] EXCEPT ![g] = made + 1]
  BY PutFieldTyped
<1>2. /\ Send(i, {g}, item, versions[i], missed'[i])
      /\ UNCHANGED <<db, versions, reading, missed>>
  BY <1>1 DEF PutField
<1>3. /\ {g} \in SUBSET Field /\ versions[i] \in Nat /\ missed' \in [Isolate -> SUBSET Field]
      /\ missed'[i] \in SUBSET Field /\ made + 1 \in Put
  BY <1>2, PutFieldTyped DEF TypeOK
<1>4. mem'[i] = item /\ write'[made + 1].by = i
  BY <1>2, <1>3, SendTyped DEF Send, TypeOK
<1>5. mem[i] \in Val /\ db.val \in KnownUpTo(made)
  BY DEF TypeOK, ValuesAreMade
<1>6. ASSUME NEW base \in KnownUpTo(made), NEW but, Follows(i, mem[i], base, but)
      PROVE  FollowsNext(i, item, base, but)
  BY <1>1, <1>3, <1>4, <1>5, <1>6, FollowsPut
<1>7. CopyBehindNext(i)
  BY <1>2, <1>4, <1>5, <1>6 DEF Coupled, CopiesBehind, CopyBehindNext
<1>8. ASSUME NEW p \in Put, InFlight(p), write[p].by = i
      PROVE  FollowsNext(i, item, write[p].item, missed'[i] \cup write[p].newer)
  <2>1. write[p].item \in KnownUpTo(made)
    BY DEF ValuesAreMade
  <2>2. Follows(i, mem[i], write[p].item, missed'[i] \cup write[p].newer)
    BY <1>2, <1>8 DEF Coupled, CopiesAhead
  <2>3. QED
    BY <2>1, <2>2, <1>6
<1>9. QED
  BY <1>2, <1>3, <1>7, <1>8, SendKeepsCoupled

\* A step that changes neither a row, a copy, a version nor a write.
LEMMA IdleKeepsCoupled ==
  ASSUME Coupled, UNCHANGED <<db, mem, versions, reading, write, stage, missed>>
  PROVE  Coupled'
BY DEF Coupled, CopiesBehind, WritesBehind, ReadsBehind, CopiesAhead, Vouched, InFlight,
       Follows, UpToOwn

\* Reading the row, all of it or but for what hydrate works out.
LEMMA ReadKeepsCoupled ==
  ASSUME StoreInv, Coupled, AuthorsKept, NEW i \in Isolate, Sync(i) \/ Hydrate(i)
  PROVE  Coupled'
<1> USE DEF StoreInv
<1>1. UNCHANGED <<db, mem, versions, write, stage, missed>> /\ db # NoRow
  BY DEF Sync, Hydrate
<1>2. PICK r \in Reading :
        /\ reading' = [reading EXCEPT ![i] = r]
        /\ r.ver = db.ver
        /\ \A f \in Field : r.val[f] = IF f \in r.figured THEN Unput ELSE db.val[f]
  BY ReadTyped
<1>3. db.ver \in Nat \ {0}
  BY <1>1 DEF RowIsVersioned, TypeOK, Row
<1>4. FollowsNext(i, r.val, db.val, r.figured)
  BY <1>2 DEF FollowsNext, UpToOwnNext
<1>5. \A j \in Isolate : CopyBehindNext(j)
  BY <1>1, CopyBehindKept
<1>6. \A j \in Isolate : ReadBehindNext(j)
  <2> TAKE j \in Isolate
  <2>1. CASE j = i
    <3>1. reading'[i] = r
      BY <1>2 DEF TypeOK
    <3>2. QED
      BY <2>1, <3>1, <1>1, <1>2, <1>3, <1>4 DEF ReadBehindNext
  <2>2. CASE j # i
    BY <2>2, <1>1, <1>2, ReadBehindKept DEF TypeOK
  <2>3. QED
    BY <2>1, <2>2
<1>7. \A p \in Put : WriteBehindNext(p) /\ CopyAheadNext(p)
  BY <1>1, WriteBehindKept, CopyAheadKept
<1>8. QED
  BY <1>5, <1>6, <1>7, CoupledNext

\* Applying it.
LEMMA ApplyKeepsCoupled ==
  ASSUME StoreInv, Coupled, AuthorsKept, NEW i \in Isolate, Apply(i)
  PROVE  Coupled'
<1> USE DEF StoreInv
<1>1. /\ UNCHANGED <<db, write, stage>>
      /\ reading[i] # NoReading
      /\ mem'[i] = reading[i].val
      /\ versions'[i] = reading[i].ver
      /\ reading'[i] = NoReading
      /\ missed'[i] = Overlooked(i)
      /\ \A j \in Isolate : j # i =>
           /\ mem'[j] = mem[j] /\ versions'[j] = versions[j]
           /\ reading'[j] = reading[j] /\ missed'[j] = missed[j]
  BY DEF Apply, TypeOK
<1>2. \A j \in Isolate : CopyBehindNext(j)
  <2> TAKE j \in Isolate
  <2>1. CASE j = i
    <3>1. /\ reading[i].ver <= db.ver
          /\ reading[i].ver = db.ver => Follows(i, reading[i].val, db.val, reading[i].figured)
      BY <1>1 DEF Coupled, ReadsBehind
    <3>2. reading[i].ver = db.ver =>
            FollowsNext(i, reading[i].val, db.val, reading[i].figured)
      BY <3>1, FollowsKept
    <3>3. reading[i].figured \subseteq Overlooked(i)
      BY DEF Overlooked
    <3>4. reading[i].ver = db.ver => FollowsNext(i, reading[i].val, db.val, Overlooked(i))
      BY <3>2, <3>3 DEF FollowsNext
    <3>5. QED
      BY <2>1, <3>1, <3>4, <1>1 DEF CopyBehindNext
  <2>2. CASE j # i
    BY <2>2, <1>1, CopyBehindKept
  <2>3. QED
    BY <2>1, <2>2
<1>3. \A j \in Isolate : ReadBehindNext(j)
  BY <1>1, ReadBehindKept DEF ReadBehindNext
<1>4. \A p \in Put : WriteBehindNext(p)
  BY <1>1, WriteBehindKept
<1>5. \A p \in Put : CopyAheadNext(p)
  <2> TAKE p \in Put
  <2>1. CASE write[p].by # i
    <3>1. stage[p] \notin {"unmade", "settled"} =>
            mem'[write[p].by] = mem[write[p].by] /\ missed'[write[p].by] = missed[write[p].by]
      BY <2>1, <1>1, AuthorIsIsolate
    <3>2. QED
      BY <3>1, <1>1, CopyAheadKept
  <2>2. CASE write[p].by = i /\ InFlight(p)
    <3>1. p \in Pending(i)
      BY <2>2 DEF Pending
    <3>2. Lagging(i, reading[i].val, write[p].item) \subseteq Overlooked(i)
      BY <3>1 DEF Overlooked
    <3>3. Follows(i, reading[i].val, write[p].item, Overlooked(i))
      BY <3>2 DEF Follows, Lagging
    <3>4. FollowsNext(i, reading[i].val, write[p].item, Overlooked(i))
      BY <3>3, FollowsKept
    <3>5. FollowsNext(i, reading[i].val, write[p].item, Overlooked(i) \cup write[p].newer)
      BY <3>4 DEF FollowsNext
    <3>6. stage[p] = "written" =>
            /\ write[p].ver <= db.ver
            /\ write[p].ver = db.ver => db.val = write[p].item
      BY <2>2 DEF Coupled, CopiesAhead
    <3>7. QED
      BY <2>2, <3>5, <3>6, <1>1 DEF CopyAheadNext
  <2>3. CASE ~InFlight(p)
    BY <2>3, <1>1 DEF InFlight, CopyAheadNext
  <2>4. QED
    BY <2>1, <2>2, <2>3
<1>6. QED
  BY <1>2, <1>3, <1>4, <1>5, CoupledNext

\* The end of a putDurable that puts its row back.
LEMMA ReapplyKeepsCoupled ==
  ASSUME StoreInv, Coupled, AuthorsKept, TypeOK', NEW i \in Isolate, Reapply(i)
  PROVE  Coupled'
<1> USE DEF StoreInv
<1> DEFINE item == promised[i].item
<1>1. UNCHANGED <<db, reading>> /\ versions' = [versions EXCEPT ![i] = db.ver]
  BY DEF Reapply
<1>2. /\ missed' = [missed EXCEPT ![i] =
           missed[i] \cup Lagging(i, item, mem[i]) \cup Lagging(i, item, db.val)]
      /\ mem' = [mem EXCEPT ![i] = item]
      /\ \/ UNCHANGED <<mem, write, stage, made>>
         \/ \E fields \in SUBSET Field : Send(i, fields, item, db.ver, missed'[i])
  BY ReapplyTyped
<1>3. /\ item \in Val /\ db.ver \in Nat /\ missed' \in [Isolate -> SUBSET Field]
      /\ mem'[i] = item /\ versions'[i] = db.ver
      /\ missed'[i] = missed[i] \cup Lagging(i, item, mem[i]) \cup Lagging(i, item, db.val)
      /\ \A j \in Isolate : j # i =>
           mem'[j] = mem[j] /\ versions'[j] = versions[j] /\ missed'[j] = missed[j]
  BY <1>1, <1>2 DEF TypeOK, Row
<1> HIDE DEF item
<1>4. CopyBehindNext(i)
  <2>1. Follows(i, item, db.val, missed'[i])
    BY <1>3 DEF Follows, Lagging
  <2>2. FollowsNext(i, item, db.val, missed'[i])
    BY <2>1, FollowsKept
  <2>3. QED
    BY <2>2, <1>1, <1>3 DEF CopyBehindNext
<1>5. ASSUME NEW p \in Put, InFlight(p), write[p].by = i
      PROVE  FollowsNext(i, item, write[p].item, missed'[i] \cup write[p].newer)
  <2>1. Follows(i, mem[i], write[p].item, missed[i] \cup write[p].newer)
    BY <1>5 DEF Coupled, CopiesAhead
  <2>2. ASSUME NEW f \in Field \ (missed'[i] \cup write[p].newer)
        PROVE  UpToOwn(i, item[f], write[p].item[f])
    <3>1. UpToOwn(i, item[f], mem[i][f])
      BY <1>3 DEF Lagging
    <3>2. UpToOwn(i, mem[i][f], write[p].item[f])
      BY <2>1, <1>3 DEF Follows
    <3>3. QED
      BY <3>1, <3>2, UpToOwnTransitive
  <2>3. QED
    BY <2>2, UpToOwnKept DEF FollowsNext
<1>6. CASE \E fields \in SUBSET Field : Send(i, fields, item, db.ver, missed'[i])
  BY <1>1, <1>3, <1>4, <1>5, <1>6, SendKeepsCoupled
<1>7. CASE UNCHANGED <<mem, write, stage, made>>
  <2>1. \A j \in Isolate : CopyBehindNext(j) /\ ReadBehindNext(j)
    BY <1>1, <1>3, <1>4, CopyBehindKept, ReadBehindKept
  <2>2. \A p \in Put : WriteBehindNext(p)
    BY <1>1, <1>7, WriteBehindKept
  <2>3. \A p \in Put : CopyAheadNext(p)
    <3> TAKE p \in Put
    <3>1. stage[p] \notin {"unmade", "settled"} =>
            /\ mem'[write[p].by] = mem[write[p].by]
            /\ missed[write[p].by] \subseteq missed'[write[p].by]
      BY <1>3, <1>7, AuthorIsIsolate
    <3>2. QED
      BY <3>1, <1>1, <1>7, CopyAheadKept
  <2>4. QED
    BY <2>1, <2>2, <2>3, CoupledNext
<1>8. QED
  BY <1>2, <1>6, <1>7 DEF item

\* The loss of an isolate.
LEMMA CrashKeepsCoupled ==
  ASSUME StoreInv, Coupled, AuthorsKept, NEW i \in Isolate, Crash(i)
  PROVE  Coupled'
<1> USE DEF StoreInv
<1>1. /\ db' = db
      /\ mem'[i] = NoVal /\ versions'[i] = 0 /\ reading'[i] = NoReading
      /\ \A j \in Isolate : j # i =>
           /\ mem'[j] = mem[j] /\ versions'[j] = versions[j]
           /\ reading'[j] = reading[j] /\ missed'[j] = missed[j]
  BY DEF Crash, TypeOK
<1>2. \A p \in Put : \/ write'[p] = write[p] /\ stage'[p] = stage[p] /\ p \notin Pending(i)
                     \/ stage'[p] = "settled"
  BY DEF Crash
<1>3. db.ver \in Nat
  BY DEF TypeOK, Row
<1>4. \A j \in Isolate : CopyBehindNext(j)
  BY <1>1, <1>3, CopyBehindKept DEF CopyBehindNext
<1>5. \A j \in Isolate : ReadBehindNext(j)
  BY <1>1, ReadBehindKept DEF ReadBehindNext
<1>6. \A p \in Put : WriteBehindNext(p)
  BY <1>1, <1>2, WriteBehindKept DEF WriteBehindNext
<1>7. \A p \in Put : CopyAheadNext(p)
  <2> TAKE p \in Put
  <2>1. CASE stage'[p] = "settled"
    BY <2>1 DEF CopyAheadNext
  <2>2. CASE write'[p] = write[p] /\ stage'[p] = stage[p] /\ p \notin Pending(i)
    <3>1. stage[p] \notin {"unmade", "settled"} => write[p].by # i /\ write[p].by \in Isolate
      BY <2>2, AuthorIsIsolate DEF Pending, InFlight
    <3>2. QED
      BY <2>2, <3>1, <1>1, CopyAheadKept
  <2>3. QED
    BY <1>2, <2>1, <2>2
<1>8. QED
  BY <1>4, <1>5, <1>6, <1>7, CoupledNext

\* A write that is stored: every version known so far is behind D1's.
LEMMA LandKeepsCoupled ==
  ASSUME StoreInv, Coupled, AuthorsKept, TypeOK', NEW p \in Put, ~blind',
         Land(p) \/ LandReplyLost(p)
  PROVE  Coupled'
<1> USE DEF StoreInv
<1>1. /\ stage[p] = "send" /\ Accepted(p) /\ Store(p)
      /\ UNCHANGED <<mem, versions, reading, missed>>
  BY DEF Land, LandReplyLost
<1>2. db'.ver \in Nat /\ db'.ver > db.ver /\ db'.val = write[p].item
  BY <1>1, StoreGrows
<1>3. /\ db.ver \in Nat /\ write \in [Put -> Write]
      /\ versions \in [Isolate -> Nat] /\ reading \in [Isolate -> Reading]
  BY DEF TypeOK, Row
<1>4. \A q \in Put : q # p => write'[q] = write[q] /\ stage'[q] = stage[q]
  BY WriteStepTyped
<1>5. /\ stage'[p] \in {"written", "deferred"}
      /\ write'[p].by = write[p].by
      /\ write'[p].item = write[p].item
      /\ write'[p].newer = write[p].newer
      /\ stage'[p] = "written" => write'[p].ver = db'.ver
  <2>1. write[p] \in Write
    BY <1>3
  <2>2. CASE Land(p)
    BY <2>1, <2>2 DEF Land, Store, TypeOK, Write
  <2>3. CASE LandReplyLost(p)
    BY <2>3 DEF LandReplyLost, TypeOK
  <2>4. QED
    BY <2>2, <2>3
<1>6. ASSUME NEW j \in Isolate
      PROVE  CopyBehindNext(j) /\ ReadBehindNext(j)
  <2>1. missed[j] # Field => versions[j] < db'.ver /\ versions[j] \in Nat
    BY <1>2, <1>3 DEF Coupled, CopiesBehind
  <2>2. CopyBehindNext(j)
    BY <1>1, <1>2, <2>1 DEF CopyBehindNext
  <2>3. reading[j] # NoReading =>
          reading[j].ver # 0 /\ reading[j].ver < db'.ver /\ reading[j].ver \in Nat
    BY <1>2, <1>3 DEF Coupled, ReadsBehind, Reading
  <2>4. ReadBehindNext(j)
    BY <1>1, <1>2, <2>3 DEF ReadBehindNext
  <2>5. QED
    BY <2>2, <2>4
<1>7. ASSUME NEW q \in Put
      PROVE  WriteBehindNext(q)
  <2> SUFFICES ASSUME stage'[q] = "send", write'[q].expected # 0, write'[q].older # Field
               PROVE  write'[q].expected < db'.ver /\ write'[q].expected \in Nat
    BY <1>2 DEF WriteBehindNext
  <2>1. write'[q] = write[q] /\ stage[q] = "send"
    BY <1>4, <1>5
  <2>2. write[q].expected <= db.ver /\ write[q].expected \in Nat
    BY <2>1, <1>3 DEF Coupled, WritesBehind, Write
  <2>3. QED
    BY <2>1, <2>2, <1>2, <1>3
<1>8. ASSUME NEW q \in Put, stage'[q] \notin {"unmade", "settled"}
      PROVE  CopyAheadNext(q)
  <2>1. /\ stage[q] \notin {"unmade", "settled"}
        /\ write'[q].by = write[q].by /\ write'[q].item = write[q].item
        /\ write'[q].newer = write[q].newer
    BY <1>8, <1>1, <1>4, <1>5
  <2>2. write[q].by \in Isolate
    BY <2>1, AuthorIsIsolate
  <2>3. Follows(write[q].by, mem[write[q].by], write[q].item,
                missed[write[q].by] \cup write[q].newer)
    BY <2>1 DEF Coupled, CopiesAhead, InFlight
  <2>4. FollowsNext(write[q].by, mem[write[q].by], write[q].item,
                    missed[write[q].by] \cup write[q].newer)
    BY <2>2, <2>3, FollowsKept
  <2>5. CASE q = p
    BY <2>1, <2>4, <2>5, <1>1, <1>2, <1>5 DEF CopyAheadNext
  <2>6. CASE q # p
    <3>1. write'[q] = write[q] /\ stage'[q] = stage[q] /\ write[q].ver \in Nat
      BY <2>6, <1>3, <1>4 DEF Write
    <3>2. stage[q] = "written" => write[q].ver < db'.ver
      <4>1. stage[q] = "written" => write[q].ver <= db.ver
        BY <2>1 DEF Coupled, CopiesAhead, InFlight
      <4>2. QED
        BY <3>1, <4>1, <1>2, <1>3
    <3>3. QED
      BY <2>4, <3>1, <3>2, <1>1, <1>2 DEF CopyAheadNext
  <2>7. QED
    BY <2>5, <2>6
<1>9. QED
  BY <1>6, <1>7, <1>8, CoupledNext DEF CopyAheadNext

\* A write that is rejected or refused.
LEMMA RejectKeepsCoupled ==
  ASSUME StoreInv, Coupled, AuthorsKept, NEW p \in Put, Reject(p) \/ Defer(p)
  PROVE  Coupled'
<1> USE DEF StoreInv
<1>1. /\ UNCHANGED <<db, mem, versions, reading, missed>>
      /\ stage[p] = "send" /\ stage'[p] \in {"reread", "stale", "deferred"}
  BY DEF Reject, Defer, TypeOK
<1>2. \A q \in Put : q # p => write'[q] = write[q] /\ stage'[q] = stage[q]
  BY WriteStepTyped
<1>3. /\ write'[p].by = write[p].by /\ write'[p].item = write[p].item
      /\ write'[p].newer = write[p].newer
  <2>1. write[p] \in Write
    BY DEF TypeOK
  <2>2. QED
    BY <2>1 DEF Reject, Defer, TypeOK, Write
<1>4. \A j \in Isolate : CopyBehindNext(j) /\ ReadBehindNext(j)
  BY <1>1, CopyBehindKept, ReadBehindKept
<1>5. \A q \in Put : WriteBehindNext(q)
  BY <1>1, <1>2, WriteBehindKept
<1>6. CopyAheadNext(p)
  <2>1. write[p].by \in Isolate
    BY <1>1, AuthorIsIsolate
  <2>2. Follows(write[p].by, mem[write[p].by], write[p].item,
                missed[write[p].by] \cup write[p].newer)
    BY <1>1 DEF Coupled, CopiesAhead, InFlight
  <2>3. FollowsNext(write[p].by, mem[write[p].by], write[p].item,
                    missed[write[p].by] \cup write[p].newer)
    BY <2>1, <2>2, FollowsKept
  <2>4. QED
    BY <2>3, <1>1, <1>3 DEF CopyAheadNext
<1>7. \A q \in Put : CopyAheadNext(q)
  BY <1>1, <1>2, <1>6, CopyAheadKept
<1>8. QED
  BY <1>4, <1>5, <1>7, CoupledNext

\* A write that is tried again: what it does not change itself is D1's.
LEMMA RetryKeepsCoupled ==
  ASSUME StoreInv, Coupled, AuthorsKept, NEW p \in Put, Reread(p) \/ RereadFails(p)
  PROVE  Coupled'
<1> USE DEF StoreInv
<1>1. UNCHANGED <<db, mem, versions, reading, missed>>
  BY DEF Reread, RereadFails
<1>2. \A q \in Put : q # p => write'[q] = write[q] /\ stage'[q] = stage[q]
  BY WriteStepTyped
<1>3. /\ stage[p] = "reread" /\ stage'[p] = "send" /\ write'[p].by = write[p].by
      /\ db.ver \in Nat
  BY RereadTyped, RereadFailsTyped DEF TypeOK, Row
<1> DEFINE i == write[p].by
<1>4. i \in Isolate
  BY <1>3, AuthorIsIsolate
<1>5. Follows(i, mem[i], write[p].item, missed[i] \cup write[p].newer)
  BY <1>3 DEF Coupled, CopiesAhead, InFlight
<1>6. \A j \in Isolate : CopyBehindNext(j) /\ ReadBehindNext(j)
  BY <1>1, CopyBehindKept, ReadBehindKept
<1>7. CASE Reread(p)
  <2>1. /\ write'[p].item = Merge(p, db.val)
        /\ write'[p].expected = db.ver
        /\ write'[p].older =
             {f \in write[p].fields : write[p].item[f] # db.val[f] /\ write[p].item[f] # p}
        /\ write'[p].newer =
             write[p].newer \cup (Lagging(i, write[p].item, db.val) \ write[p].fields)
    BY <1>7, RereadTyped
  <2>2. \A f \in Field :
          Merge(p, db.val)[f] = IF f \in write[p].fields THEN write[p].item[f] ELSE db.val[f]
    BY DEF Merge
  <2>3. ASSUME NEW f \in Field \ write'[p].older
        PROVE  write'[p].item[f] = p \/ UpToOwnNext(i, write'[p].item[f], db.val[f])
    BY <2>1, <2>2 DEF UpToOwnNext
  <2>4. WriteBehindNext(p)
    BY <1>1, <1>3, <2>1, <2>3 DEF WriteBehindNext
  <2>5. ASSUME NEW f \in Field \ (missed[i] \cup write'[p].newer)
        PROVE  UpToOwn(i, mem[i][f], write'[p].item[f])
    <3>1. UpToOwn(i, mem[i][f], write[p].item[f])
      BY <1>5, <2>1 DEF Follows
    <3>2. CASE f \in write[p].fields
      BY <2>1, <2>2, <3>1, <3>2
    <3>3. CASE f \notin write[p].fields
      <4>1. UpToOwn(i, write[p].item[f], db.val[f])
        BY <2>1, <3>3 DEF Lagging
      <4>2. UpToOwn(i, mem[i][f], db.val[f])
        BY <3>1, <4>1, UpToOwnTransitive
      <4>3. QED
        BY <2>1, <2>2, <3>3, <4>2
    <3>4. QED
      BY <3>2, <3>3
  <2>6. FollowsNext(i, mem[i], write'[p].item, missed[i] \cup write'[p].newer)
    BY <1>4, <2>5, UpToOwnKept DEF FollowsNext
  <2>7. CopyAheadNext(p)
    BY <1>1, <1>3, <2>6 DEF CopyAheadNext
  <2>8. QED
    BY <1>1, <1>2, <1>6, <2>4, <2>7, WriteBehindKept, CopyAheadKept, CoupledNext
<1>8. CASE RereadFails(p)
  <2>1. write'[p].expected = 0 /\ write'[p].newer = Field
    BY <1>8, RereadFailsTyped
  <2>2. WriteBehindNext(p)
    BY <2>1 DEF WriteBehindNext
  <2>3. CopyAheadNext(p)
    BY <1>3, <2>1 DEF CopyAheadNext, FollowsNext
  <2>4. QED
    BY <1>1, <1>2, <1>6, <2>2, <2>3, WriteBehindKept, CopyAheadKept, CoupledNext
<1>9. QED
  BY <1>7, <1>8

\* A write that is over: its isolate adopts its version.
LEMMA SettleKeepsCoupled ==
  ASSUME StoreInv, Coupled, AuthorsKept, NEW p \in Put, Settle(p)
  PROVE  Coupled'
<1> USE DEF StoreInv
<1> DEFINE i == write[p].by
<1>1. /\ UNCHANGED <<db, mem, reading>>
      /\ stage[p] \in {"written", "stale", "deferred"}
      /\ stage'[p] = "settled"
  BY DEF Settle, TypeOK
<1>2. \A q \in Put : q # p => write'[q] = write[q] /\ stage'[q] = stage[q]
  BY WriteStepTyped
<1>3. i \in Isolate
  BY <1>1, AuthorIsIsolate
<1>4. /\ \A j \in Isolate : j # i => versions'[j] = versions[j] /\ missed'[j] = missed[j]
      /\ stage[p] = "deferred" => versions'[i] = versions[i] /\ missed'[i] = missed[i]
      /\ stage[p] = "stale" => missed'[i] = Field
      /\ stage[p] = "written" =>
           versions'[i] = write[p].ver /\ missed'[i] = missed[i] \cup write[p].newer
  BY <1>1, <1>3 DEF Settle, TypeOK
<1>5. \A j \in Isolate : missed[j] \subseteq missed'[j]
  BY <1>1, <1>4 DEF TypeOK
<1>6. CopyBehindNext(i)
  <2>1. CASE stage[p] = "written"
    <3>1. /\ Follows(i, mem[i], write[p].item, missed[i] \cup write[p].newer)
          /\ write[p].ver <= db.ver
          /\ write[p].ver = db.ver => db.val = write[p].item
      BY <2>1 DEF Coupled, CopiesAhead, InFlight
    <3>2. FollowsNext(i, mem[i], write[p].item, missed[i] \cup write[p].newer)
      BY <1>3, <3>1, FollowsKept
    <3>3. QED
      BY <1>1, <1>4, <2>1, <3>1, <3>2 DEF CopyBehindNext
  <2>2. CASE stage[p] = "stale"
    BY <2>2, <1>4 DEF CopyBehindNext
  <2>3. CASE stage[p] = "deferred"
    BY <2>3, <1>1, <1>3, <1>4, CopyBehindKept
  <2>4. QED
    BY <1>1, <2>1, <2>2, <2>3
<1>7. \A j \in Isolate : CopyBehindNext(j) /\ ReadBehindNext(j)
  BY <1>1, <1>4, <1>6, CopyBehindKept, ReadBehindKept
<1>8. \A q \in Put : WriteBehindNext(q)
  BY <1>1, <1>2, WriteBehindKept
<1>9. \A q \in Put : CopyAheadNext(q)
  <2> TAKE q \in Put
  <2>1. CASE q = p
    BY <2>1, <1>1 DEF CopyAheadNext
  <2>2. CASE q # p
    BY <2>2, <1>1, <1>2, <1>5, AuthorIsIsolate, CopyAheadKept
  <2>3. QED
    BY <2>1, <2>2
<1>10. QED
  BY <1>7, <1>8, <1>9, CoupledNext

-----------------------------------------------------------------------------
LEMMA InitStoreInv == Init => StoreInv
<1> SUFFICES ASSUME Init
             PROVE  StoreInv
  OBVIOUS
<1>1. TypeOK /\ MadePutsHaveAuthors /\ ValuesAreMade
  BY InitTyped
<1>2. RowIsVersioned
  BY DEF Init, RowIsVersioned
<1>3. Coupled
  BY DEF Init, NoRow, Coupled, CopiesBehind, WritesBehind, ReadsBehind, CopiesAhead, InFlight
<1>4. QED
  BY <1>1, <1>2, <1>3 DEF StoreInv

LEMMA StoreInvStep == StoreInv /\ [Next]_vars => StoreInv'
<1> SUFFICES ASSUME StoreInv, [Next]_vars
             PROVE  StoreInv'
  OBVIOUS
<1>1. TypeOK' /\ MadePutsHaveAuthors' /\ ValuesAreMade' /\ RowIsVersioned' /\ AuthorsKept
  BY TypeStep, ValuesStep, VersionedStep, AuthorsStep DEF StoreInv
<1>2. blind => blind'
  BY DEF Next, vars, PlainPut, PutDurable, PutField, Confirm, ConfirmUnread, Reapply, Sync,
         Hydrate, Apply, Crash, Land, LandReplyLost, Store, Reject, Defer, Reread, RereadFails,
         Settle, Tick
<1>3. ASSUME ~blind'
      PROVE  Coupled'
  <2>1. Coupled
    BY <1>2, <1>3 DEF StoreInv
  <2>2. ASSUME NEW i \in Isolate, NEW f \in Field, PlainPut(i, f) \/ PutDurable(i, f)
        PROVE  Coupled'
    BY <2>1, <2>2, <1>1, PutKeepsCoupled DEF PlainPut, PutDurable
  <2>3. ASSUME NEW i \in Isolate, Confirm(i) \/ ConfirmUnread(i)
        PROVE  Coupled'
    <3>1. UNCHANGED <<db, mem, versions, reading, write, stage, missed>>
      BY <2>3 DEF Confirm, ConfirmUnread
    <3>2. QED
      BY <2>1, <3>1, IdleKeepsCoupled
  <2>4. ASSUME NEW i \in Isolate,
               Reapply(i) \/ Sync(i) \/ Hydrate(i) \/ Apply(i) \/ Crash(i)
        PROVE  Coupled'
    BY <2>1, <2>4, <1>1, ReapplyKeepsCoupled, ReadKeepsCoupled, ApplyKeepsCoupled,
       CrashKeepsCoupled
  <2>5. ASSUME NEW p \in Put, Land(p) \/ LandReplyLost(p)
        PROVE  Coupled'
    BY <2>1, <2>5, <1>1, <1>3, LandKeepsCoupled
  <2>6. ASSUME NEW p \in Put,
               Reject(p) \/ Defer(p) \/ Reread(p) \/ RereadFails(p) \/ Settle(p)
        PROVE  Coupled'
    BY <2>1, <2>6, <1>1, RejectKeepsCoupled, RetryKeepsCoupled, SettleKeepsCoupled
  <2>7. CASE Tick \/ UNCHANGED vars
    <3>1. UNCHANGED <<db, mem, versions, reading, write, stage, missed>>
      BY <2>7 DEF Tick, vars
    <3>2. QED
      BY <2>1, <3>1, IdleKeepsCoupled
  <2>8. QED
    BY <2>2, <2>3, <2>4, <2>5, <2>6, <2>7 DEF Next
<1>4. QED
  BY <1>1, <1>3 DEF StoreInv

\* The inductive invariant holds in every reachable state.
THEOREM StoreInvariant == Spec => []StoreInv
BY InitStoreInv, StoreInvStep, PTL DEF Spec

-----------------------------------------------------------------------------
\* EntityStore!CurrentCopyIsTrue: an isolate that holds D1's version has D1's row,
\* up to its own later puts, in every field that its copy is not said to miss.
THEOREM CopyIsTrue == Spec => []CurrentCopyIsTrue
<1>1. ASSUME StoreInv
      PROVE  CurrentCopyIsTrue
  <2> SUFFICES ASSUME ~blind, NEW i \in Isolate, versions[i] # 0, versions[i] = db.ver,
                      NEW f \in Field \ missed[i]
               PROVE  UpToOwn(i, mem[i][f], db.val[f])
    BY DEF CurrentCopyIsTrue
  <2>1. missed[i] # Field
    OBVIOUS
  <2>2. Follows(i, mem[i], db.val, missed[i])
    BY <1>1, <2>1 DEF StoreInv, Coupled, CopiesBehind
  <2>3. QED
    BY <2>2 DEF Follows
<1>2. QED
  BY StoreInvariant, <1>1, PTL

\* Only the landing of a write changes D1's row.
LEMMA WhoStores ==
  ASSUME TypeOK, MadePutsHaveAuthors, [Next]_vars, db' # db
  PROVE  \E p \in Put : /\ Land(p) \/ LandReplyLost(p)
                        /\ \A q \in Put : q # p => stage'[q] = stage[q]
<1>1. PICK p \in Put : Land(p) \/ LandReplyLost(p)
  BY DEF Next, vars, PlainPut, PutDurable, PutField, Confirm, ConfirmUnread, Reapply,
     Sync, Hydrate, Apply, Crash, Reject, Defer, Reread, RereadFails, Settle, Tick
<1>2. QED
  BY <1>1, WriteStepTyped

\* EntityStore!VersionAdvances: no two rows of D1 share a version, whatever the
\* clock says, unless a write went without one.
THEOREM VersionsAdvance == Spec => VersionAdvances
<1>1. ASSUME StoreInv, [Next]_vars, db' # db, ~blind'
      PROVE  db'.ver > db.ver
  <2>1. PICK p \in Put : Land(p) \/ LandReplyLost(p)
    BY <1>1, WhoStores DEF StoreInv
  <2>2. Accepted(p) /\ Store(p)
    BY <2>1 DEF Land, LandReplyLost
  <2>3. QED
    BY <1>1, <2>2, StoreGrows DEF StoreInv
<1>2. StoreInv /\ [Next]_vars => [db' # db /\ ~blind' => db'.ver > db.ver]_vars
  BY <1>1
<1>3. QED
  BY StoreInvariant, <1>2, PTL DEF Spec, VersionAdvances

\* EntityStore!NothingOldComesBack: a write that carries a version gives a field of
\* D1 only what it was sent for or a later value of its own isolate, in every
\* field for which its version vouches.
THEOREM OldStaysGone == Spec => NothingOldComesBack
<1>1. ASSUME StoreInv, [Next]_vars, ~blind', NEW q \in Put, Stores(q), write[q].expected # 0,
             NEW f \in Field \ write[q].older
      PROVE  db'.val[f] = q \/ UpToOwn(write[q].by, db'.val[f], db.val[f])
  <2>1. PICK p \in Put : /\ Land(p) \/ LandReplyLost(p)
                         /\ \A r \in Put : r # p => stage'[r] = stage[r]
    BY <1>1, WhoStores DEF StoreInv, Stores
  <2>2. p = q
    BY <1>1, <2>1 DEF Stores
  <2>3. stage[q] = "send" /\ Accepted(q) /\ Store(q)
    BY <2>1, <2>2 DEF Land, LandReplyLost
  <2>4. ~blind /\ write[q].expected = db.ver /\ write[q].older # Field
    BY <1>1, <2>3 DEF Store, Accepted
  <2>5. Vouched(q)
    BY <1>1, <2>3, <2>4 DEF StoreInv, Coupled, WritesBehind
  <2>6. db'.val = write[q].item
    BY <2>3 DEF Store
  <2>7. QED
    BY <2>5, <2>6 DEF Vouched
<1>2. StoreInv /\ [Next]_vars =>
        [~blind' =>
           \A p \in Put : Stores(p) /\ write[p].expected # 0 =>
             \A f \in Field \ write[p].older :
               db'.val[f] = p \/ UpToOwn(write[p].by, db'.val[f], db.val[f])]_vars
  BY <1>1
<1>3. QED
  BY StoreInvariant, <1>2, PTL DEF Spec, NothingOldComesBack
=============================================================================
