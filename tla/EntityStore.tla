---------------------------- MODULE EntityStore ----------------------------
(***************************************************************************)
(* One row of the `entities` table and the copies of it that isolates keep *)
(* (store.js MemoryStore, db.js d1Put and d1Get).  An isolate changes its  *)
(* copy at once and sends the WHOLE row to D1 in the background, guarded   *)
(* by the version (updated_at) it believes D1 holds.  A rejected write     *)
(* reads the row again and re-applies only the fields it changed.          *)
(*                                                                         *)
(* What a field holds is the number of the put that set it: so every value *)
(* tells which isolate put it, and when.  It is 0 when the row has no such *)
(* field, and Unput when no put is behind it: a field the row was found    *)
(* with, or one that hydrate works out for itself.  Versions are readings  *)
(* of one clock in milliseconds.  Puts, faults and clock are bounded by    *)
(* MaxPuts, MaxFaults and MaxClock; an isolate reads the row, and waits    *)
(* for a durable put, once at a time.                                      *)
(*                                                                         *)
(* A version is meant to vouch for the copy beside it.  Three history      *)
(* variables say field by field where the code lets it vouch for more than *)
(* it was read with: `missed` of a copy, `older` and `newer` of a write.   *)
(***************************************************************************)
EXTENDS Naturals

CONSTANTS
  Isolate,
  Nobody,      \* the author of a put not made yet
  Field,
  Derived,     \* fields hydrate works out instead of reading: a project's state
  MaxPuts,     \* bound: puts made in all
  MaxRetries,  \* MAX_CAS_RETRIES, 2
  MaxClock,    \* bound: milliseconds
  MaxFaults    \* bound: lost replies, refused writes, failed reads, evictions, in all

ASSUME NobodyAssumption == Nobody \notin Isolate
ASSUME DerivedAssumption == Derived \subseteq Field
ASSUME BoundAssumption == MaxPuts \in Nat /\ MaxRetries \in Nat /\ MaxClock \in Nat \ {0} /\ MaxFaults \in Nat

VARIABLES
  db,        \* the row in D1, version 0 while there is none
  mem,       \* this.data: each isolate's copy
  versions,  \* this.versions: what each isolate passes as expectedUpdatedAt, 0: null
  reading,   \* what hydrate or sync read and did not apply yet, version 0: nothing
  write,     \* the write each put sends, as persistEntity has it
  stage,     \* where it is
  made,      \* how many puts were made
  promised,  \* what each isolate's putDurable wrote and is waiting for, put 0: nothing
  clock,
  faults,    \* how many so far
  missed,    \* fields in which a copy may lag behind the row of the version it holds (history)
  blind      \* an unconditional write has replaced a row (history)

vars == <<db, mem, versions, reading, write, stage, made, promised, clock, faults, missed, blind>>

Put == 1..MaxPuts
Unput == MaxPuts + 1
Val == [Field -> 0..Unput]
Row == [ver : Nat, val : Val]
NoVal == [f \in Field |-> 0]   \* every row has some field: this is no row
NoRow == [ver |-> 0, val |-> NoVal]
Reading == [ver : Nat, val : Val, figured : SUBSET Derived]
NoReading == [ver |-> 0, val |-> NoVal, figured |-> {}]
NoPromise == [put |-> 0, item |-> NoVal]

\* History: the write may be `older` than the row of the version it carries in some
\* fields, and `newer` in some than the copy of its isolate.
Write == [by : Isolate \cup {Nobody}, fields : SUBSET Field, item : Val, expected : Nat,
          try : 0..MaxRetries, ver : Nat, older : SUBSET Field, newer : SUBSET Field]
Stages == {"unmade", "send", "reread", "written", "stale", "deferred", "settled"}

TypeOK ==
  /\ db \in Row
  /\ mem \in [Isolate -> Val]
  /\ versions \in [Isolate -> Nat]
  /\ reading \in [Isolate -> Reading]
  /\ write \in [Put -> Write]
  /\ stage \in [Put -> Stages]
  /\ made \in 0..MaxPuts
  /\ promised \in [Isolate -> [put : 0..MaxPuts, item : Val]]
  /\ clock \in 1..MaxClock
  /\ faults \in 0..MaxFaults
  /\ missed \in [Isolate -> SUBSET Field]
  /\ blind \in BOOLEAN

\* A put not made yet, or over: it is remembered by its author alone.
Blank(i) == [by |-> i, fields |-> {}, item |-> NoVal, expected |-> 0,
             try |-> 0, ver |-> 0, older |-> {}, newer |-> {}]

Init ==
  /\ db = NoRow
  /\ mem = [i \in Isolate |-> NoVal]
  /\ versions = [i \in Isolate |-> 0]
  /\ reading = [i \in Isolate |-> NoReading]
  /\ write = [p \in Put |-> Blank(Nobody)]
  /\ stage = [p \in Put |-> "unmade"]
  /\ made = 0
  /\ promised = [i \in Isolate |-> NoPromise]
  /\ clock = 1
  /\ faults = 0
  /\ missed = [i \in Isolate |-> {}]
  /\ blind = FALSE

Fault ==
  /\ faults < MaxFaults
  /\ faults' = faults + 1

InFlight(p) == stage[p] \notin {"unmade", "settled"}
Pending(i) == {p \in Put : write[p].by = i /\ InFlight(p)}

\* v is w, or a value i put later than w was put.
UpToOwn(i, v, w) ==
  \/ v = w
  \/ v \in Put /\ write[v].by = i /\ (w \in Put => w < v)

\* The fields of val that lag behind base, but for what i put itself.
Lagging(i, val, base) == {f \in Field : ~UpToOwn(i, val[f], base[f])}

-----------------------------------------------------------------------------
\* put: the copy changes at once, the write is on its way.

\* The write of `item`, by i, differing from its copy in `fields`.
Send(i, fields, item, expected, older) ==
  /\ made < MaxPuts
  /\ made' = made + 1
  /\ mem' = [mem EXCEPT ![i] = item]
  /\ write' = [write EXCEPT ![made + 1] =
       [by |-> i, fields |-> fields, item |-> item, expected |-> expected,
        try |-> 0, ver |-> 0, older |-> older, newer |-> {}]]
  /\ stage' = [stage EXCEPT ![made + 1] = "send"]

\* A row is created by one isolate; the others know it once they have read it.
\* A second put before the first one is confirmed carries no version either.
PutField(i, f) ==
  /\ mem[i] # NoVal \/ made = 0
  /\ Send(i, {f}, [mem[i] EXCEPT ![f] = made + 1], versions[i], missed[i])
  /\ UNCHANGED <<db, versions, reading, clock, faults, missed, blind>>

PlainPut(i, f) == PutField(i, f) /\ UNCHANGED promised

PutDurable(i, f) ==
  /\ promised[i] = NoPromise
  /\ PutField(i, f)
  /\ promised' = [promised EXCEPT ![i] = [put |-> made + 1, item |-> mem'[i]]]

-----------------------------------------------------------------------------
\* d1Put at the database, and persistEntity around it.

StampWithoutAdvance(expected) == clock
Stamp(expected) == IF expected >= clock THEN expected + 1 ELSE clock

\* ON CONFLICT ... WHERE entities.updated_at = ?, or no WHERE at all.
Accepted(p) == write[p].expected \in {0, db.ver}

Store(p) ==
  /\ db' = [ver |-> Stamp(write[p].expected), val |-> write[p].item]
  /\ blind' = (blind \/ (write[p].expected = 0 /\ db # NoRow))

Land(p) ==
  /\ stage[p] = "send"
  /\ Accepted(p)
  /\ Store(p)
  /\ stage' = [stage EXCEPT ![p] = "written"]
  /\ write' = [write EXCEPT ![p].ver = Stamp(write[p].expected)]
  /\ UNCHANGED <<mem, versions, reading, made, promised, clock, faults, missed>>

\* D1 stored the row and the call failed afterwards.
LandReplyLost(p) ==
  /\ Fault
  /\ stage[p] = "send"
  /\ Accepted(p)
  /\ Store(p)
  /\ stage' = [stage EXCEPT ![p] = "deferred"]
  /\ UNCHANGED <<write, mem, versions, reading, made, promised, clock, missed>>

Reject(p) ==
  /\ stage[p] = "send"
  /\ ~Accepted(p)
  /\ stage' = [stage EXCEPT ![p] = IF write[p].try < MaxRetries THEN "reread" ELSE "stale"]
  /\ write' = [write EXCEPT ![p].ver = Stamp(write[p].expected)]
  /\ UNCHANGED <<db, mem, versions, reading, made, promised, clock, faults, missed, blind>>

\* The write budget refuses the write, or D1 fails before storing it.
Defer(p) ==
  /\ Fault
  /\ stage[p] = "send"
  /\ stage' = [stage EXCEPT ![p] = "deferred"]
  /\ UNCHANGED <<db, write, mem, versions, reading, made, promised, clock, missed, blind>>

MergeNothing(p, val) == write[p].item

\* What p changed, on top of a row.
Merge(p, val) == [f \in Field |-> IF f \in write[p].fields THEN write[p].item[f] ELSE val[f]]

Retry(p, fields, item, expected, older, newer) ==
  /\ stage' = [stage EXCEPT ![p] = "send"]
  /\ write' = [write EXCEPT ![p] =
       [by |-> write[p].by, fields |-> fields, item |-> item, expected |-> expected,
        try |-> write[p].try + 1, ver |-> 0, older |-> older, newer |-> newer]]

\* What p re-applies is what the row read does not have already.  A put that
\* putDurable repeats may re-apply older values than its own.
Reread(p) ==
  LET fields == {f \in write[p].fields : write[p].item[f] # db.val[f]}
      lagging == Lagging(write[p].by, write[p].item, db.val)
  IN /\ stage[p] = "reread"
     /\ Retry(p, fields, Merge(p, db.val), db.ver,
              {f \in fields : write[p].item[f] # p},
              write[p].newer \cup (lagging \ write[p].fields))
     /\ UNCHANGED <<db, mem, versions, reading, made, promised, clock, faults, missed, blind>>

\* d1Get answers null when the read fails: what is left of the row is what p
\* changed, and the retry carries no version.
RereadFails(p) ==
  /\ Fault
  /\ stage[p] = "reread"
  /\ Retry(p, write[p].fields, Merge(p, NoVal), 0, Field, Field)
  /\ UNCHANGED <<db, mem, versions, reading, made, promised, clock, missed, blind>>

\* The `then` of put adopts the version, one that was not stored included.  The
\* copy does not adopt a merged row.
Settle(p) ==
  LET i == write[p].by
  IN /\ stage[p] \in {"written", "stale", "deferred"}
     /\ versions' = IF stage[p] = "deferred"
                    THEN versions ELSE [versions EXCEPT ![i] = write[p].ver]
     /\ missed' = [missed EXCEPT ![i] = CASE stage[p] = "written"  -> @ \cup write[p].newer
                                           [] stage[p] = "stale"    -> Field
                                           [] stage[p] = "deferred" -> @]
     /\ stage' = [stage EXCEPT ![p] = "settled"]
     /\ write' = [write EXCEPT ![p] = Blank(i)]
     /\ UNCHANGED <<db, mem, reading, made, promised, clock, faults, blind>>

-----------------------------------------------------------------------------
\* putDurable, once its flush is over: read the row back and compare.

Flushed(i) == promised[i] # NoPromise /\ \A p \in Pending(i) : p > promised[i].put

Returns(i) == promised' = [promised EXCEPT ![i] = NoPromise]

Confirm(i) ==
  /\ Flushed(i)
  /\ db.ver # 0
  /\ db.val = promised[i].item
  /\ Returns(i)
  /\ UNCHANGED <<db, mem, versions, reading, write, stage, made, clock, faults, missed, blind>>

ConfirmUnread(i) ==
  /\ Fault
  /\ Flushed(i)
  /\ Returns(i)
  /\ UNCHANGED <<db, mem, versions, reading, write, stage, made, clock, missed, blind>>

\* The row differs from what was written.  The version is adopted and the same
\* value put again, which `comparable` turns into nothing while the copy still
\* has that value.
Reapply(i) ==
  LET item == promised[i].item
  IN /\ Flushed(i)
     /\ db.ver # 0
     /\ db.val # item
     /\ versions' = [versions EXCEPT ![i] = db.ver]
     /\ missed' = [missed EXCEPT ![i] =
          @ \cup Lagging(i, item, mem[i]) \cup Lagging(i, item, db.val)]
     /\ Returns(i)
     /\ IF mem[i] = item
        THEN UNCHANGED <<mem, write, stage, made>>
        ELSE Send(i, {f \in Field : mem[i][f] # item[f]}, item, db.ver, missed'[i])
     /\ UNCHANGED <<db, reading, clock, faults, blind>>

-----------------------------------------------------------------------------
\* hydrate and syncFromD1, the loss of an isolate, and the clock.

\* A warm isolate that asks for the rows newer than its watermark is answered with
\* the row.  Watermarks are not followed: a sync may return the row or miss it.
Sync(i) ==
  /\ reading[i] = NoReading
  /\ db # NoRow
  /\ reading' = [reading EXCEPT ![i] = [ver |-> db.ver, val |-> db.val, figured |-> {}]]
  /\ UNCHANGED <<db, mem, versions, write, stage, made, promised, clock, faults, missed, blind>>

\* d1List gives a project the state that projectStateFromTasks makes of the tasks
\* (of none, for the scheduler), which may be the row's own or another, beside the
\* version of the row it did not come from.
Hydrate(i) ==
  /\ reading[i] = NoReading
  /\ db # NoRow
  /\ \E figured \in SUBSET {f \in Derived : db.val[f] # Unput} :
       reading' = [reading EXCEPT ![i] =
         [ver |-> db.ver,
          val |-> [f \in Field |-> IF f \in figured THEN Unput ELSE db.val[f]],
          figured |-> figured]]
  /\ UNCHANGED <<db, mem, versions, write, stage, made, promised, clock, faults, missed, blind>>

\* A row read and applied while the isolate's writes are on their way may lack what
\* they store, and the version of a write that settles then stands beside it.
Overlooked(i) ==
  reading[i].figured
    \cup UNION {Lagging(i, reading[i].val, write[p].item) : p \in Pending(i)}

ApplyVersionOnly(i) ==
  /\ reading[i] # NoReading
  /\ versions' = [versions EXCEPT ![i] = reading[i].ver]
  /\ reading' = [reading EXCEPT ![i] = NoReading]
  /\ missed' = [missed EXCEPT ![i] = Overlooked(i)]
  /\ UNCHANGED <<db, mem, write, stage, made, promised, clock, faults, blind>>

\* What was read replaces the copy, whatever was put since.
Apply(i) ==
  /\ reading[i] # NoReading
  /\ mem' = [mem EXCEPT ![i] = reading[i].val]
  /\ versions' = [versions EXCEPT ![i] = reading[i].ver]
  /\ reading' = [reading EXCEPT ![i] = NoReading]
  /\ missed' = [missed EXCEPT ![i] = Overlooked(i)]
  /\ UNCHANGED <<db, write, stage, made, promised, clock, faults, blind>>

\* An isolate is evicted with its copy; its writes go no further than they got.
Crash(i) ==
  /\ Fault
  /\ mem[i] # NoVal
  /\ mem' = [mem EXCEPT ![i] = NoVal]
  /\ versions' = [versions EXCEPT ![i] = 0]
  /\ reading' = [reading EXCEPT ![i] = NoReading]
  /\ write' = [p \in Put |-> IF p \in Pending(i) THEN Blank(i) ELSE write[p]]
  /\ stage' = [p \in Put |-> IF p \in Pending(i) THEN "settled" ELSE stage[p]]
  /\ promised' = [promised EXCEPT ![i] = NoPromise]
  /\ missed' = [missed EXCEPT ![i] = {}]
  /\ UNCHANGED <<db, made, clock, blind>>

Tick ==
  /\ clock < MaxClock
  /\ clock' = clock + 1
  /\ UNCHANGED <<db, mem, versions, reading, write, stage, made, promised, faults, missed, blind>>

Next ==
  \/ \E i \in Isolate :
       \/ \E f \in Field : PlainPut(i, f) \/ PutDurable(i, f)
       \/ Confirm(i) \/ ConfirmUnread(i) \/ Reapply(i)
       \/ Sync(i) \/ Hydrate(i) \/ Apply(i) \/ Crash(i)
  \/ \E p \in Put :
       \/ Land(p) \/ LandReplyLost(p) \/ Reject(p) \/ Defer(p)
       \/ Reread(p) \/ RereadFails(p) \/ Settle(p)
  \/ Tick

Spec == Init /\ [][Next]_vars

-----------------------------------------------------------------------------
\* Properties.

Stores(p) == db' # db /\ stage'[p] # stage[p]

\* d1Put says the version must strictly advance: two states of the row never
\* share one, even when they are written in the same millisecond or the clock is
\* behind the row, as long as no write goes without a version.
VersionAdvances == [][db' # db /\ ~blind' => db'.ver > db.ver]_vars

\* An isolate whose version is D1's has D1's row, up to what it put itself since:
\* it is what makes the compare-and-set on the version a compare-and-set on the
\* row.  It is so in every field but those that hydrate worked out, that a merged
\* retry took from D1 and not into the copy, that putDurable found changed, or
\* that a row applied beside a write on its way lacks; an isolate whose retries
\* are used up has a version of its own making, which vouches for no field.
CurrentCopyIsTrue ==
  ~blind =>
    \A i \in Isolate :
      versions[i] # 0 /\ versions[i] = db.ver =>
        \A f \in Field \ missed[i] : UpToOwn(i, mem[i][f], db.val[f])

\* A write that carries a version, whether sent for the first time or merged, gives
\* a field of D1 only the value it was sent for or another that its isolate put
\* later than what it replaces.  No value that D1 has replaced comes back but in
\* the fields in which the writer's version vouched for too much.
NothingOldComesBack ==
  [][~blind' =>
       \A p \in Put : Stores(p) /\ write[p].expected # 0 =>
         \A f \in Field \ write[p].older :
           db'.val[f] = p \/ UpToOwn(write[p].by, db'.val[f], db.val[f])]_vars

\* What d1Put's comment says: a writer whose copy of the row is stale is rejected
\* instead of resurrecting its old copy, and the newer truth survives.
StaleWriterIsRejected ==
  [][\A p \in Put : Stores(p) /\ write[p].expected # 0 =>
       \A f \in Field : db'.val[f] = p \/ UpToOwn(write[p].by, db'.val[f], db.val[f])]_vars

\* What putDurable's comment says: when it has read the row back and returns, D1
\* holds what it wrote, or something put later, or a re-applied write is on its way.
DurablePutSurvives ==
  [][\A i \in Isolate : promised[i] # NoPromise /\ promised'[i] = NoPromise /\ db # NoRow =>
       \A f \in Field : promised[i].item[f] = promised[i].put =>
         \/ db.val[f] \in promised[i].put..MaxPuts
         \/ \E p \in Pending(i)' : f \in write'[p].fields]_vars
=============================================================================
