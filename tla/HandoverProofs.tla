--------------------------- MODULE HandoverProofs ---------------------------
(***************************************************************************)
(* Proofs about the two ways the code of a project leaves MAULI.           *)
(*                                                                         *)
(* DeployExecutor, for any projects, schemas, deploys at once and limit of *)
(* the account: a published Worker runs on tables of its own schema        *)
(* because a database never changes its name, its name says which schema   *)
(* it is for, and no id comes back: whatever was deleted, created again,   *)
(* left half-made or taken over, an id that is remembered means one        *)
(* database of one name, or none.                                          *)
(*                                                                         *)
(* ProjectDelivery, for any drafts, artifacts, edits and runs: the gates   *)
(* and the delivery judge the merged files of some order each, so the      *)
(* argument is about Merged: it is empty when the project has no file,     *)
(* whatever the order, and an edit never makes it so.                      *)
(***************************************************************************)
EXTENDS DeployExecutor, ProjectDelivery, FiniteSetTheorems, WellFoundedInduction, TLAPS

-----------------------------------------------------------------------------
\* DeployExecutor.

\* The account: its rows, and that an id is one database's.
RowsAreNamed ==
  /\ DOMAIN db \subseteq Name
  /\ \A n \in DOMAIN db : db[n] \in [id : 1..born, tables : {None, n[2]}]
IdsDiffer == \A m, n \in DOMAIN db : db[m].id = db[n].id => m = n
WithinLimit == IsFiniteSet(DOMAIN db) /\ Cardinality(DOMAIN db) <= Limit
AccountInv == born \in Nat /\ RowsAreNamed /\ IdsDiffer /\ WithinLimit

\* A deploy that has its database, until it has published.
JobTyped(d) == job[d] # Idle => job[d] \in Job /\ job[d].id <= born
OwnDatabase(d) ==
  At(d, "migrate") \/ At(d, "deploy") =>
    \A n \in Bound(job[d].id) :
      n = Target(d) /\ (At(d, "deploy") => db[n].tables = job[d].s)
JobsInv == DOMAIN job = Deployer /\ \A d \in Deployer : JobTyped(d) /\ OwnDatabase(d)

\* A published Worker.
Serves(p) ==
  worker[p] # Unbound =>
    \A n \in Bound(worker[p].id) : n[2] = worker[p].schema /\ db[n].tables = worker[p].schema
WorkerInv ==
  /\ worker \in [Project -> [schema : Schema \cup {None}, id : 0..born]]
  /\ \A p \in Project : Serves(p)

DeployInv == AccountInv /\ JobsInv /\ WorkerInv

-----------------------------------------------------------------------------
\* The account has lost some of its databases, or none; ids go on where they were.
Fewer ==
  /\ DOMAIN db' \subseteq DOMAIN db /\ \A n \in DOMAIN db' : db'[n] = db[n]
  /\ born' = born

LEMMA WithoutIsFewer ==
  ASSUME NEW n \in Name, born' = born, db' = Without(n) \/ db' = db
  PROVE  Fewer
BY DEF Without, Fewer

LEMMA FewerKeepsAccount ==
  ASSUME AccountInv, Fewer
  PROVE  AccountInv' /\ \A i : Bound(i)' \subseteq Bound(i)
<1>1. RowsAreNamed' /\ IdsDiffer' /\ born' \in Nat
  BY DEF AccountInv, RowsAreNamed, IdsDiffer, Fewer
<1>2. IsFiniteSet(DOMAIN db') /\ Cardinality(DOMAIN db') <= Cardinality(DOMAIN db)
  BY FS_Subset DEF AccountInv, WithinLimit, Fewer
<1>3. Cardinality(DOMAIN db) \in Nat /\ Cardinality(DOMAIN db') \in Nat
  BY <1>2, FS_CardinalityType DEF AccountInv, WithinLimit
<1>4. WithinLimit'
  BY <1>2, <1>3, LimitAssumption DEF AccountInv, WithinLimit
<1>5. \A i : Bound(i)' \subseteq Bound(i)
  BY DEF Bound, Fewer
<1>6. QED
  BY <1>1, <1>4, <1>5 DEF AccountInv

\* A deploy that keeps its name and its database, or gives it up, keeps its part.
LEMMA FewerKeepsJob ==
  ASSUME AccountInv, Fewer, NEW d \in Deployer, JobTyped(d), OwnDatabase(d),
         job'[d] = job[d]
  PROVE  JobTyped(d)' /\ OwnDatabase(d)'
<1>1. JobTyped(d)'
  BY DEF JobTyped, Fewer
<1>2. \A n \in Bound(job[d].id)' : n \in Bound(job[d].id) /\ db'[n] = db[n]
  BY DEF Bound, Fewer
<1>3. OwnDatabase(d)'
  BY <1>2 DEF OwnDatabase, At, Target, Bound
<1>4. QED
  BY <1>1, <1>3

LEMMA FewerKeepsWorkers ==
  ASSUME WorkerInv, Fewer, worker' = worker
  PROVE  WorkerInv'
<1>1. worker' \in [Project -> [schema : Schema \cup {None}, id : 0..born']]
  BY DEF WorkerInv, Fewer
<1>2. ASSUME NEW p \in Project PROVE Serves(p)'
  <2>1. Serves(p)
    BY DEF WorkerInv
  <2>2. \A n \in Bound(worker[p].id)' : n \in Bound(worker[p].id) /\ db'[n] = db[n]
    BY DEF Bound, Fewer
  <2>3. QED
    BY <2>1, <2>2 DEF Serves, Bound
<1>3. QED
  BY <1>1, <1>2 DEF WorkerInv

-----------------------------------------------------------------------------
LEMMA DeployInit == Init => DeployInv
<1> SUFFICES ASSUME Init PROVE DeployInv
  OBVIOUS
<1>1. DOMAIN db = {} /\ Cardinality(DOMAIN db) = 0 /\ IsFiniteSet(DOMAIN db)
  BY FS_EmptySet DEF Init
<1>2. AccountInv
  BY <1>1, LimitAssumption DEF Init, AccountInv, RowsAreNamed, IdsDiffer, WithinLimit
<1>3. JobsInv
  BY DEF Init, JobsInv, JobTyped, OwnDatabase, At
<1>4. WorkerInv
  BY DEF Init, WorkerInv, Serves, Unbound
<1>5. QED
  BY <1>2, <1>3, <1>4 DEF DeployInv

\* One deploy moves; the databases stay, or are fewer, and nothing is published.
LEMMA OneMoves ==
  ASSUME DeployInv, Fewer, worker' = worker,
         NEW d \in Deployer, NEW now, job' = [job EXCEPT ![d] = now],
         now # Idle => now \in Job /\ now.id <= born /\ now.pc \notin {"migrate", "deploy"}
  PROVE  DeployInv'
<1>1. AccountInv' /\ WorkerInv'
  BY FewerKeepsAccount, FewerKeepsWorkers DEF DeployInv
<1>2. DOMAIN job' = Deployer
  BY DEF DeployInv, JobsInv
<1>3. ASSUME NEW e \in Deployer PROVE JobTyped(e)' /\ OwnDatabase(e)'
  <2>1. CASE e # d
    BY <2>1, FewerKeepsJob DEF DeployInv, JobsInv
  <2>2. CASE e = d
    <3>1. job'[e] = now /\ born' = born
      BY <2>2 DEF DeployInv, JobsInv, Fewer
    <3>2. JobTyped(e)'
      BY <3>1 DEF JobTyped
    <3>3. ~At(e, "migrate")' /\ ~At(e, "deploy")'
      BY <3>1 DEF At
    <3>4. QED
      BY <3>2, <3>3 DEF OwnDatabase
  <2>3. QED
    BY <2>1, <2>2
<1>4. QED
  BY <1>1, <1>2, <1>3 DEF DeployInv, JobsInv

LEMMA ListKeeps ==
  ASSUME DeployInv, NEW d \in Deployer, List(d)
  PROVE  DeployInv'
<1> DEFINE n == Target(d)
<1>1. Fewer /\ worker' = worker
  BY DEF List, Fewer
<1>2. job[d] \in Job /\ job[d].id <= born /\ job[d] # Idle /\ born \in Nat
  BY DEF List, At, DeployInv, JobsInv, JobTyped, AccountInv
<1>3. CASE n \in DOMAIN db
  <2>1. job' = [job EXCEPT ![d] = [job[d] EXCEPT !.pc = "migrate", !.id = db[n].id]]
    BY <1>3 DEF List
  <2>2. db[n].id \in 1..born
    BY <1>3 DEF DeployInv, AccountInv, RowsAreNamed
  <2>3. AccountInv' /\ WorkerInv'
    BY <1>1, FewerKeepsAccount, FewerKeepsWorkers DEF DeployInv
  <2>4. DOMAIN job' = Deployer
    BY <2>1 DEF DeployInv, JobsInv
  <2>5. ASSUME NEW e \in Deployer PROVE JobTyped(e)' /\ OwnDatabase(e)'
    <3>1. CASE e # d
      BY <3>1, <2>1, <1>1, FewerKeepsJob DEF DeployInv, JobsInv
    <3>2. CASE e = d
      <4>1. /\ job'[d] = [job[d] EXCEPT !.pc = "migrate", !.id = db[n].id]
            /\ born' = born /\ db' = db
        BY <2>1 DEF DeployInv, JobsInv, List
      <4>2. job'[d] \in Job /\ job'[d].id = db[n].id /\ job'[d].pc = "migrate"
            /\ job'[d].p = job[d].p /\ job'[d].s = job[d].s
        <5>1. db[n].id \in Nat
          BY <2>2, <1>2
        <5>2. [job[d] EXCEPT !.pc = "migrate", !.id = db[n].id] \in Job
          BY <5>1, <1>2 DEF Job, Step
        <5>3. QED
          BY <4>1, <5>2, <1>2 DEF Job
      <4>3. JobTyped(d)'
        BY <4>1, <4>2, <2>2, <1>2 DEF JobTyped
      <4>4. \A m \in Bound(job[d].id)' : m = n
        BY <4>1, <4>2, <1>3 DEF Bound, DeployInv, AccountInv, IdsDiffer
      <4>5. Target(d)' = n
        BY <4>2 DEF Target
      <4>6. ~At(d, "deploy")'
        BY <4>2 DEF At
      <4>7. QED
        BY <3>2, <4>3, <4>4, <4>5, <4>6 DEF OwnDatabase
    <3>3. QED
      BY <3>1, <3>2
  <2>6. QED
    BY <2>3, <2>4, <2>5 DEF DeployInv, JobsInv
<1>4. CASE n \notin DOMAIN db
  <2>1. PICK now : /\ job' = [job EXCEPT ![d] = now]
                   /\ \/ now = [job[d] EXCEPT !.pc = "create"]
                      \/ now = [job[d] EXCEPT !.pc = "slot", !.seen = DOMAIN db,
                                              !.stale = Superseded(DOMAIN db, n, born + 1)]
    BY <1>4 DEF List
  <2>2. DOMAIN db \subseteq Name /\ Superseded(DOMAIN db, n, born + 1) \subseteq Name
    BY DEF DeployInv, AccountInv, RowsAreNamed, Superseded
  <2>3. now \in Job /\ now.id <= born /\ now.pc \notin {"migrate", "deploy"}
    BY <2>1, <2>2, <1>2 DEF Job, Step
  <2>4. QED
    BY <2>1, <2>3, <1>1, OneMoves
<1>5. QED
  BY <1>3, <1>4

LEMMA CreateKeeps ==
  ASSUME DeployInv, NEW d \in Deployer, Create(d)
  PROVE  DeployInv'
<1> DEFINE n == Target(d)
           row == [id |-> born + 1, tables |-> None]
           now == [job[d] EXCEPT !.pc = "migrate", !.id = born + 1]
<1>1. /\ job[d] \in Job /\ job[d] # Idle /\ born \in Nat
      /\ n \in Name /\ n[2] = job[d].s /\ n \notin DOMAIN db
  BY DEF Create, At, DeployInv, JobsInv, JobTyped, AccountInv, Job, Target, DatabaseName, Name
<1>2. /\ DOMAIN db' = DOMAIN db \cup {n} /\ db'[n] = row /\ born' = born + 1
      /\ \A m \in DOMAIN db : db'[m] = db[m]
      /\ worker' = worker /\ job' = [job EXCEPT ![d] = now]
  BY <1>1 DEF Create
<1>3. \A m \in DOMAIN db : db[m].id \in 1..born
  BY DEF DeployInv, AccountInv, RowsAreNamed
<1>4. RowsAreNamed' /\ IdsDiffer' /\ born' \in Nat
  <2>1. ASSUME NEW m \in DOMAIN db' PROVE m \in Name /\ db'[m] \in [id : 1..born', tables : {None, m[2]}]
    BY <2>1, <1>1, <1>2 DEF DeployInv, AccountInv, RowsAreNamed
  <2>2. IdsDiffer'
    BY <1>1, <1>2, <1>3 DEF DeployInv, AccountInv, IdsDiffer
  <2>3. QED
    BY <2>1, <2>2, <1>1, <1>2 DEF RowsAreNamed
<1>5. WithinLimit'
  <2>1. Cardinality(DOMAIN db) < Limit /\ IsFiniteSet(DOMAIN db)
    BY DEF Create, DeployInv, AccountInv, WithinLimit
  <2>2. Cardinality(DOMAIN db) \in Nat /\ IsFiniteSet(DOMAIN db \cup {n})
        /\ Cardinality(DOMAIN db \cup {n}) = Cardinality(DOMAIN db) + 1
    BY <2>1, <1>1, FS_AddElement, FS_CardinalityType
  <2>3. QED
    BY <2>1, <2>2, <1>2, LimitAssumption DEF WithinLimit
\* What is remembered is not the new database.
<1>6. \A i \in 0..born : Bound(i)' = Bound(i)
  BY <1>1, <1>2, <1>3 DEF Bound
<1>7. JobsInv'
  <2>1. DOMAIN job' = Deployer
    BY <1>2 DEF DeployInv, JobsInv
  <2>2. ASSUME NEW e \in Deployer, e # d PROVE JobTyped(e)' /\ OwnDatabase(e)'
    <3>1. job'[e] = job[e] /\ JobTyped(e) /\ OwnDatabase(e)
      BY <2>2, <1>2 DEF DeployInv, JobsInv
    <3>2. JobTyped(e)'
      BY <3>1, <1>1, <1>2 DEF JobTyped, Job
    <3>3. CASE job[e] # Idle
      <4>1. job[e].id \in 0..born
        BY <3>1, <3>3, <1>1 DEF JobTyped, Job
      <4>2. Bound(job[e].id)' = Bound(job[e].id) /\ \A m \in Bound(job[e].id) : db'[m] = db[m]
        BY <3>1, <4>1, <1>2, <1>6 DEF Bound
      <4>3. QED
        BY <3>1, <3>2, <4>2 DEF OwnDatabase, At, Target
    <3>4. CASE job[e] = Idle
      BY <3>1, <3>2, <3>4 DEF OwnDatabase, At
    <3>5. QED
      BY <3>3, <3>4
  <2>3. JobTyped(d)' /\ OwnDatabase(d)'
    <3>1. /\ job'[d] = now /\ now \in Job /\ now.id = born + 1 /\ now.pc = "migrate"
          /\ now.p = job[d].p /\ now.s = job[d].s
      <4>1. job'[d] = now
        BY <1>2 DEF DeployInv, JobsInv
      <4>2. born + 1 \in Nat /\ job[d] \in Job
        BY <1>1
      <4>3. now \in Job
        BY <4>2 DEF Job, Step
      <4>4. QED
        BY <4>1, <4>3, <1>1 DEF Job
    <3>2. JobTyped(d)'
      BY <3>1, <1>1, <1>2 DEF JobTyped
    <3>3. \A m \in Bound(job[d].id)' : m = n
      BY <3>1, <1>1, <1>2, <1>3 DEF Bound
    <3>4. Target(d)' = n /\ ~At(d, "deploy")'
      BY <3>1 DEF Target, At
    <3>5. QED
      BY <3>2, <3>3, <3>4 DEF OwnDatabase
  <2>4. QED
    BY <2>1, <2>2, <2>3 DEF JobsInv
<1>8. WorkerInv'
  <2>1. worker' \in [Project -> [schema : Schema \cup {None}, id : 0..born']]
    BY <1>1, <1>2 DEF DeployInv, WorkerInv
  <2>2. ASSUME NEW p \in Project PROVE Serves(p)'
    <3>1. worker[p].id \in 0..born /\ Serves(p) /\ worker'[p] = worker[p]
      BY <1>2 DEF DeployInv, WorkerInv
    <3>2. Bound(worker[p].id)' = Bound(worker[p].id)
          /\ \A m \in Bound(worker[p].id) : db'[m] = db[m]
      BY <3>1, <1>2, <1>6 DEF Bound
    <3>3. QED
      BY <3>1, <3>2, <1>2 DEF Serves
  <2>3. QED
    BY <2>1, <2>2 DEF WorkerInv
<1>9. QED
  BY <1>4, <1>5, <1>7, <1>8 DEF DeployInv, AccountInv

\* The only step that changes a table: from none to the schema of the database's name.
LEMMA MigrateKeeps ==
  ASSUME DeployInv, NEW d \in Deployer, Migrate(d)
  PROVE  DeployInv'
<1>1. PICK n \in Bound(job[d].id) :
        db' = [db EXCEPT ![n].tables = IF @ = None THEN job[d].s ELSE @]
  BY DEF Migrate
<1>2. /\ job[d] \in Job /\ job[d].id <= born /\ job[d] # Idle /\ born \in Nat
      /\ n \in DOMAIN db /\ n = Target(d) /\ n[2] = job[d].s
  <2>1. n = Target(d)
    BY <1>1 DEF Migrate, DeployInv, JobsInv, OwnDatabase
  <2>2. QED
    BY <1>1, <2>1 DEF Migrate, At, DeployInv, JobsInv, JobTyped, AccountInv, Bound, Target,
                      DatabaseName
<1>3. db[n] \in [id : 1..born, tables : {None, n[2]}]
  BY <1>2 DEF DeployInv, AccountInv, RowsAreNamed
<1>4. /\ DOMAIN db' = DOMAIN db /\ born' = born /\ worker' = worker
      /\ job' = [job EXCEPT ![d] = [job[d] EXCEPT !.pc = "deploy"]]
      /\ \A m \in DOMAIN db : m # n => db'[m] = db[m]
      /\ db'[n] \in [id : 1..born, tables : {None, n[2]}]
      /\ db'[n].id = db[n].id /\ db'[n].tables = n[2]
  BY <1>1, <1>2, <1>3 DEF Migrate, Goto
<1>5. \A i : Bound(i)' = Bound(i)
  BY <1>4 DEF Bound
<1>6. AccountInv'
  BY <1>4 DEF DeployInv, AccountInv, RowsAreNamed, IdsDiffer, WithinLimit
<1>7. JobsInv'
  <2>1. DOMAIN job' = Deployer
    BY <1>4 DEF DeployInv, JobsInv
  <2>2. ASSUME NEW e \in Deployer, e # d PROVE JobTyped(e)' /\ OwnDatabase(e)'
    <3>1. job'[e] = job[e] /\ JobTyped(e) /\ OwnDatabase(e)
      BY <2>2, <1>4 DEF DeployInv, JobsInv
    <3>2. \A m \in Bound(job[e].id) : m = Target(e) => m[2] = job[e].s
      BY DEF Target, DatabaseName
    <3>3. \A m \in Bound(job[e].id) : m = n \/ db'[m] = db[m]
      BY <1>4 DEF Bound
    <3>4. OwnDatabase(e)'
      BY <3>1, <3>2, <3>3, <1>4, <1>5 DEF OwnDatabase, At, Target
    <3>5. QED
      BY <3>1, <3>4, <1>4 DEF JobTyped
  <2>3. JobTyped(d)' /\ OwnDatabase(d)'
    <3>1. /\ job'[d] \in Job /\ job'[d].id = job[d].id
          /\ job'[d].p = job[d].p /\ job'[d].s = job[d].s
      BY <1>2, <1>4 DEF DeployInv, JobsInv, Job, Step
    <3>2. \A m \in Bound(job[d].id) : m = n
      BY <1>1 DEF Bound, DeployInv, AccountInv, IdsDiffer
    <3>3. Target(d)' = n
      BY <3>1, <1>2 DEF Target
    <3>4. OwnDatabase(d)'
      BY <3>1, <3>2, <3>3, <1>2, <1>4, <1>5 DEF OwnDatabase
    <3>5. QED
      BY <3>1, <3>4, <1>2, <1>4 DEF JobTyped
  <2>4. QED
    BY <2>1, <2>2, <2>3 DEF JobsInv
<1>8. WorkerInv'
  <2>1. ASSUME NEW p \in Project PROVE Serves(p)'
    <3>1. Serves(p)
      BY DEF DeployInv, WorkerInv
    <3>2. \A m \in Bound(worker[p].id) : m = n \/ db'[m] = db[m]
      BY <1>4 DEF Bound
    <3>3. QED
      BY <3>1, <3>2, <1>4, <1>5 DEF Serves
  <2>2. QED
    BY <2>1, <1>4 DEF DeployInv, WorkerInv
<1>9. QED
  BY <1>6, <1>7, <1>8 DEF DeployInv

LEMMA PublishKeeps ==
  ASSUME DeployInv, NEW d \in Deployer, Publish(d)
  PROVE  DeployInv'
<1> DEFINE now == [job[d] EXCEPT !.pc = "wait"]
           new == [schema |-> job[d].s, id |-> job[d].id]
<1>1. /\ job[d] \in Job /\ job[d].id <= born /\ job[d] # Idle /\ born \in Nat
      /\ OwnDatabase(d) /\ At(d, "deploy")
  BY DEF Publish, At, DeployInv, JobsInv, JobTyped, AccountInv
<1>2. /\ worker' = [worker EXCEPT ![job[d].p] = new] /\ job' = [job EXCEPT ![d] = now]
      /\ db' = db /\ born' = born
  BY DEF Publish, Goto
<1>3. Fewer
  BY <1>2 DEF Fewer
<1>4. now \in Job /\ now.id <= born /\ now.pc = "wait"
  BY <1>1 DEF Job, Step
<1>5. JobsInv'
  <2>1. ASSUME NEW e \in Deployer PROVE JobTyped(e)' /\ OwnDatabase(e)'
    <3>1. CASE e # d
      BY <3>1, <1>2, <1>3, FewerKeepsJob DEF DeployInv, JobsInv
    <3>2. CASE e = d
      BY <3>2, <1>2, <1>4 DEF DeployInv, JobsInv, JobTyped, OwnDatabase, At
    <3>3. QED
      BY <3>1, <3>2
  <2>2. QED
    BY <2>1, <1>2 DEF DeployInv, JobsInv
<1>6. WorkerInv'
  <2>1. worker' \in [Project -> [schema : Schema \cup {None}, id : 0..born']]
    BY <1>1, <1>2 DEF DeployInv, WorkerInv, Job
  <2>2. ASSUME NEW p \in Project PROVE Serves(p)'
    <3>1. CASE p = job[d].p
      <4>1. worker'[p] = new
        BY <3>1, <1>2 DEF DeployInv, WorkerInv
      <4>2. \A n \in Bound(job[d].id) : n[2] = job[d].s /\ db[n].tables = job[d].s
        BY <1>1 DEF OwnDatabase, Target, DatabaseName
      <4>3. QED
        BY <4>1, <4>2, <1>2 DEF Serves, Bound
    <3>2. CASE p # job[d].p
      BY <3>2, <1>2 DEF DeployInv, WorkerInv, Serves, Bound
    <3>3. QED
      BY <3>1, <3>2
  <2>3. QED
    BY <2>1, <2>2 DEF WorkerInv
<1>7. QED
  BY <1>3, <1>5, <1>6, FewerKeepsAccount DEF DeployInv

\* The steps that only walk through a listing, or delete from it.
LEMMA ReclaimKeeps ==
  ASSUME DeployInv, NEW d \in Deployer, Reclaim(d)
  PROVE  DeployInv'
<1>1. /\ job[d] \in Job /\ job[d].id <= born /\ job[d] # Idle
      /\ job[d].pc \in {"slot", "reclaim"} /\ worker' = worker /\ born' = born
  BY DEF Reclaim, At, DeployInv, JobsInv, JobTyped
<1>2. PICK n \in job[d].stale :
        \/ /\ db' = Without(n)
           /\ \E replied \in BOOLEAN :
                job' = [job EXCEPT ![d].stale = @ \ {n},
                                   ![d].seen = IF replied THEN @ \ {n} ELSE @]
        \/ db' = db /\ job' = [job EXCEPT ![d].stale = @ \ {n}]
  BY DEF Reclaim
<1>3. n \in Name
  BY <1>1, <1>2 DEF Job
<1>4. Fewer
  BY <1>1, <1>2, <1>3, WithoutIsFewer
<1>5. PICK now : /\ job' = [job EXCEPT ![d] = now]
                 /\ \/ now = [job[d] EXCEPT !.stale = @ \ {n}]
                    \/ now = [job[d] EXCEPT !.stale = @ \ {n}, !.seen = @ \ {n}]
  <2>1. CASE job' = [job EXCEPT ![d].stale = @ \ {n}]
    BY <2>1
  <2>2. CASE \E replied \in BOOLEAN :
               job' = [job EXCEPT ![d].stale = @ \ {n},
                                  ![d].seen = IF replied THEN @ \ {n} ELSE @]
    <3>1. PICK replied \in BOOLEAN :
               job' = [job EXCEPT ![d].stale = @ \ {n},
                                  ![d].seen = IF replied THEN @ \ {n} ELSE @]
      BY <2>2
    <3> DEFINE r == [job[d] EXCEPT !.stale = @ \ {n},
                                   !.seen = IF replied THEN @ \ {n} ELSE @]
    <3>2. job' = [job EXCEPT ![d] = r]
      BY <3>1 DEF DeployInv, JobsInv
    <3>3. r = [job[d] EXCEPT !.stale = @ \ {n}]
          \/ r = [job[d] EXCEPT !.stale = @ \ {n}, !.seen = @ \ {n}]
      BY <1>1 DEF Job
    <3>4. QED
      BY <3>2, <3>3
  <2>3. QED
    BY <1>2, <2>1, <2>2
<1>6. now \in Job /\ now.id <= born /\ now.pc \notin {"migrate", "deploy"}
  BY <1>1, <1>5 DEF Job, Step
<1>7. QED
  BY <1>1, <1>4, <1>5, <1>6, OneMoves

LEMMA OthersKeep ==
  ASSUME DeployInv, NEW d \in Deployer,
         Deploy(d) \/ Fail(d) \/ SlotFound(d) \/ Ready(d) \/ Relist(d) \/ Finish(d)
  PROVE  DeployInv'
<1>1. Fewer /\ worker' = worker /\ born \in Nat
  BY DEF Deploy, Fail, SlotFound, Ready, Relist, Finish, Fewer, DeployInv, AccountInv
<1>2. ASSUME job[d] # Idle PROVE job[d] \in Job /\ job[d].id <= born
  BY <1>2 DEF DeployInv, JobsInv, JobTyped
<1>3. \E now : /\ job' = [job EXCEPT ![d] = now]
               /\ now # Idle => now \in Job /\ now.id <= born
                                /\ now.pc \notin {"migrate", "deploy"}
  <2>1. CASE Deploy(d)
    <3>1. PICK p \in Project, s \in Schema :
            job' = [job EXCEPT ![d] = [pc |-> "list", p |-> p, s |-> s, seen |-> {},
                                       stale |-> {}, id |-> 0]]
      BY <2>1 DEF Deploy
    <3> DEFINE now == [pc |-> "list", p |-> p, s |-> s, seen |-> {}, stale |-> {}, id |-> 0]
    <3>2. now \in Job
      BY DEF Job, Step
    <3>3. now.id <= born /\ now.pc = "list"
      BY <1>1
    <3>4. QED
      BY <3>1, <3>2, <3>3
  <2>2. CASE Fail(d) \/ Finish(d)
    BY <2>2 DEF Fail, Finish
  <2>3. CASE SlotFound(d)
    <3>1. \/ job' = [job EXCEPT ![d] = Idle]
          \/ job' = [job EXCEPT ![d] = [job[d] EXCEPT !.pc = "create", !.seen = {}]]
      BY <2>3 DEF SlotFound, DeployInv, JobsInv
    <3>2. [job[d] EXCEPT !.pc = "create", !.seen = {}] \in Job
          /\ [job[d] EXCEPT !.pc = "create", !.seen = {}].id = job[d].id
          /\ [job[d] EXCEPT !.pc = "create", !.seen = {}].pc = "create"
      BY <2>3, <1>2 DEF SlotFound, At, Job, Step
    <3>3. QED
      BY <2>3, <3>1, <3>2, <1>2 DEF SlotFound, At
  <2>4. CASE Ready(d)
    <3>1. job' = [job EXCEPT ![d] = [job[d] EXCEPT !.pc = "relist"]]
      BY <2>4 DEF Ready, Goto
    <3> DEFINE now == [job[d] EXCEPT !.pc = "relist"]
    <3>2. now \in Job
      BY <2>4, <1>2 DEF Ready, At, Job, Step
    <3>3. now.id = job[d].id /\ now.pc = "relist"
      BY <2>4, <1>2 DEF Ready, At, Job
    <3>4. QED
      BY <2>4, <3>1, <3>2, <3>3, <1>2 DEF Ready, At
  <2>5. CASE Relist(d)
    <3>1. PICK names \in SUBSET Name :
            job' = [job EXCEPT ![d] = [job[d] EXCEPT !.pc = "reclaim", !.stale = names]]
      BY <2>5 DEF Relist, Superseded, DeployInv, AccountInv, RowsAreNamed, JobsInv
    <3>2. [job[d] EXCEPT !.pc = "reclaim", !.stale = names] \in Job
      BY <2>5, <1>2 DEF Relist, At, Job, Step
    <3>3. QED
      BY <2>5, <3>1, <3>2, <1>2 DEF Relist, At, Job
  <2>6. QED
    BY <2>1, <2>2, <2>3, <2>4, <2>5
<1>4. QED
  BY <1>1, <1>3, OneMoves

LEMMA DeployNext == DeployInv /\ [Next]_vars => DeployInv'
<1> SUFFICES ASSUME DeployInv, [Next]_vars PROVE DeployInv'
  OBVIOUS
<1>1. ASSUME Fewer, worker' = worker, job' = job PROVE DeployInv'
  <2>1. \A d \in Deployer : JobTyped(d)' /\ OwnDatabase(d)'
    BY <1>1, FewerKeepsJob DEF DeployInv, JobsInv
  <2>2. QED
    BY <1>1, <2>1, FewerKeepsAccount, FewerKeepsWorkers DEF DeployInv, JobsInv
<1>2. ASSUME NEW d \in Deployer,
             \/ Deploy(d) \/ Fail(d) \/ List(d) \/ Reclaim(d) \/ SlotFound(d) \/ Create(d)
             \/ Migrate(d) \/ Publish(d) \/ Ready(d) \/ Relist(d) \/ Finish(d)
      PROVE  DeployInv'
  BY <1>2, ListKeeps, ReclaimKeeps, CreateKeeps, MigrateKeeps, PublishKeeps, OthersKeep
<1>3. ASSUME NEW p \in Project, Propagate(p) PROVE DeployInv'
  BY <1>1, <1>3 DEF Propagate, Fewer
<1>4. CASE PlanHygiene
  BY <1>1, <1>4 DEF PlanHygiene, Fewer
<1>5. CASE DeletePlanned
  <2>1. PICK n \in plan : db' = Without(n) \/ db' = db
    BY <1>5 DEF DeletePlanned
  <2>2. Fewer
    BY <1>5, <2>1 DEF DeletePlanned, Fewer, Without
  <2>3. QED
    BY <1>1, <1>5, <2>2 DEF DeletePlanned
<1>6. CASE Done \/ UNCHANGED vars
  BY <1>1, <1>6 DEF Done, vars, Fewer
<1>7. QED
  BY <1>2, <1>3, <1>4, <1>5, <1>6 DEF Next

\* The account, the deploys under way and what is published stay as described above.
THEOREM DeployInvariant == Spec => []DeployInv
BY DeployInit, DeployNext, PTL DEF Spec

\* DeployExecutor!TablesMatch: whatever is reused, killed half way or created again, a
\* published Worker's database, if it is there, has the tables of the Worker's schema.
THEOREM TablesMatchHolds == Spec => []TablesMatch
<1>1. DeployInv => TablesMatch
  BY DEF DeployInv, WorkerInv, Serves, TablesMatch
<1>2. QED
  BY <1>1, DeployInvariant, PTL

-----------------------------------------------------------------------------
(* The database of what is published.                                       *)
\* A deploy deletes names of its own project, and never the one it uses.
DeletesItsOwn(d) ==
  job[d] # Idle => \A m \in job[d].stale : m[1] = job[d].p /\ m # Target(d)

On(p) == {d \in Deployer : job[d] # Idle /\ job[d].p = p}
Published == {"wait", "relist", "reclaim"}

\* A project nobody disturbs: one deploy at most and none beside the cleanup; what is
\* published is there, and so is what is about to be; what the deploy has published, and will
\* clean up around, is its own database.
Undisturbed(p) ==
  p \notin excused =>
    /\ \A d, e \in On(p) : d = e
    /\ On(p) # {} => plan = {}
    /\ worker[p] # Unbound =>
         /\ Bound(worker[p].id) # {} /\ Bound(worker[p].id) \cap plan = {}
         /\ \A n \in Bound(worker[p].id) : n[1] = p
    /\ \A d \in On(p) : job[d].pc = "deploy" => Bound(job[d].id) # {}
    /\ \A d \in On(p) : job[d].pc \in Published =>
         /\ worker[p] # Unbound /\ worker[p].id = job[d].id
         /\ \A n \in Bound(worker[p].id) : n = Target(d)

CareInv ==
  /\ DeployInv
  /\ \A d \in Deployer : DeletesItsOwn(d)
  /\ \A p \in Project : Undisturbed(p)

LEMMA CareInit == Init => CareInv
BY DeployInit DEF Init, CareInv, DeletesItsOwn, Undisturbed, On

-----------------------------------------------------------------------------
LEMMA DeletesItsOwnNext ==
  ASSUME DeployInv, [Next]_vars, NEW d \in Deployer, DeletesItsOwn(d)
  PROVE  DeletesItsOwn(d)'
<1> USE DEF DeployInv, JobsInv
<1>1. CASE job'[d] = job[d]
  BY <1>1 DEF DeletesItsOwn, Target
<1>2. ASSUME NEW e \in Deployer,
             \/ Deploy(e) \/ Fail(e) \/ List(e) \/ Reclaim(e) \/ SlotFound(e) \/ Create(e)
             \/ Migrate(e) \/ Publish(e) \/ Ready(e) \/ Relist(e) \/ Finish(e)
      PROVE  DeletesItsOwn(d)'
  <2>1. CASE e # d
    <3>1. job'[d] = job[d]
      BY <1>2, <2>1 DEF Deploy, Fail, List, Reclaim, SlotFound, Create, Migrate, Publish, Ready,
                        Relist, Finish, Goto
    <3>2. QED
      BY <1>1, <3>1
  <2>2. CASE e = d
    <3>1. job[d] # Idle => job[d] \in Job
      BY DEF JobTyped
    <3>2. CASE Deploy(d) \/ Fail(d) \/ SlotFound(d) \/ Finish(d)
      <4>1. job'[d] = Idle \/ job'[d].stale = {} \/
            /\ job[d] # Idle /\ job'[d].p = job[d].p /\ job'[d].s = job[d].s
            /\ job'[d].stale = job[d].stale
        BY <3>1, <3>2 DEF Deploy, Fail, SlotFound, Finish, At, Job
      <4>2. QED
        BY <4>1 DEF DeletesItsOwn, Target
    <3>3. CASE List(d)
      <4>1. /\ job[d] \in Job /\ job[d] # Idle
            /\ job'[d].p = job[d].p /\ job'[d].s = job[d].s
            /\ \/ job'[d].stale = job[d].stale
               \/ job'[d].stale = Superseded(DOMAIN db, Target(d), born + 1)
        BY <3>1, <3>3 DEF List, At, Job
      <4>2. \A m \in Superseded(DOMAIN db, Target(d), born + 1) : m[1] = job[d].p /\ m # Target(d)
        BY DEF Superseded, Target, DatabaseName
      <4>3. QED
        BY <4>1, <4>2 DEF DeletesItsOwn, Target
    <3>4. CASE Relist(d)
      <4>1. PICK ceiling : job' = [job EXCEPT ![d] =
              [job[d] EXCEPT !.pc = "reclaim", !.stale = Superseded(DOMAIN db, Target(d), ceiling)]]
        BY <3>4 DEF Relist
      <4>2. /\ job[d] \in Job /\ job[d] # Idle
            /\ job'[d].p = job[d].p /\ job'[d].s = job[d].s
            /\ job'[d].stale = Superseded(DOMAIN db, Target(d), ceiling)
        BY <3>1, <3>4, <4>1 DEF Relist, At, Job
      <4>3. \A m \in Superseded(DOMAIN db, Target(d), ceiling) : m[1] = job[d].p /\ m # Target(d)
        BY DEF Superseded, Target, DatabaseName
      <4>4. QED
        BY <4>2, <4>3 DEF DeletesItsOwn, Target
    <3>5. CASE Reclaim(d)
      <4>1. job[d] \in Job /\ job[d] # Idle
        BY <3>1, <3>5 DEF Reclaim, At
      <4>2. PICK n \in job[d].stale :
              \/ \E replied \in BOOLEAN :
                   job' = [job EXCEPT ![d].stale = @ \ {n},
                                      ![d].seen = IF replied THEN @ \ {n} ELSE @]
              \/ job' = [job EXCEPT ![d].stale = @ \ {n}]
        BY <3>5 DEF Reclaim
      <4>3. CASE job' = [job EXCEPT ![d].stale = @ \ {n}]
        BY <4>1, <4>3 DEF DeletesItsOwn, Target, Job
      <4>4. ASSUME NEW replied \in BOOLEAN,
                   job' = [job EXCEPT ![d].stale = @ \ {n},
                                      ![d].seen = IF replied THEN @ \ {n} ELSE @]
            PROVE  DeletesItsOwn(d)'
        <5>1. /\ job'[d].p = job[d].p /\ job'[d].s = job[d].s
              /\ job'[d].stale = job[d].stale \ {n}
          BY <4>1, <4>4 DEF Job
        <5>2. QED
          BY <4>1, <5>1 DEF DeletesItsOwn, Target
      <4>5. QED
        BY <4>2, <4>3, <4>4
    <3>6. CASE Create(d)
      <4>1. job[d] \in Job /\ job[d] # Idle
        BY <3>1, <3>6 DEF Create, At
      <4>2. /\ job'[d].p = job[d].p /\ job'[d].s = job[d].s
            /\ job'[d].stale = job[d].stale
        BY <4>1, <3>6 DEF Create, Job
      <4>3. QED
        BY <4>1, <4>2 DEF DeletesItsOwn, Target
    <3>7. CASE Migrate(d) \/ Publish(d) \/ Ready(d)
      <4>1. job[d] \in Job /\ job[d] # Idle
        BY <3>1, <3>7 DEF Migrate, Publish, Ready, At
      <4>2. PICK step : job' = [job EXCEPT ![d].pc = step]
        BY <3>7 DEF Migrate, Publish, Ready, Goto
      <4>3. /\ job'[d].p = job[d].p /\ job'[d].s = job[d].s
            /\ job'[d].stale = job[d].stale
        BY <4>1, <4>2 DEF Job
      <4>4. QED
        BY <4>1, <4>3 DEF DeletesItsOwn, Target
    <3>8. QED
      BY <1>2, <2>2, <3>2, <3>3, <3>4, <3>5, <3>6, <3>7
  <2>3. QED
    BY <2>1, <2>2
<1>3. CASE \/ \E p \in Project : Propagate(p)
           \/ PlanHygiene \/ DeletePlanned \/ Done \/ UNCHANGED vars
  BY <1>1, <1>3 DEF Propagate, PlanHygiene, DeletePlanned, Done, vars
<1>4. QED
  BY <1>2, <1>3 DEF Next

-----------------------------------------------------------------------------
\* What a project rests on: the database it publishes, or is about to.
Needed(p) ==
  {n \in DOMAIN db :
     \/ worker[p] # Unbound /\ n \in Bound(worker[p].id)
     \/ \E d \in On(p) : job[d].pc = "deploy" /\ n \in Bound(job[d].id)}

\* A step after which the project's deploys are where they were, or where nothing is asked of
\* them, and what it rests on is there.
LEMMA StaysUndisturbed ==
  ASSUME DeployInv, NEW p \in Project, p \notin excused, Undisturbed(p),
         worker'[p] = worker[p], plan' \subseteq plan,
         \A i \in 0..born : Bound(i)' \subseteq Bound(i),
         \A n \in Needed(p) : n \in DOMAIN db' /\ db'[n].id = db[n].id,
         \A d \in On(p)' :
           /\ d \in On(p)
           /\ job'[d].pc \in Published \cup {"deploy"} =>
                job'[d].id = job[d].id /\ job'[d].s = job[d].s /\ job'[d].p = job[d].p
           /\ job'[d].pc = "deploy" => job[d].pc = "deploy" \/ Bound(job[d].id)' # {}
           /\ job'[d].pc \in Published => job[d].pc \in Published
  PROVE  Undisturbed(p)'
<1>1. worker[p].id \in 0..born
  BY DEF DeployInv, WorkerInv
<1>2. \A d \in On(p) : job[d].id \in 0..born
  BY DEF On, DeployInv, JobsInv, JobTyped, Job, AccountInv
<1>3. /\ \A d, e \in On(p)' : d = e
      /\ On(p)' # {} => plan' = {}
  BY DEF Undisturbed
<1>4. ASSUME worker'[p] # Unbound
      PROVE  /\ Bound(worker[p].id)' # {} /\ Bound(worker[p].id)' \cap plan' = {}
             /\ \A n \in Bound(worker[p].id)' : n[1] = p
  <2>1. Bound(worker[p].id)' \subseteq Bound(worker[p].id)
    <3>1. \A i \in 0..born : {n \in DOMAIN db' : db'[n].id = i} \subseteq {n \in DOMAIN db : db[n].id = i}
      BY DEF Bound
    <3>2. QED
      BY <1>1, <3>1 DEF Bound
  <2>2. PICK n \in Bound(worker[p].id) : TRUE
    BY <1>4 DEF Undisturbed
  <2>3. n \in Bound(worker[p].id)'
    BY <1>4, <2>2 DEF Needed, Bound
  <2>4. QED
    BY <1>4, <2>1, <2>3 DEF Undisturbed
<1>5. ASSUME NEW d \in On(p)', job'[d].pc = "deploy"
      PROVE  Bound(job[d].id)' # {}
  <2>1. /\ d \in On(p) /\ job'[d].id = job[d].id
        /\ job[d].pc = "deploy" \/ Bound(job[d].id)' # {}
    BY <1>5
  <2> SUFFICES ASSUME job[d].pc = "deploy" PROVE Bound(job[d].id)' # {}
    BY <2>1
  <2>2. PICK n \in Bound(job[d].id) : TRUE
    BY <2>1 DEF Undisturbed
  <2>3. n \in Bound(job[d].id)'
    BY <2>1, <2>2 DEF Needed, Bound
  <2>4. QED
    BY <2>3
<1>6. ASSUME NEW d \in On(p)', job'[d].pc \in Published
      PROVE  /\ worker'[p] # Unbound /\ worker'[p].id = job'[d].id
             /\ \A n \in Bound(worker[p].id)' : n = Target(d)'
  <2>1. /\ d \in On(p) /\ job[d].pc \in Published /\ job'[d].id = job[d].id
        /\ Target(d)' = Target(d)
    BY <1>6 DEF Target
  <2>2. Bound(worker[p].id)' \subseteq Bound(worker[p].id)
    <3>1. \A i \in 0..born : {n \in DOMAIN db' : db'[n].id = i} \subseteq {n \in DOMAIN db : db[n].id = i}
      BY DEF Bound
    <3>2. QED
      BY <1>1, <3>1 DEF Bound
  <2>3. QED
    BY <2>1, <2>2 DEF Undisturbed
<1>7. QED
  BY <1>3, <1>4, <1>5, <1>6 DEF Undisturbed

-----------------------------------------------------------------------------
\* What a project rests on has its name.
LEMMA NeededIsOwn ==
  ASSUME DeployInv, NEW p \in Project, p \notin excused, Undisturbed(p), NEW n \in Needed(p)
  PROVE  n[1] = p
<1>1. CASE worker[p] # Unbound /\ n \in Bound(worker[p].id)
  BY <1>1 DEF Undisturbed
<1>2. ASSUME NEW d \in On(p), job[d].pc = "deploy", n \in Bound(job[d].id)
      PROVE  n[1] = p
  BY <1>2 DEF DeployInv, JobsInv, OwnDatabase, At, On, Target, DatabaseName
<1>3. QED
  BY <1>1, <1>2 DEF Needed

\* A deploy walks on without a call that changes anything: nothing becomes published by it.
LEMMA WalkStaysUndisturbed ==
  ASSUME DeployInv, NEW p \in Project, p \notin excused, Undisturbed(p),
         worker' = worker, plan' = plan, db' = db,
         NEW d \in Deployer, NEW now, job' = [job EXCEPT ![d] = now], job[d] # Idle,
         now # Idle =>
           /\ now.p = job[d].p /\ now.s = job[d].s /\ now.pc # "deploy"
           /\ now.pc \in Published => job[d].pc \in Published /\ now.id = job[d].id
  PROVE  Undisturbed(p)'
<1>1. \A i \in 0..born : Bound(i)' \subseteq Bound(i)
  BY DEF Bound
<1>2. \A n \in Needed(p) : n \in DOMAIN db' /\ db'[n].id = db[n].id
  BY DEF Needed
<1>3. ASSUME NEW e \in On(p)'
      PROVE  /\ e \in On(p)
             /\ job'[e].pc \in Published \cup {"deploy"} =>
                  job'[e].id = job[e].id /\ job'[e].s = job[e].s /\ job'[e].p = job[e].p
             /\ job'[e].pc = "deploy" => job[e].pc = "deploy" \/ Bound(job[e].id)' # {}
             /\ job'[e].pc \in Published => job[e].pc \in Published
  <2>1. CASE e = d
    <3>1. job'[d] = now
      BY DEF DeployInv, JobsInv
    <3>2. QED
      BY <2>1, <3>1, <1>3 DEF On
  <2>2. CASE e # d
    BY <2>2, <1>3 DEF On
  <2>3. QED
    BY <2>1, <2>2
<1>4. QED
  BY <1>1, <1>2, <1>3, StaysUndisturbed

LEMMA WalksKeep ==
  ASSUME DeployInv, NEW p \in Project, Undisturbed(p), NEW d \in Deployer,
         Fail(d) \/ List(d) \/ SlotFound(d) \/ Ready(d) \/ Relist(d) \/ Finish(d)
  PROVE  Undisturbed(p)'
<1>1. CASE p \in excused
  BY <1>1 DEF Fail, List, SlotFound, Ready, Relist, Finish, Undisturbed
<1>2. CASE p \notin excused
  <2>1. /\ job[d] # Idle /\ job[d] \in Job
        /\ worker' = worker /\ plan' = plan /\ db' = db
    BY DEF Fail, List, SlotFound, Ready, Relist, Finish, At, DeployInv, JobsInv, JobTyped
  <2>2. ASSUME NEW now, job' = [job EXCEPT ![d] = now],
               now # Idle =>
                 /\ now.p = job[d].p /\ now.s = job[d].s /\ now.pc # "deploy"
                 /\ now.pc \in Published => job[d].pc \in Published /\ now.id = job[d].id
        PROVE  Undisturbed(p)'
    BY <1>2, <2>1, <2>2, WalkStaysUndisturbed
  <2>3. CASE Fail(d) \/ Finish(d)
    BY <2>2, <2>3 DEF Fail, Finish
  <2>4. CASE List(d)
    <3> DEFINE n == Target(d)
               older == Superseded(DOMAIN db, n, born + 1)
               found == [job[d] EXCEPT !.pc = "migrate", !.id = db[n].id]
               room == [job[d] EXCEPT !.pc = "create"]
               full == [job[d] EXCEPT !.pc = "slot", !.seen = DOMAIN db, !.stale = older]
    <3>1. \/ job' = [job EXCEPT ![d] = found]
          \/ job' = [job EXCEPT ![d] = room]
          \/ job' = [job EXCEPT ![d] = full]
      BY <2>4 DEF List
    <3>2. \A now \in {found, room, full} :
            now.p = job[d].p /\ now.s = job[d].s /\ now.pc \in {"migrate", "create", "slot"}
      BY <2>1 DEF Job
    <3>3. \A now \in {found, room, full} : now.pc # "deploy" /\ now.pc \notin Published
      BY <3>2 DEF Published
    <3> HIDE DEF found, room, full
    <3>4. QED
      BY <2>2, <3>1, <3>2, <3>3
  <2>5. CASE SlotFound(d)
    <3> DEFINE now == [job[d] EXCEPT !.pc = "create", !.seen = {}]
    <3>1. job' = [job EXCEPT ![d] = Idle] \/ job' = [job EXCEPT ![d] = now]
      BY <2>5 DEF SlotFound, DeployInv, JobsInv
    <3>2. now.p = job[d].p /\ now.s = job[d].s /\ now.pc = "create"
      BY <2>1 DEF Job
    <3> HIDE DEF now
    <3>3. QED
      BY <2>2, <3>1, <3>2 DEF Published
  <2>6. CASE Ready(d)
    <3> DEFINE now == [job[d] EXCEPT !.pc = "relist"]
    <3>1. job' = [job EXCEPT ![d] = now] /\ job[d].pc = "wait"
      BY <2>6 DEF Ready, Goto, At
    <3>2. now.p = job[d].p /\ now.s = job[d].s /\ now.pc = "relist" /\ now.id = job[d].id
      BY <2>1 DEF Job
    <3> HIDE DEF now
    <3>3. QED
      BY <2>2, <3>1, <3>2 DEF Published
  <2>7. CASE Relist(d)
    <3>1. PICK names : job' = [job EXCEPT ![d] =
                                [job[d] EXCEPT !.pc = "reclaim", !.stale = names]]
      BY <2>7 DEF Relist, DeployInv, JobsInv
    <3> DEFINE now == [job[d] EXCEPT !.pc = "reclaim", !.stale = names]
    <3>2. now.p = job[d].p /\ now.s = job[d].s /\ now.pc = "reclaim" /\ now.id = job[d].id
      BY <2>1 DEF Job
    <3>3. job[d].pc = "relist"
      BY <2>7 DEF Relist, At
    <3> HIDE DEF now
    <3>4. QED
      BY <2>2, <3>1, <3>2, <3>3 DEF Published, now
  <2>8. QED
    BY <2>3, <2>4, <2>5, <2>6, <2>7
<1>3. QED
  BY <1>1, <1>2

\* A deploy that begins beside another or beside the cleanup is excused.
LEMMA DeployKeeps ==
  ASSUME DeployInv, NEW p \in Project, Undisturbed(p), NEW d \in Deployer, Deploy(d),
         p \notin excused'
  PROVE  Undisturbed(p)'
<1> DEFINE begun(q, s) == [pc |-> "list", p |-> q, s |-> s, seen |-> {}, stale |-> {}, id |-> 0]
<1>1. PICK q \in Project, s \in Schema :
        /\ job' = [job EXCEPT ![d] = begun(q, s)]
        /\ excused' = IF Others(q, d) # {} \/ plan # {} THEN excused \cup {q} ELSE excused
  BY DEF Deploy
<1>2. /\ p \notin excused /\ job[d] = Idle /\ job'[d] = begun(q, s)
      /\ worker' = worker /\ plan' = plan /\ db' = db
  BY <1>1 DEF Deploy, DeployInv, JobsInv
<1>3. CASE q = p
  <2>1. Others(p, d) = {} /\ plan = {}
    BY <1>1, <1>2, <1>3
  <2>2. \A e \in On(p)' : e = d
    BY <1>1, <2>1 DEF On, Others
  <2>3. job'[d].pc = "list"
    BY <1>2
  <2>4. QED
    BY <1>2, <2>1, <2>2, <2>3 DEF Undisturbed, Bound, Published
<1>4. CASE q # p
  <2>1. \A e \in On(p)' : e \in On(p) /\ job'[e] = job[e]
    BY <1>1, <1>2, <1>4 DEF On
  <2>2. \A i \in 0..born : Bound(i)' \subseteq Bound(i)
    BY <1>2 DEF Bound
  <2>3. \A n \in Needed(p) : n \in DOMAIN db' /\ db'[n].id = db[n].id
    BY <1>2 DEF Needed
  <2>4. QED
    BY <1>2, <2>1, <2>2, <2>3, StaysUndisturbed
<1>5. QED
  BY <1>3, <1>4

\* What is created has an id of its own.
LEMMA CreateStaysUndisturbed ==
  ASSUME DeployInv, NEW p \in Project, Undisturbed(p), NEW d \in Deployer, Create(d)
  PROVE  Undisturbed(p)'
<1>1. CASE p \in excused
  BY <1>1 DEF Create, Undisturbed
<1>2. CASE p \notin excused
  <2> DEFINE now == [job[d] EXCEPT !.pc = "migrate", !.id = born + 1]
  <2>1. /\ job[d] \in Job /\ job[d] # Idle /\ born \in Nat /\ Target(d) \notin DOMAIN db
        /\ job' = [job EXCEPT ![d] = now] /\ worker' = worker /\ plan' = plan
        /\ DOMAIN db' = DOMAIN db \cup {Target(d)} /\ db'[Target(d)].id = born + 1
        /\ \A n \in DOMAIN db : db'[n] = db[n]
    BY DEF Create, At, DeployInv, JobsInv, JobTyped, AccountInv
  <2>2. job'[d] = now /\ now.p = job[d].p /\ now.pc = "migrate"
    BY <2>1 DEF DeployInv, JobsInv, Job
  <2>3. \A i \in 0..born : Bound(i)' \subseteq Bound(i)
    BY <2>1 DEF Bound
  <2>4. \A n \in Needed(p) : n \in DOMAIN db' /\ db'[n].id = db[n].id
    BY <2>1 DEF Needed
  <2>5. \A e \in Deployer : e # d => job'[e] = job[e]
    BY <2>1 DEF DeployInv, JobsInv
  <2> HIDE DEF now
  <2>6. ASSUME NEW e \in On(p)'
        PROVE  /\ e \in On(p)
               /\ job'[e].pc \in Published \cup {"deploy"} => job'[e] = job[e]
    BY <2>1, <2>2, <2>5, <2>6 DEF On, Published
  <2>7. QED
    BY <1>2, <2>1, <2>3, <2>4, <2>6, StaysUndisturbed
<1>3. QED
  BY <1>1, <1>2

\* A deletion hits what another project rests on never, and the deploy's own project only
\* before its Worker has moved to the new database.
LEMMA ReclaimStaysUndisturbed ==
  ASSUME DeployInv, NEW p \in Project, Undisturbed(p), NEW d \in Deployer, DeletesItsOwn(d),
         Reclaim(d), p \notin excused'
  PROVE  Undisturbed(p)'
<1>1. /\ job[d] \in Job /\ job[d] # Idle /\ job[d].pc \in {"slot", "reclaim"}
      /\ worker' = worker /\ plan' = plan /\ born' = born
  BY DEF Reclaim, At, DeployInv, JobsInv, JobTyped
<1>2. PICK n \in job[d].stale :
        \/ /\ db' = Without(n)
           /\ job[d].pc = "slot" => excused' = excused \cup {job[d].p}
           /\ \E replied \in BOOLEAN :
                job' = [job EXCEPT ![d].stale = @ \ {n},
                                   ![d].seen = IF replied THEN @ \ {n} ELSE @]
        \/ db' = db /\ job' = [job EXCEPT ![d].stale = @ \ {n}]
  BY <1>1 DEF Reclaim, At
<1>3. p \notin excused
  BY DEF Reclaim
<1>4. /\ job'[d].p = job[d].p /\ job'[d].s = job[d].s /\ job'[d].pc = job[d].pc
      /\ job'[d].id = job[d].id /\ \A e \in Deployer : e # d => job'[e] = job[e]
  <2>1. CASE job' = [job EXCEPT ![d].stale = @ \ {n}]
    BY <1>1, <2>1 DEF DeployInv, JobsInv, Job
  <2>2. ASSUME NEW replied \in BOOLEAN,
               job' = [job EXCEPT ![d].stale = @ \ {n},
                                  ![d].seen = IF replied THEN @ \ {n} ELSE @]
        PROVE  /\ job'[d].p = job[d].p /\ job'[d].s = job[d].s /\ job'[d].pc = job[d].pc
               /\ job'[d].id = job[d].id /\ \A e \in Deployer : e # d => job'[e] = job[e]
    BY <1>1, <2>2 DEF DeployInv, JobsInv, Job
  <2>3. QED
    BY <1>2, <2>1, <2>2
<1>5. \A i \in 0..born : Bound(i)' \subseteq Bound(i)
  BY <1>2 DEF Bound, Without
<1>6. ASSUME NEW m \in Needed(p) PROVE m \in DOMAIN db' /\ db'[m].id = db[m].id
  <2>1. m \in DOMAIN db
    BY DEF Needed
  <2>2. CASE db' = db
    BY <2>1, <2>2
  <2>3. CASE db' = Without(n) /\ m # n
    BY <2>1, <2>3 DEF Without
  <2>4. CASE db' # db /\ m = n
    <3>1. n[1] = job[d].p /\ n # Target(d)
      BY <1>1, <1>2 DEF DeletesItsOwn
    <3>2. job[d].p = p
      BY <3>1, <2>4, <1>3, NeededIsOwn
    <3>3. job[d].pc = "reclaim" /\ d \in On(p)
      BY <3>2, <2>4, <1>1, <1>2 DEF On
    <3>4. \A e \in On(p) : job[e].pc # "deploy"
      BY <3>3, <1>3 DEF Undisturbed
    <3>5. worker[p] # Unbound /\ m \in Bound(worker[p].id)
      BY <3>4 DEF Needed
    <3>6. m = Target(d)
      BY <3>3, <3>5, <1>3 DEF Undisturbed, Published
    <3>7. QED
      BY <3>1, <3>6, <2>4
  <2>5. QED
    BY <1>2, <2>2, <2>3, <2>4
<1>7. \A e \in On(p)' : /\ e \in On(p) /\ job'[e].pc = job[e].pc /\ job'[e].id = job[e].id
                        /\ job'[e].p = job[e].p /\ job'[e].s = job[e].s
  BY <1>1, <1>4 DEF On
<1>8. QED
  BY <1>1, <1>3, <1>5, <1>6, <1>7, StaysUndisturbed

\* The database is there when its migrations have been applied.
LEMMA MigrateStaysUndisturbed ==
  ASSUME DeployInv, NEW p \in Project, Undisturbed(p), NEW d \in Deployer, Migrate(d)
  PROVE  Undisturbed(p)'
<1>1. CASE p \in excused
  BY <1>1 DEF Migrate, Undisturbed
<1>2. CASE p \notin excused
  <2>1. PICK n \in Bound(job[d].id) :
          db' = [db EXCEPT ![n].tables = IF @ = None THEN job[d].s ELSE @]
    BY DEF Migrate
  <2>2. /\ job[d] \in Job /\ job[d] # Idle /\ n \in DOMAIN db
        /\ db[n] \in [id : 1..born, tables : {None, n[2]}]
        /\ job' = [job EXCEPT ![d].pc = "deploy"] /\ worker' = worker /\ plan' = plan
    BY <2>1 DEF Migrate, At, Goto, Bound, DeployInv, JobsInv, JobTyped, AccountInv, RowsAreNamed
  <2>3. DOMAIN db' = DOMAIN db /\ \A m \in DOMAIN db : db'[m].id = db[m].id
    BY <2>1, <2>2
  <2>4. \A i : Bound(i)' = Bound(i)
    BY <2>3 DEF Bound
  <2>5. /\ job'[d].p = job[d].p /\ job'[d].s = job[d].s /\ job'[d].id = job[d].id
        /\ job'[d].pc = "deploy" /\ \A e \in Deployer : e # d => job'[e] = job[e]
    BY <2>2 DEF DeployInv, JobsInv, Job
  <2>6. Bound(job[d].id)' # {}
    <3>1. {m \in DOMAIN db' : db'[m].id = job[d].id} = Bound(job[d].id)
      BY <2>3 DEF Bound
    <3>2. Bound(job[d].id)' = {m \in DOMAIN db' : db'[m].id = job'[d].id}
      BY DEF Bound
    <3>3. QED
      BY <2>1, <2>5, <3>1, <3>2
  <2>7. ASSUME NEW e \in On(p)'
        PROVE  /\ e \in On(p)
               /\ job'[e].id = job[e].id /\ job'[e].s = job[e].s /\ job'[e].p = job[e].p
               /\ job'[e].pc = "deploy" => job[e].pc = "deploy" \/ Bound(job[e].id)' # {}
               /\ job'[e].pc \in Published => job[e].pc \in Published
    BY <2>2, <2>5, <2>6, <2>7 DEF On, Published
  <2>8. \A m \in Needed(p) : m \in DOMAIN db' /\ db'[m].id = db[m].id
    BY <2>3 DEF Needed
  <2>9. \A i \in 0..born : Bound(i)' \subseteq Bound(i)
    BY <2>4
  <2>10. QED
    BY <1>2, <2>2, <2>7, <2>8, <2>9, StaysUndisturbed
<1>3. QED
  BY <1>1, <1>2

\* Published alone, with its database there, a project is undisturbed again.
LEMMA PublishStaysUndisturbed ==
  ASSUME DeployInv, NEW p \in Project, Undisturbed(p), NEW d \in Deployer, Publish(d),
         p \notin excused'
  PROVE  Undisturbed(p)'
<1> DEFINE new == [schema |-> job[d].s, id |-> job[d].id]
<1>1. /\ job[d] \in Job /\ job[d] # Idle /\ job[d].pc = "deploy" /\ born \in Nat
      /\ worker' = [worker EXCEPT ![job[d].p] = new]
      /\ job' = [job EXCEPT ![d].pc = "wait"] /\ plan' = plan /\ db' = db /\ born' = born
  BY DEF Publish, At, Goto, DeployInv, JobsInv, JobTyped, AccountInv
<1>2. /\ job'[d].p = job[d].p /\ job'[d].s = job[d].s /\ job'[d].id = job[d].id
      /\ job'[d].pc = "wait" /\ \A e \in Deployer : e # d => job'[e] = job[e]
  BY <1>1 DEF DeployInv, JobsInv, Job
<1>3. \A i : {n \in DOMAIN db' : db'[n].id = i} = Bound(i)
  BY <1>1 DEF Bound
<1>4. CASE job[d].p = p
  <2>1. (\A e \in On(p) : e = d) /\ plan = {} /\ Bound(job[d].id) # {}
    <3>1. CASE p \in excused
      BY <1>4, <3>1 DEF Publish, Others, On
    <3>2. CASE p \notin excused
      BY <1>1, <1>4, <3>2 DEF Undisturbed, On
    <3>3. QED
      BY <3>1, <3>2
  <2>2. \A e \in On(p)' : e = d
    BY <1>2, <2>1 DEF On
  <2>3. worker'[p] = new
    BY <1>1, <1>4 DEF DeployInv, WorkerInv
  <2>4. worker'[p] # Unbound
    <3>1. PICK n \in DOMAIN db : db[n].id = job[d].id
      BY <2>1 DEF Bound
    <3>2. db[n].id \in 1..born
      BY DEF DeployInv, AccountInv, RowsAreNamed
    <3>3. new.id # 0
      BY <1>1, <3>1, <3>2
    <3>4. QED
      BY <2>3, <3>3 DEF Unbound
  <2>5. \A n \in Bound(job[d].id) : n = Target(d) /\ n[1] = p
    BY <1>1, <1>4 DEF DeployInv, JobsInv, OwnDatabase, At, Target, DatabaseName
  <2>6. Target(d)' = Target(d)
    BY <1>2 DEF Target
  <2>7. Bound(worker[p].id)' = Bound(job[d].id)
    BY <1>3, <2>3 DEF Bound
  <2>8. QED
    BY <1>1, <1>2, <2>1, <2>2, <2>3, <2>4, <2>5, <2>6, <2>7 DEF Undisturbed, Published
<1>5. CASE job[d].p # p
  <2>1. p \notin excused
    BY <1>5 DEF Publish
  <2>2. worker'[p] = worker[p]
    BY <1>1, <1>5
  <2>3. \A e \in On(p)' : e \in On(p) /\ job'[e] = job[e]
    BY <1>2, <1>5 DEF On
  <2>4. \A i \in 0..born : Bound(i)' \subseteq Bound(i)
    BY <1>1 DEF Bound
  <2>5. \A n \in Needed(p) : n \in DOMAIN db' /\ db'[n].id = db[n].id
    BY <1>1 DEF Needed
  <2>6. QED
    BY <1>1, <2>1, <2>2, <2>3, <2>4, <2>5, StaysUndisturbed
<1>6. QED
  BY <1>4, <1>5

\* The cleanup is planned around what undisturbed projects publish, and deletes its plan.
LEMMA CleanupStaysUndisturbed ==
  ASSUME DeployInv, NEW p \in Project, Undisturbed(p), PlanHygiene \/ DeletePlanned,
         p \notin excused'
  PROVE  Undisturbed(p)'
<1>1. CASE PlanHygiene
  <2>1. /\ p \notin excused /\ On(p) = {} /\ Bound(worker[p].id) \cap plan' = {}
        /\ db' = db /\ worker' = worker /\ job' = job
    BY <1>1 DEF PlanHygiene, On
  <2>2. On(p)' = {} /\ Bound(worker[p].id)' = Bound(worker[p].id)
    BY <2>1 DEF On, Bound
  <2>3. QED
    BY <2>1, <2>2 DEF Undisturbed
<1>2. CASE DeletePlanned
  <2>1. PICK n \in plan : plan' = plan \ {n} /\ (db' = Without(n) \/ db' = db)
    BY <1>2 DEF DeletePlanned
  <2>2. p \notin excused /\ worker' = worker /\ job' = job
    BY <1>2 DEF DeletePlanned
  <2>3. On(p) = {} /\ On(p)' = {}
    BY <2>1, <2>2 DEF Undisturbed, On
  <2>4. \A i \in 0..born : Bound(i)' \subseteq Bound(i)
    BY <2>1 DEF Bound, Without
  <2>5. ASSUME NEW m \in Needed(p) PROVE m \in DOMAIN db' /\ db'[m].id = db[m].id
    <3>1. m \in DOMAIN db /\ m # n
      BY <2>1, <2>2, <2>3 DEF Needed, Undisturbed
    <3>2. QED
      BY <2>1, <3>1 DEF Without
  <2>6. QED
    BY <2>1, <2>2, <2>3, <2>4, <2>5, StaysUndisturbed
<1>3. QED
  BY <1>1, <1>2

LEMMA CareNext == CareInv /\ [Next]_vars => CareInv'
<1> SUFFICES ASSUME CareInv, [Next]_vars PROVE CareInv'
  OBVIOUS
<1>1. DeployInv /\ DeployInv'
  BY DeployNext DEF CareInv
<1>2. \A d \in Deployer : DeletesItsOwn(d)'
  BY <1>1, DeletesItsOwnNext DEF CareInv
<1>3. ASSUME NEW p \in Project PROVE Undisturbed(p)'
  <2>1. Undisturbed(p) /\ \A d \in Deployer : DeletesItsOwn(d)
    BY DEF CareInv
  <2>2. CASE p \in excused'
    BY <2>2 DEF Undisturbed
  <2>3. CASE p \notin excused'
    <3>1. ASSUME NEW d \in Deployer,
                 \/ Deploy(d) \/ Fail(d) \/ List(d) \/ Reclaim(d) \/ SlotFound(d) \/ Create(d)
                 \/ Migrate(d) \/ Publish(d) \/ Ready(d) \/ Relist(d) \/ Finish(d)
          PROVE  Undisturbed(p)'
      BY <3>1, <2>1, <2>3, <1>1, DeployKeeps, WalksKeep, CreateStaysUndisturbed,
         ReclaimStaysUndisturbed, MigrateStaysUndisturbed, PublishStaysUndisturbed
    <3>2. CASE PlanHygiene \/ DeletePlanned
      BY <3>2, <2>1, <2>3, <1>1, CleanupStaysUndisturbed
    <3>3. CASE (\E q \in Project : Propagate(q)) \/ Done \/ UNCHANGED vars
      <4>1. db' = db /\ worker' = worker /\ job' = job /\ plan' = plan /\ excused' = excused
        BY <3>3 DEF Propagate, Done, vars
      <4>2. QED
        BY <4>1, <2>1 DEF Undisturbed, On, Bound, Target
    <3>4. QED
      BY <3>1, <3>2, <3>3 DEF Next
  <2>4. QED
    BY <2>2, <2>3
<1>4. QED
  BY <1>1, <1>2, <1>3 DEF CareInv

\* Whoever deploys what and cleans up, an undisturbed project's databases stay as described.
THEOREM CareInvariant == Spec => []CareInv
BY CareInit, CareNext, PTL DEF Spec

\* DeployExecutor!LiveDatabaseStays: reclaimSupersededDatabases and the cleanup leave the
\* database of a published Worker alone, for any number of projects, schemas and deploys.
THEOREM LiveDatabaseStaysHolds == Spec => []LiveDatabaseStays
<1>1. CareInv => LiveDatabaseStays
  BY DEF CareInv, Undisturbed, LiveDatabaseStays
<1>2. QED
  BY <1>1, CareInvariant, PTL

-----------------------------------------------------------------------------
\* ProjectDelivery.

\* There is a file in some artifact.
SomeFile == \E i \in DOMAIN arts : arts[i].page # "absent" \/ arts[i].server # "absent"

\* What every step keeps: artifacts are artifacts, a run over HTTP is one of a server, the
\* gates that passed found what they found, and what is delivered was not to be refused.
Shapes ==
  /\ Len(arts) \in Nat /\ arts \in [1..Len(arts) -> Artifact] /\ done \in 0..Len(Gates)
  /\ run.http => backend
IntegrityMeansFiles == done = Len(Gates) /\ "integrity" \notin refused => SomeFile
DeliveryInv == Shapes /\ IntegrityMeansFiles /\ DeliveredIsSound

-----------------------------------------------------------------------------
\* A set of numbers that is not empty has a least one.
LEMMA HasLeast ==
  ASSUME NEW S \in SUBSET Nat, S # {}
  PROVE  \E n \in S : \A m \in S : n <= m
<1> DEFINE Less == {pair \in Nat \X Nat : pair[1] < pair[2]}
<1>1. IsWellFoundedOn(Less, Nat)
  BY NatLessThanWellFounded DEF OpToRel
<1> HIDE DEF Less
<1>2. PICK n \in S : \A m \in S : <<m, n>> \notin Less
  BY <1>1, WFMin
<1>3. \A m \in S : ~(m < n)
  BY <1>2 DEF Less
<1>4. QED
  BY <1>3

\* An order of the artifacts meets every one of them.
LEMMA OrdersMeetAll ==
  ASSUME Shapes, NEW order \in Orders
  PROVE  /\ DOMAIN order = DOMAIN arts
         /\ \A i \in DOMAIN order : order[i] \in DOMAIN arts
         /\ \A i \in DOMAIN arts : \E j \in DOMAIN order : order[j] = i
<1> DEFINE n == Len(arts)
<1>1. n \in Nat /\ DOMAIN arts = 1..n
  BY DEF Shapes
<1>2. order = [i \in 1..n |-> i] \/ order = [i \in 1..n |-> n + 1 - i]
  BY DEF Orders
<1>3. CASE order = [i \in 1..n |-> i]
  BY <1>1, <1>3
<1>4. CASE order = [i \in 1..n |-> n + 1 - i]
  <2>1. DOMAIN order = 1..n /\ \A i \in 1..n : order[i] = n + 1 - i
    BY <1>4
  <2>2. \A i \in 1..n : n + 1 - i \in 1..n /\ order[n + 1 - i] = i
    BY <1>1, <2>1
  <2>3. QED
    BY <1>1, <2>1, <2>2
<1>5. QED
  BY <1>2, <1>3, <1>4

\* The first of a path is one of an artifact, and absent only where none has it.
LEMMA FirstIsAFile ==
  ASSUME Shapes, NEW order \in Orders, NEW path \in {"page", "server"}
  PROVE  First(order, path) = "absent" <=> \A i \in DOMAIN arts : arts[i][path] = "absent"
<1> DEFINE having == {i \in DOMAIN order : arts[order[i]][path] # "absent"}
           first == CHOOSE i \in having : \A j \in having : i <= j
<1>1. CASE having = {}
  <2>1. First(order, path) = "absent"
    BY <1>1 DEF First
  <2>2. QED
    BY <1>1, <2>1, OrdersMeetAll
<1>2. CASE having # {}
  <2>1. having \subseteq Nat
    BY OrdersMeetAll DEF Shapes
  <2>2. \E i \in having : \A j \in having : i <= j
    BY <1>2, <2>1, HasLeast
  <2>3. first \in having
    BY <2>2
  <2>4. First(order, path) = arts[order[first]][path]
    BY <1>2 DEF First
  <2>5. QED
    BY <2>3, <2>4, OrdersMeetAll
<1>3. QED
  BY <1>1, <1>2

LEMMA EmptyMeansNoFile ==
  ASSUME Shapes, NEW order \in Orders
  PROVE  Empty(Merged(order)) <=> ~SomeFile
<1>1. Merged(order).page = First(order, "page") /\ Merged(order).server = First(order, "server")
  BY DEF Merged
<1>2. \A i \in DOMAIN arts : arts[i]["page"] = arts[i].page /\ arts[i]["server"] = arts[i].server
  OBVIOUS
<1>3. QED
  BY <1>1, <1>2, FirstIsAFile DEF Empty, SomeFile

-----------------------------------------------------------------------------
LEMMA DeliveryAtFirst == DeliveryInit => DeliveryInv
<1> SUFFICES ASSUME DeliveryInit PROVE DeliveryInv
  OBVIOUS
<1>1. PICK n \in 1..MaxArtifacts : arts \in [1..n -> Draft]
  BY DEF DeliveryInit
<1>2. n \in Nat /\ Len(arts) = n
  BY <1>1, DeliveryBounds
<1>3. arts \in [1..n -> Artifact]
  BY <1>1, DraftAssumption
<1>4. Len(Gates) = 8
  BY DEF Gates
<1>5. Shapes
  BY <1>2, <1>3, <1>4 DEF DeliveryInit, Shapes, NoRun
<1>6. IntegrityMeansFiles /\ DeliveredIsSound
  BY <1>4 DEF DeliveryInit, IntegrityMeansFiles, DeliveredIsSound
<1>7. QED
  BY <1>5, <1>6 DEF DeliveryInv

\* The last gate is "integrity", which wants a file.
LEMMA GateKeeps ==
  ASSUME DeliveryInv, Gate
  PROVE  DeliveryInv'
<1>1. Len(Gates) = 8 /\ Gates[8] = "integrity"
  BY DEF Gates
<1>2. Shapes /\ done < 8 /\ done \in Nat /\ done' = done + 1 /\ arts' = arts /\ state' = "active"
  BY <1>1 DEF DeliveryInv, Shapes, Gate
<1>3. Shapes'
  BY <1>1, <1>2 DEF Shapes, Gate, evidence, project
<1>4. ASSUME done' = 8, "integrity" \notin refused'
      PROVE  SomeFile'
  <2>1. done = 7
    BY <1>2, <1>4
  <2>2. Gates[done + 1] = "integrity"
    BY <2>1, <1>1
  <2>3. PICK order \in Orders : Checks("integrity", Merged(order))
    BY <1>4, <2>2 DEF Gate
  <2>4. ~Empty(Merged(order))
    BY <2>3 DEF Checks
  <2>5. SomeFile
    BY <2>4, <1>2, EmptyMeansNoFile
  <2>6. QED
    BY <2>5, <1>2 DEF SomeFile
<1>5. IntegrityMeansFiles' /\ DeliveredIsSound'
  BY <1>1, <1>2, <1>4 DEF IntegrityMeansFiles, DeliveredIsSound
<1>6. QED
  BY <1>3, <1>5 DEF DeliveryInv

\* An edit writes a page for a page.
LEMMA EditKeeps ==
  ASSUME DeliveryInv, Edit
  PROVE  DeliveryInv'
<1> DEFINE n == Len(arts)
<1>1. PICK new \in PageKind : arts' = [arts EXCEPT ![n].page = new]
  BY DEF Edit
<1>2. /\ Shapes /\ DOMAIN arts = 1..n /\ n \in Nat
      /\ UNCHANGED <<project, evidence, refused, done, state, delivered>>
  BY DEF DeliveryInv, Shapes, Edit
<1>3. \A i \in DOMAIN arts : arts[i] \in Artifact
  BY <1>2 DEF Shapes
<1>4. arts' \in [1..n -> Artifact] /\ \A i \in DOMAIN arts : arts'[i].server = arts[i].server
  BY <1>1, <1>2, <1>3 DEF Artifact
<1>5. \A i \in DOMAIN arts : arts[i].page # "absent" => arts'[i].page # "absent"
  BY <1>1, <1>3 DEF PageKind, Artifact
<1>6. Len(arts') = n
  BY <1>2, <1>4
<1>7. Shapes'
  BY <1>2, <1>4, <1>6 DEF Shapes, project, evidence
<1>8. SomeFile => SomeFile'
  BY <1>2, <1>4, <1>5 DEF SomeFile
<1>9. IntegrityMeansFiles' /\ DeliveredIsSound'
  <2>1. IntegrityMeansFiles /\ DeliveredIsSound
    BY DEF DeliveryInv
  <2>2. IntegrityMeansFiles'
    BY <2>1, <1>2, <1>8 DEF IntegrityMeansFiles
  <2>3. DeliveredIsSound'
    BY <2>1, <1>2 DEF DeliveredIsSound, project, Fidelity, Empty, DeliverableMatrix, BackendOwed,
                      HasEntry
  <2>4. QED
    BY <2>2, <2>3
<1>10. QED
  BY <1>7, <1>9 DEF DeliveryInv

\* What is not refused is sound.
LEMMA DeliverKeeps ==
  ASSUME DeliveryInv, Deliver
  PROVE  DeliveryInv'
<1>1. /\ Shapes /\ IntegrityMeansFiles /\ done = Len(Gates)
      /\ UNCHANGED <<project, arts, evidence, refused, done, edits>>
  BY DEF DeliveryInv, Deliver
<1>2. Shapes' /\ IntegrityMeansFiles'
  BY <1>1 DEF Shapes, IntegrityMeansFiles, SomeFile, project, evidence
<1>3. PICK order \in Orders :
        LET files == Merged(order)
        IN IF Refusals(files) = {}
           THEN delivered' = [files |-> files, rows |-> MatrixAt(files, BackendOwed(files)),
                              report |-> IF BackendOwed(files) THEN Report(files) ELSE "none"]
           ELSE state' = "failed"
  BY DEF Deliver
<1> DEFINE files == Merged(order)
           owed == BackendOwed(files)
           rows == MatrixAt(files, owed)
<1>4. CASE Refusals(files) # {}
  BY <1>2, <1>3, <1>4 DEF DeliveryInv, DeliveredIsSound
<1>5. CASE Refusals(files) = {}
  <2>1. /\ delivered'.files = files /\ delivered'.rows = rows
        /\ owed => delivered'.report = Report(files)
    BY <1>3, <1>5
  <2>2. ~Empty(files) => Fidelity(files)
    BY <1>5 DEF Refusals
  <2>3. refused = {}
    BY <1>5 DEF Refusals, FailedGates
  <2>4. owed => Report(files) = "passed"
    BY <1>5 DEF Refusals
  <2>5. ~Empty(files)
    BY <1>1, <2>3, EmptyMeansNoFile DEF IntegrityMeansFiles
  <2>6. spec # {} => DeliverableMatrix(rows)
    BY <1>5, <2>5 DEF Refusals
  <2>7. DeliverableMatrix(rows)
    BY <2>6 DEF DeliverableMatrix
  <2>8. DeliveredIsSound'
    BY <1>1, <2>1, <2>2, <2>3, <2>4, <2>7
    DEF DeliveredIsSound, project, Fidelity, Empty, DeliverableMatrix, BackendOwed, HasEntry
  <2>9. QED
    BY <1>2, <2>8 DEF DeliveryInv
<1>6. QED
  BY <1>4, <1>5

LEMMA DeliveryStep == DeliveryInv /\ [DeliveryNext]_deliveryVars => DeliveryInv'
<1> SUFFICES ASSUME DeliveryInv, [DeliveryNext]_deliveryVars PROVE DeliveryInv'
  OBVIOUS
<1>1. ASSUME Shapes', UNCHANGED <<project, arts, refused, done, state, delivered>>
      PROVE  DeliveryInv'
  <2>1. IntegrityMeansFiles'
    BY <1>1 DEF DeliveryInv, IntegrityMeansFiles, SomeFile
  <2>2. DeliveredIsSound'
    BY <1>1 DEF DeliveryInv, DeliveredIsSound, project, Fidelity, Empty, DeliverableMatrix,
                BackendOwed, HasEntry
  <2>3. QED
    BY <1>1, <2>1, <2>2 DEF DeliveryInv
<1>2. CASE Deploys
  <2>1. Shapes'
    BY <1>2 DEF DeliveryInv, Shapes, Deploys, project
  <2>2. QED
    BY <1>1, <1>2, <2>1 DEF Deploys
<1>3. CASE Records
  <2>1. run'.http => backend'
    <3> DEFINE runnable == IF backend THEN Test \ {"ui"} ELSE {"ui"}
               of(odd, result) == [t \in Test |-> IF t \notin runnable THEN "MISSING"
                                                 ELSE IF t = odd THEN result ELSE "PASS"]
    <3>1. PICK odd \in runnable, result \in Result, http \in {FALSE, backend} :
            run' = [http |-> http, tests |-> of(odd, result)]
      BY <1>3 DEF Records
    <3> HIDE DEF of
    <3>2. http => backend
      BY Zenon
    <3>3. backend' = backend
      BY <1>3 DEF Records, project
    <3>4. run'.http = http
      BY <3>1
    <3>5. QED
      BY <3>2, <3>3, <3>4, Zenon
  <2>2. Shapes'
    BY <1>3, <2>1 DEF DeliveryInv, Shapes, Records
  <2>3. QED
    BY <1>1, <1>3, <2>2 DEF Records
<1>4. CASE Undo
  <2>1. Shapes'
    BY <1>4 DEF DeliveryInv, Shapes, Undo, project, evidence
  <2>2. QED
    BY <1>1, <1>4, <2>1 DEF Undo
<1>5. CASE UNCHANGED deliveryVars
  <2>1. Shapes'
    BY <1>5 DEF DeliveryInv, Shapes, deliveryVars, project, evidence
  <2>2. QED
    BY <1>1, <1>5, <2>1 DEF deliveryVars
<1>6. QED
  BY <1>2, <1>3, <1>4, <1>5, GateKeeps, EditKeeps, DeliverKeeps DEF DeliveryNext

\* Whatever is edited, deployed or recorded, in whatever order artifacts are met, what the
\* gates found of the files stays true of them.
THEOREM DeliveryInvariant == DeliverySpec => []DeliveryInv
BY DeliveryAtFirst, DeliveryStep, PTL DEF DeliverySpec

\* ProjectDelivery!DeliveredIsSound: buildFinalDelivery completes a project only on code that
\* works, with no gate refused, no critical requirement failed and its server proven.
THEOREM DeliveredIsSoundHolds == DeliverySpec => []DeliveredIsSound
<1>1. DeliveryInv => DeliveredIsSound
  BY DEF DeliveryInv
<1>2. QED
  BY <1>1, DeliveryInvariant, PTL

-----------------------------------------------------------------------------
\* The two places that hold the rules.
LEMMA PassedGatesLeaveFour ==
  ASSUME Shapes, NEW order \in Orders, refused = {},
         \A gate \in GateSet : Checks(gate, Merged(order))
  PROVE  Refusals(Merged(order)) \subseteq {"missing", "echo", "foreign", "obligation"}
<1> DEFINE files == Merged(order)
           owed == BackendOwed(files)
<1> HIDE DEF files, owed
<1>1. /\ ~Empty(files) /\ Fidelity(files) /\ SpecDeliverable(files)
      /\ IF owed THEN ServerProven(files) ELSE LocalProven(files)
  <2>1. {"integrity", "functional-fidelity", "production-runtime"} \subseteq GateSet
    BY DEF GateSet, Gates
  <2>2. Checks("integrity", files) /\ Checks("functional-fidelity", files)
        /\ Checks("production-runtime", files)
    BY <2>1 DEF files
  <2>3. QED
    BY <2>2 DEF Checks, owed
<1>2. owed <=> backend \/ HasEntry(files)
  BY DEF owed, BackendOwed
<1>3. ASSUME owed
      PROVE  /\ Report(files) = "passed" /\ run.http /\ backend
             /\ deployment = "deployed"
  BY <1>1, <1>3 DEF ServerProven, Shapes
<1>4. backend => HasEntry(files)
  BY <1>2, <1>3 DEF Report
<1>5. DeliverableMatrix(MatrixAt(files, owed))
  <2>1. DeliverableMatrix(SpecMatrix(files))
    BY <1>1 DEF SpecDeliverable, NoMatrix, DeliverableMatrix
  <2>2. CASE ~owed
    BY <2>1, <2>2 DEF SpecMatrix, MatrixAt, Row, DeliverableMatrix
  <2>3. CASE owed
    <3>1. \A r \in spec \cap Critical : RuntimeStatus(r) = "PASS"
      BY <1>3, <2>3 DEF Report
    <3>2. \A r \in spec \cap Critical : Row(r, files, owed) = Row(r, files, FALSE)
      BY <3>1, <2>3 DEF Row
    <3>3. QED
      BY <2>1, <3>2 DEF SpecMatrix, MatrixAt, DeliverableMatrix
  <2>4. QED
    BY <2>2, <2>3
<1>6. "fidelity" \notin Refusals(files) /\ "gates" \notin Refusals(files)
      /\ "entry" \notin Refusals(files)
  BY <1>1, <1>4 DEF Refusals, FailedGates
<1>7. "runtime" \notin Refusals(files) /\ "deployment" \notin Refusals(files)
      /\ "transport" \notin Refusals(files)
  BY <1>3 DEF Refusals, owed
<1>8. "matrix" \notin Refusals(files)
  BY <1>5 DEF Refusals, owed
<1>9. Refusals(files) \subseteq {"fidelity", "missing", "echo", "foreign", "gates", "runtime",
        "deployment", "transport", "entry", "obligation", "matrix"}
  BY DEF Refusals
<1>10. QED
  BY <1>6, <1>7, <1>8, <1>9 DEF files

\* ProjectDelivery!PassedGatesDeliver: gateResult and buildFinalDelivery agree on the files of
\* any project, but for what no gate looks at.
THEOREM PassedGatesDeliverHolds == DeliverySpec => []PassedGatesDeliver
<1>1. DeliveryInv => PassedGatesDeliver
  BY PassedGatesLeaveFour DEF DeliveryInv, PassedGatesDeliver
<1>2. QED
  BY <1>1, DeliveryInvariant, PTL
=============================================================================
