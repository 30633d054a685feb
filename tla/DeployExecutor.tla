--------------------------- MODULE DeployExecutor ---------------------------
(***************************************************************************)
(* The deployment of generated projects (scripts/deploy-executor.mjs) and  *)
(* the cleanup of their databases (scripts/d1-database-hygiene.mjs) on one *)
(* Cloudflare account, whose databases are few and never given back unless *)
(* someone deletes them.                                                   *)
(*                                                                         *)
(* Each call of wrangler is a step.  Fail is a call that is refused, or    *)
(* killed with or without its effect, or an executor that dies: what it    *)
(* did remains.  Files, wording and the categories of errors are left out. *)
(***************************************************************************)
EXTENDS Integers, FiniteSets

CONSTANTS
  Project,
  Schema,     \* digests of migrations: a deploy of a project brings one
  Deployer,   \* calls to the executor that are under way at once
  Limit,      \* D1_ACCOUNT_DATABASE_LIMIT, less the databases of others
  MaxDeploys, MaxHygiene

ASSUME LimitAssumption == Limit \in Nat \ {0} /\ MaxDeploys \in Nat /\ MaxHygiene \in Nat

VARIABLES
  db,        \* the account's databases, by name: the order of its creation, and the
             \* schema its tables were made with
  worker,    \* what is published for each project: its schema and the database it binds
  edge,      \* what answers at its URL, which comes later
  job,       \* the deploys
  plan,      \* the names the cleanup has left to delete
  born, deploys, cleanups,
  excused    \* history: projects whose published Worker may have lost its database

vars == <<db, worker, edge, job, plan, born, deploys, cleanups, excused>>

None == "none"
\* Mutant: the name of a database without the digest of its migrations.
UnversionedName(p, s) == <<p, CHOOSE x \in Schema : TRUE>>

\* generated-<project>-<digest>.
DatabaseName(p, s) == <<p, s>>
Name == Project \X Schema

Unbound == [schema |-> None, id |-> 0]
Step == {"list", "slot", "create", "migrate", "deploy", "wait", "relist", "reclaim"}
Idle == [pc |-> "idle"]
\* seen: the listing it works from.  stale: what it has left to delete.
Job == [pc : Step, p : Project, s : Schema, seen : SUBSET Name, stale : SUBSET Name, id : Nat]

TypeOK ==
  /\ \A n \in DOMAIN db : db[n] \in [id : 1..born, tables : Schema \cup {None}]
  /\ DOMAIN db \subseteq Name /\ Cardinality(DOMAIN db) <= Limit
  /\ worker \in [Project -> [schema : Schema \cup {None}, id : 0..born]]
  /\ edge \in [Project -> [schema : Schema \cup {None}, id : 0..born]]
  /\ \A d \in Deployer : job[d] # Idle => job[d] \in Job /\ job[d].id <= born
  /\ DOMAIN job = Deployer
  /\ plan \subseteq Name
  /\ born \in Nat /\ deploys \in 0..MaxDeploys /\ cleanups \in 0..MaxHygiene
  /\ excused \subseteq Project

Init ==
  /\ db = [n \in {} |-> [id |-> 0, tables |-> None]]
  /\ worker = [p \in Project |-> Unbound] /\ edge = worker
  /\ job = [d \in Deployer |-> Idle] /\ plan = {}
  /\ born = 0 /\ deploys = 0 /\ cleanups = 0
  /\ excused = {}

-----------------------------------------------------------------------------
At(d, step) == job[d] # Idle /\ job[d].pc = step
Target(d) == DatabaseName(job[d].p, job[d].s)
Goto(d, step) == job' = [job EXCEPT ![d].pc = step]
Without(n) == [m \in DOMAIN db \ {n} |-> db[m]]
\* The others at work on the project.
Others(p, d) == {e \in Deployer \ {d} : job[e] # Idle /\ job[e].p = p}

\* Mutant: any database with a digest in its name is a previous version.
AnyOlder(names, n, ceiling) == {m \in names \ {n} : m \in DOMAIN db => db[m].id < ceiling}

\* supersededProjectDatabases: of the same project, and older than the one in use.  A name
\* that is gone since it was listed is deleted in vain.
Superseded(names, n, ceiling) ==
  {m \in names \ {n} : m[1] = n[1] /\ (m \in DOMAIN db => db[m].id < ceiling)}

\* deployGeneratedProject: the files are staged, the Worker and its database named.
Deploy(d) ==
  /\ job[d] = Idle /\ deploys < MaxDeploys
  /\ \E p \in Project, s \in Schema :
       /\ job' = [job EXCEPT ![d] = [pc |-> "list", p |-> p, s |-> s, seen |-> {},
                                     stale |-> {}, id |-> 0]]
       /\ excused' = IF Others(p, d) # {} \/ plan # {} THEN excused \cup {p} ELSE excused
  /\ deploys' = deploys + 1
  /\ UNCHANGED <<db, worker, edge, plan, born, cleanups>>

\* Of a project that ends here nothing is taken back.
Fail(d) ==
  /\ job[d] # Idle
  /\ job' = [job EXCEPT ![d] = Idle]
  /\ UNCHANGED <<db, worker, edge, plan, born, deploys, cleanups, excused>>

\* provisionDatabase: the database of that name is used again; else one is created, and on
\* a full account the project's other databases are deleted first.
List(d) ==
  /\ At(d, "list")
  /\ LET n == Target(d)
         seen == DOMAIN db
     IN job' = [job EXCEPT ![d] =
          IF n \in seen THEN [@ EXCEPT !.pc = "migrate", !.id = db[n].id]
          ELSE IF Cardinality(seen) < Limit THEN [@ EXCEPT !.pc = "create"]
          ELSE [@ EXCEPT !.pc = "slot", !.seen = seen, !.stale = Superseded(seen, n, born + 1)]]
  /\ UNCHANGED <<db, worker, edge, plan, born, deploys, cleanups, excused>>

\* reclaimSupersededDatabases, one name at a time; a deletion may fail, and may have had its
\* effect.  What is deleted for a slot may be what the published Worker is bound to.
Reclaim(d) ==
  /\ At(d, "slot") \/ At(d, "reclaim")
  /\ \E n \in job[d].stale :
       \/ /\ n \in DOMAIN db
          /\ db' = Without(n)
          /\ \E replied \in BOOLEAN :
               job' = [job EXCEPT ![d].stale = @ \ {n},
                                  ![d].seen = IF replied THEN @ \ {n} ELSE @]
          /\ excused' = IF At(d, "slot") THEN excused \cup {job[d].p} ELSE excused
       \/ /\ job' = [job EXCEPT ![d].stale = @ \ {n}]
          /\ UNCHANGED <<db, excused>>
  /\ UNCHANGED <<worker, edge, plan, born, deploys, cleanups>>

\* No slot even so: the deploy ends with category quota.
SlotFound(d) ==
  /\ At(d, "slot") /\ job[d].stale = {}
  /\ IF Cardinality(job[d].seen) < Limit
     THEN job' = [job EXCEPT ![d].pc = "create", ![d].seen = {}]
     ELSE job' = [job EXCEPT ![d] = Idle]
  /\ UNCHANGED <<db, worker, edge, plan, born, deploys, cleanups, excused>>

\* The account refuses a name it has, and more than its limit.
Create(d) ==
  /\ At(d, "create")
  /\ Target(d) \notin DOMAIN db /\ Cardinality(DOMAIN db) < Limit
  /\ born' = born + 1
  /\ db' = [n \in DOMAIN db \cup {Target(d)} |->
              IF n = Target(d) THEN [id |-> born + 1, tables |-> None] ELSE db[n]]
  /\ job' = [job EXCEPT ![d].pc = "migrate", ![d].id = born + 1]
  /\ UNCHANGED <<worker, edge, plan, deploys, cleanups, excused>>

Bound(id) == {n \in DOMAIN db : db[n].id = id}

\* A migration is applied once, by its file's name, which is the same for every schema; and
\* its CREATE TABLE alters nothing that exists.
Migrate(d) ==
  /\ At(d, "migrate")
  /\ \E n \in Bound(job[d].id) :
       db' = [db EXCEPT ![n].tables = IF @ = None THEN job[d].s ELSE @]
  /\ Goto(d, "deploy")
  /\ UNCHANGED <<worker, edge, plan, born, deploys, cleanups, excused>>

\* The dry run and the deploy, which publishes the Worker under the project's name.
Publish(d) ==
  /\ At(d, "deploy")
  /\ worker' = [worker EXCEPT ![job[d].p] = [schema |-> job[d].s, id |-> job[d].id]]
  /\ excused' = IF Others(job[d].p, d) = {} /\ plan = {} /\ Bound(job[d].id) # {}
                THEN excused \ {job[d].p} ELSE excused
  /\ Goto(d, "wait")
  /\ UNCHANGED <<db, edge, plan, born, deploys, cleanups>>

Propagate(p) ==
  /\ edge[p] # worker[p]
  /\ edge' = [edge EXCEPT ![p] = worker[p]]
  /\ UNCHANGED <<db, worker, job, plan, born, deploys, cleanups, excused>>

\* waitForDeployment: some version of the project answers its own health.
Ready(d) ==
  /\ At(d, "wait") /\ edge[job[d].p] # Unbound
  /\ Goto(d, "relist")
  /\ UNCHANGED <<db, worker, edge, plan, born, deploys, cleanups, excused>>

\* The account is listed once more; the listing may fail, which ends the deploy well.
Relist(d) ==
  /\ At(d, "relist")
  /\ LET n == Target(d)
         ceiling == IF n \in DOMAIN db THEN db[n].id ELSE born + 1
     IN job' = [job EXCEPT ![d].pc = "reclaim",
                           ![d].stale = Superseded(DOMAIN db, n, ceiling)]
  /\ UNCHANGED <<db, worker, edge, plan, born, deploys, cleanups, excused>>

\* Answered: DEPLOYED.
Finish(d) ==
  /\ At(d, "reclaim") /\ job[d].stale = {}
  /\ job' = [job EXCEPT ![d] = Idle]
  /\ UNCHANGED <<db, worker, edge, plan, born, deploys, cleanups, excused>>

-----------------------------------------------------------------------------
\* planDatabaseHygiene: of each project a name the operator keeps, or else its newest.
Newest(names) == CHOOSE n \in names : \A m \in names : db[m].id <= db[n].id
OfProject(p) == {n \in DOMAIN db : n[1] = p}
Kept(p, keep) ==
  IF keep \cap OfProject(p) = {} THEN Newest(OfProject(p))
  ELSE CHOOSE n \in keep \cap OfProject(p) :
         \A m \in keep \cap OfProject(p) : db[m].id <= db[n].id
\* Mutant: the names of the groups of the plan, not those in them.
Groups(keep) == {<<n[1], None>> : n \in DOMAIN db}

Stale(keep) == UNION {OfProject(p) \ {Kept(p, keep)} : p \in {n[1] : n \in DOMAIN db}}

\* main, with --prune.
PlanHygiene ==
  /\ plan = {} /\ cleanups < MaxHygiene
  /\ \E keep \in SUBSET DOMAIN db :
       /\ plan' = Stale(keep)
       /\ excused' = excused \cup {p \in Project :
            \/ \E d \in Deployer : job[d] # Idle /\ job[d].p = p
            \/ Bound(worker[p].id) \cap Stale(keep) # {}}
  /\ cleanups' = cleanups + 1
  /\ UNCHANGED <<db, worker, edge, job, born, deploys>>

DeletePlanned ==
  /\ \E n \in plan :
       /\ plan' = plan \ {n}
       /\ db' = Without(n) \/ db' = db
  /\ UNCHANGED <<worker, edge, job, born, deploys, cleanups, excused>>

Done ==
  /\ deploys = MaxDeploys /\ cleanups = MaxHygiene /\ plan = {}
  /\ \A d \in Deployer : job[d] = Idle
  /\ UNCHANGED vars

Next ==
  \/ \E d \in Deployer :
       \/ Deploy(d) \/ Fail(d) \/ List(d) \/ Reclaim(d) \/ SlotFound(d) \/ Create(d)
       \/ Migrate(d) \/ Publish(d) \/ Ready(d) \/ Relist(d) \/ Finish(d)
  \/ \E p \in Project : Propagate(p)
  \/ PlanHygiene \/ DeletePlanned \/ Done

Spec == Init /\ [][Next]_vars

-----------------------------------------------------------------------------
\* The database a published Worker is bound to is there, whoever deploys what and cleans up
\* (reclaimSupersededDatabases, planDatabaseHygiene), unless it was given up for a slot,
\* or its project was deployed twice at once or while the cleanup went on, or the operator
\* did not keep it.
LiveDatabaseStays ==
  \A p \in Project \ excused : worker[p] # Unbound => Bound(worker[p].id) # {}

\* "guarantees the deployed Worker's statements match the deployed table"
\* (deploy-executor.mjs:244): whatever was reused, killed half way or created again.
TablesMatch ==
  \A p \in Project : \A n \in Bound(worker[p].id) :
    worker[p] # Unbound => db[n].tables = worker[p].schema

\* "until the new version answers, the old database is still the live one's"
\* (deploy-executor.mjs:561): a Worker that answers has its database.
EdgeHasDatabase ==
  \A p \in Project \ excused : edge[p] # Unbound => Bound(edge[p].id) # {}
=============================================================================
