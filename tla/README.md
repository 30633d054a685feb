# MAULI 2.0 in TLA+

A verification project for MAULI 2.0: TLA+ modules translated from the source,
instances that TLC model-checks, and theorems about them that TLAPS proves. All paths are
relative to the repository; the product code is `src/*.js`, its release and acceptance
tools are `scripts/*.mjs`.

## The system

MAULI runs as a Cloudflare Worker. A founder's command becomes a *project* with *tasks*; a
cron tick each minute (and approvals, chat and dashboard calls) runs `schedulerTick` in
whatever *isolate* Cloudflare picks. Isolates share no memory: each has a `MemoryStore`, a
cache of rows of D1's table `entities`, written through with a compare-and-set on
`updated_at`. A Durable Object per project hands out a lease, so that one tick at a time
executes a project. A tick recovers what earlier ticks left, finalizes finished projects,
then, project by project under the lock, adds the pipeline's gates, claims and runs tasks in
a few lanes at once, and finalizes. Invocations may be cut at any await; D1 may refuse writes
once the account's daily budget is spent.

The work of a task is an *app*: code asked of a model file by file, or compiled from a
specification. Gates judge its files; a backend is deployed by `scripts/deploy-executor.mjs`,
accepted at its URL by `scripts/production-runtime.mjs`, and delivered on the evidence of that
run. GitHub Actions package it. The founder may edit its files meanwhile.

### Inventory

| Component | State | Operations | Talks to | What is hard | What makes it correct |
|---|---|---|---|---|---|
| Project lock (`execution-coordinator.js`, `execution-coordination.js`) | token, expiry | acquire, renew, release; heartbeat, body deadline | every tick | leases that lapse under a live body; late, lost, reordered calls | two bodies only after a lapse; no holder for ever |
| Entity store (`store.js`, `db.js`) | memory rows, `versions`, pending writes, watermarks; D1 rows | put, putDurable, sync, hydrate, flush | everything | concurrent writers, merge and retry, unanswered writes, stale copies | a version vouches for a copy; no writer rolls back another's field |
| Task scheduler (`scheduler.js`, `execution.js`, `tasks.js`, `agents.js`, `verification.js`) | tasks, agents, runs | recover, claim, start, heartbeat, complete, fail, retry, assign | store, executors | lanes and recovery interleave at awaits; cut invocations | one run per task, live runs kept, every task settles |
| Project lifecycle (`projects.js`, `governance.js`, `orchestrator.js`, `maintenance.js`, `result-recorder.js`, finalizeCommand) | projects, approvals, results | queue, approve, reject, finalize, retire, recover | scheduler, delivery | a step of several that fails; states nothing leaves | parked commands wait; every command ends |
| Gates and delivery (`pipeline-gates.js`, `delivery.js`, `requirement-matrix.js`, `zip.js`) | gate tasks, artifacts, verdicts | ensureProjectPipeline, gateResult, buildFinalDelivery | scheduler, evidence, edits | gates made twice; two sets of rules for one decision; artifacts met in any order | gates in order; gates and delivery agree; what is delivered is sound |
| Account budget (`d1-quota.js`) | a shared row per day, unflushed counts per isolate | reserve, record, flush, block | every write | a shared row without a guard, midnight | nothing counted twice, nothing slips past |
| Idle gate (`scheduler.js`, `worker.js`) | wake marker, hydration of an isolate | schedulerIdleGate, markSchedulerWork | cron | a marker that is lost or overwritten | work never waits longer than a sweep |
| Runtime acceptance (`runtime-evidence.js`, `generated-deployment.js`, `production-runtime.js`) | deployment and run on the project | dispatch, record, sweep, repair | runners, delivery | late answers about older artifacts | what is delivered was run; every project gets a run |
| Acceptance runner (`requirement-spec.js`, `architecture.js`, `core-feature.js`, `production-runtime.js`, `scripts/production-runtime.mjs`) | tests recorded, one shared record | each request of the run, the verdict | the deployed app | what is owed and what is tested are derived twice; a call without an answer; the order of probes | a pass is deserved; what is owed is recorded; a perfect app passes |
| Harnesses (`scripts/generated-runtime.mjs`, `deployment-harness.mjs`, `verify-generated-app.mjs`, `user-journey.mjs`, `repair-loop.mjs`) | in-memory D1, sockets, a page, steps | requests, upgrades, presses, steps, repairs | the generated app | what the harness shows may not be what a deployment does | its verdicts are true of the product |
| Code generation (`functional-code-executor.js`, `ai.js`, `groq-ai.js`, `generated-app-quality.js`) | files, attempts, providers' records | ask, wait, judge, repair, fall back | providers | deadlines, late answers, files of different rounds | what is shipped is whole; an outage costs nothing; it ends |
| Generated app (`fullstack-codegen.js`, `app-templates.js`) | rows, sessions, pages, sockets | its routes, its live channel, its page | its users | concurrent registrations; live updates that cross answers | who is admitted can log in; a page shows the store |
| Deploy executor (`scripts/deploy-executor.mjs`, `d1-database-hygiene.mjs`) | databases, Workers | list, reclaim, create, migrate, publish, clean up | Cloudflare | calls killed half way; deletes beside deploys; a full account | a live database stays, with its tables |
| App builds (`index.js`, `dashboard-live.js`, `.github/workflows/build-apps.yml`) | builds, a claim, one branch, pages that poll | build, cancel, push, status | GitHub | two builds on one branch; a run per file | the newest goes on; nothing offered lacks the app |
| Command endpoint, chat, tools, dashboards, learning | texts, scores, views | route, generate, search, show | lifecycle | – | outside the models, see below |

What is hard to test in it is in the `hazards` of `PROJECT.json`, at its line.

## The modules

| Module | What it is |
|---|---|
| `ExclusiveLease` | abstract: a lease with at most one owner at a time |
| `ProjectLock` | the Durable Object, the sessions of `withProjectExecutionLock` and the calls between them |
| `EntityStore` | one row of D1 and the isolates that put it |
| `TaskScheduler` | tasks, agents, runs, lanes and recovery of one project |
| `ProjectLifecycle` | one project from its command to its end: approval, gates, finalization, delivery, recovery |
| `AccountBudget`, `CronTick` | the day's ledger of D1; the cron behind its idle gate |
| `RuntimeAcceptance` | deploying a backend, accepting it at its URL, delivering it |
| `AcceptanceRules`, `AcceptanceRun` | what a product owes; one run of the acceptance runner against an app, and the verdict |
| `InMemoryD1`, `DeploymentHarness` | the in-memory D1 beside D1; the served deployment with its live channel |
| `PageDrive`, `UserJourney` | a page driven without a browser; the founder's journey and the repair loops |
| `GeneratedApp` | the product that fullstack-codegen.js emits, used by clients |
| `CodeGeneration` | an app asked of models, file by file |
| `DeployExecutor` | deploys and database cleanup on one account |
| `AppBuilds` | the build routes, GitHub's branch and runs, the page that polls |
| `ProjectDelivery` | what the gates look at, the delivery, the download, the edits |
| `Subsequences` | what is picked out of a list |
| `MC...` | the instances TLC checks |
| `...Proofs` | theorems and their proofs |

Every definition that models code is listed with its lines in `PROJECT.json`'s `map`.
Components that share state are composed: the lock is an abstract lease (`ProjectLock`
implements `ExclusiveLease`), the harness stands on `InMemoryD1`, the run on
`AcceptanceRules`. Others meet at an interface that one of them leaves open: which run a
delivery has is `RuntimeAcceptance`'s question and any of the possible ones in
`ProjectDelivery`; what happens within a task is `TaskScheduler`'s, that it ends somehow is
all `ProjectLifecycle` knows; whether a put reaches D1 is `EntityStore`'s, and a fault
elsewhere.

### ProjectLock

`token` and `left` are the coordinator's row: the expiry is the time left, so that
`Elapse` counts it down. A session is one call of `withProjectExecutionLock`: `pc` is where it is,
`body` whether its function is still going on (it may be after the lock is left),
`age` and `beatAge` drive the deadline and the heartbeat, `calls` are renewals and releases
in flight. They may be lost or overtake each other. `leaseLeft` is what the session may
believe of its lease from its last answered call.

*Checked.* `OverlapOnlyAfterLapse`: two sessions hold the project at once only if the lease
of one of them lapsed. `ImplementsExclusiveLease`: refinement of `ExclusiveLease`.
`NoPermanentHold`: a holder leaves, by itself or by its deadline. `LiveLeaseKept` (no call,
however late, ends or takes over a live lease of another session) is proved and not run.

*Otherwise than it says.* `OneBodyAtATime` is violated although timers are punctual and no
call is lost: `withDeadline` abandons the body, the lock is released, and the next isolate
executes the project beside it.

### EntityStore

One row with two fields; a value is the number of the put that wrote it. `Send` is `put` up
to `d1Put`; `Land`, `LandReplyLost`, `Reject`, `Defer` are what D1 makes of it; `Reread`,
`RereadFails` and `Retry` the merge and the retries of `persistEntity`; `Settle` the `.then`;
`PutDurable`, `Confirm`, `ConfirmUnread`, `Reapply` the steps of `putDurable`; `Sync` and
`Hydrate` what syncFromD1 and the two hydrations read, `Apply` what they make of it after their
await. `Derived` are the fields d1List works out (a project's state, db.js:107): `Hydrate` gives
any of them another value, beside the version of the row.

A version is to vouch for the copy beside it, and the code lets it vouch for more. Three
histories say where, field by field:

* `missed[i]`, of a copy: a field hydrate worked out; what a merged retry took from D1 and not
  into the copy (store.js:121-123); what putDurable found changed when it adopted the version
  (:159); what a row applied beside a write on its way lacks (:272-276), since that write's
  version will stand beside it; every field once the version is one of a write rejected for
  good, which D1 never held (:121).
* `older` and `newer`, of a write: the fields its writer had missed when it put them, those a
  repeated put re-applies, those its merge has beyond the copy.
* `blind`: a write went without a version over a row, because its row was put twice before the
  first write was confirmed or because the read of a retry failed.

Left out: putTransient, watermarks (a sync may return the row or miss it), more than one read
and one durable put of an isolate at a time, clocks that disagree.

*Checked.* `VersionAdvances`. `CurrentCopyIsTrue`: a copy at D1's version is D1's row, up to what
its isolate put later, in every field not `missed`. `NothingOldComesBack`: an accepted write with
a version brings back no value D1 had replaced, in every field that is not `older`.
*Otherwise than it says.* `StaleWriterIsRejected`, which is `NothingOldComesBack` without its
exceptions and what d1Put's comment promises (db.js:139-146): three puts of two isolates and no
fault undo another's field. `DurablePutSurvives`: the re-apply of `putDurable` writes nothing
while the copy is as it was put.

### TaskScheduler

JavaScript runs to completion, so an action is what happens between two awaits. `Start` is
claimNextTask, startTask and executeTask up to the executor; `Pass`, `RetryTask`, `GiveUp`
are the rest of runTask as far as `putDurable`, `Return` what follows it; `Sweep...` is
recoverStaleTasks, which waits between two tasks and keeps the rows it listed; `AssignTask`
is one turn of a loop over blocked tasks, in which nothing else runs (`todo`). `Tick` lets
time pass and fires heartbeats. `Mute` is a heartbeat that does not reach the row
recovery reads, `CutLane` and `CutSweep` an invocation that is cut, `Evict` a new isolate.

Left out: scores of agents (selectAgents picks any capable one), cooldowns and partial
capabilities, LONG_EXECUTORS and hand-off ticks, cancelled tasks, and the difference
between the store and D1 (`EntityStore`).

*Checked.* `OneRunPerTask`; `LiveRunIsKept`; `CompletedIsKept`: completion is final but for
two writers that hold an older row (a recovery that listed the task, the lane of an earlier
run), which the code lets undo it; `EverythingSettles`: every task completes, fails or waits
for one that did not complete.

### ProjectLifecycle

One project, in the store of one isolate. `QueueCommand` is queueCommand up to its
`store.flush()`, `Acknowledge` what follows: for a command that needs approval the project is
parked only then. `Approve` and `Reject` are the founder's decision (approveProject,
decideApproval). `tick[k]` is an invocation of the cron or of a trigger, in phases cut at its
awaits:

    off -> (RecoveryLists) listed -> (Recover, RecoverChain) recovered | retiring -> (RetireChain) recovered
    off | recovered -> (TickStarts) indexed -> (finalizeCommand in the sweep) swept
    swept -> (Acquire) acquiring -> (Enter) working -> (Start, Finish) -> (finalizeCommand) off

The interesting state is what an invocation has read and keeps over an await: `rows`, its
index of the tasks, with which it sweeps and puts the pipeline together (ensureProjectPipeline,
in `Enter`); `held` and `found`, what recovery listed. finalizeCommand ends in `NotReady`,
`Finalize` or `BuildDelivery`, after which `CompleteProject` or `DeliveryUnread` follow an
await. `known` are the rows the isolate's store has: `NewIsolate` begins with the live tasks
and some of the others, as `hydrateScheduler` and a sync leave it.

Two properties remember history. `early`: a tick took the project up before the command was
parked (the code does not prevent it, see `HighRiskWaits`). `cold`: an isolate began without
rows D1 had (`SchedulerSeesWhatItNeeds`). The others say what holds as long as neither happened.

Left out: what happens inside a run (`TaskScheduler`; with it the failure of a runnable task no
agent takes for 15 minutes), clocks (what is idle may be six hours old at any moment; an orphan
may be too young), the order of projects within a tick, budgets of D1 but for refused
retirements, the contents of artifacts and verdicts, the approval row recovery invents,
gate rows an earlier release stored with another sequence (`PutBack`).

*Checked.* `ParkedCommandsWait`; `DeliveredMeansDone`; `DeliveryIsKept`, which holds while
invocations do not overlap (when they do, a recovery that listed the project earlier puts the
row of then back, without its delivery: maintenance.js:186); `GatesComeInOrder`;
`CommandEnds`, which is what the exception of retired tasks in approveProject is for.
When invocations overlap *and* a gate exists twice, `GatesComeInOrder` does not hold either
(`Tick = {k1, k2}`, one duplicate: a trace of 22 steps): a tick collapses the duplicates over
its older index, in which the gate that the other has completed meanwhile is still open, and
cancels it (pipeline-gates.js:98). With either alone it holds; `NoRace` says so in the proofs.

### AccountBudget and CronTick

`row` is `stats/account_budget`, `local[i]` what an isolate has not flushed (`pend`) and last
read of it (`seen`), `quota[i]` its own counter with the block. A write asks both
(`canWriteD1`, `optionalWriteAllowed`), is sent, billed, answered; a flush reads the row,
awaits, and writes the sum back. Faults are refused, failed or unanswered calls and
evictions; midnight comes at any moment. `doubt` and `lost` remember what the code does not
make good (counts that were not billed, an update overwritten), and the two properties say
what holds otherwise: `NeverCountedTwice`, `NothingSlipsPast`.

`CronTick` is one command's rows, the marker `stats/scheduler_wake` and two isolates whose
crons fire each minute. A tick reads the marker, probes for changed rows, sweeps at its
minute, hydrates with a cooldown after a failure, and writes back what it saw although work
may have come since (`behind`). `WorkIsNeverWedged`: live work waits one sweep at most, and
one more for each load that failed. `FreshWorkIsQuick`: without faults the next minute's tick
looks at it, unless a slower tick wrote "idle" over its marker.

`MCAccountSpending` extends both and checks them in one run: they share no state, so one of
them moves in a behaviour and the other stays where it began. `waited` begins anew when work
is released, so that what is counted is the wait of the work that is live.

*Otherwise than it says.* A block may be set for a day that refused nothing
(`BlockedOnTheDayOnly`); a compare-and-set that was rejected is counted as a write; the
prune jobs' DELETEs ask only `canWriteD1`; a delta that is lost opens the guard too far, where
the comment says it is "slightly conservative" (d1-quota.js:76); a bootstrap that failed writes
"idle" too.

### RuntimeAcceptance

`code[p]` are the versions of a project's artifacts, `site[p]` what its URL serves, `dep`,
`run` and `cached` the records on the project. A caller (`job`) is the gate, the sweep, a
route or the founder's script: it reads what it aims at, deploys or tests over an await, and
records. `DeliveredWasRun`: what is delivered has passed over the network at the URL on
record, for its artifact if the run names one. `EveryProjectGetsARun`: if sweeps go on
(`SF` of `Sweep`, which the code reaches in each cron tick but may spend on others) and a
caller that waits is answered (`WF` of `Work`), a project gets a run.

*Otherwise than it says.* `SameBytes`, `NamedOrRecorded`, and `EveryProjectGetsARun` with two
projects and a sweep of one: the one that comes first is taken again and again. A deployment
that is DEPLOYING never times out; accept-runtime.mjs names the first artifact it meets; a
late answer overwrites the run of a newer one; two callers may deploy at once; the summaries
of index.js are computed without the environment, so that they never see a runner.

### AcceptanceRules and AcceptanceRun

`AcceptanceRules` derives from a command what is owed (`Owed`): its specification, its
architecture, its features with their probes. `AcceptanceRun` is one run: `pc` is the section
of scripts/production-runtime.mjs, `rows` the records of the app, `tests` what is recorded,
`probes` the results of the features on the one shared record, `verdict` what
evaluateRuntimeAcceptance makes of it. An app is what it does (`does`) and what its source
says (`says`); one call may get no answer, before or after it reached the app (`lost`).

*Checked.* `PassedIsTrue`: an accepted app does what is owed and has the features asked for,
but for what an unanswered call hides, and for an order that is probed on one record or by a
text. `OwedIsRecorded`: what the judge asks for the runner
records. `PerfectAppPasses`: a perfect app is accepted, if its probes come in an order that
leaves the record in place. All three are theorems.

*Otherwise than it says.* `PassedMeansCalled`, `SortedIsOrdered`. Further: health passes with any status below
500, whether or not /api/health answers; the core feature of an app without a server is
judged as user interaction; its journey passes update and delete without acting; MAULI's own
Worker has neither search nor summary routes, so features of reports, searches, exports and
audits never pass there; weather, maps and translation need no key and yet a credential in
the evaluation; the test of external services is only the runner's own call.

### PageDrive, InMemoryD1, DeploymentHarness, UserJourney

`PageDrive`: the two passes over a page's handlers with a snapshot (`stale`: the page differs
from it, `typed`: the inputs hold a text), the judgement, and one action of a user.
`VerdictIsTrue`: a page that runs and shows its work is functional, and a functional one runs
and shows its work, or has an input.
`InMemoryD1` executes a statement as the shim does, and as D1 does; `DeploymentHarness` sends
each request of the record routes to both. `ShimIsD1`: answers and rows agree as long as no
row is inserted after a delete. `EveryWriteOnce`: whoever comes and goes, no client of the
live channel is given a write twice, and each is given every one from its upgrade on, until
somebody leaves. A request is one step here: the shim's promises are microtasks, and no
request waits for the outside. (Concurrent registrations, which D1 does interleave, are in
`GeneratedApp`.) UNIQUE is not in the shim, an ORDER BY is ignored.
`UserJourney`: the steps of a journey in order over the build's records and session, then the
loop that repairs and takes the whole journey again, each in a runtime of its own.
`JourneyIsTrue`: it passes exactly when the build does what the plan asks, unless a call
hangs. These four are theorems too.

`MCAcceptanceRun` checks them with `AcceptanceRun` in one run: four parts, no common state,
one of which moves in a behaviour. (`Pages` and `Builds` instantiate two of them for the
records a page and a build are made of.)

*Otherwise than they say.* See the table of refuted promises. Further: interact presses twice and
reports its own filling as a change; a handler that only stores is judged static; `runs` of
repairUntilRuntimeAcceptance leaves out the first run.

### GeneratedApp

The emitted program in five shapes: on the device, over D1, with live updates, with accounts,
with faults. `rows` and `account` are D1's, `req[r]` a request with the statement it waits at,
`page[c]` a client's list, form and token, `wire[c]` what its socket has not delivered.
`behind` remembers the losses the page does not make good. `RegisteredCanLogIn`: of two
registrations at once one is told so, and its password stands. `PageShowsStore`: a page with
live updates shows what is stored once everything has arrived.

*Otherwise than it says.* `IdsAreUnique` on the device (a deleted row's id is given again),
`NoRowTwice` (the origin meets its own broadcast). Further: an update on the device drops
amount and due; the update of a row deleted meanwhile answers ok with null; saveItem reads
which record is edited when the answer comes; without accounts ensureSchema makes no due
column (the migrations of the deployment do).

### CodeGeneration

`job[j]` is one run of generateFunctionalArtifact: the file it is at, its attempts, the
round of repair, the files it has. A file is its flaw and the contract it was written to, so
that a script of one round and a page of another may disagree (`Drifted`). A call answers,
fails, hangs past the file's deadline (and goes on, with its effects on the quota and on the
provider's record), or answers with what is no file. `ShippedIsSound`,
`OutageCostsNothing` (an outage of Workers AI, as long as Groq answers well),
`GenerationEnds`, under weak fairness of a run that can go on: each call has a deadline.
*Otherwise than it says.* `HangCostsNothing`.

### DeployExecutor

`db` are the account's databases by name (project and digest of migrations) with an id and
the tables that were migrated, `worker` what is published and the id it is bound to, `edge`
what answers, `job[d]` a deploy at a call of wrangler, `plan` what the cleanup will delete. A
call may be refused, or be killed with or without its effect (`Fail`). `excused` are projects
that gave their database up, were deployed twice at once, or whose database the operator did
not keep. `LiveDatabaseStays`, `TablesMatch`. *Otherwise than it says.* `EdgeHasDatabase`.

### AppBuilds

A file on the build branch is the number of the build it is of. `job[b]` is a POST
/api/build-app at one of its awaits: claim, cancel the runs, delete and create the branch,
then verify the claim, look and put, file by file, and record. `run` and `apk` are the newest
workflow run and the newest success, `page[b]` the button that polls. `overlapped` are builds
that were under way together. `NewestGoesOn`, `AloneIsWhole`, `OfferedHasApp`.
*Otherwise than it says.* What a page offers may be another build's (`OfferedIsOwn`), may lack
files (`OfferedIsWhole`); a superseded build comes back (`SupersededStays`); a button stays
disabled (`NeverStuck`). The list of final states lacks GitHub's `failure`; a run succeeds
only if both of its jobs do; the lists are cut at `per_page`.

### ProjectDelivery

`arts` are artifacts with a page and perhaps a server, `done` and `refused` the gates so far,
`run` the acceptance on record, `edits` the founder's, `delivered` what was handed over. The
files of a project are the first met of each path, in one of two orders (`Merged`): the
gates, the delivery and the download each meet them. `Refusals` is buildFinalDelivery's list
of reasons; every project here has scheduled a code task, so that its matrix is always built. `PassedGatesDeliver`: what every gate passes the delivery does not refuse, but
for what no gate looks at (the words of the request, a foreign template, an obligation).
`DeliveredIsSound`. *Otherwise than it says.* `DownloadIsJudged`, `DeliveredIsSafe`,
`DeliveredIsVerified`, `UndoRestores`. Further: a critical structural requirement with the
status NOT APPLICABLE blocks the report for ever where there is a server
(production-runtime.js:779).

## Runs and bounds

| Run | Instance | States | What it is enough for |
|---|---|---|---|
| `project_lock` | 2 sessions; unit 30 s: lease 4, beat 1, budget 6 | 133 k | the lease expires before the budget; more sessions only wait |
| `entity_store` | 2 isolates that have read a row of 2 fields, 3 puts, 2 retries, 1 fault; 4 puts, reads and faults in all | 4.0 M | a writer, one that overtakes it, and a third put on the merged row; a read or a fault among them |
| `task_scheduler` | 2 tasks, 2 agents, 2 lanes, 2 attempts, 1 recovery, 1 fault | 830 k | a task overtaken by its recovery, an agent two tasks want, a chain |
| `project_lifecycle` | 1 invocation, 1 task, 3 gates (build, qa, integrity), 1 duplicate gate, 1 fault, 1 decision | 182 k | every operation, each cut or restarted once; the first, the final QA and the last gate are the ones the code treats apart |
| `account_spending` | 2 isolates, 2 writes at once, limit 2, a midnight or a fault; 2 isolates, 2 ticks at once, sweep 3, dead 5, 1 fault, 2 commands | 1.9 M | a flush overtaken by another; a marker overwritten between a look and its write |
| `runtime_acceptance` | 1 project, 2 versions, 1 caller and the script, 1 fault | 564 k | a run overtaken by a repair or by another run |
| `generated_app` | 5 shapes, 2 clients, 2 requests at once, 2 saves, 1 session each, 4 or 5 acts, 1 fault | 2.1 M | an answer that crosses a live update; two registrations |
| `acceptance_run` | 16 commands, 30 apps, 1 unanswered call; pages of 2 controls; 3 sockets, 4 writes; 5 plans, 1 repair, 1 call that hangs | 677 k | every kind of feature in and out of order, each behaviour missing alone; a client that joins, one that leaves and one that stays |
| `deploy_executor` | 2 projects, 2 schemas, 2 deployers, 3 databases, 4 deploys, 1 cleanup | 2.5 M | a deploy overtaken by one of its own or of the other project on a full account |
| `code_generation` | 1 run, 2 contracts, 3 attempts, 1 round of repair, quota 2, 1 hang | 253 k | a script and a page of different rounds; a quota spent within a run |
| `app_builds` | 2 isolates, 2 files, 2 builds, 2 attempts of a page, 1 fault | 1.6 M | a build overtaken between any two of its calls; a tree with and without the app |
| `project_delivery` | 6 drafts, 2 artifacts, 1 edit, 2 runs | 1.5 M | a path in two artifacts, met in either order, edited between two gates |

Two overlapping invocations of `ProjectLifecycle` (`Tick = {k1, k2}`, no fault, no duplicate,
`Spec`; 1.7 M states) satisfy `ParkedCommandsWait`, `DeliveredMeansDone` and `GatesComeInOrder` (now theorems);
`DeliveryIsKept` does not hold there. The type invariant `TypeOK` of each module holds on the
instance of its run.

`CHECK_DEADLOCK FALSE` is given where the system may stop: puts, faults, calls and builds are
bounded, and a project whose tasks have settled has nothing to do in `TaskScheduler`. In
`ProjectLifecycle` the cron always has a next tick; `DeployExecutor`, `CodeGeneration`,
`ProjectDelivery` and the parts of `acceptance_run` say where they rest: there deadlock is
checked.

*Fairness.* `ProjectLock`: weak fairness of `Elapse`, of each session's deadline (a timer), and
of a renewal in flight, which arrives or is lost; no body has to settle, no call has to arrive,
no isolate has to survive. `TaskScheduler`: time passes, a lane whose executor settled or whose
deadline fired goes on (`withDeadline`), and the cron, which calls `schedulerTick` each minute,
recovers and offers every task that is ready. Nothing is assumed of executors.
`ProjectLifecycle`: a command goes on after its flush, each step of an invocation that can be
taken is taken (the cron calls it again if it is cut), a task that is ready again and again is
started (strong fairness: a tick may end its budget before it comes to it), and work that is
idle is six hours old some time. The founder need not decide. `RuntimeAcceptance` and
`CodeGeneration` as said above. `CronTick` needs none: a minute cannot pass before its cron is
called, and `WorkIsNeverWedged` counts minutes. The other modules have no liveness property.

## Refuted promises

What a comment, a doc or a name of the repository promises and the code does not keep: each is
stated beside the properties of its module, and TLC violates it on the instance given (the run's,
where nothing else is said; deadlock and symmetry off).

| Promise | Module | Instance |
|---|---|---|
| `OneBodyAtATime` | `ProjectLock` | `BestDaySpec` of `MCProjectLock` |
| `DurablePutSurvives` | `EntityStore` | `ReadsWorkSpec` of `MCEntityStore`, 2 puts |
| `StaleWriterIsRejected` | `EntityStore` | of `MCEntityStore`: `PlainSpec` (a merged retry), `CreatedSpec` with no fault (a sync beside a write), `ReadsWorkSpec` with no fault (a re-apply) |
| `AgentsDoNotCollide` | `TaskScheduler` | `Spec`, no fault |
| `AttemptsAreRealFailures` | `TaskScheduler` | `Spec` |
| `HighRiskWaits`, `DeliveredHasResult` | `ProjectLifecycle` | `Spec`, no fault, no duplicate gate |
| `SchedulerSeesWhatItNeeds` | `ProjectLifecycle` | `Spec`, no duplicate gate |
| `BlockedOnTheDayOnly` | `AccountBudget` | the run's |
| `SameBytes`, `NamedOrRecorded` | `RuntimeAcceptance` | `Spec` |
| `EveryProjectGetsARun` | `RuntimeAcceptance` | `Project = {p, q}`, no fault |
| `IdsAreUnique` | `GeneratedApp` | `LocalShapes`, 3 saves |
| `NoRowTwice` | `GeneratedApp` | `LiveShapes` |
| `EdgeHasDatabase` | `DeployExecutor` | 1 deployer, 4 databases |
| `HangCostsNothing` | `CodeGeneration` | 2 attempts |
| `OfferedIsOwn`, `OfferedIsWhole`, `SupersededStays`, `NeverStuck` | `AppBuilds` | the run's |
| `DownloadIsJudged`, `DeliveredIsSafe`, `DeliveredIsVerified`, `UndoRestores` | `ProjectDelivery` | the run's |
| `PassedMeansCalled`, `SortedIsOrdered` | `AcceptanceRun` | the run's |
| `DeadPageIsRefused` | `PageDrive` | the run's |
| `ShimKeepsIds`, `OthersStayConnected`, `BothMeansAll` | `DeploymentHarness` | the run's |
| `PlannedIsRecorded`, `LiveReachesBoth`, `PassedUsedDatabase`, `UnknownIsRefused`, `RegressionsRegressed`, `GlobalsComeBack` | `UserJourney` | the run's |

Each is quoted in the `findings` of `PROJECT.json`, with others met while reading.

## Proofs

The proofs hold for every value of the constants that the `ASSUME`s of the modules allow.

* `SharedStateProofs`, of `ProjectLock`: `LockInvariant` proves `LockInv`, which adds to the
  types that a released session has left (`ReleasedHaveLeft`) and that a session whose lease is
  live and that has not left owns the coordinator's token with at least as much time left
  (`RowBacksLease`); mutual exclusion, `LiveLeaseKept` and the refinement follow.
  Of `EntityStore`: `StoreInvariant` proves `StoreInv`: puts that were made have authors, a
  value that is somewhere was made, a row has a version, and, unless a write went blind, they are
  `Coupled`: whatever is beside D1's version (an isolate's copy, a write on its way, a row read
  and not applied) is D1's row field by field, but for its isolate's later puts and the fields
  its history names; none has a later version than D1's but the one a used-up retry made; and a
  copy has what its own writes on their way store, or a later put of its own, since it is what
  the version of the write that settles will stand beside. `CopyIsTrue` and `OldStaysGone` follow.
* `TaskSchedulerProofs`: `SchedulerInvariant` (`IInv`: types, and that runs, lanes and
  recoveries are about tasks, and loops assign blocked tasks only). `OneRunPerTask` is
  inductive on top of it. `LiveRunIsKept` needs in addition that a heartbeat that is seen is
  as old as its timer (`SeenOnTime`, by counting modulo the interval) and that no recovery
  under way is about such a run (`SweptNotSeen`).
* `ProjectLifecycleProofs`: `TypeCorrect` (the gate that is kept of several, and what a gate is
  chained behind, are rows: choices the prover needs a witness for), and `ParkedInvariant`,
  which `ParkedCommandsWait` is not inductive without: while a command waits every invocation
  is before the lock and has an index in which nothing was started (so that it cannot finalize
  the project), an approval exists only of an acknowledged command that needs one, and the
  project is parked, or failed by a recovery that found its chain dead before.
  `GatesComeInOrder` and `DeliveredMeansDone` rest on `ChainInv` (`ChainInvariant`): once the
  gates are there each is chained behind the one before it (or its duplicate) and the first
  behind the work (`Linked`), and nothing has started before (`LinkedFirst`); an index holds
  rows that are there (`OldRows`), and of one invocation what has settled in either is the same
  in both (`RowsAgree`); only the holder of the lock runs tasks (`Lanes`); and a gate whose
  predecessors are not completed has not started, in no row and in no index (`Ordered`). Both
  are theorems under `NoRace` (no duplicate gates, or no overlapping invocations: see above).
  `DeliveryIsKept` is a theorem under `OneTick` and rests on `RestInv`: a delivered project is
  completed, waits for no decision, no invocation is past its sweep with it, and none has
  listed it as it was before.
* `HandoverProofs`, of `DeployExecutor`: `TablesMatch` needs that an id is one database's and is never given
  again, and that a deploy past its creation has a database of the name that carries its
  schema (`DeployInv`). `LiveDatabaseStays` needs in addition (`CareInv`) that a deploy has only
  superseded names of its own project left to delete, and that an undisturbed project's
  database is neither in the cleanup's plan nor in a deploy's, from before it is published.
  Of `ProjectDelivery`: the argument is about `Merged`: it has a file in one order exactly
  when it has one in the other (the first of a path is found with a well-founded order), an
  edit never takes one away, and gates and delivery then read the same facts.
* `AppMakingProofs`, of `CodeGeneration`: `GenerationInv` says which files a run may have at each step (of its
  plan only) and that a run ends with a model's files only through the judgement; soundness
  of what is shipped is part of it. `OutageCostsNothing` needs `OutageInv`: a run that has met
  nothing but outages has whole files up to where it is, and the file it waits for has cost one
  call of the chain, or that and one of Groq by name. It assumes more than one attempt per file (the code's
  PER_FILE_MAX_ATTEMPTS is 4): with one it is false.
  Of `AppBuilds`: `BranchInv`: the claim is the newest's, who has got past it; all builds
  before one that went alone are over; and of the last build, if it goes alone, the branch
  carries every file it counts as done. `NewestGoesOn` and `AloneIsWhole` follow. `OfferInv`:
  every address in a row, a copy, a page or the newest success is of no package or of one with
  the app; `OfferedHasApp` follows.
* `AccountSpendingProofs`, of `CronTick`: `WaitInv` bounds the minutes waited and those to the
  next sweep together by one sweep, and one for each fault that is not held by an isolate which
  is still blind at that sweep (`Blind`): a fault pays for a missed sweep once. `QuickInv` says
  what holds before the first fault: the marker is not "idle" over live work that was marked,
  a tick that looked after it sees it. Of `AccountBudget`: `Owned` and `TimesInv` (nothing is
  of a day to come, a flush writes for a day between that of its rows and its isolate's, and on
  the day of its rows they are still pending), then `CountInv`, which bounds every number that *may yet be
  taken* for the ledger's (`Reading`: what an isolate has read, what a flush read or wrote)
  and not only the ledger's own: without it a flush would write a sum the invariant knows
  nothing of. What is on its way is a sum over isolates, a fold of the library; that it moves
  by as much as one summand is proved of the recursive function by a smallest counterexample
  (`SumsDiffer`), so that no induction theorem is needed.
* `GeneratedProductProofs`, of `GeneratedApp`: `AppTyped` is `AppTypeOK` without the run's bounds
  on lengths and numbers. `RegisteredCanLogIn` rests on `AccountInv`: nobody is admitted before
  there is an account. `PageShowsStore` rests on `LiveInv`: what a page has wrong of a record is
  made good (`Mended`) by a request that has changed the record and not told of it yet, or by a
  message that is still on the page's wire. That is said not only of the page's list but of the
  answer to load() it waits for, which replaces the list, and of each record on the wire, which
  is as old as the message (`WireFine`: of it only the messages behind it make good); and the store
  gives no id twice (`Numbered`). It uses that a shape with live updates has a server
  (`ServerAssumption`: selectArchitecture, architecture.js). What the recursive function
  `Without` returns for every list is proved by a smallest counterexample (`LeastNumber`).
  Of `RuntimeAcceptance`: `AcceptInv` adds to the types and to `DeliveredWasRun`, which is then
  inductive, that no project has more artifacts than versions were written (`EnoughVersions`).
* `AcceptanceProofs`, of the four parts of `acceptance_run`, each of its own specification.
  `AcceptanceRun`: a run is judged at its end, so what is said of the verdict has to be known
  step by step. `RecordInv` says which tests are there by where the run is (`TestsThere`), and
  that the runner holds a token only from a login that passed to the logout; `OwedIsRecorded`
  follows. `ToldInv` adds what each test that passed shows of the app, and why an unanswered
  call does not make two of them lie: an answer that is missing empties the list that is to
  show a deletion, or it answers the request for the record that is gone, but not both. Of the
  probes it keeps one result per feature and the session and record they stand on; a feature
  that is sorted by stands where the catalogue has it (`Subsequences` keeps the order), so that
  what its probe saw is known from the probes before it. `PassedIsTrue` follows, with `Hidden`
  as the exact remainder. `PerfectInv` adds, of a perfect app without a lost answer, that
  nothing has failed, that the store holds one record at a time, and that the probes' record is
  there, unedited, until a probe that is `InOrder` edits or deletes it; `PerfectAppPasses` follows.
  `PageDrive`: `PageInv` says of every control that throws, or shows its work, that it is still
  to be pressed or has been reported, for a page of any length.
  `UserJourney`: `JourneyInv` says what the plan has by where the journey is, what each step
  that passed showed (a deletion says something only of a record that was edited before), and
  that a whole build has failed nothing and is let in. It uses that a plan with accounts or live
  updates has a server (`UserJourneyBounds`: architecture.js:39).
  `DeploymentHarness`: `ChannelInv` says that every half of a pair in the hub is of a client
  that has connected, and that what was sent to it, what the client was given and what waits
  for it repeat nothing; it holds for every finite set of clients. `StoresInv` compares the
  two stores row by row until a row is inserted after a deletion, and until a deletion the
  next id is the same. `OnlyIn`, a recursive function, is characterised for every list by the
  positions it picks (with `LeastNumber`).

Each was checked by TLC on an instance before it was proved.

The library's induction theorems take an operator as a parameter, which the provers cannot
instantiate; where a proof needs induction, over the length of a list or the isolates summed,
it takes the least element of the set of counterexamples (`LeastNumber`, from the
well-foundedness of `<` on the numbers).

Only model-checked: liveness (`NoPermanentHold`, `EverythingSettles`, `CommandEnds`,
`EveryProjectGetsARun`, `GenerationEnds`), which needs fairness; the type invariants of the
modules without a `TypeCorrect`, as far as their inductive invariants do not contain them; the
refuted promises, which are counterexamples.

## Not modelled

* *Command endpoint, chat engine*: routing, authentication and text around calls of the
  modelled components; their state changes are `QueueCommand`, `Approve`, `Reject`.
* *Tools and their governance*: external calls behind a registry, with no state that others
  read.
* *Dashboards*: read-only views, but for the page that polls a build (`AppBuilds`).
* *Agents' learning and messages*: scores and messages no decision depends on, but for the
  ranking of agents, which `TaskScheduler` leaves open.
* *Within modelled parts*: events, hydration caps and pruning of the store; projects created by
  chat, paused, cancelled or deleted by HTTP; the queue's budget (`queue-quota.js`, the same
  idea as the ledger); the static evidence of a requirement; prompts, templates and styles;
  version records and webhooks, which nothing decides on; native targets; release checks that
  read files and run other programs.

## Plan

Done: the core (lock, store, scheduler) with proofs; lifecycle; budget and idle gate; runtime
acceptance; the acceptance runner and its harnesses; the generated app; code generation;
deploys; app builds; delivery. To do, in this order:

1. an abstract `CommandRun` (a command waits, runs, ends once) that `ProjectLifecycle`
   implements, and a register with atomic writes that guarded puts implement;
2. the sync's watermark over several rows, and the scheduler over stores that differ;
3. `claimBuildVersion` and the shared rows of `EntityStore`'s callers that go round `put`.
