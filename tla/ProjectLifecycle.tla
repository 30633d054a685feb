-------------------------- MODULE ProjectLifecycle --------------------------
(***************************************************************************)
(* The life of one project: the command that queues it and the founder's   *)
(* approval (orchestrator.js, governance.js), the ticks that put its       *)
(* pipeline together and finalize it (scheduler.js, pipeline-gates.js,     *)
(* delivery.js), and the recovery of projects that are stuck               *)
(* (maintenance.js).                                                       *)
(*                                                                         *)
(* All of it happens in the store of one isolate, in which several ticks   *)
(* may be under way; an action is what happens between two awaits.  What a *)
(* tick or a recovery has read before an await it keeps: `rows`, `held`    *)
(* and `found`.  A new isolate begins with some of the rows only: `known`. *)
(*                                                                         *)
(* A run of a task is one step from "working" to what came of it           *)
(* (TaskScheduler is about the steps in between), the execution lock a     *)
(* variable (ProjectLock), the store as durable as D1 (EntityStore).       *)
(***************************************************************************)
EXTENDS Naturals, Sequences, FiniteSets

CONSTANTS
  Work,       \* the tasks of the plan, but for the final QA
  GATES,      \* GATES, a sequence of gate types
  Twin,       \* rows that are historical duplicates of a gate
  TwinType,   \* the gate type of each
  Tick,
  NoTick,
  MaxLanes,   \* bound: tasks a tick runs at once
  MaxFaults,  \* bound: invocations cut, isolates evicted, writes lost, tasks offered when
              \* no agent is capable, too young or too often recovered, or idle for six
              \* hours, in all
  MaxVerdicts \* bound: decisions of the founder on one approval

GateType == {GATES[i] : i \in 1..Len(GATES)}
Row == Work \cup GateType \cup Twin

\* A gate's row has the id task_gate_<project>_<type>: here, the type.
typeOf(t) == IF t \in Twin THEN TwinType[t] ELSE t

ASSUME GateAssumption ==
  /\ GATES \in Seq(STRING)
  /\ \A i, j \in 1..Len(GATES) : GATES[i] = GATES[j] => i = j
  /\ Len(GATES) > 2 /\ GATES[Len(GATES) - 1] = "qa" /\ GATES[Len(GATES)] = "integrity"
ASSUME RowAssumption ==
  /\ Work \cap GateType = {} /\ Twin \cap (Work \cup GateType) = {}
  /\ TwinType \in [Twin -> GateType \ {"qa", "integrity"}]
ASSUME BoundAssumption ==
  MaxLanes \in Nat /\ MaxFaults \in Nat /\ MaxVerdicts \in Nat /\ NoTick \notin Tick

VARIABLES
  command,   \* what became of queueCommand
  risk,      \* riskLevel of the command; fixed
  approval,  \* the row of its approval
  project,   \* the row of the project
  result,    \* the row of command_results
  artifact,  \* there is a final-delivery artifact
  task,      \* the state of each row of tasks
  dependsOn, \* of each row
  known,     \* the rows the isolate's store has
  tick,      \* the invocations of runMaintenance and schedulerTick
  holder,    \* the tick that has the project's execution lock
  early,     \* history: a tick took the project up before the command was parked
  cold,      \* history: an isolate began without rows that D1 had
  faults,
  verdicts

vars == <<command, risk, approval, project, result, artifact, task, dependsOn, known,
          tick, holder, early, cold, faults, verdicts>>

\* "refused": completed, with a result that says passed: false.  "retired": failed,
\* with retiredAt.  "absent": there is no such row, or none in the store.
TaskState == {"absent", "queued", "assigned", "working", "completed", "refused",
              "failed", "retired", "blocked", "cancelled"}
RUNNABLE == {"queued", "assigned"}
Stuck == {"working", "assigned"}
Live == {"queued", "assigned", "working", "blocked"}
Completed == {"completed", "refused"}
Failed == {"failed", "retired"}

ProjectState == {"none", "active", "queued", "awaiting_approval", "blocked", "completed", "failed"}
Project == [state : ProjectState, delivered : BOOLEAN]
NoProject == [state |-> "none", delivered |-> FALSE]

NoRows == [t \in Row |-> "absent"]

\* A tick of the cron begins with maintenance.  held, found: the project and what its tasks
\* came to when recovery listed them.  rows: the tick's index of the tasks.  then: where a
\* tick goes on when finalizeCommand returns.  running: the tasks its lanes have started.
TickRow == [phase : {"off", "listed", "retiring", "recovered",
                     "indexed", "swept", "acquiring", "working", "building"},
            held : Project, found : {"empty", "settled", "moving", "dead"},
            rows : [Row -> TaskState], then : {"off", "swept"}, running : SUBSET Row]
NoTickRow == [phase |-> "off", held |-> NoProject, found |-> "empty", rows |-> NoRows,
              then |-> "off", running |-> {}]

TypeOK ==
  /\ command \in {"received", "flushing", "acknowledged", "lost"}
  /\ risk \in {"normal", "high", "critical"}
  /\ approval \in {"none", "pending", "approved", "rejected"}
  /\ project \in Project
  /\ result \in {"none", "failed"}
  /\ artifact \in BOOLEAN
  /\ task \in [Row -> TaskState]
  /\ dependsOn \in [Row -> SUBSET Row]
  /\ known \in SUBSET Row
  /\ tick \in [Tick -> TickRow]
  /\ holder \in Tick \cup {NoTick}
  /\ early \in BOOLEAN /\ cold \in BOOLEAN
  /\ faults \in 0..MaxFaults /\ verdicts \in 0..MaxVerdicts

Fault ==
  /\ faults < MaxFaults
  /\ faults' = faults + 1

-----------------------------------------------------------------------------
\* What the store shows of the project's tasks.

Seen == [t \in Row |-> IF t \in known THEN task[t] ELSE "absent"]
In(rows, states) == {t \in Row : rows[t] \in states}
Present(rows) == {t \in Row : rows[t] # "absent"}

\* mutant: a task that has failed is over, too
dependenciesOver(t) == \A d \in dependsOn[t] : Seen[d] \in Completed \cup Failed

dependenciesReady(t) == \A d \in dependsOn[t] : Seen[d] \in Completed

\* A run with a fresh heartbeat: its tick still has it.
LiveRun(t) == \E k \in Tick : t \in tick[k].running

\* assignTask, of tasks whose inputs are there: "blocked" when no agent is capable.
Offered(tasks, states) ==
  IF \A t \in tasks : states[t] = "assigned" THEN UNCHANGED faults ELSE Fault

-----------------------------------------------------------------------------
\* The command and its approval.

requiresApproval == risk # "normal"

\* queueCommand up to its flush: the project, active with its first task, then queued;
\* the tasks of the plan; and the final QA, which depends on all of them.
QueueCommand ==
  /\ command = "received"
  /\ command' = "flushing"
  /\ project' = [state |-> "queued", delivered |-> FALSE]
  /\ dependsOn' = [dependsOn EXCEPT !["qa"] = Work]
  /\ \E states \in [Work -> {"assigned", "blocked"}] :
       /\ Offered(Work, states)
       /\ task' = [t \in Row |-> IF t \in Work THEN states[t]
                                 ELSE IF t = "qa" THEN "blocked" ELSE task[t]]
  /\ known' = known \cup Work \cup {"qa"}
  /\ UNCHANGED <<risk, approval, result, artifact, tick, holder, early, cold, verdicts>>

\* The rest of it: the project row is the one of before the flush.
Acknowledge ==
  /\ command = "flushing"
  /\ command' = "acknowledged"
  /\ IF requiresApproval
       THEN /\ project' = [state |-> "awaiting_approval", delivered |-> FALSE]
            /\ approval' = "pending"
       ELSE UNCHANGED <<project, approval>>
  /\ UNCHANGED <<risk, result, artifact, task, dependsOn, known, tick, holder,
                 early, cold, faults, verdicts>>

CommandCut ==
  /\ command = "flushing"
  /\ Fault
  /\ command' = "lost"
  /\ UNCHANGED <<risk, approval, project, result, artifact, task, dependsOn, known, tick,
                 holder, early, cold, verdicts>>

\* mutant: what maintenance retired is revived
RevivableRetired(t) == Seen[t] \in {"blocked", "failed", "retired"}

\* approveProject: every live task is queued, then every blocked or failed one whose
\* inputs are over or queued with it, in the order of the list.
Revivable(t) == Seen[t] \in {"blocked", "failed"}
InputsOver(t, requeued) ==
  \A d \in dependsOn[t] :
    d \in requeued \/ Seen[d] \in Completed \cup Failed \cup {"cancelled"}
NextRequeued(t, requeued) ==
  IF Revivable(t) /\ InputsOver(t, requeued) THEN requeued \cup {t} ELSE requeued

\* The list: the plan's tasks, the final QA, then the gates as they were created.
ListOrder == <<"qa">> \o SelectSeq(GATES, LAMBDA g : g # "qa")

Requeued ==
  LET live == In(Seen, {"queued", "assigned", "working"})
      work == live \cup {t \in Work \cup Twin : Revivable(t) /\ InputsOver(t, live)}
      upTo[n \in 0..Len(ListOrder)] ==
        IF n = 0 THEN work ELSE NextRequeued(ListOrder[n], upTo[n - 1])
  IN live \cup {t \in Row : Revivable(t) /\ t \in upTo[Len(ListOrder)]}

Requeue(rows, set) == [t \in Row |-> IF t \in set THEN "queued" ELSE rows[t]]

\* mutant: the project is planned again
approveProjectPlans(row) ==
  /\ project' = [row EXCEPT !.state = "planning"]
  /\ task' = Requeue(task, Requeued)

approveProject(row) ==
  /\ project' = [row EXCEPT !.state = "queued"]
  /\ task' = Requeue(task, Requeued)

\* POST /api/approvals/:id.  decideApproval decides again what was decided before.
Approve ==
  /\ approval # "none" /\ verdicts < MaxVerdicts
  /\ verdicts' = verdicts + 1
  /\ approval' = "approved"
  /\ IF approval = "pending" THEN approveProject(project) ELSE UNCHANGED <<project, task>>
  /\ UNCHANGED <<command, risk, result, artifact, dependsOn, known, tick, holder,
                 early, cold, faults>>

Reject ==
  /\ approval # "none" /\ verdicts < MaxVerdicts
  /\ verdicts' = verdicts + 1
  /\ approval' = "rejected"
  /\ UNCHANGED <<command, risk, project, result, artifact, task, dependsOn, known, tick,
                 holder, early, cold, faults>>

-----------------------------------------------------------------------------
\* A tick begins: the command's approval, recoverStaleTasks, the index of the tasks.

\* mutant: without the test of the approval's risk
AutoApprovesAny == approval = "pending" /\ project.state = "awaiting_approval"

\* dangerous is false of every command: its pattern begins and ends with an escaped
\* backslash, which no command has.
AutoApproves == approval = "pending" /\ project.state = "awaiting_approval" /\ risk = "high"

Orphans(rows) == {t \in known : rows[t] \in Stuck /\ ~LiveRun(t)}
ReadyBlocked(rows) == {t \in known : rows[t] = "blocked" /\ dependenciesReady(t)}

\* Orphans are recovered, unless they are younger than the grace period, or fail when the
\* budget of their recoveries is spent.
TickStarts(k, orphans) ==
  LET rows == IF AutoApproves THEN Requeue(task, Requeued) ELSE task
  IN
  /\ tick[k].phase \in {"off", "recovered"} /\ command # "received"
  /\ orphans \in {Orphans(rows), {}}
  /\ IF AutoApproves
       THEN /\ approval' = "approved"
            /\ project' = [project EXCEPT !.state = "queued"]
       ELSE UNCHANGED <<approval, project>>
  /\ \E over \in [orphans -> {"queued", "failed"}],
        states \in [ReadyBlocked(rows) -> {"assigned", "blocked"}] :
       /\ IF orphans = Orphans(rows) /\ \A t \in orphans : over[t] = "queued"
            THEN Offered(ReadyBlocked(rows), states) ELSE Fault
       /\ task' = [t \in Row |-> IF t \in orphans THEN over[t]
                                 ELSE IF t \in ReadyBlocked(rows) THEN states[t] ELSE rows[t]]
  /\ tick' = [tick EXCEPT ![k] = [NoTickRow EXCEPT !.phase = "indexed",
                            !.rows = [t \in Row |-> IF t \in known THEN task'[t] ELSE "absent"]]]
  /\ UNCHANGED <<command, risk, result, artifact, dependsOn, known, holder, early, cold,
                 verdicts>>

-----------------------------------------------------------------------------
\* finalizeCommand, in the sweep of every tick over its index, and at the end of the
\* work on the project over rows read again.

hasPending(rows) == In(rows, {"queued", "assigned", "working"}) # {}
hasRunning(rows) == In(rows, Stuck) # {}
hasQueued(rows) == \E t \in In(rows, RUNNABLE) : dependenciesReady(t)
hasFailed(rows) == In(rows, Failed) # {}
hasBlocked(rows) == In(rows, {"blocked"}) # {}
allCompleted(rows) == Present(rows) \subseteq In(rows, Completed \cup {"cancelled"})

IsBlocked(rows) ==
  ~hasPending(rows) /\ hasBlocked(rows) /\ ~hasFailed(rows) /\ ~allCompleted(rows)
IsOver(rows) == ~IsBlocked(rows) /\ ~hasRunning(rows) /\ ~hasQueued(rows)
IsComplete(rows) ==
  IsOver(rows) /\ allCompleted(rows) /\ {"qa", "integrity"} \subseteq In(rows, Completed)
IsFailed(rows) == IsOver(rows) /\ ~IsComplete(rows) /\ hasFailed(rows)

InSweep(rows) ==
  /\ project.state \notin {"failed", "awaiting_approval"}
  /\ ~(project.state = "completed" /\ project.delivered)
  /\ hasPending(rows) => hasBlocked(rows)

\* Where finalizeCommand is called, with which rows, and where the tick goes on.
Finalizing(k, rows, next) ==
  \/ tick[k].phase = "indexed" /\ rows = tick[k].rows /\ next = "swept" /\ InSweep(rows)
  \/ tick[k].phase = "working" /\ rows = Seen /\ next = "off" /\ tick[k].running = {}

GoOn(k, next) ==
  /\ tick' = [tick EXCEPT ![k] = IF next = "off" THEN NoTickRow
                                 ELSE [@ EXCEPT !.phase = next, !.then = "off"]]
  /\ holder' = IF next = "off" /\ holder = k THEN NoTick ELSE holder

Finalized(k, state) ==
  /\ project' = [project EXCEPT !.state = state]
  /\ UNCHANGED <<command, risk, approval, task, dependsOn, known, early, cold, verdicts>>

NotReady(k) ==
  /\ \/ tick[k].phase = "indexed" /\ ~InSweep(tick[k].rows) /\ GoOn(k, "swept")
     \/ \E rows \in {tick[k].rows, Seen}, next \in {"off", "swept"} :
          /\ Finalizing(k, rows, next)
          /\ \/ project.state = "awaiting_approval"
             \/ Present(rows) = {}
             \/ ~IsBlocked(rows) /\ ~IsComplete(rows) /\ ~IsFailed(rows)
          /\ GoOn(k, next)
  /\ UNCHANGED <<command, risk, approval, project, result, artifact, task, dependsOn, known,
                 early, cold, faults, verdicts>>

\* The blocked state has no result row.
Finalize(k) ==
  \E rows \in {tick[k].rows, Seen}, next \in {"off", "swept"} :
    /\ Finalizing(k, rows, next)
    /\ project.state # "awaiting_approval"
    /\ \/ IsBlocked(rows) /\ Finalized(k, "blocked") /\ UNCHANGED result
       \/ IsFailed(rows) /\ Finalized(k, "failed") /\ result' = "failed"
       \/ IsComplete(rows) /\ project.delivered
            /\ Finalized(k, "completed") /\ UNCHANGED result
       \* buildFinalDelivery refuses for what the code looks like, too.
       \/ IsComplete(rows) /\ ~project.delivered
            /\ Finalized(k, "failed") /\ result' = "failed"
    /\ GoOn(k, next)
    /\ UNCHANGED <<artifact, faults>>

\* mutant: without the verdicts of the gates
DeliverableRefused(rows) ==
  /\ Present(rows) \subseteq In(rows, Completed)
  /\ GateType \subseteq Present(rows)

\* buildFinalDelivery: every row it finds is completed, and no gate is missing or refused.
Deliverable(rows) ==
  /\ Present(rows) \subseteq In(rows, {"completed"})
  /\ GateType \subseteq Present(rows)

BuildDelivery(k) ==
  /\ \E rows \in {tick[k].rows, Seen}, next \in {"off", "swept"} :
       /\ Finalizing(k, rows, next)
       /\ project.state # "awaiting_approval" /\ ~project.delivered
       /\ IsComplete(rows) /\ Deliverable(Seen)
       /\ tick' = [tick EXCEPT ![k].phase = "building", ![k].then = next]
  /\ artifact' = TRUE
  /\ UNCHANGED <<command, risk, approval, project, result, task, dependsOn, known, holder,
                 early, cold, faults, verdicts>>

\* The project row is put; the assignment of what that returns throws, before the
\* result is saved (finalProject is not declared), and the caller drops the error.
CompleteProject(k) ==
  /\ tick[k].phase = "building"
  /\ project' = [state |-> "completed", delivered |-> TRUE]
  /\ GoOn(k, tick[k].then)
  /\ UNCHANGED <<command, risk, approval, result, artifact, task, dependsOn, known,
                 early, cold, faults, verdicts>>

\* The artifact cannot be read back from D1.
DeliveryUnread(k) ==
  /\ tick[k].phase = "building"
  /\ Fault
  /\ Finalized(k, "failed") /\ result' = "failed"
  /\ GoOn(k, tick[k].then)
  /\ UNCHANGED artifact

-----------------------------------------------------------------------------
\* The work on the project, under its lock.

needsTick(rows) ==
  \/ In(rows, Stuck) # {}
  \/ \E t \in In(rows, RUNNABLE \cup {"blocked"}) : dependenciesReady(t)

\* mutant: a parked project is worked on
WorkableParked(k) ==
  /\ project.state \notin {"completed", "failed"}
  /\ needsTick(tick[k].rows)

Workable(k) ==
  /\ project.state \notin {"awaiting_approval", "completed", "failed"}
  /\ needsTick(tick[k].rows)

Acquire(k) ==
  /\ tick[k].phase = "swept" /\ Workable(k)
  /\ tick' = [tick EXCEPT ![k].phase = "acquiring"]
  /\ early' = (early \/ (command = "flushing" /\ requiresApproval))
  /\ UNCHANGED <<command, risk, approval, project, result, artifact, task, dependsOn, known,
                 holder, cold, faults, verdicts>>

\* The project needs no tick, or the lock is taken.
TickEnds(k) ==
  /\ \/ tick[k].phase = "swept" /\ ~Workable(k)
     \/ tick[k].phase = "acquiring" /\ holder # NoTick
  /\ GoOn(k, "off")
  /\ UNCHANGED <<command, risk, approval, project, result, artifact, task, dependsOn, known,
                 early, cold, faults, verdicts>>

\* ensureProjectPipeline, on the rows of the index.  Of the rows of a type one is kept:
\* a completed one, else a cancelled one, else the newest.
Rank(state) == IF state \in Completed THEN 0 ELSE IF state = "cancelled" THEN 1 ELSE 2
Gates(rows, type) == {t \in Present(rows) \ Work : typeOf(t) = type}
Kept(rows, type) ==
  LET best == {t \in Gates(rows, type) :
                 \A u \in Gates(rows, type) : Rank(rows[t]) <= Rank(rows[u])}
  IN CHOOSE t \in best : type \in best => t = type
Duplicates(rows) ==
  {t \in Present(rows) \ (Work \cup {"qa"}) : t # Kept(rows, typeOf(t))}

\* A gate the index has not is looked for in the store before it is created.
Raced(type) == {t \in Gates(Seen, type) : task[t] # "cancelled"}
Missing(rows, type) == type # "qa" /\ Gates(rows, type) = {} /\ Raced(type) = {}
Survivor(rows, type) ==
  IF Gates(rows, type) # {} THEN Kept(rows, type)
  ELSE IF Raced(type) = {} THEN type
  ELSE CHOOSE t \in Raced(type) :
         \A u \in Raced(type) : task[u] \in Completed => task[t] \in Completed

\* mutant: the first gate is chained behind nothing
PreviousGate(rows, type) ==
  LET i == CHOOSE j \in 1..Len(GATES) : GATES[j] = type
  IN IF i = 1 THEN {} ELSE {Survivor(rows, GATES[i - 1])}

\* What a gate is chained behind.
Previous(rows, type) ==
  LET i == CHOOSE j \in 1..Len(GATES) : GATES[j] = type
  IN IF i = 1 THEN Present(rows) \cap Work ELSE {Survivor(rows, GATES[i - 1])}

Rewired(rows, deps) ==
  {IF d \in Duplicates(rows) THEN Kept(rows, typeOf(d)) ELSE d : d \in deps}

\* The rows a call puts as the index has them, whatever they have become since.  A gate is
\* made with the sequence of its place (:151) and no code changes it, so none is put for the
\* sake of its sequence (:135): that is for rows of a release with other gates.
PutBack(rows) ==
  {t \in Present(rows) : dependsOn[t] \cap Duplicates(rows) # {}}
    \cup {"qa"}
    \cup {t \in Present(rows) : t = Survivor(rows, "integrity") /\ "qa" \notin dependsOn[t]}

NewDependsOn(rows) == [t \in Row |->
  IF t = "qa" \/ (t \in GateType /\ Missing(rows, t)) THEN Previous(rows, t)
  ELSE IF t \notin Present(rows) THEN dependsOn[t]
  ELSE IF t = Survivor(rows, "integrity") /\ "qa" \notin dependsOn[t] THEN {"qa"}
  ELSE Rewired(rows, dependsOn[t])]

ensureProjectPipeline(rows) ==
  LET created == {t \in GateType : Missing(rows, t)}
      ready == {t \in created : \A d \in Previous(rows, t) : Seen[d] \in Completed}
  IN
  IF rows["qa"] = "absent"
    THEN UNCHANGED <<project, task, dependsOn, known, faults>>
    ELSE /\ dependsOn' = NewDependsOn(rows)
         /\ \E states \in [created -> {"assigned", "blocked"}] :
              /\ \A t \in created \ ready : states[t] = "blocked"
              /\ Offered(ready, states)
              /\ task' = [t \in Row |->
                IF t \in created THEN states[t]
                ELSE IF t \in Duplicates(rows) THEN "cancelled"
                ELSE IF t \in PutBack(rows) THEN rows[t]
                ELSE task[t]]
         /\ known' = known \cup created
         \* addTaskToProject: whatever the project was, it is active.
         /\ project' = IF created = {} THEN project ELSE [project EXCEPT !.state = "active"]

Enter(k) ==
  /\ tick[k].phase = "acquiring" /\ holder = NoTick
  /\ holder' = k
  /\ ensureProjectPipeline(tick[k].rows)
  /\ tick' = [tick EXCEPT ![k].phase = "working", ![k].rows = NoRows]
  /\ UNCHANGED <<command, risk, approval, result, artifact, early, cold, verdicts>>

\* claimNextTask and startTask, when an agent is free (TaskScheduler has the agents).
Claimable(t) ==
  /\ Seen[t] \in RUNNABLE
  /\ dependenciesReady(t)
  /\ project.state # "awaiting_approval"
  /\ ~LiveRun(t)

Start(k, t) ==
  /\ tick[k].phase = "working"
  /\ Claimable(t)
  /\ Cardinality(tick[k].running) < MaxLanes
  /\ task' = [task EXCEPT ![t] = "working"]
  /\ tick' = [tick EXCEPT ![k].running = @ \cup {t}]
  /\ UNCHANGED <<command, risk, approval, project, result, artifact, dependsOn, known, holder,
                 early, cold, faults, verdicts>>

Outcome(t) == IF t \in Work THEN {"completed", "failed"} ELSE {"completed", "refused", "failed"}

\* The end of runTask; completeTask offers the blocked tasks that waited for t an agent.
Finish(k, t) ==
  /\ t \in tick[k].running
  /\ tick' = [tick EXCEPT ![k].running = @ \ {t}]
  /\ \E outcome \in Outcome(t) :
       LET freed == IF outcome = "failed" THEN {}
                    ELSE {u \in In(Seen, {"blocked"}) :
                            t \in dependsOn[u] /\ \A d \in dependsOn[u] \ {t} : Seen[d] \in Completed}
       IN \E states \in [freed -> {"assigned", "blocked"}] :
            /\ Offered(freed, states)
            /\ task' = [u \in Row |-> IF u = t THEN outcome
                                      ELSE IF u \in freed THEN states[u] ELSE task[u]]
  /\ UNCHANGED <<command, risk, approval, project, result, artifact, dependsOn, known, holder,
                 early, cold, verdicts>>

\* The invocation is cut, or its budget is spent; its lease on the project
\* lapses, and so do its runs.
TickCut(k) ==
  /\ tick[k].phase # "off"
  /\ Fault
  /\ GoOn(k, "off")
  /\ UNCHANGED <<command, risk, approval, project, result, artifact, task, dependsOn, known,
                 early, cold, verdicts>>

\* The next isolate: hydrated with everything, or (hydrateScheduler, and the sync that
\* begins where it ended) with the live tasks and some of the others.
NewIsolate ==
  /\ Fault
  /\ \E rows \in SUBSET Present(task) :
       /\ In(task, Live) \subseteq rows
       /\ known' = rows
       /\ cold' = (cold \/ rows # Present(task))
  /\ command' = IF command = "flushing" THEN "lost" ELSE command
  /\ tick' = [k \in Tick |-> NoTickRow]
  /\ holder' = NoTick
  /\ UNCHANGED <<risk, approval, project, result, artifact, task, dependsOn, early,
                 verdicts>>

-----------------------------------------------------------------------------
\* Maintenance, before a tick of the cron: retireStaleWork, then recoverStuckProjects,
\* which lists projects and tasks once and comes to this project after others.

\* No task has a run or can get one.
Idle ==
  /\ \A t \in Row : ~LiveRun(t)
  /\ In(Seen, Stuck) = {}
  /\ \A t \in In(Seen, RUNNABLE \cup {"blocked"}) : ~dependenciesReady(t)

\* The rows that have not moved for six hours, and no run is live.
RetireStaleWork(rows) ==
  /\ \A t \in Row : ~LiveRun(t)
  /\ command # "flushing"
  /\ rows # {} /\ rows \subseteq In(Seen, Live)
  /\ IF Idle /\ rows = In(Seen, Live) THEN UNCHANGED faults ELSE Fault
  /\ task' = [t \in Row |-> IF t \in rows THEN "retired" ELSE task[t]]
  /\ UNCHANGED <<command, risk, approval, project, result, artifact, dependsOn, known, tick,
                 holder, early, cold, verdicts>>

\* mutant: completed projects are looked at
NOT_FAILED_STATES == {"active", "queued", "awaiting_approval", "completed"}

ACTIVE_PROJECT_STATES == {"active", "queued", "awaiting_approval"}

Found ==
  IF Present(Seen) = {} THEN "empty"
  ELSE IF Present(Seen) \subseteq In(Seen, Completed \cup {"cancelled"}) THEN "settled"
  ELSE IF In(Seen, RUNNABLE) # {} \/ \E t \in Row : LiveRun(t) THEN "moving"
  ELSE "dead"

RecoveryLists(k) ==
  /\ tick[k].phase = "off" /\ project.state \in ACTIVE_PROJECT_STATES
  /\ tick' = [tick EXCEPT ![k] =
       [NoTickRow EXCEPT !.phase = "listed", !.held = project, !.found = Found]]
  /\ UNCHANGED <<command, risk, approval, project, result, artifact, task, dependsOn, known,
                 holder, early, cold, faults, verdicts>>

\* The founder has yet to decide; or has, and the project was never put back.  (A chain that
\* is approved again below leaves an approved row, too, which counts here in a project that
\* is parked after that: left out.)
Waits == approval = "pending"
Granted(k) == tick[k].held.state = "awaiting_approval" /\ approval = "approved"

Recovered == [NoTickRow EXCEPT !.phase = "recovered"]

Recovers(k, state) ==
  /\ project' = [tick[k].held EXCEPT !.state = state]
  /\ tick' = [tick EXCEPT ![k] = Recovered]

\* A project without tasks is failed once it is old.
Recover(k) ==
  /\ tick[k].phase = "listed"
  /\ \/ /\ Waits \/ (~Granted(k) /\ tick[k].found \in {"empty", "moving"})
        /\ tick' = [tick EXCEPT ![k] = Recovered]
        /\ UNCHANGED project
     \/ ~Waits /\ Granted(k) /\ Recovers(k, "active")
     \/ ~Waits /\ ~Granted(k) /\ tick[k].found = "empty" /\ Recovers(k, "failed")
     \/ ~Waits /\ ~Granted(k) /\ tick[k].found = "settled" /\ Recovers(k, "completed")
  /\ UNCHANGED <<command, risk, approval, result, artifact, task, dependsOn, known, holder,
                 early, cold, faults, verdicts>>

\* A dead chain is approved again.  A task that failed and was not queued by that fails
\* the project.  When nothing was queued, the budget of writes is asked before it does.
RecoverChain(k) ==
  LET unretriable == In(Seen, {"failed"}) \ Requeued
  IN
  /\ tick[k].phase = "listed"
  /\ ~Waits /\ ~Granted(k) /\ tick[k].found = "dead"
  /\ task' = Requeue(task, Requeued)
  /\ project' = [tick[k].held EXCEPT !.state = IF unretriable = {} THEN "queued" ELSE "failed"]
  /\ tick' = [tick EXCEPT ![k] =
       IF unretriable = {} /\ Requeued = {} THEN [NoTickRow EXCEPT !.phase = "retiring"]
                                            ELSE Recovered]
  /\ UNCHANGED <<command, risk, approval, result, artifact, dependsOn, known, holder,
                 early, cold, faults, verdicts>>

RetireChain(k) ==
  /\ tick[k].phase = "retiring"
  /\ tick' = [tick EXCEPT ![k] = Recovered]
  /\ \/ project' = [project EXCEPT !.state = "failed"] /\ UNCHANGED faults
     \/ UNCHANGED project /\ Fault
  /\ UNCHANGED <<command, risk, approval, result, artifact, task, dependsOn, known,
                 holder, early, cold, verdicts>>

-----------------------------------------------------------------------------
\* A command that has not come yet, or a project of the time when two ticks could create
\* a gate twice: each chain is chained behind the rows of the other.

Crossed(t) ==
  LET i == CHOOSE j \in 1..Len(GATES) : GATES[j] = typeOf(t)
      twins == {u \in Twin : i > 1 /\ TwinType[u] = GATES[i - 1]}
  IN IF i = 1 THEN Work ELSE IF t \in GateType /\ twins # {} THEN twins ELSE {GATES[i - 1]}

Init ==
  /\ risk \in {"normal", "high", "critical"}
  /\ \/ /\ command = "received" /\ project = NoProject
        /\ task = NoRows /\ dependsOn = [t \in Row |-> {}] /\ known = {}
     \/ /\ Twin # {} /\ risk = "normal"
        /\ command = "acknowledged" /\ project = [state |-> "active", delivered |-> FALSE]
        /\ task = [t \in Row |-> IF t \in Work THEN "queued" ELSE "blocked"]
        /\ dependsOn = [t \in Row |-> IF t \in Work THEN {} ELSE Crossed(t)] /\ known = Row
  /\ approval = "none" /\ result = "none" /\ artifact = FALSE
  /\ tick = [k \in Tick |-> NoTickRow] /\ holder = NoTick
  /\ early = FALSE /\ cold = FALSE /\ faults = 0 /\ verdicts = 0

CommandStep == QueueCommand \/ Acknowledge

TickStep(k) ==
  \/ Recover(k) \/ RecoverChain(k) \/ RetireChain(k)
  \/ \E orphans \in SUBSET Row : TickStarts(k, orphans)
  \/ NotReady(k) \/ Finalize(k) \/ BuildDelivery(k) \/ CompleteProject(k)
  \/ Acquire(k) \/ TickEnds(k) \/ Enter(k)
  \/ \E t \in Row : Finish(k, t)

Next ==
  \/ CommandStep \/ CommandCut \/ Approve \/ Reject
  \/ \E k \in Tick : RecoveryLists(k) \/ TickStep(k) \/ DeliveryUnread(k) \/ TickCut(k)
  \/ \E k \in Tick, t \in Row : Start(k, t)
  \/ NewIsolate
  \/ \E rows \in SUBSET Row : RetireStaleWork(rows)

Spec == Init /\ [][Next]_vars

\* Commands go on after their flush; the cron calls a tick each minute, executors settle
\* or their deadline does; a tick offers every task that is ready, but may come when its
\* budget does not reach to it; what is idle is idle for six hours.
Fairness ==
  /\ WF_vars(CommandStep) /\ WF_vars(Idle /\ RetireStaleWork(In(Seen, Live)))
  /\ \A k \in Tick : WF_vars(TickStep(k)) /\ SF_vars(\E t \in Row : Start(k, t))

FairSpec == Spec /\ Fairness

-----------------------------------------------------------------------------
\* Properties.

Ended == project.state \in {"completed", "failed", "blocked"}

\* While the founder's decision on a command is awaited, and if no tick had taken the
\* project up before the command was parked, no task of it has run, whatever the ticks, the
\* recoveries of stuck projects and the restarts have done meanwhile; and what is critical
\* awaits it until the founder decides (orchestrator.js, scheduler.js, maintenance.js).
ParkedCommandsWait ==
  /\ ~early
  /\ approval = "pending" \/ (approval # "none" /\ risk = "critical" /\ verdicts = 0)
  => In(task, {"working"} \cup Completed) = {}

\* When there is a final delivery every task of the plan is completed, and stays so, and
\* so is every gate, with a verdict that is not a refusal: a tick finalizes over an index
\* that may be older.  (The QA gate is put back by a later tick at times; a delivery of an
\* isolate that has not all rows knows of no failure in the others.)
DeliveredMeansDone ==
  artifact /\ ~cold => Work \cup (GateType \ {"qa"}) \subseteq In(task, {"completed"})

\* A project that was completed with a delivery stays so, whatever a later tick, recovery,
\* restart or decision does to it.
DeliveryIsKept ==
  [][~early /\ project.delivered => project' = project /\ project.state = "completed"]_vars

\* No gate starts before all tasks of the plan and all gates before it are completed, even
\* when it was created by a tick whose index was old, or queued by a recovery.
GatesComeInOrder ==
  [][\A i \in 1..Len(GATES) :
       ~cold /\ task[GATES[i]] # "working" /\ task'[GATES[i]] = "working"
         => Work \cup {GATES[j] : j \in 1..(i - 1)} \subseteq In(task, Completed)]_vars

\* A command that was acknowledged, and needs no approval or has it, comes to an end: its
\* project is completed, failed, or blocked, unless an isolate begins without its rows.
CommandEnds ==
  (command = "acknowledged" /\ approval \in {"none", "approved"})
    ~> (Ended \/ cold \/ approval = "rejected")

\* What orchestrator.js says of a high-risk command: it "must genuinely WAIT".
HighRiskWaits ==
  [][\A t \in Row : requiresApproval /\ task[t] # "working" /\ task'[t] = "working"
       => approval = "approved"]_vars

\* What ARCHITECTURE.md says of command_results, "exactly one" row for each command: a
\* project that was delivered has the result of its command, when no tick is at it any more.
DeliveredHasResult ==
  project.delivered /\ (\A k \in Tick : tick[k].phase = "off") => result # "none"

\* What store.js says of the bootstrap of the cron: it loads all the scheduler needs, so
\* that a task whose inputs are completed in D1 is one the scheduler finds ready.
SchedulerSeesWhatItNeeds ==
  \A t \in In(task, Live) :
    (\A d \in dependsOn[t] : task[d] \in Completed) => dependenciesReady(t)
=============================================================================
