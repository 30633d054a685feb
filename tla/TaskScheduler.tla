--------------------------- MODULE TaskScheduler ---------------------------
(***************************************************************************)
(* Tasks, agents and executions of one project in one isolate's store:     *)
(* claimNextTask and runTask in the lanes of the ticks, the heartbeat and  *)
(* the deadline of an execution (execution.js), the recovery every tick    *)
(* begins with (recoverStaleTasks), assignment and the end of a task       *)
(* (tasks.js).                                                             *)
(*                                                                         *)
(* JavaScript runs to completion: an action is what happens between two    *)
(* awaits.  A lane waits for its executor and for putDurable; recovery     *)
(* waits for putDurable between two tasks, and goes on with the task rows  *)
(* it listed before.  Rows are replaced, never changed in place, so a row  *)
(* in hand is a copy of what it was.                                       *)
(*                                                                         *)
(* Durations are in one unit.  A run past its own deadline is stale too    *)
(* (runOverLifetime): here its lane is over long before, so that its       *)
(* heartbeat is old as well.  D1 holds what the store holds: EntityStore   *)
(* is about the difference.                                                *)
(***************************************************************************)
EXTENDS Naturals

CONSTANTS
  Task,
  Agent,
  NoTask,
  NoAgent,
  MaxLanes,     \* bound: executions under way or unresolved at once
  Capable,      \* the agents selectAgents may return for a task
  Plans,        \* the dependsOn of the tasks the project may have
  MaxAttempts,  \* task.maxAttempts
  MaxInfra,     \* MAX_INFRA_RECOVERIES
  Lease,        \* LEASE_MS, EXECUTION_LEASE_MS
  Beat,         \* HEARTBEAT_INTERVAL_MS
  Gap,          \* HEARTBEAT_MIN_WRITE_GAP_MS
  Timeout,      \* DEFAULT_TASK_TIMEOUT_MS
  Grace,        \* ORPHAN_GRACE_MS
  Stalled,      \* STALLED_RUNNABLE_MS
  MaxFaults     \* bound: invocations cut, heartbeats lost, isolates evicted, in all

ASSUME NoneAssumption == NoTask \notin Task /\ NoAgent \notin Agent
ASSUME CapableAssumption == Capable \in [Task -> SUBSET Agent]
ASSUME PlanAssumption == Plans \subseteq [Task -> SUBSET Task]
ASSUME BudgetAssumption ==
  MaxLanes \in Nat /\ MaxAttempts \in Nat /\ MaxInfra \in Nat /\ MaxFaults \in Nat
ASSUME TimeAssumption ==
  /\ Lease \in Nat /\ Gap \in Nat /\ Grace \in Nat /\ Stalled \in Nat
  /\ Beat \in Nat \ {0} /\ Timeout \in Nat
  /\ Gap <= Beat /\ Beat <= Lease

VARIABLES
  dependsOn,  \* of each task; fixed
  task,       \* the rows of tasks
  agent,      \* what each agent is recorded as busy with, NoTask: available
  run,        \* the row of the run each slot stands for
  lane,       \* the runTask call that made it
  sweep,      \* the recoverStaleTasks under way
  todo,       \* blocked tasks a loop is about to assign: nothing runs in between
  faults

vars == <<dependsOn, task, agent, run, lane, sweep, todo, faults>>

Slot == 1..MaxLanes

TaskStates == {"queued", "assigned", "working", "completed", "failed", "blocked"}
RUNNABLE == {"queued", "assigned"}
STUCK_STATES == {"working", "assigned"}
TERMINAL == {"completed"}

\* agentId and assignedAgentId are always set together.  `age` is the time since
\* updatedAt, as far as it matters.  `strikes` is a history field: the executions of
\* the task that failed by themselves.
Row == [state : TaskStates, agent : Agent \cup {NoAgent}, attempts : Nat,
        infra : 0..MaxInfra, age : 0..Stalled, strikes : Nat]
NoRow == [state |-> "queued", agent |-> NoAgent, attempts |-> 0,
          infra |-> 0, age |-> 0, strikes |-> 0]

Run == [of : Task \cup {NoTask}, state : {"none", "running", "failed"}, beat : 0..(Lease + 1)]
NoRun == [of |-> NoTask, state |-> "none", beat |-> 0]

\* row: the task as it was when the lane started it.  owes: the agents it will
\* make available after its putDurable.  muted: its heartbeats reach nobody.
Lane == [phase : {"over", "executing", "completing", "failing"}, row : Row,
         owes : SUBSET Agent, age : 0..Timeout, muted : BOOLEAN]
NoLane == [phase |-> "over", row |-> NoRow, owes |-> {}, age |-> 0, muted |-> FALSE]

\* runs: the stale runs still to recover.  listed: the tasks still to look at, as
\* `rows` has them.
Sweep == [phase : {"off", "runs", "tasks"}, runs : SUBSET Slot, of : [Slot -> Task \cup {NoTask}],
          listed : SUBSET Task, rows : [Task -> Row], owes : SUBSET Agent]
NoSweep == [phase |-> "off", runs |-> {}, of |-> [s \in Slot |-> NoTask],
            listed |-> {}, rows |-> [t \in Task |-> NoRow], owes |-> {}]

TypeOK ==
  /\ dependsOn \in Plans
  /\ task \in [Task -> Row]
  /\ agent \in [Agent -> Task \cup {NoTask}]
  /\ run \in [Slot -> Run]
  /\ lane \in [Slot -> Lane]
  /\ sweep \in Sweep
  /\ todo \subseteq Task
  /\ faults \in 0..MaxFaults

Fault ==
  /\ faults < MaxFaults
  /\ faults' = faults + 1

-----------------------------------------------------------------------------
\* What a task, a run and an agent are to the scheduler.

dependenciesReady(t) == \A d \in dependsOn[t] : task[d].state = "completed"

Running(t) == {s \in Slot : run[s].of = t /\ run[s].state = "running"}

staleNever(s) == FALSE
stale(s) == run[s].beat > Lease

activeRun(t) == Running(t) # {}

\* recoverable: the agent is busy with a task no run of which is going on.
\* selectAgents: the agents a call may get, whatever their scores are.
Selectable(t) == {a \in Capable[t] : agent[a] = NoTask \/ ~activeRun(agent[a])}

\* releaseStaleOwnership and claimableBy: the agent is free, or busy with t, or
\* what it is busy with is stuck without a run.
Claimable(a, t) ==
  \/ agent[a] \in {NoTask, t}
  \/ agent[a] # NoTask /\ task[agent[a]].state \in STUCK_STATES /\ ~activeRun(agent[a])

\* put: updatedAt is now.
Put(row, state) == [row EXCEPT !.state = state, !.age = 0]
Idle(agents) == [a \in Agent |-> IF a \in agents THEN NoTask ELSE agent[a]]
Of(row) == {row.agent} \ {NoAgent}

Free(s) == run[s] = NoRun /\ lane[s] = NoLane /\ s \notin sweep.runs
FirstFree(s) == Free(s) /\ \A r \in 1..(s - 1) : ~Free(r)

-----------------------------------------------------------------------------
\* assignTask, in the loops that call it for blocked tasks.

Assign(t, a) ==
  /\ task' = [task EXCEPT ![t] = [Put(@, "assigned") EXCEPT !.agent = a]]
  /\ agent' = [agent EXCEPT ![a] = t]

AssignTask(t) ==
  /\ t \in todo
  /\ todo' = todo \ {t}
  /\ \/ task[t].agent # NoAgent /\ Assign(t, task[t].agent)
     \/ task[t].agent = NoAgent /\ \E a \in Selectable(t) : Assign(t, a)
     \/ task[t].agent = NoAgent /\ Selectable(t) = {} /\ UNCHANGED <<task, agent>>
  /\ UNCHANGED <<dependsOn, run, lane, sweep, faults>>

-----------------------------------------------------------------------------
\* runTask up to its first await: claimNextTask, startTask, and executeTask as far
\* as the executor.

Offered(t) ==
  /\ task[t].state \in RUNNABLE
  /\ dependenciesReady(t)
  /\ \A s \in Running(t) : stale(s)

\* The agent the task has, when it can be claimed, and otherwise one of the others.
Chosen(t) ==
  IF task[t].agent # NoAgent /\ agent[task[t].agent] \in {NoTask, t}
  THEN {task[t].agent} ELSE Selectable(t)

\* The runs of t that recoverRun closes: its lane may still be there.
ClosedNone(t) == run
Closed(t) ==
  [r \in Slot |-> IF r \notin Running(t) THEN run[r]
                  ELSE IF lane[r].phase = "over" THEN NoRun
                  ELSE [of |-> t, state |-> "failed", beat |-> 0]]

\* recoverRun also queues or fails the task that is about to run, and makes its agent
\* available.
Start(t, a, s) ==
  LET claimed == [Put(task[t], "working") EXCEPT !.agent = a, !.attempts = @ + 1]
      recovered == [Put(claimed, IF claimed.attempts < MaxAttempts THEN "queued" ELSE "failed")
                      EXCEPT !.attempts = @ + 1]
      old == {b \in Of(task[t]) : agent[b] = t}
  IN /\ FirstFree(s)
     /\ Offered(t)
     /\ a \in Chosen(t)
     /\ Claimable(a, t)
     /\ task' = [task EXCEPT ![t] = IF activeRun(t) THEN recovered ELSE claimed]
     /\ agent' = [Idle(old) EXCEPT ![a] = IF activeRun(t) THEN NoTask ELSE t]
     /\ run' = [Closed(t) EXCEPT ![s] = [of |-> t, state |-> "running", beat |-> 0]]
     /\ lane' = [lane EXCEPT ![s] =
          [phase |-> "executing", row |-> claimed, owes |-> {}, age |-> 0, muted |-> FALSE]]
     /\ UNCHANGED <<dependsOn, sweep, todo, faults>>

\* The tick offers the task, nobody claims it, and it has been so for too long.
StallFail(t, s) ==
  /\ FirstFree(s)
  /\ Offered(t)
  /\ \/ Chosen(t) = {}
     \/ \E a \in Chosen(t) : ~Claimable(a, t)
  /\ task[t].age >= Stalled
  /\ task' = [task EXCEPT ![t] = Put(@, "failed")]
  /\ lane' = [lane EXCEPT ![s] = [NoLane EXCEPT !.phase = "failing", !.owes = Of(task[t])]]
  /\ UNCHANGED <<dependsOn, agent, run, sweep, todo, faults>>

-----------------------------------------------------------------------------
\* The rest of runTask: the executor settled, or withDeadline did.

\* The run of a lane is over, whatever recovery wrote there.
Close(s) == run' = [run EXCEPT ![s] = NoRun]

Over(s, phase, owes) ==
  lane' = [lane EXCEPT ![s] = [NoLane EXCEPT !.phase = phase, !.owes = owes, !.row = lane[s].row]]

\* The verification passed: completeTask, as far as putDurable.
Pass(s) ==
  LET t == run[s].of
  IN /\ lane[s].phase = "executing"
     /\ lane[s].age < Timeout
     /\ task' = [task EXCEPT ![t] = Put(@, "completed")]
     /\ run' = [run EXCEPT ![s] = [of |-> t, state |-> "none", beat |-> 0]]
     /\ Over(s, "completing", Of(task[t]))
     /\ UNCHANGED <<dependsOn, agent, sweep, todo, faults>>

\* The execution or its verification failed, with attempts left: the row the lane
\* started with goes back to the queue.
RetryTask(s) ==
  LET t == run[s].of
  IN /\ lane[s].phase = "executing"
     /\ lane[s].row.attempts < MaxAttempts
     /\ task' = [task EXCEPT ![t] = [Put(lane[s].row, "queued") EXCEPT !.agent = NoAgent, !.strikes = @ + 1]]
     /\ agent' = Idle(Of(lane[s].row))
     /\ Close(s)
     /\ lane' = [lane EXCEPT ![s] = NoLane]
     /\ UNCHANGED <<dependsOn, sweep, todo, faults>>

\* No attempt left: failTask, as far as putDurable.
GiveUp(s) ==
  LET t == run[s].of
  IN /\ lane[s].phase = "executing"
     /\ lane[s].row.attempts >= MaxAttempts
     /\ task' = [task EXCEPT ![t] = Put(@, "failed")]
     /\ Close(s)
     /\ Over(s, "failing", Of(task[t]) \cup Of(lane[s].row))
     /\ UNCHANGED <<dependsOn, agent, sweep, todo, faults>>

UnblockedAll(d) == {t \in Task : d \in dependsOn[t] /\ dependenciesReady(t)}
Unblocked(d) == {t \in Task : task[t].state = "blocked" /\ d \in dependsOn[t] /\ dependenciesReady(t)}

\* After putDurable the agents are made available; the tasks that waited for a
\* completed one are assigned.
Return(s) ==
  /\ lane[s].phase \in {"completing", "failing"}
  /\ agent' = Idle(lane[s].owes)
  /\ lane' = [lane EXCEPT ![s] = NoLane]
  /\ Close(s)
  /\ todo' = IF lane[s].phase = "failing" THEN {} ELSE Unblocked(run[s].of)
  /\ UNCHANGED <<dependsOn, task, sweep, faults>>

-----------------------------------------------------------------------------
\* recoverStaleTasks.

StaleRuns == {s \in Slot : run[s].state = "running" /\ stale(s)}

SweepBegins ==
  /\ sweep.phase = "off"
  /\ StaleRuns # {}
  /\ sweep' = [NoSweep EXCEPT !.phase = "runs", !.runs = StaleRuns,
                 !.of = [s \in Slot |-> IF s \in StaleRuns THEN run[s].of ELSE NoTask]]
  /\ UNCHANGED <<dependsOn, task, agent, run, lane, todo, faults>>

\* requeueAfterInfraFailure(row of t): to the queue with one recovery more, or
\* failed when it had them all.  The agent of a failed task is made available after
\* putDurable.
RequeueForever(t, row) ==
  /\ task' = [task EXCEPT ![t] = [Put(row, "queued") EXCEPT !.agent = NoAgent, !.infra = @ + 1]]
  /\ agent' = Idle(sweep.owes \cup Of(row))
Requeue(t, row) ==
  IF row.infra < MaxInfra
  THEN /\ task' = [task EXCEPT ![t] =
            [Put(row, "queued") EXCEPT !.agent = NoAgent, !.infra = @ + 1]]
       /\ agent' = Idle(sweep.owes \cup Of(row))
  ELSE /\ task' = [task EXCEPT ![t] = Put(row, "failed")]
       /\ agent' = Idle(sweep.owes)

Owes(row) == IF row.infra < MaxInfra THEN {} ELSE Of(row)

SweepRun(s) ==
  LET t == sweep.of[s]
  IN /\ sweep.phase = "runs"
     /\ s \in sweep.runs
     /\ run' = IF run[s].state # "running" THEN run
               ELSE [run EXCEPT ![s] =
                 IF lane[s].phase = "over" THEN NoRun ELSE [of |-> t, state |-> "failed", beat |-> 0]]
     /\ IF task[t].state \in TERMINAL
        THEN /\ agent' = Idle(sweep.owes)
             /\ UNCHANGED task
             /\ sweep' = [sweep EXCEPT !.runs = @ \ {s}, !.of[s] = NoTask, !.owes = {}]
        ELSE /\ Requeue(t, task[t])
             /\ sweep' = [sweep EXCEPT !.runs = @ \ {s}, !.of[s] = NoTask, !.owes = Owes(task[t])]
     /\ UNCHANGED <<dependsOn, lane, todo, faults>>

BlockedReady == {t \in Task : task[t].state = "blocked" /\ dependenciesReady(t)}

\* Tasks are listed once the last run is recovered, at once if there is none.  The
\* grace of a task is counted up to then.  Without an orphan the blocked tasks are
\* next.
SweepLists ==
  LET orphans == {t \in Task : /\ task[t].state \in STUCK_STATES
                               /\ \A s \in Running(t) : stale(s)
                               /\ task[t].age >= Grace}
  IN /\ \/ sweep.phase = "off" /\ StaleRuns = {}
        \/ sweep.phase = "runs" /\ sweep.runs = {}
     /\ IF orphans = {}
        THEN sweep' = NoSweep /\ todo' = BlockedReady
        ELSE /\ sweep' = [NoSweep EXCEPT !.phase = "tasks", !.listed = orphans,
                            !.rows = [t \in Task |-> IF t \in orphans THEN task[t] ELSE NoRow]]
             /\ UNCHANGED todo
     /\ agent' = Idle(sweep.owes)
     /\ UNCHANGED <<dependsOn, task, run, lane, faults>>

SweepTask(t) ==
  /\ sweep.phase = "tasks"
  /\ t \in sweep.listed
  /\ Requeue(t, sweep.rows[t])
  /\ sweep' = [sweep EXCEPT !.listed = @ \ {t}, !.rows[t] = NoRow, !.owes = Owes(sweep.rows[t])]
  /\ UNCHANGED <<dependsOn, run, lane, todo, faults>>

SweepEnds ==
  /\ sweep.phase = "tasks"
  /\ sweep.listed = {}
  /\ agent' = Idle(sweep.owes)
  /\ todo' = BlockedReady
  /\ sweep' = NoSweep
  /\ UNCHANGED <<dependsOn, task, run, lane, faults>>

-----------------------------------------------------------------------------
\* Time, and what goes wrong.

\* heartbeatExecution: the timer of a lane fires every Beat, and skips the write
\* when the last one is less than Gap ago.
HeartbeatLate(beat, age) == IF age % (Lease + 2) = 0 /\ beat >= Gap THEN 0 ELSE beat
Heartbeat(beat, age) == IF age % Beat = 0 /\ beat >= Gap THEN 0 ELSE beat

Cap(n, max) == IF n < max THEN n + 1 ELSE max

Tick ==
  /\ \A s \in Slot : lane[s].phase = "executing" => lane[s].age < Timeout
  /\ lane' = [s \in Slot |-> IF lane[s].phase = "executing"
                             THEN [lane[s] EXCEPT !.age = @ + 1] ELSE lane[s]]
  /\ run' = [s \in Slot |->
       LET beat == Cap(run[s].beat, Lease + 1)
       IN IF run[s].state # "running" THEN run[s]
          ELSE [run[s] EXCEPT !.beat =
                  IF lane[s].phase = "executing" /\ ~lane[s].muted
                  THEN Heartbeat(beat, lane[s].age + 1) ELSE beat]]
  /\ task' = [t \in Task |->
       IF task[t].state \in RUNNABLE \cup STUCK_STATES
       THEN [task[t] EXCEPT !.age = Cap(@, Stalled)] ELSE task[t]]
  /\ UNCHANGED <<dependsOn, agent, sweep, todo, faults>>

\* The row of a run is not refreshed where recovery reads it: the write budget
\* refuses the heartbeat, or D1 takes it too late.
Mute(s) ==
  /\ Fault
  /\ lane[s].phase = "executing"
  /\ lane' = [lane EXCEPT ![s].muted = TRUE]
  /\ UNCHANGED <<dependsOn, task, agent, run, sweep, todo>>

\* The invocation of a lane is cut, its isolate stays.
CutLane(s) ==
  /\ Fault
  /\ lane[s].phase # "over"
  /\ lane' = [lane EXCEPT ![s] = NoLane]
  /\ run' = [run EXCEPT ![s] = IF run[s].state = "running" THEN run[s] ELSE NoRun]
  /\ UNCHANGED <<dependsOn, task, agent, sweep, todo>>

CutSweep ==
  /\ Fault
  /\ sweep.phase # "off"
  /\ sweep' = NoSweep
  /\ UNCHANGED <<dependsOn, task, agent, run, lane, todo>>

\* The isolate is evicted.  The next one reads the rows back, agents as they were
\* written last (an agent becoming available always is), and seedAgents frees those
\* that do not own a task with a run.
Evict ==
  /\ Fault
  /\ lane' = [s \in Slot |-> NoLane]
  /\ run' = [s \in Slot |-> IF run[s].state = "running" THEN run[s] ELSE NoRun]
  /\ sweep' = NoSweep
  /\ \E kept \in SUBSET {a \in Agent : /\ agent[a] # NoTask
                                       /\ task[agent[a]].agent = a
                                       /\ task[agent[a]].state \in STUCK_STATES
                                       /\ activeRun(agent[a])} :
       agent' = Idle(Agent \ kept)
  /\ UNCHANGED <<dependsOn, task, todo>>

-----------------------------------------------------------------------------
\* queueCommand leaves each task blocked behind its dependencies or assigned, with
\* the agent addTasks found for it.
Init ==
  /\ dependsOn \in Plans
  /\ \E found \in [Task -> Agent \cup {NoAgent}] :
       /\ \A t \in Task : found[t] \in (IF Capable[t] = {} THEN {NoAgent} ELSE Capable[t])
       /\ task = [t \in Task |->
            [NoRow EXCEPT !.agent = found[t],
                          !.state = IF dependsOn[t] = {} /\ found[t] # NoAgent
                                    THEN "assigned" ELSE "blocked"]]
  /\ agent \in [Agent -> Task \cup {NoTask}]
  /\ \A a \in Agent :
       LET own == {t \in Task : task[t].state = "assigned" /\ task[t].agent = a}
       IN IF own = {} THEN agent[a] = NoTask ELSE agent[a] \in own
  /\ run = [s \in Slot |-> NoRun]
  /\ lane = [s \in Slot |-> NoLane]
  /\ sweep = NoSweep
  /\ todo = {}
  /\ faults = 0

LaneStep(s) == Pass(s) \/ RetryTask(s) \/ GiveUp(s) \/ Return(s)
Offer(t) ==
  \E s \in Slot :
    \/ \E a \in Agent : Start(t, a, s)
    \/ StallFail(t, s)
SweepStep ==
  \/ SweepBegins \/ SweepLists \/ SweepEnds
  \/ \E s \in Slot : SweepRun(s)
  \/ \E t \in Task : SweepTask(t)

Next ==
  \/ \E t \in Task : AssignTask(t)
  \/ /\ todo = {}
     /\ \/ \E s \in Slot : LaneStep(s)
        \/ \E t \in Task : Offer(t)
        \/ SweepStep
        \/ Tick
        \/ \E s \in Slot : Mute(s) \/ CutLane(s)
        \/ CutSweep \/ Evict

Spec == Init /\ [][Next]_vars

\* The cron tick comes every minute, begins with recovery and offers every task
\* that is ready; an executor settles or its deadline does; loops run to their end.
Fairness ==
  /\ WF_vars(todo = {} /\ Tick)
  /\ WF_vars(todo = {} /\ SweepStep)
  /\ \A s \in Slot : WF_vars(todo = {} /\ LaneStep(s))
  /\ \A t \in Task : WF_vars(todo = {} /\ Offer(t)) /\ WF_vars(AssignTask(t))

FairSpec == Spec /\ Fairness

-----------------------------------------------------------------------------
\* Properties.

\* "A live task may have only one execution lease": two runs of one task are never
\* recorded as going on, whatever was requeued while one was.
OneRunPerTask == \A r, s \in Slot : run[r].state = "running" /\ run[s].state = "running"
                                     /\ run[r].of = run[s].of => r = s

\* A run whose lane is there and whose heartbeats are seen is not recovered: the
\* timers leave no time at which it looks stale.
LiveRunIsKept ==
  [][\A s \in Slot :
       run[s].state = "running" /\ lane[s].phase = "executing" /\ ~lane[s].muted
         => run'[s].state = "running" \/ lane'[s] # lane[s]]_vars

\* A completed task stays so once nothing is left that holds an older row of it:
\* a recovery that listed it before, or the lane of another run of it.
Undoable(t) ==
  \/ t \in sweep.listed
  \/ \E s \in Slot : run[s].of = t /\ lane[s].phase = "executing"

CompletedIsKept ==
  [][\A t \in Task : task[t].state = "completed" /\ ~Undoable(t)
                       => task'[t].state = "completed"]_vars

\* Every task ends: completed, failed, or waiting for one that did not complete, as
\* finalizeCommand wants it before it closes the project.
Settled(t) ==
  \/ task[t].state \in {"completed", "failed"}
  \/ task[t].state \in {"blocked", "queued"} /\ ~dependenciesReady(t)

EverythingSettles == <>[](\A t \in Task : Settled(t))

\* The tests want "two tasks, two different agents": no agent is executing two tasks.
AgentsDoNotCollide ==
  \A r, s \in Slot :
    lane[r].phase = "executing" /\ lane[s].phase = "executing" /\ r # s
      => lane[r].row.agent # lane[s].row.agent

\* "Platform cancellations must not burn a task's real attempt budget": a task fails
\* for want of attempts when that many executions of it failed by themselves.
AttemptsAreRealFailures ==
  [][\A s \in Slot :
       lane[s].phase = "executing" /\ lane'[s].phase = "failing"
         => lane[s].row.strikes + 1 >= MaxAttempts]_vars
=============================================================================
