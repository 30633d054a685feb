------------------------ MODULE TaskSchedulerProofs ------------------------
(***************************************************************************)
(* Proofs about TaskScheduler: its types, that a task has one run, that a  *)
(* completed task stays completed, and that a run whose heartbeats are     *)
(* seen is kept.  The inductive invariant adds to the types that runs,     *)
(* lanes and recoveries are about tasks, that a loop assigns blocked       *)
(* tasks only, that a seen heartbeat is as old as its timer, and that no   *)
(* recovery under way is about such a run.                                 *)
(***************************************************************************)
EXTENDS TaskScheduler, Integers, TLAPS

RunsHaveTasks == \A s \in Slot : run[s].state = "running" => run[s].of \in Task
LanesHaveTasks == \A s \in Slot : lane[s].phase = "executing" => run[s].of \in Task
SweptHaveTasks == \A s \in sweep.runs : sweep.of[s] \in Task
TodoIsBlocked == \A t \in todo : task[t].state = "blocked"

Seen(s) == run[s].state = "running" /\ lane[s].phase = "executing" /\ ~lane[s].muted

SeenOnTime == \A s \in Slot : Seen(s) => run[s].beat = lane[s].age % Beat
SweptNotSeen == \A s \in sweep.runs : ~Seen(s)

IInv ==
  /\ TypeOK
  /\ RunsHaveTasks
  /\ LanesHaveTasks
  /\ SweptHaveTasks
  /\ TodoIsBlocked

-----------------------------------------------------------------------------
\* Arithmetic of the heartbeat's timer.

LEMMA Multiple ==
  ASSUME NEW b \in Nat \ {0}, NEW d \in Int, b * d > -b, b * d < 2 * b
  PROVE  d \in {0, 1}
  <1>1. d <= -1 => b * d <= -b
    BY SMT
  <1>2. d >= 2 => b * d >= 2 * b
    BY SMT
  <1> QED BY <1>1, <1>2

\* Counting modulo b.
LEMMA CountModulo ==
  ASSUME NEW a \in Nat, NEW b \in Nat \ {0}
  PROVE  (a + 1) % b = IF (a % b) + 1 = b THEN 0 ELSE (a % b) + 1
  <1> DEFINE q == a \div b
             p == (a + 1) \div b
  <1>1. a % b \in 0..(b - 1) /\ (a + 1) % b \in 0..(b - 1)
    BY SMT
  <1>2. q \in Int /\ p \in Int
    BY SMT
  <1>3. a = b * q + (a % b)
    BY SMT
  <1>4. a + 1 = b * p + ((a + 1) % b)
    BY SMT
  <1>5. b * (p - q) = (a % b) + 1 - ((a + 1) % b)
    <2>1. b * (p - q) = b * p - b * q
      BY <1>2, SMT
    <2> HIDE DEF p, q
    <2> QED BY <2>1, <1>1, <1>2, <1>3, <1>4, SMT
  <1> HIDE DEF p, q
  <1>6. p - q \in {0, 1}
    BY <1>5, <1>1, <1>2, Multiple, SMT
  <1>7. b * (p - q) = 0 \/ b * (p - q) = b
    BY <1>6, SMT
  <1> QED BY <1>5, <1>7, <1>1, SMT

-----------------------------------------------------------------------------
\* Types of what the actions write.

LEMMA AgedType ==
  ASSUME NEW r \in Row, NEW st \in TaskStates, NEW n \in 0..Stalled
  PROVE  [r EXCEPT !.state = st, !.age = n] \in Row
  BY DEF Row

LEMMA PutType ==
  ASSUME NEW r \in Row, NEW st \in TaskStates
  PROVE  Put(r, st) \in Row
  <1>1. 0 \in 0..Stalled
    BY TimeAssumption
  <1> QED BY <1>1, AgedType DEF Put

LEMMA PutFields ==
  ASSUME NEW r \in Row, NEW st
  PROVE  /\ Put(r, st).state = st
         /\ Put(r, st).infra = r.infra
  BY DEF Put, Row

LEMMA GivenType ==
  ASSUME NEW r \in Row, NEW a \in Agent \cup {NoAgent}
  PROVE  [r EXCEPT !.agent = a] \in Row /\ [r EXCEPT !.agent = a].state = r.state
  BY DEF Row

LEMMA AttemptedType ==
  ASSUME NEW r \in Row
  PROVE  [r EXCEPT !.attempts = @ + 1] \in Row
  BY DEF Row

LEMMA ClaimedType ==
  ASSUME NEW r \in Row, NEW a \in Agent \cup {NoAgent}
  PROVE  [r EXCEPT !.agent = a, !.attempts = @ + 1] \in Row
  <1>1. [r EXCEPT !.agent = a, !.attempts = @ + 1]
          = [[r EXCEPT !.agent = a] EXCEPT !.attempts = @ + 1]
    BY DEF Row
  <1>2. [r EXCEPT !.agent = a] \in Row /\ [r EXCEPT !.agent = a].attempts = r.attempts
    BY DEF Row
  <1>3. \A q \in Row : q.attempts = r.attempts => [q EXCEPT !.attempts = @ + 1] \in Row
    BY DEF Row
  <1> QED BY <1>1, <1>2, <1>3

LEMMA StruckType ==
  ASSUME NEW r \in Row, NEW a \in Agent \cup {NoAgent}
  PROVE  [r EXCEPT !.agent = a, !.strikes = @ + 1] \in Row
  <1>1. [r EXCEPT !.agent = a, !.strikes = @ + 1]
          = [[r EXCEPT !.agent = a] EXCEPT !.strikes = @ + 1]
    BY DEF Row
  <1>2. [r EXCEPT !.agent = a] \in Row /\ [r EXCEPT !.agent = a].strikes = r.strikes
    BY DEF Row
  <1>3. \A q \in Row : q.strikes = r.strikes => [q EXCEPT !.strikes = @ + 1] \in Row
    BY DEF Row
  <1> QED BY <1>1, <1>2, <1>3

LEMMA RequeuedType ==
  ASSUME NEW r \in Row, NEW a \in Agent \cup {NoAgent}, r.infra < MaxInfra
  PROVE  [r EXCEPT !.agent = a, !.infra = @ + 1] \in Row
  <1>1. [r EXCEPT !.agent = a, !.infra = @ + 1]
          = [[r EXCEPT !.agent = a] EXCEPT !.infra = @ + 1]
    BY DEF Row
  <1>2. [r EXCEPT !.agent = a] \in Row /\ [r EXCEPT !.agent = a].infra = r.infra
    BY DEF Row
  <1>3. \A q \in Row : q.infra = r.infra => [q EXCEPT !.infra = @ + 1] \in Row
    BY BudgetAssumption DEF Row
  <1> QED BY <1>1, <1>2, <1>3

LEMMA NoRowType == NoRow \in Row
  BY BudgetAssumption, TimeAssumption DEF NoRow, Row, TaskStates

LEMMA NoRunType == NoRun \in Run /\ NoRun.state = "none" /\ NoRun.of = NoTask
  BY TimeAssumption DEF NoRun, Run

LEMMA NoLaneType == NoLane \in Lane /\ NoLane.phase = "over"
  BY NoRowType, TimeAssumption DEF NoLane, Lane

LEMMA NoSweepType ==
  /\ NoSweep \in Sweep /\ NoSweep.runs = {} /\ NoSweep.listed = {} /\ NoSweep.phase = "off"
  BY NoRowType DEF NoSweep, Sweep

LEMMA IdleType ==
  ASSUME TypeOK, NEW agents
  PROVE  Idle(agents) \in [Agent -> Task \cup {NoTask}]
  BY DEF Idle, TypeOK

LEMMA OfType ==
  ASSUME NEW r \in Row
  PROVE  Of(r) \in SUBSET Agent
  BY DEF Of, Row

\* Putting a row in its task's place.
LEMMA TaskUpdate ==
  ASSUME TypeOK, NEW t \in Task, NEW r \in Row, task' = [task EXCEPT ![t] = r]
  PROVE  /\ task' \in [Task -> Row]
         /\ task'[t] = r
         /\ \A u \in Task \ {t} : task'[u] = task[u]
  BY DEF TypeOK

-----------------------------------------------------------------------------
THEOREM TypeInit == Init => IInv
  <1> SUFFICES ASSUME Init PROVE IInv
    OBVIOUS
  <1>1. PICK found \in [Task -> Agent \cup {NoAgent}] :
          task = [t \in Task |->
            [NoRow EXCEPT !.agent = found[t],
                          !.state = IF dependsOn[t] = {} /\ found[t] # NoAgent
                                    THEN "assigned" ELSE "blocked"]]
    BY DEF Init
  <1>2. task \in [Task -> Row]
    <2> SUFFICES ASSUME NEW t \in Task
                 PROVE [NoRow EXCEPT !.agent = found[t],
                          !.state = IF dependsOn[t] = {} /\ found[t] # NoAgent
                                    THEN "assigned" ELSE "blocked"] \in Row
      BY <1>1
    <2> DEFINE st == IF dependsOn[t] = {} /\ found[t] # NoAgent THEN "assigned" ELSE "blocked"
    <2>1. st \in TaskStates
      BY DEF TaskStates
    <2>2. found[t] \in Agent \cup {NoAgent}
      BY <1>1
    <2> HIDE DEF st
    <2>3. [NoRow EXCEPT !.agent = found[t], !.state = st] \in Row
      BY <2>1, <2>2, NoRowType DEF Row
    <2> QED BY <2>3 DEF st
  <1>3. TypeOK
    <2>1. dependsOn \in Plans /\ agent \in [Agent -> Task \cup {NoTask}] /\ todo \subseteq Task
      BY DEF Init
    <2>2. run \in [Slot -> Run] /\ lane \in [Slot -> Lane]
      BY NoRunType, NoLaneType DEF Init
    <2>3. sweep \in Sweep
      BY NoSweepType DEF Init
    <2>4. faults \in 0..MaxFaults
      <3>1. faults = 0
        BY DEF Init
      <3> QED BY <3>1, BudgetAssumption
    <2> QED BY <1>2, <2>1, <2>2, <2>3, <2>4 DEF TypeOK
  <1>4. RunsHaveTasks /\ LanesHaveTasks
    BY NoRunType, NoLaneType DEF Init, RunsHaveTasks, LanesHaveTasks
  <1>5. SweptHaveTasks /\ TodoIsBlocked
    BY NoSweepType DEF Init, SweptHaveTasks, TodoIsBlocked
  <1> QED BY <1>3, <1>4, <1>5 DEF IInv

-----------------------------------------------------------------------------
\* Every action keeps the types.

LEMMA SelectableType ==
  ASSUME NEW t \in Task
  PROVE  Selectable(t) \subseteq Agent
  BY CapableAssumption DEF Selectable

LEMMA AssignKeeps ==
  ASSUME IInv, NEW t \in Task, AssignTask(t)
  PROVE  IInv'
  <1> USE DEF IInv
  <1>1. /\ task' \in [Task -> Row] /\ agent' \in [Agent -> Task \cup {NoTask}]
        /\ \A u \in Task \ {t} : task'[u] = task[u]
    <2>1. CASE UNCHANGED <<task, agent>>
      BY <2>1 DEF TypeOK
    <2>2. ASSUME NEW a \in Agent, Assign(t, a)
          PROVE  <1>1!1 /\ <1>1!2
      <3> DEFINE r == [Put(task[t], "assigned") EXCEPT !.agent = a]
      <3>1. r \in Row
        <4>1. task[t] \in Row /\ "assigned" \in TaskStates
          BY DEF TypeOK, TaskStates
        <4> QED BY <4>1, PutType, GivenType
      <3>2. task' = [task EXCEPT ![t] = r] /\ agent' = [agent EXCEPT ![a] = t]
        BY <2>2 DEF Assign
      <3> HIDE DEF r
      <3> QED BY <3>1, <3>2 DEF TypeOK
    <2>3. CASE task[t].agent # NoAgent /\ Assign(t, task[t].agent)
      <3>1. task[t].agent \in Agent
        BY <2>3 DEF TypeOK, Row
      <3> QED BY <2>2, <2>3, <3>1
    <2>4. CASE \E a \in Selectable(t) : Assign(t, a)
      BY <2>2, <2>4, SelectableType
    <2> QED BY <2>1, <2>3, <2>4 DEF AssignTask
  <1>2. UNCHANGED <<dependsOn, run, lane, sweep, faults>> /\ todo' = todo \ {t}
    BY DEF AssignTask
  <1>3. TypeOK'
    BY <1>1, <1>2 DEF TypeOK
  <1>4. RunsHaveTasks' /\ LanesHaveTasks' /\ SweptHaveTasks'
    BY <1>2 DEF RunsHaveTasks, LanesHaveTasks, SweptHaveTasks
  <1>5. TodoIsBlocked'
    BY <1>1, <1>2 DEF TodoIsBlocked, TypeOK
  <1> QED BY <1>3, <1>4, <1>5

\* What a Start leaves: the runs of the task that were going on are closed.
LEMMA ClosedType ==
  ASSUME TypeOK, NEW t \in Task
  PROVE  /\ Closed(t) \in [Slot -> Run]
         /\ \A r \in Slot : Closed(t)[r].state = "running" => r \notin Running(t) /\ Closed(t)[r] = run[r]
         /\ \A r \in Slot : lane[r].phase = "executing" => Closed(t)[r].of = run[r].of
  <1>1. [of |-> t, state |-> "failed", beat |-> 0] \in Run
    BY TimeAssumption DEF Run
  <1>2. Closed(t) \in [Slot -> Run]
    BY <1>1, NoRunType DEF Closed, TypeOK
  <1>3. ASSUME NEW r \in Slot, Closed(t)[r].state = "running"
        PROVE  r \notin Running(t) /\ Closed(t)[r] = run[r]
    BY <1>3, NoRunType DEF Closed
  <1>4. ASSUME NEW r \in Slot, lane[r].phase = "executing"
        PROVE  Closed(t)[r].of = run[r].of
    BY <1>4 DEF Closed, Running
  <1> QED BY <1>2, <1>3, <1>4

LEMMA StartKeeps ==
  ASSUME IInv, todo = {}, NEW t \in Task, NEW a \in Agent, NEW s \in Slot, Start(t, a, s)
  PROVE  IInv'
  <1> USE DEF IInv
  <1> DEFINE claimed == [Put(task[t], "working") EXCEPT !.agent = a, !.attempts = @ + 1]
             verdict == IF claimed.attempts < MaxAttempts THEN "queued" ELSE "failed"
             recovered == [Put(claimed, verdict) EXCEPT !.attempts = @ + 1]
             started == [of |-> t, state |-> "running", beat |-> 0]
             executing == [phase |-> "executing", row |-> claimed, owes |-> {}, age |-> 0, muted |-> FALSE]
  <1>1. claimed \in Row
    <2>1. task[t] \in Row /\ "working" \in TaskStates
      BY DEF TypeOK, TaskStates
    <2> QED BY <2>1, PutType, ClaimedType
  <1>2. recovered \in Row
    <2> HIDE DEF claimed
    <2>1. verdict \in TaskStates
      BY DEF TaskStates
    <2> HIDE DEF verdict
    <2> QED BY <1>1, <2>1, PutType, AttemptedType
  <1>3. started \in Run /\ started.of = t /\ started.state = "running"
    BY TimeAssumption DEF Run
  <1>4. executing \in Lane
    <2> HIDE DEF claimed
    <2> QED BY <1>1, TimeAssumption DEF Lane
  <1>5. task' = [task EXCEPT ![t] = IF activeRun(t) THEN recovered ELSE claimed]
    BY DEF Start
  <1>6. run' = [Closed(t) EXCEPT ![s] = started] /\ lane' = [lane EXCEPT ![s] = executing]
    BY DEF Start
  <1>7. agent' \in [Agent -> Task \cup {NoTask}]
    <2>1. PICK agents : agent' = [Idle(agents) EXCEPT ![a] = IF activeRun(t) THEN NoTask ELSE t]
      BY DEF Start
    <2> QED BY <2>1, IdleType
  <1>8. UNCHANGED <<dependsOn, sweep, todo, faults>>
    BY DEF Start
  <1> HIDE DEF claimed, verdict, recovered, started, executing
  <1>9. TypeOK'
    <2>1. task' \in [Task -> Row]
      BY <1>1, <1>2, <1>5 DEF TypeOK
    <2>2. run' \in [Slot -> Run] /\ lane' \in [Slot -> Lane]
      BY <1>3, <1>4, <1>6, ClosedType DEF TypeOK
    <2> QED BY <2>1, <2>2, <1>7, <1>8 DEF TypeOK
  <1>10. run'[s] = started /\ \A r \in Slot \ {s} : run'[r] = Closed(t)[r] /\ lane'[r] = lane[r]
    BY <1>6, ClosedType DEF TypeOK
  <1>11. RunsHaveTasks'
    BY <1>3, <1>10, ClosedType DEF RunsHaveTasks
  <1>12. LanesHaveTasks'
    BY <1>3, <1>10, ClosedType DEF LanesHaveTasks
  <1>13. SweptHaveTasks' /\ TodoIsBlocked'
    BY <1>8 DEF SweptHaveTasks, TodoIsBlocked
  <1> QED BY <1>9, <1>11, <1>12, <1>13

\* The lane that waits for its putDurable, and the run it closed.
LEMMA OverType ==
  ASSUME TypeOK, NEW r \in Row, NEW phase \in {"completing", "failing"}, NEW owes \in SUBSET Agent
  PROVE  /\ [NoLane EXCEPT !.phase = phase, !.owes = owes] \in Lane
         /\ [NoLane EXCEPT !.phase = phase, !.owes = owes].phase = phase
         /\ [NoLane EXCEPT !.phase = phase, !.owes = owes, !.row = r] \in Lane
         /\ [NoLane EXCEPT !.phase = phase, !.owes = owes, !.row = r].phase = phase
  BY NoLaneType DEF Lane

LEMMA LaneOwnRow ==
  ASSUME TypeOK, NEW s \in Slot
  PROVE  lane[s] \in Lane /\ lane[s].row \in Row /\ lane[s].owes \in SUBSET Agent
  BY DEF TypeOK, Lane

\* What a step that replaces the task of slot s, its run and its lane keeps, when the
\* lane is no longer executing.
LEMMA SlotStep ==
  ASSUME IInv, todo = {}, todo' = {}, NEW s \in Slot, NEW t \in Task, NEW row \in Row,
         NEW r \in Run, NEW l \in Lane, r.state # "running", l.phase # "executing",
         task' = [task EXCEPT ![t] = row],
         run' = [run EXCEPT ![s] = r],
         lane' = [lane EXCEPT ![s] = l],
         agent' \in [Agent -> Task \cup {NoTask}],
         UNCHANGED <<dependsOn, sweep, faults>>
  PROVE  IInv'
  <1>1. TypeOK'
    BY DEF IInv, TypeOK
  <1>2. run'[s] = r /\ lane'[s] = l /\ \A q \in Slot \ {s} : run'[q] = run[q] /\ lane'[q] = lane[q]
    BY DEF IInv, TypeOK
  <1>3. RunsHaveTasks' /\ LanesHaveTasks'
    BY <1>2 DEF IInv, RunsHaveTasks, LanesHaveTasks
  <1>4. SweptHaveTasks' /\ TodoIsBlocked'
    BY DEF IInv, SweptHaveTasks, TodoIsBlocked
  <1> QED BY <1>1, <1>3, <1>4 DEF IInv

LEMMA StallFailKeeps ==
  ASSUME IInv, todo = {}, NEW t \in Task, NEW s \in Slot, StallFail(t, s)
  PROVE  IInv'
  <1>1. TypeOK /\ task[t] \in Row
    BY DEF IInv, TypeOK
  <1>2. Put(task[t], "failed") \in Row
    BY <1>1, PutType DEF TaskStates
  <1>3. [NoLane EXCEPT !.phase = "failing", !.owes = Of(task[t])] \in Lane
        /\ [NoLane EXCEPT !.phase = "failing", !.owes = Of(task[t])].phase = "failing"
    BY <1>1, OfType, OverType
  <1>4. run[s] = NoRun /\ run' = [run EXCEPT ![s] = NoRun]
    BY <1>1 DEF StallFail, FirstFree, Free, TypeOK
  <1>5. /\ task' = [task EXCEPT ![t] = Put(task[t], "failed")]
        /\ lane' = [lane EXCEPT ![s] = [NoLane EXCEPT !.phase = "failing", !.owes = Of(task[t])]]
        /\ UNCHANGED <<dependsOn, agent, sweep, todo, faults>>
    BY DEF StallFail
  <1>6. agent' \in [Agent -> Task \cup {NoTask}]
    BY <1>1, <1>5 DEF TypeOK
  <1> QED BY <1>2, <1>3, <1>4, <1>5, <1>6, NoRunType, SlotStep

LEMMA PassKeeps ==
  ASSUME IInv, todo = {}, NEW s \in Slot, Pass(s)
  PROVE  IInv'
  <1> DEFINE t == run[s].of
             r == [of |-> t, state |-> "none", beat |-> 0]
             l == [NoLane EXCEPT !.phase = "completing", !.owes = Of(task[t]), !.row = lane[s].row]
  <1>1. TypeOK /\ t \in Task
    BY DEF IInv, LanesHaveTasks, Pass
  <1>2. task[t] \in Row /\ Put(task[t], "completed") \in Row
    BY <1>1, PutType DEF TypeOK, TaskStates
  <1>3. r \in Run /\ r.state = "none"
    BY <1>1, TimeAssumption DEF Run
  <1>4. l \in Lane /\ l.phase = "completing"
    BY <1>1, <1>2, OfType, LaneOwnRow, OverType
  <1>5. /\ task' = [task EXCEPT ![t] = Put(task[t], "completed")]
        /\ run' = [run EXCEPT ![s] = r]
        /\ lane' = [lane EXCEPT ![s] = l]
        /\ UNCHANGED <<dependsOn, agent, sweep, todo, faults>>
    BY DEF Pass, Over
  <1>6. agent' \in [Agent -> Task \cup {NoTask}]
    BY <1>1, <1>5 DEF TypeOK
  <1> HIDE DEF t, r, l
  <1> QED BY <1>1, <1>2, <1>3, <1>4, <1>5, <1>6, SlotStep

LEMMA RetryTaskKeeps ==
  ASSUME IInv, todo = {}, NEW s \in Slot, RetryTask(s)
  PROVE  IInv'
  <1> DEFINE t == run[s].of
             row == [Put(lane[s].row, "queued") EXCEPT !.agent = NoAgent, !.strikes = @ + 1]
  <1>1. TypeOK /\ t \in Task
    BY DEF IInv, LanesHaveTasks, RetryTask
  <1>2. row \in Row
    <2>1. Put(lane[s].row, "queued") \in Row
      BY <1>1, LaneOwnRow, PutType DEF TaskStates
    <2> QED BY <2>1, StruckType
  <1>3. /\ task' = [task EXCEPT ![t] = row]
        /\ run' = [run EXCEPT ![s] = NoRun]
        /\ lane' = [lane EXCEPT ![s] = NoLane]
        /\ agent' = Idle(Of(lane[s].row))
        /\ UNCHANGED <<dependsOn, sweep, todo, faults>>
    BY DEF RetryTask, Close
  <1>4. agent' \in [Agent -> Task \cup {NoTask}]
    BY <1>1, <1>3, IdleType
  <1> HIDE DEF t, row
  <1> QED BY <1>1, <1>2, <1>3, <1>4, NoRunType, NoLaneType, SlotStep

LEMMA GiveUpKeeps ==
  ASSUME IInv, todo = {}, NEW s \in Slot, GiveUp(s)
  PROVE  IInv'
  <1> DEFINE t == run[s].of
             owes == Of(task[t]) \cup Of(lane[s].row)
             l == [NoLane EXCEPT !.phase = "failing", !.owes = owes, !.row = lane[s].row]
  <1>1. TypeOK /\ t \in Task
    BY DEF IInv, LanesHaveTasks, GiveUp
  <1>2. task[t] \in Row /\ Put(task[t], "failed") \in Row
    BY <1>1, PutType DEF TypeOK, TaskStates
  <1>3. owes \in SUBSET Agent
    BY <1>1, <1>2, OfType, LaneOwnRow
  <1>4. l \in Lane /\ l.phase = "failing"
    <2> HIDE DEF owes
    <2> QED BY <1>1, <1>3, LaneOwnRow, OverType
  <1>5. /\ task' = [task EXCEPT ![t] = Put(task[t], "failed")]
        /\ run' = [run EXCEPT ![s] = NoRun]
        /\ lane' = [lane EXCEPT ![s] = l]
        /\ UNCHANGED <<dependsOn, agent, sweep, todo, faults>>
    BY DEF GiveUp, Over, Close
  <1>6. agent' \in [Agent -> Task \cup {NoTask}]
    BY <1>1, <1>5 DEF TypeOK
  <1> HIDE DEF t, owes, l
  <1> QED BY <1>1, <1>2, <1>4, <1>5, <1>6, NoRunType, SlotStep

LEMMA ReturnKeeps ==
  ASSUME IInv, todo = {}, NEW s \in Slot, Return(s)
  PROVE  IInv'
  <1>1. TypeOK /\ RunsHaveTasks /\ LanesHaveTasks /\ SweptHaveTasks
    BY DEF IInv
  <1>2. /\ run' = [run EXCEPT ![s] = NoRun]
        /\ lane' = [lane EXCEPT ![s] = NoLane]
        /\ agent' = Idle(lane[s].owes)
        /\ UNCHANGED <<dependsOn, task, sweep, faults>>
    BY DEF Return, Close
  <1>3. todo' \subseteq {u \in Task : task[u].state = "blocked"}
    BY DEF Return, Unblocked
  <1>4. TypeOK'
    <2>1. agent' \in [Agent -> Task \cup {NoTask}]
      BY <1>1, <1>2, IdleType
    <2>2. run' \in [Slot -> Run] /\ lane' \in [Slot -> Lane]
      BY <1>1, <1>2, NoRunType, NoLaneType DEF TypeOK
    <2>3. UNCHANGED <<dependsOn, task, sweep, faults>> /\ todo' \subseteq Task
      BY <1>2, <1>3
    <2> QED BY <1>1, <2>1, <2>2, <2>3 DEF TypeOK
  <1>5. RunsHaveTasks' /\ LanesHaveTasks'
    BY <1>1, <1>2, NoRunType, NoLaneType DEF RunsHaveTasks, LanesHaveTasks, TypeOK
  <1>6. SweptHaveTasks' /\ TodoIsBlocked'
    BY <1>1, <1>2, <1>3 DEF SweptHaveTasks, TodoIsBlocked
  <1> QED BY <1>4, <1>5, <1>6 DEF IInv

LEMMA SweepBeginsKeeps ==
  ASSUME IInv, todo = {}, SweepBegins
  PROVE  IInv'
  <1> DEFINE of == [s \in Slot |-> IF s \in StaleRuns THEN run[s].of ELSE NoTask]
             begun == [NoSweep EXCEPT !.phase = "runs", !.runs = StaleRuns, !.of = of]
  <1>1. TypeOK /\ RunsHaveTasks
    BY DEF IInv
  <1>2. StaleRuns \subseteq Slot /\ \A s \in StaleRuns : of[s] \in Task
    BY <1>1 DEF StaleRuns, RunsHaveTasks
  <1>3. of \in [Slot -> Task \cup {NoTask}]
    BY <1>2
  <1>4. sweep' = begun /\ UNCHANGED <<dependsOn, task, agent, run, lane, todo, faults>>
    BY DEF SweepBegins
  <1> HIDE DEF of
  <1>5. begun \in Sweep /\ begun.runs = StaleRuns /\ begun.of = of
    BY <1>2, <1>3, NoSweepType DEF Sweep
  <1> HIDE DEF begun
  <1>6. TypeOK'
    BY <1>1, <1>4, <1>5 DEF TypeOK
  <1>7. SweptHaveTasks'
    BY <1>2, <1>4, <1>5 DEF SweptHaveTasks
  <1>8. RunsHaveTasks' /\ LanesHaveTasks' /\ TodoIsBlocked'
    BY <1>4 DEF IInv, RunsHaveTasks, LanesHaveTasks, TodoIsBlocked
  <1> QED BY <1>6, <1>7, <1>8 DEF IInv

\* What a recovery writes of a task, and the agents it owes afterwards.
LEMMA RequeueType ==
  ASSUME TypeOK, NEW t \in Task, NEW r \in Row, Requeue(t, r)
  PROVE  /\ task' \in [Task -> Row]
         /\ agent' \in [Agent -> Task \cup {NoTask}]
         /\ \A u \in Task \ {t} : task'[u] = task[u]
  <1>1. CASE r.infra < MaxInfra
    <2> DEFINE q == [Put(r, "queued") EXCEPT !.agent = NoAgent, !.infra = @ + 1]
    <2>1. q \in Row
      <3>1. Put(r, "queued") \in Row /\ Put(r, "queued").infra < MaxInfra
        BY <1>1, PutType, PutFields DEF TaskStates
      <3> QED BY <3>1, RequeuedType
    <2>2. task' = [task EXCEPT ![t] = q] /\ agent' = Idle(sweep.owes \cup Of(r))
      BY <1>1 DEF Requeue
    <2> HIDE DEF q
    <2> QED BY <2>1, <2>2, TaskUpdate, IdleType
  <1>2. CASE ~(r.infra < MaxInfra)
    <2>1. Put(r, "failed") \in Row
      BY PutType DEF TaskStates
    <2>2. task' = [task EXCEPT ![t] = Put(r, "failed")] /\ agent' = Idle(sweep.owes)
      BY <1>2 DEF Requeue
    <2> QED BY <2>1, <2>2, TaskUpdate, IdleType
  <1> QED BY <1>1, <1>2

LEMMA OwesType ==
  ASSUME NEW r \in Row
  PROVE  Owes(r) \in SUBSET Agent
  BY OfType DEF Owes

\* A recovery that is one run further, and one that is one task further.
LEMMA RunFurther ==
  ASSUME TypeOK, NEW s \in Slot, NEW owes \in SUBSET Agent,
         sweep' = [sweep EXCEPT !.runs = @ \ {s}, !.of[s] = NoTask, !.owes = owes]
  PROVE  /\ sweep' \in Sweep
         /\ sweep'.runs = sweep.runs \ {s}
         /\ sweep'.listed = sweep.listed
         /\ \A q \in Slot \ {s} : sweep'.of[q] = sweep.of[q]
  <1> DEFINE runs == sweep.runs \ {s}
             of == [sweep.of EXCEPT ![s] = NoTask]
  <1>1. sweep \in Sweep
    BY DEF TypeOK
  <1>2. /\ runs \in SUBSET Slot
        /\ of \in [Slot -> Task \cup {NoTask}]
        /\ \A q \in Slot \ {s} : of[q] = sweep.of[q]
    BY <1>1 DEF Sweep
  <1>3. sweep' = [sweep EXCEPT !.runs = runs, !.of = of, !.owes = owes]
    BY <1>1 DEF Sweep
  <1>4. runs = sweep.runs \ {s}
    OBVIOUS
  <1> HIDE DEF runs, of
  <1>5. sweep' \in Sweep /\ sweep'.runs = runs /\ sweep'.of = of /\ sweep'.listed = sweep.listed
    BY <1>1, <1>2, <1>3 DEF Sweep
  <1> QED BY <1>2, <1>4, <1>5

LEMMA TaskFurther ==
  ASSUME TypeOK, NEW t \in Task, NEW owes \in SUBSET Agent,
         sweep' = [sweep EXCEPT !.listed = @ \ {t}, !.rows[t] = NoRow, !.owes = owes]
  PROVE  /\ sweep' \in Sweep
         /\ sweep'.runs = sweep.runs
         /\ sweep'.of = sweep.of
         /\ sweep'.listed = sweep.listed \ {t}
  <1> DEFINE listed == sweep.listed \ {t}
             rows == [sweep.rows EXCEPT ![t] = NoRow]
  <1>1. sweep \in Sweep
    BY DEF TypeOK
  <1>2. listed \in SUBSET Task /\ rows \in [Task -> Row]
    BY <1>1, NoRowType DEF Sweep
  <1>3. sweep' = [sweep EXCEPT !.listed = listed, !.rows = rows, !.owes = owes]
    BY <1>1 DEF Sweep
  <1>4. listed = sweep.listed \ {t}
    OBVIOUS
  <1> HIDE DEF listed, rows
  <1>5. sweep' \in Sweep /\ sweep'.runs = sweep.runs /\ sweep'.of = sweep.of /\ sweep'.listed = listed
    BY <1>1, <1>2, <1>3 DEF Sweep
  <1> QED BY <1>4, <1>5

LEMMA SweepRunKeeps ==
  ASSUME IInv, todo = {}, NEW s \in Slot, SweepRun(s)
  PROVE  IInv'
  <1> DEFINE t == sweep.of[s]
  <1>1. TypeOK /\ t \in Task /\ s \in sweep.runs
    BY DEF IInv, SweptHaveTasks, SweepRun
  <1>2. task[t] \in Row
    BY <1>1 DEF TypeOK
  <1>3. /\ run' \in [Slot -> Run]
        /\ \A q \in Slot : run'[q] = run[q] \/ (run'[q].state # "running" /\ run'[q].of = t)
                                            \/ (run'[q] = NoRun /\ lane[q].phase = "over")
    <2>1. [of |-> t, state |-> "failed", beat |-> 0] \in Run
      BY <1>1, TimeAssumption DEF Run
    <2>2. run' = IF run[s].state # "running" THEN run
                 ELSE [run EXCEPT ![s] =
                   IF lane[s].phase = "over" THEN NoRun ELSE [of |-> t, state |-> "failed", beat |-> 0]]
      BY DEF SweepRun
    <2> HIDE DEF t
    <2> QED BY <1>1, <2>1, <2>2, NoRunType DEF TypeOK
  <1>4. /\ task' \in [Task -> Row]
        /\ agent' \in [Agent -> Task \cup {NoTask}]
    <2>1. CASE task[t].state \in TERMINAL
      <3>1. agent' = Idle(sweep.owes) /\ task' = task
        BY <2>1 DEF SweepRun
      <3> QED BY <3>1, <1>1, IdleType DEF TypeOK
    <2>2. CASE task[t].state \notin TERMINAL
      <3>1. Requeue(t, task[t])
        BY <2>2 DEF SweepRun
      <3> QED BY <3>1, <1>1, <1>2, RequeueType
    <2> QED BY <2>1, <2>2
  <1>5. sweep' \in Sweep /\ sweep'.runs = sweep.runs \ {s} /\ \A q \in Slot \ {s} : sweep'.of[q] = sweep.of[q]
    <2>1. PICK owes \in SUBSET Agent : sweep' = [sweep EXCEPT !.runs = @ \ {s}, !.of[s] = NoTask, !.owes = owes]
      BY <1>2, OwesType DEF SweepRun
    <2> HIDE DEF t
    <2> QED BY <1>1, <2>1, RunFurther
  <1>6. UNCHANGED <<dependsOn, lane, todo, faults>>
    BY DEF SweepRun
  <1> HIDE DEF t
  <1>7. TypeOK'
    BY <1>1, <1>3, <1>4, <1>5, <1>6 DEF TypeOK
  <1>8. RunsHaveTasks' /\ LanesHaveTasks'
    BY <1>1, <1>3, <1>6, NoRunType DEF IInv, RunsHaveTasks, LanesHaveTasks
  <1>9. SweptHaveTasks' /\ TodoIsBlocked'
    <2>1. sweep.runs \subseteq Slot
      BY <1>1 DEF TypeOK, Sweep
    <2> QED BY <1>5, <1>6, <2>1 DEF IInv, SweptHaveTasks, TodoIsBlocked
  <1> QED BY <1>7, <1>8, <1>9 DEF IInv

\* A step that only moves the recovery on, or begins the loop over blocked tasks.
LEMMA SweepStepKeeps ==
  ASSUME IInv, UNCHANGED <<dependsOn, task, run, lane, faults>>,
         NEW agents, agent' = Idle(agents),
         sweep' \in Sweep, sweep'.runs = {},
         todo' \subseteq {t \in Task : task[t].state = "blocked"}
  PROVE  IInv'
  <1>1. TypeOK'
    <2>1. TypeOK /\ agent' \in [Agent -> Task \cup {NoTask}]
      BY IdleType DEF IInv
    <2> QED BY <2>1 DEF TypeOK
  <1>2. RunsHaveTasks' /\ LanesHaveTasks'
    BY DEF IInv, RunsHaveTasks, LanesHaveTasks
  <1>3. SweptHaveTasks' /\ TodoIsBlocked'
    BY DEF SweptHaveTasks, TodoIsBlocked
  <1> QED BY <1>1, <1>2, <1>3 DEF IInv

LEMMA SweepListsKeeps ==
  ASSUME IInv, todo = {}, SweepLists
  PROVE  IInv'
  <1> DEFINE orphans == {t \in Task : /\ task[t].state \in STUCK_STATES
                                      /\ \A s \in Running(t) : stale(s)
                                      /\ task[t].age >= Grace}
             rows == [t \in Task |-> IF t \in orphans THEN task[t] ELSE NoRow]
             listed == [NoSweep EXCEPT !.phase = "tasks", !.listed = orphans, !.rows = rows]
  <1>1. UNCHANGED <<dependsOn, task, run, lane, faults>> /\ agent' = Idle(sweep.owes)
    BY DEF SweepLists
  <1>2. IF orphans = {} THEN sweep' = NoSweep /\ todo' = BlockedReady
        ELSE sweep' = listed /\ UNCHANGED todo
    BY DEF SweepLists
  <1>3. rows \in [Task -> Row] /\ orphans \in SUBSET Task
    BY NoRowType DEF IInv, TypeOK
  <1> HIDE DEF orphans, rows
  <1>4. listed \in Sweep /\ listed.runs = {}
    BY <1>3, NoSweepType DEF Sweep
  <1>5. BlockedReady \subseteq {t \in Task : task[t].state = "blocked"}
    BY DEF BlockedReady
  <1> HIDE DEF listed
  <1>6. sweep' \in Sweep /\ sweep'.runs = {} /\ todo' \subseteq {t \in Task : task[t].state = "blocked"}
    BY <1>2, <1>4, <1>5, NoSweepType
  <1> QED BY <1>1, <1>6, SweepStepKeeps

LEMMA SweepEndsKeeps ==
  ASSUME IInv, todo = {}, SweepEnds
  PROVE  IInv'
  <1>1. /\ UNCHANGED <<dependsOn, task, run, lane, faults>> /\ agent' = Idle(sweep.owes)
        /\ sweep' = NoSweep
        /\ todo' \subseteq {t \in Task : task[t].state = "blocked"}
    BY DEF SweepEnds, BlockedReady
  <1> QED BY <1>1, NoSweepType, SweepStepKeeps

LEMMA SweepTaskKeeps ==
  ASSUME IInv, todo = {}, NEW t \in Task, SweepTask(t)
  PROVE  IInv'
  <1>1. TypeOK /\ sweep.rows[t] \in Row
    BY DEF IInv, TypeOK, Sweep
  <1>2. task' \in [Task -> Row] /\ agent' \in [Agent -> Task \cup {NoTask}]
    <2>1. Requeue(t, sweep.rows[t])
      BY DEF SweepTask
    <2> QED BY <1>1, <2>1, RequeueType
  <1>3. sweep' \in Sweep /\ sweep'.runs = sweep.runs /\ sweep'.of = sweep.of
    <2>1. PICK owes \in SUBSET Agent :
            sweep' = [sweep EXCEPT !.listed = @ \ {t}, !.rows[t] = NoRow, !.owes = owes]
      BY <1>1, OwesType DEF SweepTask
    <2> QED BY <1>1, <2>1, TaskFurther
  <1>4. UNCHANGED <<dependsOn, run, lane, todo, faults>> /\ todo = {}
    BY DEF SweepTask
  <1>5. TypeOK'
    BY <1>1, <1>2, <1>3, <1>4 DEF TypeOK
  <1>6. RunsHaveTasks' /\ LanesHaveTasks' /\ SweptHaveTasks' /\ TodoIsBlocked'
    BY <1>3, <1>4 DEF IInv, RunsHaveTasks, LanesHaveTasks, SweptHaveTasks, TodoIsBlocked
  <1> QED BY <1>5, <1>6 DEF IInv

LEMMA CapType ==
  ASSUME NEW max \in Nat, NEW n \in 0..max
  PROVE  Cap(n, max) \in 0..max
  BY DEF Cap

LEMMA TickKeeps ==
  ASSUME IInv, todo = {}, Tick
  PROVE  IInv'
  <1>1. TypeOK /\ Lease \in Nat /\ Timeout \in Nat /\ Stalled \in Nat
    BY TimeAssumption DEF IInv
  <1>2. ASSUME NEW s \in Slot
        PROVE  /\ lane'[s] \in Lane
               /\ lane'[s].phase = lane[s].phase
               /\ lane'[s].muted = lane[s].muted
               /\ lane[s].phase = "executing" => lane'[s].age = lane[s].age + 1
    <2>1. lane[s] \in Lane
      BY <1>1 DEF TypeOK
    <2>2. lane'[s] = IF lane[s].phase = "executing" THEN [lane[s] EXCEPT !.age = @ + 1] ELSE lane[s]
      BY DEF Tick
    <2>3. ASSUME lane[s].phase = "executing"
          PROVE  lane[s].age + 1 \in 0..Timeout
      <3>1. lane[s].age < Timeout /\ lane[s].age \in 0..Timeout
        BY <2>1, <2>3 DEF Tick, Lane
      <3> QED BY <1>1, <3>1
    <2> QED BY <2>1, <2>2, <2>3 DEF Lane
  <1>3. ASSUME NEW s \in Slot
        PROVE  run'[s] \in Run /\ run'[s].of = run[s].of /\ run'[s].state = run[s].state
    <2>1. run[s] \in Run
      BY <1>1 DEF TypeOK
    <2> DEFINE beat == Cap(run[s].beat, Lease + 1)
               next == IF lane[s].phase = "executing" /\ ~lane[s].muted
                       THEN Heartbeat(beat, lane[s].age + 1) ELSE beat
    <2>2. next \in 0..(Lease + 1)
      <3>1. beat \in 0..(Lease + 1)
        BY <1>1, <2>1, CapType DEF Run
      <3> HIDE DEF beat
      <3> QED BY <1>1, <3>1 DEF Heartbeat
    <2>3. run'[s] = IF run[s].state # "running" THEN run[s] ELSE [run[s] EXCEPT !.beat = next]
      BY DEF Tick
    <2> HIDE DEF next
    <2> QED BY <2>1, <2>2, <2>3 DEF Run
  <1>4. ASSUME NEW t \in Task
        PROVE  task'[t] \in Row /\ task'[t].state = task[t].state
    <2>1. task[t] \in Row
      BY <1>1 DEF TypeOK
    <2>2. Cap(task[t].age, Stalled) \in 0..Stalled
      BY <1>1, <2>1, CapType DEF Row
    <2>3. task'[t] = IF task[t].state \in RUNNABLE \cup STUCK_STATES
                     THEN [task[t] EXCEPT !.age = Cap(task[t].age, Stalled)] ELSE task[t]
      BY DEF Tick
    <2> QED BY <2>1, <2>2, <2>3 DEF Row
  <1>5. UNCHANGED <<dependsOn, agent, sweep, todo, faults>>
    BY DEF Tick
  <1>6. TypeOK'
    <2>1. task' \in [Task -> Row]
      BY <1>4 DEF Tick
    <2>2. run' \in [Slot -> Run] /\ lane' \in [Slot -> Lane]
      BY <1>2, <1>3 DEF Tick
    <2> QED BY <1>1, <1>5, <2>1, <2>2 DEF TypeOK
  <1>7. RunsHaveTasks' /\ LanesHaveTasks'
    BY <1>2, <1>3 DEF IInv, RunsHaveTasks, LanesHaveTasks
  <1>8. SweptHaveTasks' /\ TodoIsBlocked'
    BY <1>5 DEF IInv, SweptHaveTasks, TodoIsBlocked
  <1> QED BY <1>6, <1>7, <1>8 DEF IInv

LEMMA FaultType ==
  ASSUME TypeOK, Fault
  PROVE  faults' \in 0..MaxFaults
  BY BudgetAssumption DEF TypeOK, Fault

\* A step that only takes lanes or runs away.
LEMMA LossKeeps ==
  ASSUME IInv, todo = {}, Fault, UNCHANGED <<dependsOn, task, todo>>,
         agent' \in [Agent -> Task \cup {NoTask}],
         run' \in [Slot -> Run], lane' \in [Slot -> Lane], sweep' \in Sweep,
         sweep' = sweep \/ sweep'.runs = {},
         \A s \in Slot : /\ run'[s] = run[s] \/ (run'[s].state # "running" /\ lane'[s].phase # "executing")
                         /\ lane'[s].phase = "executing" => lane[s].phase = "executing"
  PROVE  IInv'
  <1>1. TypeOK'
    BY FaultType DEF IInv, TypeOK
  <1>2. RunsHaveTasks' /\ LanesHaveTasks'
    BY DEF IInv, RunsHaveTasks, LanesHaveTasks
  <1>3. SweptHaveTasks' /\ TodoIsBlocked'
    BY DEF IInv, SweptHaveTasks, TodoIsBlocked
  <1> QED BY <1>1, <1>2, <1>3 DEF IInv

LEMMA MuteKeeps ==
  ASSUME IInv, todo = {}, NEW s \in Slot, Mute(s)
  PROVE  IInv'
  <1>1. TypeOK /\ Fault /\ UNCHANGED <<dependsOn, task, agent, run, sweep, todo>>
    BY DEF IInv, Mute
  <1>2. lane' = [lane EXCEPT ![s] = [lane[s] EXCEPT !.muted = TRUE]]
    BY <1>1 DEF Mute, TypeOK
  <1>3. lane[s] \in Lane
    BY <1>1 DEF TypeOK
  <1>4. [lane[s] EXCEPT !.muted = TRUE] \in Lane /\ [lane[s] EXCEPT !.muted = TRUE].phase = lane[s].phase
    BY <1>3 DEF Lane
  <1>5. lane' \in [Slot -> Lane] /\ \A q \in Slot : lane'[q].phase = lane[q].phase
    BY <1>1, <1>2, <1>4 DEF TypeOK
  <1>6. /\ agent' \in [Agent -> Task \cup {NoTask}] /\ run' \in [Slot -> Run] /\ sweep' \in Sweep
        /\ sweep' = sweep /\ run' = run
    BY <1>1 DEF TypeOK
  <1> QED BY <1>1, <1>5, <1>6, LossKeeps

LEMMA CutLaneKeeps ==
  ASSUME IInv, todo = {}, NEW s \in Slot, CutLane(s)
  PROVE  IInv'
  <1>1. TypeOK /\ Fault /\ UNCHANGED <<dependsOn, task, agent, sweep, todo>>
    BY DEF IInv, CutLane
  <1>2. /\ lane' = [lane EXCEPT ![s] = NoLane]
        /\ run' = [run EXCEPT ![s] = IF run[s].state = "running" THEN run[s] ELSE NoRun]
    BY DEF CutLane
  <1>3. lane' \in [Slot -> Lane] /\ run' \in [Slot -> Run]
    BY <1>1, <1>2, NoLaneType, NoRunType DEF TypeOK
  <1>4. ASSUME NEW q \in Slot
        PROVE  /\ run'[q] = run[q] \/ (run'[q].state # "running" /\ lane'[q].phase # "executing")
               /\ lane'[q].phase = "executing" => lane[q].phase = "executing"
    BY <1>1, <1>2, NoLaneType, NoRunType DEF TypeOK
  <1>5. agent' \in [Agent -> Task \cup {NoTask}] /\ sweep' \in Sweep /\ sweep' = sweep
    BY <1>1 DEF TypeOK
  <1> QED BY <1>1, <1>3, <1>4, <1>5, LossKeeps

LEMMA CutSweepKeeps ==
  ASSUME IInv, todo = {}, CutSweep
  PROVE  IInv'
  <1>1. TypeOK /\ Fault /\ UNCHANGED <<dependsOn, task, agent, run, lane, todo>> /\ sweep' = NoSweep
    BY DEF IInv, CutSweep
  <1>2. agent' \in [Agent -> Task \cup {NoTask}] /\ run' \in [Slot -> Run] /\ lane' \in [Slot -> Lane]
    BY <1>1 DEF TypeOK
  <1> QED BY <1>1, <1>2, NoSweepType, LossKeeps

LEMMA EvictKeeps ==
  ASSUME IInv, todo = {}, Evict
  PROVE  IInv'
  <1>1. TypeOK /\ Fault /\ UNCHANGED <<dependsOn, task, todo>> /\ sweep' = NoSweep
    BY DEF IInv, Evict
  <1>2. /\ lane' = [s \in Slot |-> NoLane]
        /\ run' = [s \in Slot |-> IF run[s].state = "running" THEN run[s] ELSE NoRun]
    BY DEF Evict
  <1>3. PICK agents : agent' = Idle(agents)
    BY DEF Evict
  <1>4. agent' \in [Agent -> Task \cup {NoTask}]
    BY <1>1, <1>3, IdleType
  <1>5. run' \in [Slot -> Run] /\ lane' \in [Slot -> Lane]
    BY <1>1, <1>2, NoLaneType, NoRunType DEF TypeOK
  <1>6. \A q \in Slot : /\ run'[q] = run[q] \/ (run'[q].state # "running" /\ lane'[q].phase # "executing")
                        /\ lane'[q].phase # "executing"
    BY <1>2, NoLaneType, NoRunType
  <1> QED BY <1>1, <1>4, <1>5, <1>6, NoSweepType, LossKeeps

LEMMA NextKeeps == IInv /\ [Next]_vars => IInv'
  <1> SUFFICES ASSUME IInv, [Next]_vars PROVE IInv'
    OBVIOUS
  <1>1. ASSUME NEW t \in Task, AssignTask(t) PROVE IInv'
    BY <1>1, AssignKeeps
  <1>2. ASSUME todo = {}, NEW s \in Slot, LaneStep(s) PROVE IInv'
    BY <1>2, PassKeeps, RetryTaskKeeps, GiveUpKeeps, ReturnKeeps DEF LaneStep
  <1>3. ASSUME todo = {}, NEW t \in Task, Offer(t) PROVE IInv'
    BY <1>3, StartKeeps, StallFailKeeps DEF Offer
  <1>4. ASSUME todo = {}, SweepStep PROVE IInv'
    BY <1>4, SweepBeginsKeeps, SweepListsKeeps, SweepEndsKeeps, SweepRunKeeps, SweepTaskKeeps
       DEF SweepStep
  <1>5. ASSUME todo = {}, Tick PROVE IInv'
    BY <1>5, TickKeeps
  <1>6. ASSUME todo = {}, NEW s \in Slot, Mute(s) \/ CutLane(s) PROVE IInv'
    BY <1>6, MuteKeeps, CutLaneKeeps
  <1>7. ASSUME todo = {}, CutSweep \/ Evict PROVE IInv'
    BY <1>7, CutSweepKeeps, EvictKeeps
  <1>8. CASE UNCHANGED vars
    BY <1>8 DEF vars, IInv, TypeOK, RunsHaveTasks, LanesHaveTasks, SweptHaveTasks, TodoIsBlocked,
                Run, Lane, Row, Sweep
  <1> QED BY <1>1, <1>2, <1>3, <1>4, <1>5, <1>6, <1>7, <1>8 DEF Next

\* The state has the types the model gives it, in every reachable state, whatever the
\* tasks, the agents and the durations are.
THEOREM TypeCorrect == Spec => []TypeOK
  <1>1. IInv => TypeOK
    BY DEF IInv
  <1> QED BY <1>1, TypeInit, NextKeeps, PTL DEF Spec

THEOREM SchedulerInvariant == Spec => []IInv
  BY TypeInit, NextKeeps, PTL DEF Spec

-----------------------------------------------------------------------------
\* What the actions do to runs, lanes and recoveries.

Other ==
  \/ \E t \in Task : AssignTask(t)
  \/ \E t \in Task, s \in Slot : StallFail(t, s)
  \/ \E s \in Slot : LaneStep(s)
  \/ SweepStep
  \/ \E s \in Slot : Mute(s) \/ CutLane(s)
  \/ CutSweep \/ Evict
  \/ UNCHANGED vars

LEMMA StepIs ==
  ASSUME [Next]_vars
  PROVE  \/ \E t \in Task, a \in Agent, s \in Slot : Start(t, a, s)
         \/ Tick
         \/ Other
  BY DEF Next, Offer, Other

\* Only Start makes a run or a lane begin, only Tick makes them older.
LEMMA OtherRuns ==
  ASSUME IInv, Other, NEW q \in Slot
  PROVE  /\ run'[q].state = "running" => run'[q] = run[q]
         /\ lane'[q].phase = "executing" => lane'[q] = lane[q] \/ lane'[q].muted
  <1>1. TypeOK /\ NoRun.state = "none" /\ NoLane.phase = "over"
    BY NoRunType, NoLaneType DEF IInv
  <1>2. ASSUME NEW t \in Task, AssignTask(t) PROVE run' = run /\ lane' = lane
    BY <1>2 DEF AssignTask
  <1>3. ASSUME NEW t \in Task, NEW s \in Slot, StallFail(t, s)
        PROVE  run' = run /\ (lane'[q] = lane[q] \/ lane'[q].phase = "failing")
    <2>1. task[t] \in Row
      BY <1>1 DEF TypeOK
    <2>2. [NoLane EXCEPT !.phase = "failing", !.owes = Of(task[t])].phase = "failing"
      BY <1>1, <2>1, OfType, OverType
    <2>3. run' = run /\ lane' = [lane EXCEPT ![s] = [NoLane EXCEPT !.phase = "failing", !.owes = Of(task[t])]]
      BY <1>3 DEF StallFail
    <2> QED BY <1>1, <2>2, <2>3 DEF TypeOK
  <1>4. ASSUME NEW s \in Slot, LaneStep(s)
        PROVE  /\ run'[q] = run[q] \/ run'[q].state # "running"
               /\ lane'[q] = lane[q] \/ lane'[q].phase # "executing"
    <2>1. ASSUME NEW phase \in {"completing", "failing"}, NEW owes, Over(s, phase, owes)
          PROVE  lane'[q] = lane[q] \/ lane'[q].phase # "executing"
      <3>1. lane' = [lane EXCEPT ![s] = [NoLane EXCEPT !.phase = phase, !.owes = owes, !.row = lane[s].row]]
        BY <2>1 DEF Over
      <3>2. [NoLane EXCEPT !.phase = phase, !.owes = owes, !.row = lane[s].row].phase = phase
        BY NoLaneType DEF Lane
      <3> QED BY <1>1, <3>1, <3>2 DEF TypeOK
    <2>2. ASSUME Close(s) PROVE run'[q] = run[q] \/ run'[q].state # "running"
      BY <1>1, <2>2 DEF Close, TypeOK
    <2>3. CASE Pass(s)
      <3>1. run'[q] = run[q] \/ run'[q].state # "running"
        BY <1>1, <2>3 DEF Pass, TypeOK
      <3> QED BY <2>1, <2>3, <3>1 DEF Pass
    <2>4. CASE RetryTask(s)
      BY <1>1, <2>2, <2>4 DEF RetryTask, TypeOK
    <2>5. CASE GiveUp(s)
      BY <2>1, <2>2, <2>5 DEF GiveUp
    <2>6. CASE Return(s)
      BY <1>1, <2>2, <2>6 DEF Return, TypeOK
    <2> QED BY <1>4, <2>3, <2>4, <2>5, <2>6 DEF LaneStep
  <1>5. CASE SweepStep
    <2>1. lane' = lane /\ (run' = run \/ \E s \in Slot : SweepRun(s))
      BY <1>5 DEF SweepStep, SweepBegins, SweepLists, SweepEnds, SweepRun, SweepTask
    <2>2. ASSUME NEW s \in Slot, SweepRun(s) PROVE run'[q] = run[q] \/ run'[q].state # "running"
      BY <1>1, <2>2 DEF SweepRun, TypeOK
    <2> QED BY <2>1, <2>2
  <1>6. ASSUME NEW s \in Slot, Mute(s)
        PROVE  run' = run /\ (lane'[q] = lane[q] \/ lane'[q].muted)
    <2>1. lane[s] \in Lane
      BY <1>1 DEF TypeOK
    <2>2. run' = run /\ lane' = [lane EXCEPT ![s] = [lane[s] EXCEPT !.muted = TRUE]]
      BY <1>1, <1>6 DEF Mute, TypeOK
    <2>3. [lane[s] EXCEPT !.muted = TRUE].muted
      BY <2>1 DEF Lane
    <2> QED BY <1>1, <2>2, <2>3 DEF TypeOK
  <1>7. ASSUME NEW s \in Slot, CutLane(s)
        PROVE  /\ run'[q] = run[q] \/ run'[q].state # "running"
               /\ lane'[q] = lane[q] \/ lane'[q].phase # "executing"
    BY <1>1, <1>7 DEF CutLane, TypeOK
  <1>8. CASE CutSweep
    BY <1>8 DEF CutSweep
  <1>9. CASE Evict
    BY <1>1, <1>9 DEF Evict
  <1>10. CASE UNCHANGED vars
    BY <1>10 DEF vars
  <1> QED BY <1>2, <1>3, <1>4, <1>5, <1>6, <1>7, <1>8, <1>9, <1>10 DEF Other

\* What a Start changes of a run that was going on.
LEMMA StartRuns ==
  ASSUME IInv, NEW t \in Task, NEW a \in Agent, NEW s \in Slot, Start(t, a, s), NEW q \in Slot
  PROVE  /\ run[s].state # "running" /\ lane[s].phase = "over" /\ s \notin sweep.runs
         /\ q # s => lane'[q] = lane[q]
         /\ q # s /\ run'[q].state = "running" => run'[q] = run[q] /\ q \notin Running(t)
         /\ run'[q] # run[q] /\ run[q].state = "running" => stale(q)
         /\ run'[s].of = t /\ run'[s].beat = 0 /\ lane'[s].age = 0
  <1>1. TypeOK
    BY DEF IInv
  <1>2. Free(s) /\ \A r \in Running(t) : stale(r)
    BY DEF Start, FirstFree, Offered
  <1>3. run[s].state # "running" /\ lane[s].phase = "over" /\ s \notin sweep.runs
    BY <1>2, NoRunType, NoLaneType DEF Free
  <1>4. run' = [Closed(t) EXCEPT ![s] = [of |-> t, state |-> "running", beat |-> 0]]
    BY DEF Start
  <1>5. q # s => lane'[q] = lane[q]
    BY <1>1 DEF Start, TypeOK
  <1>6. q # s => run'[q] = Closed(t)[q]
    BY <1>1, <1>4, ClosedType
  <1>7. run'[s] = [of |-> t, state |-> "running", beat |-> 0]
    BY <1>1, <1>4, ClosedType
  <1>8. lane'[s].age = 0
    BY <1>1 DEF Start, TypeOK
  <1>9. run'[q] # run[q] /\ run[q].state = "running" => stale(q)
    <2>1. q \notin Running(t) => Closed(t)[q] = run[q]
      BY DEF Closed
    <2> QED BY <1>2, <1>3, <1>6, <2>1
  <1> QED BY <1>1, <1>3, <1>5, <1>6, <1>7, <1>8, <1>9, ClosedType

\* A Tick ends no run.
LEMMA TickRuns ==
  ASSUME IInv, Tick, NEW q \in Slot
  PROVE  run'[q].of = run[q].of /\ run'[q].state = run[q].state
  <1>1. run[q] \in Run
    BY DEF IInv, TypeOK
  <1>2. PICK b : run'[q] = IF run[q].state # "running" THEN run[q] ELSE [run[q] EXCEPT !.beat = b]
    BY DEF Tick
  <1> QED BY <1>1, <1>2 DEF Run

-----------------------------------------------------------------------------
\* One run per task.

LEMMA OneRunStep == IInv /\ OneRunPerTask /\ [Next]_vars => OneRunPerTask'
  <1> SUFFICES ASSUME IInv, OneRunPerTask, [Next]_vars,
                      NEW p \in Slot, NEW q \in Slot,
                      run'[p].state = "running", run'[q].state = "running",
                      run'[p].of = run'[q].of
               PROVE  p = q
    BY DEF OneRunPerTask
  <1>1. ASSUME NEW t \in Task, NEW a \in Agent, NEW s \in Slot, Start(t, a, s) PROVE p = q
    <2>1. CASE p = s /\ q # s
      <3>1. run'[q] = run[q] /\ q \notin Running(t) /\ run'[q].of = t
        BY <1>1, <2>1, StartRuns
      <3> QED BY <3>1 DEF Running
    <2>2. CASE q = s /\ p # s
      <3>1. run'[p] = run[p] /\ p \notin Running(t) /\ run'[p].of = t
        BY <1>1, <2>2, StartRuns
      <3> QED BY <3>1 DEF Running
    <2>3. CASE p # s /\ q # s
      <3>1. run'[p] = run[p] /\ run'[q] = run[q]
        BY <1>1, <2>3, StartRuns
      <3> QED BY <3>1 DEF OneRunPerTask
    <2> QED BY <2>1, <2>2, <2>3
  <1>2. CASE Tick
    <2>1. run[p].of = run[q].of /\ run[p].state = "running" /\ run[q].state = "running"
      BY <1>2, TickRuns
    <2> QED BY <2>1 DEF OneRunPerTask
  <1>3. CASE Other
    <2>1. run'[p] = run[p] /\ run'[q] = run[q]
      BY <1>3, OtherRuns
    <2> QED BY <2>1 DEF OneRunPerTask
  <1> QED BY <1>1, <1>2, <1>3, StepIs

\* However tasks were requeued, recovered or lost, two runs of one task are never
\* recorded as going on: claimNextTask refuses a task with a live run, and executeTask
\* closes a stale one before it records the next.
THEOREM OneRunPerTaskHolds == Spec => []OneRunPerTask
  <1>1. Init => OneRunPerTask
    BY NoRunType DEF Init, OneRunPerTask
  <1> QED BY <1>1, OneRunStep, SchedulerInvariant, PTL DEF Spec

-----------------------------------------------------------------------------
\* Completed tasks.

\* A row written for another task leaves this one alone.
LEMMA OtherTask ==
  ASSUME TypeOK, NEW t \in Task, NEW u, NEW row, task' = [task EXCEPT ![u] = row], u # t
  PROVE  task'[t] = task[t]
  BY DEF TypeOK

LEMMA CompletedStep ==
  ASSUME IInv, [Next]_vars, NEW t \in Task, task[t].state = "completed", ~Undoable(t)
  PROVE  task'[t].state = "completed"
  <1>1. TypeOK /\ TodoIsBlocked
    BY DEF IInv
  <1>2. ASSUME NEW u \in Task, AssignTask(u) PROVE task'[t] = task[t]
    <2>1. u # t
      BY <1>1, <1>2 DEF AssignTask, TodoIsBlocked
    <2> QED BY <1>1, <1>2, <2>1 DEF AssignTask, Assign, TypeOK
  <1>3. ASSUME NEW u \in Task, NEW a \in Agent, NEW s \in Slot, Start(u, a, s) PROVE task'[t] = task[t]
    <2>1. u # t
      BY <1>3 DEF Start, Offered, RUNNABLE
    <2> QED BY <1>1, <1>3, <2>1 DEF Start, TypeOK
  <1>4. ASSUME NEW u \in Task, NEW s \in Slot, StallFail(u, s) PROVE task'[t] = task[t]
    <2>1. u # t
      BY <1>4 DEF StallFail, Offered, RUNNABLE
    <2> QED BY <1>1, <1>4, <2>1 DEF StallFail, TypeOK
  <1>5. ASSUME NEW s \in Slot, LaneStep(s) PROVE task'[t] = task[t]
    <2>1. CASE Return(s)
      BY <2>1 DEF Return
    <2>2. CASE lane[s].phase = "executing" /\ (Pass(s) \/ RetryTask(s) \/ GiveUp(s))
      <3>1. run[s].of # t
        BY <2>2 DEF Undoable
      <3> QED BY <1>1, <2>2, <3>1 DEF Pass, RetryTask, GiveUp, TypeOK
    <2> QED BY <1>5, <2>1, <2>2 DEF LaneStep, Pass, RetryTask, GiveUp
  <1>6. CASE SweepStep
    <2>1. CASE SweepBegins \/ SweepLists \/ SweepEnds
      BY <2>1 DEF SweepBegins, SweepLists, SweepEnds
    <2>2. ASSUME NEW s \in Slot, SweepRun(s) PROVE task'[t] = task[t]
      <3>1. CASE task[sweep.of[s]].state \in TERMINAL
        BY <2>2, <3>1 DEF SweepRun
      <3>2. CASE task[sweep.of[s]].state \notin TERMINAL
        <4>1. sweep.of[s] # t
          BY <3>2 DEF TERMINAL
        <4>2. Requeue(sweep.of[s], task[sweep.of[s]])
          BY <2>2, <3>2 DEF SweepRun
        <4>3. \E row : task' = [task EXCEPT ![sweep.of[s]] = row]
          BY <4>2 DEF Requeue
        <4> QED BY <1>1, <4>1, <4>3, OtherTask
      <3> QED BY <3>1, <3>2
    <2>3. ASSUME NEW u \in Task, SweepTask(u) PROVE task'[t] = task[t]
      <3>1. u # t
        BY <2>3 DEF SweepTask, Undoable
      <3>2. \E row : task' = [task EXCEPT ![u] = row]
        BY <2>3 DEF SweepTask, Requeue
      <3> QED BY <1>1, <3>1, <3>2, OtherTask
    <2> QED BY <1>6, <2>1, <2>2, <2>3 DEF SweepStep
  <1>7. CASE Tick
    BY <1>7 DEF Tick, RUNNABLE, STUCK_STATES
  <1>8. ASSUME NEW s \in Slot, Mute(s) \/ CutLane(s) PROVE task'[t] = task[t]
    BY <1>8 DEF Mute, CutLane
  <1>9. CASE CutSweep \/ Evict
    BY <1>9 DEF CutSweep, Evict
  <1>10. CASE UNCHANGED vars
    BY <1>10 DEF vars
  <1> QED BY <1>2, <1>3, <1>4, <1>5, <1>6, <1>7, <1>8, <1>9, <1>10, StepIs DEF Other

\* Completion is final, but for the two writers that may still hold an older row of the
\* task: a recovery that listed it before, and the lane of another run of it.
THEOREM CompletedTasksAreKept == Spec => CompletedIsKept
  <1>1. IInv /\ [Next]_vars
          => [\A t \in Task : task[t].state = "completed" /\ ~Undoable(t)
                                => task'[t].state = "completed"]_vars
    BY CompletedStep
  <1> QED BY <1>1, SchedulerInvariant, PTL DEF Spec, CompletedIsKept

-----------------------------------------------------------------------------
\* Runs whose heartbeats are seen.

LEMMA SeenIsFresh ==
  ASSUME IInv, SeenOnTime, NEW q \in Slot, Seen(q)
  PROVE  ~stale(q)
  <1>1. lane[q].age \in Nat /\ run[q].beat = lane[q].age % Beat
    BY TimeAssumption DEF IInv, TypeOK, Lane, SeenOnTime
  <1>2. lane[q].age % Beat < Beat /\ lane[q].age % Beat \in Nat
    BY <1>1, TimeAssumption
  <1> QED BY <1>1, <1>2, TimeAssumption DEF stale

LEMMA SeenBefore ==
  ASSUME IInv, Other, NEW q \in Slot, Seen(q)'
  PROVE  Seen(q) /\ run'[q] = run[q] /\ lane'[q] = lane[q]
  <1>1. run'[q].state = "running" /\ lane'[q].phase = "executing" /\ ~lane'[q].muted
    BY DEF Seen
  <1>2. run'[q] = run[q] /\ lane'[q] = lane[q]
    BY <1>1, OtherRuns
  <1> QED BY <1>1, <1>2 DEF Seen

\* The timer and the heartbeat it writes grow old together.
LEMMA SeenTick ==
  ASSUME IInv, SeenOnTime, Tick, NEW q \in Slot, Seen(q)'
  PROVE  Seen(q) /\ run'[q].beat = lane'[q].age % Beat
  <1>1. lane[q] \in Lane /\ run[q] \in Run
    BY DEF IInv, TypeOK
  <1>2. lane'[q] = IF lane[q].phase = "executing" THEN [lane[q] EXCEPT !.age = @ + 1] ELSE lane[q]
    BY DEF Tick
  <1>3. Seen(q) /\ lane'[q].age = lane[q].age + 1
    <2>1. lane'[q].phase = lane[q].phase /\ lane'[q].muted = lane[q].muted
      BY <1>1, <1>2 DEF Lane
    <2>2. lane[q].phase = "executing" /\ ~lane[q].muted
      BY <2>1 DEF Seen
    <2>3. run[q].state = "running"
      BY TickRuns DEF Seen
    <2> QED BY <1>1, <1>2, <2>2, <2>3 DEF Seen, Lane
  <1> DEFINE a == lane[q].age
             b == run[q].beat
  <1>4. a \in Nat /\ Beat \in Nat \ {0} /\ b = a % Beat /\ b \in Nat /\ b + 1 <= Beat
    <2>1. a \in Nat /\ Beat \in Nat \ {0} /\ b = a % Beat
      BY <1>1, <1>3, TimeAssumption DEF Lane, SeenOnTime
    <2>2. a % Beat \in Nat /\ a % Beat < Beat
      BY <2>1
    <2> QED BY <2>1, <2>2
  <1>5. (a + 1) % Beat = IF b + 1 = Beat THEN 0 ELSE b + 1
    BY <1>4, CountModulo
  <1>6. Cap(b, Lease + 1) = b + 1
    <2>1. b < Lease + 1
      BY <1>4, TimeAssumption
    <2> QED BY <2>1 DEF Cap
  <1>7. run'[q].beat = Heartbeat(b + 1, a + 1)
    <2>1. run'[q] = [run[q] EXCEPT !.beat = Heartbeat(Cap(b, Lease + 1), a + 1)]
      BY <1>3 DEF Tick, Seen
    <2> QED BY <1>1, <1>6, <2>1 DEF Run
  <1>8. Heartbeat(b + 1, a + 1) = IF b + 1 = Beat THEN 0 ELSE b + 1
    <2>1. b + 1 = Beat => b + 1 >= Gap
      BY <1>4, TimeAssumption
    <2>2. (a + 1) % Beat = 0 <=> b + 1 = Beat
      BY <1>4, <1>5
    <2> QED BY <2>1, <2>2 DEF Heartbeat
  <1> HIDE DEF a, b
  <1>9. lane'[q].age = a + 1
    BY <1>3 DEF a
  <1> QED BY <1>3, <1>5, <1>7, <1>8, <1>9

LEMMA SeenOnTimeStep == IInv /\ SeenOnTime /\ [Next]_vars => SeenOnTime'
  <1> SUFFICES ASSUME IInv, SeenOnTime, [Next]_vars, NEW q \in Slot, Seen(q)'
               PROVE  run'[q].beat = lane'[q].age % Beat
    BY DEF SeenOnTime
  <1>1. ASSUME NEW t \in Task, NEW a \in Agent, NEW s \in Slot, Start(t, a, s)
        PROVE  run'[q].beat = lane'[q].age % Beat
    <2>1. CASE q = s
      <3>1. run'[q].beat = 0 /\ lane'[q].age = 0
        BY <1>1, <2>1, StartRuns
      <3>2. 0 % Beat = 0
        BY TimeAssumption
      <3> QED BY <3>1, <3>2
    <2>2. CASE q # s
      <3>1. run'[q] = run[q] /\ lane'[q] = lane[q]
        BY <1>1, <2>2, StartRuns DEF Seen
      <3> QED BY <3>1 DEF SeenOnTime, Seen
    <2> QED BY <2>1, <2>2
  <1>2. CASE Tick
    BY <1>2, SeenTick
  <1>3. CASE Other
    <2>1. Seen(q) /\ run'[q] = run[q] /\ lane'[q] = lane[q]
      BY <1>3, SeenBefore
    <2> QED BY <2>1 DEF SeenOnTime
  <1> QED BY <1>1, <1>2, <1>3, StepIs

\* What a recovery is about shrinks, but when it begins.
LEMMA SweepShrinks ==
  ASSUME IInv, Tick \/ Other \/ \E t \in Task, a \in Agent, s \in Slot : Start(t, a, s), ~SweepBegins
  PROVE  sweep'.runs \subseteq sweep.runs
  <1>1. TypeOK /\ NoSweep.runs = {}
    BY NoSweepType DEF IInv
  <1>2. ASSUME NEW s \in Slot, SweepRun(s) PROVE sweep'.runs \subseteq sweep.runs
    <2>1. PICK owes : sweep' = [sweep EXCEPT !.runs = @ \ {s}, !.of[s] = NoTask, !.owes = owes]
      BY <1>2 DEF SweepRun
    <2>2. sweep'.runs = sweep.runs \ {s}
      BY <1>1, <2>1 DEF TypeOK, Sweep
    <2> QED BY <2>2
  <1>3. ASSUME NEW t \in Task, SweepTask(t) PROVE sweep'.runs \subseteq sweep.runs
    <2>1. PICK owes : sweep' = [sweep EXCEPT !.listed = @ \ {t}, !.rows[t] = NoRow, !.owes = owes]
      BY <1>3 DEF SweepTask
    <2>2. sweep'.runs = sweep.runs
      BY <1>1, <2>1 DEF TypeOK, Sweep
    <2> QED BY <2>2
  <1>4. CASE SweepLists
    <2>1. PICK listed, rows : sweep' = NoSweep \/ sweep' = [NoSweep EXCEPT !.phase = "tasks", !.listed = listed, !.rows = rows]
      BY <1>4 DEF SweepLists
    <2>2. [NoSweep EXCEPT !.phase = "tasks", !.listed = listed, !.rows = rows].runs = {}
      BY <1>1, NoSweepType DEF Sweep
    <2> QED BY <1>1, <2>1, <2>2
  <1>5. CASE SweepEnds \/ CutSweep \/ Evict
    BY <1>1, <1>5 DEF SweepEnds, CutSweep, Evict
  <1>6. CASE sweep' = sweep
    BY <1>6
  <1> QED BY <1>2, <1>3, <1>4, <1>5, <1>6
          DEF Other, Tick, Start, AssignTask, StallFail, LaneStep, Pass, RetryTask, GiveUp, Return,
              SweepStep, Mute, CutLane, vars

LEMMA SweptNotSeenStep == IInv /\ SeenOnTime /\ SweptNotSeen /\ [Next]_vars => SweptNotSeen'
  <1> SUFFICES ASSUME IInv, SeenOnTime, SweptNotSeen, [Next]_vars,
                      NEW q \in Slot, q \in sweep'.runs, Seen(q)'
               PROVE  FALSE
    <2>1. IInv /\ [Next]_vars => sweep'.runs \subseteq Slot
      BY NextKeeps DEF IInv, TypeOK, Sweep
    <2> QED BY <2>1 DEF SweptNotSeen
  <1>1. sweep.runs \subseteq Slot /\ StaleRuns \subseteq Slot
    BY DEF IInv, TypeOK, Sweep, StaleRuns
  <1>2. CASE SweepBegins
    <2>1. NoSweep \in Sweep /\ sweep' = [NoSweep EXCEPT !.phase = "runs", !.runs = StaleRuns,
                 !.of = [s \in Slot |-> IF s \in StaleRuns THEN run[s].of ELSE NoTask]]
      BY <1>2, NoSweepType DEF SweepBegins
    <2>2. q \in StaleRuns
      BY <2>1 DEF Sweep
    <2>3. stale(q) /\ Seen(q)
      <3>1. UNCHANGED <<run, lane>>
        BY <1>2 DEF SweepBegins
      <3> QED BY <2>2, <3>1 DEF StaleRuns, Seen
    <2> QED BY <1>1, <2>2, <2>3, SeenIsFresh
  <1>3. CASE ~SweepBegins
    <2>1. q \in sweep.runs
      BY <1>3, SweepShrinks, StepIs
    <2>2. ASSUME NEW t \in Task, NEW a \in Agent, NEW s \in Slot, Start(t, a, s) PROVE Seen(q)
      <3>1. s # q /\ lane'[q] = lane[q] /\ run'[q] = run[q]
        BY <2>1, <2>2, StartRuns DEF Seen
      <3> QED BY <3>1 DEF Seen
    <2>3. ASSUME Tick PROVE Seen(q)
      BY <2>1, <2>3, SeenTick
    <2>4. ASSUME Other PROVE Seen(q)
      BY <2>1, <2>4, SeenBefore
    <2> QED BY <2>1, <2>2, <2>3, <2>4, StepIs DEF SweptNotSeen
  <1> QED BY <1>2, <1>3

LEMMA SeenInvariant == Spec => [](SeenOnTime /\ SweptNotSeen)
  <1>1. Init => SeenOnTime /\ SweptNotSeen
    BY NoRunType, NoSweepType DEF Init, SeenOnTime, SweptNotSeen, Seen
  <1> QED BY <1>1, SeenOnTimeStep, SweptNotSeenStep, SchedulerInvariant, PTL DEF Spec

LEMMA SeenRunStep ==
  ASSUME IInv, SeenOnTime, SweptNotSeen, [Next]_vars, NEW q \in Slot, Seen(q)
  PROVE  run'[q].state = "running" \/ lane'[q] # lane[q]
  <1>1. TypeOK /\ lane[q] \in Lane /\ NoLane.phase = "over" /\ ~stale(q)
    BY NoLaneType, SeenIsFresh DEF IInv, TypeOK
  <1>2. ASSUME NEW t \in Task, NEW a \in Agent, NEW s \in Slot, Start(t, a, s)
        PROVE  run'[q].state = "running"
    BY <1>1, <1>2, StartRuns DEF Seen
  <1>3. CASE Tick
    BY <1>3, TickRuns DEF Seen
  <1>4. ASSUME NEW s \in Slot, LaneStep(s)
        PROVE  run'[q] = run[q] \/ lane'[q] # lane[q]
    <2>1. ASSUME NEW phase \in {"completing", "failing"}, NEW owes, Over(s, phase, owes), q = s
          PROVE  lane'[q] # lane[q]
      <3>1. lane'[q] = [NoLane EXCEPT !.phase = phase, !.owes = owes, !.row = lane[s].row]
        BY <1>1, <2>1 DEF Over, TypeOK
      <3>2. [NoLane EXCEPT !.phase = phase, !.owes = owes, !.row = lane[s].row].phase = phase
        BY NoLaneType DEF Lane
      <3> QED BY <3>1, <3>2 DEF Seen
    <2>2. CASE q # s
      BY <1>1, <1>4, <2>2 DEF LaneStep, Pass, RetryTask, GiveUp, Return, Close, TypeOK
    <2>3. CASE q = s
      <3>1. CASE Pass(s)
        BY <2>1, <2>3, <3>1 DEF Pass
      <3>2. CASE GiveUp(s)
        BY <2>1, <2>3, <3>2 DEF GiveUp
      <3>3. CASE RetryTask(s) \/ Return(s)
        BY <1>1, <2>3, <3>3 DEF RetryTask, Return, Seen, TypeOK
      <3> QED BY <1>4, <3>1, <3>2, <3>3 DEF LaneStep
    <2> QED BY <2>2, <2>3
  <1>5. ASSUME NEW s \in Slot, SweepRun(s)
        PROVE  run'[q] = run[q]
    <2>1. s # q
      BY <1>5 DEF SweepRun, SweptNotSeen
    <2> QED BY <1>1, <1>5, <2>1 DEF SweepRun, TypeOK
  <1>6. ASSUME NEW s \in Slot, CutLane(s)
        PROVE  run'[q] = run[q]
    BY <1>1, <1>6 DEF CutLane, Seen, TypeOK
  <1>7. CASE Evict
    BY <1>7 DEF Evict, Seen
  <1>8. CASE run' = run
    BY <1>8 DEF Seen
  <1> QED BY <1>2, <1>3, <1>4, <1>5, <1>6, <1>7, <1>8, StepIs
          DEF Other, AssignTask, StallFail, SweepStep, SweepBegins, SweepLists, SweepEnds, SweepTask,
              Mute, CutSweep, vars, Seen

\* No recovery and no claim takes away the run of a lane that is executing and whose
\* heartbeats are seen, at any age and for any durations in the order the code has them
\* (gap, interval, lease): the timers leave no time at which such a run looks stale.
THEOREM LiveRunsAreKept == Spec => LiveRunIsKept
  <1>1. IInv /\ SeenOnTime /\ SweptNotSeen /\ [Next]_vars
          => [\A s \in Slot :
                run[s].state = "running" /\ lane[s].phase = "executing" /\ ~lane[s].muted
                  => run'[s].state = "running" \/ lane'[s] # lane[s]]_vars
    BY SeenRunStep DEF Seen
  <1> QED BY <1>1, SchedulerInvariant, SeenInvariant, PTL DEF Spec, LiveRunIsKept
=============================================================================
