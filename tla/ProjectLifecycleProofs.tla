----------------------- MODULE ProjectLifecycleProofs -----------------------
(***************************************************************************)
(* Proofs about ProjectLifecycle, along three inductive invariants.        *)
(* ParkedInv: between the command and the founder's decision no row that a *)
(* tick may act on has been started, no tick is past the lock, and the     *)
(* project is one that ticks pass over.  ChainInv: the gates are linked    *)
(* before one of them starts, and none is started, nor offered in a tick's *)
(* index as started, before all that it is behind is completed.  RestInv:  *)
(* nobody is at a delivered project, nor holds it as it was.               *)
(***************************************************************************)
EXTENDS ProjectLifecycle, TLAPS

-----------------------------------------------------------------------------
\* The operators of the pipeline.

LEMMA ConstantRows == GateType \subseteq Row /\ Work \subseteq Row /\ "qa" \in GateType
                        /\ "integrity" \in GateType
  <1>1. Len(GATES) \in 1..Len(GATES) /\ Len(GATES) - 1 \in 1..Len(GATES)
    BY GateAssumption
  <1> QED BY <1>1, GateAssumption DEF Row, GateType

\* Of the gates of a type, one is kept.
LEMMA KeptIsGate ==
  ASSUME NEW rows, NEW type, Gates(rows, type) # {}
  PROVE  Kept(rows, type) \in Gates(rows, type)
  <1> DEFINE G == Gates(rows, type)
             best == {t \in G : \A u \in G : Rank(rows[t]) <= Rank(rows[u])}
  <1>1. \A t : Rank(rows[t]) \in {0, 1, 2}
    BY DEF Rank
  <1>2. best # {}
    <2>1. CASE \E t \in G : Rank(rows[t]) = 0
      <3>1. PICK t \in G : Rank(rows[t]) = 0
        BY <2>1
      <3>2. t \in best
        BY <3>1, <1>1
      <3> QED BY <3>2
    <2>2. CASE (\A u \in G : Rank(rows[u]) # 0) /\ \E t \in G : Rank(rows[t]) = 1
      <3>1. PICK t \in G : Rank(rows[t]) = 1
        BY <2>2
      <3>2. t \in best
        BY <2>2, <3>1, <1>1
      <3> QED BY <3>2
    <2>3. CASE \A u \in G : Rank(rows[u]) \notin {0, 1}
      <3>1. PICK t \in G : TRUE
        OBVIOUS
      <3>2. t \in best
        BY <2>3, <3>1, <1>1
      <3> QED BY <3>2
    <2> QED BY <2>1, <2>2, <2>3
  <1>3. \E t \in best : type \in best => t = type
    BY <1>2
  <1>4. Kept(rows, type) = CHOOSE t \in best : type \in best => t = type
    BY DEF Kept
  <1>5. Kept(rows, type) \in best
    <2> HIDE DEF best
    <2> QED BY <1>3, <1>4
  <1> QED BY <1>5

\* What survives of the gates of a type is a row.
LEMMA SurvivorIsRow ==
  ASSUME NEW rows, NEW type \in GateType
  PROVE  Survivor(rows, type) \in Row
  <1>1. CASE Gates(rows, type) # {}
    BY <1>1, KeptIsGate DEF Survivor, Gates, Present
  <1>2. CASE Gates(rows, type) = {} /\ Raced(type) = {}
    BY <1>2, ConstantRows DEF Survivor
  <1>3. CASE Gates(rows, type) = {} /\ Raced(type) # {}
    <2> DEFINE Done(t) == \A u \in Raced(type) : task[u] \in Completed => task[t] \in Completed
    <2>1. \E t \in Raced(type) : Done(t)
      <3>1. CASE \E t \in Raced(type) : task[t] \in Completed
        BY <3>1
      <3>2. CASE ~\E t \in Raced(type) : task[t] \in Completed
        BY <3>2, <1>3
      <3> QED BY <3>1, <3>2
    <2>2. Survivor(rows, type) = CHOOSE t \in Raced(type) : Done(t)
      BY <1>3 DEF Survivor
    <2>3. Survivor(rows, type) \in Raced(type)
      <3> HIDE DEF Done
      <3> QED BY <2>1, <2>2
    <2> QED BY <2>3 DEF Raced, Gates, Present
  <1> QED BY <1>1, <1>2, <1>3

LEMMA PreviousAreRows ==
  ASSUME NEW rows, NEW type \in GateType
  PROVE  Previous(rows, type) \subseteq Row
  <1> DEFINE i == CHOOSE j \in 1..Len(GATES) : GATES[j] = type
  <1>1. i \in 1..Len(GATES) /\ GATES[i] = type
    <2>1. \E j \in 1..Len(GATES) : GATES[j] = type
      BY DEF GateType
    <2> QED BY <2>1
  <1>2. CASE i = 1
    BY <1>2, ConstantRows DEF Previous
  <1>3. CASE i # 1
    <2> HIDE DEF i
    <2>1. i - 1 \in 1..Len(GATES)
      BY <1>1, <1>3, GateAssumption
    <2>2. GATES[i - 1] \in GateType
      BY <2>1 DEF GateType
    <2>3. Survivor(rows, GATES[i - 1]) \in Row
      BY <2>2, SurvivorIsRow
    <2> QED BY <1>3, <2>3 DEF Previous, i
  <1> QED BY <1>2, <1>3

LEMMA NewDependsOnType ==
  ASSUME NEW rows, dependsOn \in [Row -> SUBSET Row]
  PROVE  NewDependsOn(rows) \in [Row -> SUBSET Row]
  <1> SUFFICES ASSUME NEW t \in Row
               PROVE  NewDependsOn(rows)[t] \subseteq Row
    BY DEF NewDependsOn
  <1>1. CASE t = "qa" \/ (t \in GateType /\ Missing(rows, t))
    BY <1>1, PreviousAreRows, ConstantRows DEF NewDependsOn
  <1>2. Rewired(rows, dependsOn[t]) \subseteq Row
    <2>1. \A d \in Duplicates(rows) : Kept(rows, typeOf(d)) \in Row
      <3> SUFFICES ASSUME NEW d \in Duplicates(rows)
                   PROVE  Kept(rows, typeOf(d)) \in Row
        OBVIOUS
      <3>1. d \in Gates(rows, typeOf(d))
        BY DEF Duplicates, Gates
      <3> QED BY <3>1, KeptIsGate DEF Gates, Present
    <2> QED BY <2>1 DEF Rewired
  <1> QED BY <1>1, <1>2, ConstantRows DEF NewDependsOn

-----------------------------------------------------------------------------
\* Types.

LEMMA SeenType ==
  ASSUME task \in [Row -> TaskState]
  PROVE  Seen \in [Row -> TaskState]
  BY DEF Seen, TaskState

LEMMA NoTickRowType == NoTickRow \in TickRow
  BY DEF NoTickRow, TickRow, NoRows, NoProject, Project, ProjectState, TaskState

LEMMA GoOnType ==
  ASSUME TypeOK, NEW k \in Tick, NEW next \in {"off", "swept"}, GoOn(k, next)
  PROVE  tick' \in [Tick -> TickRow] /\ holder' \in Tick \cup {NoTick}
  <1>1. tick \in [Tick -> TickRow] /\ holder \in Tick \cup {NoTick}
    BY DEF TypeOK
  <1>2. [tick[k] EXCEPT !.phase = next, !.then = "off"] \in TickRow
    BY <1>1 DEF TickRow
  <1>3. tick' = [tick EXCEPT ![k] = IF next = "off" THEN NoTickRow
                                    ELSE [tick[k] EXCEPT !.phase = next, !.then = "off"]]
    BY DEF GoOn
  <1>4. tick' \in [Tick -> TickRow]
    BY <1>1, <1>2, <1>3, NoTickRowType
  <1> QED BY <1>1, <1>4 DEF GoOn

LEMMA FaultType ==
  ASSUME faults \in 0..MaxFaults, Fault \/ UNCHANGED faults
  PROVE  faults' \in 0..MaxFaults
  BY BoundAssumption DEF Fault

LEMMA OfferedType ==
  ASSUME faults \in 0..MaxFaults, NEW tasks, NEW states, Offered(tasks, states)
  PROVE  faults' \in 0..MaxFaults
  BY FaultType DEF Offered

LEMMA RequeueType ==
  ASSUME NEW rows \in [Row -> TaskState], NEW set
  PROVE  Requeue(rows, set) \in [Row -> TaskState]
  BY DEF Requeue, TaskState

LEMMA FinalizedType ==
  ASSUME TypeOK, NEW k \in Tick, NEW state \in ProjectState, Finalized(k, state),
         NEW next \in {"off", "swept"}, GoOn(k, next),
         result' \in {"none", "failed"}, artifact' \in BOOLEAN, faults' \in 0..MaxFaults
  PROVE  TypeOK'
  BY GoOnType DEF TypeOK, Finalized, Project

LEMMA CrossedType ==
  ASSUME NEW t \in Row \ Work
  PROVE  Crossed(t) \subseteq Row
  <1> DEFINE i == CHOOSE j \in 1..Len(GATES) : GATES[j] = typeOf(t)
  <1>1. typeOf(t) \in GateType
    BY RowAssumption DEF typeOf, Row
  <1>2. i \in 1..Len(GATES)
    <2>1. \E j \in 1..Len(GATES) : GATES[j] = typeOf(t)
      BY <1>1 DEF GateType
    <2> QED BY <2>1
  <1>3. CASE i = 1
    BY <1>3, ConstantRows DEF Crossed
  <1>4. CASE i # 1
    <2> HIDE DEF i
    <2>1. i - 1 \in 1..Len(GATES)
      BY <1>2, <1>4, GateAssumption
    <2>2. GATES[i - 1] \in Row
      BY <2>1, ConstantRows DEF GateType
    <2> QED BY <1>4, <2>2 DEF Crossed, Row, i
  <1> QED BY <1>3, <1>4

LEMMA TypeInit == Init => TypeOK
  <1> SUFFICES ASSUME Init PROVE TypeOK
    OBVIOUS
  <1>1. tick \in [Tick -> TickRow] /\ holder \in Tick \cup {NoTick}
    BY NoTickRowType DEF Init
  <1>2. /\ command \in {"received", "acknowledged"}
        /\ project \in {NoProject, [state |-> "active", delivered |-> FALSE]}
        /\ task \in [Row -> TaskState]
        /\ dependsOn \in [Row -> SUBSET Row]
        /\ known \in SUBSET Row
    <2>1. CASE /\ command = "received" /\ project = NoProject
               /\ task = NoRows /\ dependsOn = [t \in Row |-> {}] /\ known = {}
      BY <2>1 DEF NoRows, TaskState
    <2>2. CASE /\ command = "acknowledged" /\ project = [state |-> "active", delivered |-> FALSE]
               /\ task = [t \in Row |-> IF t \in Work THEN "queued" ELSE "blocked"]
               /\ dependsOn = [t \in Row |-> IF t \in Work THEN {} ELSE Crossed(t)]
               /\ known = Row
      BY <2>2, CrossedType DEF TaskState
    <2> QED BY <2>1, <2>2 DEF Init
  <1>3. project \in Project
    <2>1. NoProject \in Project
      BY DEF Project, ProjectState, NoProject
    <2>2. [state |-> "active", delivered |-> FALSE] \in Project
      BY DEF Project, ProjectState
    <2> QED BY <1>2, <2>1, <2>2
  <1>4. /\ risk \in {"normal", "high", "critical"}
        /\ approval = "none" /\ result = "none" /\ artifact = FALSE
        /\ early = FALSE /\ cold = FALSE
    BY DEF Init
  <1>5. faults \in 0..MaxFaults /\ verdicts \in 0..MaxVerdicts
    BY BoundAssumption DEF Init
  <1> QED BY <1>1, <1>2, <1>3, <1>4, <1>5 DEF TypeOK

\* ensureProjectPipeline keeps the types.
LEMMA PipelineType ==
  ASSUME TypeOK, NEW rows \in [Row -> TaskState], ensureProjectPipeline(rows)
  PROVE  /\ project' \in Project
         /\ task' \in [Row -> TaskState]
         /\ dependsOn' \in [Row -> SUBSET Row]
         /\ known' \in SUBSET Row
         /\ faults' \in 0..MaxFaults
  <1> DEFINE created == {t \in GateType : Missing(rows, t)}
             ready == {t \in created : \A d \in Previous(rows, t) : Seen[d] \in Completed}
  <1> USE DEF TypeOK
  <1>1. CASE rows["qa"] = "absent"
    BY <1>1, BoundAssumption DEF ensureProjectPipeline
  <1>2. CASE rows["qa"] # "absent"
    <2>1. PICK states \in [created -> {"assigned", "blocked"}] :
            /\ Offered(ready, states)
            /\ task' = [t \in Row |->
                 IF t \in created THEN states[t]
                 ELSE IF t \in Duplicates(rows) THEN "cancelled"
                 ELSE IF t \in PutBack(rows) THEN rows[t]
                 ELSE task[t]]
      BY <1>2 DEF ensureProjectPipeline
    <2>2. task' \in [Row -> TaskState]
      <3>1. \A t \in created : states[t] \in TaskState
        BY <2>1 DEF TaskState
      <3>2. "cancelled" \in TaskState
        BY DEF TaskState
      <3> HIDE DEF created, ready
      <3> QED BY <2>1, <3>1, <3>2
    <2>3. faults' \in 0..MaxFaults
      BY <2>1, OfferedType
    <2>4. dependsOn' \in [Row -> SUBSET Row]
      BY <1>2, NewDependsOnType DEF ensureProjectPipeline
    <2>5. known' \in SUBSET Row
      BY <1>2, ConstantRows DEF ensureProjectPipeline
    <2>6. project' \in Project
      <3>1. [project EXCEPT !.state = "active"] \in Project
        BY DEF Project, ProjectState
      <3>2. project' \in {project, [project EXCEPT !.state = "active"]}
        BY <1>2 DEF ensureProjectPipeline
      <3> QED BY <3>1, <3>2
    <2> QED BY <2>2, <2>3, <2>4, <2>5, <2>6
  <1> QED BY <1>1, <1>2

\* The rows a tick has indexed, and those finalizeCommand reads.
LEMMA RowsType ==
  ASSUME TypeOK, NEW k \in Tick
  PROVE  tick[k].rows \in [Row -> TaskState] /\ Seen \in [Row -> TaskState]
  BY SeenType DEF TypeOK, TickRow

LEMMA TypeOfTickStarts ==
  ASSUME TypeOK, NEW k \in Tick, NEW orphans \in SUBSET Row, TickStarts(k, orphans)
  PROVE  TypeOK'
  <1> USE DEF TypeOK
  <1> DEFINE rows == IF AutoApproves THEN Requeue(task, Requeued) ELSE task
  <1>1. rows \in [Row -> TaskState]
    BY RequeueType
  <1>2. PICK over \in [orphans -> {"queued", "failed"}],
             states \in [ReadyBlocked(rows) -> {"assigned", "blocked"}] :
          /\ IF orphans = Orphans(rows) /\ \A t \in orphans : over[t] = "queued"
               THEN Offered(ReadyBlocked(rows), states) ELSE Fault
          /\ task' = [t \in Row |-> IF t \in orphans THEN over[t]
                                    ELSE IF t \in ReadyBlocked(rows) THEN states[t] ELSE rows[t]]
    BY DEF TickStarts
  <1>3. task' \in [Row -> TaskState]
    <2>1. /\ \A t \in orphans : over[t] \in TaskState
          /\ \A t \in ReadyBlocked(rows) : states[t] \in TaskState
      BY <1>2 DEF TaskState
    <2> HIDE DEF rows
    <2> QED BY <1>1, <1>2, <2>1
  <1>4. faults' \in 0..MaxFaults
    BY <1>2, OfferedType, FaultType
  <1>5. project' \in Project /\ approval' \in {"none", "pending", "approved", "rejected"}
    BY DEF TickStarts, Project, ProjectState
  <1>6. tick' \in [Tick -> TickRow]
    <2> DEFINE index == [t \in Row |-> IF t \in known THEN task'[t] ELSE "absent"]
    <2>1. index \in [Row -> TaskState]
      BY <1>3 DEF TaskState
    <2>2. [NoTickRow EXCEPT !.phase = "indexed", !.rows = index] \in TickRow
      <3> HIDE DEF index
      <3> QED BY <2>1, NoTickRowType DEF TickRow
    <2>3. tick' = [tick EXCEPT ![k] = [NoTickRow EXCEPT !.phase = "indexed", !.rows = index]]
      BY DEF TickStarts
    <2> HIDE DEF index
    <2> QED BY <2>2, <2>3
  <1> QED BY <1>3, <1>4, <1>5, <1>6 DEF TickStarts

LEMMA TypeOfFinalize ==
  ASSUME TypeOK, NEW k \in Tick,
         NotReady(k) \/ Finalize(k) \/ BuildDelivery(k) \/ CompleteProject(k) \/ DeliveryUnread(k)
  PROVE  TypeOK'
  <1>1. ASSUME NotReady(k) PROVE TypeOK'
    <2>1. PICK next \in {"off", "swept"} : GoOn(k, next)
      BY <1>1 DEF NotReady
    <2> QED BY <1>1, <2>1, GoOnType DEF NotReady, TypeOK
  <1>2. ASSUME Finalize(k) PROVE TypeOK'
    <2>1. PICK next \in {"off", "swept"}, state \in {"blocked", "failed", "completed"} :
            /\ Finalized(k, state) /\ GoOn(k, next)
            /\ result' \in {result, "failed"} /\ UNCHANGED <<artifact, faults>>
      BY <1>2 DEF Finalize
    <2>2. state \in ProjectState
      BY <2>1 DEF ProjectState
    <2> QED BY <2>1, <2>2, FinalizedType DEF TypeOK
  <1>3. ASSUME BuildDelivery(k) PROVE TypeOK'
    <2>1. PICK next \in {"off", "swept"} :
            tick' = [tick EXCEPT ![k].phase = "building", ![k].then = next]
      BY <1>3 DEF BuildDelivery
    <2>2. tick' \in [Tick -> TickRow]
      <3>1. [tick[k] EXCEPT !.phase = "building", !.then = next] \in TickRow
        BY DEF TypeOK, TickRow
      <3>2. tick' = [tick EXCEPT ![k] = [tick[k] EXCEPT !.phase = "building", !.then = next]]
        BY <2>1 DEF TypeOK, TickRow
      <3> QED BY <3>1, <3>2 DEF TypeOK
    <2> QED BY <1>3, <2>2 DEF BuildDelivery, TypeOK
  <1>4. ASSUME CompleteProject(k) PROVE TypeOK'
    <2>1. tick[k].then \in {"off", "swept"}
      BY DEF TypeOK, TickRow
    <2>2. tick' \in [Tick -> TickRow] /\ holder' \in Tick \cup {NoTick}
      BY <1>4, <2>1, GoOnType DEF CompleteProject
    <2>3. project' \in Project
      BY <1>4 DEF CompleteProject, Project, ProjectState
    <2> QED BY <1>4, <2>2, <2>3 DEF CompleteProject, TypeOK
  <1>5. ASSUME DeliveryUnread(k) PROVE TypeOK'
    <2>1. tick[k].then \in {"off", "swept"} /\ "failed" \in ProjectState
      BY DEF TypeOK, TickRow, ProjectState
    <2>2. faults' \in 0..MaxFaults
      BY <1>5, FaultType DEF DeliveryUnread, TypeOK
    <2> QED BY <1>5, <2>1, <2>2, FinalizedType DEF DeliveryUnread, TypeOK
  <1> QED BY <1>1, <1>2, <1>3, <1>4, <1>5

LEMMA TypeOfWork ==
  ASSUME TypeOK, NEW k \in Tick,
         Acquire(k) \/ TickEnds(k) \/ Enter(k) \/ TickCut(k)
         \/ \E t \in Row : Start(k, t) \/ Finish(k, t)
  PROVE  TypeOK'
  <1>1. ASSUME Acquire(k) PROVE TypeOK'
    <2>1. [tick[k] EXCEPT !.phase = "acquiring"] \in TickRow
      BY DEF TypeOK, TickRow
    <2>2. tick' \in [Tick -> TickRow] /\ early' \in BOOLEAN
      BY <1>1, <2>1 DEF Acquire, TypeOK
    <2> QED BY <1>1, <2>2 DEF Acquire, TypeOK
  <1>2. ASSUME TickEnds(k) PROVE TypeOK'
    BY <1>2, GoOnType DEF TickEnds, TypeOK
  <1>3. ASSUME Enter(k) PROVE TypeOK'
    <2>1. [tick[k] EXCEPT !.phase = "working", !.rows = NoRows] \in TickRow
      <3>1. NoRows \in [Row -> TaskState]
        BY DEF NoRows, TaskState
      <3> QED BY <3>1 DEF TypeOK, TickRow
    <2>2. tick' = [tick EXCEPT ![k] = [tick[k] EXCEPT !.phase = "working", !.rows = NoRows]]
      BY <1>3 DEF Enter, TypeOK, TickRow
    <2>3. tick' \in [Tick -> TickRow]
      BY <2>1, <2>2 DEF TypeOK
    <2>4. /\ project' \in Project
          /\ task' \in [Row -> TaskState]
          /\ dependsOn' \in [Row -> SUBSET Row]
          /\ known' \in SUBSET Row
          /\ faults' \in 0..MaxFaults
      BY <1>3, PipelineType, RowsType DEF Enter
    <2> QED BY <1>3, <2>3, <2>4 DEF Enter, TypeOK
  <1>4. ASSUME TickCut(k) PROVE TypeOK'
    BY <1>4, GoOnType, FaultType DEF TickCut, TypeOK
  <1>5. ASSUME NEW t \in Row, Start(k, t) PROVE TypeOK'
    <2>1. [tick[k] EXCEPT !.running = tick[k].running \cup {t}] \in TickRow
      BY DEF TypeOK, TickRow
    <2>2. tick' \in [Tick -> TickRow]
      BY <1>5, <2>1 DEF Start, TypeOK
    <2>3. task' \in [Row -> TaskState]
      BY <1>5 DEF Start, TypeOK, TaskState
    <2> QED BY <1>5, <2>2, <2>3 DEF Start, TypeOK
  <1>6. ASSUME NEW t \in Row, Finish(k, t) PROVE TypeOK'
    <2>1. [tick[k] EXCEPT !.running = tick[k].running \ {t}] \in TickRow
      BY DEF TypeOK, TickRow
    <2>2. tick' \in [Tick -> TickRow]
      BY <1>6, <2>1 DEF Finish, TypeOK
    <2>3. PICK outcome \in Outcome(t) :
            LET freed == IF outcome = "failed" THEN {}
                         ELSE {u \in In(Seen, {"blocked"}) :
                                 t \in dependsOn[u] /\ \A d \in dependsOn[u] \ {t} : Seen[d] \in Completed}
            IN \E states \in [freed -> {"assigned", "blocked"}] :
                 /\ Offered(freed, states)
                 /\ task' = [u \in Row |-> IF u = t THEN outcome
                                           ELSE IF u \in freed THEN states[u] ELSE task[u]]
      BY <1>6 DEF Finish
    <2> DEFINE freed == IF outcome = "failed" THEN {}
                        ELSE {u \in In(Seen, {"blocked"}) :
                                t \in dependsOn[u] /\ \A d \in dependsOn[u] \ {t} : Seen[d] \in Completed}
    <2>4. PICK states \in [freed -> {"assigned", "blocked"}] :
            /\ Offered(freed, states)
            /\ task' = [u \in Row |-> IF u = t THEN outcome
                                      ELSE IF u \in freed THEN states[u] ELSE task[u]]
      BY <2>3
    <2> HIDE DEF freed
    <2>5. task' \in [Row -> TaskState]
      BY <2>4 DEF Outcome, TypeOK, TaskState
    <2>6. faults' \in 0..MaxFaults
      BY <2>4, OfferedType DEF TypeOK
    <2> QED BY <1>6, <2>2, <2>5, <2>6 DEF Finish, TypeOK
  <1> QED BY <1>1, <1>2, <1>3, <1>4, <1>5, <1>6

LEMMA TypeOfCommand ==
  ASSUME TypeOK, QueueCommand \/ Acknowledge \/ CommandCut \/ Approve \/ Reject
  PROVE  TypeOK'
  <1>1. ASSUME QueueCommand PROVE TypeOK'
    <2>1. PICK states \in [Work -> {"assigned", "blocked"}] :
            /\ Offered(Work, states)
            /\ task' = [t \in Row |-> IF t \in Work THEN states[t]
                                      ELSE IF t = "qa" THEN "blocked" ELSE task[t]]
      BY <1>1 DEF QueueCommand
    <2>2. task' \in [Row -> TaskState]
      BY <2>1 DEF TypeOK, TaskState
    <2>3. faults' \in 0..MaxFaults
      BY <2>1, OfferedType DEF TypeOK
    <2>4. dependsOn' \in [Row -> SUBSET Row] /\ known' \in SUBSET Row
      BY <1>1, ConstantRows DEF QueueCommand, TypeOK
    <2>5. project' \in Project
      BY <1>1 DEF QueueCommand, Project, ProjectState
    <2> QED BY <1>1, <2>2, <2>3, <2>4, <2>5 DEF QueueCommand, TypeOK
  <1>2. ASSUME Acknowledge PROVE TypeOK'
    <2>1. [state |-> "awaiting_approval", delivered |-> FALSE] \in Project
      BY DEF Project, ProjectState
    <2>2. /\ project' \in {project, [state |-> "awaiting_approval", delivered |-> FALSE]}
          /\ approval' \in {approval, "pending"} /\ command' = "acknowledged"
      BY <1>2 DEF Acknowledge
    <2>3. project' \in Project /\ approval' \in {"none", "pending", "approved", "rejected"}
      BY <2>1, <2>2 DEF TypeOK
    <2> QED BY <1>2, <2>2, <2>3 DEF Acknowledge, TypeOK
  <1>3. ASSUME CommandCut PROVE TypeOK'
    BY <1>3, FaultType DEF CommandCut, TypeOK
  <1>4. ASSUME Approve PROVE TypeOK'
    <2>1. project' \in Project /\ task' \in [Row -> TaskState]
      BY <1>4, RequeueType DEF Approve, approveProject, Project, ProjectState, TypeOK
    <2>2. verdicts' \in 0..MaxVerdicts
      BY <1>4, BoundAssumption DEF Approve, TypeOK
    <2> QED BY <1>4, <2>1, <2>2 DEF Approve, TypeOK
  <1>5. ASSUME Reject PROVE TypeOK'
    <2>1. verdicts' \in 0..MaxVerdicts
      BY <1>5, BoundAssumption DEF Reject, TypeOK
    <2> QED BY <1>5, <2>1 DEF Reject, TypeOK
  <1> QED BY <1>1, <1>2, <1>3, <1>4, <1>5
LEMMA TypeOfRecovery ==
  ASSUME TypeOK, NEW k \in Tick,
         RecoveryLists(k) \/ Recover(k) \/ RecoverChain(k) \/ RetireChain(k)
  PROVE  TypeOK'
  <1>1. Recovered \in TickRow /\ [NoTickRow EXCEPT !.phase = "retiring"] \in TickRow
    BY NoTickRowType DEF Recovered, TickRow
  <1>2. tick[k].held \in Project /\ project \in Project /\ tick \in [Tick -> TickRow]
    BY DEF TypeOK, TickRow
  <1>3. \A row \in Project, state \in ProjectState : [row EXCEPT !.state = state] \in Project
    BY DEF Project
  <1>4. {"active", "queued", "failed", "completed"} \subseteq ProjectState
    BY DEF ProjectState
  <1>5. ASSUME RecoveryLists(k) PROVE TypeOK'
    <2>1. Found \in {"empty", "settled", "moving", "dead"}
      BY DEF Found
    <2>2. [NoTickRow EXCEPT !.phase = "listed", !.held = project, !.found = Found] \in TickRow
      <3> HIDE DEF Found
      <3> QED BY <1>2, <2>1, NoTickRowType DEF TickRow
    <2>3. tick' \in [Tick -> TickRow]
      BY <1>2, <1>5, <2>2 DEF RecoveryLists
    <2> QED BY <1>5, <2>3 DEF RecoveryLists, TypeOK
  <1>6. ASSUME Recover(k) PROVE TypeOK'
    <2>1. tick' = [tick EXCEPT ![k] = Recovered]
      BY <1>6 DEF Recover, Recovers
    <2>2. project' \in Project
      BY <1>2, <1>3, <1>4, <1>6 DEF Recover, Recovers
    <2> QED BY <1>1, <1>2, <1>6, <2>1, <2>2 DEF Recover, TypeOK
  <1>7. ASSUME RecoverChain(k) PROVE TypeOK'
    <2>1. project' \in Project
      BY <1>2, <1>3, <1>4, <1>7 DEF RecoverChain
    <2>2. task' \in [Row -> TaskState]
      BY <1>7, RequeueType DEF RecoverChain, TypeOK
    <2>3. tick' \in [Tick -> TickRow]
      BY <1>1, <1>2, <1>7 DEF RecoverChain
    <2> QED BY <1>7, <2>1, <2>2, <2>3 DEF RecoverChain, TypeOK
  <1>8. ASSUME RetireChain(k) PROVE TypeOK'
    <2>1. project' \in Project /\ faults' \in 0..MaxFaults
      BY <1>2, <1>3, <1>4, <1>8, FaultType DEF RetireChain, TypeOK
    <2>2. tick' \in [Tick -> TickRow]
      BY <1>1, <1>2, <1>8 DEF RetireChain
    <2> QED BY <1>8, <2>1, <2>2 DEF RetireChain, TypeOK
  <1> QED BY <1>5, <1>6, <1>7, <1>8

LEMMA TypeOfRest ==
  ASSUME TypeOK,
         NewIsolate \/ (\E rows \in SUBSET Row : RetireStaleWork(rows)) \/ UNCHANGED vars
  PROVE  TypeOK'
  <1>1. ASSUME NewIsolate PROVE TypeOK'
    <2>1. known' \in SUBSET Row /\ cold' \in BOOLEAN
      BY <1>1 DEF NewIsolate, Present, TypeOK
    <2>2. tick' \in [Tick -> TickRow] /\ holder' \in Tick \cup {NoTick}
      BY <1>1, NoTickRowType DEF NewIsolate
    <2>3. faults' \in 0..MaxFaults /\ command' \in {"received", "flushing", "acknowledged", "lost"}
      BY <1>1, FaultType DEF NewIsolate, TypeOK
    <2> QED BY <1>1, <2>1, <2>2, <2>3 DEF NewIsolate, TypeOK
  <1>2. ASSUME NEW rows \in SUBSET Row, RetireStaleWork(rows) PROVE TypeOK'
    <2>1. task' \in [Row -> TaskState]
      BY <1>2 DEF RetireStaleWork, TypeOK, TaskState
    <2>2. faults' \in 0..MaxFaults
      BY <1>2, FaultType DEF RetireStaleWork, TypeOK
    <2> QED BY <1>2, <2>1, <2>2 DEF RetireStaleWork, TypeOK
  <1>3. ASSUME UNCHANGED vars PROVE TypeOK'
    BY <1>3 DEF vars, TypeOK
  <1> QED BY <1>1, <1>2, <1>3

LEMMA TypeStep == TypeOK /\ [Next]_vars => TypeOK'
  <1> SUFFICES ASSUME TypeOK, [Next]_vars PROVE TypeOK'
    OBVIOUS
  <1>1. CASE CommandStep \/ CommandCut \/ Approve \/ Reject
    BY <1>1, TypeOfCommand DEF CommandStep
  <1>2. ASSUME NEW k \in Tick, RecoveryLists(k) \/ TickStep(k) \/ DeliveryUnread(k) \/ TickCut(k)
        PROVE  TypeOK'
    BY <1>2, TypeOfRecovery, TypeOfTickStarts, TypeOfFinalize, TypeOfWork DEF TickStep
  <1>3. ASSUME NEW k \in Tick, NEW t \in Row, Start(k, t) PROVE TypeOK'
    BY <1>3, TypeOfWork
  <1>4. CASE NewIsolate \/ (\E rows \in SUBSET Row : RetireStaleWork(rows)) \/ UNCHANGED vars
    BY <1>4, TypeOfRest
  <1> QED BY <1>1, <1>2, <1>3, <1>4 DEF Next

\* Every state of the project, its tasks, gates, approval and ticks is well formed: what a
\* tick or a recovery writes from rows it read earlier is still a row (scheduler.js,
\* pipeline-gates.js, maintenance.js).
THEOREM TypeCorrect == Spec => []TypeOK
  <1> QED BY TypeInit, TypeStep, PTL DEF Spec
-----------------------------------------------------------------------------
\* A command waits for the founder.

\* The command has not come, is being stored, or is parked, and no tick was early.
Waiting ==
  requiresApproval /\ ~early /\ (command \in {"received", "flushing"} \/ approval = "pending")

Started == {"working"} \cup Completed

\* An approval is asked for once the command is stored; what is critical only the founder
\* decides.
ApprovalIsAsked ==
  /\ approval # "none" => command = "acknowledged" /\ requiresApproval
  /\ approval # "none" /\ risk = "critical" /\ verdicts = 0 => approval = "pending"

NothingQueued ==
  command = "received" => project.state = "none" /\ \A k \in Tick : tick[k] = NoTickRow

\* A tick before the project's lock, whose index is older than any start.
Quiet(row) ==
  /\ row.phase \notin {"acquiring", "working", "building"}
  /\ row.running = {} /\ In(row.rows, Started) = {}

NothingStarted ==
  Waiting => In(task, Started) = {} /\ \A k \in Tick : Quiet(tick[k])

\* A recovery that found the chain dead before the command was parked may fail it still.
ProjectIsParked ==
  approval = "pending" /\ ~early => project.state \in {"awaiting_approval", "failed"}

Parked == ApprovalIsAsked /\ NothingQueued /\ NothingStarted /\ ProjectIsParked

ParkedInv == TypeOK /\ Parked

LEMMA NotStarted ==
  /\ {"absent", "queued", "assigned", "failed", "retired", "blocked", "cancelled"}
       \cap Started = {}
  /\ Quiet(NoTickRow)
  BY DEF Started, Completed, Quiet, NoTickRow, NoRows, In

LEMMA RequeueStartsNone ==
  ASSUME NEW rows \in [Row -> TaskState], In(rows, Started) = {}, NEW set
  PROVE  In(Requeue(rows, set), Started) = {}
  BY NotStarted DEF In, Requeue

\* What a step of a tick has to show.
LEMMA TickKeepsParked ==
  ASSUME Parked, UNCHANGED <<command, risk, approval, verdicts>>, early => early',
         command # "received",
         Waiting /\ ~early' => In(task', Started) = {} /\ \A j \in Tick : Quiet(tick'[j]),
         approval = "pending" /\ ~early => project'.state \in {"awaiting_approval", "failed"}
  PROVE  Parked'
  <1>1. requiresApproval' = requiresApproval
    BY DEF requiresApproval
  <1>2. ApprovalIsAsked' /\ NothingQueued'
    BY <1>1 DEF Parked, ApprovalIsAsked, NothingQueued
  <1>3. NothingStarted'
    <2>1. Waiting' => Waiting /\ ~early'
      BY <1>1 DEF Waiting
    <2>2. \A j \in Tick : Quiet(tick[j])' <=> Quiet(tick'[j])
      BY DEF Quiet, In
    <2>3. In(task, Started)' = In(task', Started)
      BY DEF In
    <2> QED BY <2>1, <2>2, <2>3 DEF NothingStarted
  <1>4. ProjectIsParked'
    BY DEF Parked, ProjectIsParked
  <1> QED BY <1>2, <1>3, <1>4 DEF Parked

\* A tick goes on as one before the lock.
LEMMA QuietTicks ==
  ASSUME TypeOK, NEW k \in Tick, NEW row, Quiet(row), tick' = [tick EXCEPT ![k] = row],
         \A j \in Tick : Quiet(tick[j])
  PROVE  \A j \in Tick : Quiet(tick'[j])
  <1> SUFFICES ASSUME NEW j \in Tick PROVE Quiet(tick'[j])
    OBVIOUS
  <1>1. tick'[j] \in {row, tick[j]}
    BY DEF TypeOK
  <1> QED BY <1>1

LEMMA QuietGoOn ==
  ASSUME TypeOK, NEW k \in Tick, NEW next \in {"off", "swept"}, GoOn(k, next),
         \A j \in Tick : Quiet(tick[j])
  PROVE  \A j \in Tick : Quiet(tick'[j])
  <1> DEFINE row == IF next = "off" THEN NoTickRow
                    ELSE [tick[k] EXCEPT !.phase = next, !.then = "off"]
  <1>1. tick' = [tick EXCEPT ![k] = row]
    BY DEF GoOn
  <1>2. Quiet(row)
    <2>1. CASE next = "off"
      BY <2>1, NotStarted
    <2>2. CASE next = "swept"
      <3>1. tick[k] \in TickRow
        BY DEF TypeOK
      <3> QED BY <2>2, <3>1 DEF Quiet, TickRow
    <2> QED BY <2>1, <2>2
  <1> HIDE DEF row
  <1> QED BY <1>1, <1>2, QuietTicks

LEMMA ParkedInit == Init => Parked
  <1> SUFFICES ASSUME Init PROVE Parked
    OBVIOUS
  <1>1. approval = "none" /\ \A k \in Tick : tick[k] = NoTickRow
    BY DEF Init
  <1>2. command = "received" => project.state = "none" /\ task = NoRows
    BY DEF Init, NoProject
  <1>3. command = "received" \/ ~requiresApproval
    BY DEF Init, requiresApproval
  <1>4. ApprovalIsAsked /\ ProjectIsParked
    BY <1>1 DEF ApprovalIsAsked, ProjectIsParked
  <1>5. NothingQueued
    BY <1>1, <1>2 DEF NothingQueued
  <1>6. In(NoRows, Started) = {}
    BY NotStarted DEF In, NoRows
  <1>7. NothingStarted
    BY <1>1, <1>2, <1>3, <1>6, NotStarted DEF NothingStarted, Waiting
  <1> QED BY <1>4, <1>5, <1>7 DEF Parked

LEMMA ParkedCommand ==
  ASSUME ParkedInv, QueueCommand \/ Acknowledge \/ CommandCut \/ Approve \/ Reject
  PROVE  Parked'
  <1> USE DEF ParkedInv
  <1>1. requiresApproval' = requiresApproval /\ early' = early /\ tick' = tick
    BY DEF QueueCommand, Acknowledge, CommandCut, Approve, Reject, requiresApproval
  <1>2. \A j \in Tick : Quiet(tick[j])' <=> Quiet(tick[j])
    BY <1>1 DEF Quiet, In
  <1>3. ASSUME QueueCommand PROVE Parked'
    <2>1. approval = "none" /\ approval' = "none" /\ command' = "flushing"
      BY <1>3 DEF QueueCommand, Parked, ApprovalIsAsked
    <2>2. Waiting' => Waiting
      BY <1>1, <1>3 DEF Waiting, QueueCommand
    <2>3. Waiting => In(task, Started)' = {}
      <3> SUFFICES ASSUME Waiting PROVE In(task', Started) = {}
        BY DEF In
      <3>1. PICK states \in [Work -> {"assigned", "blocked"}] :
              task' = [t \in Row |-> IF t \in Work THEN states[t]
                                     ELSE IF t = "qa" THEN "blocked" ELSE task[t]]
        BY <1>3 DEF QueueCommand
      <3>2. \A t \in Row : task[t] \notin Started
        BY DEF Parked, NothingStarted, In
      <3>3. \A t \in Row : task'[t] \notin Started
        BY <3>1, <3>2, NotStarted
      <3> QED BY <3>3 DEF In
    <2>4. NothingStarted'
      BY <1>2, <2>2, <2>3 DEF Parked, NothingStarted
    <2> QED BY <2>1, <2>4 DEF Parked, ApprovalIsAsked, NothingQueued, ProjectIsParked
  <1>4. ASSUME Acknowledge PROVE Parked'
    <2>1. approval = "none" /\ command = "flushing" /\ command' = "acknowledged" /\ task' = task
      BY <1>4 DEF Acknowledge, Parked, ApprovalIsAsked
    <2>2. CASE requiresApproval
      <3>1. approval' = "pending" /\ project'.state = "awaiting_approval"
        BY <1>4, <2>2 DEF Acknowledge
      <3>2. NothingStarted'
        BY <1>1, <1>2, <2>1, <2>2 DEF Parked, NothingStarted, Waiting, In
      <3> QED BY <1>1, <2>1, <2>2, <3>1, <3>2
            DEF Parked, ApprovalIsAsked, NothingQueued, ProjectIsParked
    <2>3. CASE ~requiresApproval
      <3>1. approval' = "none"
        BY <1>4, <2>1, <2>3 DEF Acknowledge
      <3> QED BY <1>1, <2>1, <2>3, <3>1
            DEF Parked, ApprovalIsAsked, NothingQueued, NothingStarted, ProjectIsParked, Waiting
    <2> QED BY <2>2, <2>3
  <1>5. ASSUME CommandCut PROVE Parked'
    <2>1. approval' = "none" /\ command' = "lost"
      BY <1>5 DEF CommandCut, Parked, ApprovalIsAsked
    <2> QED BY <2>1
          DEF Parked, ApprovalIsAsked, NothingQueued, NothingStarted, ProjectIsParked, Waiting
  <1>6. ASSUME Approve \/ Reject PROVE Parked'
    <2>1. /\ approval' \in {"approved", "rejected"} /\ command' = "acknowledged"
          /\ requiresApproval'
      BY <1>1, <1>6 DEF Approve, Reject, Parked, ApprovalIsAsked
    <2>2. verdicts' # 0
      BY <1>6 DEF Approve, Reject, TypeOK
    <2> QED BY <2>1, <2>2
          DEF Parked, ApprovalIsAsked, NothingQueued, NothingStarted, ProjectIsParked, Waiting
  <1> QED BY <1>3, <1>4, <1>5, <1>6

LEMMA ParkedTickStarts ==
  ASSUME ParkedInv, NEW k \in Tick, NEW orphans \in SUBSET Row, TickStarts(k, orphans)
  PROVE  Parked'
  <1> USE DEF ParkedInv
  <1>1. UNCHANGED <<command, risk, verdicts, early>> /\ command # "received"
    BY DEF TickStarts
  <1>2. CASE AutoApproves
    <2>1. /\ approval' = "approved" /\ command' = "acknowledged" /\ risk' = "high"
      BY <1>1, <1>2 DEF TickStarts, AutoApproves, Parked, ApprovalIsAsked
    <2> QED BY <2>1 DEF Parked, ApprovalIsAsked, NothingQueued, NothingStarted,
                        ProjectIsParked, Waiting, requiresApproval
  <1>3. CASE ~AutoApproves
    <2>1. UNCHANGED <<approval, project>>
      BY <1>3 DEF TickStarts
    <2>2. ASSUME Waiting
          PROVE  In(task', Started) = {} /\ \A j \in Tick : Quiet(tick'[j])
      <3>1. PICK over \in [orphans -> {"queued", "failed"}],
                 states \in [ReadyBlocked(task) -> {"assigned", "blocked"}] :
              task' = [t \in Row |-> IF t \in orphans THEN over[t]
                        ELSE IF t \in ReadyBlocked(task) THEN states[t] ELSE task[t]]
        BY <1>3 DEF TickStarts
      <3>2. \A t \in Row : task[t] \notin Started
        BY <2>2 DEF Parked, NothingStarted, In
      <3>3. \A t \in Row : task'[t] \notin Started
        BY <3>1, <3>2, NotStarted
      <3> DEFINE index == [t \in Row |-> IF t \in known THEN task'[t] ELSE "absent"]
                 row == [NoTickRow EXCEPT !.phase = "indexed", !.rows = index]
      <3>4. In(index, Started) = {}
        BY <3>3, NotStarted DEF In
      <3>5. Quiet(row)
        <4> HIDE DEF index
        <4> QED BY <3>4 DEF Quiet, NoTickRow
      <3>6. tick' = [tick EXCEPT ![k] = row]
        BY DEF TickStarts
      <3>7. \A j \in Tick : Quiet(tick'[j])
        <4> HIDE DEF row
        <4> QED BY <2>2, <3>5, <3>6, QuietTicks DEF Parked, NothingStarted
      <3> QED BY <3>3, <3>7 DEF In
    <2> QED BY <1>1, <2>1, <2>2, TickKeepsParked DEF Parked, ProjectIsParked
  <1> QED BY <1>2, <1>3

\* No tick finalizes a project while its command waits.
LEMMA NotComplete ==
  ASSUME ParkedInv, Waiting, NEW k \in Tick
  PROVE  ~IsComplete(tick[k].rows) /\ ~IsComplete(Seen)
  <1>1. In(tick[k].rows, Started) = {} /\ In(task, Started) = {}
    BY DEF ParkedInv, Parked, NothingStarted, Quiet
  <1>2. In(Seen, Started) = {}
    BY <1>1, NotStarted DEF In, Seen
  <1>3. \A rows : In(rows, Started) = {} => "qa" \notin In(rows, Completed)
    BY DEF In, Started
  <1> QED BY <1>1, <1>2, <1>3 DEF IsComplete

LEMMA ParkedFinalize ==
  ASSUME ParkedInv, NEW k \in Tick,
         NotReady(k) \/ Finalize(k) \/ BuildDelivery(k) \/ CompleteProject(k) \/ DeliveryUnread(k)
  PROVE  Parked'
  <1> USE DEF ParkedInv
  <1>1. UNCHANGED <<command, risk, approval, verdicts, early, task>>
    BY DEF NotReady, Finalize, BuildDelivery, CompleteProject, DeliveryUnread, Finalized
  <1>2. command # "received"
    <2>1. tick[k].phase # "off"
      BY DEF NotReady, Finalize, BuildDelivery, CompleteProject, DeliveryUnread, Finalizing
    <2> QED BY <2>1 DEF Parked, NothingQueued, NoTickRow
  <1>3. Waiting => In(task', Started) = {}
    BY <1>1 DEF Parked, NothingStarted
  <1>4. ASSUME Waiting
        PROVE  \A j \in Tick : Quiet(tick'[j])
    <2>1. \A j \in Tick : Quiet(tick[j])
      BY <1>4 DEF Parked, NothingStarted
    <2>2. ~BuildDelivery(k)
      BY <1>4, NotComplete DEF BuildDelivery
    <2>3. ~CompleteProject(k) /\ ~DeliveryUnread(k)
      BY <2>1 DEF Quiet, CompleteProject, DeliveryUnread
    <2>4. PICK next \in {"off", "swept"} : GoOn(k, next)
      BY <2>2, <2>3 DEF NotReady, Finalize
    <2> QED BY <2>1, <2>4, QuietGoOn
  <1>5. ASSUME approval = "pending", ~early
        PROVE  project' = project
    <2>1. Waiting
      BY <1>5 DEF Waiting, Parked, ApprovalIsAsked
    <2>2. Quiet(tick[k]) /\ project.state \in {"awaiting_approval", "failed"}
      BY <1>5, <2>1 DEF Parked, NothingStarted, ProjectIsParked
    <2>3. ~CompleteProject(k) /\ ~DeliveryUnread(k)
      BY <2>2 DEF Quiet, CompleteProject, DeliveryUnread
    <2>4. ~Finalize(k)
      BY <2>2 DEF Finalize, Finalizing, InSweep, Quiet
    <2> QED BY <2>3, <2>4 DEF NotReady, BuildDelivery
  <1> QED BY <1>1, <1>2, <1>3, <1>4, <1>5, TickKeepsParked DEF Parked, ProjectIsParked

LEMMA ParkedWork ==
  ASSUME ParkedInv, NEW k \in Tick,
         Acquire(k) \/ TickEnds(k) \/ Enter(k) \/ TickCut(k)
         \/ \E t \in Row : Start(k, t) \/ Finish(k, t)
  PROVE  Parked'
  <1> USE DEF ParkedInv
  <1>1. UNCHANGED <<command, risk, approval, verdicts>> /\ (early => early')
    <2>1. UNCHANGED <<command, risk, approval, verdicts>>
      BY DEF Acquire, TickEnds, Enter, TickCut, Start, Finish
    <2>2. ASSUME Acquire(k) PROVE early => early'
      BY <2>2 DEF Acquire
    <2>3. ASSUME ~Acquire(k) PROVE early' = early
      BY <2>3 DEF TickEnds, Enter, TickCut, Start, Finish
    <2> QED BY <2>1, <2>2, <2>3
  <1>2. tick[k].phase # "off" \/ tick[k].running # {}
    BY DEF Acquire, TickEnds, Enter, TickCut, Start, Finish
  <1>3. command # "received"
    BY <1>2 DEF Parked, NothingQueued, NoTickRow
  <1>4. ASSUME Waiting, ~early'
        PROVE  /\ UNCHANGED <<task, project>> /\ \A j \in Tick : Quiet(tick'[j])
    <2>1. \A j \in Tick : Quiet(tick[j])
      BY <1>4 DEF Parked, NothingStarted
    <2>2. ~Enter(k) /\ \A t \in Row : ~Start(k, t) /\ ~Finish(k, t)
      BY <2>1 DEF Quiet, Enter, Start, Finish
    <2>3. ~Acquire(k)
      <3>1. CASE command = "flushing"
        BY <1>4, <3>1 DEF Acquire, Waiting
      <3>2. CASE approval = "pending"
        BY <1>1, <1>4, <3>2 DEF Parked, ProjectIsParked, Acquire, Workable
      <3> QED BY <1>3, <1>4, <3>1, <3>2 DEF Waiting
    <2>4. GoOn(k, "off") /\ UNCHANGED <<task, project>>
      BY <2>2, <2>3 DEF TickEnds, TickCut
    <2> QED BY <2>1, <2>4, QuietGoOn
  <1>5. approval = "pending" /\ ~early => project'.state \in {"awaiting_approval", "failed"}
    <2> SUFFICES ASSUME approval = "pending", ~early
                 PROVE  project' = project
      BY DEF Parked, ProjectIsParked
    <2>1. Waiting
      BY DEF Waiting, Parked, ApprovalIsAsked
    <2>2. Quiet(tick[k])
      BY <2>1 DEF Parked, NothingStarted
    <2> QED BY <2>2 DEF Quiet, Acquire, TickEnds, Enter, TickCut, Start, Finish
  <1>6. Waiting /\ ~early' => In(task', Started) = {}
    BY <1>4 DEF Parked, NothingStarted
  <1> QED BY <1>1, <1>3, <1>4, <1>5, <1>6, TickKeepsParked

LEMMA ParkedRecovery ==
  ASSUME ParkedInv, NEW k \in Tick,
         RecoveryLists(k) \/ Recover(k) \/ RecoverChain(k) \/ RetireChain(k)
  PROVE  Parked'
  <1> USE DEF ParkedInv
  <1>1. UNCHANGED <<command, risk, approval, verdicts, early>>
    BY DEF RecoveryLists, Recover, RecoverChain, RetireChain
  <1>2. command # "received"
    <2>1. tick[k].phase # "off" \/ project.state # "none"
      BY DEF RecoveryLists, Recover, RecoverChain, RetireChain, ACTIVE_PROJECT_STATES
    <2> QED BY <2>1 DEF Parked, NothingQueued, NoTickRow
  <1>3. In(task, Started) = {} => In(task', Started) = {}
    <2>1. task' \in {task, Requeue(task, Requeued)}
      BY DEF RecoveryLists, Recover, RecoverChain, RetireChain
    <2> QED BY <2>1, RequeueStartsNone DEF TypeOK
  <1>4. ASSUME Waiting
        PROVE  \A j \in Tick : Quiet(tick'[j])
    <2> DEFINE listed == [NoTickRow EXCEPT !.phase = "listed", !.held = project, !.found = Found]
               retiring == [NoTickRow EXCEPT !.phase = "retiring"]
    <2>1. Quiet(listed) /\ Quiet(retiring) /\ Quiet(Recovered)
      BY NotStarted DEF Quiet, NoTickRow, Recovered
    <2>2. \/ tick' = [tick EXCEPT ![k] = listed] \/ tick' = [tick EXCEPT ![k] = retiring]
          \/ tick' = [tick EXCEPT ![k] = Recovered]
      BY DEF RecoveryLists, Recover, Recovers, RecoverChain, RetireChain
    <2>3. \A j \in Tick : Quiet(tick[j])
      BY <1>4 DEF Parked, NothingStarted
    <2> HIDE DEF listed, retiring
    <2> QED BY <2>1, <2>2, <2>3, QuietTicks
  <1>5. approval = "pending" => project' = project \/ project'.state = "failed"
    <2> SUFFICES ASSUME approval = "pending"
                 PROVE  project' = project \/ project'.state = "failed"
      OBVIOUS
    <2>1. ~RecoverChain(k)
      BY DEF RecoverChain, Waits
    <2>2. RetireChain(k) => project' = project \/ project'.state = "failed"
      BY DEF RetireChain, TypeOK, Project
    <2>3. RecoveryLists(k) \/ Recover(k) => project' = project
      BY DEF RecoveryLists, Recover, Waits
    <2> QED BY <2>1, <2>2, <2>3
  <1>6. Waiting => In(task', Started) = {}
    BY <1>3 DEF Parked, NothingStarted
  <1>7. approval = "pending" /\ ~early => project'.state \in {"awaiting_approval", "failed"}
    BY <1>5 DEF Parked, ProjectIsParked
  <1> QED BY <1>1, <1>2, <1>4, <1>6, <1>7, TickKeepsParked

LEMMA ParkedRest ==
  ASSUME ParkedInv,
         NewIsolate \/ (\E rows \in SUBSET Row : RetireStaleWork(rows)) \/ UNCHANGED vars
  PROVE  Parked'
  <1> USE DEF ParkedInv
  <1>1. ASSUME NewIsolate PROVE Parked'
    <2>1. /\ UNCHANGED <<risk, approval, project, task, early, verdicts>>
          /\ \A j \in Tick : tick'[j] = NoTickRow
          /\ command' = IF command = "flushing" THEN "lost" ELSE command
          /\ requiresApproval' = requiresApproval
      BY <1>1 DEF NewIsolate, requiresApproval
    <2>2. ApprovalIsAsked' /\ NothingQueued' /\ ProjectIsParked'
      BY <2>1 DEF Parked, ApprovalIsAsked, NothingQueued, ProjectIsParked
    <2>3. Waiting' => Waiting
      BY <2>1 DEF Waiting
    <2>4. \A j \in Tick : Quiet(tick[j])'
      BY <2>1, NotStarted DEF Quiet, In
    <2>5. In(task, Started)' = In(task, Started)
      BY <2>1 DEF In
    <2>6. NothingStarted'
      BY <2>3, <2>4, <2>5 DEF Parked, NothingStarted
    <2> QED BY <2>2, <2>6 DEF Parked
  <1>2. ASSUME NEW rows \in SUBSET Row, RetireStaleWork(rows) PROVE Parked'
    <2>1. /\ UNCHANGED <<command, risk, approval, project, tick, early, verdicts>>
          /\ requiresApproval' = requiresApproval
          /\ task' = [t \in Row |-> IF t \in rows THEN "retired" ELSE task[t]]
      BY <1>2 DEF RetireStaleWork, requiresApproval
    <2>2. ApprovalIsAsked' /\ NothingQueued' /\ ProjectIsParked'
      BY <2>1 DEF Parked, ApprovalIsAsked, NothingQueued, ProjectIsParked
    <2>3. In(task, Started) = {} => In(task, Started)' = {}
      BY <2>1, NotStarted DEF In
    <2>4. (Waiting' <=> Waiting) /\ \A j \in Tick : Quiet(tick[j])' <=> Quiet(tick[j])
      BY <2>1 DEF Waiting, Quiet, In
    <2>5. NothingStarted'
      BY <2>3, <2>4 DEF Parked, NothingStarted
    <2> QED BY <2>2, <2>5 DEF Parked
  <1>3. ASSUME UNCHANGED vars PROVE Parked'
    BY <1>3 DEF vars, Parked, ApprovalIsAsked, NothingQueued, NothingStarted, ProjectIsParked,
                Waiting, requiresApproval, Quiet, In
  <1> QED BY <1>1, <1>2, <1>3

LEMMA ParkedStep == ParkedInv /\ [Next]_vars => ParkedInv'
  <1> SUFFICES ASSUME ParkedInv, [Next]_vars PROVE ParkedInv'
    OBVIOUS
  <1>1. TypeOK'
    BY TypeStep DEF ParkedInv
  <1>2. CASE CommandStep \/ CommandCut \/ Approve \/ Reject
    BY <1>1, <1>2, ParkedCommand DEF CommandStep, ParkedInv
  <1>3. ASSUME NEW k \in Tick, RecoveryLists(k) \/ TickStep(k) \/ DeliveryUnread(k) \/ TickCut(k)
        PROVE  ParkedInv'
    BY <1>1, <1>3, ParkedRecovery, ParkedTickStarts, ParkedFinalize, ParkedWork
       DEF TickStep, ParkedInv
  <1>4. ASSUME NEW k \in Tick, NEW t \in Row, Start(k, t) PROVE ParkedInv'
    BY <1>1, <1>4, ParkedWork DEF ParkedInv
  <1>5. CASE NewIsolate \/ (\E rows \in SUBSET Row : RetireStaleWork(rows)) \/ UNCHANGED vars
    BY <1>1, <1>5, ParkedRest DEF ParkedInv
  <1> QED BY <1>2, <1>3, <1>4, <1>5 DEF Next

\* What keeps a command parked: see the parts of ParkedInv.
THEOREM ParkedInvariant == Spec => []ParkedInv
  <1>1. Init => ParkedInv
    BY TypeInit, ParkedInit DEF ParkedInv
  <1> QED BY <1>1, ParkedStep, PTL DEF Spec

\* While the founder's decision is awaited no task has run, if no tick took the project up
\* before the command was parked; and a critical command awaits it until the founder, not a
\* tick, decides: for any tasks, gates, ticks, faults and restarts (orchestrator.js,
\* governance.js, scheduler.js, maintenance.js).
THEOREM ParkedCommandsWaitHolds == Spec => []ParkedCommandsWait
  <1>1. ParkedInv => ParkedCommandsWait
    <2> SUFFICES ASSUME ParkedInv, ~early,
                        approval = "pending" \/ (approval # "none" /\ risk = "critical" /\ verdicts = 0)
                 PROVE  In(task, Started) = {}
      BY DEF ParkedCommandsWait, Started
    <2>1. approval = "pending" /\ requiresApproval
      BY DEF ParkedInv, Parked, ApprovalIsAsked
    <2> QED BY <2>1 DEF ParkedInv, Parked, NothingStarted, Waiting
  <1> QED BY <1>1, ParkedInvariant, PTL

-----------------------------------------------------------------------------
\* The gates come in order.

\* The rows an unfinished tick has indexed may be put by it.
Indexed(row) ==
  row.phase \in {"indexed", "swept", "acquiring"} \/ (row.phase = "building" /\ row.then = "swept")
AtWork(row) == row.phase \in {"working", "building"}
Settled == Completed \cup {"cancelled"}
Touched == Started \cup {"cancelled"}

\* What the gates are chained behind: the one before, or duplicates of it.
TwinsOf(type) == {u \in Twin : TwinType[u] = type}
Behind(i) ==
  IF i = 1 THEN {Work} ELSE (SUBSET ({GATES[i - 1]} \cup TwinsOf(GATES[i - 1]))) \ {{}}
Prior(i) == (Work \cup {GATES[j] : j \in 1..(i - 1)}) \ {"qa"}
PriorDone(i) == Prior(i) \subseteq In(task, Completed)

\* Invocations of the cron that do not overlap; or no gate that exists twice.  With both
\* a tick cancels, over its older index, the duplicate that the other has completed.
OneTick == \A j, k \in Tick : j = k
NoRace == Twin = {} \/ OneTick

Whole == known = Present(task)
Planned ==
  IF command = "received" THEN Present(task) = {} ELSE Work \cup {"qa"} \subseteq Present(task)
TwinsCome == (\E u \in Twin : task[u] # "absent") => Present(task) = Row
Linked ==
  /\ GateType \subseteq Present(task)
  /\ \A i \in 1..Len(GATES) : dependsOn[GATES[i]] \in Behind(i)
LinkedAtOnce == Linked \/ Present(task) \subseteq Work \cup {"qa"}
NoneIn(states) ==
  In(task, states) = {} /\ \A k \in Tick : ~AtWork(tick[k]) /\ In(tick[k].rows, states) = {}
LinkedFirst == Linked \/ NoneIn(Started)
TwinsGone == \A u \in Twin : task[u] \in {"absent", "cancelled"}
TwinsGo == TwinsGone \/ NoneIn(Touched)
OldRows ==
  \A k \in Tick : Indexed(tick[k]) =>
    /\ Present(tick[k].rows) \subseteq Present(task)
    /\ Work \cup {"qa"} \subseteq Present(tick[k].rows)
    /\ (\E u \in Twin : task[u] # "absent") => Present(tick[k].rows) = Row
Cancels ==
  (\E t \in Row :
     task[t] = "cancelled" \/ \E k \in Tick : Indexed(tick[k]) /\ tick[k].rows[t] = "cancelled")
    => \E u \in Twin : task[u] # "absent"
RowsAgree ==
  OneTick => \A k \in Tick : Indexed(tick[k]) =>
    \A t \in Row : task[t] \in Settled \/ tick[k].rows[t] \in Settled => tick[k].rows[t] = task[t]
Lanes ==
  \A k \in Tick :
    /\ tick[k].phase = "working" \/ (tick[k].phase = "building" /\ tick[k].then = "off")
         => holder = k
    /\ tick[k].running # {} => tick[k].phase = "working"
    /\ tick[k].running \subseteq In(task, {"working", "queued"})
Unstarted(g) ==
  /\ task[g] \notin Started
  /\ \A k \in Tick : g \notin tick[k].running /\ (Indexed(tick[k]) => tick[k].rows[g] \notin Started)
Ordered == \A i \in 1..Len(GATES) : PriorDone(i) \/ Unstarted(GATES[i])

Chained ==
  /\ Whole /\ Planned /\ TwinsCome /\ LinkedAtOnce /\ LinkedFirst /\ TwinsGo
  /\ OldRows /\ Cancels /\ RowsAgree /\ Lanes /\ Ordered

ChainInv == ParkedInv /\ (~cold => Chained)

\* What a step may do to what is done, and when a gate may start.
DoneStays == \A t \in Row \ {"qa"} : task[t] \in Completed => task'[t] = task[t]
StartsInOrder ==
  \A i \in 1..Len(GATES) :
    task[GATES[i]] # "working" /\ task'[GATES[i]] = "working"
      => Work \cup {GATES[j] : j \in 1..(i - 1)} \subseteq In(task, Completed)

-----------------------------------------------------------------------------
\* Of the operators.

LEMMA GateIndex ==
  /\ \A i \in 1..Len(GATES) : GATES[i] \in GateType /\ GATES[i] \in Row /\ GATES[i] \notin Work
  /\ Len(GATES) \in 1..Len(GATES) /\ GATES[Len(GATES)] = "integrity"
  /\ Len(GATES) - 1 \in 1..Len(GATES) /\ GATES[Len(GATES) - 1] = "qa"
  /\ Len(GATES) # 1 /\ GATES[1] # "qa"
  /\ \A i \in 2..Len(GATES) : i # 1 /\ i - 1 \in 1..Len(GATES)
  <1>1. Len(GATES) \in Nat /\ Len(GATES) > 2
    BY GateAssumption
  <1>2. 1 \in 1..Len(GATES) /\ Len(GATES) - 1 \in 1..Len(GATES) /\ 1 # Len(GATES) - 1
        /\ Len(GATES) \in 1..Len(GATES) /\ Len(GATES) # 1
    <2> DEFINE n == Len(GATES)
    <2>1. n \in Nat /\ n > 2
      BY <1>1
    <2> HIDE DEF n
    <2>2. 1 \in 1..n /\ n - 1 \in 1..n /\ 1 # n - 1 /\ n \in 1..n /\ n # 1
      BY <2>1
    <2> QED BY <2>2 DEF n
  <1>3. GATES[1] # "qa"
    BY <1>2, GateAssumption
  <1>4. \A i \in 1..Len(GATES) : GATES[i] \in GateType
    BY DEF GateType
  <1>5. \A i \in 1..Len(GATES) : GATES[i] \in Row /\ GATES[i] \notin Work
    BY <1>4, RowAssumption DEF Row
  <1>6. \A i \in 2..Len(GATES) : i # 1 /\ i - 1 \in 1..Len(GATES)
    BY <1>1
  <1> QED BY <1>1, <1>2, <1>3, <1>4, <1>5, <1>6, GateAssumption

LEMMA IndexOf ==
  ASSUME NEW i \in 1..Len(GATES)
  PROVE  (CHOOSE j \in 1..Len(GATES) : GATES[j] = GATES[i]) = i
  BY GateAssumption

LEMMA PreviousIs ==
  ASSUME NEW rows, NEW i \in 1..Len(GATES)
  PROVE  Previous(rows, GATES[i]) =
           IF i = 1 THEN Present(rows) \cap Work ELSE {Survivor(rows, GATES[i - 1])}
  BY IndexOf DEF Previous

\* A row of a gate's type is the gate or a duplicate of it.
LEMMA GatesAre ==
  ASSUME NEW rows, NEW type \in GateType
  PROVE  Gates(rows, type) \subseteq ({type} \cup TwinsOf(type)) \cap Present(rows)
  BY RowAssumption DEF Gates, Present, typeOf, TwinsOf, Row

LEMMA SurvivorIs ==
  ASSUME NEW rows, NEW type \in GateType
  PROVE  /\ Survivor(rows, type) \in {type} \cup TwinsOf(type)
         /\ Gates(rows, type) # {} => Survivor(rows, type) = Kept(rows, type)
  <1>1. CASE Gates(rows, type) # {}
    BY <1>1, KeptIsGate, GatesAre DEF Survivor
  <1>2. CASE Gates(rows, type) = {} /\ Raced(type) = {}
    BY <1>2 DEF Survivor
  <1>3. CASE Gates(rows, type) = {} /\ Raced(type) # {}
    <2> DEFINE Done(t) == \A u \in Raced(type) : task[u] \in Completed => task[t] \in Completed
    <2>1. \E t \in Raced(type) : Done(t)
      <3>1. CASE \E t \in Raced(type) : task[t] \in Completed
        BY <3>1
      <3>2. CASE ~\E t \in Raced(type) : task[t] \in Completed
        BY <3>2, <1>3
      <3> QED BY <3>1, <3>2
    <2>2. Survivor(rows, type) = CHOOSE t \in Raced(type) : Done(t)
      BY <1>3 DEF Survivor
    <2>3. Survivor(rows, type) \in Raced(type)
      <3> HIDE DEF Done
      <3> QED BY <2>1, <2>2
    <2>4. Raced(type) \subseteq Gates(Seen, type)
      BY DEF Raced
    <2> QED BY <1>3, <2>3, <2>4, GatesAre
  <1> QED BY <1>1, <1>2, <1>3

LEMMA NoTwinsOfEnds == TwinsOf("qa") = {} /\ TwinsOf("integrity") = {}
  BY RowAssumption DEF TwinsOf

LEMMA BehindLast == Behind(Len(GATES)) = {{"qa"}}
  BY GateIndex, NoTwinsOfEnds DEF Behind

\* A gate is chained behind what survives of the one before.
LEMMA PreviousBehind ==
  ASSUME NEW rows, NEW i \in 1..Len(GATES), Work \subseteq Present(rows)
  PROVE  Previous(rows, GATES[i]) \in Behind(i)
  <1>1. CASE i = 1
    BY <1>1, PreviousIs DEF Behind
  <1>2. CASE i # 1
    <2>1. i \in 2..Len(GATES)
      BY <1>2, GateAssumption
    <2>2. i - 1 \in 1..Len(GATES) /\ GATES[i - 1] \in GateType
      BY <2>1, GateIndex
    <2>3. Survivor(rows, GATES[i - 1]) \in {GATES[i - 1]} \cup TwinsOf(GATES[i - 1])
      BY <2>2, SurvivorIs
    <2>4. Previous(rows, GATES[i]) = {Survivor(rows, GATES[i - 1])}
      BY <1>2, PreviousIs
    <2> QED BY <1>2, <2>3, <2>4 DEF Behind
  <1> QED BY <1>1, <1>2

LEMMA DuplicatesAre ==
  ASSUME NEW rows
  PROVE  \A t \in Duplicates(rows) :
           /\ t \in Present(rows) /\ t \notin Work /\ t # "qa" /\ t \in Row
           /\ typeOf(t) \in GateType /\ t \in Gates(rows, typeOf(t))
           /\ t # Kept(rows, typeOf(t))
  BY RowAssumption DEF Duplicates, Gates, Present, typeOf, Row

\* Rewiring what a gate is chained behind leaves it chained behind the survivor.
LEMMA RewiredBehind ==
  ASSUME NEW rows, NEW i \in 1..Len(GATES), NEW deps \in Behind(i)
  PROVE  Rewired(rows, deps) \in Behind(i)
  <1>1. CASE i = 1
    <2>1. deps = Work /\ Behind(i) = {Work}
      BY <1>1 DEF Behind
    <2>2. Rewired(rows, Work) = Work
      BY DuplicatesAre DEF Rewired
    <2> QED BY <2>1, <2>2
  <1>2. CASE i # 1
    <2> DEFINE type == GATES[i - 1]
    <2>1. i \in 2..Len(GATES)
      BY <1>2, GateAssumption
    <2>2. type \in GateType
      BY <2>1, GateIndex
    <2>3. deps # {} /\ deps \subseteq {type} \cup TwinsOf(type)
      BY <1>2 DEF Behind
    <2>4. \A d \in {type} \cup TwinsOf(type) : typeOf(d) = type
      BY <2>2, RowAssumption DEF typeOf, TwinsOf
    <2> DEFINE image(d) == IF d \in Duplicates(rows) THEN Kept(rows, typeOf(d)) ELSE d
    <2>5. ASSUME NEW d \in deps PROVE image(d) \in {type} \cup TwinsOf(type)
      <3>1. CASE d \in Duplicates(rows)
        <4>1. Gates(rows, type) # {}
          BY <2>3, <2>4, <3>1, DuplicatesAre
        <4> QED BY <2>2, <2>3, <2>4, <3>1, <4>1, KeptIsGate, GatesAre
      <3>2. CASE d \notin Duplicates(rows)
        BY <2>3, <3>2
      <3> QED BY <3>1, <3>2
    <2>6. Rewired(rows, deps) = {image(d) : d \in deps}
      BY DEF Rewired
    <2>7. Rewired(rows, deps) # {} /\ Rewired(rows, deps) \subseteq {type} \cup TwinsOf(type)
      <3> HIDE DEF image, type
      <3> QED BY <2>3, <2>5, <2>6
    <2> QED BY <1>2, <2>7 DEF Behind
  <1> QED BY <1>1, <1>2

-----------------------------------------------------------------------------
\* Steps that start, finish and create nothing.

Lane(row) == row.phase = "working" \/ (row.phase = "building" /\ row.then = "off")
Blank(row) ==
  ~Indexed(row) /\ ~AtWork(row) /\ row.running = {} /\ In(row.rows, Touched) = {}

\* What such a step makes of a tick: nothing it holds, what it held, or a new index.
GoesOn(k) ==
  /\ tick'[k].rows = tick[k].rows /\ tick'[k].running = tick[k].running
  /\ Indexed(tick'[k]) => Indexed(tick[k])
  /\ Lane(tick'[k]) => Lane(tick[k]) /\ (holder = k => holder' = k)
  /\ tick'[k].running # {} => tick'[k].phase = tick[k].phase
  /\ AtWork(tick'[k]) => AtWork(tick[k]) \/ ~NoneIn(Started)
Indexes(k) ==
  /\ tick'[k].phase = "indexed" /\ tick'[k].running = {}
  /\ tick'[k].rows = task'
CalmTick(k) == Blank(tick'[k]) \/ GoesOn(k) \/ Indexes(k)

\* What it makes of a task: what is completed or cancelled stays, and no other is.
CalmTask(t) ==
  /\ task[t] \in Settled \cup {"absent"} => task'[t] = task[t]
  /\ task'[t] \in Settled \cup {"absent", "working"} => task'[t] = task[t]
  /\ (\E k \in Tick : t \in tick[k].running) /\ task[t] \in {"working", "queued"}
       => task'[t] \in {"working", "queued"}

LEMMA CalmStep ==
  ASSUME TypeOK, TypeOK', Chained,
         \A t \in Row : CalmTask(t), \A k \in Tick : CalmTick(k),
         dependsOn' = dependsOn, known' = Present(task'),
         command' = "received" <=> command = "received",
         (\E k \in Tick : Indexes(k)) => command # "received"
  PROVE  Chained' /\ DoneStays /\ StartsInOrder
  <1> USE DEF Chained
  <1>1. Present(task') = Present(task)
    BY DEF Present, CalmTask
  <1>2. Whole' /\ Planned'
    <2>1. Present(task)' = Present(task')
      BY DEF Present
    <2> QED BY <1>1, <2>1 DEF Whole, Planned
  <1>3. \A u \in Twin : u \in Row
    BY DEF Row
  <1>4. (\E u \in Twin : task'[u] # "absent") <=> (\E u \in Twin : task[u] # "absent")
    BY <1>3 DEF CalmTask
  <1>5. TwinsCome'
    BY <1>1, <1>4 DEF TwinsCome, Present
  <1>6. Linked => Linked'
    BY <1>1 DEF Linked, Present
  <1>7. LinkedAtOnce'
    BY <1>1, <1>6 DEF LinkedAtOnce, Present
  <1>8. ASSUME NEW states \in {Started, Touched}, NoneIn(states)
        PROVE  NoneIn(states)'
    <2>1. Started \subseteq Touched /\ states \subseteq Touched
      BY DEF Touched
    <2>2. In(task', states) = {}
      BY <1>8 DEF NoneIn, In, CalmTask, Touched, Started, Settled
    <2>3. ASSUME NEW k \in Tick
          PROVE  ~AtWork(tick'[k]) /\ In(tick'[k].rows, states) = {}
      <3>1. NoneIn(Started) /\ ~AtWork(tick[k]) /\ In(tick[k].rows, states) = {}
        BY <1>8, <2>1 DEF NoneIn, In
      <3>2. CASE Blank(tick'[k])
        BY <2>1, <3>2 DEF Blank, In
      <3>3. CASE GoesOn(k)
        BY <3>1, <3>3 DEF GoesOn
      <3>4. CASE Indexes(k)
        BY <2>2, <3>4 DEF Indexes, AtWork
      <3> QED BY <3>2, <3>3, <3>4 DEF CalmTick
    <2> QED BY <2>2, <2>3 DEF NoneIn, In, AtWork
  <1>9. LinkedFirst'
    <2>1. CASE Linked
      BY <1>6, <2>1 DEF LinkedFirst
    <2>2. CASE NoneIn(Started)
      BY <1>8, <2>2 DEF LinkedFirst
    <2> QED BY <2>1, <2>2 DEF LinkedFirst
  <1>10. TwinsGo'
    <2>1. CASE TwinsGone
      <3>1. TwinsGone'
        BY <1>3, <2>1 DEF TwinsGone, CalmTask, Settled
      <3> QED BY <3>1 DEF TwinsGo
    <2>2. CASE NoneIn(Touched)
      BY <1>8, <2>2 DEF TwinsGo
    <2> QED BY <2>1, <2>2 DEF TwinsGo
  <1>11. ASSUME NEW k \in Tick, Indexed(tick'[k])
         PROVE  \/ Indexes(k) /\ tick'[k].rows = task'
                \/ Indexed(tick[k]) /\ tick'[k].rows = tick[k].rows
    BY <1>11 DEF CalmTick, Blank, GoesOn, Indexes
  <1>12. OldRows'
    <2> SUFFICES ASSUME NEW k \in Tick, Indexed(tick'[k])
                 PROVE  /\ Present(tick'[k].rows) \subseteq Present(task')
                        /\ Work \cup {"qa"} \subseteq Present(tick'[k].rows)
                        /\ (\E u \in Twin : task'[u] # "absent") => Present(tick'[k].rows) = Row
      BY DEF OldRows, Present, Indexed
    <2>1. CASE Indexes(k) /\ tick'[k].rows = task'
      BY <1>1, <1>4, <2>1 DEF Planned, TwinsCome
    <2>2. CASE Indexed(tick[k]) /\ tick'[k].rows = tick[k].rows
      BY <1>1, <1>4, <2>2 DEF OldRows
    <2> QED BY <1>11, <2>1, <2>2
  <1>13. RowsAgree'
    <2> SUFFICES ASSUME OneTick, NEW k \in Tick, Indexed(tick'[k]), NEW t \in Row,
                        task'[t] \in Settled \/ tick'[k].rows[t] \in Settled
                 PROVE  tick'[k].rows[t] = task'[t]
      BY DEF RowsAgree, Indexed, OneTick
    <2>1. CASE tick'[k].rows = task'
      BY <2>1
    <2>2. CASE Indexed(tick[k]) /\ tick'[k].rows = tick[k].rows
      <3>1. task[t] \in Settled \/ tick[k].rows[t] \in Settled
        BY <2>2 DEF CalmTask
      <3>2. tick[k].rows[t] = task[t]
        BY <2>2, <3>1 DEF RowsAgree
      <3> QED BY <2>2, <3>1, <3>2 DEF CalmTask
    <2> QED BY <1>11, <2>1, <2>2
  <1>14. ASSUME NEW k \in Tick, NEW t \in tick'[k].running
         PROVE  t \in tick[k].running /\ GoesOn(k)
    BY <1>14 DEF CalmTick, Blank, GoesOn, Indexes
  <1>15. Lanes'
    <2> SUFFICES ASSUME NEW k \in Tick
                 PROVE  /\ Lane(tick'[k]) => holder' = k
                        /\ tick'[k].running # {} => tick'[k].phase = "working"
                        /\ tick'[k].running \subseteq In(task', {"working", "queued"})
      BY DEF Lanes, Lane, In
    <2>1. Lane(tick'[k]) => holder' = k
      BY DEF CalmTick, Blank, GoesOn, Indexes, Lane, AtWork, Lanes
    <2>2. tick'[k].running # {} => tick'[k].phase = "working"
      BY <1>14 DEF Lanes, GoesOn
    <2>3. ASSUME NEW t \in tick'[k].running
          PROVE  t \in Row /\ task'[t] \in {"working", "queued"}
      <3>1. t \in In(task, {"working", "queued"}) /\ t \in tick[k].running
        BY <1>14 DEF Lanes
      <3> QED BY <3>1 DEF CalmTask, In
    <2> QED BY <2>1, <2>2, <2>3 DEF In
  <1>20. Cancels'
    <2> SUFFICES ASSUME NEW t \in Row,
                        task'[t] = "cancelled"
                          \/ \E k \in Tick : Indexed(tick'[k]) /\ tick'[k].rows[t] = "cancelled"
                 PROVE  \E u \in Twin : task'[u] # "absent"
      BY DEF Cancels, Indexed
    <2>1. task'[t] = "cancelled" => task[t] = "cancelled"
      BY DEF CalmTask, Settled
    <2> QED BY <1>4, <1>11, <2>1 DEF Cancels
  <1>16. DoneStays
    BY DEF DoneStays, CalmTask, Settled
  <1>17. ASSUME NEW i \in 1..Len(GATES) PROVE PriorDone(i) => PriorDone(i)'
    BY DEF PriorDone, Prior, In, CalmTask, Settled
  <1>18. Ordered'
    <2> SUFFICES ASSUME NEW i \in 1..Len(GATES), ~PriorDone(i)
                 PROVE  Unstarted(GATES[i])'
      BY <1>17 DEF Ordered
    <2>1. Unstarted(GATES[i]) /\ GATES[i] \in Row
      BY GateIndex DEF Ordered
    <2>2. task'[GATES[i]] \notin Started
      BY <2>1 DEF Unstarted, CalmTask, Started, Settled
    <2>3. ASSUME NEW k \in Tick
          PROVE  /\ GATES[i] \notin tick'[k].running
                 /\ Indexed(tick'[k]) => tick'[k].rows[GATES[i]] \notin Started
      <3>1. GATES[i] \notin tick'[k].running
        BY <1>14, <2>1 DEF Unstarted
      <3> QED BY <1>11, <2>1, <2>2, <3>1 DEF Unstarted
    <2> QED BY <2>2, <2>3 DEF Unstarted, Indexed
  <1>19. StartsInOrder
    BY GateIndex DEF StartsInOrder, CalmTask
  <1> QED BY <1>2, <1>5, <1>7, <1>9, <1>10, <1>12, <1>13, <1>15, <1>16, <1>18, <1>19, <1>20

LEMMA RequeuedAre ==
  Requeued \subseteq In(Seen, {"queued", "assigned", "working", "blocked", "failed"})
  <1> DEFINE live == In(Seen, {"queued", "assigned", "working"})
             work == live \cup {u \in Work \cup Twin : Revivable(u) /\ InputsOver(u, live)}
             upTo[n \in 0..Len(ListOrder)] ==
               IF n = 0 THEN work ELSE NextRequeued(ListOrder[n], upTo[n - 1])
             queued == upTo[Len(ListOrder)]
  <1>1. Requeued = live \cup {u \in Row : Revivable(u) /\ u \in queued}
    BY DEF Requeued
  <1> HIDE DEF queued
  <1> QED BY <1>1 DEF In, Revivable

LEMMA CalmTasks ==
  ASSUME TypeOK, \/ UNCHANGED task
                 \/ task' = Requeue(task, Requeued)
                 \/ \E rows \in SUBSET Row : RetireStaleWork(rows)
  PROVE  \A t \in Row : CalmTask(t)
  <1> SUFFICES ASSUME NEW t \in Row PROVE CalmTask(t)
    OBVIOUS
  <1>1. CASE UNCHANGED task
    BY <1>1 DEF CalmTask
  <1>2. CASE task' = Requeue(task, Requeued)
    <2>2. t \in Requeued => task[t] \in {"queued", "assigned", "working", "blocked", "failed"}
      BY RequeuedAre DEF In, Seen
    <2>3. task'[t] = IF t \in Requeued THEN "queued" ELSE task[t]
      BY <1>2 DEF Requeue
    <2> QED BY <2>2, <2>3 DEF CalmTask, Settled, Completed
  <1>3. CASE \E rows \in SUBSET Row : RetireStaleWork(rows)
    <2>1. PICK rows \in SUBSET Row : RetireStaleWork(rows)
      BY <1>3
    <2>2. t \in rows => task[t] \in Live
      BY <2>1 DEF RetireStaleWork, In, Seen, Live
    <2>3. task'[t] = IF t \in rows THEN "retired" ELSE task[t]
      BY <2>1 DEF RetireStaleWork
    <2>4. ~\E k \in Tick : t \in tick[k].running
      BY <2>1 DEF RetireStaleWork, LiveRun
    <2> QED BY <2>2, <2>3, <2>4 DEF CalmTask, Settled, Completed, Live
  <1> QED BY <1>1, <1>2, <1>3

LEMMA BlankRows ==
  /\ Blank(NoTickRow) /\ Blank(Recovered)
  /\ Blank([NoTickRow EXCEPT !.phase = "listed", !.held = project, !.found = Found])
  /\ Blank([NoTickRow EXCEPT !.phase = "retiring"])
  <1>1. In(NoRows, Touched) = {}
    BY NotStarted DEF In, NoRows, Touched
  <1> QED BY <1>1 DEF Blank, NoTickRow, Recovered, Indexed, AtWork

LEMMA CalmBlank ==
  ASSUME TypeOK, NEW k \in Tick, NEW row, Blank(row), tick' = [tick EXCEPT ![k] = row],
         holder' = holder \/ (holder = k /\ holder' = NoTick)
  PROVE  \A j \in Tick : CalmTick(j)
  <1> SUFFICES ASSUME NEW j \in Tick PROVE CalmTick(j)
    OBVIOUS
  <1>1. CASE j = k
    BY <1>1 DEF CalmTick, TypeOK
  <1>2. CASE j # k
    <2>1. tick'[j] = tick[j]
      BY <1>2 DEF TypeOK
    <2> QED BY <1>2, <2>1 DEF CalmTick, GoesOn
  <1> QED BY <1>1, <1>2

LEMMA CalmGoOn ==
  ASSUME TypeOK, Chained, NEW k \in Tick, NEW next \in {"off", "swept"}, GoOn(k, next),
         next = "swept" => Indexed(tick[k])
  PROVE  \A j \in Tick : CalmTick(j)
  <1>1. CASE next = "off"
    <2>1. tick' = [tick EXCEPT ![k] = NoTickRow]
      BY <1>1 DEF GoOn
    <2>2. holder' = holder \/ (holder = k /\ holder' = NoTick)
      BY DEF GoOn
    <2> QED BY <2>1, <2>2, BlankRows, CalmBlank
  <1>2. CASE next = "swept"
    <2> SUFFICES ASSUME NEW j \in Tick PROVE CalmTick(j)
      OBVIOUS
    <2>1. tick' = [tick EXCEPT ![k] = [tick[k] EXCEPT !.phase = "swept", !.then = "off"]]
          /\ holder' = holder
      BY <1>2 DEF GoOn
    <2>2. CASE j = k
      <3>1. tick[k] \in TickRow /\ tick[k].running = {}
        BY <1>2 DEF TypeOK, Chained, Lanes, Indexed
      <3>2. tick'[k] = [tick[k] EXCEPT !.phase = "swept", !.then = "off"]
        BY <2>1 DEF TypeOK
      <3>3. /\ tick'[k].rows = tick[k].rows /\ tick'[k].running = tick[k].running
            /\ tick'[k].phase = "swept"
        BY <3>1, <3>2 DEF TickRow
      <3> QED BY <1>2, <2>1, <2>2, <3>1, <3>3 DEF CalmTick, GoesOn, Lane, AtWork
    <2>3. CASE j # k
      <3>1. tick'[j] = tick[j]
        BY <2>1, <2>3 DEF TypeOK
      <3> QED BY <2>1, <3>1 DEF CalmTick, GoesOn
    <2> QED BY <2>2, <2>3
  <1> QED BY <1>1, <1>2

\* Other steps of a tick on what it holds.
LEMMA CalmPhase ==
  ASSUME TypeOK, Chained, NEW k \in Tick, NEW row, tick' = [tick EXCEPT ![k] = row],
         holder' = holder, row.rows = tick[k].rows, row.running = tick[k].running,
         Indexed(row) => Indexed(tick[k]), Lane(row) => Lane(tick[k]),
         row.running # {} => row.phase = tick[k].phase,
         AtWork(row) => AtWork(tick[k]) \/ ~NoneIn(Started)
  PROVE  \A j \in Tick : CalmTick(j)
  <1> SUFFICES ASSUME NEW j \in Tick PROVE CalmTick(j)
    OBVIOUS
  <1>1. CASE j = k
    <2>1. tick'[j] = row
      BY <1>1 DEF TypeOK
    <2> QED BY <1>1, <2>1 DEF CalmTick, GoesOn
  <1>2. CASE j # k
    <2>1. tick'[j] = tick[j]
      BY <1>2 DEF TypeOK
    <2> QED BY <1>2, <2>1 DEF CalmTick, GoesOn
  <1> QED BY <1>1, <1>2

ChainKept == Chained' /\ DoneStays /\ StartsInOrder

LEMMA ChainCommand ==
  ASSUME ParkedInv, TypeOK', Chained, ~cold',
         Acknowledge \/ CommandCut \/ Approve \/ Reject \/ UNCHANGED vars
         \/ (\E rows \in SUBSET Row : RetireStaleWork(rows))
  PROVE  ChainKept
  <1>1. TypeOK
    BY DEF ParkedInv
  <1>2. /\ tick' = tick /\ holder' = holder /\ dependsOn' = dependsOn /\ known' = known
        /\ command' = "received" <=> command = "received"
    BY DEF Acknowledge, CommandCut, Approve, Reject, vars, RetireStaleWork
  <1>3. \/ UNCHANGED task \/ task' = Requeue(task, Requeued)
        \/ \E rows \in SUBSET Row : RetireStaleWork(rows)
    BY DEF Acknowledge, CommandCut, Approve, approveProject, Reject, vars
  <1>4. \A t \in Row : CalmTask(t)
    BY <1>1, <1>3, CalmTasks
  <1>5. \A k \in Tick : GoesOn(k)
    BY <1>2 DEF GoesOn
  <1>6. known' = Present(task')
    BY <1>2, <1>4 DEF Chained, Whole, Present, CalmTask
  <1>7. (\E k \in Tick : Indexes(k)) => command # "received"
    <2> SUFFICES ASSUME NEW k \in Tick, Indexes(k) PROVE command # "received"
      OBVIOUS
    <2>1. tick[k].phase = "indexed"
      BY <1>2 DEF Indexes
    <2> QED BY <2>1 DEF ParkedInv, Parked, NothingQueued, NoTickRow
  <1> QED BY <1>1, <1>2, <1>4, <1>5, <1>6, <1>7, CalmStep DEF CalmTick, ChainKept

LEMMA ChainFinalize ==
  ASSUME ParkedInv, TypeOK', Chained, ~cold', NEW k \in Tick,
         \/ NotReady(k) \/ Finalize(k) \/ BuildDelivery(k) \/ CompleteProject(k)
         \/ DeliveryUnread(k) \/ Acquire(k) \/ TickEnds(k) \/ TickCut(k)
         \/ RecoveryLists(k) \/ Recover(k) \/ RecoverChain(k) \/ RetireChain(k)
  PROVE  ChainKept
  <1>1. TypeOK /\ tick[k] \in TickRow
    BY DEF ParkedInv, TypeOK
  <1>2. /\ dependsOn' = dependsOn /\ known' = known /\ command' = command
        /\ task' = task \/ task' = Requeue(task, Requeued)
    BY DEF NotReady, Finalize, BuildDelivery, CompleteProject, DeliveryUnread, Finalized,
           Acquire, TickEnds, TickCut, RecoveryLists, Recover, RecoverChain, RetireChain
  <1>3. \A t \in Row : CalmTask(t)
    BY <1>1, <1>2, CalmTasks
  <1>4. known' = Present(task')
    BY <1>2, <1>3 DEF Chained, Whole, Present, CalmTask
  <1>5. ASSUME NotReady(k) \/ Finalize(k)
        PROVE  \A j \in Tick : CalmTick(j)
    <2>1. PICK next \in {"off", "swept"} :
            GoOn(k, next) /\ (next = "swept" => tick[k].phase = "indexed")
      BY <1>5 DEF NotReady, Finalize, Finalizing
    <2> QED BY <1>1, <2>1, CalmGoOn DEF Indexed
  <1>6. ASSUME CompleteProject(k) \/ DeliveryUnread(k)
        PROVE  \A j \in Tick : CalmTick(j)
    <2>1. GoOn(k, tick[k].then) /\ tick[k].then \in {"off", "swept"} /\ tick[k].phase = "building"
      BY <1>1, <1>6 DEF CompleteProject, DeliveryUnread, TickRow
    <2> QED BY <1>1, <2>1, CalmGoOn DEF Indexed
  <1>7. ASSUME TickEnds(k) \/ TickCut(k)
        PROVE  \A j \in Tick : CalmTick(j)
    BY <1>1, <1>7, CalmGoOn DEF TickEnds, TickCut
  <1>8. ASSUME RecoveryLists(k) \/ Recover(k) \/ RecoverChain(k) \/ RetireChain(k)
        PROVE  \A j \in Tick : CalmTick(j)
    <2> DEFINE listed == [NoTickRow EXCEPT !.phase = "listed", !.held = project, !.found = Found]
               retiring == [NoTickRow EXCEPT !.phase = "retiring"]
    <2>1. PICK row \in {listed, retiring, Recovered} : tick' = [tick EXCEPT ![k] = row]
      <3>1. \/ tick' = [tick EXCEPT ![k] = listed] \/ tick' = [tick EXCEPT ![k] = retiring]
            \/ tick' = [tick EXCEPT ![k] = Recovered]
        BY <1>8 DEF RecoveryLists, Recover, Recovers, RecoverChain, RetireChain
      <3> HIDE DEF listed, retiring
      <3> QED BY <3>1
    <2>2. Blank(row)
      BY <2>1, BlankRows
    <2>3. holder' = holder
      BY <1>8 DEF RecoveryLists, Recover, RecoverChain, RetireChain
    <2> QED BY <1>1, <2>1, <2>2, <2>3, CalmBlank
  <1>9. ASSUME Acquire(k)
        PROVE  \A j \in Tick : CalmTick(j)
    <2> DEFINE row == [tick[k] EXCEPT !.phase = "acquiring"]
    <2>1. tick' = [tick EXCEPT ![k] = row] /\ holder' = holder /\ tick[k].phase = "swept"
      BY <1>9 DEF Acquire
    <2>2. row.rows = tick[k].rows /\ row.running = tick[k].running /\ row.phase = "acquiring"
      BY <1>1 DEF TickRow
    <2>3. row.running = {}
      BY <2>1, <2>2 DEF Chained, Lanes
    <2> HIDE DEF row
    <2> QED BY <1>1, <2>1, <2>2, <2>3, CalmPhase DEF Indexed, Lane, AtWork
  <1>10. ASSUME BuildDelivery(k)
         PROVE  \A j \in Tick : CalmTick(j)
    <2>1. PICK rows \in {tick[k].rows, Seen}, next \in {"off", "swept"} :
            /\ Finalizing(k, rows, next) /\ IsComplete(rows)
            /\ tick' = [tick EXCEPT ![k].phase = "building", ![k].then = next]
      BY <1>10 DEF BuildDelivery
    <2> DEFINE row == [tick[k] EXCEPT !.phase = "building", !.then = next]
    <2>2. tick' = [tick EXCEPT ![k] = row] /\ holder' = holder
      BY <1>10, <2>1 DEF BuildDelivery, TypeOK
    <2>3. row.rows = tick[k].rows /\ row.running = tick[k].running
          /\ row.phase = "building" /\ row.then = next
      BY <1>1 DEF TickRow
    <2>4. /\ next = "swept" => tick[k].phase = "indexed"
          /\ next = "off" => tick[k].phase = "working"
          /\ row.running = {}
      BY <2>1, <2>3 DEF Finalizing, Chained, Lanes
    <2>5. ~NoneIn(Started)
      <3>1. "qa" \in In(rows, Started)
        BY <2>1 DEF IsComplete, In, Started
      <3>2. rows = tick[k].rows \/ In(rows, Started) \subseteq In(task, Started)
        BY <2>1, NotStarted DEF In, Seen
      <3> QED BY <3>1, <3>2 DEF NoneIn
    <2> HIDE DEF row
    <2> QED BY <1>1, <2>2, <2>3, <2>4, <2>5, CalmPhase DEF Indexed, Lane, AtWork
  <1>11. \A j \in Tick : CalmTick(j)
    BY <1>5, <1>6, <1>7, <1>8, <1>9, <1>10
  <1>12. (\E j \in Tick : Indexes(j)) => command # "received"
    <2> SUFFICES ASSUME command = "received" PROVE FALSE
      OBVIOUS
    <2>1. tick[k] = NoTickRow /\ project.state = "none"
      BY DEF ParkedInv, Parked, NothingQueued
    <2> QED BY <2>1 DEF NoTickRow, NotReady, Finalize, BuildDelivery, CompleteProject,
                        DeliveryUnread, Finalizing, Acquire, TickEnds, TickCut, RecoveryLists,
                        Recover, RecoverChain, RetireChain, ACTIVE_PROJECT_STATES
  <1> QED BY <1>1, <1>2, <1>3, <1>4, <1>11, <1>12, CalmStep DEF ChainKept

LEMMA ChainNewIsolate ==
  ASSUME ParkedInv, TypeOK', Chained, ~cold', NewIsolate
  PROVE  ChainKept
  <1>1. TypeOK /\ task' = task /\ dependsOn' = dependsOn
        /\ (command' = "received" <=> command = "received")
    BY DEF ParkedInv, NewIsolate
  <1>2. known' = Present(task')
    BY <1>1 DEF NewIsolate
  <1>3. \A k \in Tick : tick'[k] = NoTickRow
    BY DEF NewIsolate
  <1>4. \A k \in Tick : CalmTick(k) /\ ~Indexes(k)
    BY <1>3, BlankRows DEF CalmTick, Indexes, NoTickRow
  <1>5. \A t \in Row : CalmTask(t)
    BY <1>1, CalmTasks
  <1> QED BY <1>1, <1>2, <1>4, <1>5, CalmStep DEF ChainKept

LEMMA ChainTickStarts ==
  ASSUME ParkedInv, TypeOK', Chained, ~cold', NEW k \in Tick, NEW orphans \in SUBSET Row,
         TickStarts(k, orphans)
  PROVE  ChainKept
  <1> DEFINE rows == IF AutoApproves THEN Requeue(task, Requeued) ELSE task
  <1>1. TypeOK /\ command # "received" /\ command' = command /\ dependsOn' = dependsOn
        /\ known' = known /\ holder' = holder /\ orphans \subseteq Orphans(rows)
    BY DEF ParkedInv, TickStarts
  <1>2. PICK over \in [orphans -> {"queued", "failed"}],
             states \in [ReadyBlocked(rows) -> {"assigned", "blocked"}] :
          task' = [t \in Row |-> IF t \in orphans THEN over[t]
                                 ELSE IF t \in ReadyBlocked(rows) THEN states[t] ELSE rows[t]]
    BY DEF TickStarts
  <1>3. \A t \in Row :
          /\ task[t] \in Settled \cup {"absent"} => rows[t] = task[t]
          /\ rows[t] \in Settled \cup {"absent", "working"} => rows[t] = task[t]
          /\ (\E j \in Tick : t \in tick[j].running) /\ task[t] \in {"working", "queued"}
               => rows[t] \in {"working", "queued"}
    <2>1. CASE AutoApproves
      <3> DEFINE requeued == Requeue(task, Requeued)
      <3>1. requeued \in [Row -> TaskState] /\ rows = requeued
        BY <1>1, <2>1, RequeueType DEF TypeOK
      <3>2. Requeued \subseteq In(Seen, {"queued", "assigned", "working", "blocked", "failed"})
        BY RequeuedAre
      <3>3. \A t \in Requeued : task[t] \in {"queued", "assigned", "working", "blocked", "failed"}
        BY <3>2 DEF In, Seen
      <3>4. \A t \in Row : requeued[t] = IF t \in Requeued THEN "queued" ELSE task[t]
        BY DEF Requeue
      <3> HIDE DEF requeued, rows
      <3> QED BY <3>1, <3>3, <3>4 DEF Settled, Completed
    <2>2. CASE ~AutoApproves
      BY <2>2
    <2> QED BY <2>1, <2>2
  <1>4. /\ \A t \in orphans : /\ rows[t] \in {"working", "assigned"} /\ over[t] \in {"queued", "failed"}
                              /\ ~\E j \in Tick : t \in tick[j].running
        /\ \A t \in ReadyBlocked(rows) : rows[t] = "blocked" /\ states[t] \in {"assigned", "blocked"}
    <2>1. \A t \in Orphans(rows) : rows[t] \in {"working", "assigned"}
            /\ ~\E j \in Tick : t \in tick[j].running
      BY DEF Orphans, Stuck, LiveRun
    <2>2. \A t \in ReadyBlocked(rows) : rows[t] = "blocked"
      BY DEF ReadyBlocked
    <2> HIDE DEF rows
    <2> QED BY <1>1, <1>2, <2>1, <2>2
  <1>5. \A t \in Row : CalmTask(t)
    <2> SUFFICES ASSUME NEW t \in Row PROVE CalmTask(t)
      OBVIOUS
    <2>1. CASE t \in orphans
      <3>1. task'[t] \in {"queued", "failed"} /\ rows[t] \in {"working", "assigned"}
            /\ ~\E j \in Tick : t \in tick[j].running
        BY <1>2, <1>4, <2>1
      <3> HIDE DEF rows
      <3> QED BY <1>3, <3>1 DEF CalmTask, Settled, Completed
    <2>2. CASE t \notin orphans /\ t \in ReadyBlocked(rows)
      <3>1. task'[t] \in {"assigned", "blocked"} /\ rows[t] = "blocked"
        BY <1>2, <1>4, <2>2
      <3> HIDE DEF rows
      <3> QED BY <1>3, <3>1 DEF CalmTask, Settled, Completed
    <2>3. CASE t \notin orphans /\ t \notin ReadyBlocked(rows)
      <3>1. task'[t] = rows[t]
        BY <1>2, <2>3
      <3> HIDE DEF rows
      <3> QED BY <1>3, <3>1 DEF CalmTask
    <2> QED BY <2>1, <2>2, <2>3
  <1>6. known' = Present(task')
    BY <1>1, <1>5 DEF Chained, Whole, Present, CalmTask
  <1>7. task' \in [Row -> TaskState]
    BY DEF TypeOK
  <1>8. [t \in Row |-> IF t \in known THEN task'[t] ELSE "absent"] = task'
    <2>1. \A t \in Row : t \notin known => task'[t] = "absent"
      BY <1>1, <1>6 DEF Present
    <2> QED BY <1>7, <2>1
  <1> DEFINE row == [NoTickRow EXCEPT !.phase = "indexed", !.rows = task']
  <1>9. tick' = [tick EXCEPT ![k] = row]
    BY <1>8 DEF TickStarts
  <1>10. row.phase = "indexed" /\ row.rows = task' /\ row.running = {}
    BY DEF NoTickRow
  <1>11. \A j \in Tick : CalmTick(j)
    <2> HIDE DEF row
    <2> SUFFICES ASSUME NEW j \in Tick PROVE CalmTick(j)
      OBVIOUS
    <2>1. CASE j = k
      <3>1. tick'[j] = row
        BY <1>1, <1>9, <2>1 DEF TypeOK
      <3> QED BY <1>10, <3>1 DEF CalmTick, Indexes
    <2>2. CASE j # k
      <3>1. tick'[j] = tick[j]
        BY <1>1, <1>9, <2>2 DEF TypeOK
      <3> QED BY <1>1, <3>1 DEF CalmTick, GoesOn
    <2> QED BY <2>1, <2>2
  <1> HIDE DEF row, rows
  <1> QED BY <1>1, <1>5, <1>6, <1>11, CalmStep DEF ChainKept

LEMMA ChainQueue ==
  ASSUME ParkedInv, TypeOK', Chained, ~cold', QueueCommand
  PROVE  ChainKept
  <1> USE DEF Chained
  <1>1. /\ command = "received" /\ command' = "flushing" /\ Present(task) = {}
        /\ \A k \in Tick : tick'[k] = NoTickRow
        /\ known' = known \cup Work \cup {"qa"}
    BY DEF ParkedInv, Parked, NothingQueued, QueueCommand, Planned
  <1>2. PICK states \in [Work -> {"assigned", "blocked"}] :
          task' = [t \in Row |-> IF t \in Work THEN states[t]
                                 ELSE IF t = "qa" THEN "blocked" ELSE task[t]]
    BY DEF QueueCommand
  <1>3. \A t \in Row : task[t] = "absent"
    BY <1>1 DEF Present
  <1>4. /\ \A t \in Work : t \in Row /\ task'[t] \in {"assigned", "blocked"}
        /\ "qa" \in Row /\ task'["qa"] = "blocked"
        /\ \A t \in Row : t \notin Work /\ t # "qa" => task'[t] = "absent"
    <2>1. "qa" \notin Work
      BY ConstantRows, RowAssumption
    <2> QED BY <1>2, <1>3, <2>1, ConstantRows
  <1>5. Present(task') = Work \cup {"qa"}
    BY <1>4 DEF Present
  <1>6. Whole' /\ Planned' /\ LinkedAtOnce'
    <2>1. Present(task)' = Present(task')
      BY DEF Present
    <2> QED BY <1>1, <1>5, <2>1 DEF Whole, Planned, LinkedAtOnce
  <1>7. TwinsCome' /\ TwinsGo'
    <2>1. \A u \in Twin : task'[u] = "absent"
      BY <1>4, ConstantRows, RowAssumption DEF Row
    <2> QED BY <2>1 DEF TwinsCome, TwinsGo, TwinsGone
  <1>8. \A t \in Row : task'[t] \notin Started
    BY <1>4, NotStarted
  <1>9. LinkedFirst'
    <2>1. In(NoRows, Started) = {}
      BY NotStarted DEF NoRows, In
    <2>2. In(task', Started) = {}
      BY <1>8 DEF In
    <2>3. NoneIn(Started)'
      BY <1>1, <2>1, <2>2 DEF NoneIn, AtWork, NoTickRow, In
    <2> QED BY <2>3 DEF LinkedFirst
  <1>10. OldRows' /\ RowsAgree' /\ Lanes' /\ Cancels'
    <2>1. \A t \in Row : task'[t] # "cancelled"
      BY <1>4
    <2> QED BY <1>1, <2>1 DEF OldRows, RowsAgree, Lanes, Cancels, Indexed, NoTickRow
  <1>11. Ordered'
    BY <1>1, <1>8, GateIndex DEF Ordered, Unstarted, Indexed, NoTickRow
  <1>12. DoneStays
    BY <1>3 DEF DoneStays, Completed
  <1>13. StartsInOrder
    BY <1>8, GateIndex DEF StartsInOrder, Started
  <1> QED BY <1>6, <1>7, <1>9, <1>10, <1>11, <1>12, <1>13 DEF ChainKept

\* A tick at work is the only one, its gates are linked, and duplicates are gone.
LEMMA AtWorkIs ==
  ASSUME TypeOK, Chained, NEW k \in Tick, tick[k].phase = "working"
  PROVE  /\ Linked /\ TwinsGone /\ holder = k /\ ~Indexed(tick[k])
         /\ \A j \in Tick : j # k => tick[j].running = {} /\ tick[j].phase # "working"
  <1>1. AtWork(tick[k]) /\ ~Indexed(tick[k])
    BY DEF AtWork, Indexed
  <1>2. \A states : ~NoneIn(states)
    BY <1>1 DEF NoneIn
  <1> QED BY <1>1, <1>2 DEF Chained, LinkedFirst, TwinsGo, Lanes

\* What a gate whose inputs are completed is behind.
LEMMA InputsOfGate ==
  ASSUME TypeOK, Chained, Linked, TwinsGone, NEW i \in 1..Len(GATES),
         \A d \in dependsOn[GATES[i]] : task[d] \in Completed
  PROVE  Work \cup {GATES[j] : j \in 1..(i - 1)} \subseteq In(task, Completed)
  <1>1. dependsOn[GATES[i]] \in Behind(i)
    BY DEF Linked
  <1>2. CASE i = 1
    <2>1. dependsOn[GATES[i]] = Work /\ 1..(i - 1) = {}
      BY <1>1, <1>2 DEF Behind
    <2> QED BY <2>1, ConstantRows DEF In
  <1>3. CASE i # 1
    <2>1. i \in 2..Len(GATES) /\ i - 1 \in 1..Len(GATES)
      BY <1>3, GateAssumption
    <2>2. GATES[i - 1] \in Row /\ GATES[i - 1] \in GateType
      BY <2>1, GateIndex
    <2>3. \A u \in Twin : task[u] \notin Completed
      BY DEF TwinsGone, Completed
    <2>4. task[GATES[i - 1]] \in Completed
      BY <1>1, <1>3, <2>3 DEF Behind, TwinsOf
    <2>5. PriorDone(i - 1)
      BY <2>1, <2>4 DEF Chained, Ordered, Unstarted, Started
    <2>6. \A j \in 1..(i - 1) : GATES[j] # "qa" => task[GATES[j]] \in Completed /\ GATES[j] \in Row
      <3> SUFFICES ASSUME NEW j \in 1..(i - 1), GATES[j] # "qa"
                   PROVE  task[GATES[j]] \in Completed /\ GATES[j] \in Row
        OBVIOUS
      <3>1. j = i - 1 \/ j \in 1..((i - 1) - 1)
        OBVIOUS
      <3> QED BY <2>2, <2>4, <2>5, <3>1 DEF PriorDone, Prior, In
    <2>7. \A t \in Work : task[t] \in Completed /\ t \in Row
      <3>1. "qa" \notin Work
        BY ConstantRows, RowAssumption
      <3> QED BY <2>5, <3>1 DEF PriorDone, Prior, In
    <2>8. ASSUME NEW j \in 1..(i - 1), GATES[j] = "qa"
          PROVE  j = i - 1
      <3>1. j \in 1..Len(GATES) /\ Len(GATES) \in Nat
        BY <2>1, GateAssumption
      <3>2. j = Len(GATES) - 1
        BY <2>8, <3>1, GateIndex, GateAssumption
      <3> QED BY <2>1, <3>1, <3>2
    <2> QED BY <2>2, <2>4, <2>6, <2>7, <2>8 DEF In
  <1> QED BY <1>2, <1>3

LEMMA DonePrior ==
  ASSUME DoneStays, NEW i \in 1..Len(GATES)
  PROVE  PriorDone(i) => PriorDone(i)'
  BY DEF DoneStays, PriorDone, Prior, In, Completed

LEMMA ChainStart ==
  ASSUME ParkedInv, TypeOK', Chained, ~cold', NEW k \in Tick, NEW t \in Row, Start(k, t)
  PROVE  ChainKept
  <1> USE DEF Chained
  <1>1. /\ TypeOK /\ tick[k] \in TickRow /\ tick[k].phase = "working" /\ Claimable(t)
        /\ task' = [task EXCEPT ![t] = "working"]
        /\ tick' = [tick EXCEPT ![k].running = @ \cup {t}]
        /\ UNCHANGED <<command, dependsOn, known, holder>>
    BY DEF ParkedInv, TypeOK, Start
  <1>2. /\ Linked /\ TwinsGone /\ holder = k /\ ~Indexed(tick[k])
        /\ \A j \in Tick : j # k => tick[j].running = {} /\ tick[j].phase # "working"
    BY <1>1, AtWorkIs
  <1>3. /\ \A u \in Row : task'[u] = IF u = t THEN "working" ELSE task[u]
        /\ task[t] \in {"queued", "assigned"}
    BY <1>1 DEF TypeOK, Claimable, Seen, RUNNABLE
  <1>4. /\ \A j \in Tick : j # k => tick'[j] = tick[j]
        /\ tick'[k].running = tick[k].running \cup {t} /\ tick'[k].phase = "working"
        /\ ~Indexed(tick'[k])
    <2>1. tick'[k] = [tick[k] EXCEPT !.running = @ \cup {t}]
      BY <1>1 DEF TypeOK
    <2>2. tick'[k].running = tick[k].running \cup {t} /\ tick'[k].phase = "working"
      BY <1>1, <2>1 DEF TickRow
    <2> QED BY <1>1, <2>2 DEF Indexed, TypeOK
  <1>5. Present(task') = Present(task)
    BY <1>3 DEF Present
  <1>6. \A u \in Twin : u \in Row
    BY DEF Row
  <1>7. DoneStays
    BY <1>3 DEF DoneStays, Completed
  <1>8. Whole' /\ Planned' /\ TwinsCome' /\ LinkedAtOnce' /\ LinkedFirst' /\ Linked'
    <2>1. Present(task)' = Present(task)
      BY <1>5 DEF Present
    <2>2. Linked'
      BY <1>1, <1>2, <2>1 DEF Linked
    <2>3. (\E u \in Twin : task'[u] # "absent") => (\E u \in Twin : task[u] # "absent")
      BY <1>3, <1>6
    <2> QED BY <1>1, <2>1, <2>2, <2>3 DEF Whole, Planned, TwinsCome, LinkedAtOnce, LinkedFirst
  <1>9. TwinsGo'
    BY <1>2, <1>3, <1>6 DEF TwinsGo, TwinsGone
  <1>10. OldRows'
    <2>1. \A j \in Tick : Indexed(tick'[j]) => Indexed(tick[j]) /\ tick'[j] = tick[j]
      BY <1>4
    <2>2. (\E u \in Twin : task'[u] # "absent") => (\E u \in Twin : task[u] # "absent")
      BY <1>3, <1>6
    <2> QED BY <1>5, <2>1, <2>2 DEF OldRows, Present, Indexed
  <1>20. Cancels'
    <2>1. \A j \in Tick : Indexed(tick'[j]) => Indexed(tick[j]) /\ tick'[j] = tick[j]
      BY <1>4
    <2>2. \A u \in Row : task'[u] = "cancelled" => task[u] = "cancelled"
      BY <1>3
    <2>3. (\E u \in Twin : task[u] # "absent") => (\E u \in Twin : task'[u] # "absent")
      BY <1>3, <1>6
    <2> QED BY <2>1, <2>2, <2>3 DEF Cancels, Indexed
  <1>11. RowsAgree'
    <2>1. OneTick => \A j \in Tick : j = k
      BY DEF OneTick
    <2> QED BY <1>4, <2>1 DEF RowsAgree, Indexed, OneTick
  <1>12. Lanes'
    <2> SUFFICES ASSUME NEW j \in Tick
                 PROVE  /\ tick'[j].phase = "working" \/ (tick'[j].phase = "building" /\ tick'[j].then = "off")
                             => holder' = j
                        /\ tick'[j].running # {} => tick'[j].phase = "working"
                        /\ tick'[j].running \subseteq In(task', {"working", "queued"})
      BY DEF Lanes, In
    <2>1. CASE j = k
      <3>1. tick[k].running \subseteq In(task, {"working", "queued"})
        BY DEF Lanes
      <3>2. tick'[k].running \subseteq In(task', {"working", "queued"})
        BY <1>3, <1>4, <3>1 DEF In
      <3> QED BY <1>1, <1>2, <1>4, <2>1, <3>2
    <2>2. CASE j # k
      BY <1>1, <1>2, <1>4, <2>2 DEF Lanes
    <2> QED BY <2>1, <2>2
  <1>13. ASSUME NEW i \in 1..Len(GATES), t = GATES[i]
         PROVE  Work \cup {GATES[j] : j \in 1..(i - 1)} \subseteq In(task, Completed)
    <2>1. \A d \in dependsOn[t] : task[d] \in Completed
      BY <1>1 DEF Claimable, dependenciesReady, Seen, Completed, TypeOK
    <2> QED BY <1>1, <1>2, <1>13, <2>1, InputsOfGate
  <1>14. StartsInOrder
    BY <1>3, <1>13, GateIndex DEF StartsInOrder
  <1>15. Ordered'
    <2> SUFFICES ASSUME NEW i \in 1..Len(GATES), ~PriorDone(i)
                 PROVE  Unstarted(GATES[i])'
      BY <1>7, DonePrior DEF Ordered
    <2>1. GATES[i] # t
      BY <1>13 DEF PriorDone, Prior
    <2>2. Unstarted(GATES[i]) /\ GATES[i] \in Row
      BY GateIndex DEF Ordered
    <2>3. task'[GATES[i]] \notin Started
      BY <1>3, <2>1, <2>2 DEF Unstarted
    <2>4. ASSUME NEW j \in Tick
          PROVE  /\ GATES[i] \notin tick'[j].running
                 /\ Indexed(tick'[j]) => tick'[j].rows[GATES[i]] \notin Started
      BY <1>4, <2>1, <2>2 DEF Unstarted
    <2> QED BY <2>3, <2>4 DEF Unstarted, Indexed
  <1> QED BY <1>7, <1>8, <1>9, <1>10, <1>11, <1>12, <1>14, <1>15, <1>20 DEF ChainKept

LEMMA ChainFinish ==
  ASSUME ParkedInv, TypeOK', Chained, ~cold', NEW k \in Tick, NEW t \in Row, Finish(k, t)
  PROVE  ChainKept
  <1> USE DEF Chained
  <1>1. /\ TypeOK /\ tick[k] \in TickRow /\ t \in tick[k].running
        /\ tick' = [tick EXCEPT ![k].running = @ \ {t}]
        /\ UNCHANGED <<command, dependsOn, known, holder>>
    BY DEF ParkedInv, TypeOK, Finish
  <1>2. tick[k].phase = "working" /\ task[t] \in {"working", "queued"}
    BY <1>1 DEF Lanes, In
  <1>3. /\ Linked /\ TwinsGone /\ holder = k /\ ~Indexed(tick[k])
        /\ \A j \in Tick : j # k => tick[j].running = {} /\ tick[j].phase # "working"
    BY <1>1, <1>2, AtWorkIs
  <1>4. \A u \in Row :
          \/ u = t /\ task'[u] \in {"completed", "refused", "failed"}
          \/ task'[u] = task[u]
          \/ u # t /\ task[u] = "blocked" /\ task'[u] \in {"assigned", "blocked"}
    <2>1. PICK outcome \in Outcome(t) :
            LET freed == IF outcome = "failed" THEN {}
                         ELSE {u \in In(Seen, {"blocked"}) :
                           t \in dependsOn[u] /\ \A d \in dependsOn[u] \ {t} : Seen[d] \in Completed}
            IN \E states \in [freed -> {"assigned", "blocked"}] :
                 /\ Offered(freed, states)
                 /\ task' = [u \in Row |-> IF u = t THEN outcome
                                           ELSE IF u \in freed THEN states[u] ELSE task[u]]
      BY DEF Finish
    <2> DEFINE freed == IF outcome = "failed" THEN {}
                        ELSE {u \in In(Seen, {"blocked"}) :
                          t \in dependsOn[u] /\ \A d \in dependsOn[u] \ {t} : Seen[d] \in Completed}
    <2>2. PICK states \in [freed -> {"assigned", "blocked"}] :
            task' = [u \in Row |-> IF u = t THEN outcome
                                   ELSE IF u \in freed THEN states[u] ELSE task[u]]
      BY <2>1
    <2>3. \A u \in freed : task[u] = "blocked" /\ states[u] \in {"assigned", "blocked"}
      BY <2>2 DEF In, Seen
    <2>4. outcome \in {"completed", "refused", "failed"}
      BY DEF Outcome
    <2> HIDE DEF freed
    <2> QED BY <2>2, <2>3, <2>4
  <1>5. /\ \A j \in Tick : j # k => tick'[j] = tick[j]
        /\ tick'[k].running = tick[k].running \ {t} /\ tick'[k].phase = "working"
        /\ ~Indexed(tick'[k])
    <2>1. tick'[k] = [tick[k] EXCEPT !.running = @ \ {t}]
      BY <1>1 DEF TypeOK
    <2>2. tick'[k].running = tick[k].running \ {t} /\ tick'[k].phase = "working"
      BY <1>1, <1>2, <2>1 DEF TickRow
    <2> QED BY <1>1, <2>2 DEF Indexed, TypeOK
  <1>6. Present(task') = Present(task)
    BY <1>2, <1>4 DEF Present
  <1>7. \A u \in Twin : u \in Row /\ task'[u] = task[u]
    <2>1. \A u \in Twin : u \in Row
      BY DEF Row
    <2> QED BY <1>2, <1>3, <1>4, <2>1 DEF TwinsGone
  <1>8. DoneStays
    BY <1>2, <1>4 DEF DoneStays, Completed
  <1>9. Whole' /\ Planned' /\ TwinsCome' /\ LinkedAtOnce' /\ LinkedFirst' /\ TwinsGo'
    <2>1. Present(task)' = Present(task)
      BY <1>6 DEF Present
    <2>2. Linked'
      BY <1>1, <1>3, <2>1 DEF Linked
    <2>3. (\E u \in Twin : task'[u] # "absent") => (\E u \in Twin : task[u] # "absent")
      BY <1>7
    <2>4. TwinsGone'
      BY <1>3, <1>7 DEF TwinsGone
    <2> QED BY <1>1, <2>1, <2>2, <2>3, <2>4
          DEF Whole, Planned, TwinsCome, LinkedAtOnce, LinkedFirst, TwinsGo
  <1>10. OldRows'
    <2>1. \A j \in Tick : Indexed(tick'[j]) => Indexed(tick[j]) /\ tick'[j] = tick[j]
      BY <1>5
    <2>2. (\E u \in Twin : task'[u] # "absent") => (\E u \in Twin : task[u] # "absent")
      BY <1>7
    <2> QED BY <1>6, <2>1, <2>2 DEF OldRows, Present, Indexed
  <1>20. Cancels'
    <2>1. \A j \in Tick : Indexed(tick'[j]) => Indexed(tick[j]) /\ tick'[j] = tick[j]
      BY <1>5
    <2>2. \A u \in Row : task'[u] = "cancelled" => task[u] = "cancelled"
      BY <1>4
    <2>3. (\E u \in Twin : task[u] # "absent") => (\E u \in Twin : task'[u] # "absent")
      BY <1>7
    <2> QED BY <2>1, <2>2, <2>3 DEF Cancels, Indexed
  <1>11. RowsAgree'
    <2>1. OneTick => \A j \in Tick : j = k
      BY DEF OneTick
    <2> QED BY <1>5, <2>1 DEF RowsAgree, Indexed, OneTick
  <1>12. Lanes'
    <2> SUFFICES ASSUME NEW j \in Tick
                 PROVE  /\ tick'[j].phase = "working" \/ (tick'[j].phase = "building" /\ tick'[j].then = "off")
                             => holder' = j
                        /\ tick'[j].running # {} => tick'[j].phase = "working"
                        /\ tick'[j].running \subseteq In(task', {"working", "queued"})
      BY DEF Lanes, In
    <2>1. CASE j = k
      <3>1. tick[k].running \subseteq In(task, {"working", "queued"})
        BY DEF Lanes
      <3>2. tick'[k].running \subseteq In(task', {"working", "queued"})
        BY <1>4, <1>5, <3>1 DEF In
      <3> QED BY <1>1, <1>3, <1>5, <2>1, <3>2
    <2>2. CASE j # k
      BY <1>1, <1>3, <1>5, <2>2 DEF Lanes
    <2> QED BY <2>1, <2>2
  <1>13. StartsInOrder
    BY <1>4, GateIndex DEF StartsInOrder
  <1>14. Ordered'
    <2> SUFFICES ASSUME NEW i \in 1..Len(GATES), ~PriorDone(i)
                 PROVE  Unstarted(GATES[i])'
      BY <1>8, DonePrior DEF Ordered
    <2>1. Unstarted(GATES[i]) /\ GATES[i] \in Row
      BY GateIndex DEF Ordered
    <2>2. GATES[i] # t
      BY <1>1, <2>1 DEF Unstarted
    <2>3. task'[GATES[i]] \notin Started
      BY <1>4, <2>1, <2>2, NotStarted DEF Unstarted
    <2>4. ASSUME NEW j \in Tick
          PROVE  /\ GATES[i] \notin tick'[j].running
                 /\ Indexed(tick'[j]) => tick'[j].rows[GATES[i]] \notin Started
      BY <1>5, <2>1 DEF Unstarted
    <2> QED BY <2>3, <2>4 DEF Unstarted, Indexed
  <1> QED BY <1>8, <1>9, <1>10, <1>11, <1>12, <1>13, <1>14, <1>20 DEF ChainKept

\* What a tick that enters has read.
LEMMA EnterRows ==
  ASSUME ParkedInv, Chained, NEW k \in Tick, Enter(k)
  PROVE  /\ TypeOK /\ tick[k] \in TickRow /\ Indexed(tick[k]) /\ command # "received"
         /\ tick[k].rows \in [Row -> TaskState]
         /\ Present(tick[k].rows) \subseteq Present(task)
         /\ Work \cup {"qa"} \subseteq Present(tick[k].rows)
         /\ (\E u \in Twin : task[u] # "absent") =>
              Present(task) = Row /\ Present(tick[k].rows) = Row
         /\ \A j \in Tick : tick[j].running = {} /\ ~Lane(tick[j])
         /\ Seen = task
  <1>1. TypeOK /\ tick[k].phase = "acquiring" /\ holder = NoTick
    BY DEF ParkedInv, Enter
  <1>2. Indexed(tick[k]) /\ command # "received" /\ tick[k] \in TickRow
        /\ tick[k].rows \in [Row -> TaskState]
    BY <1>1 DEF Indexed, ParkedInv, Parked, NothingQueued, NoTickRow, TypeOK, TickRow
  <1>3. \A j \in Tick : tick[j].running = {} /\ ~Lane(tick[j])
    BY <1>1, BoundAssumption DEF Chained, Lanes, Lane
  <1>4. Seen = task
    <2>1. \A t \in Row : t \notin known => task[t] = "absent"
      BY DEF Chained, Whole, Present
    <2>2. task \in [Row -> TaskState]
      BY <1>1 DEF TypeOK
    <2> QED BY <2>1, <2>2 DEF Seen
  <1> QED BY <1>1, <1>2, <1>3, <1>4 DEF Chained, OldRows, TwinsCome

\* A gate is created only where there is none.
LEMMA CreatedWasAbsent ==
  ASSUME ParkedInv, Chained, NEW k \in Tick, Enter(k), NEW g \in GateType,
         Missing(tick[k].rows, g)
  PROVE  task[g] = "absent"
  <1> SUFFICES ASSUME task[g] # "absent" PROVE FALSE
    OBVIOUS
  <1> DEFINE rows == tick[k].rows
  <1>1. g \in Row /\ g \notin Work /\ typeOf(g) = g
    BY ConstantRows, RowAssumption DEF typeOf
  <1>2. g \in Gates(Seen, g)
    BY <1>1, EnterRows DEF Gates, Present
  <1>3. task[g] = "cancelled"
    BY <1>2 DEF Missing, Raced
  <1>4. Present(rows) = Row
    BY <1>1, <1>3, EnterRows DEF Chained, Cancels
  <1>5. g \in Gates(rows, g)
    BY <1>1, <1>4 DEF Gates
  <1> QED BY <1>5 DEF Missing

\* In a project whose gates are not linked yet, all of them but QA are created.
LEMMA AllCreated ==
  ASSUME ParkedInv, Chained, NEW k \in Tick, Enter(k), ~Linked, NEW g \in GateType \ {"qa"}
  PROVE  Missing(tick[k].rows, g)
  <1> DEFINE rows == tick[k].rows
  <1>1. Present(task) \subseteq Work \cup {"qa"}
    BY DEF Chained, LinkedAtOnce
  <1>2. Present(rows) \subseteq Work \cup {"qa"} /\ Present(Seen) \subseteq Work \cup {"qa"}
    BY <1>1, EnterRows
  <1>3. typeOf("qa") = "qa"
    BY ConstantRows, RowAssumption DEF typeOf
  <1>4. \A other : Present(other) \subseteq Work \cup {"qa"} => Gates(other, g) = {}
    BY <1>3 DEF Gates
  <1> QED BY <1>2, <1>4 DEF Missing, Raced

\* Without duplicates, or when the index is not old, no tick cancels what is completed.
LEMMA DoneIsNoDuplicate ==
  ASSUME NoRace, ParkedInv, Chained, NEW k \in Tick, Enter(k),
         NEW t \in Row, task[t] \in Completed
  PROVE  t \notin Duplicates(tick[k].rows)
  <1> DEFINE rows == tick[k].rows
  <1> SUFFICES ASSUME t \in Duplicates(rows) PROVE FALSE
    OBVIOUS
  <1> DEFINE type == typeOf(t)
             kept == Kept(rows, type)
             G == Gates(rows, type)
  <1>1. t \in Present(rows) /\ type \in GateType /\ t \in G /\ t # kept
    BY DuplicatesAre
  <1>2. kept \in G /\ G \subseteq {type} \cup TwinsOf(type)
    BY <1>1, KeptIsGate, GatesAre
  <1>3. ~(Twin = {})
    BY <1>1, <1>2 DEF TwinsOf
  <1>4. OneTick /\ rows[t] = task[t]
    BY <1>3, EnterRows DEF NoRace, Chained, RowsAgree, Settled
  <1>5. \A u \in Twin : task[u] \notin Completed
    <2>1. CASE TwinsGone
      BY <2>1 DEF TwinsGone, Completed
    <2>2. CASE NoneIn(Touched)
      BY <2>2 DEF NoneIn, In, Touched, Started
    <2> QED BY <2>1, <2>2 DEF Chained, TwinsGo
  <1>6. \A u \in Twin : u \in Row /\ rows[u] \notin Completed
    BY <1>4, <1>5, EnterRows DEF Chained, RowsAgree, Settled, Row
  <1>7. t = type
    BY <1>1, <1>2, <1>4, <1>6 DEF TwinsOf
  <1>8. Rank(rows[t]) = 0 /\ \A u \in Twin : Rank(rows[u]) \in {1, 2}
    BY <1>4, <1>6 DEF Rank
  <1>9. kept \in Twin
    BY <1>1, <1>2, <1>7 DEF TwinsOf
  <1> DEFINE best == {u \in G : \A v \in G : Rank(rows[u]) <= Rank(rows[v])}
  <1>10. t \in best
    BY <1>1, <1>2, <1>7, <1>8 DEF TwinsOf
  <1>11. kept = CHOOSE u \in best : type \in best => u = type
    BY DEF Kept
  <1>12. kept = t
    <2> HIDE DEF best, kept
    <2>1. kept = CHOOSE u \in best : u = type
      BY <1>7, <1>10, <1>11
    <2> QED BY <1>7, <1>10, <2>1
  <1> QED BY <1>1, <1>12

\* The rows that are put as they were are QA, and rows that were not done since.
LEMMA PutBackAre ==
  ASSUME NoRace, ParkedInv, Chained, NEW k \in Tick, Enter(k),
         NEW t \in PutBack(tick[k].rows), t # "qa"
  PROVE  /\ t \in Present(tick[k].rows) /\ t \in Row /\ t # "integrity" /\ t \notin GateType \ Present(task)
         /\ OneTick
         /\ task[t] \in Settled \/ tick[k].rows[t] \in Settled => tick[k].rows[t] = task[t]
  <1> DEFINE rows == tick[k].rows
  <1>1. ASSUME "integrity" \in Present(rows)
        PROVE  dependsOn["integrity"] = {"qa"}
    <2>1. "integrity" \in Present(task) /\ "integrity" \notin Work \cup {"qa"}
      BY <1>1, EnterRows, ConstantRows, RowAssumption
    <2>2. Linked
      BY <2>1 DEF Chained, LinkedAtOnce
    <2>3. dependsOn[GATES[Len(GATES)]] \in Behind(Len(GATES))
      BY <2>2, GateIndex DEF Linked
    <2> QED BY <2>3, BehindLast, GateIndex
  <1>2. Survivor(rows, "integrity") = "integrity"
    BY SurvivorIs, NoTwinsOfEnds, ConstantRows
  <1>3. t \in Present(rows) /\ dependsOn[t] \cap Duplicates(rows) # {}
    BY <1>1, <1>2 DEF PutBack
  <1>4. t # "integrity"
    BY <1>1, <1>3, DuplicatesAre
  <1>5. Twin # {}
    <2>1. PICK d \in Duplicates(rows) : TRUE
      BY <1>3
    <2>2. typeOf(d) \in GateType /\ d \in Gates(rows, typeOf(d)) /\ d # Kept(rows, typeOf(d))
      BY DuplicatesAre
    <2>3. Kept(rows, typeOf(d)) \in Gates(rows, typeOf(d))
      BY <2>2, KeptIsGate
    <2> QED BY <2>2, <2>3, GatesAre DEF TwinsOf
  <1>6. OneTick
    BY <1>5 DEF NoRace
  <1>7. t \in Row /\ t \in Present(task)
    BY <1>3, EnterRows DEF Present
  <1> QED BY <1>3, <1>4, <1>6, <1>7, EnterRows DEF Chained, RowsAgree

\* What a tick that enters makes of the tasks.
LEMMA EnterTasks ==
  ASSUME ParkedInv, Chained, NEW k \in Tick, Enter(k)
  PROVE  LET rows == tick[k].rows
             created == {t \in GateType : Missing(rows, t)}
         IN /\ dependsOn' = NewDependsOn(rows)
            /\ known' = known \cup created
            /\ \A t \in created : task[t] = "absent" /\ task'[t] \in {"assigned", "blocked"}
            /\ \A t \in Row \ created :
                 task'[t] = IF t \in Duplicates(rows) THEN "cancelled"
                            ELSE IF t \in PutBack(rows) THEN rows[t] ELSE task[t]
  <1> DEFINE rows == tick[k].rows
             created == {t \in GateType : Missing(rows, t)}
             ready == {t \in created : \A d \in Previous(rows, t) : Seen[d] \in Completed}
  <1>1. ensureProjectPipeline(rows) /\ rows["qa"] # "absent"
    BY EnterRows DEF Enter, Present
  <1>2. dependsOn' = NewDependsOn(rows) /\ known' = known \cup created
    BY <1>1 DEF ensureProjectPipeline
  <1>3. PICK states \in [created -> {"assigned", "blocked"}] :
          /\ Offered(ready, states)
          /\ task' = [t \in Row |->
               IF t \in created THEN states[t]
               ELSE IF t \in Duplicates(rows) THEN "cancelled"
               ELSE IF t \in PutBack(rows) THEN rows[t]
               ELSE task[t]]
    BY <1>1 DEF ensureProjectPipeline
  <1>4. \A t \in created : t \in Row /\ task[t] = "absent"
    BY CreatedWasAbsent, ConstantRows
  <1>5. \A t \in Row \ created :
          task'[t] = IF t \in Duplicates(rows) THEN "cancelled"
                     ELSE IF t \in PutBack(rows) THEN rows[t] ELSE task[t]
    <2> HIDE DEF created, rows
    <2> QED BY <1>3
  <1>6. \A t \in created : task'[t] \in {"assigned", "blocked"}
    <2> HIDE DEF created, rows
    <2> QED BY <1>3, <1>4
  <1> QED BY <1>2, <1>4, <1>5, <1>6

\* The gates are linked once a tick has entered.
LEMMA EnterLinks ==
  ASSUME ParkedInv, Chained, NEW k \in Tick, Enter(k),
         Present(task') = Present(task) \cup {t \in GateType : Missing(tick[k].rows, t)}
  PROVE  Linked'
  <1> DEFINE rows == tick[k].rows
  <1>1. dependsOn' = NewDependsOn(rows)
    BY EnterTasks
  <1>2. GateType \subseteq Present(task')
    <2>1. CASE Linked
      BY <2>1 DEF Linked
    <2>2. CASE ~Linked
      <3>1. "qa" \in Present(task)
        BY EnterRows
      <3> QED BY <2>2, <3>1, AllCreated
    <2> QED BY <2>1, <2>2
  <1>3. ASSUME NEW i \in 1..Len(GATES)
        PROVE  NewDependsOn(rows)[GATES[i]] \in Behind(i)
    <2> DEFINE g == GATES[i]
    <2>1. g \in Row /\ g \in GateType /\ g \notin Work
      BY GateIndex
    <2>2. CASE g = "qa" \/ Missing(rows, g)
      <3>1. NewDependsOn(rows)[g] = Previous(rows, g)
        BY <2>1, <2>2 DEF NewDependsOn
      <3> QED BY <3>1, PreviousBehind, EnterRows
    <2>3. CASE ~(g = "qa" \/ Missing(rows, g))
      <3>1. Linked
        BY <2>1, <2>3, AllCreated
      <3>2. dependsOn[g] \in Behind(i)
        BY <3>1 DEF Linked
      <3>3. CASE g \in Present(rows) /\ g = Survivor(rows, "integrity") /\ "qa" \notin dependsOn[g]
        <4>1. g = "integrity"
          BY <3>3, SurvivorIs, NoTwinsOfEnds, ConstantRows
        <4>2. i = Len(GATES)
          BY <4>1, GateIndex, GateAssumption
        <4> QED BY <3>2, <3>3, <4>2, BehindLast
      <3>4. CASE g \notin Present(rows)
        BY <2>1, <2>3, <3>2, <3>4 DEF NewDependsOn
      <3>5. CASE g \in Present(rows) /\ ~(g = Survivor(rows, "integrity") /\ "qa" \notin dependsOn[g])
        <4>1. NewDependsOn(rows)[g] = Rewired(rows, dependsOn[g])
          BY <2>1, <2>3, <3>5 DEF NewDependsOn
        <4> QED BY <3>2, <4>1, RewiredBehind
      <3> QED BY <3>3, <3>4, <3>5
    <2> QED BY <2>2, <2>3
  <1>4. Present(task)' = Present(task')
    BY DEF Present
  <1> QED BY <1>1, <1>2, <1>3, <1>4 DEF Linked

\* And duplicates are gone.
LEMMA EnterCancels ==
  ASSUME NoRace, ParkedInv, Chained, NEW k \in Tick, Enter(k)
  PROVE  TwinsGone'
  <1> DEFINE rows == tick[k].rows
  <1> SUFFICES ASSUME NEW u \in Twin PROVE task'[u] \in {"absent", "cancelled"}
    BY DEF TwinsGone
  <1>1. u \in Row /\ u \notin Work /\ u \notin GateType /\ u # "qa"
    BY ConstantRows, RowAssumption DEF Row
  <1>2. task'[u] = IF u \in Duplicates(rows) THEN "cancelled"
                   ELSE IF u \in PutBack(rows) THEN rows[u] ELSE task[u]
    BY <1>1, EnterTasks
  <1>3. CASE task[u] = "absent"
    <2>1. u \notin Present(rows)
      BY <1>1, <1>3, EnterRows DEF Present
    <2> QED BY <1>1, <1>2, <1>3, <2>1, PutBackAre
  <1>4. CASE TwinsGone /\ task[u] # "absent"
    <2>1. task[u] = "cancelled"
      BY <1>4 DEF TwinsGone
    <2>2. u \in PutBack(rows) => rows[u] = "cancelled"
      BY <1>1, <2>1, PutBackAre DEF Settled
    <2> QED BY <1>2, <2>1, <2>2
  <1>5. CASE NoneIn(Touched) /\ task[u] # "absent"
    <2> DEFINE type == typeOf(u)
               G == Gates(rows, type)
               best == {t \in G : \A v \in G : Rank(rows[t]) <= Rank(rows[v])}
    <2>1. Present(rows) = Row
      BY <1>5, EnterRows
    <2>2. type \in GateType /\ typeOf(type) = type /\ type # u /\ type \in Row /\ type \notin Work
      <3>1. type \in GateType
        BY RowAssumption DEF typeOf
      <3> QED BY <1>1, <3>1, ConstantRows, RowAssumption DEF typeOf
    <2>3. type \in G
      BY <2>1, <2>2 DEF Gates
    <2>4. \A t \in Row : Rank(rows[t]) = 2
      <3>1. \A t \in Row : rows[t] \notin Touched
        BY <1>5 DEF NoneIn, In
      <3> QED BY <3>1 DEF Rank, Touched, Started
    <2>5. G \subseteq Row
      BY DEF Gates, Present
    <2>6. type \in best
      BY <2>3, <2>4, <2>5
    <2>7. Kept(rows, type) = CHOOSE t \in best : type \in best => t = type
      BY DEF Kept
    <2>8. Kept(rows, type) = type
      <3> HIDE DEF best, type
      <3>1. Kept(rows, type) = CHOOSE t \in best : t = type
        BY <2>6, <2>7
      <3> QED BY <2>6, <3>1
    <2>9. u \in Duplicates(rows)
      BY <1>1, <2>1, <2>2, <2>8 DEF Duplicates
    <2> QED BY <1>2, <2>9
  <1> QED BY <1>3, <1>4, <1>5 DEF Chained, TwinsGo

LEMMA ChainEnter ==
  ASSUME NoRace, ParkedInv, TypeOK', Chained, ~cold', NEW k \in Tick, Enter(k)
  PROVE  ChainKept
  <1> USE DEF Chained
  <1> DEFINE rows == tick[k].rows
             created == {t \in GateType : Missing(rows, t)}
  <1>1. /\ TypeOK /\ Indexed(tick[k]) /\ command # "received" /\ command' = command
        /\ rows \in [Row -> TaskState]
        /\ Present(rows) \subseteq Present(task) /\ Work \cup {"qa"} \subseteq Present(rows)
        /\ \A j \in Tick : tick[j].running = {} /\ ~Lane(tick[j])
        /\ (\E u \in Twin : task[u] # "absent") => Present(task) = Row
    BY EnterRows DEF Enter
  <1>2. /\ known' = known \cup created
        /\ \A t \in created : task[t] = "absent" /\ task'[t] \in {"assigned", "blocked"}
        /\ \A t \in Row \ created :
             task'[t] = IF t \in Duplicates(rows) THEN "cancelled"
                        ELSE IF t \in PutBack(rows) THEN rows[t] ELSE task[t]
    BY EnterTasks
  <1>3. created \subseteq GateType /\ created \subseteq Row
    BY ConstantRows
  <1>4. /\ \A j \in Tick : j # k => tick'[j] = tick[j]
        /\ tick'[k].running = {} /\ tick'[k].phase = "working" /\ holder' = k
    <2>1. tick' = [tick EXCEPT ![k].phase = "working", ![k].rows = NoRows] /\ holder' = k
      BY DEF Enter
    <2>2. tick[k] \in TickRow
      BY <1>1 DEF TypeOK
    <2>3. tick'[k] = [tick[k] EXCEPT !.phase = "working", !.rows = NoRows]
      BY <1>1, <2>1 DEF TypeOK
    <2> QED BY <1>1, <2>1, <2>2, <2>3 DEF TypeOK, TickRow
  <1>5. PutBack(rows) \subseteq Present(rows) /\ \A t \in Duplicates(rows) : t \in Present(rows)
    BY <1>1, DuplicatesAre DEF PutBack
  <1>6. Present(task') = Present(task) \cup created
    <2> HIDE DEF created, rows
    <2>1. \A t \in Row \ created : task'[t] # "absent" <=> task[t] # "absent"
      BY <1>1, <1>2, <1>5 DEF Present
    <2> QED BY <1>2, <1>3, <2>1 DEF Present
  <1>7. Linked'
    BY <1>6, EnterLinks
  <1>8. TwinsGone'
    BY EnterCancels
  <1>9. \A u \in Twin : u \in Row /\ u \notin created
    BY <1>3, RowAssumption DEF Row
  <1>10. \A u \in Twin : task'[u] # "absent" <=> task[u] # "absent"
    <2> HIDE DEF created
    <2> QED BY <1>6, <1>9 DEF Present
  <1>11. Whole' /\ Planned' /\ TwinsCome' /\ LinkedAtOnce' /\ LinkedFirst' /\ TwinsGo'
    <2>1. Present(task)' = Present(task')
      BY DEF Present
    <2>2. Whole' /\ Planned' /\ TwinsCome'
      BY <1>1, <1>2, <1>3, <1>6, <1>10, <2>1 DEF Whole, Planned, TwinsCome
    <2> QED BY <1>7, <1>8, <2>2 DEF LinkedAtOnce, LinkedFirst, TwinsGo
  <1>12. \A j \in Tick : Indexed(tick'[j]) => Indexed(tick[j]) /\ tick'[j] = tick[j] /\ j # k
    BY <1>4 DEF Indexed
  <1>13. OldRows'
    BY <1>6, <1>10, <1>12 DEF OldRows, Present, Indexed
  <1>14. RowsAgree'
    <2>1. OneTick => \A j \in Tick : j = k
      BY DEF OneTick
    <2> QED BY <1>12, <2>1 DEF RowsAgree, Indexed, OneTick
  <1>15. Cancels'
    <2> SUFFICES ASSUME NEW t \in Row, \A u \in Twin : task[u] = "absent"
                 PROVE  /\ task'[t] # "cancelled"
                        /\ \A j \in Tick : Indexed(tick'[j]) => tick'[j].rows[t] # "cancelled"
      BY <1>10 DEF Cancels, Indexed
    <2>1. rows[t] # "cancelled" /\ task[t] # "cancelled"
      BY <1>1 DEF Cancels
    <2>2. t \notin Duplicates(rows)
      <3> SUFFICES ASSUME t \in Duplicates(rows) PROVE FALSE
        OBVIOUS
      <3>1. /\ typeOf(t) \in GateType /\ t \in Gates(rows, typeOf(t))
            /\ t # Kept(rows, typeOf(t))
        BY DuplicatesAre
      <3>2. Kept(rows, typeOf(t)) \in Gates(rows, typeOf(t))
        BY <3>1, KeptIsGate
      <3>3. PICK u \in Twin : u \in Present(rows)
        BY <3>1, <3>2, GatesAre DEF TwinsOf
      <3> QED BY <1>1, <3>3 DEF Present
    <2>3. task'[t] # "cancelled"
      <3> HIDE DEF created, rows
      <3> QED BY <1>2, <2>1, <2>2
    <2>4. \A j \in Tick : Indexed(tick[j]) => tick[j].rows[t] # "cancelled"
      BY DEF Cancels
    <2> QED BY <1>12, <2>3, <2>4
  <1>16. Lanes'
    <2>1. \A j \in Tick : j # k => tick'[j].running = {} /\ ~Lane(tick'[j])
      BY <1>1, <1>4
    <2> QED BY <1>4, <2>1 DEF Lanes, Lane
  <1>17. DoneStays
    <2> SUFFICES ASSUME NEW t \in Row \ {"qa"}, task[t] \in Completed
                 PROVE  task'[t] = task[t]
      BY DEF DoneStays
    <2>1. t \notin created
      <3> HIDE DEF created
      <3> QED BY <1>2 DEF Completed
    <2>2. t \notin Duplicates(rows)
      BY DoneIsNoDuplicate
    <2>3. t \in PutBack(rows) => rows[t] = task[t]
      BY PutBackAre DEF Settled
    <2> HIDE DEF created, rows
    <2> QED BY <1>2, <2>1, <2>2, <2>3
  <1>18. ASSUME NEW i \in 1..Len(GATES), task'[GATES[i]] \in Started, task'[GATES[i]] # task[GATES[i]]
         PROVE  GATES[i] \in PutBack(rows) /\ rows[GATES[i]] = task'[GATES[i]]
    <2>1. GATES[i] \in Row
      BY GateIndex
    <2> HIDE DEF created, rows
    <2> QED BY <1>2, <1>18, <2>1, NotStarted
  <1>19. StartsInOrder
    <2> SUFFICES ASSUME NEW i \in 1..Len(GATES), task[GATES[i]] # "working",
                        task'[GATES[i]] = "working"
                 PROVE  Work \cup {GATES[j] : j \in 1..(i - 1)} \subseteq In(task, Completed)
      BY DEF StartsInOrder
    <2>1. GATES[i] \in PutBack(rows) /\ rows[GATES[i]] \in Started
      BY <1>18 DEF Started
    <2>2. PriorDone(i)
      BY <1>1, <2>1 DEF Ordered, Unstarted
    <2>3. GATES[i] # "integrity"
      BY <2>1, PutBackAre, ConstantRows
    <2>4. \A j \in 1..(i - 1) : GATES[j] # "qa"
      <3> SUFFICES ASSUME NEW j \in 1..(i - 1), GATES[j] = "qa" PROVE FALSE
        OBVIOUS
      <3>1. Len(GATES) \in Nat /\ j \in 1..Len(GATES)
        BY GateAssumption
      <3>2. j = Len(GATES) - 1
        BY <3>1, GateIndex, GateAssumption
      <3>3. i = Len(GATES)
        BY <3>1, <3>2
      <3> QED BY <2>3, <3>3, GateIndex
    <2>5. "qa" \notin Work
      BY ConstantRows, RowAssumption
    <2> QED BY <2>2, <2>4, <2>5 DEF PriorDone, Prior
  <1>20. Ordered'
    <2> SUFFICES ASSUME NEW i \in 1..Len(GATES), ~PriorDone(i)
                 PROVE  Unstarted(GATES[i])'
      BY <1>17, DonePrior DEF Ordered
    <2>1. Unstarted(GATES[i])
      BY DEF Ordered
    <2>2. task'[GATES[i]] \notin Started
      BY <1>1, <1>18, <2>1 DEF Unstarted
    <2>3. ASSUME NEW j \in Tick
          PROVE  /\ GATES[i] \notin tick'[j].running
                 /\ Indexed(tick'[j]) => tick'[j].rows[GATES[i]] \notin Started
      BY <1>4, <1>12, <2>1 DEF Unstarted
    <2> QED BY <2>2, <2>3 DEF Unstarted, Indexed
  <1> QED BY <1>11, <1>13, <1>14, <1>15, <1>16, <1>17, <1>19, <1>20 DEF ChainKept

LEMMA ChainInit == Init => ChainInv
  <1> SUFFICES ASSUME Init PROVE ChainInv
    OBVIOUS
  <1>1. ParkedInv
    BY TypeInit, ParkedInit DEF ParkedInv
  <1>2. \A k \in Tick : tick[k] = NoTickRow
    BY DEF Init
  <1>3. OldRows /\ RowsAgree /\ Lanes
    BY <1>2 DEF OldRows, RowsAgree, Lanes, Indexed, NoTickRow
  <1>4. \A states \in {Started, Touched} : In(task, states) = {} => NoneIn(states)
    <2>1. In(NoRows, Started) = {} /\ In(NoRows, Touched) = {}
      BY NotStarted DEF NoRows, In, Touched
    <2> QED BY <1>2, <2>1 DEF NoneIn, AtWork, NoTickRow
  <1>5. \A t \in Row : task[t] \in {"absent", "queued", "blocked"}
    BY DEF Init, NoRows
  <1>6. NoneIn(Started) /\ NoneIn(Touched)
    <2>1. In(task, Started) = {} /\ In(task, Touched) = {}
      BY <1>5, NotStarted DEF In, Touched
    <2> QED BY <1>4, <2>1
  <1>7. LinkedFirst /\ TwinsGo
    BY <1>6 DEF LinkedFirst, TwinsGo
  <1>8. Cancels
    BY <1>2, <1>5 DEF Cancels, Indexed, NoTickRow
  <1>9. Ordered
    BY <1>2, <1>5, GateIndex, NotStarted DEF Ordered, Unstarted, Indexed, NoTickRow
  <1>10. Whole /\ Planned /\ TwinsCome /\ LinkedAtOnce
    <2>1. CASE command = "received" /\ task = NoRows /\ known = {}
      <3>1. Present(task) = {} /\ \A t \in Row : task[t] = "absent"
        BY <2>1 DEF NoRows, Present
      <3> QED BY <2>1, <3>1 DEF Whole, Planned, TwinsCome, LinkedAtOnce, Row
    <2>2. CASE /\ command = "acknowledged" /\ known = Row
               /\ task = [t \in Row |-> IF t \in Work THEN "queued" ELSE "blocked"]
               /\ dependsOn = [t \in Row |-> IF t \in Work THEN {} ELSE Crossed(t)]
      <3>1. Present(task) = Row
        BY <2>2 DEF Present
      <3>2. Whole /\ Planned /\ TwinsCome
        BY <2>2, <3>1, ConstantRows DEF Whole, Planned, TwinsCome
      <3>3. ASSUME NEW i \in 1..Len(GATES)
            PROVE  dependsOn[GATES[i]] \in Behind(i)
        <4>1. GATES[i] \in Row /\ GATES[i] \notin Work /\ GATES[i] \notin Twin /\ GATES[i] \in GateType
          BY GateIndex, RowAssumption
        <4>2. typeOf(GATES[i]) = GATES[i]
          BY <4>1 DEF typeOf
        <4>3. (CHOOSE j \in 1..Len(GATES) : GATES[j] = typeOf(GATES[i])) = i
          BY <4>2, IndexOf
        <4> DEFINE twins == {u \in Twin : i > 1 /\ TwinType[u] = GATES[i - 1]}
        <4>4. Crossed(GATES[i]) =
                IF i = 1 THEN Work
                ELSE IF GATES[i] \in GateType /\ twins # {} THEN twins ELSE {GATES[i - 1]}
          BY <4>3 DEF Crossed
        <4>5. dependsOn[GATES[i]] = Crossed(GATES[i])
          BY <2>2, <4>1
        <4>6. twins \subseteq TwinsOf(GATES[i - 1])
          BY DEF TwinsOf
        <4> HIDE DEF twins
        <4> QED BY <4>4, <4>5, <4>6 DEF Behind
      <3>4. Linked
        BY <3>1, <3>3, ConstantRows DEF Linked
      <3> QED BY <3>2, <3>4 DEF LinkedAtOnce
    <2> QED BY <2>1, <2>2 DEF Init
  <1> QED BY <1>1, <1>3, <1>7, <1>8, <1>9, <1>10 DEF ChainInv, Chained

LEMMA ChainStep ==
  ASSUME NoRace, ChainInv, [Next]_vars
  PROVE  ChainInv' /\ (~cold' => ~cold /\ DoneStays /\ StartsInOrder)
  <1>1. ParkedInv /\ ParkedInv' /\ TypeOK'
    BY ParkedStep DEF ChainInv, ParkedInv
  <1>2. cold => cold'
    BY DEF Next, CommandStep, QueueCommand, Acknowledge, CommandCut, Approve, Reject, NewIsolate,
           RetireStaleWork, RecoveryLists, TickStep, DeliveryUnread, TickCut, Recover, RecoverChain,
           RetireChain, TickStarts, NotReady, Finalize, BuildDelivery, CompleteProject, Acquire,
           TickEnds, Enter, Finish, Start, Finalized, vars
  <1> SUFFICES ASSUME ~cold' PROVE ~cold /\ ChainKept
    BY <1>1, <1>2 DEF ChainInv, ChainKept
  <1>3. ~cold /\ Chained
    BY <1>1, <1>2 DEF ChainInv
  <1>4. CASE QueueCommand
    BY <1>1, <1>3, <1>4, ChainQueue
  <1>5. CASE Acknowledge \/ CommandCut \/ Approve \/ Reject \/ UNCHANGED vars
             \/ \E rows \in SUBSET Row : RetireStaleWork(rows)
    BY <1>1, <1>3, <1>5, ChainCommand
  <1>6. ASSUME NEW k \in Tick, RecoveryLists(k) \/ TickStep(k) \/ DeliveryUnread(k) \/ TickCut(k)
        PROVE  ChainKept
    BY <1>1, <1>3, <1>6, ChainFinalize, ChainTickStarts, ChainEnter, ChainFinish DEF TickStep
  <1>7. ASSUME NEW k \in Tick, NEW t \in Row, Start(k, t) PROVE ChainKept
    BY <1>1, <1>3, <1>7, ChainStart
  <1>8. CASE NewIsolate
    BY <1>1, <1>3, <1>8, ChainNewIsolate
  <1> QED BY <1>3, <1>4, <1>5, <1>6, <1>7, <1>8 DEF Next, CommandStep

\* The chain of an isolate that lacks no row is whole, whatever the ticks, the recoveries and
\* the restarts have done (ensureProjectPipeline, approveProject, recoverStuckProjects).
THEOREM ChainInvariant == ASSUME NoRace PROVE Spec => []ChainInv
  <1>1. ChainInv /\ [Next]_vars => ChainInv'
    BY ChainStep
  <1> QED BY <1>1, ChainInit, PTL DEF Spec

\* claimNextTask starts no gate before all of the plan and the gates before it are
\* completed, if two ticks do not overlap in a project that has duplicates of a gate.
THEOREM GatesComeInOrderHolds == ASSUME NoRace PROVE Spec => GatesComeInOrder
  <1>1. ChainInv /\ [Next]_vars =>
          [\A i \in 1..Len(GATES) :
             ~cold /\ task[GATES[i]] # "working" /\ task'[GATES[i]] = "working"
               => Work \cup {GATES[j] : j \in 1..(i - 1)} \subseteq In(task, Completed)]_vars
    <2> SUFFICES ASSUME ChainInv, [Next]_vars, NEW i \in 1..Len(GATES), ~cold,
                        task[GATES[i]] # "working", task'[GATES[i]] = "working"
                 PROVE  Work \cup {GATES[j] : j \in 1..(i - 1)} \subseteq In(task, Completed)
      OBVIOUS
    <2>1. ~NewIsolate
      BY DEF NewIsolate
    <2>2. ~cold'
      BY <2>1 DEF Next, CommandStep, QueueCommand, Acknowledge, CommandCut, Approve, Reject,
           RetireStaleWork, RecoveryLists, TickStep, DeliveryUnread, TickCut, Recover, RecoverChain,
           RetireChain, TickStarts, NotReady, Finalize, BuildDelivery, CompleteProject, Acquire,
           TickEnds, Enter, Finish, Start, Finalized, vars
    <2> QED BY <2>2, ChainStep DEF StartsInOrder
  <1> QED BY <1>1, ChainInvariant, PTL DEF Spec, GatesComeInOrder

LEMMA DeliveredStep ==
  ASSUME NoRace, ChainInv, DeliveredMeansDone, [Next]_vars
  PROVE  DeliveredMeansDone'
  <1> SUFFICES ASSUME artifact', ~cold'
               PROVE  Work \cup (GateType \ {"qa"}) \subseteq In(task', {"completed"})
    BY DEF DeliveredMeansDone, In
  <1>1. ~cold /\ DoneStays /\ Chained /\ ParkedInv
    BY ChainStep DEF ChainInv
  <1>2. \A t \in Work \cup (GateType \ {"qa"}) : t \in Row \ {"qa"}
    BY ConstantRows, RowAssumption
  <1>3. CASE artifact
    BY <1>1, <1>2, <1>3 DEF DeliveredMeansDone, DoneStays, In, Completed
  <1>4. ASSUME NEW k \in Tick, BuildDelivery(k)
        PROVE  Work \cup (GateType \ {"qa"}) \subseteq In(task', {"completed"})
    <2>1. Deliverable(Seen) /\ task' = task /\ tick[k].phase # "off"
      BY <1>4 DEF BuildDelivery, Finalizing
    <2>2. command # "received"
      BY <1>1, <2>1 DEF ParkedInv, Parked, NothingQueued, NoTickRow
    <2>3. Seen = task
      <3>1. \A t \in Row : t \notin known => task[t] = "absent"
        BY <1>1 DEF Chained, Whole, Present
      <3>2. task \in [Row -> TaskState]
        BY <1>1 DEF ParkedInv, TypeOK
      <3> QED BY <3>1, <3>2 DEF Seen
    <2>4. Work \subseteq Present(task)
      BY <1>1, <2>2 DEF Chained, Planned
    <2> QED BY <2>1, <2>3, <2>4 DEF Deliverable
  <1>5. CASE ~artifact /\ ~\E k \in Tick : BuildDelivery(k)
    <2>1. artifact' = artifact
      BY <1>5 DEF Next, CommandStep, QueueCommand, Acknowledge, CommandCut, Approve, Reject,
           NewIsolate, RetireStaleWork, RecoveryLists, TickStep, DeliveryUnread, TickCut, Recover,
           RecoverChain, RetireChain, TickStarts, NotReady, Finalize, CompleteProject, Acquire,
           TickEnds, Enter, Finish, Start, Finalized, vars
    <2> QED BY <1>5, <2>1
  <1> QED BY <1>3, <1>4, <1>5

\* What buildFinalDelivery delivered is completed and stays so: the tasks of the plan and
\* every gate but the QA, which a tick may put back (pipeline-gates.js).
THEOREM DeliveredMeansDoneHolds == ASSUME NoRace PROVE Spec => []DeliveredMeansDone
  <1>1. Init => DeliveredMeansDone
    BY DEF Init, DeliveredMeansDone
  <1>2. ChainInv /\ DeliveredMeansDone /\ [Next]_vars => DeliveredMeansDone'
    BY DeliveredStep
  <1> QED BY <1>1, <1>2, ChainInvariant, PTL DEF Spec

-----------------------------------------------------------------------------
\* A delivered project rests.

\* What keeps a delivered project: nobody has yet to decide on it, and no tick is at it,
\* nor holds it as it was.
DeliveredRests ==
  ~early =>
    /\ project.delivered =>
         /\ ~Waiting /\ project.state = "completed"
         /\ \A k \in Tick : tick[k].phase \in {"off", "indexed", "swept"}
    /\ \A k \in Tick : tick[k].phase = "listed" => ~tick[k].held.delivered

RestInv == ParkedInv /\ DeliveredRests

LEMMA RestInit == Init => DeliveredRests
  BY DEF Init, DeliveredRests, NoProject, NoTickRow

LEMMA WaitingStays ==
  ASSUME ParkedInv, ~early, ~Waiting, [Next]_vars, command # "received"
  PROVE  ~Waiting'
  <1>1. requiresApproval' = requiresApproval
    BY DEF requiresApproval, Next, CommandStep, QueueCommand, Acknowledge, CommandCut, Approve,
           Reject, NewIsolate, RetireStaleWork, RecoveryLists, TickStep, DeliveryUnread, TickCut,
           Recover, RecoverChain, RetireChain, TickStarts, NotReady, Finalize, BuildDelivery,
           CompleteProject, Acquire, TickEnds, Enter, Finish, Start, Finalized, vars
  <1>2. CASE ~requiresApproval
    BY <1>1, <1>2 DEF Waiting
  <1>3. CASE requiresApproval
    <2>1. command \notin {"received", "flushing"} /\ approval # "pending"
      BY <1>3 DEF Waiting
    <2>2. command' \notin {"received", "flushing"} /\ approval' # "pending"
      BY <2>1 DEF Next, CommandStep, QueueCommand, Acknowledge, CommandCut, Approve,
           Reject, NewIsolate, RetireStaleWork, RecoveryLists, TickStep, DeliveryUnread, TickCut,
           Recover, RecoverChain, RetireChain, TickStarts, NotReady, Finalize, BuildDelivery,
           CompleteProject, Acquire, TickEnds, Enter, Finish, Start, Finalized, vars
    <2> QED BY <2>2 DEF Waiting
  <1> QED BY <1>2, <1>3

\* A tick that is on its way, and what it may become.
LEMMA PhaseOfGoOn ==
  ASSUME TypeOK, NEW k \in Tick, NEW next \in {"off", "swept"}, GoOn(k, next)
  PROVE  /\ tick'[k].phase = next
         /\ \A j \in Tick : j # k => tick'[j] = tick[j]
  <1>1. tick[k] \in TickRow
    BY DEF TypeOK
  <1>2. CASE next = "off"
    BY <1>2 DEF GoOn, TypeOK, NoTickRow
  <1>3. CASE next = "swept"
    <2>1. tick'[k] = [tick[k] EXCEPT !.phase = "swept", !.then = "off"]
          /\ \A j \in Tick : j # k => tick'[j] = tick[j]
      BY <1>3 DEF GoOn, TypeOK
    <2> QED BY <1>1, <1>3, <2>1 DEF TickRow
  <1> QED BY <1>2, <1>3

\* While a delivered project rests no step changes it.
LEMMA DeliveredStays ==
  ASSUME RestInv, ~early, project.delivered, [Next]_vars
  PROVE  project' = project
  <1> USE DEF RestInv
  <1>1. TypeOK /\ ~Waiting /\ project.state = "completed"
        /\ \A k \in Tick : tick[k].phase \in {"off", "indexed", "swept"}
    BY DEF DeliveredRests, ParkedInv
  <1>2. command # "received"
    BY <1>1 DEF ParkedInv, Parked, NothingQueued
  <1>3. ~(requiresApproval /\ command = "flushing") /\ approval # "pending"
    BY <1>1 DEF Waiting, ParkedInv, Parked, ApprovalIsAsked
  <1>4. CASE CommandStep \/ CommandCut \/ Approve \/ Reject
    BY <1>2, <1>3, <1>4 DEF CommandStep, QueueCommand, Acknowledge, CommandCut, Approve, Reject
  <1>5. ASSUME NEW k \in Tick, RecoveryLists(k) \/ TickStep(k) \/ DeliveryUnread(k) \/ TickCut(k)
        PROVE  project' = project
    <2>1. tick[k].phase \in {"off", "indexed", "swept"}
      BY <1>1
    <2>2. ~RecoveryLists(k)
      BY <1>1 DEF RecoveryLists, ACTIVE_PROJECT_STATES
    <2>3. ~Recover(k) /\ ~RecoverChain(k) /\ ~RetireChain(k)
      BY <2>1 DEF Recover, RecoverChain, RetireChain
    <2>4. (\E orphans \in SUBSET Row : TickStarts(k, orphans)) => project' = project
      BY <1>1 DEF TickStarts, AutoApproves
    <2>5. ~Finalize(k) /\ ~BuildDelivery(k) /\ ~CompleteProject(k) /\ ~DeliveryUnread(k)
      BY <1>1, <2>1 DEF Finalize, BuildDelivery, CompleteProject, DeliveryUnread, Finalizing, InSweep
    <2>6. ~Acquire(k) /\ ~Enter(k)
      BY <1>1, <2>1 DEF Acquire, Workable, Enter
    <2>7. NotReady(k) \/ TickEnds(k) \/ TickCut(k) \/ (\E t \in Row : Finish(k, t))
            => project' = project
      BY DEF NotReady, TickEnds, TickCut, Finish
    <2> QED BY <1>5, <2>2, <2>3, <2>4, <2>5, <2>6, <2>7 DEF TickStep
  <1>6. ASSUME NEW k \in Tick, NEW t \in Row, Start(k, t) PROVE project' = project
    BY <1>6 DEF Start
  <1>7. CASE NewIsolate \/ (\E rows \in SUBSET Row : RetireStaleWork(rows)) \/ UNCHANGED vars
    BY <1>7 DEF NewIsolate, RetireStaleWork, vars
  <1> QED BY <1>4, <1>5, <1>6, <1>7 DEF Next

\* Where a tick may go while the delivered project rests.
LEMMA RestPhases ==
  ASSUME RestInv, ~early, project.delivered, [Next]_vars, NEW j \in Tick
  PROVE  tick'[j].phase \in {"off", "indexed", "swept"}
  <1> USE DEF RestInv
  <1>1. TypeOK /\ project.state = "completed"
        /\ \A k \in Tick : tick[k].phase \in {"off", "indexed", "swept"}
    BY DEF DeliveredRests, ParkedInv
  <1>2. CASE CommandStep \/ CommandCut \/ Approve \/ Reject
             \/ (\E rows \in SUBSET Row : RetireStaleWork(rows)) \/ UNCHANGED vars
    <2>1. tick' = tick
      BY <1>2 DEF CommandStep, QueueCommand, Acknowledge, CommandCut, Approve, Reject,
                  RetireStaleWork, vars
    <2> QED BY <1>1, <2>1
  <1>3. ASSUME NEW k \in Tick, RecoveryLists(k) \/ TickStep(k) \/ DeliveryUnread(k) \/ TickCut(k)
        PROVE  tick'[j].phase \in {"off", "indexed", "swept"}
    <2>1. tick[k].phase \in {"off", "indexed", "swept"}
      BY <1>1
    <2>2. ~RecoveryLists(k) /\ ~Recover(k) /\ ~RecoverChain(k) /\ ~RetireChain(k)
      BY <1>1, <2>1 DEF RecoveryLists, ACTIVE_PROJECT_STATES, Recover, RecoverChain, RetireChain
    <2>3. ~Finalize(k) /\ ~BuildDelivery(k) /\ ~CompleteProject(k) /\ ~DeliveryUnread(k)
      BY <1>1, <2>1
         DEF Finalize, BuildDelivery, CompleteProject, DeliveryUnread, Finalizing, InSweep
    <2>4. ~Acquire(k) /\ ~Enter(k)
      BY <1>1, <2>1 DEF Acquire, Workable, Enter
    <2>5. ASSUME NEW orphans \in SUBSET Row, TickStarts(k, orphans)
          PROVE  tick'[j].phase \in {"off", "indexed", "swept"}
      <3> DEFINE index == [t \in Row |-> IF t \in known THEN task'[t] ELSE "absent"]
                 row == [NoTickRow EXCEPT !.phase = "indexed", !.rows = index]
      <3>1. tick' = [tick EXCEPT ![k] = row]
        BY <2>5 DEF TickStarts
      <3>2. row.phase = "indexed"
        BY DEF NoTickRow
      <3> HIDE DEF row
      <3>3. tick'[j] \in {row, tick[j]}
        BY <1>1, <3>1 DEF TypeOK
      <3> QED BY <1>1, <3>2, <3>3
    <2>6. ASSUME NotReady(k) \/ TickEnds(k) \/ TickCut(k)
          PROVE  tick'[j].phase \in {"off", "indexed", "swept"}
      <3>1. PICK next \in {"off", "swept"} : GoOn(k, next)
        BY <2>6 DEF NotReady, TickEnds, TickCut
      <3> QED BY <1>1, <3>1, PhaseOfGoOn
    <2>7. ASSUME NEW t \in Row, Finish(k, t)
          PROVE  tick'[j].phase \in {"off", "indexed", "swept"}
      <3>1. tick' = [tick EXCEPT ![k].running = @ \ {t}] /\ tick[j] \in TickRow
        BY <1>1, <2>7 DEF Finish, TypeOK
      <3>2. tick'[j] \in {tick[j], [tick[j] EXCEPT !.running = @ \ {t}]}
        BY <1>1, <3>1 DEF TypeOK
      <3>3. [tick[j] EXCEPT !.running = @ \ {t}].phase = tick[j].phase
        BY <3>1 DEF TickRow
      <3> QED BY <1>1, <3>2, <3>3
    <2> QED BY <1>3, <2>2, <2>3, <2>4, <2>5, <2>6, <2>7 DEF TickStep
  <1>4. ASSUME NEW k \in Tick, NEW t \in Row, Start(k, t) PROVE FALSE
    BY <1>1, <1>4 DEF Start
  <1>5. CASE NewIsolate
    BY <1>5 DEF NewIsolate, NoTickRow
  <1> QED BY <1>2, <1>3, <1>4, <1>5 DEF Next

\* Nothing but the end of a delivery makes a project a delivered one.
LEMMA DeliveredByEnd ==
  ASSUME RestInv, ~early, ~project.delivered, [Next]_vars,
         \A k \in Tick : ~CompleteProject(k)
  PROVE  ~project'.delivered
  <1> USE DEF RestInv
  <1>1. TypeOK /\ project \in Project
        /\ \A k \in Tick : /\ tick[k].held \in Project
                           /\ tick[k].phase = "listed" => tick[k].held.delivered = FALSE
        /\ project.delivered = FALSE
    BY DEF DeliveredRests, ParkedInv, TypeOK, TickRow, Project
  <1> SUFFICES project'.delivered = FALSE
    OBVIOUS
  <1>2. \A row \in Project, state \in ProjectState :
          [row EXCEPT !.state = state].delivered = row.delivered
    BY DEF Project
  <1>3. {"queued", "awaiting_approval", "failed", "active", "blocked", "completed"}
          \subseteq ProjectState
    BY DEF ProjectState
  <1>4. CASE CommandStep \/ CommandCut \/ Approve \/ Reject \/ NewIsolate \/ UNCHANGED vars
             \/ (\E rows \in SUBSET Row : RetireStaleWork(rows))
    <2>1. \/ project' = project \/ project' = [project EXCEPT !.state = "queued"]
          \/ project' \in {[state |-> "queued", delivered |-> FALSE],
                          [state |-> "awaiting_approval", delivered |-> FALSE]}
      BY <1>4 DEF CommandStep, QueueCommand, Acknowledge, CommandCut, Approve, Reject, NewIsolate,
                  RetireStaleWork, approveProject, vars
    <2>2. CASE project' = [project EXCEPT !.state = "queued"]
      BY <1>1, <1>2, <1>3, <2>2
    <2>3. CASE project' \in {[state |-> "queued", delivered |-> FALSE],
                           [state |-> "awaiting_approval", delivered |-> FALSE]}
      BY <2>3
    <2>4. CASE project' = project
      BY <1>1, <2>4
    <2> QED BY <2>1, <2>2, <2>3, <2>4
  <1>5. ASSUME NEW k \in Tick, RecoveryLists(k) \/ TickStep(k) \/ DeliveryUnread(k) \/ TickCut(k)
        PROVE  project'.delivered = FALSE
    <2>1. CASE Recover(k) \/ RecoverChain(k)
      <3>1. project' = project
            \/ \E state \in ProjectState : project' = [tick[k].held EXCEPT !.state = state]
        BY <1>3, <2>1 DEF Recover, RecoverChain, Recovers
      <3>2. tick[k].held \in Project /\ tick[k].held.delivered = FALSE
        BY <1>1, <2>1 DEF Recover, RecoverChain
      <3>3. ASSUME NEW state \in ProjectState, project' = [tick[k].held EXCEPT !.state = state]
            PROVE  project'.delivered = FALSE
        BY <1>2, <3>2, <3>3
      <3> QED BY <1>1, <3>1, <3>3
    <2>2. CASE RetireChain(k) \/ DeliveryUnread(k) \/ Finalize(k)
               \/ \E orphans \in SUBSET Row : TickStarts(k, orphans)
      <3>1. project' = project \/ \E state \in ProjectState : project' = [project EXCEPT !.state = state]
        BY <1>3, <2>2 DEF RetireChain, DeliveryUnread, Finalize, TickStarts, Finalized
      <3> QED BY <1>1, <1>2, <3>1
    <2>3. CASE Enter(k)
      <3>1. project' \in {project, [project EXCEPT !.state = "active"]}
        BY <2>3 DEF Enter, ensureProjectPipeline
      <3>2. [project EXCEPT !.state = "active"].delivered = project.delivered
        BY <1>1, <1>2, <1>3
      <3> QED BY <1>1, <3>1, <3>2
    <2>4. CASE RecoveryLists(k) \/ TickCut(k) \/ NotReady(k) \/ BuildDelivery(k) \/ Acquire(k)
               \/ TickEnds(k) \/ \E t \in Row : Finish(k, t)
      <3>1. project' = project
        BY <2>4 DEF RecoveryLists, TickCut, NotReady, BuildDelivery, Acquire, TickEnds, Finish
      <3> QED BY <1>1, <3>1
    <2> QED BY <1>5, <2>1, <2>2, <2>3, <2>4 DEF TickStep
  <1>6. ASSUME NEW k \in Tick, NEW t \in Row, Start(k, t) PROVE project'.delivered = FALSE
    BY <1>1, <1>6 DEF Start
  <1> QED BY <1>4, <1>5, <1>6 DEF Next

\* What a recovery holds it has listed while it was not delivered.
LEMMA HeldStays ==
  ASSUME RestInv, ~early, ~project.delivered, [Next]_vars, NEW j \in Tick,
         tick'[j].phase = "listed"
  PROVE  ~tick'[j].held.delivered
  <1> USE DEF RestInv
  <1>1. TypeOK /\ tick[j] \in TickRow /\ tick \in [Tick -> TickRow]
        /\ (tick[j].phase = "listed" => ~tick[j].held.delivered)
    BY DEF DeliveredRests, ParkedInv, TypeOK
  <1> SUFFICES ASSUME tick'[j] # tick[j] PROVE ~tick'[j].held.delivered
    BY <1>1
  <1>2. ~(CommandStep \/ CommandCut \/ Approve \/ Reject \/ UNCHANGED vars
          \/ \E rows \in SUBSET Row : RetireStaleWork(rows))
    BY DEF CommandStep, QueueCommand, Acknowledge, CommandCut, Approve, Reject, RetireStaleWork, vars
  <1>3. ~NewIsolate
    BY DEF NewIsolate, NoTickRow
  <1>4. ASSUME NEW k \in Tick, NEW row, tick' = [tick EXCEPT ![k] = row], row.phase # "listed"
        PROVE  FALSE
    BY <1>1, <1>4
  <1>5. ASSUME NEW k \in Tick, NEW t \in Row, Start(k, t) PROVE FALSE
    <2> DEFINE row == [tick[k] EXCEPT !.running = @ \cup {t}]
    <2>1. tick' = [tick EXCEPT ![k] = row] /\ tick[k].phase = "working" /\ tick[k] \in TickRow
      BY <1>1, <1>5 DEF Start
    <2>2. row.phase # "listed"
      BY <2>1 DEF TickRow
    <2> QED BY <1>4, <2>1, <2>2
  <1>6. ASSUME NEW k \in Tick, NEW t \in Row, Finish(k, t) PROVE ~tick'[j].held.delivered
    <2>1. tick' = [tick EXCEPT ![k].running = @ \ {t}]
      BY <1>6 DEF Finish
    <2>2. tick'[j].phase = tick[j].phase /\ tick'[j].held = tick[j].held
      BY <1>1, <2>1 DEF TickRow
    <2> QED BY <1>1, <2>2
  <1>7. ASSUME NEW k \in Tick, NEW next \in {"off", "swept"}, GoOn(k, next)
        PROVE  FALSE
    <2>1. tick'[k].phase = next /\ \A i \in Tick : i # k => tick'[i] = tick[i]
      BY <1>1, <1>7, PhaseOfGoOn
    <2> QED BY <2>1
  <1>8. ASSUME NEW k \in Tick, RecoveryLists(k) PROVE ~tick'[j].held.delivered
    <2> DEFINE row == [NoTickRow EXCEPT !.phase = "listed", !.held = project, !.found = Found]
    <2>1. tick' = [tick EXCEPT ![k] = row]
      BY <1>8 DEF RecoveryLists
    <2>2. row.held = project
      BY DEF NoTickRow
    <2> HIDE DEF row
    <2> QED BY <1>1, <2>1, <2>2
  <1>9. ASSUME NEW k \in Tick, Recover(k) \/ RecoverChain(k) \/ RetireChain(k) PROVE FALSE
    <2> DEFINE row == [NoTickRow EXCEPT !.phase = "retiring"]
    <2>1. tick' = [tick EXCEPT ![k] = Recovered] \/ tick' = [tick EXCEPT ![k] = row]
      BY <1>9 DEF Recover, RecoverChain, RetireChain, Recovers
    <2>2. Recovered.phase # "listed" /\ row.phase # "listed"
      BY DEF Recovered, NoTickRow
    <2> QED BY <1>4, <2>1, <2>2
  <1>10. ASSUME NEW k \in Tick, NEW orphans \in SUBSET Row, TickStarts(k, orphans) PROVE FALSE
    <2> DEFINE index == [t \in Row |-> IF t \in known THEN task'[t] ELSE "absent"]
               row == [NoTickRow EXCEPT !.phase = "indexed", !.rows = index]
    <2>1. tick' = [tick EXCEPT ![k] = row]
      BY <1>10 DEF TickStarts
    <2>2. row.phase # "listed"
      BY DEF NoTickRow
    <2> HIDE DEF row
    <2> QED BY <1>4, <2>1, <2>2
  <1>11. ASSUME NEW k \in Tick, BuildDelivery(k) \/ Acquire(k) \/ Enter(k) PROVE FALSE
    <2>1. \E phase \in {"building", "acquiring", "working"} :
            tick'[k].phase = phase /\ \A i \in Tick : i # k => tick'[i] = tick[i]
      <3>1. tick[k] \in TickRow
        BY <1>1
      <3>2. CASE BuildDelivery(k)
        <4>1. PICK next \in {"off", "swept"} :
                tick' = [tick EXCEPT ![k].phase = "building", ![k].then = next]
          BY <3>2 DEF BuildDelivery
        <4> QED BY <1>1, <3>1, <4>1 DEF TickRow
      <3>3. CASE Acquire(k)
        BY <1>1, <3>1, <3>3 DEF Acquire, TickRow
      <3>4. CASE Enter(k)
        <4>1. tick' = [tick EXCEPT ![k].phase = "working", ![k].rows = NoRows]
          BY <3>4 DEF Enter
        <4> QED BY <1>1, <3>1, <4>1 DEF TickRow
      <3> QED BY <1>11, <3>2, <3>3, <3>4
    <2> QED BY <2>1
  <1>12. ASSUME NEW k \in Tick, NotReady(k) \/ Finalize(k) \/ CompleteProject(k) \/ TickEnds(k)
                                \/ DeliveryUnread(k) \/ TickCut(k)
         PROVE  FALSE
    <2>1. tick[k].then \in {"off", "swept"}
      BY <1>1 DEF TickRow
    <2>2. \E next \in {"off", "swept"} : GoOn(k, next)
      BY <1>12, <2>1 DEF NotReady, Finalize, CompleteProject, TickEnds, DeliveryUnread, TickCut
    <2> QED BY <1>7, <2>2
  <1> QED BY <1>2, <1>3, <1>5, <1>6, <1>8, <1>9, <1>10, <1>11, <1>12 DEF Next, TickStep

LEMMA RestStep ==
  ASSUME OneTick, RestInv, [Next]_vars
  PROVE  RestInv'
  <1>1. ParkedInv /\ ParkedInv'
    BY ParkedStep DEF RestInv
  <1>2. early => early'
    BY DEF Next, CommandStep, QueueCommand, Acknowledge, CommandCut, Approve, Reject, NewIsolate,
           RetireStaleWork, RecoveryLists, TickStep, DeliveryUnread, TickCut, Recover, RecoverChain,
           RetireChain, TickStarts, NotReady, Finalize, BuildDelivery, CompleteProject, Acquire,
           TickEnds, Enter, Finish, Start, Finalized, vars
  <1> SUFFICES ASSUME ~early' PROVE DeliveredRests'
    BY <1>1 DEF RestInv, DeliveredRests
  <1>3. ~early
    BY <1>2
  <1>4. CASE project.delivered
    <2>1. project' = project /\ \A k \in Tick : tick'[k].phase \in {"off", "indexed", "swept"}
      BY <1>3, <1>4, DeliveredStays, RestPhases
    <2>2. ~Waiting /\ project.state = "completed"
      BY <1>3, <1>4 DEF RestInv, DeliveredRests
    <2>3. command # "received"
      BY <1>1, <2>2 DEF ParkedInv, Parked, NothingQueued
    <2>4. ~Waiting'
      BY <1>1, <1>3, <2>2, <2>3, WaitingStays
    <2> QED BY <2>1, <2>2, <2>4 DEF DeliveredRests
  <1>5. CASE ~project.delivered
    <2>1. \A j \in Tick : tick'[j].phase = "listed" => ~tick'[j].held.delivered
      BY <1>3, <1>5, HeldStays
    <2>2. ASSUME NEW k \in Tick, CompleteProject(k)
          PROVE  /\ ~Waiting' /\ project'.state = "completed"
                 /\ \A j \in Tick : tick'[j].phase \in {"off", "indexed", "swept"}
      <3>1. TypeOK /\ tick[k].phase = "building" /\ tick[k].then \in {"off", "swept"}
        BY <1>1, <2>2 DEF CompleteProject, ParkedInv, TypeOK, TickRow
      <3>2. ~Waiting
        <4>1. ~Quiet(tick[k])
          BY <3>1 DEF Quiet
        <4> QED BY <1>1, <1>3, <4>1 DEF ParkedInv, Parked, NothingStarted, Waiting
      <3>3. command # "received"
        BY <1>1, <3>1 DEF ParkedInv, Parked, NothingQueued, NoTickRow
      <3>4. ~Waiting'
        BY <1>1, <1>3, <3>2, <3>3, WaitingStays
      <3>5. tick'[k].phase = tick[k].then
        BY <2>2, <3>1, PhaseOfGoOn DEF CompleteProject
      <3>6. project'.state = "completed"
        BY <2>2 DEF CompleteProject
      <3> QED BY <3>1, <3>4, <3>5, <3>6 DEF OneTick
    <2>3. project'.delivered => \E k \in Tick : CompleteProject(k)
      BY <1>3, <1>5, DeliveredByEnd
    <2> QED BY <2>1, <2>2, <2>3 DEF DeliveredRests
  <1> QED BY <1>4, <1>5

\* What finalizeCommand completed with a delivery no later tick, recovery, restart or
\* decision changes, if invocations of the cron do not overlap.
THEOREM DeliveryIsKeptHolds == ASSUME OneTick PROVE Spec => DeliveryIsKept
  <1>1. Init => RestInv
    BY TypeInit, ParkedInit, RestInit DEF RestInv, ParkedInv
  <1>2. RestInv /\ [Next]_vars => RestInv'
    BY RestStep
  <1>3. RestInv /\ [Next]_vars =>
          [~early /\ project.delivered => project' = project /\ project.state = "completed"]_vars
    BY DeliveredStays DEF RestInv, DeliveredRests
  <1> QED BY <1>1, <1>2, <1>3, PTL DEF Spec, DeliveryIsKept
=============================================================================
