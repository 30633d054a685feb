-------------------------- MODULE ProjectDelivery --------------------------
(***************************************************************************)
(* How the code of a project is judged and handed over: what each gate of  *)
(* pipeline-gates.js looks at, the requirement matrix, the conditions of   *)
(* delivery.js buildFinalDelivery, what the founder downloads (zip.js) and *)
(* the founder's edits of a file meanwhile (/api/edits, file-editor.js).   *)
(*                                                                         *)
(* One project, its code tasks done: the artifacts they left, each with a  *)
(* page and perhaps a server.  A file is what the checks tell apart.  The  *)
(* life of tasks and gates is ProjectLifecycle's, how a run comes about    *)
(* RuntimeAcceptance's, what a test does AcceptanceRun's.  Native targets, *)
(* credentials and a configuration without a runner are left out.          *)
(***************************************************************************)
EXTENDS Naturals, Sequences, FiniteSets

CONSTANTS
  Draft,       \* what a code task may leave
  MaxArtifacts,
  MaxEdits,
  MaxRuns      \* bound: deployments and runs

\* A page: as it should be, with a placeholder, with a dead control, with a call the
\* security gate forbids, without a word of the request, or with nothing of it but words.
PageKind == {"sound", "stub", "dead", "unsafe", "bare", "echo"}
\* A server that never names what its architecture owes is unbound.
ServerKind == {"sound", "unbound"}
\* foreign: a template that nothing in the request pointed at.
Artifact == [page : PageKind \cup {"absent"}, server : ServerKind \cup {"absent"}, foreign : BOOLEAN]

ASSUME DraftAssumption == Draft \subseteq Artifact
ASSUME DeliveryBounds == MaxArtifacts \in Nat \ {0} /\ MaxEdits \in Nat /\ MaxRuns \in Nat

VARIABLES
  backend,    \* the architecture has a server
  spec,       \* the requirements of the specification
  arts,       \* the artifacts, in the order they were created
  deployment, \* of the record of the project
  run,        \* the recorded acceptance run
  events,     \* deployments and runs so far
  refused,    \* gates that completed with passed: false
  done,       \* gates completed
  state,      \* of the project
  delivered,  \* history: what the delivery judged
  edits       \* the edit records

project == <<backend, spec>>
evidence == <<deployment, run, events>>
deliveryVars == <<project, arts, evidence, refused, done, state, delivered, edits>>

-----------------------------------------------------------------------------
\* The files of a project.

\* store.list gives the artifacts as the isolate met them: oldest first where they were
\* created or synchronised, newest first where they were hydrated.
Orders == LET n == Len(arts) IN {[i \in 1..n |-> i], [i \in 1..n |-> n + 1 - i]}
NewestFirst == LET n == Len(arts) IN [i \in 1..n |-> n + 1 - i]
Latest == arts[Len(arts)]

\* Of each path the first that is met; absent when none has it.
First(order, path) ==
  LET having == {i \in DOMAIN order : arts[order[i]][path] # "absent"}
  IN IF having = {} THEN "absent"
     ELSE arts[order[CHOOSE i \in having : \A j \in having : i <= j]][path]
Merged(order) == [path \in {"page", "server"} |-> First(order, path)]
Empty(files) == files.page = "absent" /\ files.server = "absent"
HasEntry(files) == files.server # "absent"
BackendOwed(files) == backend \/ HasEntry(files)

Fidelity(files) == files.page \in {"sound", "unsafe", "bare", "echo"}
Placeholders == \E i \in DOMAIN arts : arts[i].page = "stub"
Unsafe == \E i \in DOMAIN arts : arts[i].page = "unsafe"

-----------------------------------------------------------------------------
\* Requirements, and the run that proves them.

\* Records survive, changes propagate, nothing is a stub, it is of a kind of product.
Requirement == {"data", "live", "stub", "shape"}
Critical == {"data", "live", "stub"}
NeedsServer == {"live"}
OnlyAtRuntime == {"live"}     \* verifiableStatically: false
Wordless == {"stub", "shape"} \* no evidence vocabulary

Test == {"create", "refresh", "realtime", "fake", "ui"}
\* Without a server everything is proven, if at all, in the page.
RequiredTests(r) ==
  CASE ~backend -> {"ui"}
    [] backend /\ r = "data" -> {"create", "refresh"}
    [] backend /\ r = "live" -> {"realtime"}
    [] backend /\ r = "stub" -> {"fake"}
    [] backend /\ r = "shape" -> {}
EvidenceKeys(r) ==
  CASE r = "data" -> {"create", "refresh"}
    [] r = "live" -> {"realtime"}
    [] OTHER -> {}

Result == {"PASS", "FAIL", "MISSING"}
NoRun == [tests |-> [t \in Test |-> "MISSING"], http |-> FALSE]
Runs == [tests : [Test -> Result], http : BOOLEAN]
RunRecorded == run # NoRun

\* runtimeRequirementEvidence.
RuntimeStatus(r) ==
  IF RequiredTests(r) = {} THEN "NOT APPLICABLE"
  ELSE IF \E t \in RequiredTests(r) : run.tests[t] = "FAIL" THEN "FAIL"
  ELSE IF \E t \in RequiredTests(r) : run.tests[t] = "MISSING" THEN "BLOCKED"
  ELSE "PASS"

\* runtimeObligations: what the architecture owes, and what any requirement asks.
OwedTests ==
  (IF backend THEN {"create", "refresh", "fake"} ELSE {"ui"}) \cup UNION {RequiredTests(r) : r \in spec}

\* evaluateRuntimeAcceptance: its status, in the order it asks.
Report(files) ==
  IF ~Fidelity(files) \/ (backend /\ ~HasEntry(files)) THEN "failed"
  ELSE IF Empty(files) \/ ~RunRecorded \/ (backend /\ (deployment # "deployed" \/ ~run.http))
  THEN "blocked"
  ELSE IF \E t \in OwedTests : run.tests[t] = "FAIL" THEN "failed"
  ELSE IF \E t \in OwedTests : run.tests[t] = "MISSING" THEN "blocked"
  ELSE IF \E r \in spec \cap Critical : RuntimeStatus(r) # "PASS" THEN "blocked"
  ELSE "passed"

\* A row of buildRequirementMatrix, before the run has its say.
Words(files) == {f \in {files.page, files.server} : f \notin {"absent", "bare", "unbound"}}
FromSource(r, files) ==
  IF Empty(files) THEN "BLOCKED"
  ELSE IF r = "stub" THEN IF Fidelity(files) THEN "PASS" ELSE "FAIL"
  ELSE IF \E t \in EvidenceKeys(r) : run.tests[t] = "PASS" THEN "PASS"
  ELSE IF r \in Wordless THEN "PASS"
  ELSE IF Words(files) = {} THEN "FAIL"
  ELSE IF RunRecorded \/ r \in OnlyAtRuntime THEN "PARTIAL"
  ELSE "PASS"

\* With runtimeRequired, what ran badly or did not run overrides what the source says.
Row(r, files, atRuntime) ==
  LET status == FromSource(r, files)
      lesser(s) == IF r \in Critical THEN s ELSE "PARTIAL"
  IN IF r \in NeedsServer /\ ~backend THEN "NOT APPLICABLE"
     ELSE IF ~atRuntime THEN status
     ELSE IF RuntimeStatus(r) = "FAIL" THEN lesser("FAIL")
     ELSE IF RuntimeStatus(r) = "BLOCKED" /\ status = "PASS" THEN lesser("BLOCKED")
     ELSE status

Bad == {"FAIL", "BLOCKED"}
DeliverableMatrix(rows) == \A r \in spec \cap Critical : rows[r] \notin Bad
MatrixAt(files, atRuntime) == [r \in spec |-> Row(r, files, atRuntime)]
\* The gates build it without the run as a condition.
SpecMatrix(files) == MatrixAt(files, FALSE)
NoMatrix(files) == spec = {} \/ Empty(files)

\* evidenceComplete: by the matrix, or by the words of the request where there is none.
EvidenceComplete(files) ==
  IF NoMatrix(files) THEN Words(files) # {} ELSE \A r \in spec : SpecMatrix(files)[r] \notin Bad
SpecDeliverable(files) == NoMatrix(files) \/ DeliverableMatrix(SpecMatrix(files))

-----------------------------------------------------------------------------
\* The gates.

Gates == <<"build", "test", "requirements", "security", "functional-fidelity",
           "production-runtime", "qa", "integrity">>
GateSet == {Gates[n] : n \in 1..Len(Gates)}

\* Mutant: that a run was made over HTTP is taken for its verdict.
ServerRan(files) == (backend => deployment = "deployed") /\ RunRecorded /\ run.http
\* What production-runtime asks of a server, and of an app without one.
ServerProven(files) ==
  /\ backend => deployment = "deployed"
  /\ RunRecorded /\ run.http
  /\ Report(files) = "passed"
LocalProven(files) ==
  /\ Fidelity(files)
  /\ SpecDeliverable(files)
  /\ RunRecorded => Report(files) = "passed"

\* What gateResult checks of the code; that the gates before it are completed it finds so.
Checks(gate, files) ==
  CASE gate = "build" -> ~Placeholders
    [] gate = "test" -> Latest.page # "absent"
    [] gate = "requirements" -> spec # {} => ~Empty(files) /\ SpecDeliverable(files)
    [] gate = "security" -> ~Unsafe /\ ~Placeholders
    [] gate = "functional-fidelity" ->
         Fidelity(files) /\ EvidenceComplete(files) /\ SpecDeliverable(files)
    [] gate = "production-runtime" ->
         IF BackendOwed(files) THEN ServerProven(files) ELSE LocalProven(files)
    [] gate = "qa" ->
         ~Placeholders /\ Fidelity(files) /\ EvidenceComplete(files) /\ SpecDeliverable(files)
    [] gate = "integrity" -> ~Empty(files)

\* The verdict of an earlier gate, of two only: gateRefused.
Reads(gate) ==
  CASE gate = "production-runtime" -> {"functional-fidelity"}
    [] gate = "qa" -> {"functional-fidelity", "production-runtime"}
    [] OTHER -> {}

-----------------------------------------------------------------------------
\* The delivery.

\* Mutant: a gate's verdict stays in its row.
StateOnly(gates) == {}
\* Those whose result says passed: false.
FailedGates(gates) == gates

\* Why buildFinalDelivery refuses, of all its reasons.  Every project here has scheduled a
\* code task (owesCode), so the matrix is built wherever there is a specification.
Refusals(files) ==
  LET owed == BackendOwed(files)
      rows == MatrixAt(files, owed)
  IN {why \in {"fidelity", "missing", "echo", "foreign", "gates", "runtime", "deployment",
               "transport", "entry", "obligation", "matrix"} :
        CASE why = "fidelity" -> ~Empty(files) /\ ~Fidelity(files)
          [] why = "missing" -> ~Empty(files) /\ Words(files) = {}
          [] why = "echo" -> files.page = "echo" /\ files.server # "sound"
          [] why = "foreign" -> \E i \in DOMAIN arts : arts[i].foreign
          [] why = "gates" -> FailedGates(refused) # {}
          [] why = "runtime" -> owed /\ Report(files) # "passed"
          [] why = "deployment" -> owed /\ deployment # "deployed"
          [] why = "transport" -> owed /\ Report(files) = "passed" /\ ~run.http
          [] why = "entry" -> backend /\ ~HasEntry(files)
          [] why = "obligation" -> backend /\ files.server # "sound"
          [] why = "matrix" -> spec # {} /\ ~DeliverableMatrix(rows)}

Nothing == [files |-> [page |-> "absent", server |-> "absent"], rows |-> <<>>, report |-> "none"]

-----------------------------------------------------------------------------
NoEdit == [old |-> "absent", new |-> "absent", status |-> "none"]

DeliveryTypeOK ==
  /\ backend \in BOOLEAN /\ spec \subseteq Requirement
  /\ arts \in Seq(Artifact) /\ Len(arts) \in 1..MaxArtifacts
  /\ deployment \in {"none", "failed", "deployed"} /\ run \in Runs /\ events \in 0..MaxRuns
  /\ done \in 0..Len(Gates) /\ refused \subseteq GateSet
  /\ state \in {"active", "completed", "failed"}
  /\ edits \in Seq([old : PageKind, new : PageKind, status : {"applied", "undone"}])
  /\ Len(edits) <= MaxEdits

DeliveryInit ==
  /\ backend \in BOOLEAN
  /\ spec \in {{}, Requirement}
  /\ arts \in UNION {[1..n -> Draft] : n \in 1..MaxArtifacts}
  /\ deployment = "none" /\ run = NoRun /\ events = 0
  /\ done = 0 /\ refused = {}
  /\ state = "active" /\ delivered = Nothing /\ edits = <<>>

\* The next gate of the chain, in an isolate that lists the artifacts in some order.
Gate ==
  LET gate == Gates[done + 1]
  IN /\ state = "active" /\ done < Len(Gates)
     /\ \E order \in Orders :
          refused' = IF Checks(gate, Merged(order)) /\ Reads(gate) \cap refused = {}
                     THEN refused ELSE refused \cup {gate}
     /\ done' = done + 1
     /\ UNCHANGED <<project, arts, evidence, state, delivered, edits>>

\* A deploy of the server ends.
Deploys ==
  /\ backend /\ events < MaxRuns
  /\ events' = events + 1
  /\ deployment' \in {"failed", "deployed"}
  /\ UNCHANGED <<project, arts, run, refused, done, state, delivered, edits>>

\* A run is recorded: every test as it should be, or all but one.  Against a URL it
\* confirms the deployment.
Records ==
  LET runnable == IF backend THEN Test \ {"ui"} ELSE {"ui"}
  IN /\ events < MaxRuns
     /\ events' = events + 1
     /\ \E odd \in runnable, result \in Result, http \in {FALSE, backend} :
          /\ run' = [http |-> http, tests |->
               [t \in Test |-> IF t \notin runnable THEN "MISSING"
                               ELSE IF t = odd THEN result ELSE "PASS"]]
          /\ deployment' = IF http THEN "deployed" ELSE deployment
     /\ UNCHANGED <<project, arts, refused, done, state, delivered, edits>>

\* finalizeCommand, when the gates are through.
Deliver ==
  /\ state = "active" /\ done = Len(Gates)
  /\ \E order \in Orders :
       LET files == Merged(order)
       IN IF Refusals(files) = {}
          THEN /\ state' = "completed"
               /\ delivered' = [files |-> files, rows |-> MatrixAt(files, BackendOwed(files)),
                                report |-> IF BackendOwed(files) THEN Report(files) ELSE "none"]
          ELSE state' = "failed" /\ UNCHANGED delivered
  /\ UNCHANGED <<project, arts, evidence, refused, done, edits>>

\* POST /api/edits: of the newest artifact, in place.
Edit ==
  /\ Len(edits) < MaxEdits
  /\ Latest.page # "absent"
  /\ \E new \in PageKind \ {Latest.page} :
       /\ arts' = [arts EXCEPT ![Len(arts)].page = new]
       /\ edits' = Append(edits, [old |-> Latest.page, new |-> new, status |-> "applied"])
  /\ UNCHANGED <<project, evidence, refused, done, state, delivered>>

\* POST /api/edits/:id/undo marks the record.
Undo ==
  /\ \E e \in DOMAIN edits :
       /\ edits[e].status = "applied"
       /\ edits' = [edits EXCEPT ![e].status = "undone"]
  /\ UNCHANGED <<project, arts, evidence, refused, done, state, delivered>>

DeliveryNext == Gate \/ Deploys \/ Records \/ Deliver \/ Edit \/ Undo

DeliverySpec == DeliveryInit /\ [][DeliveryNext]_deliveryVars

-----------------------------------------------------------------------------
\* Properties.

\* The rules are written twice, in gateResult and in buildFinalDelivery.  What every gate
\* passes, on the same files and facts, the delivery refuses for nothing but what no gate
\* looks at: the words of the request, a template of something else, an unmet obligation.
PassedGatesDeliver ==
  \A order \in Orders :
    LET files == Merged(order)
    IN (refused = {} /\ \A gate \in GateSet : Checks(gate, files))
       => Refusals(files) \subseteq {"missing", "echo", "foreign", "obligation"}

\* Whatever was edited, deployed or recorded between the gates and the delivery, what is
\* delivered works as code, no gate refused it, no critical requirement failed it, and a
\* server was proven by a run that passed.
DeliveredIsSound ==
  state = "completed" =>
    /\ refused = {}
    /\ Empty(delivered.files) \/ Fidelity(delivered.files)
    /\ DeliverableMatrix(delivered.rows)
    /\ BackendOwed(delivered.files) => delivered.report = "passed"

\* Promises the code does not keep.

\* "the recorded verdict cannot be about a different set of files than the one that was
\* delivered" (runtime-evidence.js 39): what the founder downloads is what was judged.
DownloadIsJudged ==
  state = "completed" /\ edits = <<>> => delivered.files = Merged(NewestFirst)

\* The security gate keeps forbidden calls out of what is delivered.
DeliveredIsSafe == state = "completed" => delivered.files.page # "unsafe"

\* dualStatus of what is delivered: REQUIREMENT VERIFIED.
DeliveredIsVerified ==
  state = "completed" => \A r \in spec \cap Critical :
    delivered.rows[r] \in {"PASS", "NOT APPLICABLE"}

\* "supports undo" (file-editor.js 7).
UndoRestores ==
  \A e \in DOMAIN edits : edits[e].status = "undone" /\ e = Len(edits) => Latest.page = edits[e].old
=============================================================================
