----------------------------- MODULE UserJourney -----------------------------
(***************************************************************************)
(* The founder's journey and the loop that repairs until it passes:        *)
(* runUserJourney (scripts/user-journey.mjs) loads a build into a runtime  *)
(* of its own, takes the planned steps in order against it and records     *)
(* what each showed; repairUntilTheJourneyPasses (scripts/repair-loop.mjs) *)
(* rebuilds and takes the whole journey again.                             *)
(*                                                                         *)
(* A build is what it does; a behaviour it lacks it answers as if it had   *)
(* done it, the others refuse.  One call may get no answer in the 8 s a    *)
(* journey waits.  A row is the title the journey gave it.                 *)
(***************************************************************************)
EXTENDS Naturals, FiniteSets

CONSTANTS
  Plan,       \* what the specification asks: [backend, auth, data, live]
  Build,      \* builds: [does, hub]
  MaxAttempts,\* maxAttempts of the loop
  MaxHangs    \* bound: calls without an answer

Behaviour == {"loads", "handler", "guards", "rejects", "registers", "logs-in", "validates",
              "stores", "lists", "updates", "deletes", "kills", "catches", "keeps", "d1",
              "404"}
\* all, first: whom the hub sends to; rests: it leaves its sockets to ctx.acceptWebSocket.
Hub == [reach : {"none", "all", "first"}, rests : BOOLEAN]

UserJourneyBounds ==
  /\ Plan \subseteq [backend : BOOLEAN, auth : BOOLEAN, data : BOOLEAN, live : BOOLEAN]
  \* selectArchitecture (architecture.js:39): accounts and live updates bring a server.
  /\ \A p \in Plan : p.auth \/ p.live => p.backend
  /\ Build \subseteq [does : SUBSET Behaviour, hub : Hub]
  /\ {MaxAttempts, MaxHangs} \subseteq Nat

VARIABLES
  loop,      \* "journey" or "acceptance": which of the two loops
  plan,
  build, attempt,
  at,        \* the step it is at
  store,     \* the records' titles
  member, opened, bearer, \* its user is registered, has a session; it holds a token
  steps,     \* the results recorded, by step
  everFailed,\* the steps of the repairs
  outcome,   \* "none", "passed", "failed" or "rejected"
  report,    \* what the loop returned: the repair's regressions, and its runs
  hangs,
  installed  \* runs whose globals were never restored

vars == <<loop, plan, build, attempt, at, store, member, opened, bearer, steps, everFailed,
          outcome, report, hangs, installed>>
world == <<store, member, opened, bearer>>
around == <<loop, plan, build, attempt, everFailed, report>>

StepId == {"startup", "backend-starts", "health", "unauthorized", "register", "login",
           "session", "validation", "create", "validation-data", "read", "update", "delete",
           "recreate", "refresh", "realtime", "logout", "errors"}
Title == {"", "journey", "edited", "survives", "probe", "after"}
Stage == {"load", "backend", "auth", "create", "update", "delete", "refresh", "local", "live",
          "logout", "errors", "accept", "end"}
NoReport == [regressions |-> {}, runs |-> 0]

TypeOK ==
  /\ loop \in {"journey", "acceptance"} /\ plan \in Plan /\ build \in Build
  /\ attempt \in 0..MaxAttempts /\ at \in Stage
  /\ store \subseteq Title /\ {member, opened, bearer} \subseteq BOOLEAN
  /\ DOMAIN steps \subseteq StepId /\ \A s \in DOMAIN steps : steps[s] \in {"PASS", "FAIL"}
  /\ everFailed \subseteq StepId
  /\ outcome \in {"none", "passed", "failed", "rejected"}
  /\ report \in [regressions : SUBSET StepId, runs : 0..MaxAttempts]
  /\ hangs \in 0..MaxHangs /\ installed \in 0..(MaxAttempts + 1)

\* planJourney.
Planned ==
  {"startup", "errors"}
  \cup (IF plan.backend THEN {"backend-starts", "health"} ELSE {})
  \cup (IF plan.auth THEN {"unauthorized", "register", "login", "session", "validation",
                           "logout"} ELSE {})
  \cup (IF plan.data THEN {"create", "validation-data", "read", "update", "delete", "recreate",
                           "refresh"} ELSE {})
  \cup (IF plan.live THEN {"realtime"} ELSE {})

\* A product without a server is built without one.
Candidates(p) == {b \in Build : p.backend \/ "handler" \notin b.does}

Does(b) == b \in build.does
\* The record routes answer the journey's token, where there is a guard.
Admitted == Does("guards") => opened
Lists == Does("lists") /\ Admitted
Sees(title, rows) == Lists /\ title \in rows

Result(passed) == IF passed THEN "PASS" ELSE "FAIL"
\* The results of the steps that ran, if they are planned.
Record(results) ==
  steps' = [s \in DOMAIN steps \cup (DOMAIN results \cap Planned) |->
              IF s \in DOMAIN results THEN results[s] ELSE steps[s]]

\* Where the run goes on: the sections that are not for this plan are passed over.
AfterBackend ==
  IF plan.auth /\ Does("handler") THEN "auth"
  ELSE IF plan.data THEN (IF Does("handler") THEN "create" ELSE "local")
  ELSE IF plan.live THEN "live" ELSE "errors"
AfterAuth == IF plan.data THEN "create" ELSE IF plan.live THEN "live" ELSE "logout"
AfterData == IF plan.live THEN "live" ELSE "logout"

-----------------------------------------------------------------------------
\* One journey, in a runtime of its own.

\* As if the runtime were kept between two attempts.
SameStore == UNCHANGED store /\ member' = FALSE /\ opened' = FALSE /\ bearer' = FALSE
Fresh == store' = {} /\ member' = FALSE /\ opened' = FALSE /\ bearer' = FALSE
Start(b) ==
  /\ build' = b /\ steps' = <<>> /\ Fresh
  /\ at' = IF loop = "journey" THEN "load" ELSE "accept"

Init ==
  /\ loop \in {"journey", "acceptance"} /\ plan \in Plan /\ build \in Candidates(plan)
  /\ attempt = 0 /\ at = IF loop = "journey" THEN "load" ELSE "accept"
  /\ store = {} /\ member = FALSE /\ opened = FALSE /\ bearer = FALSE
  /\ steps = <<>> /\ everFailed = {}
  /\ outcome = "none" /\ report = NoReport /\ hangs = 0 /\ installed = 0

\* The page is run, and the Worker loaded with the runtime's globals installed.
Load ==
  /\ at = "load"
  /\ Record([s \in {"startup"} |-> Result(Does("loads"))])
  /\ at' = IF plan.backend THEN "backend" ELSE AfterBackend
  /\ UNCHANGED <<around, world, outcome, hangs, installed>>

\* Without a handler every step of a server fails, and the run returns as it is.
Backend ==
  /\ at = "backend"
  /\ IF Does("handler")
     THEN /\ Record([s \in {"backend-starts", "health"} |-> "PASS"])
          /\ at' = AfterBackend
          /\ UNCHANGED <<outcome, installed>>
     ELSE /\ Record([s \in StepId \ {"startup", "realtime"} |-> "FAIL"])
          /\ at' = "end" /\ outcome' = "failed" /\ installed' = installed + 1
  /\ UNCHANGED <<around, world, hangs>>

Auth ==
  /\ at = "auth"
  /\ member' = Does("registers")
  /\ bearer' = (member' /\ Does("logs-in")) /\ opened' = bearer'
  /\ Record([s \in {"unauthorized", "validation", "register", "login", "session"} |-> Result(
       CASE s = "unauthorized" -> Does("guards")
         [] s = "validation" -> Does("rejects")
         [] s = "register" -> member'
         [] s = "login" -> bearer'
         [] s = "session" -> Does("lists") /\ (Does("guards") => opened'))])
  /\ at' = AfterAuth
  /\ UNCHANGED <<around, store, outcome, hangs, installed>>

\* An empty title, then the record: its id is in the answer, whether or not it was stored.
Create ==
  /\ at = "create"
  /\ LET bad  == IF Does("validates") \/ ~Admitted THEN {} ELSE {""}
         good == IF Does("stores") /\ Admitted THEN {"journey"} ELSE {}
     IN /\ store' = store \cup bad \cup good
        /\ Record([s \in {"validation-data", "create", "read"}
                          \cup (IF Admitted THEN {} ELSE {"update", "delete"}) |-> Result(
             CASE s = "validation-data" -> Does("validates") \/ ~Admitted
               [] s = "read" -> Sees("journey", store')
               [] s \in {"create", "update", "delete"} -> Admitted)])
  /\ at' = IF Admitted THEN "update" ELSE "refresh"
  /\ UNCHANGED <<around, member, opened, bearer, outcome, hangs, installed>>

Update ==
  /\ at = "update"
  /\ store' = IF Does("updates") /\ "journey" \in store
              THEN (store \ {"journey"}) \cup {"edited"} ELSE store
  /\ Record([s \in {"update"} |-> Result(Sees("edited", store'))])
  /\ at' = "delete"
  /\ UNCHANGED <<around, member, opened, bearer, outcome, hangs, installed>>

\* Gone is what the list does not show.
Delete ==
  /\ at = "delete"
  /\ store' = IF Does("deletes") THEN store \ {"journey", "edited"} ELSE store
  /\ Record([s \in {"delete"} |-> Result(~Sees("edited", store'))])
  /\ at' = "refresh"
  /\ UNCHANGED <<around, member, opened, bearer, outcome, hangs, installed>>

\* The record is made again for the refresh; "recreate" itself is never recorded.
Refresh ==
  /\ at = "refresh"
  /\ store' = IF Does("stores") /\ Admitted THEN store \cup {"survives"} ELSE store
  /\ Record([s \in {"refresh"} |-> Result(Sees("survives", store'))])
  /\ at' = AfterData
  /\ UNCHANGED <<around, member, opened, bearer, outcome, hangs, installed>>

\* A product without a server: its form is submitted, and the page loaded again over the same
\* storage.  An update and a delete are not tried.
Local ==
  /\ at = "local"
  /\ store' = IF Does("keeps") /\ Does("loads") THEN store \cup {"journey"} ELSE store
  /\ LET kept == store' # {} IN
       Record([s \in {"create", "validation-data", "read", "update", "delete", "recreate",
                      "refresh"} |-> Result(s \in {"validation-data", "recreate"} \/ kept)])
  /\ at' = IF plan.live THEN "live" ELSE "errors"
  /\ UNCHANGED <<around, member, opened, bearer, outcome, hangs, installed>>

\* observed: the first socket the Durable Object registered with its context, whoever asks;
\* where it registers none, the client's own.
Watched(client) == IF build.hub.rests THEN 1 ELSE client
Receives(client) ==
  \/ build.hub.reach = "all"
  \/ build.hub.reach = "first" /\ Watched(client) = 1
Live ==
  /\ at = "live"
  /\ store' = IF Does("stores") /\ Admitted THEN store \cup {"probe", "after"} ELSE store
  /\ Record([s \in {"realtime"} |-> Result(
       Does("handler") /\ Admitted /\ \A client \in 1..3 : Receives(client))])
  /\ at' = "logout"
  /\ UNCHANGED <<around, member, opened, bearer, outcome, hangs, installed>>

\* Only with a token is there a session to end.
Logout ==
  /\ at = "logout"
  /\ IF plan.auth /\ Does("handler") /\ bearer
     THEN /\ opened' = (opened /\ ~Does("kills"))
          /\ Record([s \in {"logout"} |-> Result(~(Does("lists") /\ (Does("guards") => opened')))])
     ELSE UNCHANGED <<opened, steps>>
  /\ at' = "errors"
  /\ UNCHANGED <<around, store, member, bearer, outcome, hangs, installed>>

\* An unknown route passes with any answer.  Then the journey is judged, and the globals are
\* restored.
Errors ==
  /\ at = "errors"
  /\ Record([s \in {"errors"} |-> Result(Does("handler") \/ Does("catches"))])
  /\ at' = "end"
  /\ outcome' = IF \A s \in DOMAIN steps' : steps'[s] = "PASS" THEN "passed" ELSE "failed"
  /\ UNCHANGED <<around, world, hangs, installed>>

\* A call has no answer in time: the run is over without a result, but in the live section,
\* whose failures are caught.
Hang ==
  /\ at \in {"backend", "auth", "create", "update", "delete", "refresh", "live", "logout",
             "errors"}
  /\ Does("handler")
  /\ hangs < MaxHangs /\ hangs' = hangs + 1
  /\ IF at = "live"
     THEN /\ Record([s \in {"realtime"} |-> "FAIL"]) /\ at' = "logout"
          /\ UNCHANGED <<outcome, installed>>
     ELSE /\ at' = "end" /\ outcome' = "rejected" /\ installed' = installed + 1
          /\ UNCHANGED steps
  /\ UNCHANGED <<around, world>>

-----------------------------------------------------------------------------
\* The loops.

Failing == {s \in DOMAIN steps : steps[s] = "FAIL"}

\* Another build, and the whole journey again.
Repair(b) ==
  /\ at = "end" /\ outcome = "failed" /\ attempt < MaxAttempts
  /\ attempt' = attempt + 1 /\ outcome' = "none"
  /\ everFailed' = everFailed \cup Failing
  /\ Start(b)
  /\ UNCHANGED <<loop, plan, report, hangs, installed>>

\* regressionsAcross: the steps of the repairs that pass now.
Return ==
  /\ at = "end" /\ outcome \in {"passed", "failed"} /\ report = NoReport
  /\ outcome = "failed" => attempt = MaxAttempts
  /\ report' = [regressions |-> everFailed \cap (DOMAIN steps \ Failing), runs |-> attempt]
  /\ UNCHANGED <<loop, plan, build, attempt, at, world, steps, everFailed, outcome,
                 hangs, installed>>

\* What the plan asks of a build.
Asked ==
  {"loads"}
  \cup (IF plan.backend THEN {"handler"} ELSE {"catches"})
  \cup (IF plan.auth /\ plan.backend
        THEN {"guards", "rejects", "registers", "logs-in", "lists", "kills"} ELSE {})
  \cup (IF plan.data /\ plan.backend
        THEN {"validates", "stores", "lists", "updates", "deletes"} ELSE {})
  \cup (IF plan.data /\ ~plan.backend THEN {"keeps"} ELSE {})
Whole ==
  /\ Asked \subseteq build.does
  /\ plan.backend /\ Does("guards") => plan.auth
  /\ plan.live => build.hub.reach = "all"

\* repairUntilRuntimeAcceptance: accept() deploys the build and judges that deployment.
Accept ==
  /\ at = "accept"
  /\ at' = "end" /\ outcome' = IF Whole THEN "passed" ELSE "failed"
  /\ UNCHANGED <<around, world, steps, hangs, installed>>

Rest == at = "end" /\ (outcome = "rejected" \/ report # NoReport \/ attempt = 0) /\ UNCHANGED vars

Next ==
  \/ Load \/ Backend \/ Auth \/ Create \/ Update \/ Delete \/ Refresh \/ Local \/ Live
  \/ Logout \/ Errors \/ Hang \/ Return \/ Accept \/ Rest
  \/ \E b \in Candidates(plan) : Repair(b)

Spec == Init /\ [][Next]_vars

(***************************************************************************)
(* What a journey shows.                                                   *)
(***************************************************************************)
\* A journey passes for the build in hand, of whatever attempt, exactly when that build does
\* all that the plan asks (its last live client aside, where the hub rests); nothing of an
\* earlier build is in it (runUserJourney; "Retest is the FULL journey").
JourneyIsTrue ==
  /\ outcome = "passed" =>
       /\ Asked \subseteq build.does
       /\ plan.live => build.hub.reach # "none" /\ (build.hub.rests \/ build.hub.reach = "all")
  /\ outcome = "failed" /\ hangs = 0 => ~Whole

\* "every planned step is EXECUTED" (the header): refuted by "recreate".
PlannedIsRecorded == outcome = "passed" /\ loop = "journey" => DOMAIN steps = Planned
\* "both clients receive that write": refuted for a hub that rests.
LiveReachesBoth == outcome = "passed" /\ plan.live => build.hub.reach = "all"
\* "Database evidence is SQL that really ran": refuted, a journey passes without it.
PassedUsedDatabase ==
  outcome = "passed" /\ loop = "journey" /\ plan.data /\ plan.backend => Does("d1")
\* "surfaces an error, not a fake success": refuted, any answer will do.
UnknownIsRefused == outcome = "passed" /\ loop = "journey" /\ plan.backend => Does("404")
\* "What actually regressed between attempts": refuted, they are the steps that were repaired.
RegressionsRegressed == report.regressions \subseteq Failing
\* "the globals ... are released by runtime.disposeGlobals()": refuted.
GlobalsComeBack == installed = 0
=============================================================================
