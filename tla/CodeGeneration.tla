--------------------------- MODULE CodeGeneration ---------------------------
(***************************************************************************)
(* The generation of an app by a model, one file at a time                 *)
(* (functional-code-executor.js), through Workers AI with Groq behind it   *)
(* (ai.js, groq-ai.js), and the static gate on what it wrote               *)
(* (generated-app-quality.js).                                             *)
(*                                                                         *)
(* A file is what the gate tells apart: a flaw of its own, and the         *)
(* contract it is written to, which is the handlers and the ids that the   *)
(* script defines and reads and the page calls and declares.  A call that  *)
(* is given up at its deadline goes on, with its effects on the quota and  *)
(* on the record of the provider.  Prompts and waits are left out.         *)
(***************************************************************************)
EXTENDS Naturals, Sequences

CONSTANTS
  CodeJob,      \* the runs of internal.code in an isolate
  Contract,
  FileAttempts, \* PER_FILE_MAX_ATTEMPTS
  MaxRounds,    \* PER_FILE_REPAIR_ROUNDS
  QuotaLimit,   \* AI_DAILY_REQUEST_LIMIT
  MaxHangs      \* bound: calls that outlast AI_ATTEMPT_TIMEOUT_MS

ASSUME GenerationAssumption ==
  /\ Contract # {}
  /\ {FileAttempts, QuotaLimit} \subseteq Nat \ {0} /\ {MaxRounds, MaxHangs} \subseteq Nat

VARIABLES
  bound, groqKey,  \* Workers AI is bound; GROQ_API_KEY is set
  requests,        \* __MAULI_AI_QUOTA.requests
  down,            \* a failure of Workers AI is on record, and not too old
  codeJob, call,   \* the runs, and the call each is waiting for
  late,            \* the calls nobody waits for, by their stage: those with Workers AI to come
  hangs,
  excused          \* history: the jobs that met more than an outage of Workers AI: a call that
                   \* hung, or a Groq that does not answer well

generationVars == <<bound, groqKey, requests, down, codeJob, call, late, hangs, excused>>

-----------------------------------------------------------------------------
(* The files and the gate. *)
Plan(r) == IF r.web THEN <<"app.js", "index.html", "styles.css">> ELSE <<"server.js">>
Path == {"app.js", "index.html", "styles.css", "server.js"}
Content == [flawed : BOOLEAN, contract : Contract, acts : BOOLEAN]

\* What a model may write for a file: a stylesheet binds nothing, a server seldom a listener.
Plain == CHOOSE c \in Contract : TRUE
Source(path) ==
  CASE path = "styles.css" -> {[flawed |-> FALSE, contract |-> Plain, acts |-> FALSE]}
    [] path = "server.js" -> [flawed : {FALSE}, contract : {Plain}, acts : BOOLEAN]
    [] path = "app.js" -> [flawed : BOOLEAN, contract : {Plain}, acts : {TRUE}] \cup
                          [flawed : {FALSE}, contract : Contract, acts : {TRUE}]
    [] path = "index.html" -> [flawed : {FALSE}, contract : Contract, acts : {TRUE}]

\* The page and the script disagree on a handler or on an id.
Drifted(files) ==
  /\ {"app.js", "index.html"} \subseteq DOMAIN files
  /\ files["app.js"].contract # files["index.html"].contract

\* The page links the script and the stylesheet.
BrokenNavigation(files) ==
  "index.html" \in DOMAIN files /\ ~({"app.js", "styles.css"} \subseteq DOMAIN files)

Acts(files) == \E path \in DOMAIN files : files[path].acts

\* The critical codes of analyzeGeneratedApp.
Critical(files) ==
  {code \in {"own-flaw", "unbound-handler", "broken-navigation", "no-interaction"} :
     CASE code = "own-flaw" -> \E path \in DOMAIN files : files[path].flawed
       [] code = "unbound-handler" -> Drifted(files)
       [] code = "broken-navigation" -> BrokenNavigation(files)
       [] code = "no-interaction" -> "index.html" \in DOMAIN files /\ ~Acts(files)}

Passed(files) == Critical(files) = {} /\ Acts(files)

HasBackendEntryPoint(files) == "server.js" \in DOMAIN files

-----------------------------------------------------------------------------
Idle == [pc |-> "idle"]
NoCall == [at |-> "none"]
NoFiles == [path \in {} |-> Plain]
Stage == {"groqFirst", "primary", "second", "groqLast"}
Counts == {"groqFirst", "primary", "second"}
Chain == [at : Stage, groqFailed : BOOLEAN, retriable : BOOLEAN]
\* architectureFor, which is read from the store at the end, and not before: it owes no backend,
\* or one, or one that is not understood.
Architecture == {"plain", "backend", "blocked"}
Outcome == {"none", "model", "specification", "failed"}

IsJob(r) ==
  /\ DOMAIN r = {"pc", "web", "spec", "round", "pos", "attempts", "provider", "files", "changed",
                 "outcome"}
  /\ r.pc \in {"ask", "wait", "judge", "done"}
  /\ r.spec \in Architecture \cup {"unread"}
  /\ r.round \in 0..MaxRounds /\ r.attempts \in 0..FileAttempts
  /\ r.pos \in 1..3 /\ r.provider \in {"chain", "groq"}
  /\ DOMAIN r.files \subseteq Path /\ \A path \in DOMAIN r.files : r.files[path] \in Source(path)
  /\ {r.web, r.changed} \subseteq BOOLEAN /\ r.outcome \in Outcome

GenerationTypeOK ==
  /\ {bound, groqKey} \subseteq BOOLEAN
  /\ requests \in 0..QuotaLimit /\ down \in BOOLEAN
  /\ DOMAIN codeJob = CodeJob /\ \A j \in CodeJob : codeJob[j] = Idle \/ IsJob(codeJob[j])
  /\ \A j \in CodeJob : call[j] \in Chain \cup {NoCall}
  /\ \A j \in CodeJob : (codeJob[j] # Idle /\ codeJob[j].pc = "wait") <=> call[j] # NoCall
  /\ late \subseteq Counts /\ hangs \in 0..MaxHangs /\ excused \subseteq CodeJob \X {"hung", "groq"}

GenerationInit ==
  /\ bound \in BOOLEAN /\ groqKey \in BOOLEAN
  /\ requests = 0 /\ down = FALSE
  /\ codeJob = [j \in CodeJob |-> Idle] /\ call = [j \in CodeJob |-> NoCall]
  /\ late = {} /\ hangs = 0 /\ excused = {}

-----------------------------------------------------------------------------
(* The end of a generation. *)
\* invalid: the bar a set of files must reach before anything else.
Invalid(r) ==
  IF r.web THEN ~({"app.js", "index.html"} \subseteq DOMAIN r.files) ELSE r.files = NoFiles

EndedAs(r, spec, o) == [r EXCEPT !.pc = "done", !.spec = spec, !.outcome = o]

\* generateFromArchitecture: only what owes a backend, and is understood, is compiled.
FromSpecification(r, spec) ==
  {EndedAs(r, spec, "failed")} \cup
  (IF spec = "backend" THEN {EndedAs(r, spec, "specification")} ELSE {})
Refused(r) == UNION {FromSpecification(r, spec) : spec \in Architecture}

\* Mutant: the repaired files are not analysed again.
AssumeRepaired(r) == IF r.round = 0 THEN Passed(r.files) ELSE r.changed

\* analyse, once a pass over the plan is complete; a repair in which no file came changes nothing.
Analysed(r) == Passed(r.files)

\* A model's app is shipped when it is whole, has passed the gate, and has the backend its
\* specification owes.
Judged(r) ==
  UNION {IF /\ ~Invalid(r) /\ Analysed(r)
            /\ spec # "plain" => HasBackendEntryPoint(r.files)
         THEN {EndedAs(r, spec, "model")} ELSE FromSpecification(r, spec) : spec \in Architecture}

\* The end of a pass: nothing at all, or a repair, or the verdict.
EndOfPass(r) ==
  LET again == /\ r.round < MaxRounds /\ ~Analysed(r) /\ Critical(r.files) # {}
               /\ r.round = 0 \/ r.changed
  IN IF r.files = NoFiles THEN Refused(r)
     ELSE IF again THEN {[r EXCEPT !.pc = "ask", !.round = @ + 1, !.pos = 1, !.changed = FALSE]}
     ELSE Judged(r)

\* The file is in hand (wrote = {its content}), or lost (wrote = {}).
NextFile(r, wrote) ==
  LET path == Plan(r)[r.pos]
      f == [r EXCEPT !.attempts = 0, !.provider = "chain",
                     !.changed = @ \/ wrote # {},
                     !.files = [p \in DOMAIN @ \cup (IF wrote = {} THEN {} ELSE {path}) |->
                                  IF p = path /\ wrote # {} THEN CHOOSE c \in wrote : TRUE
                                  ELSE @[p]]]
  IN IF r.pos < Len(Plan(r))
     THEN {[f EXCEPT !.pc = "ask", !.pos = @ + 1]}
     ELSE EndOfPass(f)

-----------------------------------------------------------------------------
(* A call: Workers AI with two models, Groq behind it, or before it while a failure of *)
(* Workers AI is on record.                                                            *)
\* Mutant: one request more.
OneMore == requests > QuotaLimit

Exhausted == requests >= QuotaLimit
AfterCall(c, n, d) == [call |-> c, requests |-> n, down |-> d]

\* Past Workers AI: Groq, when it has a key and has not failed in this call.
Behind(c) == [c EXCEPT !.at = IF groqKey /\ ~c.groqFailed THEN "groqLast" ELSE "threw"]

\* Workers AI, entered: without a binding it throws and records nothing, with its quota spent
\* it throws for both models, else the request is counted.
EnterWorkers(c) ==
  IF ~bound THEN AfterCall(Behind(c), requests, down)
  ELSE IF Exhausted THEN AfterCall(Behind(c), requests, TRUE)
  ELSE AfterCall([c EXCEPT !.at = "primary"], requests + 1, down)

\* classifyModelCallError: a rate limit and an error of the server are worth another attempt.
Classified(c) == {[c EXCEPT !.retriable = @ \/ k] : k \in BOOLEAN}

\* groqGenerate, past the models that are retired: it throws the error of the last.
GroqFails(c) == {[e EXCEPT !.groqFailed = TRUE] : e \in Classified(c)}

\* noteAiFailure records each error of Workers AI, of which the first is thrown.
Failure(c) ==
  CASE c.at = "groqFirst" -> {EnterWorkers(e) : e \in GroqFails(c)}
    [] c.at = "primary" ->
         {IF Exhausted THEN AfterCall(Behind(e), requests, TRUE)
          ELSE AfterCall([e EXCEPT !.at = "second"], requests + 1, TRUE) : e \in Classified(c)}
    [] c.at = "second" -> {AfterCall(Behind(c), requests, TRUE)}
    [] c.at = "groqLast" ->
         {AfterCall([e EXCEPT !.at = "threw"], requests, down) : e \in GroqFails(c)}

NewCall == [at |-> "primary", groqFailed |-> FALSE, retriable |-> FALSE]
\* generateAI: a provider that is named is asked alone.
Generate(r) ==
  IF r.provider = "groq" THEN AfterCall([NewCall EXCEPT !.at = "groqLast"], requests, down)
  ELSE IF groqKey /\ down THEN AfterCall([NewCall EXCEPT !.at = "groqFirst"], requests, down)
  ELSE EnterWorkers(NewCall)

\* What the loop of request does with a call that threw: again, if that may help, it failed
\* fast, and there are attempts left.
Thrown(r, c) ==
  NextFile(r, {}) \cup
  (IF c.retriable /\ r.attempts < FileAttempts THEN {[r EXCEPT !.pc = "ask"]} ELSE {})

Continue(j, r, after) ==
  /\ requests' = after.requests /\ down' = after.down
  /\ IF after.call.at = "threw"
     THEN /\ \E s \in Thrown(r, after.call) : codeJob' = [codeJob EXCEPT ![j] = s]
          /\ call' = [call EXCEPT ![j] = NoCall]
     ELSE /\ codeJob' = [codeJob EXCEPT ![j] = [r EXCEPT !.pc = "wait"]]
          /\ call' = [call EXCEPT ![j] = after.call]

-----------------------------------------------------------------------------
\* generateFunctionalArtifact.  Without any model only a specification helps.
Start(j) ==
  /\ codeJob[j] = Idle
  /\ \E web \in BOOLEAN :
       LET r == [pc |-> "ask", web |-> web, spec |-> "unread", round |-> 0, pos |-> 1, attempts |-> 0,
                 provider |-> "chain", files |-> NoFiles, changed |-> FALSE,
                 outcome |-> "none"]
       IN \E s \in IF bound \/ groqKey THEN {r} ELSE Refused(r) : codeJob' = [codeJob EXCEPT ![j] = s]
  /\ excused' = (excused \ ({j} \X {"hung", "groq"}))
                  \cup (IF groqKey THEN {} ELSE {<<j, "groq">>})
  /\ UNCHANGED <<bound, groqKey, requests, down, call, late, hangs>>

\* Mutant: only the first attempt is counted.
CountedOnce(r) == [r EXCEPT !.attempts = 1]

Attempted(r) == [r EXCEPT !.attempts = @ + 1]

\* An attempt at a file.
Ask(j) ==
  /\ codeJob[j] # Idle /\ codeJob[j].pc = "ask"
  /\ LET r == Attempted(codeJob[j]) IN Continue(j, r, Generate(r))
  /\ UNCHANGED <<bound, groqKey, late, hangs, excused>>

Waiting(j) == codeJob[j] # Idle /\ codeJob[j].pc = "wait"
FromGroq(c) == c.at \in {"groqFirst", "groqLast"}

CallFails(j) ==
  /\ Waiting(j)
  /\ \E after \in Failure(call[j]) : Continue(j, codeJob[j], after)
  /\ excused' = IF FromGroq(call[j]) THEN excused \cup {<<j, "groq">>} ELSE excused
  /\ UNCHANGED <<bound, groqKey, late, hangs>>

\* It fits what is written already, and passes on its own.
Fits(r, path, content) ==
  /\ ~content.flawed /\ (path = "server.js" => content.acts)
  /\ path = "index.html" /\ "app.js" \in DOMAIN r.files =>
       content.contract = r.files["app.js"].contract
  /\ path = "app.js" /\ "index.html" \in DOMAIN r.files =>
       content.contract = r.files["index.html"].contract

\* The file's source.
CallAnswers(j) ==
  /\ Waiting(j)
  /\ LET path == Plan(codeJob[j])[codeJob[j].pos] IN
     \E content \in Source(path) :
       /\ \E s \in NextFile(codeJob[j], {content}) : codeJob' = [codeJob EXCEPT ![j] = s]
       /\ excused' = IF Fits(codeJob[j], path, content) THEN excused ELSE excused \cup {<<j, "groq">>}
  /\ call' = [call EXCEPT ![j] = NoCall]
  /\ UNCHANGED <<bound, groqKey, requests, down, late, hangs>>

\* Mutant: a provider that answers is kept.
KeepsProvider(r) == FALSE

\* fallBackToGroq.
FallsBack(r) == r.provider = "chain" /\ groqKey /\ r.attempts < FileAttempts

\* An answer that is not the file's source is asked of Groq by name, once.
CallAnswersOtherwise(j) ==
  /\ Waiting(j)
  /\ LET r == codeJob[j] IN
     IF FallsBack(r) THEN codeJob' = [codeJob EXCEPT ![j] = [r EXCEPT !.pc = "ask", !.provider = "groq"]]
     ELSE \E s \in NextFile(r, {}) : codeJob' = [codeJob EXCEPT ![j] = s]
  /\ call' = [call EXCEPT ![j] = NoCall]
  /\ excused' = IF FromGroq(call[j]) THEN excused \cup {<<j, "groq">>} ELSE excused
  /\ UNCHANGED <<bound, groqKey, requests, down, late, hangs>>

\* withTimeout: the file is lost, for a timeout is not retried; the call goes on.
GiveUp(j) ==
  /\ Waiting(j) /\ hangs < MaxHangs
  /\ hangs' = hangs + 1
  /\ late' = late \cup ({call[j].at} \cap Counts)
  /\ call' = [call EXCEPT ![j] = NoCall]
  /\ \E s \in NextFile(codeJob[j], {}) : codeJob' = [codeJob EXCEPT ![j] = s]
  /\ excused' = excused \cup {<<j, IF FromGroq(call[j]) THEN "groq" ELSE "hung">>}
  /\ UNCHANGED <<bound, groqKey, requests, down>>

LateEnds(stage) ==
  /\ late' = late \ {stage}
  /\ UNCHANGED <<bound, groqKey, requests, down, codeJob, call, hangs, excused>>

LateFails(stage) ==
  /\ \E after \in Failure([NewCall EXCEPT !.at = stage]) :
       /\ late' = (late \ {stage}) \cup ({after.call.at} \cap Counts)
       /\ requests' = after.requests /\ down' = after.down
  /\ UNCHANGED <<bound, groqKey, codeJob, call, hangs, excused>>

\* The scheduler's next attempt at the task.
Again(j) ==
  /\ codeJob[j] # Idle /\ codeJob[j].pc = "done"
  /\ codeJob' = [codeJob EXCEPT ![j] = Idle]
  /\ UNCHANGED <<bound, groqKey, requests, down, call, late, hangs, excused>>

\* PROVIDER_DOWN_TTL_MS after the last failure.
Forget ==
  /\ down /\ down' = FALSE
  /\ UNCHANGED <<bound, groqKey, requests, codeJob, call, late, hangs, excused>>

\* The chat and the planner call the same providers in this isolate.
CallElsewhere ==
  /\ bound
  /\ \/ requests < QuotaLimit /\ requests' = requests + 1 /\ down' \in {down, TRUE}
     \/ Exhausted /\ ~down /\ down' = TRUE /\ UNCHANGED requests
  /\ UNCHANGED <<bound, groqKey, codeJob, call, late, hangs, excused>>

NewDay ==
  /\ requests > 0 /\ requests' = 0
  /\ UNCHANGED <<bound, groqKey, down, codeJob, call, late, hangs, excused>>

GenerationNext ==
  \/ \E j \in CodeJob :
       \/ Start(j) \/ Ask(j) \/ CallFails(j) \/ CallAnswers(j) \/ CallAnswersOtherwise(j)
       \/ GiveUp(j) \/ Again(j)
  \/ \E stage \in late : LateEnds(stage) \/ LateFails(stage)
  \/ Forget \/ CallElsewhere \/ NewDay

\* A call answers, fails, or is given up after forty seconds.
GoesOn(j) == Ask(j) \/ CallFails(j) \/ CallAnswers(j) \/ CallAnswersOtherwise(j) \/ GiveUp(j)
Fairness == \A j \in CodeJob : WF_generationVars(GoesOn(j))

GenerationSpec == GenerationInit /\ [][GenerationNext]_generationVars /\ Fairness

-----------------------------------------------------------------------------
Done(j) == codeJob[j] # Idle /\ codeJob[j].pc = "done"

\* What a model ships is whole, whatever was lost, answered otherwise or repaired on the way:
\* the page and the script, of whichever rounds, agree, what the page links is there, and a
\* product that owes a backend has one (generateFunctionalArtifact).
ShippedIsSound ==
  \A j \in CodeJob : Done(j) /\ codeJob[j].outcome = "model" =>
    LET files == codeJob[j].files IN
    /\ \A i \in DOMAIN Plan(codeJob[j]) : Plan(codeJob[j])[i] \in DOMAIN files
    /\ ~Drifted(files)
    /\ \A path \in DOMAIN files : ~files[path].flawed
    /\ codeJob[j].spec # "plain" => "server.js" \in DOMAIN files

\* "Workers AI -> Groq -> an honest failure" (ai.js): an outage of Workers AI, its quota spent,
\* or an answer of it that is no file, costs no product, as long as Groq answers well.
OutageCostsNothing ==
  \A j \in CodeJob : Done(j) /\ codeJob[j].spec = "plain" =>
    codeJob[j].outcome = "model" \/ excused \cap ({j} \X {"hung", "groq"}) # {}

\* "Every AI call now has a deadline, after which it is an ordinary AI failure" (ai.js:20): a
\* call of Workers AI that hangs costs no more than one that fails.
HangCostsNothing ==
  \A j \in CodeJob : Done(j) /\ codeJob[j].spec = "plain" =>
    codeJob[j].outcome = "model" \/ <<j, "groq">> \in excused

\* "Bounded so a persistently bad model cannot spin forever" (functional-code-executor.js:138).
GenerationEnds == \A j \in CodeJob : (codeJob[j] # Idle) ~> Done(j)
=============================================================================
