------------------------- MODULE RuntimeAcceptance -------------------------
(***************************************************************************)
(* Deploying a generated backend and accepting it at its URL: the record   *)
(* of the deployment and of the run on a project (runtime-evidence.js,     *)
(* generated-deployment.js), who asks the runners for them (the production *)
(* gate, the sweep, the routes, the founder's scripts/accept-runtime.mjs), *)
(* the verdict on what is stored (production-runtime.js) and the delivery  *)
(* that rests on it (delivery.js).                                         *)
(*                                                                         *)
(* A project's code is the sequence of its code-workspace artifacts, each  *)
(* a version of the same files.  The files of a project are the union of   *)
(* them, the first one met of each path: they are in the order in which    *)
(* the isolate wrote them or D1 gave them, so that any of them may be met. *)
(* The runners are configured; what a test finds at a URL depends on the   *)
(* version it serves.  All projects here owe a backend.                    *)
(***************************************************************************)
EXTENDS Naturals, SequencesExt

CONSTANTS
  Project,
  Elsewhere,  \* a URL where something else runs that would pass the tests
  NoUrl,
  Version,    \* bound: versions of the code there can be
  Caller,     \* bound: calls of the Worker under way at once, of one project
  Limit,      \* projects a sweep takes
  Faults      \* bound: runners that fail or answer nothing

ASSUME UrlAssumption == NoUrl # Elsewhere /\ {NoUrl, Elsewhere} \cap Project = {}
ASSUME RunAssumption == Version \in Nat \ {0} /\ Limit \in Nat /\ Faults \in Nat

VARIABLES
  code,       \* each project's artifacts, oldest first
  works,      \* the versions that pass the tests where they run
  site,       \* the version its own URL serves, 0 while there is none
  dep,        \* project.runtimeDeployment
  run,        \* project.runtimeAcceptance
  cached,     \* project.runtimeAcceptanceReport: it says passed
  job,        \* ensureRuntimeAcceptance, ensureGeneratedDeployment or the script under way
  gate,       \* the production-runtime gate has passed
  delivered,
  failures    \* history: faults so far

vars == <<code, works, site, dep, run, cached, job, gate, delivered, failures>>

\* The founder runs one script at a time.
Slot == Caller \cup {"script"}

\* The URL a project's Worker gets is its own, and named like it.
Url == Project \cup {Elsewhere}
Versions == 1..Version
Status == {"NOT_DEPLOYED", "DEPLOYED", "FAILED"}
\* art: the index of the artifact it claims, 0 for none.
Deployment == [status : Status, url : Url \cup {NoUrl}, art : 0..Version]
NotDeployed == [status |-> "NOT_DEPLOYED", url |-> NoUrl, art |-> 0]
Failed(a) == [status |-> "FAILED", url |-> NoUrl, art |-> a]
\* hit: the version the tests met, 0 for that of elsewhere.  url: where, over the network;
\* NoUrl: in the memory of the runner (transport "worker-runtime").
Run == [url : Url \cup {NoUrl}, art : 0..Version, hit : 0..Version]
NoRun == [url |-> NoUrl, art |-> 0, hit |-> Version + 1]
Http(r) == r.url # NoUrl
NoDelivery == [run |-> NoRun, url |-> NoUrl, art |-> 0, files |-> 0]

\* files: what it sends or tests; art: the artifact it names; to: the URL it aims at;
\* saw: the URL on record when the script read it; hit: what the tests have met.
Job == [pc : {"free", "publish", "deploy", "aim", "hit", "record", "reply"},
        kind : {"gate", "run", "deploy", "script"}, files : 0..Version, art : 0..Version,
        to : Url \cup {NoUrl}, saw : Url \cup {NoUrl}, hit : 0..Version]
NoJob == [pc |-> "free", kind |-> "run", files |-> 0, art |-> 0, to |-> NoUrl,
          saw |-> NoUrl, hit |-> 0]

Recorded(p) == run[p] # NoRun
Delivered(p) == delivered[p] # NoDelivery

TypeOK ==
  /\ code \in [Project -> {s \in Seq(Versions) : Len(s) \in Versions}]
  /\ works \subseteq Versions
  /\ site \in [Project -> 0..Version]
  /\ dep \in [Project -> Deployment]
  /\ \A p \in Project : dep[p].status = "DEPLOYED" <=> dep[p].url # NoUrl
  /\ run \in [Project -> Run \cup {NoRun}]
  /\ cached \in [Project -> BOOLEAN]
  /\ job \in [Project -> [Slot -> Job]]
  /\ gate \in [Project -> BOOLEAN]
  /\ delivered \in [Project -> [run : Run \cup {NoRun}, url : Url \cup {NoUrl},
                                art : 0..Version, files : 0..Version]]
  /\ failures \in 0..Faults

RunnerFault == failures < Faults /\ failures' = failures + 1

-----------------------------------------------------------------------------
\* The stored records.

\* latestCodeArtifactId.
Latest(p) == Len(code[p])

\* mergedProjectFiles.
Merged(p) == ToSet(code[p])

\* assertRuntimeIdentity: the run is of the URL on record, over the network, and of the
\* newest artifact c if it names one.
SameButForTransport(d, r, c) == r.url \in {NoUrl, d.url} /\ r.art \in {0, c}
SameProject(d, r, c) ==
  /\ r.url \in {NoUrl, d.url}
  /\ Http(r)
  /\ r.art \in {0, c}

\* evaluateRuntimeAcceptance: passed.
Passed(d, r, c) ==
  /\ d.status = "DEPLOYED" /\ d.url # NoUrl
  /\ SameProject(d, r, c)
  /\ r.hit \in works \cup {0}

\* deploymentFromRun: the identity it asserts is of a record that has the run's URL
\* already.
deploymentFromRun(d, r) ==
  IF Http(r) /\ d.url \in {NoUrl, r.url}
  THEN [status |-> "DEPLOYED", url |-> r.url, art |-> IF r.art # 0 THEN r.art ELSE d.art]
  ELSE d

\* recordRuntimeAcceptance: the report kept with the run is judged with the environment
\* of the caller, and without one no executor is configured.
recordRuntimeAcceptance(p, r, env) ==
  /\ run' = [run EXCEPT ![p] = r]
  /\ dep' = [dep EXCEPT ![p] = deploymentFromRun(@, r)]
  /\ cached' = [cached EXCEPT ![p] = env /\ Passed(dep'[p], r, Latest(p))]

\* projectsNeedingRuntimeAcceptance, in the order of the store.
Needs(p) ==
  \/ ~Recorded(p) \/ ~cached[p]
  \/ run[p].art \notin {0, Latest(p)}
  \/ dep[p].url \notin {NoUrl, run[p].url}
  \/ dep[p].status # "DEPLOYED"
Queue == SelectSeq(SetToSeq(Project), Needs)
Swept == {Queue[k] : k \in 1..(IF Len(Queue) < Limit THEN Len(Queue) ELSE Limit)}

-----------------------------------------------------------------------------
\* The Worker: ensureRuntimeAcceptance, for the gate, the sweep or the route, and the
\* route that only deploys (ensureGeneratedDeployment).

SetJob(p, s, j) == job' = [job EXCEPT ![p][s] = j]

\* What follows the await of the gate: it judges the project as it is then.
Judged(p, kind) ==
  gate' = IF kind = "gate" THEN [gate EXCEPT ![p] = Passed(dep'[p], run'[p], Latest(p))] ELSE gate

\* A run on record, whatever it says, ends the call; the gate judges that one.
AlreadyRecorded(p) ==
  /\ Recorded(p)
  /\ ~gate[p]
  /\ UNCHANGED <<run, dep>>
  /\ Judged(p, "gate")
  /\ UNCHANGED <<code, works, site, cached, job, delivered, failures>>

\* FAILED is tried again.
NeedsFirstDeployment(d) == d.status = "NOT_DEPLOYED"
NeedsDeployment(d) == d.status # "DEPLOYED"

Ensure(p, s, kind) ==
  /\ s # "script" /\ job[p][s] = NoJob
  /\ kind # "deploy" => ~Recorded(p)
  /\ IF NeedsDeployment(dep[p])
     THEN \E files \in Merged(p) :
            SetJob(p, s, [NoJob EXCEPT !.pc = "publish", !.kind = kind, !.files = files,
                                       !.art = Latest(p)])
     ELSE /\ kind # "deploy"
          /\ SetJob(p, s, [NoJob EXCEPT !.pc = "hit", !.kind = kind, !.to = dep[p].url])
  /\ UNCHANGED <<code, works, site, dep, run, cached, gate, delivered, failures>>

Sweep(p) == p \in Swept /\ \E s \in Slot : Ensure(p, s, "run")

\* The runner deploys what it was sent.
Publish(p, s) ==
  /\ job[p][s].pc = "publish"
  /\ site' = [site EXCEPT ![p] = job[p][s].files]
  /\ SetJob(p, s, [job[p][s] EXCEPT !.pc = "deploy"])
  /\ UNCHANGED <<code, works, dep, run, cached, gate, delivered, failures>>

Answered(p, j) == [status |-> "DEPLOYED", url |-> p, art |-> j.art]

Deployed(p, s) ==
  LET j == job[p][s]
      d == Answered(p, j)
  IN  /\ j.pc = "deploy"
      /\ dep' = [dep EXCEPT ![p] = d]
      /\ SetJob(p, s, CASE j.kind = "script" -> [j EXCEPT !.pc = "aim", !.to = p, !.files = 0]
                        [] j.kind = "deploy" -> NoJob
                        [] OTHER -> [NoJob EXCEPT !.pc = "hit", !.kind = j.kind, !.to = p])
      /\ UNCHANGED <<code, works, site, run, cached, gate, delivered, failures>>

\* It fails, or its answer is lost after it deployed; the script gives up.
DeployFails(p, s) ==
  LET j == job[p][s]
  IN  /\ RunnerFault
      /\ j.pc \in {"publish", "deploy"}
      /\ dep' = IF j.kind = "script" THEN dep ELSE [dep EXCEPT ![p] = Failed(j.art)]
      /\ SetJob(p, s, IF j.kind \in {"script", "deploy"} THEN NoJob
                      ELSE [NoJob EXCEPT !.pc = "hit", !.kind = j.kind])
      /\ UNCHANGED <<code, works, site, run, cached, gate, delivered>>

\* The tests are asked for all the same, and the runner refuses: it has no deployment.
Refused(p, s) ==
  LET j == job[p][s]
  IN  /\ j.pc = "hit" /\ j.kind # "script" /\ j.to = NoUrl
      /\ UNCHANGED <<dep, run>>
      /\ Judged(p, j.kind)
      /\ SetJob(p, s, NoJob)
      /\ UNCHANGED <<code, works, site, cached, delivered, failures>>

\* The tests meet what the URL serves by now; without a URL, the source itself.
Met(j) == CASE j.to = NoUrl -> j.files [] j.to = Elsewhere -> 0 [] OTHER -> site[j.to]

Hit(p, s) ==
  LET j == job[p][s]
  IN  /\ j.pc = "hit"
      /\ j.kind = "script" \/ j.to # NoUrl
      /\ SetJob(p, s, [j EXCEPT !.pc = IF j.kind = "script" THEN "record" ELSE "reply",
                                !.files = 0, !.hit = Met(j)])
      /\ UNCHANGED <<code, works, site, dep, run, cached, gate, delivered, failures>>

\* The report replaces the one that may be there by now; the Worker's own carries no
\* artifact, and it is recorded without the environment.
ReportArrives(p, s) ==
  LET j == job[p][s]
  IN  /\ j.pc = "reply"
      /\ recordRuntimeAcceptance(p, [url |-> j.to, art |-> j.art, hit |-> j.hit], j.kind = "script")
      /\ Judged(p, j.kind)
      /\ SetJob(p, s, NoJob)
      /\ UNCHANGED <<code, works, site, delivered, failures>>

NoReply(p, s) ==
  /\ RunnerFault
  /\ job[p][s].pc \in {"hit", "reply"}
  /\ UNCHANGED <<dep, run>>
  /\ Judged(p, job[p][s].kind)
  /\ SetJob(p, s, NoJob)
  /\ UNCHANGED <<code, works, site, cached, delivered>>

-----------------------------------------------------------------------------
\* The founder's script.

Script(p, s, j) ==
  /\ s = "script" /\ job[p][s] = NoJob
  /\ SetJob(p, s, [j EXCEPT !.kind = "script", !.saw = dep[p].url])
  /\ UNCHANGED <<code, works, site, dep, run, cached, gate, delivered, failures>>

\* --deploy: the project is read, then its files, which are sent to the runner.
ScriptDeploys(p, s) ==
  \E files \in Merged(p) : Script(p, s, [NoJob EXCEPT !.pc = "publish", !.files = files])

\* --deployed url: it must be the one on record if there is one.  Without it, that one.
ScriptStarts(p, s, url) ==
  /\ dep[p].url # NoUrl => url = dep[p].url
  /\ Script(p, s, [NoJob EXCEPT !.pc = "aim", !.to = url])

\* The URL must be the one it saw on record, and answer; then it reads the files and
\* names the first artifact it meets.
ScriptAims(p, s) ==
  LET j == job[p][s]
  IN  /\ j.pc = "aim"
      /\ IF j.saw \notin {NoUrl, j.to} \/ (j.to \in Project /\ site[j.to] = 0)
         THEN SetJob(p, s, NoJob)
         ELSE \E k \in DOMAIN code[p] :
                SetJob(p, s, [j EXCEPT !.pc = "hit", !.art = k, !.saw = NoUrl,
                                       !.files = IF j.to = NoUrl THEN code[p][k] ELSE 0])
      /\ UNCHANGED <<code, works, site, dep, run, cached, gate, delivered, failures>>

\* --record-deployment posts the URL it was given before the report.
ScriptRecords(p, s, post) ==
  LET j == job[p][s]
  IN  /\ j.pc = "record"
      /\ post => j.to # NoUrl
      /\ dep' = IF post
                THEN [dep EXCEPT ![p] = [status |-> "DEPLOYED", url |-> j.to, art |-> j.art]]
                ELSE dep
      /\ SetJob(p, s, [j EXCEPT !.pc = "reply"])
      /\ UNCHANGED <<code, works, site, run, cached, gate, delivered, failures>>

-----------------------------------------------------------------------------
\* The code changes: another artifact, or the newest one edited in place (/api/edits).
Fresh == 1 + Max(UNION {ToSet(code[p]) : p \in Project})

Regenerate(p) ==
  /\ Fresh <= Version
  /\ code' = [code EXCEPT ![p] = Append(@, Fresh)]
  /\ UNCHANGED <<works, site, dep, run, cached, job, gate, delivered, failures>>

Edit(p) ==
  /\ Fresh <= Version
  /\ code' = [code EXCEPT ![p][Latest(p)] = Fresh]
  /\ UNCHANGED <<works, site, dep, run, cached, job, gate, delivered, failures>>

\* buildFinalDelivery judges once more, and packs the files as it reads them.
buildFinalDelivery(p) ==
  /\ gate[p]
  /\ Recorded(p) /\ Passed(dep[p], run[p], Latest(p))
  /\ \E files \in Merged(p) :
       delivered' = [delivered EXCEPT ![p] =
         [run |-> run[p], url |-> dep[p].url, art |-> Latest(p), files |-> files]]
  /\ UNCHANGED <<code, works, site, dep, run, cached, job, gate, failures>>

Init ==
  /\ code = [p \in Project |-> <<1>>]
  /\ works \in SUBSET Versions
  /\ site = [p \in Project |-> 0]
  /\ dep = [p \in Project |-> NotDeployed]
  /\ run = [p \in Project |-> NoRun]
  /\ cached = [p \in Project |-> FALSE]
  /\ job = [p \in Project |-> [s \in Slot |-> NoJob]]
  /\ gate = [p \in Project |-> FALSE]
  /\ delivered = [p \in Project |-> NoDelivery]
  /\ failures = 0

Work(p, s) ==
  \/ Publish(p, s) \/ Deployed(p, s) \/ Refused(p, s) \/ Hit(p, s) \/ ReportArrives(p, s)
  \/ ScriptAims(p, s) \/ \E post \in BOOLEAN : ScriptRecords(p, s, post)

Step(p) ==
  \/ \E s \in Slot :
       \/ \E kind \in {"gate", "run", "deploy"} : Ensure(p, s, kind)
       \/ Work(p, s)
       \/ DeployFails(p, s) \/ NoReply(p, s)
       \/ ScriptDeploys(p, s) \/ \E url \in Url \cup {NoUrl} : ScriptStarts(p, s, url)
  \/ Sweep(p) \/ AlreadyRecorded(p) \/ Regenerate(p) \/ Edit(p) \/ buildFinalDelivery(p)

\* A project is followed until it is delivered.
Next == \E p \in Project : ~Delivered(p) /\ Step(p)

Spec == Init /\ [][Next]_vars

\* CI sweeps after every deployment of MAULI itself, and the runners answer.
FairSpec ==
  /\ Spec
  /\ \A p \in Project : SF_vars(Sweep(p))
  /\ \A p \in Project, s \in Slot : WF_vars(~Delivered(p) /\ Work(p, s))

-----------------------------------------------------------------------------
\* What is delivered has passed its tests over the network at the URL on record: never in
\* the memory of who ran them, never at a URL the project has left (delivery.js:173); and a
\* run that names its artifact is not taken for a later one ("the run that passed BEFORE the
\* repair describes bytes that no longer exist", generated-deployment.js:199).
DeliveredWasRun ==
  \A p \in Project : Delivered(p) =>
    LET d == delivered[p]
    IN  /\ Http(d.run) /\ d.run.url = d.url /\ d.run.hit \in works \cup {0}
        /\ d.run.art \in {0, d.art}


\* No project is skipped: if the sweeps go on and the runners answer in the end, each
\* project that has code gets a run (runtime-evidence.js:352).
EveryProjectGetsARun == \A p \in Project : <>Recorded(p)

\* A project without a URL on record takes only one that names it (generated-deployment.js:133).
NamedOrRecorded ==
  [][\A p \in Project :
       run'[p] # run[p] /\ dep[p].url = NoUrl => dep'[p].url \in {NoUrl, p}]_vars

\* "the code that was tested and the code that was deployed must be the same bytes"
\* (generated-deployment.js:97).
SameBytes ==
  \A p \in Project : Delivered(p) => delivered[p].run.hit \in {0, delivered[p].files}
=============================================================================
