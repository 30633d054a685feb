----------------------------- MODULE AppBuilds -----------------------------
(***************************************************************************)
(* The packaging of a project as an app: the routes /api/build-app,        *)
(* /api/build-status and /api/project-builds of index.js, the page that    *)
(* polls them (dashboard-live.js startBuild) and, as GitHub is used, the   *)
(* branch build/project-... with the workflow build-apps.yml.              *)
(*                                                                         *)
(* One project.  Its files are edited between builds: a file on the branch *)
(* is the number of the build whose version of it it is, 0 what main has   *)
(* at its path.  Every await of a handler ends a step.  Isolates keep      *)
(* copies of the builds; the way of a row to D1 is EntityStore's.          *)
(* GitHub's lists are long enough to hold the branch's newest success.     *)
(***************************************************************************)
EXTENDS Naturals, FiniteSets

CONSTANTS
  Isolate,
  File, Index,    \* the project's paths, www/index.html among them
  MaxBuilds,
  MaxAttempts,    \* 60: how often a page asks
  MaxFaults       \* bound: calls that fail, evictions, expiries

ASSUME IndexAssumption == Index \in File
ASSUME BuildsBound == MaxBuilds \in Nat /\ MaxAttempts \in Nat \ {0} /\ MaxFaults \in Nat

VARIABLES
  warm,       \* the isolate is hydrated
  rows,       \* the builds table in D1
  cached,     \* each isolate's copies of its rows
  claim,      \* the build of the build_locks row
  newest,     \* history: the build that claimed last
  job,        \* a POST /api/build-app for each build
  overlapped, \* history: builds that were under way together with another
  branch,     \* the build branch, or Gone
  run,        \* its newest workflow run: the build and the tree it is of
  apk,        \* its newest run that succeeded
  expired,    \* ... and whether what it uploaded is gone
  page,       \* for each build, the button that asked for it
  faults

github == <<branch, run, apk, expired>>
records == <<rows, cached, claim, newest>>
vars == <<warm, records, job, overlapped, github, page, faults>>

Build == 1..MaxBuilds
NoBuild == 0
Tree == [File -> 0..MaxBuilds]
Main == [f \in File |-> 0]
Gone == [f \in {} |-> 0]
FilesOf(b) == [f \in File |-> b]

Package == [by : 0..MaxBuilds, tree : Tree]
NoPackage == [by |-> 0, tree |-> Main]   \* by no build
Run == [by : 0..MaxBuilds, tree : Tree, st : {"none", "live", "success", "failure", "cancelled"}]
Row == [st : {"none", "pushed", "failed", "superseded", "building", "success", "failure",
              "cancelled"}, url : Package]
NoRow == [st |-> "none", url |-> NoPackage]

Step == {"unasked", "claim", "cancel", "delete", "create", "verify", "look", "put",
         "pushed", "failed", "superseded", "refused", "cut"}
Job == [at : Step, iso : Isolate \cup {0}, todo : SUBSET File,
        file : File, sha : Nat, done : SUBSET File]
Unasked == [at |-> "unasked", iso |-> 0, todo |-> {}, file |-> Index,
            sha |-> 0, done |-> {}]
NoAsk == [iso |-> 0, row |-> NoRow]
Page == [at : {"label", "starting", "polling", "offered", "run page", "failed", "gave up", "stuck"},
         att : 0..MaxAttempts, via : BOOLEAN, url : Package,
         ask : [iso : Isolate \cup {0}, row : Row]]
Resting == [at |-> "label", att |-> 0, via |-> FALSE, url |-> NoPackage, ask |-> NoAsk]

TypeOK ==
  /\ warm \in [Isolate -> BOOLEAN]
  /\ rows \in [Build -> Row] /\ cached \in [Isolate -> [Build -> Row]]
  /\ claim \in 0..MaxBuilds /\ newest \in 0..MaxBuilds
  /\ job \in [Build -> Job] /\ overlapped \subseteq Build
  /\ branch \in Tree \cup {Gone} /\ run \in Run /\ apk \in Package /\ expired \in BOOLEAN
  /\ page \in [Build -> Page]
  /\ faults \in 0..MaxFaults

Init ==
  /\ warm = [i \in Isolate |-> FALSE]
  /\ rows = [b \in Build |-> NoRow] /\ cached = [i \in Isolate |-> rows]
  /\ claim = NoBuild /\ newest = NoBuild
  /\ job = [b \in Build |-> Unasked] /\ overlapped = {}
  /\ branch = Gone /\ run = [by |-> 0, tree |-> Main, st |-> "none"]
  /\ apk = NoPackage /\ expired = FALSE
  /\ page = [b \in Build |-> Resting]
  /\ faults = 0

Fault == faults < MaxFaults /\ faults' = faults + 1

-----------------------------------------------------------------------------
\* hydrate, once in an isolate; syncFromD1 leaves the builds alone.
Hydrate(i) ==
  /\ ~warm[i]
  /\ warm' = [warm EXCEPT ![i] = TRUE]
  /\ cached' = [cached EXCEPT ![i] =
       [b \in Build |-> IF rows[b] # NoRow THEN rows[b] ELSE @[b]]]
  /\ UNCHANGED <<rows, claim, newest, job, overlapped, github, page, faults>>

-----------------------------------------------------------------------------
\* POST /api/build-app.

Ended(b) == job[b].at \in {"pushed", "failed", "superseded", "refused", "cut"}
UnderWay == {b \in Build : job[b].at # "unasked" /\ ~Ended(b)}
Goto(b, step) == job' = [job EXCEPT ![b].at = step]
Ends(b, step) == job' = [job EXCEPT ![b] = [Unasked EXCEPT !.at = step, !.done = job[b].done]]
At(b, step) == job[b].at = step

\* Where the answer leaves the page: a build that was superseded is polled like one pushed.
Answered(b, at) == page' = [page EXCEPT ![b].at = at]

Request(b, i) ==
  /\ At(b, "unasked")
  /\ \A c \in 1..(b - 1) : ~At(c, "unasked")
  /\ job' = [job EXCEPT ![b] = [Unasked EXCEPT !.at = "claim", !.iso = i, !.todo = File]]
  /\ overlapped' = IF UnderWay = {} THEN overlapped ELSE overlapped \cup UnderWay \cup {b}
  /\ Answered(b, "starting")
  /\ UNCHANGED <<warm, records, github, faults>>

Final == {"success", "failed", "cancelled", "superseded"}
\* The builds this isolate knows of that are not over.
Previous(i, b) == {c \in Build \ {b} : cached[i][c] # NoRow /\ cached[i][c].st \notin Final}
Supersede(table, builds, from) ==
  [c \in Build |-> IF c \in builds THEN [from[c] EXCEPT !.st = "superseded"] ELSE table[c]]

\* Mutant: a claim is a lock, and waits for its holder.
FirstClaimHolds(b) == IF claim \in UnderWay THEN claim ELSE b
\* claimBuildVersion: the row is written without a guard.
Claimed(b) == b

Claim(b) ==
  LET i == job[b].iso
  IN /\ At(b, "claim")
     /\ rows' = Supersede(rows, Previous(i, b), cached[i])
     /\ cached' = [cached EXCEPT ![i] = Supersede(@, Previous(i, b), @)]
     /\ \/ claim' = Claimed(b) /\ newest' = b /\ UNCHANGED faults
        \/ Fault /\ UNCHANGED <<claim, newest>>   \* the write is refused, and nobody asks
     /\ Goto(b, "cancel")
     /\ UNCHANGED <<warm, overlapped, github, page>>

\* main and the branch's runs are read, those under way cancelled.
CancelRuns(b) ==
  /\ At(b, "cancel")
  /\ \/ /\ run' = IF run.st = "live" THEN [run EXCEPT !.st = "cancelled"] ELSE run
        /\ Goto(b, "delete")
        /\ UNCHANGED <<faults, page>>
     \/ Fault /\ Goto(b, "delete") /\ UNCHANGED <<run, page>>
     \/ Fault /\ Ends(b, "refused") /\ Answered(b, "label") /\ UNCHANGED run  \* no main
  /\ UNCHANGED <<warm, records, overlapped, branch, apk, expired>>

DeleteBranch(b) ==
  /\ At(b, "delete")
  /\ \/ branch' = Gone /\ UNCHANGED faults
     \/ Fault /\ UNCHANGED branch
  /\ Goto(b, "create")
  /\ UNCHANGED <<warm, records, overlapped, run, apk, expired, page>>

\* A push to build/**: the run of an earlier one is cancelled (cancel-in-progress).
Push(b, tree) ==
  /\ branch' = tree
  /\ run' = [by |-> b, tree |-> tree, st |-> "live"]

CreateBranch(b) ==
  /\ At(b, "create")
  /\ IF branch = Gone
     THEN Push(b, Main) /\ Goto(b, "verify") /\ UNCHANGED page
     ELSE Ends(b, "refused") /\ Answered(b, "label") /\ UNCHANGED <<branch, run>>
  /\ UNCHANGED <<warm, records, overlapped, apk, expired, faults>>

\* Before each file the claim is read again.
Verify(b) ==
  /\ At(b, "verify") /\ job[b].todo # {}
  /\ IF claim # b
     THEN Ends(b, "superseded") /\ Answered(b, "polling")
     ELSE /\ \E f \in job[b].todo :
               job' = [job EXCEPT ![b].at = "look", ![b].file = f, ![b].todo = @ \ {f}]
          /\ UNCHANGED page
  /\ UNCHANGED <<warm, records, overlapped, github, faults>>

On(tree, f) == IF tree = Gone THEN 0 ELSE tree[f]

Look(b) ==
  /\ At(b, "look")
  /\ job' = [job EXCEPT ![b].at = "put", ![b].sha = On(branch, job[b].file)]
  /\ UNCHANGED <<warm, records, overlapped, github, page, faults>>

CountedAlways(b, accepted) == job[b].done \cup {job[b].file}
\* Only a file GitHub took counts.
Counted(b, accepted) == IF accepted THEN job[b].done \cup {job[b].file} ELSE job[b].done

\* GitHub takes a file for the version of it that was read.
PutFile(b) ==
  LET f == job[b].file
      taken == branch # Gone /\ On(branch, f) = job[b].sha
      Outcome(accepted) == job' = [job EXCEPT ![b].at = "verify", ![b].done = Counted(b, accepted),
                                             ![b].file = Index, ![b].sha = 0]
  IN /\ At(b, "put")
     /\ \/ taken /\ Push(b, [branch EXCEPT ![f] = b]) /\ Outcome(TRUE) /\ UNCHANGED faults
        \/ ~taken /\ Outcome(FALSE) /\ UNCHANGED <<branch, run, faults>>
        \/ Fault /\ Outcome(FALSE) /\ UNCHANGED <<branch, run>>
     /\ UNCHANGED <<warm, records, overlapped, apk, expired, page>>

\* The claim is read once more and the record put.
Record(b) ==
  LET i == job[b].iso
      row == [st |-> IF job[b].done # {} THEN "pushed" ELSE "failed", url |-> NoPackage]
  IN /\ At(b, "verify") /\ job[b].todo = {}
     /\ IF claim # b
        THEN Ends(b, "superseded") /\ Answered(b, "polling") /\ UNCHANGED <<rows, cached, faults>>
        ELSE /\ cached' = [cached EXCEPT ![i][b] = row]
             /\ \/ rows' = [rows EXCEPT ![b] = row] /\ UNCHANGED faults
                \/ Fault /\ UNCHANGED rows          \* flush().catch
             /\ Ends(b, row.st)
             /\ Answered(b, IF row.st = "pushed" THEN "polling" ELSE "label")
     /\ UNCHANGED <<warm, claim, newest, overlapped, github>>

-----------------------------------------------------------------------------
\* The workflow, as build-apps.yml has it.

\* Mutant: what is packaged is not looked at.
PackagesAnything(tree) == TRUE
\* test -s www/index.html, which main does not have.
HasApp(tree) == tree[Index] # 0

RunEnds ==
  /\ run.st = "live"
  /\ \/ /\ HasApp(run.tree)
        /\ run' = [run EXCEPT !.st = "success"]
        /\ apk' = [by |-> run.by, tree |-> run.tree] /\ expired' = FALSE
        /\ UNCHANGED faults
     \/ /\ ~HasApp(run.tree)
        /\ run' = [run EXCEPT !.st = "failure"]
        /\ UNCHANGED <<apk, expired, faults>>
     \/ /\ Fault                                  \* one of its two jobs fails
        /\ run' = [run EXCEPT !.st = "failure"]
        /\ UNCHANGED <<apk, expired>>
  /\ UNCHANGED <<warm, records, job, overlapped, branch, page>>

Expire ==
  /\ Fault
  /\ apk # NoPackage /\ ~expired
  /\ expired' = TRUE
  /\ UNCHANGED <<warm, records, job, overlapped, branch, run, apk, page>>

-----------------------------------------------------------------------------
\* The page asks.

Polling(b) == page[b].at = "polling" /\ page[b].att < MaxAttempts
Asking(b) == page[b].ask # NoAsk
Settled(at) == [Resting EXCEPT !.at = at]
Offer(url) == [Settled("offered") EXCEPT !.url = url]
\* The last attempt without an answer, and the last that throws, which leaves the button
\* disabled.
Later(pg, last) == IF pg.att = MaxAttempts THEN Settled(last) ELSE pg
Asked(b) == [page[b] EXCEPT !.att = @ + 1, !.ask = NoAsk]

\* findBuild: the isolate's copy before D1's row.
Found(i, b) == IF cached[i][b] # NoRow THEN cached[i][b] ELSE rows[b]

\* GET /api/build-status reads the record, and then asks GitHub.
AskStatus(b, i) ==
  /\ Polling(b) /\ ~Asking(b) /\ ~page[b].via
  /\ page' = [page EXCEPT ![b] =
       IF Found(i, b) = NoRow THEN Later([Asked(b) EXCEPT !.via = TRUE], "stuck")
       ELSE IF Found(i, b).st = "superseded" THEN Settled("label")
       ELSE [@ EXCEPT !.ask = [iso |-> i, row |-> Found(i, b)]]]
  /\ UNCHANGED <<warm, records, job, overlapped, github, faults>>

Offerable == apk # NoPackage /\ ~expired

\* A success of the branch, whose ever it is, before its newest run.
StatusOfRuns == IF apk # NoPackage THEN "success"
                ELSE IF run.st \in {"none", "live"} THEN "building" ELSE run.st

After(b, row) ==
  LET pg == Asked(b)
  IN IF row.url # NoPackage THEN Offer(row.url)
     ELSE IF row.st = "success" THEN Settled("run page")
     ELSE IF row.st = "failure" THEN Settled("failed")
     ELSE Later(pg, "gave up")

\* The record read before is put with what GitHub said.
StatusAnswers(b) ==
  /\ Polling(b) /\ Asking(b)
  /\ \E row \in {[st |-> StatusOfRuns, url |-> IF Offerable THEN apk ELSE NoPackage],
                 [st |-> "building", url |-> NoPackage]} :
       /\ IF row.st = StatusOfRuns THEN UNCHANGED faults ELSE Fault  \* GitHub does not answer
       /\ rows' = [rows EXCEPT ![b] = row]
       /\ cached' = [cached EXCEPT ![page[b].ask.iso][b] = row]
       /\ page' = [page EXCEPT ![b] = After(b, row)]
  /\ UNCHANGED <<warm, claim, newest, job, overlapped, github>>

PollThrows(b) ==
  /\ Polling(b) /\ Fault
  /\ page' = [page EXCEPT ![b] = Later(Asked(b), "stuck")]
  /\ UNCHANGED <<warm, records, job, overlapped, github>>

\* GET /api/project-builds: the rows this isolate has of the project, D1's if it has none,
\* and before GitHub's.
Stored(i) ==
  LET table == IF \E c \in Build : cached[i][c] # NoRow THEN cached[i] ELSE rows
  IN {table[c].url : c \in Build} \ {NoPackage}

AskProject(b, i) ==
  /\ Polling(b) /\ page[b].via
  /\ \E url \in IF Stored(i) # {} THEN Stored(i)
                ELSE IF Offerable THEN {apk} ELSE {NoPackage} :
       page' = [page EXCEPT ![b] = IF url # NoPackage THEN Offer(url)
                                   ELSE Later(Asked(b), "gave up")]
  /\ UNCHANGED <<warm, records, job, overlapped, github, faults>>

\* An isolate goes, with its copies, what it had not sent and the requests it served.
Evict(i) ==
  /\ Fault
  /\ warm' = [warm EXCEPT ![i] = FALSE]
  /\ cached' = [cached EXCEPT ![i] = [b \in Build |-> NoRow]]
  /\ job' = [b \in Build |-> IF b \in UnderWay /\ job[b].iso = i
                             THEN [Unasked EXCEPT !.at = "cut"] ELSE job[b]]
  /\ page' = [b \in Build |->
       IF b \in UnderWay /\ job[b].iso = i THEN Settled("label")
       ELSE IF page[b].ask.iso = i THEN Later(Asked(b), "stuck") ELSE page[b]]
  /\ UNCHANGED <<rows, claim, newest, overlapped, github>>

Next ==
  \/ \E i \in Isolate :
       \/ Hydrate(i) \/ Evict(i)
       \/ \E b \in Build : Request(b, i) \/ AskStatus(b, i) \/ AskProject(b, i)
  \/ \E b \in Build :
       \/ Claim(b) \/ CancelRuns(b) \/ DeleteBranch(b) \/ CreateBranch(b)
       \/ Verify(b) \/ Look(b) \/ PutFile(b) \/ Record(b)
       \/ StatusAnswers(b) \/ PollThrows(b)
  \/ RunEnds \/ Expire

Spec == Init /\ [][Next]_vars

-----------------------------------------------------------------------------
\* Properties.

\* /api/build-app says the older of two builds gives way: the newest to have claimed the
\* branch is never the one that is told it was superseded.
NewestGoesOn == newest # NoBuild => job[newest].at # "superseded"

\* A build that went alone and had every file taken leaves the branch with its files and
\* no other, until the next is asked for: nothing is left of the builds before it.
AloneIsWhole ==
  \A b \in Build \ overlapped :
    /\ At(b, "pushed") /\ job[b].done = File
    /\ \A c \in Build : c > b => At(c, "unasked")
    => branch = FilesOf(b)

\* Creating the branch starts a run on main's own files, and each file put starts another:
\* none of what the page offers is a package without the project's app in it.
OfferedHasApp ==
  \A b \in Build : page[b].at = "offered" => page[b].url.tree[Index] # 0

\* Promises the code does not keep.

\* What a page that asked for a build offers is that build.
OfferedIsOwn == \A b \in Build : page[b].at = "offered" => page[b].url.by = b

\* "Only the run for the final push needs to finish" (build-apps.yml 22): what is offered
\* has all the files of the build it is of.
OfferedIsWhole ==
  \A b \in Build : page[b].at = "offered" =>
    page[b].url.tree = FilesOf(page[b].url.by)

\* A build that was superseded stays so.
SupersededStays ==
  [][\A b \in Build : rows[b].st = "superseded" => rows'[b].st = "superseded"]_vars

\* A button is never left disabled.
NeverStuck == \A b \in Build : page[b].at # "stuck"
=============================================================================
