-------------------------- MODULE AppMakingProofs --------------------------
(***************************************************************************)
(* Proofs about how an app is made: built, and written by a model.         *)
(*                                                                         *)
(* AppBuilds, for any isolates, files, builds, attempts and faults.  The   *)
(* builds are asked for in their order, so of a build nothing went along   *)
(* with, all before it are over and none after it has begun: the branch is *)
(* its alone.                                                              *)
(*                                                                         *)
(* CodeGeneration, for any runs, contracts, attempts, rounds and quota.    *)
(* Files are gathered over calls, fallbacks and rounds, and only the end   *)
(* of a pass decides: GenerationInv says which files a run may have, and   *)
(* what those of a shipped one are.  OutageInv says that a run which has   *)
(* met nothing but outages has lost no file: a call of it has Groq to      *)
(* come, and an answer that is no file a second question.                  *)
(***************************************************************************)
EXTENDS AppBuilds, CodeGeneration, TLAPS

-----------------------------------------------------------------------------
\* AppBuilds.

Over == {"pushed", "failed", "superseded", "refused", "cut"}
Early == {"claim", "cancel", "delete", "create"}
Writing == {"verify", "look", "put"}

Typed ==
  /\ job \in [Build -> Job] /\ branch \in Tree \cup {Gone} /\ run \in Run
  /\ \A b \in Build : job[b].at \in Early \cup Writing => job[b].iso \in Isolate

\* The claim is the newest's, who has got past it.
Claims ==
  /\ claim = newest /\ newest \in 0..MaxBuilds
  /\ newest # NoBuild => job[newest].at \notin {"unasked", "claim", "superseded"}

\* All before a build that went alone are over.
Alone ==
  \A b \in Build \ overlapped : ~At(b, "unasked") => \A c \in Build : c < b => Ended(c)

\* The last build, if it goes alone: the branch has what it counts as done.
Last(b) == b \notin overlapped /\ \A c \in Build : c > b => At(c, "unasked")
Carries(b) ==
  /\ job[b].at \in Early => job[b].done = {}
  /\ job[b].at \in Writing \cup {"pushed"} =>
       branch \in Tree /\ \A f \in job[b].done : branch[f] = b
Whole == \A b \in Build : Last(b) => Carries(b)

BranchInv == Typed /\ Claims /\ Alone /\ Whole

-----------------------------------------------------------------------------
LEMMA UnaskedIsJob == Unasked \in Job /\ Main \in Tree
BY IndexAssumption, BuildsBound DEF Unasked, Job, Step, Main, Tree

LEMMA BranchInit == Init => BranchInv
<1> SUFFICES ASSUME Init PROVE BranchInv
  OBVIOUS
<1>1. Typed
  BY UnaskedIsJob, BuildsBound DEF Init, Typed, Run, Unasked, Early, Writing
<1>2. \A b \in Build : job[b].at = "unasked"
  BY DEF Init, Unasked
<1>3. Claims
  BY BuildsBound DEF Init, Claims, NoBuild
<1>4. Alone /\ Whole
  BY <1>2 DEF Alone, Whole, Carries, At, Early, Writing
<1>5. QED
  BY <1>1, <1>3, <1>4 DEF BranchInv

\* Neither a job nor the branch is touched.
LEMMA QuietKeeps ==
  ASSUME BranchInv, UNCHANGED <<job, overlapped, branch, claim, newest>>, run' \in Run
  PROVE  BranchInv'
BY DEF BranchInv, Typed, Claims, Alone, Whole, Last, Carries, At, Ended

\* A build goes on: what is the others' stays as it was.
LEMMA OneGoesOn ==
  ASSUME BranchInv, NEW b \in Build, NEW now \in Job, job' = [job EXCEPT ![b] = now],
         overlapped' = overlapped, branch' \in Tree \cup {Gone}, run' \in Run,
         job[b].at \in Early \cup Writing, now.at # "unasked",
         now.at \in Early \cup Writing => now.iso = job[b].iso,
         \/ claim' = claim /\ newest' = newest /\ now.at # "claim"
            /\ (b = newest => now.at # "superseded")
         \/ claim' = b /\ newest' = b /\ now.at = "cancel",
         Last(b) /\ now.at \in Early => now.done = {},
         Last(b) /\ now.at \in Writing \cup {"pushed"} =>
           branch' \in Tree /\ \A f \in now.done : branch'[f] = b
  PROVE  BranchInv'
<1>1. /\ Typed /\ Claims /\ Alone /\ Whole /\ job'[b] = now
      /\ \A c \in Build : c # b => job'[c] = job[c]
  BY DEF BranchInv, Typed
<1>2. Typed'
  BY <1>1 DEF Typed
<1>3. Claims'
  BY <1>1 DEF Claims, Build, NoBuild
<1>4. \A c \in Build : Ended(c) => c # b /\ Ended(c)'
  BY <1>1 DEF Ended, Early, Writing
<1>5. \A c \in Build : At(c, "unasked") <=> At(c, "unasked")'
  BY <1>1 DEF At, Early, Writing
<1>6. Alone'
  BY <1>1, <1>4, <1>5 DEF Alone
<1>7. ASSUME NEW c \in Build, Last(c)' PROVE Carries(c)'
  <2>1. Last(c)
    BY <1>5, <1>7 DEF Last
  <2>2. CASE c = b
    BY <1>1, <2>1, <2>2 DEF Carries
  <2>3. CASE c # b
    <3>1. ~(c < b)
      BY <1>1, <2>1, <2>3 DEF Last, At, Early, Writing
    <3>2. b < c
      BY <2>3, <3>1 DEF Build
    <3>3. At(c, "unasked")
      BY <1>1, <1>4, <2>1, <3>2 DEF Alone, Last
    <3>4. job'[c].at = "unasked"
      BY <1>1, <2>3, <3>3 DEF At
    <3>5. QED
      BY <3>4 DEF Carries, Early, Writing
  <2>4. QED
    BY <2>2, <2>3
<1>8. QED
  BY <1>2, <1>3, <1>6, <1>7 DEF BranchInv, Whole

-----------------------------------------------------------------------------
\* A request is the next build's; what is under way with it goes with another.
LEMMA RequestKeeps ==
  ASSUME BranchInv, NEW b \in Build, NEW i \in Isolate, Request(b, i)
  PROVE  BranchInv'
<1> DEFINE now == [Unasked EXCEPT !.at = "claim", !.iso = i, !.todo = File]
<1>1. /\ Typed /\ Claims /\ Alone /\ Whole /\ job[b].at = "unasked"
      /\ \A c \in Build : c < b => ~At(c, "unasked")
      /\ job' = [job EXCEPT ![b] = now]
      /\ overlapped' = IF UnderWay = {} THEN overlapped ELSE overlapped \cup UnderWay \cup {b}
      /\ UNCHANGED <<claim, newest, branch, run>>
  BY DEF BranchInv, Request, At, Build, records, github
<1>2. now \in Job /\ now.at = "claim" /\ now.done = {} /\ now.iso = i
  BY UnaskedIsJob DEF Unasked, Job, Step
<1> HIDE DEF now
<1>3. /\ job'[b] = now /\ \A c \in Build : c # b => job'[c] = job[c]
      /\ overlapped \subseteq overlapped'
  BY <1>1 DEF Typed
<1>4. Typed'
  BY <1>1, <1>2, <1>3 DEF Typed
<1>5. Claims'
  BY <1>1, <1>2, <1>3 DEF Claims, Build, NoBuild
<1>6. \A c \in Build : Ended(c) => c # b /\ Ended(c)'
  BY <1>1, <1>3 DEF Ended
<1>7. ASSUME NEW c \in Build \ overlapped', ~At(c, "unasked")', NEW d \in Build, d < c
      PROVE  Ended(d)'
  <2>1. CASE c = b
    <3>1. UnderWay = {}
      BY <1>1, <2>1, <1>7
    <3>2. Ended(d)
      BY <1>1, <2>1, <1>7, <3>1 DEF UnderWay, At
    <3>3. QED
      BY <3>2, <1>6
  <2>2. CASE c # b
    BY <1>1, <1>3, <1>6, <1>7, <2>2 DEF Alone, At
  <2>3. QED
    BY <2>1, <2>2
<1>8. ASSUME NEW c \in Build, Last(c)' PROVE Carries(c)'
  <2>1. CASE c = b
    BY <1>2, <1>3, <2>1 DEF Carries, Early, Writing
  <2>2. CASE c # b
    <3>1. ~At(b, "unasked")'
      BY <1>2, <1>3 DEF At
    <3>2. b < c
      BY <1>8, <2>2, <3>1 DEF Last, Build
    <3>3. c \notin overlapped /\ ~Ended(b)
      BY <1>1, <1>3, <1>8 DEF Last, Ended
    <3>4. job'[c].at = "unasked"
      BY <1>1, <1>3, <2>2, <3>2, <3>3 DEF Alone, At
    <3>5. QED
      BY <3>4 DEF Carries, Early, Writing
  <2>3. QED
    BY <2>1, <2>2
<1>9. QED
  BY <1>4, <1>5, <1>7, <1>8 DEF BranchInv, Alone, Whole

\* Where a build may go by a name of a step alone, or end.
LEMMA StepsAreJobs ==
  ASSUME Typed, NEW b \in Build, NEW step \in Step
  PROVE  /\ [job[b] EXCEPT !.at = step] \in Job
         /\ [job[b] EXCEPT !.at = step].at = step
         /\ [job[b] EXCEPT !.at = step].done = job[b].done
         /\ [job[b] EXCEPT !.at = step].iso = job[b].iso
         /\ [Unasked EXCEPT !.at = step, !.done = job[b].done] \in Job
         /\ [Unasked EXCEPT !.at = step, !.done = job[b].done].at = step
         /\ [Unasked EXCEPT !.at = step, !.done = job[b].done].done = job[b].done
<1>1. job[b] \in Job
  BY DEF Typed
<1>2. QED
  BY <1>1, UnaskedIsJob DEF Job, Unasked

LEMMA ClaimKeeps ==
  ASSUME BranchInv, NEW b \in Build, Claim(b)
  PROVE  BranchInv'
<1> DEFINE now == [job[b] EXCEPT !.at = "cancel"]
<1>1. now \in Job /\ now.at = "cancel" /\ now.done = job[b].done
      /\ now.iso = job[b].iso
  BY StepsAreJobs DEF BranchInv, Step
<1>2. /\ job' = [job EXCEPT ![b] = now] /\ job[b].at = "claim"
      /\ UNCHANGED <<overlapped, branch, run>>
      /\ (claim' = b /\ newest' = b) \/ UNCHANGED <<claim, newest>>
  BY DEF Claim, Goto, At, Claimed, github
<1> HIDE DEF now
<1>3. branch \in Tree \cup {Gone} /\ run \in Run /\ (Last(b) => now.done = {})
  BY <1>1, <1>2 DEF BranchInv, Typed, Whole, Carries, Early
<1>4. QED
  BY <1>1, <1>2, <1>3, OneGoesOn DEF Early, Writing

\* Before the branch is made: the steps to it, and the ends on the way.
LEMMA PreparesKeeps ==
  ASSUME BranchInv, NEW b \in Build, CancelRuns(b) \/ DeleteBranch(b) \/ CreateBranch(b)
  PROVE  BranchInv'
<1>1. /\ job[b].at \in {"cancel", "delete", "create"} /\ Typed
      /\ UNCHANGED <<overlapped, claim, newest>>
      /\ Last(b) => job[b].done = {}
  BY DEF CancelRuns, DeleteBranch, CreateBranch, At, BranchInv, Whole, Carries, Early, records
<1>2. CASE CancelRuns(b)
  <2>1. run' \in Run /\ branch' = branch
    BY <1>1, <1>2 DEF CancelRuns, Typed, Run
  <2>2. CASE job' = [job EXCEPT ![b] = [job[b] EXCEPT !.at = "delete"]]
    <3> DEFINE now == [job[b] EXCEPT !.at = "delete"]
    <3>1. now \in Job /\ now.at = "delete" /\ now.done = job[b].done
          /\ now.iso = job[b].iso
      BY <1>1, StepsAreJobs DEF Step
    <3> HIDE DEF now
    <3>2. job' = [job EXCEPT ![b] = now]
      BY <2>2 DEF now
    <3>3. QED
      BY <1>1, <2>1, <3>1, <3>2, OneGoesOn DEF Early, Writing, Typed
  <2>3. CASE job' = [job EXCEPT ![b] = [Unasked EXCEPT !.at = "refused", !.done = job[b].done]]
    <3> DEFINE now == [Unasked EXCEPT !.at = "refused", !.done = job[b].done]
    <3>1. now \in Job /\ now.at = "refused" /\ now.done = job[b].done
      BY <1>1, StepsAreJobs DEF Step
    <3> HIDE DEF now
    <3>2. job' = [job EXCEPT ![b] = now]
      BY <2>3 DEF now
    <3>3. QED
      BY <1>1, <2>1, <3>1, <3>2, OneGoesOn DEF Early, Writing, Typed
  <2>4. QED
    BY <1>2, <2>2, <2>3 DEF CancelRuns, Goto, Ends
<1>3. CASE DeleteBranch(b)
  <2> DEFINE now == [job[b] EXCEPT !.at = "create"]
  <2>1. now \in Job /\ now.at = "create" /\ now.done = job[b].done
        /\ now.iso = job[b].iso
    BY <1>1, StepsAreJobs DEF Step
  <2>2. job' = [job EXCEPT ![b] = now] /\ branch' \in Tree \cup {Gone} /\ run' \in Run
    BY <1>1, <1>3 DEF DeleteBranch, Goto, Typed
  <2> HIDE DEF now
  <2>3. QED
    BY <1>1, <2>1, <2>2, OneGoesOn DEF Early, Writing
<1>4. CASE CreateBranch(b)
  <2>1. CASE branch = Gone
    <3> DEFINE now == [job[b] EXCEPT !.at = "verify"]
    <3>1. now \in Job /\ now.at = "verify" /\ now.done = job[b].done
          /\ now.iso = job[b].iso
      BY <1>1, StepsAreJobs DEF Step
    <3>2. /\ job' = [job EXCEPT ![b] = now] /\ branch' = Main
          /\ run' = [by |-> b, tree |-> Main, st |-> "live"]
      BY <1>4, <2>1 DEF CreateBranch, Goto, Push
    <3>3. run' \in Run /\ branch' \in Tree
      BY <3>2, UnaskedIsJob DEF Run, Build
    <3> HIDE DEF now
    <3>4. QED
      BY <1>1, <3>1, <3>2, <3>3, OneGoesOn DEF Early, Writing
  <2>2. CASE branch # Gone
    <3> DEFINE now == [Unasked EXCEPT !.at = "refused", !.done = job[b].done]
    <3>1. now \in Job /\ now.at = "refused" /\ now.done = job[b].done
      BY <1>1, StepsAreJobs DEF Step
    <3>2. job' = [job EXCEPT ![b] = now] /\ branch' = branch /\ run' = run
      BY <1>4, <2>2 DEF CreateBranch, Ends
    <3> HIDE DEF now
    <3>3. QED
      BY <1>1, <3>1, <3>2, OneGoesOn DEF Early, Writing, Typed
  <2>3. QED
    BY <2>1, <2>2
<1>5. QED
  BY <1>2, <1>3, <1>4

\* A build whose claim another has taken ends; it is not the newest.
LEMMA VerifyKeeps ==
  ASSUME BranchInv, NEW b \in Build, Verify(b) \/ Look(b) \/ Record(b)
  PROVE  BranchInv'
<1>1. /\ job[b].at \in {"verify", "look"} /\ Typed /\ Claims
      /\ UNCHANGED <<overlapped, claim, newest, branch, run>>
      /\ Last(b) => branch \in Tree /\ \A f \in job[b].done : branch[f] = b
  BY DEF Verify, Look, Record, At, BranchInv, Whole, Carries, Writing, records, github
<1>2. ASSUME NEW now \in Job, job' = [job EXCEPT ![b] = now], now.done = job[b].done,
             now.at \in Writing \cup Over, now.at = "superseded" => claim # b,
             now.at \in Writing => now.iso = job[b].iso
      PROVE  BranchInv'
  BY <1>1, <1>2, OneGoesOn DEF Early, Writing, Over, Typed, Claims
<1>3. ASSUME NEW step \in Over, Ends(b, step), step = "superseded" => claim # b
      PROVE  BranchInv'
  <2> DEFINE now == [Unasked EXCEPT !.at = step, !.done = job[b].done]
  <2> step \in Step
    BY DEF Step, Over
  <2>1. now \in Job /\ now.at = step /\ now.done = job[b].done
    BY <1>1, StepsAreJobs
  <2>2. job' = [job EXCEPT ![b] = now]
    BY <1>3 DEF Ends
  <2> HIDE DEF now
  <2>3. QED
    BY <1>2, <1>3, <2>1, <2>2 DEF Over, Writing
<1>4. CASE Verify(b)
  <2>1. CASE claim # b
    BY <1>3, <1>4, <2>1 DEF Verify, Over
  <2>2. CASE claim = b
    <3>1. PICK f \in job[b].todo :
            job' = [job EXCEPT ![b] = [job[b] EXCEPT !.at = "look", !.file = f, !.todo = @ \ {f}]]
      BY <1>1, <1>4, <2>2 DEF Verify, Typed
    <3> DEFINE now == [job[b] EXCEPT !.at = "look", !.file = f, !.todo = @ \ {f}]
    <3>2. now \in Job /\ now.done = job[b].done /\ now.at = "look"
          /\ now.iso = job[b].iso
      BY <1>1 DEF Typed, Job, Step
    <3> HIDE DEF now
    <3>3. job' = [job EXCEPT ![b] = now]
      BY <3>1 DEF now
    <3>4. QED
      BY <1>2, <3>2, <3>3 DEF Writing
  <2>3. QED
    BY <2>1, <2>2
<1>5. CASE Look(b)
  <2> DEFINE now == [job[b] EXCEPT !.at = "put", !.sha = On(branch, job[b].file)]
  <2>1. On(branch, job[b].file) \in Nat
    BY <1>1, BuildsBound DEF On, Typed, Tree, Job
  <2>2. now \in Job /\ now.done = job[b].done /\ now.at = "put"
        /\ now.iso = job[b].iso
    BY <1>1, <2>1 DEF Typed, Job, Step
  <2>3. job' = [job EXCEPT ![b] = now]
    BY <1>1, <1>5 DEF Look, Typed
  <2> HIDE DEF now
  <2>4. QED
    BY <1>2, <2>2, <2>3 DEF Writing
<1>6. CASE Record(b)
  <2>1. CASE claim # b
    BY <1>3, <1>6, <2>1 DEF Record, Over
  <2>2. CASE claim = b
    <3>1. Ends(b, "pushed") \/ Ends(b, "failed")
      BY <1>6, <2>2 DEF Record
    <3>2. QED
      BY <1>3, <3>1 DEF Over
  <2>3. QED
    BY <2>1, <2>2
<1>7. QED
  BY <1>4, <1>5, <1>6

\* A file counts only when GitHub took it.
LEMMA PutFileKeeps ==
  ASSUME BranchInv, NEW b \in Build, PutFile(b)
  PROVE  BranchInv'
<1> DEFINE f == job[b].file
           now(accepted) == [job[b] EXCEPT !.at = "verify", !.done = Counted(b, accepted),
                                           !.file = Index, !.sha = 0]
<1>1. /\ job[b].at = "put" /\ Typed /\ job[b] \in Job /\ f \in File
      /\ UNCHANGED <<overlapped, claim, newest>>
      /\ Last(b) => branch \in Tree /\ \A g \in job[b].done : branch[g] = b
  BY DEF PutFile, At, BranchInv, Typed, Job, Whole, Carries, Writing, records
<1>2. ASSUME NEW accepted \in BOOLEAN
      PROVE  /\ now(accepted) \in Job /\ now(accepted).at = "verify"
             /\ now(accepted).iso = job[b].iso
             /\ now(accepted).done = IF accepted THEN job[b].done \cup {f} ELSE job[b].done
  <2>1. Counted(b, accepted) \in SUBSET File
    BY <1>1 DEF Counted, Job
  <2>2. QED
    BY <1>1, <2>1, IndexAssumption DEF Job, Step, Counted
<1>3. \/ /\ branch # Gone /\ branch' = [branch EXCEPT ![f] = b]
         /\ run' = [by |-> b, tree |-> [branch EXCEPT ![f] = b], st |-> "live"]
         /\ job' = [job EXCEPT ![b] = now(TRUE)]
      \/ UNCHANGED <<branch, run>> /\ job' = [job EXCEPT ![b] = now(FALSE)]
  BY <1>1 DEF PutFile, Push, Typed
<1> HIDE DEF now
<1>4. CASE UNCHANGED <<branch, run>> /\ job' = [job EXCEPT ![b] = now(FALSE)]
  BY <1>1, <1>2, <1>4, OneGoesOn DEF Early, Writing, Typed
<1>5. CASE /\ branch # Gone /\ branch' = [branch EXCEPT ![f] = b]
           /\ run' = [by |-> b, tree |-> [branch EXCEPT ![f] = b], st |-> "live"]
           /\ job' = [job EXCEPT ![b] = now(TRUE)]
  <2>1. branch \in Tree /\ b \in 0..MaxBuilds
    BY <1>1, <1>5 DEF Typed, Build
  <2>2. branch' \in Tree /\ run' \in Run
    BY <1>5, <2>1 DEF Tree, Run
  <2>3. Last(b) => \A g \in job[b].done \cup {f} : branch'[g] = b
    BY <1>1, <1>5, <2>1 DEF Tree, Job
  <2>4. QED
    BY <1>1, <1>2, <1>5, <2>2, <2>3, OneGoesOn DEF Early, Writing
<1>6. QED
  BY <1>3, <1>4, <1>5

\* With an isolate go the builds it was serving.
LEMMA EvictKeeps ==
  ASSUME BranchInv, NEW i \in Isolate, Evict(i)
  PROVE  BranchInv'
<1> DEFINE cut == [Unasked EXCEPT !.at = "cut"]
<1>1. /\ job' = [b \in Build |-> IF b \in UnderWay /\ job[b].iso = i THEN cut ELSE job[b]]
      /\ UNCHANGED <<claim, newest, overlapped, branch, run>>
      /\ Typed /\ Claims /\ Alone /\ Whole
  BY DEF Evict, BranchInv, github
<1>2. cut \in Job /\ cut.at = "cut"
  BY UnaskedIsJob DEF Unasked, Job, Step
<1> HIDE DEF cut
<1>3. ASSUME NEW b \in Build
      PROVE  job'[b] = job[b] \/ (job'[b] = cut /\ ~At(b, "unasked"))
  BY <1>1 DEF UnderWay, At
<1>4. Typed'
  BY <1>1, <1>2, <1>3 DEF Typed, Early, Writing
<1>5. Claims'
  BY <1>1, <1>2, <1>3 DEF Claims, Build, NoBuild
<1>6. ASSUME NEW b \in Build
      PROVE  (At(b, "unasked") <=> At(b, "unasked")') /\ (Ended(b) => Ended(b)')
  BY <1>2, <1>3 DEF At, Ended
<1>7. Alone'
  BY <1>1, <1>6 DEF Alone
<1>8. ASSUME NEW b \in Build, Last(b)' PROVE Carries(b)'
  <2>1. Last(b)
    BY <1>1, <1>6, <1>8 DEF Last
  <2>2. QED
    BY <1>1, <1>2, <1>3, <2>1 DEF Whole, Carries, Early, Writing
<1>9. QED
  BY <1>4, <1>5, <1>7, <1>8 DEF BranchInv, Whole

LEMMA BranchNext == BranchInv /\ [Next]_vars => BranchInv'
<1> SUFFICES ASSUME BranchInv, [Next]_vars PROVE BranchInv'
  OBVIOUS
<1>1. run \in Run
  BY DEF BranchInv, Typed
<1>2. ASSUME NEW i \in Isolate, Hydrate(i) PROVE BranchInv'
  BY <1>1, <1>2, QuietKeeps DEF Hydrate, github
<1>3. ASSUME NEW b \in Build, NEW i \in Isolate, AskStatus(b, i) \/ AskProject(b, i)
      PROVE  BranchInv'
  BY <1>1, <1>3, QuietKeeps DEF AskStatus, AskProject, records, github
<1>4. ASSUME NEW b \in Build, StatusAnswers(b) \/ PollThrows(b) PROVE BranchInv'
  BY <1>1, <1>4, QuietKeeps DEF StatusAnswers, PollThrows, records, github
<1>5. CASE RunEnds
  <2>1. run' \in Run
    BY <1>1, <1>5 DEF RunEnds, Run
  <2>2. QED
    BY <1>5, <2>1, QuietKeeps DEF RunEnds, records
<1>6. CASE Expire \/ UNCHANGED vars
  BY <1>1, <1>6, QuietKeeps DEF Expire, vars, records, github
<1>7. QED
  BY <1>2, <1>3, <1>4, <1>5, <1>6, EvictKeeps, RequestKeeps, ClaimKeeps, PreparesKeeps,
     VerifyKeeps, PutFileKeeps DEF Next

\* The branch is a lone build's, and the newest to claim it goes on.
THEOREM BranchInvariant == Spec => []BranchInv
BY BranchInit, BranchNext, PTL DEF Spec

\* AppBuilds!NewestGoesOn: of the builds /api/build-app serves, the newest to have claimed the
\* branch is never the one that gives way.
THEOREM NewestGoesOnHolds == Spec => []NewestGoesOn
<1>1. BranchInv => NewestGoesOn
  BY DEF BranchInv, Claims, NewestGoesOn
<1>2. QED
  BY <1>1, BranchInvariant, PTL

\* AppBuilds!AloneIsWhole: a build that went alone and had every file taken leaves the branch
\* with its files and no other's, however many builds, files and faults came before.
THEOREM AloneIsWholeHolds == Spec => []AloneIsWhole
<1>1. BranchInv => AloneIsWhole
  <2> SUFFICES ASSUME BranchInv, NEW b \in Build \ overlapped, At(b, "pushed"),
                      job[b].done = File, \A c \in Build : c > b => At(c, "unasked")
               PROVE  branch = FilesOf(b)
    BY DEF AloneIsWhole
  <2>1. branch \in Tree /\ \A f \in File : branch[f] = b
    BY DEF BranchInv, Whole, Last, Carries, At
  <2>2. QED
    BY <2>1 DEF Tree, FilesOf
<1>2. QED
  BY <1>1, BranchInvariant, PTL

-----------------------------------------------------------------------------
(* What may be offered.                                                     *)
\* A package of nothing, or with the app in it.
Url == {u \in Package : u = NoPackage \/ u.tree[Index] # 0}
States == {"none", "pushed", "failed", "superseded", "building", "success", "failure", "cancelled"}
KnownRow == [st : States, url : Url]
Shown == [at : {"label", "starting", "polling", "offered", "run page", "failed", "gave up", "stuck"},
          att : Nat, via : BOOLEAN, url : Url, ask : [iso : Isolate \cup {0}, row : KnownRow]]
Honest(pg) == pg \in Shown /\ (pg.at = "offered" => pg.url # NoPackage)

OfferInv ==
  /\ BranchInv
  /\ apk \in Url
  /\ rows \in [Build -> KnownRow] /\ cached \in [Isolate -> [Build -> KnownRow]]
  /\ page \in [Build -> Shown] /\ \A b \in Build : Honest(page[b])

LEMMA NothingIsKnown == NoPackage \in Url /\ NoRow \in KnownRow /\ Honest(Resting)
<1>1. NoPackage \in Package
  BY UnaskedIsJob, BuildsBound DEF NoPackage, Package
<1>2. NoPackage \in Url /\ NoRow \in KnownRow
  BY <1>1 DEF Url, NoRow, KnownRow, States
<1>3. QED
  BY <1>2 DEF Resting, Honest, Shown, NoAsk

LEMMA OfferInit == Init => OfferInv
<1> SUFFICES ASSUME Init PROVE OfferInv
  OBVIOUS
<1>1. apk \in Url /\ rows \in [Build -> KnownRow] /\ cached \in [Isolate -> [Build -> KnownRow]]
  BY NothingIsKnown DEF Init
<1>2. page \in [Build -> Shown] /\ \A b \in Build : Honest(page[b])
  BY NothingIsKnown DEF Init, Honest
<1>3. QED
  BY <1>1, <1>2, BranchInit DEF OfferInv

\* The ways a page goes on.
LEMMA PagesGoOn ==
  ASSUME NEW pg, Honest(pg)
  PROVE  /\ \A at \in {"label", "run page", "failed", "gave up", "stuck"} : Honest(Settled(at))
         /\ \A at \in {"label", "starting", "polling"} : Honest([pg EXCEPT !.at = at])
         /\ \A last \in {"gave up", "stuck"} : Honest(Later(pg, last))
         /\ \A u \in Url : u # NoPackage => Honest(Offer(u))
<1>1. \A at \in {"label", "run page", "failed", "gave up", "stuck"} : Honest(Settled(at))
  BY NothingIsKnown DEF Settled, Honest, Shown, Resting
<1>2. \A at \in {"label", "starting", "polling"} : Honest([pg EXCEPT !.at = at])
  BY DEF Honest, Shown
<1>3. \A last \in {"gave up", "stuck"} : Honest(Later(pg, last))
  BY <1>1 DEF Later
<1>4. ASSUME NEW u \in Url, u # NoPackage PROVE Honest(Offer(u))
  <2>1. Resting \in Shown
    BY NothingIsKnown DEF Honest
  <2>2. QED
    BY <1>4, <2>1 DEF Offer, Settled, Honest, Shown, Resting
<1>5. QED
  BY <1>1, <1>2, <1>3, <1>4

LEMMA AskedIsHonest ==
  ASSUME OfferInv, NEW b \in Build
  PROVE  /\ Honest(Asked(b)) /\ Honest([Asked(b) EXCEPT !.via = TRUE])
         /\ \A i \in Isolate \cup {0}, row \in KnownRow :
              Honest([page[b] EXCEPT !.ask = [iso |-> i, row |-> row]])
<1>1. Honest(page[b])
  BY DEF OfferInv
<1> DEFINE pg == page[b]
<1>2. Honest(pg)
  BY <1>1
<1>3. NoRow \in KnownRow
  BY NothingIsKnown
<1>4. NoAsk \in [iso : Isolate \cup {0}, row : KnownRow]
  BY <1>3 DEF NoAsk
<1>5. Asked(b) = [pg EXCEPT !.att = pg.att + 1, !.ask = NoAsk]
  BY <1>2 DEF Asked, Honest, Shown
<1> HIDE DEF pg
<1>6. pg.att + 1 \in Nat
  <2>1. pg.att \in Nat
    BY <1>2 DEF Honest, Shown
  <2>2. QED
    BY <2>1
<1>7. Honest(Asked(b))
  BY <1>2, <1>4, <1>5, <1>6 DEF Honest, Shown
<1>8. Honest([Asked(b) EXCEPT !.via = TRUE])
  BY <1>7 DEF Honest, Shown
<1>9. \A i \in Isolate \cup {0}, row \in KnownRow :
        Honest([page[b] EXCEPT !.ask = [iso |-> i, row |-> row]])
  BY <1>1 DEF Honest, Shown
<1>10. QED
  BY <1>7, <1>8, <1>9

\* One page moves.
LEMMA PageMoves ==
  ASSUME OfferInv, BranchInv', apk' = apk, NEW b \in Build, NEW pg, Honest(pg),
         page' = [page EXCEPT ![b] = pg],
         rows' \in [Build -> KnownRow], cached' \in [Isolate -> [Build -> KnownRow]]
  PROVE  OfferInv'
<1>1. /\ page' \in [Build -> Shown] /\ page'[b] = pg
      /\ \A c \in Build : c # b => page'[c] = page[c]
  BY DEF OfferInv, Honest
<1>2. \A c \in Build : Honest(page[c])
  BY DEF OfferInv
<1>3. \A c \in Build : Honest(page'[c])
  BY <1>1, <1>2
<1>4. apk' \in Url
  BY DEF OfferInv
<1>5. QED
  BY <1>1, <1>3, <1>4 DEF OfferInv, Honest

LEMMA PagesStay ==
  ASSUME OfferInv, BranchInv', apk' \in Url, page' = page,
         rows' \in [Build -> KnownRow], cached' \in [Isolate -> [Build -> KnownRow]]
  PROVE  OfferInv'
BY DEF OfferInv, Honest

-----------------------------------------------------------------------------
\* A handler of /api/build-app leaves the page polling, or with its label.
LEMMA HandlerOffersNothing ==
  ASSUME OfferInv, BranchInv', NEW b \in Build,
         \/ \E i \in Isolate : Request(b, i)
         \/ CancelRuns(b) \/ DeleteBranch(b) \/ CreateBranch(b)
         \/ Verify(b) \/ Look(b) \/ PutFile(b)
  PROVE  OfferInv'
<1>1. UNCHANGED <<rows, cached, apk>>
  BY DEF Request, CancelRuns, DeleteBranch, CreateBranch, Verify, Look, PutFile, records, github
<1>2. \/ page' = page
      \/ \E at \in {"label", "starting", "polling"} : page' = [page EXCEPT ![b].at = at]
  BY DEF Request, CancelRuns, DeleteBranch, CreateBranch, Verify, Look, PutFile, Answered
<1>3. rows' \in [Build -> KnownRow] /\ cached' \in [Isolate -> [Build -> KnownRow]] /\ apk' \in Url
  BY <1>1 DEF OfferInv
<1>4. CASE page' = page
  BY <1>3, <1>4, PagesStay
<1>5. ASSUME NEW at \in {"label", "starting", "polling"}, page' = [page EXCEPT ![b].at = at]
      PROVE  OfferInv'
  <2> DEFINE pg == [page[b] EXCEPT !.at = at]
  <2>1. Honest(pg)
    BY PagesGoOn DEF OfferInv
  <2>2. page' = [page EXCEPT ![b] = pg]
    BY <1>5 DEF OfferInv
  <2> HIDE DEF pg
  <2>3. QED
    BY <1>1, <1>3, <2>1, <2>2, PageMoves
<1>6. QED
  BY <1>2, <1>4, <1>5

LEMMA ClaimOffersNothing ==
  ASSUME OfferInv, BranchInv', NEW b \in Build, Claim(b)
  PROVE  OfferInv'
<1> DEFINE i == job[b].iso
           over == Previous(i, b)
<1>1. page' = page /\ apk' = apk /\ apk \in Url
  BY DEF Claim, github, OfferInv
<1>2. /\ rows' = Supersede(rows, over, cached[i])
      /\ cached' = [cached EXCEPT ![i] = Supersede(cached[i], over, cached[i])]
  BY DEF Claim, OfferInv
<1>3. i \in Isolate
  BY DEF Claim, At, OfferInv, BranchInv, Typed, Early
<1>4. cached[i] \in [Build -> KnownRow] /\ rows \in [Build -> KnownRow]
  BY <1>3 DEF OfferInv
<1>5. ASSUME NEW table \in [Build -> KnownRow]
      PROVE  Supersede(table, over, cached[i]) \in [Build -> KnownRow]
  BY <1>4 DEF Supersede, KnownRow, States
<1>6. rows' \in [Build -> KnownRow] /\ cached' \in [Isolate -> [Build -> KnownRow]]
  <2>1. Supersede(cached[i], over, cached[i]) \in [Build -> KnownRow]
    BY <1>4, <1>5
  <2>2. rows' \in [Build -> KnownRow]
    BY <1>2, <1>4, <1>5
  <2>3. QED
    BY <1>2, <2>1, <2>2 DEF OfferInv
<1>7. QED
  BY <1>1, <1>6, PagesStay

LEMMA RecordOffersNothing ==
  ASSUME OfferInv, BranchInv', NEW b \in Build, Record(b)
  PROVE  OfferInv'
<1> DEFINE i == job[b].iso
           row == [st |-> IF job[b].done # {} THEN "pushed" ELSE "failed", url |-> NoPackage]
<1>1. row \in KnownRow
  BY NothingIsKnown DEF KnownRow, States
<1>2. apk' = apk /\ apk \in Url
  BY DEF Record, github, OfferInv
<1> HIDE DEF row
<1>3. /\ rows' = rows \/ rows' = [rows EXCEPT ![b] = row]
      /\ cached' = cached \/ cached' = [cached EXCEPT ![i][b] = row]
      /\ \E at \in {"label", "polling"} : page' = [page EXCEPT ![b].at = at]
  BY DEF Record, Answered, row
<1>4. rows' \in [Build -> KnownRow] /\ cached' \in [Isolate -> [Build -> KnownRow]]
  <2>1. rows' \in [Build -> KnownRow]
    BY <1>1, <1>3 DEF OfferInv
  <2>2. i \in Isolate
    BY DEF Record, At, OfferInv, BranchInv, Typed, Writing
  <2>3. cached[i] \in [Build -> KnownRow]
    BY <2>2 DEF OfferInv
  <2> HIDE DEF i
  <2>4. [cached[i] EXCEPT ![b] = row] \in [Build -> KnownRow]
    BY <1>1, <2>3
  <2>5. CASE cached' = cached
    BY <2>1, <2>5 DEF OfferInv
  <2>6. CASE cached' = [cached EXCEPT ![i] = [cached[i] EXCEPT ![b] = row]]
    BY <2>1, <2>4, <2>6 DEF OfferInv
  <2>7. QED
    BY <1>3, <2>5, <2>6 DEF OfferInv
<1>5. PICK at \in {"label", "polling"} : page' = [page EXCEPT ![b].at = at]
  BY <1>3
<1> DEFINE pg == [page[b] EXCEPT !.at = at]
<1>6. Honest(pg)
  BY PagesGoOn DEF OfferInv
<1>7. page' = [page EXCEPT ![b] = pg]
  BY <1>5 DEF OfferInv
<1> HIDE DEF pg
<1>8. QED
  BY <1>2, <1>4, <1>6, <1>7, PageMoves

\* The page asks: what it is shown is of a row or of GitHub's newest success.
LEMMA AskStatusOffersNothing ==
  ASSUME OfferInv, BranchInv', NEW b \in Build, NEW i \in Isolate, AskStatus(b, i)
  PROVE  OfferInv'
<1>1. page[b].at = "polling" /\ UNCHANGED <<rows, cached, apk>>
  BY DEF AskStatus, Polling, records, github
<1>2. Found(i, b) \in KnownRow
  BY DEF Found, OfferInv
<1> DEFINE pg == IF Found(i, b) = NoRow THEN Later([Asked(b) EXCEPT !.via = TRUE], "stuck")
                 ELSE IF Found(i, b).st = "superseded" THEN Settled("label")
                 ELSE [page[b] EXCEPT !.ask = [iso |-> i, row |-> Found(i, b)]]
<1>3. Honest(Settled("label"))
  BY NothingIsKnown, PagesGoOn
<1>4. Honest(Later([Asked(b) EXCEPT !.via = TRUE], "stuck"))
  BY AskedIsHonest, PagesGoOn
<1>5. Honest([page[b] EXCEPT !.ask = [iso |-> i, row |-> Found(i, b)]])
  BY <1>2, AskedIsHonest
<1>6. Honest(pg)
  BY <1>3, <1>4, <1>5
<1>7. page' = [page EXCEPT ![b] = pg]
  BY DEF AskStatus, OfferInv
<1> HIDE DEF pg
<1>8. rows' \in [Build -> KnownRow] /\ cached' \in [Isolate -> [Build -> KnownRow]]
  BY <1>1 DEF OfferInv
<1>9. QED
  BY <1>1, <1>6, <1>7, <1>8, PageMoves

LEMMA AnswerOffersTheApp ==
  ASSUME OfferInv, BranchInv', NEW b \in Build, StatusAnswers(b)
  PROVE  OfferInv'
<1>1. PICK row \in {[st |-> StatusOfRuns, url |-> IF Offerable THEN apk ELSE NoPackage],
                    [st |-> "building", url |-> NoPackage]} :
        /\ rows' = [rows EXCEPT ![b] = row]
        /\ cached' = [cached EXCEPT ![page[b].ask.iso][b] = row]
        /\ page' = [page EXCEPT ![b] = After(b, row)]
  BY DEF StatusAnswers
<1>2. page[b].at = "polling" /\ apk' = apk
  BY DEF StatusAnswers, Polling, github
<1>3. StatusOfRuns \in States
  BY DEF StatusOfRuns, States, BranchInv, OfferInv, Typed, Run
<1>4. row \in KnownRow
  BY <1>1, <1>3, NothingIsKnown DEF KnownRow, OfferInv, States
<1>5. rows' \in [Build -> KnownRow] /\ cached' \in [Isolate -> [Build -> KnownRow]]
  BY <1>1, <1>4 DEF OfferInv
<1>6. Honest(After(b, row))
  <2>1. Honest(Asked(b)) /\ row.url \in Url
    BY <1>4, AskedIsHonest DEF KnownRow
  <2>2. QED
    BY <2>1, PagesGoOn DEF After
<1>7. QED
  BY <1>1, <1>2, <1>5, <1>6, PageMoves

LEMMA PollsKeep ==
  ASSUME OfferInv, BranchInv', NEW b \in Build,
         PollThrows(b) \/ \E i \in Isolate : AskProject(b, i)
  PROVE  OfferInv'
<1>1. page[b].at = "polling" /\ UNCHANGED <<rows, cached, apk>>
  BY DEF PollThrows, AskProject, Polling, records, github
<1>2. rows' \in [Build -> KnownRow] /\ cached' \in [Isolate -> [Build -> KnownRow]]
  BY <1>1 DEF OfferInv
<1>3. Honest(Later(Asked(b), "stuck")) /\ Honest(Later(Asked(b), "gave up"))
  BY AskedIsHonest, PagesGoOn
<1>4. CASE PollThrows(b)
  BY <1>1, <1>2, <1>3, <1>4, PageMoves DEF PollThrows
<1>5. ASSUME NEW i \in Isolate, AskProject(b, i) PROVE OfferInv'
  <2>1. PICK u \in IF Stored(i) # {} THEN Stored(i) ELSE IF Offerable THEN {apk} ELSE {NoPackage} :
          page' = [page EXCEPT ![b] = IF u # NoPackage THEN Offer(u) ELSE Later(Asked(b), "gave up")]
    BY <1>5 DEF AskProject
  <2>2. Stored(i) \subseteq Url
    BY DEF Stored, OfferInv, KnownRow
  <2>3. u \in Url
    BY <2>1, <2>2, NothingIsKnown DEF OfferInv
  <2>4. u # NoPackage => Honest(Offer(u))
    BY <2>3, NothingIsKnown, PagesGoOn
  <2> DEFINE pg == IF u # NoPackage THEN Offer(u) ELSE Later(Asked(b), "gave up")
  <2>5. Honest(pg)
    BY <1>3, <2>4
  <2> HIDE DEF pg
  <2>6. page' = [page EXCEPT ![b] = pg]
    BY <2>1 DEF pg
  <2>7. QED
    BY <1>1, <1>2, <2>5, <2>6, PageMoves
<1>6. QED
  BY <1>4, <1>5

LEMMA EvictOffersNothing ==
  ASSUME OfferInv, BranchInv', NEW i \in Isolate, Evict(i)
  PROVE  OfferInv'
<1>1. UNCHANGED <<rows, apk>> /\ cached' = [cached EXCEPT ![i] = [b \in Build |-> NoRow]]
  BY DEF Evict, github
<1>2. apk' \in Url /\ rows' \in [Build -> KnownRow] /\ cached' \in [Isolate -> [Build -> KnownRow]]
  BY <1>1, NothingIsKnown DEF OfferInv
<1>3. ASSUME NEW b \in Build
      PROVE  Honest(page'[b]) /\ page'[b] \in Shown
  <2>1. \/ page'[b] = Settled("label") \/ page'[b] = page[b]
        \/ page[b].ask.iso = i /\ page'[b] = Later(Asked(b), "stuck")
    BY DEF Evict
  <2>2. Honest(page[b])
    BY DEF OfferInv
  <2>3. Honest(Settled("label"))
    BY NothingIsKnown, PagesGoOn
  <2>4. Honest(Later(Asked(b), "stuck"))
    BY AskedIsHonest, PagesGoOn
  <2>5. QED
    BY <2>1, <2>2, <2>3, <2>4 DEF Honest
<1>4. page' \in [Build -> Shown]
  BY <1>3 DEF Evict
<1>5. QED
  BY <1>2, <1>3, <1>4 DEF OfferInv, Honest

LEMMA HydrateOffersNothing ==
  ASSUME OfferInv, BranchInv', NEW i \in Isolate, Hydrate(i)
  PROVE  OfferInv'
<1> DEFINE new == [b \in Build |-> IF rows[b] # NoRow THEN rows[b] ELSE cached[i][b]]
<1>1. UNCHANGED <<rows, apk, page>> /\ cached' = [cached EXCEPT ![i] = new]
  BY DEF Hydrate, github, OfferInv
<1>2. new \in [Build -> KnownRow]
  BY DEF OfferInv
<1> HIDE DEF new
<1>3. QED
  BY <1>1, <1>2, PagesStay DEF OfferInv

\* What the workflow uploads has passed test -s www/index.html.
LEMMA RunUploadsTheApp ==
  ASSUME OfferInv, BranchInv', RunEnds
  PROVE  OfferInv'
<1>1. UNCHANGED <<rows, cached, page>>
  BY DEF RunEnds, records
<1>2. apk' = apk \/ (HasApp(run.tree) /\ apk' = [by |-> run.by, tree |-> run.tree])
  BY DEF RunEnds
<1>3. run.by \in 0..MaxBuilds /\ run.tree \in Tree
  BY DEF OfferInv, BranchInv, Typed, Run
<1>4. apk' \in Url
  BY <1>2, <1>3 DEF HasApp, Url, Package, OfferInv
<1>5. QED
  BY <1>1, <1>4, PagesStay DEF OfferInv

LEMMA NothingMoves ==
  ASSUME OfferInv, BranchInv', UNCHANGED <<rows, cached, apk, page>>
  PROVE  OfferInv'
BY PagesStay DEF OfferInv

LEMMA OfferNext == OfferInv /\ [Next]_vars => OfferInv'
<1> SUFFICES ASSUME OfferInv, [Next]_vars PROVE OfferInv'
  OBVIOUS
<1>1. BranchInv'
  BY BranchNext DEF OfferInv
<1>2. ASSUME NEW i \in Isolate, Hydrate(i) \/ Evict(i) PROVE OfferInv'
  BY <1>1, <1>2, HydrateOffersNothing, EvictOffersNothing
<1>3. ASSUME NEW i \in Isolate, NEW b \in Build, Request(b, i) \/ AskStatus(b, i) \/ AskProject(b, i)
      PROVE  OfferInv'
  BY <1>1, <1>3, HandlerOffersNothing, AskStatusOffersNothing, PollsKeep
<1>4. ASSUME NEW b \in Build,
             \/ CancelRuns(b) \/ DeleteBranch(b) \/ CreateBranch(b)
             \/ Verify(b) \/ Look(b) \/ PutFile(b)
      PROVE  OfferInv'
  BY <1>1, <1>4, HandlerOffersNothing
<1>5. ASSUME NEW b \in Build, Claim(b) \/ Record(b) \/ StatusAnswers(b) \/ PollThrows(b)
      PROVE  OfferInv'
  BY <1>1, <1>5, ClaimOffersNothing, RecordOffersNothing, AnswerOffersTheApp, PollsKeep
<1>6. CASE RunEnds
  BY <1>1, <1>6, RunUploadsTheApp
<1>7. CASE Expire
  BY <1>1, <1>7, NothingMoves DEF Expire, records
<1>8. CASE UNCHANGED vars
  BY <1>1, <1>8, NothingMoves DEF vars, records, github
<1>9. QED
  BY <1>2, <1>3, <1>4, <1>5, <1>6, <1>7, <1>8 DEF Next

\* No row, no copy and no page has the address of a package without the app.
THEOREM OfferInvariant == Spec => []OfferInv
BY OfferInit, OfferNext, PTL DEF Spec

\* AppBuilds!OfferedHasApp: though a branch is pushed once for every file, and each push is
\* packaged, none of what the page offers lacks the project's app.
THEOREM OfferedHasAppHolds == Spec => []OfferedHasApp
<1>1. OfferInv => OfferedHasApp
  BY DEF OfferInv, Honest, Shown, Url, OfferedHasApp
<1>2. QED
  BY <1>1, OfferInvariant, PTL

-----------------------------------------------------------------------------
\* CodeGeneration.

Files == UNION {[paths -> Content] : paths \in SUBSET Path}
Written ==
  [pc : {"ask", "wait", "judge", "done"}, web : BOOLEAN, spec : Architecture \cup {"unread"},
   round : Nat, pos : Nat, attempts : Nat, provider : {"chain", "groq"}, files : Files,
   changed : BOOLEAN, outcome : Outcome]
Planned(r) == {Plan(r)[i] : i \in DOMAIN Plan(r)}

\* A run on its way has files of its plan.
Gathering(r) == r \in Written /\ r.pos \in DOMAIN Plan(r) /\ DOMAIN r.files \subseteq Planned(r)

\* What ShippedIsSound says of one run.
Sound(r) ==
  /\ \A i \in DOMAIN Plan(r) : Plan(r)[i] \in DOMAIN r.files
  /\ ~Drifted(r.files)
  /\ \A path \in DOMAIN r.files : ~r.files[path].flawed
  /\ r.spec # "plain" => "server.js" \in DOMAIN r.files

Good(r) == Gathering(r) /\ (r.pc = "done" /\ r.outcome = "model" => Sound(r))
GenerationInv == DOMAIN codeJob = CodeJob /\ \A j \in CodeJob : codeJob[j] # Idle => Good(codeJob[j])

-----------------------------------------------------------------------------
LEMMA PlanIs ==
  ASSUME NEW r
  PROVE  /\ r.web => /\ DOMAIN Plan(r) = 1..3 /\ Len(Plan(r)) = 3
                     /\ Plan(r)[1] = "app.js" /\ Plan(r)[2] = "index.html" /\ Plan(r)[3] = "styles.css"
                     /\ Planned(r) = {"app.js", "index.html", "styles.css"}
         /\ ~r.web => /\ DOMAIN Plan(r) = 1..1 /\ Len(Plan(r)) = 1
                      /\ Plan(r)[1] = "server.js" /\ Planned(r) = {"server.js"}
BY DEF Plan, Planned

LEMMA SourceIsContent ==
  ASSUME NEW path \in Path
  PROVE  Source(path) \subseteq Content
<1>1. Plain \in Contract
  BY GenerationAssumption DEF Plain
<1>2. CASE path = "app.js"
  BY <1>1, <1>2 DEF Source, Content
<1>3. CASE path = "index.html"
  BY <1>3 DEF Source, Content
<1>4. CASE path = "styles.css"
  BY <1>1, <1>4 DEF Source, Content
<1>5. CASE path = "server.js"
  BY <1>1, <1>5 DEF Source, Content
<1>6. QED
  BY <1>2, <1>3, <1>4, <1>5 DEF Path

\* The end of a run, without a model's app.
LEMMA FromSpecificationIsGood ==
  ASSUME NEW r, Gathering(r), NEW spec \in Architecture, NEW s \in FromSpecification(r, spec)
  PROVE  Good(s)
<1>1. PICK o \in {"failed", "specification"} : s = EndedAs(r, spec, o)
  BY DEF FromSpecification
<1>2. s \in Written /\ s.outcome = o /\ s.web = r.web /\ s.pos = r.pos /\ s.files = r.files
  BY <1>1 DEF Gathering, Written, EndedAs, Outcome, Architecture
<1>3. Plan(s) = Plan(r) /\ Planned(s) = Planned(r)
  BY <1>2 DEF Plan, Planned
<1>4. QED
  BY <1>2, <1>3 DEF Good, Gathering

LEMMA RefusedIsGood ==
  ASSUME NEW r, Gathering(r), NEW s \in Refused(r)
  PROVE  Good(s)
BY FromSpecificationIsGood DEF Refused

\* What is whole, passes the gate and has the backend it owes is sound.
LEMMA ShippedIsGood ==
  ASSUME NEW r, Gathering(r), NEW spec \in Architecture,
         ~Invalid(r), Analysed(r), spec # "plain" => HasBackendEntryPoint(r.files)
  PROVE  Good(EndedAs(r, spec, "model"))
<1> DEFINE s == EndedAs(r, spec, "model")
<1>1. s \in Written /\ s.web = r.web /\ s.pos = r.pos /\ s.files = r.files /\ s.spec = spec
  BY DEF Gathering, Written, EndedAs, Outcome, Architecture
<1>2. Plan(s) = Plan(r) /\ Planned(s) = Planned(r)
  BY <1>1 DEF Plan, Planned
<1>3. Critical(r.files) = {}
  BY DEF Analysed, Passed
<1>4. /\ ~Drifted(r.files) /\ ~BrokenNavigation(r.files)
      /\ \A path \in DOMAIN r.files : ~r.files[path].flawed
  BY <1>3 DEF Critical
<1>5. \A i \in DOMAIN Plan(r) : Plan(r)[i] \in DOMAIN r.files
  <2>1. CASE r.web
    <3>1. {"app.js", "index.html", "styles.css"} \subseteq DOMAIN r.files
      BY <2>1, <1>4 DEF Invalid, BrokenNavigation
    <3>2. QED
      BY <2>1, <3>1, PlanIs
  <2>2. CASE ~r.web
    <3>1. r.files # NoFiles /\ DOMAIN r.files \subseteq {"server.js"}
      BY <2>2, PlanIs DEF Invalid, Gathering
    <3>2. DOMAIN r.files # {}
      BY <3>1 DEF NoFiles, Gathering, Written, Files
    <3>3. QED
      BY <2>2, <3>1, <3>2, PlanIs
  <2>3. QED
    BY <2>1, <2>2
<1>6. spec # "plain" => "server.js" \in DOMAIN r.files
  BY DEF HasBackendEntryPoint
<1>7. QED
  BY <1>1, <1>2, <1>4, <1>5, <1>6 DEF Good, Gathering, Sound

LEMMA JudgedIsGood ==
  ASSUME NEW r, Gathering(r), NEW s \in Judged(r)
  PROVE  Good(s)
BY ShippedIsGood, FromSpecificationIsGood DEF Judged

\* The end of a pass: again from the first file, or the end.
LEMMA EndOfPassIsGood ==
  ASSUME NEW r, Gathering(r), NEW s \in EndOfPass(r)
  PROVE  Good(s)
<1> DEFINE again == [r EXCEPT !.pc = "ask", !.round = @ + 1, !.pos = 1, !.changed = FALSE]
<1>1. s \in Refused(r) \/ s \in Judged(r) \/ s = again
  BY DEF EndOfPass
<1>2. Good(again)
  <2>1. r.round + 1 \in Nat /\ r \in Written
    BY DEF Gathering, Written
  <2>2. /\ again \in Written /\ again.web = r.web /\ again.pos = 1 /\ again.files = r.files
        /\ again.pc = "ask"
    BY <2>1 DEF Written
  <2>3. Plan(again) = Plan(r) /\ Planned(again) = Planned(r) /\ 1 \in DOMAIN Plan(r)
    BY <2>2, PlanIs DEF Plan, Planned
  <2>4. QED
    BY <2>2, <2>3 DEF Good, Gathering
<1>3. QED
  BY <1>1, <1>2, RefusedIsGood, JudgedIsGood

\* A file comes, or is lost.
LEMMA NextFileIsGood ==
  ASSUME NEW r, Gathering(r), NEW wrote,
         wrote = {} \/ \E content \in Source(Plan(r)[r.pos]) : wrote = {content},
         NEW s \in NextFile(r, wrote)
  PROVE  Good(s)
<1> DEFINE path == Plan(r)[r.pos]
           paths == DOMAIN r.files \cup (IF wrote = {} THEN {} ELSE {path})
           files == [p \in paths |->
                      IF p = path /\ wrote # {} THEN CHOOSE c \in wrote : TRUE ELSE r.files[p]]
           changed == r.changed \/ wrote # {}
           f == [r EXCEPT !.attempts = 0, !.provider = "chain", !.changed = changed,
                          !.files = files]
           next == [f EXCEPT !.pc = "ask", !.pos = @ + 1]
<1>1. /\ r \in Written /\ r.pos \in Nat /\ r.pos \in 1..Len(Plan(r)) /\ Len(Plan(r)) \in {1, 3}
      /\ DOMAIN Plan(r) = 1..Len(Plan(r)) /\ path \in Planned(r) /\ Planned(r) \subseteq Path
  BY PlanIs DEF Gathering, Written, Planned, Path
<1>2. files \in Files
  <2>1. paths \in SUBSET Path
    BY <1>1 DEF Gathering
  <2>2. ASSUME NEW p \in paths PROVE files[p] \in Content
    <3>1. CASE p = path /\ wrote # {}
      <4>1. PICK content \in Source(path) : wrote = {content}
        BY <3>1
      <4>2. files[p] = content
        BY <3>1, <4>1
      <4>3. QED
        BY <1>1, <4>1, <4>2, SourceIsContent
    <3>2. CASE ~(p = path /\ wrote # {})
      BY <3>2, <1>1 DEF Written, Files
    <3>3. QED
      BY <3>1, <3>2
  <2>3. files \in [paths -> Content]
    BY <2>2
  <2>4. QED
    BY <2>1, <2>3 DEF Files
<1>3. DOMAIN files \subseteq Planned(r)
  BY <1>1 DEF Gathering
<1>4. s \in EndOfPass(f) \/ (s = next /\ r.pos < Len(Plan(r)))
  <2>1. CASE r.pos < Len(Plan(r))
    BY <2>1 DEF NextFile
  <2>2. CASE ~(r.pos < Len(Plan(r)))
    BY <2>2 DEF NextFile
  <2>3. QED
    BY <2>1, <2>2
<1> HIDE DEF files, path
<1>5. f \in Written /\ f.web = r.web /\ f.pos = r.pos /\ f.files = files
  <2>1. changed \in BOOLEAN
    OBVIOUS
  <2> HIDE DEF changed
  <2>2. QED
    BY <2>1, <1>1, <1>2 DEF Written
<1>6. Plan(f) = Plan(r) /\ Planned(f) = Planned(r)
  BY <1>5 DEF Plan, Planned
<1>7. Gathering(f)
  BY <1>3, <1>5, <1>6 DEF Gathering
<1> HIDE DEF f
<1>8. CASE s = next /\ r.pos < Len(Plan(r))
  <2>1. r.pos + 1 \in Nat /\ r.pos + 1 \in 1..Len(Plan(r))
    BY <1>1, <1>8
  <2>2. next \in Written /\ next.web = r.web /\ next.pos = r.pos + 1 /\ next.files = files
        /\ next.pc = "ask"
    BY <2>1, <1>5 DEF Written
  <2>3. Plan(next) = Plan(r) /\ Planned(next) = Planned(r)
    BY <2>2 DEF Plan, Planned
  <2>4. QED
    BY <1>1, <1>3, <1>8, <2>1, <2>2, <2>3 DEF Good, Gathering
<1>9. QED
  BY <1>7, <1>4, <1>8, EndOfPassIsGood

-----------------------------------------------------------------------------
LEMMA GenerationInvAtFirst == GenerationInit => GenerationInv
BY DEF GenerationInit, GenerationInv

\* One run moves.
LEMMA OneMoves ==
  ASSUME GenerationInv, NEW j \in CodeJob, NEW s, codeJob' = [codeJob EXCEPT ![j] = s], s # Idle => Good(s)
  PROVE  GenerationInv'
BY DEF GenerationInv

\* A run waits for its call, or asks again.
LEMMA AtIsGood ==
  ASSUME NEW r, Gathering(r), NEW step \in {"ask", "wait"}
  PROVE  Good([r EXCEPT !.pc = step])
<1> DEFINE s == [r EXCEPT !.pc = step]
<1>1. s \in Written /\ s.web = r.web /\ s.pos = r.pos /\ s.files = r.files /\ s.pc = step
  BY DEF Gathering, Written
<1>2. Plan(s) = Plan(r) /\ Planned(s) = Planned(r)
  BY <1>1 DEF Plan, Planned
<1>3. QED
  BY <1>1, <1>2 DEF Good, Gathering

LEMMA ContinueKeeps ==
  ASSUME GenerationInv, NEW j \in CodeJob, NEW r, Gathering(r), NEW after, Continue(j, r, after)
  PROVE  GenerationInv'
<1>1. CASE after.call.at = "threw"
  <2>1. PICK s \in Thrown(r, after.call) : codeJob' = [codeJob EXCEPT ![j] = s]
    BY <1>1 DEF Continue
  <2>2. s \in NextFile(r, {}) \/ s = [r EXCEPT !.pc = "ask"]
    BY <2>1 DEF Thrown
  <2>3. Good(s)
    BY <2>2, NextFileIsGood, AtIsGood
  <2>4. QED
    BY <2>1, <2>3, OneMoves
<1>2. CASE after.call.at # "threw"
  <2>1. codeJob' = [codeJob EXCEPT ![j] = [r EXCEPT !.pc = "wait"]]
    BY <1>2 DEF Continue
  <2>2. QED
    BY <2>1, AtIsGood, OneMoves
<1>3. QED
  BY <1>1, <1>2

LEMMA StartKeeps ==
  ASSUME GenerationInv, NEW j \in CodeJob, Start(j)
  PROVE  GenerationInv'
<1> DEFINE begun(web) == [pc |-> "ask", web |-> web, spec |-> "unread", round |-> 0, pos |-> 1,
                          attempts |-> 0, provider |-> "chain", files |-> NoFiles,
                          changed |-> FALSE, outcome |-> "none"]
<1>1. PICK web \in BOOLEAN :
        \E s \in IF bound \/ groqKey THEN {begun(web)} ELSE Refused(begun(web)) :
          codeJob' = [codeJob EXCEPT ![j] = s]
  BY DEF Start
<1> DEFINE r == begun(web)
<1>2. NoFiles \in Files /\ DOMAIN NoFiles = {}
  <2>1. NoFiles \in [{} -> Content] /\ {} \in SUBSET Path
    BY DEF NoFiles
  <2>2. QED
    BY <2>1 DEF Files, NoFiles
<1>3. r \in Written
  BY <1>2 DEF Written, Outcome
<1>4. 1 \in DOMAIN Plan(r)
  BY PlanIs
<1>5. Gathering(r) /\ r.pc = "ask"
  BY <1>2, <1>3, <1>4 DEF Gathering
<1> HIDE DEF r
<1>6. PICK s : codeJob' = [codeJob EXCEPT ![j] = s] /\ (s = r \/ s \in Refused(r))
  BY <1>1 DEF r
<1>7. Good(s)
  BY <1>5, <1>6, RefusedIsGood DEF Good
<1>8. QED
  BY <1>6, <1>7, OneMoves

LEMMA AskKeeps ==
  ASSUME GenerationInv, NEW j \in CodeJob, Ask(j)
  PROVE  GenerationInv'
<1> DEFINE r == Attempted(codeJob[j])
<1>1. Gathering(codeJob[j]) /\ Continue(j, r, Generate(r))
  BY DEF Ask, GenerationInv, Good
<1>2. codeJob[j].attempts + 1 \in Nat /\ codeJob[j] \in Written
  BY <1>1 DEF Gathering, Written
<1>3. r \in Written /\ r.web = codeJob[j].web /\ r.pos = codeJob[j].pos /\ r.files = codeJob[j].files
  BY <1>2 DEF Attempted, Written
<1>4. Plan(r) = Plan(codeJob[j]) /\ Planned(r) = Planned(codeJob[j])
  BY <1>3 DEF Plan, Planned
<1>5. Gathering(r)
  BY <1>1, <1>3, <1>4 DEF Gathering
<1>6. QED
  BY <1>1, <1>5, ContinueKeeps

\* The call of a run ends.
LEMMA CallKeeps ==
  ASSUME GenerationInv, NEW j \in CodeJob,
         CallFails(j) \/ CallAnswers(j) \/ CallAnswersOtherwise(j) \/ GiveUp(j)
  PROVE  GenerationInv'
<1> DEFINE r == codeJob[j]
<1>1. Gathering(r)
  BY DEF CallFails, CallAnswers, CallAnswersOtherwise, GiveUp, Waiting, GenerationInv, Good
<1>2. CASE CallFails(j)
  BY <1>1, <1>2, ContinueKeeps DEF CallFails
<1>3. CASE CallAnswers(j)
  <2>1. PICK content \in Source(Plan(r)[r.pos]) :
          \E s \in NextFile(r, {content}) : codeJob' = [codeJob EXCEPT ![j] = s]
    BY <1>3 DEF CallAnswers
  <2>2. PICK s \in NextFile(r, {content}) : codeJob' = [codeJob EXCEPT ![j] = s]
    BY <2>1
  <2>3. Good(s)
    BY <1>1, <2>2, NextFileIsGood
  <2>4. QED
    BY <2>2, <2>3, OneMoves
<1>4. CASE CallAnswersOtherwise(j) /\ FallsBack(r)
  <2> DEFINE s == [r EXCEPT !.pc = "ask", !.provider = "groq"]
  <2>1. codeJob' = [codeJob EXCEPT ![j] = s]
    BY <1>4 DEF CallAnswersOtherwise
  <2>2. s \in Written /\ s.web = r.web /\ s.pos = r.pos /\ s.files = r.files /\ s.pc = "ask"
    BY <1>1 DEF Gathering, Written
  <2>3. Plan(s) = Plan(r) /\ Planned(s) = Planned(r)
    BY <2>2 DEF Plan, Planned
  <2>4. Good(s)
    BY <1>1, <2>2, <2>3 DEF Good, Gathering
  <2>5. QED
    BY <2>1, <2>4, OneMoves
<1>5. CASE (CallAnswersOtherwise(j) /\ ~FallsBack(r)) \/ GiveUp(j)
  <2>1. PICK s \in NextFile(r, {}) : codeJob' = [codeJob EXCEPT ![j] = s]
    BY <1>5 DEF CallAnswersOtherwise, GiveUp
  <2>2. Good(s)
    BY <1>1, <2>1, NextFileIsGood
  <2>3. QED
    BY <2>1, <2>2, OneMoves
<1>6. QED
  BY <1>2, <1>3, <1>4, <1>5

LEMMA GenerationInvKept == GenerationInv /\ [GenerationNext]_generationVars => GenerationInv'
<1> SUFFICES ASSUME GenerationInv, [GenerationNext]_generationVars PROVE GenerationInv'
  OBVIOUS
<1>1. ASSUME NEW j \in CodeJob,
             \/ Start(j) \/ Ask(j) \/ CallFails(j) \/ CallAnswers(j) \/ CallAnswersOtherwise(j)
             \/ GiveUp(j) \/ Again(j)
      PROVE  GenerationInv'
  <2>1. CASE Again(j)
    BY <2>1, OneMoves DEF Again
  <2>2. QED
    BY <1>1, <2>1, StartKeeps, AskKeeps, CallKeeps
<1>2. CASE \/ \E stage \in late : LateEnds(stage) \/ LateFails(stage)
           \/ Forget \/ CallElsewhere \/ NewDay \/ UNCHANGED generationVars
  <2>1. codeJob' = codeJob
    BY <1>2 DEF LateEnds, LateFails, Forget, CallElsewhere, NewDay, generationVars
  <2>2. QED
    BY <2>1 DEF GenerationInv
<1>3. QED
  BY <1>1, <1>2 DEF GenerationNext

\* However the calls end, a run has files of its plan, and a shipped one all that is asked.
THEOREM GenerationInvariant == GenerationSpec => []GenerationInv
BY GenerationInvAtFirst, GenerationInvKept, PTL DEF GenerationSpec

\* CodeGeneration!ShippedIsSound: what generateFunctionalArtifact ships of a model is whole,
\* agrees with itself and has the backend it owes, whatever was lost or repaired on the way.
THEOREM ShippedIsSoundHolds == GenerationSpec => []ShippedIsSound
<1>1. GenerationInv => ShippedIsSound
  <2> SUFFICES ASSUME GenerationInv, NEW j \in CodeJob, Done(j), codeJob[j].outcome = "model"
               PROVE  Sound(codeJob[j])
    BY DEF ShippedIsSound, Sound
  <2>1. QED
    BY DEF GenerationInv, Good, Done
<1>2. QED
  BY <1>1, GenerationInvariant, PTL

-----------------------------------------------------------------------------
Unexcused(j) == excused \cap ({j} \X {"hung", "groq"}) = {}

\* The files before the one that is written fit, and nothing was lost.
Fit(r, n) ==
  /\ DOMAIN r.files = {Plan(r)[i] : i \in 1..n}
  /\ \A path \in DOMAIN r.files :
       ~r.files[path].flawed /\ (path # "styles.css" => r.files[path].acts)
  /\ ~Drifted(r.files)

\* A run that has met nothing but outages: Groq was not asked in vain, and a file takes one
\* call of the chain, and one of Groq by name.
OnTrack(r, c) ==
  /\ r.pc = "done" /\ r.spec = "plain" => r.outcome = "model"
  /\ r.pc # "done" => Fit(r, r.pos - 1)
  /\ r.pc = "ask" /\ r.provider = "chain" => r.attempts = 0
  /\ r.pc = "wait" =>
       /\ c \in Chain /\ ~c.groqFailed
       /\ IF r.provider = "chain" THEN r.attempts = 1 ELSE c.at = "groqLast"

OutageInv ==
  /\ GenerationInv /\ DOMAIN call = CodeJob
  /\ \A j \in CodeJob : codeJob[j] # Idle /\ Unexcused(j) => groqKey /\ OnTrack(codeJob[j], call[j])

LEMMA Excuses ==
  ASSUME NEW j, NEW kind \in {"hung", "groq"}, NEW excuses, <<j, kind>> \in excuses
  PROVE  excuses \cap ({j} \X {"hung", "groq"}) # {}
<1>1. <<j, kind>> \in {j} \X {"hung", "groq"}
  OBVIOUS
<1>2. QED
  BY <1>1

-----------------------------------------------------------------------------
\* What fits passes the gate.
LEMMA FitPasses ==
  ASSUME NEW r, Gathering(r), Fit(r, Len(Plan(r)))
  PROVE  Passed(r.files) /\ ~Invalid(r) /\ r.files # NoFiles
<1>1. \A i \in 1..Len(Plan(r)) : Plan(r)[i] \in DOMAIN r.files
  BY DEF Fit
<1>2. CASE r.web
  <2>1. {"app.js", "index.html", "styles.css"} \subseteq DOMAIN r.files
    BY <1>1, <1>2, PlanIs
  <2>2. Critical(r.files) = {} /\ Acts(r.files)
    BY <2>1 DEF Critical, BrokenNavigation, Acts, Fit
  <2>3. r.files # NoFiles
    BY <2>1 DEF NoFiles
  <2>4. QED
    BY <1>2, <2>1, <2>2, <2>3 DEF Passed, Invalid
<1>3. CASE ~r.web
  <2>1. DOMAIN r.files = {"server.js"}
    BY <1>3, PlanIs DEF Fit
  <2>2. Critical(r.files) = {} /\ Acts(r.files)
    BY <2>1 DEF Critical, BrokenNavigation, Acts, Fit, Drifted
  <2>3. r.files # NoFiles
    BY <2>1 DEF NoFiles
  <2>4. QED
    BY <1>3, <2>2, <2>3 DEF Passed, Invalid
<1>4. QED
  BY <1>2, <1>3

\* A whole pass that fits is shipped.
LEMMA FitShips ==
  ASSUME NEW r, Gathering(r), Fit(r, Len(Plan(r))), NEW s \in EndOfPass(r)
  PROVE  s.pc = "done" /\ (s.spec = "plain" => s.outcome = "model")
<1>1. Analysed(r) /\ ~Invalid(r) /\ r.files # NoFiles
  BY FitPasses DEF Analysed
<1>2. s \in Judged(r)
  BY <1>1 DEF EndOfPass
<1>3. PICK spec \in Architecture :
        s \in IF spec # "plain" => HasBackendEntryPoint(r.files)
              THEN {EndedAs(r, spec, "model")} ELSE FromSpecification(r, spec)
  BY <1>1, <1>2 DEF Judged
<1>4. \A o \in Outcome :
        /\ EndedAs(r, spec, o).pc = "done" /\ EndedAs(r, spec, o).spec = spec
        /\ EndedAs(r, spec, o).outcome = o
  BY DEF EndedAs, Gathering, Written
<1>5. CASE spec = "plain"
  BY <1>3, <1>4, <1>5 DEF Outcome
<1>6. CASE spec # "plain"
  <2>1. PICK o \in Outcome : s = EndedAs(r, spec, o)
    BY <1>3, <1>6 DEF FromSpecification, Outcome
  <2>2. QED
    BY <1>4, <1>6, <2>1
<1>7. QED
  BY <1>5, <1>6

\* A file that fits keeps the run on its track.
LEMMA FitGoesOn ==
  ASSUME NEW r, Gathering(r), Fit(r, r.pos - 1),
         NEW content \in Source(Plan(r)[r.pos]), Fits(r, Plan(r)[r.pos], content),
         NEW s \in NextFile(r, {content}), NEW c
  PROVE  OnTrack(s, c)
<1> DEFINE path == Plan(r)[r.pos]
           paths == DOMAIN r.files \cup {path}
           files == [p \in paths |-> IF p = path THEN content ELSE r.files[p]]
           f == [r EXCEPT !.attempts = 0, !.provider = "chain", !.changed = TRUE, !.files = files]
           next == [f EXCEPT !.pc = "ask", !.pos = @ + 1]
<1>1. /\ r \in Written /\ r.pos \in Nat /\ r.pos \in 1..Len(Plan(r)) /\ Len(Plan(r)) \in {1, 3}
      /\ DOMAIN Plan(r) = 1..Len(Plan(r)) /\ path \in Planned(r) /\ Planned(r) \subseteq Path
  BY PlanIs DEF Gathering, Written, Planned, Path
<1>2. s \in IF r.pos < Len(Plan(r)) THEN {next} ELSE EndOfPass(f)
  <2> DEFINE wrote == {content}
  <2>1. /\ DOMAIN r.files \cup (IF wrote = {} THEN {} ELSE {path}) = paths
        /\ (r.changed \/ wrote # {}) = TRUE /\ (CHOOSE x \in wrote : TRUE) = content
        /\ wrote # {}
    OBVIOUS
  <2>2. NextFile(r, wrote) =
          LET g == [r EXCEPT !.attempts = 0, !.provider = "chain",
                             !.changed = r.changed \/ wrote # {},
                             !.files = [p \in DOMAIN r.files \cup (IF wrote = {} THEN {} ELSE {path}) |->
                                  IF p = path /\ wrote # {} THEN CHOOSE x \in wrote : TRUE
                                  ELSE r.files[p]]]
          IN IF r.pos < Len(Plan(r)) THEN {[g EXCEPT !.pc = "ask", !.pos = @ + 1]} ELSE EndOfPass(g)
    BY DEF NextFile
  <2> HIDE DEF wrote
  <2>3. QED
    BY <2>1, <2>2 DEF wrote
<1> HIDE DEF files
<1>3. files \in Files
  <2>1. paths \in SUBSET Path /\ content \in Content
    BY <1>1, SourceIsContent DEF Gathering
  <2>2. \A p \in paths : (IF p = path THEN content ELSE r.files[p]) \in Content
    BY <1>1, <2>1 DEF Written, Files
  <2>3. files \in [paths -> Content]
    BY <2>2 DEF files
  <2>4. QED
    BY <2>1, <2>3 DEF Files
<1>4. f \in Written /\ f.web = r.web /\ f.pos = r.pos /\ f.files = files /\ f.attempts = 0
      /\ f.provider = "chain"
  BY <1>1, <1>3 DEF Written
<1>5. Plan(f) = Plan(r) /\ Planned(f) = Planned(r)
  BY <1>4 DEF Plan, Planned
<1>6. /\ DOMAIN files = DOMAIN r.files \cup {path} /\ files[path] = content
      /\ \A p \in DOMAIN r.files : p # path => files[p] = r.files[p]
  BY DEF files
<1>7. Gathering(f)
  BY <1>1, <1>4, <1>5, <1>6 DEF Gathering
<1>8. Fit(f, r.pos)
  <2>1. DOMAIN files = {Plan(r)[i] : i \in 1..r.pos}
    <3>1. 1..r.pos = 1..(r.pos - 1) \cup {r.pos}
      BY <1>1
    <3>2. QED
      BY <3>1, <1>6 DEF Fit
  <2>2. ~content.flawed /\ (path # "styles.css" => content.acts)
    <3>1. CASE path \in {"app.js", "index.html"}
      BY <3>1 DEF Source, Fits
    <3>2. CASE path \in {"styles.css", "server.js"}
      BY <3>2 DEF Fits
    <3>3. QED
      BY <1>1, <3>1, <3>2 DEF Path
  <2>3. ~Drifted(files)
    <3>1. CASE path = "index.html"
      <4>1. "app.js" \in DOMAIN files => files["app.js"].contract = content.contract
        BY <1>6, <3>1 DEF Fits
      <4>2. QED
        BY <1>6, <3>1, <4>1 DEF Drifted
    <3>2. CASE path = "app.js"
      <4>1. "index.html" \in DOMAIN files => files["index.html"].contract = content.contract
        BY <1>6, <3>2 DEF Fits
      <4>2. QED
        BY <1>6, <3>2, <4>1 DEF Drifted
    <3>3. CASE path \notin {"app.js", "index.html"}
      BY <1>6, <3>3 DEF Drifted, Fit
    <3>4. QED
      BY <3>1, <3>2, <3>3
  <2>4. ASSUME NEW p \in DOMAIN files
        PROVE  ~files[p].flawed /\ (p # "styles.css" => files[p].acts)
    <3>1. CASE p = path
      BY <1>6, <2>2, <3>1
    <3>2. CASE p # path
      BY <1>6, <3>2 DEF Fit
    <3>3. QED
      BY <3>1, <3>2
  <2> HIDE DEF f, path
  <2>5. QED
    BY <1>4, <1>5, <2>1, <2>3, <2>4 DEF Fit
<1> HIDE DEF f, path
<1>9. CASE r.pos < Len(Plan(r))
  <2>1. r.pos + 1 \in Nat /\ (r.pos + 1) - 1 = r.pos
    BY <1>1
  <2>2. /\ next.web = r.web /\ next.pos = r.pos + 1 /\ next.files = f.files
        /\ next.pc = "ask" /\ next.attempts = 0
    BY <1>4, <2>1 DEF Written
  <2>3. Plan(next) = Plan(f)
    BY <1>4, <2>2 DEF Plan
  <2>4. Fit(next, next.pos - 1)
    BY <1>8, <2>1, <2>2, <2>3 DEF Fit
  <2>5. QED
    BY <1>2, <1>9, <2>2, <2>4 DEF OnTrack
<1>10. CASE ~(r.pos < Len(Plan(r)))
  <2>1. r.pos = Len(Plan(f)) /\ s \in EndOfPass(f)
    BY <1>1, <1>2, <1>5, <1>10
  <2>2. QED
    BY <1>7, <1>8, <2>1, FitShips DEF OnTrack
<1>11. QED
  BY <1>9, <1>10

-----------------------------------------------------------------------------
LEMMA OutageInit == GenerationInit => OutageInv
BY GenerationInvAtFirst DEF GenerationInit, OutageInv

\* One run moves: that run is on its track, unless it is excused.
LEMMA OneOnTrack ==
  ASSUME OutageInv, GenerationInv', NEW j \in CodeJob, NEW s, NEW c,
         codeJob' = [codeJob EXCEPT ![j] = s], groqKey' = groqKey,
         call' = [call EXCEPT ![j] = c] \/ (call' = call /\ c = call[j]),
         \A i \in CodeJob : i # j => (Unexcused(i)' => Unexcused(i)),
         s # Idle /\ Unexcused(j)' => groqKey /\ OnTrack(s, c)
  PROVE  OutageInv'
<1>1. DOMAIN call' = CodeJob /\ call'[j] = c /\ \A i \in CodeJob : i # j => call'[i] = call[i]
  BY DEF OutageInv
<1>2. codeJob'[j] = s /\ \A i \in CodeJob : i # j => codeJob'[i] = codeJob[i]
  BY DEF OutageInv, GenerationInv
<1>3. ASSUME NEW i \in CodeJob, codeJob'[i] # Idle, Unexcused(i)' PROVE groqKey' /\ OnTrack(codeJob'[i], call'[i])
  BY <1>1, <1>2, <1>3 DEF OutageInv
<1>4. \A i \in CodeJob : OnTrack(codeJob[i], call[i])' <=> OnTrack(codeJob'[i], call'[i])
  BY DEF OnTrack, Fit, Plan
<1>5. QED
  BY <1>1, <1>3, <1>4 DEF OutageInv

\* A call of a run that was not excused is not thrown: Groq stands behind Workers AI.
LEMMA CallBehind ==
  ASSUME groqKey, NEW c \in [at : Stage \cup {"threw"}, groqFailed : BOOLEAN, retriable : BOOLEAN],
         ~c.groqFailed
  PROVE  Behind(c) \in Chain /\ ~Behind(c).groqFailed /\ Behind(c).at = "groqLast"
BY DEF Behind, Chain, Stage

LEMMA GenerateBehind ==
  ASSUME groqKey, NEW r
  PROVE  /\ Generate(r).call \in Chain /\ ~Generate(r).call.groqFailed
         /\ r.provider = "groq" => Generate(r).call.at = "groqLast"
<1>1. NewCall \in Chain /\ ~NewCall.groqFailed
  BY DEF NewCall, Chain, Stage
<1>2. \A stage \in Stage : /\ [NewCall EXCEPT !.at = stage] \in Chain
                           /\ ~[NewCall EXCEPT !.at = stage].groqFailed
                           /\ [NewCall EXCEPT !.at = stage].at = stage
  BY DEF NewCall, Chain
<1>3. Behind(NewCall) \in Chain /\ ~Behind(NewCall).groqFailed
  BY <1>1, CallBehind DEF Chain
<1>4. EnterWorkers(NewCall).call \in {Behind(NewCall), [NewCall EXCEPT !.at = "primary"]}
  BY DEF EnterWorkers, AfterCall
<1>5. /\ \/ Generate(r).call = [NewCall EXCEPT !.at = "groqLast"]
         \/ r.provider # "groq" /\ Generate(r).call = [NewCall EXCEPT !.at = "groqFirst"]
         \/ r.provider # "groq" /\ Generate(r).call = EnterWorkers(NewCall).call
  BY DEF Generate, AfterCall
<1>6. {"groqFirst", "groqLast", "primary"} \subseteq Stage
  BY DEF Stage
<1>7. EnterWorkers(NewCall).call \in Chain /\ ~EnterWorkers(NewCall).call.groqFailed
  BY <1>2, <1>3, <1>4, <1>6
<1>8. CASE Generate(r).call = [NewCall EXCEPT !.at = "groqLast"]
  BY <1>2, <1>6, <1>8
<1>9. CASE r.provider # "groq" /\ Generate(r).call = [NewCall EXCEPT !.at = "groqFirst"]
  BY <1>2, <1>6, <1>9
<1>10. QED
  BY <1>5, <1>7, <1>8, <1>9

LEMMA FailureBehind ==
  ASSUME groqKey, NEW c \in Chain, ~c.groqFailed, ~FromGroq(c), NEW after \in Failure(c)
  PROVE  after.call \in Chain /\ ~after.call.groqFailed
<1>1. c.at \in {"primary", "second"}
  BY DEF FromGroq, Chain, Stage
<1>2. \A e \in Classified(c) : e \in Chain /\ ~e.groqFailed
  BY DEF Classified, Chain
<1>3. \A e \in Chain : ~e.groqFailed =>
        /\ Behind(e) \in Chain /\ ~Behind(e).groqFailed
        /\ [e EXCEPT !.at = "second"] \in Chain /\ ~[e EXCEPT !.at = "second"].groqFailed
  BY CallBehind DEF Chain, Stage
<1>4. \E e \in Classified(c) \cup {c} : after.call \in {Behind(e), [e EXCEPT !.at = "second"]}
  BY <1>1 DEF Failure, AfterCall
<1>5. QED
  BY <1>2, <1>3, <1>4

\* A call that goes on leaves the run on its track.
LEMMA ContinueOnTrack ==
  ASSUME OutageInv, GenerationInv', NEW j \in CodeJob, NEW r, NEW after, Continue(j, r, after),
         groqKey' = groqKey, \A i \in CodeJob : i # j => (Unexcused(i)' => Unexcused(i)),
         Unexcused(j)' => /\ groqKey /\ r \in Written /\ Fit(r, r.pos - 1)
                          /\ after.call \in Chain /\ ~after.call.groqFailed
                          /\ IF r.provider = "chain" THEN r.attempts = 1
                                                     ELSE after.call.at = "groqLast"
  PROVE  OutageInv'
<1>1. CASE after.call.at = "threw"
  <2>1. ~Unexcused(j)'
    BY <1>1 DEF Chain, Stage
  <2>2. PICK s : codeJob' = [codeJob EXCEPT ![j] = s] /\ call' = [call EXCEPT ![j] = NoCall]
    BY <1>1 DEF Continue
  <2>3. QED
    BY <2>1, <2>2, OneOnTrack
<1>2. CASE after.call.at # "threw"
  <2> DEFINE s == [r EXCEPT !.pc = "wait"]
  <2>1. codeJob' = [codeJob EXCEPT ![j] = s] /\ call' = [call EXCEPT ![j] = after.call]
    BY <1>2 DEF Continue
  <2>2. ASSUME Unexcused(j)' PROVE groqKey /\ OnTrack(s, after.call)
    <3>1. /\ s.pc = "wait" /\ s.files = r.files /\ s.pos = r.pos /\ s.web = r.web
          /\ s.provider = r.provider /\ s.attempts = r.attempts
      BY <2>2 DEF Written
    <3>2. Plan(s) = Plan(r)
      BY <3>1 DEF Plan
    <3> HIDE DEF s
    <3>3. QED
      BY <2>2, <3>1, <3>2 DEF OnTrack, Fit
  <2> HIDE DEF s
  <2>3. QED
    BY <2>1, <2>2, OneOnTrack
<1>3. QED
  BY <1>1, <1>2

LEMMA OutageStart ==
  ASSUME OutageInv, GenerationInv', NEW j \in CodeJob, Start(j)
  PROVE  OutageInv'
<1> DEFINE begun(web) == [pc |-> "ask", web |-> web, spec |-> "unread", round |-> 0, pos |-> 1,
                          attempts |-> 0, provider |-> "chain", files |-> NoFiles,
                          changed |-> FALSE, outcome |-> "none"]
<1>1. PICK web \in BOOLEAN :
        \E s \in IF bound \/ groqKey THEN {begun(web)} ELSE Refused(begun(web)) :
          codeJob' = [codeJob EXCEPT ![j] = s]
  BY DEF Start
<1> DEFINE r == begun(web)
<1>2. PICK s : codeJob' = [codeJob EXCEPT ![j] = s] /\ (groqKey => s = r)
  BY <1>1
<1>3. call' = call /\ groqKey' = groqKey
  BY DEF Start
<1>4. ~groqKey => ~Unexcused(j)'
  <2>1. ~groqKey => <<j, "groq">> \in excused'
    BY DEF Start
  <2>2. QED
    BY <2>1, Excuses DEF Unexcused
<1>5. \A i \in CodeJob : i # j => (Unexcused(i)' => Unexcused(i))
  BY DEF Start, Unexcused
<1>6. OnTrack(r, call[j])
  <2>1. r.pc = "ask" /\ r.attempts = 0 /\ r.pos = 1 /\ r.files = NoFiles
    OBVIOUS
  <2>2. DOMAIN NoFiles = {} /\ 1..(1 - 1) = {}
    BY DEF NoFiles
  <2> HIDE DEF r
  <2>3. QED
    BY <2>1, <2>2 DEF OnTrack, Fit, Drifted
<1> HIDE DEF r
<1>7. QED
  BY <1>2, <1>3, <1>4, <1>5, <1>6, OneOnTrack

LEMMA OutageAsk ==
  ASSUME OutageInv, GenerationInv', NEW j \in CodeJob, Ask(j)
  PROVE  OutageInv'
<1> DEFINE r == Attempted(codeJob[j])
<1>1. /\ Gathering(codeJob[j]) /\ codeJob[j].pc = "ask" /\ codeJob[j] # Idle
      /\ Continue(j, r, Generate(r)) /\ groqKey' = groqKey /\ excused' = excused
  BY DEF Ask, OutageInv, GenerationInv, Good
<1>2. codeJob[j].attempts \in Nat /\ codeJob[j] \in Written
  BY <1>1 DEF Gathering, Written
<1>3. codeJob[j].attempts + 1 \in Nat
  BY <1>2
<1>4. /\ r \in Written /\ r.web = codeJob[j].web /\ r.pos = codeJob[j].pos /\ r.files = codeJob[j].files
      /\ r.provider = codeJob[j].provider /\ r.attempts = codeJob[j].attempts + 1
  BY <1>2, <1>3 DEF Attempted, Written
<1>5. Plan(r) = Plan(codeJob[j])
  BY <1>4 DEF Plan
<1>6. \A i \in CodeJob : Unexcused(i)' <=> Unexcused(i)
  BY <1>1 DEF Unexcused
<1> HIDE DEF r
<1>7. ASSUME Unexcused(j)'
      PROVE  /\ groqKey /\ r \in Written /\ Fit(r, r.pos - 1)
             /\ Generate(r).call \in Chain /\ ~Generate(r).call.groqFailed
             /\ IF r.provider = "chain" THEN r.attempts = 1
                                        ELSE Generate(r).call.at = "groqLast"
  <2>1. groqKey /\ OnTrack(codeJob[j], call[j])
    BY <1>1, <1>6, <1>7 DEF OutageInv
  <2>2. Fit(r, r.pos - 1)
    BY <1>1, <1>4, <1>5, <2>1 DEF OnTrack, Fit
  <2>3. r.provider \in {"chain", "groq"} /\ (r.provider = "chain" => r.attempts = 1)
    BY <1>1, <1>2, <1>4, <2>1 DEF OnTrack, Written
  <2>4. QED
    BY <1>4, <2>1, <2>2, <2>3, GenerateBehind
<1>8. QED
  BY <1>1, <1>6, <1>7, ContinueOnTrack

LEMMA OutageCall ==
  ASSUME FileAttempts > 1, OutageInv, GenerationInv', NEW j \in CodeJob,
         CallFails(j) \/ CallAnswers(j) \/ CallAnswersOtherwise(j) \/ GiveUp(j)
  PROVE  OutageInv'
<1> DEFINE r == codeJob[j]
<1>1. /\ Gathering(r) /\ r # Idle /\ r.pc = "wait" /\ groqKey' = groqKey
      /\ r \in Written
  BY DEF CallFails, CallAnswers, CallAnswersOtherwise, GiveUp, Waiting, OutageInv, GenerationInv,
         Good, Gathering
<1>2. /\ \A i \in CodeJob : i # j => (Unexcused(i)' => Unexcused(i))
      /\ Unexcused(j)' => Unexcused(j)
  BY DEF CallFails, CallAnswers, CallAnswersOtherwise, GiveUp, Unexcused
<1>3. Unexcused(j) => /\ groqKey /\ Fit(r, r.pos - 1)
                      /\ call[j] \in Chain /\ ~call[j].groqFailed
                      /\ IF r.provider = "chain" THEN r.attempts = 1 ELSE call[j].at = "groqLast"
  BY <1>1 DEF OutageInv, OnTrack
<1>5. CASE CallFails(j)
  <2>1. PICK after \in Failure(call[j]) : Continue(j, r, after)
    BY <1>5 DEF CallFails
  <2>2. Unexcused(j)' => ~FromGroq(call[j])
    <3>1. FromGroq(call[j]) => <<j, "groq">> \in excused'
      BY <1>5 DEF CallFails
    <3>2. QED
      BY <3>1, Excuses DEF Unexcused
  <2>3. ASSUME Unexcused(j)'
        PROVE  /\ groqKey /\ r \in Written /\ Fit(r, r.pos - 1)
               /\ after.call \in Chain /\ ~after.call.groqFailed
               /\ IF r.provider = "chain" THEN r.attempts = 1
                                          ELSE after.call.at = "groqLast"
    BY <1>1, <1>2, <1>3, <2>2, <2>3, FailureBehind DEF FromGroq
  <2>4. QED
    BY <1>1, <1>2, <2>1, <2>3, ContinueOnTrack
<1>6. CASE CallAnswers(j)
  <2> DEFINE path == Plan(r)[r.pos]
  <2>1. PICK content \in Source(path) :
          /\ \E s \in NextFile(r, {content}) : codeJob' = [codeJob EXCEPT ![j] = s]
          /\ excused' = IF Fits(r, path, content) THEN excused ELSE excused \cup {<<j, "groq">>}
    BY <1>6 DEF CallAnswers
  <2>2. PICK s \in NextFile(r, {content}) : codeJob' = [codeJob EXCEPT ![j] = s]
    BY <2>1
  <2>3. call' = [call EXCEPT ![j] = NoCall]
    BY <1>6 DEF CallAnswers
  <2>4. ASSUME Unexcused(j)' PROVE groqKey /\ OnTrack(s, NoCall)
    <3>1. Fits(r, path, content)
      <4>1. ~Fits(r, path, content) => <<j, "groq">> \in excused'
        BY <2>1
      <4>2. QED
        BY <2>4, <4>1, Excuses DEF Unexcused
    <3>2. QED
      BY <1>1, <1>2, <1>3, <2>4, <3>1, FitGoesOn
  <2>5. QED
    BY <1>1, <1>2, <2>2, <2>3, <2>4, OneOnTrack
<1>7. CASE CallAnswersOtherwise(j)
  <2>1. call' = [call EXCEPT ![j] = NoCall]
        /\ (Unexcused(j)' => Unexcused(j) /\ ~FromGroq(call[j]))
    <3>1. FromGroq(call[j]) => <<j, "groq">> \in excused'
      BY <1>7 DEF CallAnswersOtherwise
    <3>2. Unexcused(j)' => ~FromGroq(call[j])
      BY <3>1, Excuses DEF Unexcused
    <3>3. QED
      BY <1>2, <1>7, <3>2 DEF CallAnswersOtherwise
  <2>2. CASE FallsBack(r)
    <3> DEFINE s == [r EXCEPT !.pc = "ask", !.provider = "groq"]
    <3>1. codeJob' = [codeJob EXCEPT ![j] = s]
      BY <1>7, <2>2 DEF CallAnswersOtherwise
    <3>2. /\ s.pc = "ask" /\ s.provider = "groq" /\ s.files = r.files /\ s.pos = r.pos
          /\ s.web = r.web
      BY <1>1 DEF Written
    <3>3. Plan(s) = Plan(r)
      BY <3>2 DEF Plan
    <3> HIDE DEF s
    <3>4. Unexcused(j)' => groqKey /\ OnTrack(s, NoCall)
      BY <1>2, <1>3, <3>2, <3>3 DEF OnTrack, Fit
    <3>5. QED
      BY <1>1, <1>2, <2>1, <3>1, <3>4, OneOnTrack
  <2>3. CASE ~FallsBack(r)
    <3>1. PICK s \in NextFile(r, {}) : codeJob' = [codeJob EXCEPT ![j] = s]
      BY <1>7, <2>3 DEF CallAnswersOtherwise
    <3>2. ~Unexcused(j)'
      <4> SUFFICES ASSUME Unexcused(j)' PROVE FALSE
        OBVIOUS
      <4>1. r.provider = "chain" /\ r.attempts = 1 /\ groqKey
        BY <1>3, <2>1 DEF FromGroq
      <4>2. QED
        BY <2>3, <4>1 DEF FallsBack
    <3>3. QED
      BY <1>1, <1>2, <2>1, <3>1, <3>2, OneOnTrack
  <2>4. QED
    BY <2>2, <2>3
<1>8. CASE GiveUp(j)
  <2>1. PICK s \in NextFile(r, {}) : codeJob' = [codeJob EXCEPT ![j] = s]
    BY <1>8 DEF GiveUp
  <2>2. call' = [call EXCEPT ![j] = NoCall] /\ ~Unexcused(j)'
    <3>1. <<j, "groq">> \in excused' \/ <<j, "hung">> \in excused'
      BY <1>8 DEF GiveUp
    <3>2. ~Unexcused(j)'
      BY <3>1, Excuses DEF Unexcused
    <3>3. QED
      BY <1>8, <3>2 DEF GiveUp
  <2>3. QED
    BY <1>1, <1>2, <2>1, <2>2, OneOnTrack
<1>9. QED
  BY <1>5, <1>6, <1>7, <1>8

LEMMA OutageNext == FileAttempts > 1 /\ OutageInv /\ [GenerationNext]_generationVars => OutageInv'
<1> SUFFICES ASSUME FileAttempts > 1, OutageInv, [GenerationNext]_generationVars PROVE OutageInv'
  OBVIOUS
<1>1. GenerationInv'
  BY GenerationInvKept DEF OutageInv
<1>2. ASSUME NEW j \in CodeJob,
             \/ Start(j) \/ Ask(j) \/ CallFails(j) \/ CallAnswers(j) \/ CallAnswersOtherwise(j)
             \/ GiveUp(j) \/ Again(j)
      PROVE  OutageInv'
  <2>1. CASE Again(j)
    <3>1. /\ codeJob' = [codeJob EXCEPT ![j] = Idle] /\ call' = call
          /\ groqKey' = groqKey /\ excused' = excused
      BY <2>1 DEF Again
    <3>2. \A i \in CodeJob : Unexcused(i)' <=> Unexcused(i)
      BY <3>1 DEF Unexcused
    <3>3. QED
      BY <1>1, <3>1, <3>2, OneOnTrack
  <2>2. QED
    BY <1>1, <1>2, <2>1, OutageStart, OutageAsk, OutageCall
<1>3. CASE \/ \E stage \in late : LateEnds(stage) \/ LateFails(stage)
           \/ Forget \/ CallElsewhere \/ NewDay \/ UNCHANGED generationVars
  <2>1. codeJob' = codeJob /\ call' = call /\ groqKey' = groqKey /\ excused' = excused
    BY <1>3 DEF LateEnds, LateFails, Forget, CallElsewhere, NewDay, generationVars
  <2>2. \A j \in CodeJob : Unexcused(j)' <=> Unexcused(j)
    BY <2>1 DEF Unexcused
  <2>3. \A j \in CodeJob : OnTrack(codeJob'[j], call'[j]) <=> OnTrack(codeJob[j], call[j])
    BY <2>1
  <2>4. GenerationInv'
    BY <1>1, GenerationInvKept DEF OutageInv
  <2>5. QED
    BY <1>1, <2>1, <2>2, <2>3, <2>4 DEF OutageInv
<1>4. QED
  BY <1>2, <1>3 DEF GenerationNext

\* CodeGeneration!OutageCostsNothing: while Workers AI is out, refuses its quota, or answers
\* with no file, a product whose specification owes no backend is a model's, if Groq answers
\* well; for any runs at once, with two attempts at a file or more (the code has four).
THEOREM OutageCostsNothingHolds ==
  ASSUME FileAttempts > 1 PROVE GenerationSpec => []OutageCostsNothing
<1>1. OutageInv /\ [GenerationNext]_generationVars => OutageInv'
  BY OutageNext
<1>2. OutageInv => OutageCostsNothing
  BY DEF OutageInv, OutageCostsNothing, OnTrack, Done, Unexcused
<1>3. QED
  BY OutageInit, <1>1, <1>2, PTL DEF GenerationSpec
=============================================================================
