-------------------------- MODULE MCAcceptanceRun --------------------------
(***************************************************************************)
(* One acceptance run (AcceptanceRun) and the runners it rests on: the     *)
(* page driven without a browser (PageDrive), the served deployment        *)
(* (DeploymentHarness) and the journey with its repair loop (UserJourney). *)
(* They keep no state in common, so one part moves in a behaviour and the  *)
(* others stay where they are.                                             *)
(***************************************************************************)
EXTENDS AcceptanceRun, TLC

CONSTANTS Page, MaxControls, Socket, Product, MaxWrites, Plan, Build, MaxAttempts,
          MaxHangs
VARIABLES
  part,
  page, stage, agenda, typed, stale, statuses, judgement, change,
  product, served, stores, writes, reused, pairs, hub, sent, conn,
  loop, plan, build, attempt, at, store, member, opened, bearer, steps, everFailed, outcome,
  report, hangs, installed

pageVars == <<page, stage, agenda, typed, stale, statuses, judgement, change>>
harnessVars == <<product, served, stores, writes, reused, pairs, hub, sent, conn>>
journeyVars == <<loop, plan, build, attempt, at, store, member, opened, bearer, steps,
                 everFailed, outcome, report, hangs, installed>>

Drive == INSTANCE PageDrive
Harness == INSTANCE DeploymentHarness
Founder == INSTANCE UserJourney

\* For their records alone: what a page and a build are made of.
Pages == INSTANCE PageDrive WITH Page <- {}
Builds == INSTANCE UserJourney WITH Build <- {}

ASSUME RunnerAssumption ==
  Drive!PageDriveBounds /\ Harness!DeploymentHarnessBounds /\ Founder!UserJourneyBounds

Plain == [type |-> "records", words |-> {}, services |-> {}, roles |-> FALSE, auth |-> FALSE,
          live |-> FALSE, data |-> FALSE, secure |-> FALSE, several |-> FALSE,
          native |-> FALSE, named |-> TRUE]

\* A diary for one; the same with verbs, in and out of the order of probes; a shop with
\* accounts, live updates and searches; a team's reports; services; an Android app.
MCCommand ==
  {Plain,
   [Plain EXCEPT !.type = "other", !.named = FALSE],
   [Plain EXCEPT !.words = {"create", "search"}],
   [Plain EXCEPT !.type = "operated", !.words = {"create"}],
   [Plain EXCEPT !.type = "operated", !.words = {"create", "read", "delete", "reminder"}],
   [Plain EXCEPT !.type = "operated", !.words = {"create", "read", "update", "import"}],
   [Plain EXCEPT !.type = "operated", !.words = {"delete", "sort"}],
   [Plain EXCEPT !.type = "operated", !.auth = TRUE],
   [Plain EXCEPT !.type = "operated", !.auth = TRUE, !.live = TRUE,
                 !.words = {"create", "read", "update", "delete", "search", "sort", "payment"}],
   [Plain EXCEPT !.several = TRUE, !.words = {"read", "report"}, !.live = TRUE],
   [Plain EXCEPT !.type = "other", !.words = {"search", "sort"}, !.several = TRUE],
   [Plain EXCEPT !.type = "none", !.words = {"reminder", "media"}, !.native = TRUE],
   [Plain EXCEPT !.type = "none", !.services = {"weather"}, !.roles = TRUE],
   [Plain EXCEPT !.services = {"maps", "payments"}, !.auth = TRUE],
   [Plain EXCEPT !.services = {"email"}],
   [Plain EXCEPT !.services = {"sms"}]}

\* A perfect app, one with an order by a text, one whose source names no records, one that
\* cannot search; and all that an app may do, but for one thing or for two.
AllSays == Kinds \cup {"summary-route"}
MCApp ==
  [does : {Behaviour}, says : {AllSays, AllSays \cup {"text-order"}, AllSays \ {"roundtrip"},
                              AllSays \ {"filter-narrowing"}}]
  \cup [does : {Behaviour \ {b} : b \in Behaviour}, says : {AllSays}]
  \cup [does : {Behaviour \ {"updates", "deletes"}, Behaviour \ {"stores", "validates"}},
        says : {AllSays}]
MCCredential == {{"weather", "maps", "payments", "email"}}

\* Every page of at most two controls that loads cleanly, and of one that does not.
MCPage == {p \in Pages!PageRecord : p.clean \/ Len(p.controls) = 1}

\* A hub of three clients, one that reaches its first, and four writes without one.
Served == [handler |-> TRUE, hub |-> "all", writes |-> 2]
MCProduct == {Served, [Served EXCEPT !.hub = "first", !.writes = 1],
              [Served EXCEPT !.hub = "none", !.writes = 4],
              [Served EXCEPT !.handler = FALSE, !.writes = 0]}
Twins == Permutations(Socket)

Server == [backend |-> TRUE, auth |-> TRUE, data |-> TRUE, live |-> TRUE]
MCPlan == {Server, [Server EXCEPT !.live = FALSE], [Server EXCEPT !.data = FALSE],
           [Server EXCEPT !.auth = FALSE, !.live = FALSE],
           [Server EXCEPT !.backend = FALSE, !.auth = FALSE, !.live = FALSE]}
\* Builds without one behaviour, without two, without accounts, without a server; other hubs.
Everyone == [reach |-> "all", rests |-> FALSE]
Lacking(set) == [does |-> Builds!Behaviour \ set, hub |-> Everyone]
MCBuild ==
  {Lacking({b}) : b \in Builds!Behaviour} \cup {Lacking({"updates", "deletes"})}
  \cup {Lacking({"guards", b}) : b \in {"404", "stores", "lists", "updates"}}
  \cup {Lacking({"handler", b}) : b \in {"404", "keeps", "catches", "loads"}}
  \cup {[Lacking({}) EXCEPT !.hub = h] : h \in Builds!Hub}

\* Where a part stays while another moves.
RunStays ==
  /\ c = Plain /\ does = {} /\ says = {} /\ creds = {}
  /\ lost = [call |-> "none", reached |-> FALSE]
  /\ pc = "contract" /\ rows = {} /\ user = FALSE /\ session = FALSE /\ token = FALSE
  /\ k = 1 /\ rec = FALSE /\ probes = <<>> /\ tests = <<>> /\ verdict = NoVerdict
PageStays ==
  /\ page = [clean |-> TRUE, input |-> FALSE, controls |-> <<>>]
  /\ stage = "load" /\ agenda = <<>> /\ typed = FALSE /\ stale = FALSE /\ statuses = {}
  /\ judgement = "none" /\ change = Drive!NoChange
HarnessStays == Harness!Init /\ product = Served
JourneyStays ==
  /\ Founder!Init /\ loop = "journey" /\ plan = Server /\ build = Lacking({"404"})

MCInit ==
  \/ part = "run" /\ Init /\ PageStays /\ HarnessStays /\ JourneyStays
  \/ part = "page" /\ RunStays /\ Drive!Init /\ HarnessStays /\ JourneyStays
  \/ part = "harness" /\ RunStays /\ PageStays /\ Harness!Init /\ JourneyStays
  \/ part = "journey" /\ RunStays /\ PageStays /\ HarnessStays /\ Founder!Init
MCNext ==
  /\ part' = part
  /\ \/ part = "run" /\ Next /\ UNCHANGED <<pageVars, harnessVars, journeyVars>>
     \/ part = "page" /\ Drive!Next /\ UNCHANGED <<vars, harnessVars, journeyVars>>
     \/ part = "harness" /\ Harness!Next /\ UNCHANGED <<vars, pageVars, journeyVars>>
     \/ part = "journey" /\ Founder!Next /\ UNCHANGED <<vars, pageVars, harnessVars>>
MCSpec == MCInit /\ [][MCNext]_<<part, vars, pageVars, harnessVars, journeyVars>>

\* The properties of the other parts, as they stand there.
VerdictIsTrue == Drive!VerdictIsTrue
ShimIsD1 == part = "harness" => Harness!ShimIsD1
EveryWriteOnce == Harness!EveryWriteOnce
JourneyIsTrue == Founder!JourneyIsTrue
=============================================================================
