--------------------------- MODULE AcceptanceRun ---------------------------
(***************************************************************************)
(* One acceptance run of a generated app and the verdict on it: the runner *)
(* of scripts/production-runtime.mjs sends its requests, in order, to the  *)
(* app at its URL (or drives the page of an app without a server), records *)
(* tests, probes the product's own features on one shared record, judges   *)
(* the journey, and evaluateRuntimeAcceptance judges the record.           *)
(*                                                                         *)
(* An app is what it does (its behaviours) and what its source says (the   *)
(* capabilities deliveredCapabilities finds in it).  One call of the run   *)
(* may get no answer, whether or not it reached the app.  The deployment   *)
(* and the identity of the run are RuntimeAcceptance's.  There is code.    *)
(***************************************************************************)
EXTENDS AcceptanceRules

CONSTANTS
  Command,   \* commands of the founder
  App,       \* apps: what they do, and what their source says
  Credential,\* sets of services there is a credential for
  LostCall   \* calls that may go unanswered

Behaviour == {"up", "health", "contract", "guards", "registers", "unique", "password", "token",
              "validates", "stores", "updates", "deletes", "logout", "unknown404", "searches",
              "orders", "summary", "amount", "live", "launches", "keeps", "catches", "runs",
              "clean"}
\* clean: no fake signal in the source, and a server where one is owed.
\* summary-route: the path of a report.  text-order: its ORDER BY is of a text.
Capability == Kinds \cup {"summary-route", "text-order"}
Call == {"health", "contract", "unauthorized", "register", "duplicate", "wrong-login", "login",
         "session", "invalid", "before", "create", "read", "update", "reread", "delete",
         "relist", "missing", "list-missing", "again", "refresh", "logout", "after-logout",
         "unknown", "fabrication", "relogin", "probe", "probe-get", "probe-list", "want",
         "put-probe", "delete-probe", "other", "filter", "order", "summary", "live-login", "live"}

ASSUME CommandAssumption == Command \subseteq CommandRecord
ASSUME AppAssumption == App \subseteq [does : SUBSET Behaviour, says : SUBSET Capability]
ASSUME CallAssumption == LostCall \subseteq Call /\ Credential \subseteq SUBSET Service

VARIABLES
  c,         \* the command
  does, says,\* the app
  creds,     \* the credentials of the runner and of the Worker
  lost,      \* the call that gets no answer, and whether it reaches the app
  pc,
  rows,      \* the app's records: which one of the run's, and whether edited
  user,      \* the run's user is registered
  session,   \* its session is alive
  token,     \* the runner holds a token
  k, rec,    \* the probe it is at; the record of the probes has an id
  probes,    \* the probes' results so far
  tests,     \* the tests recorded so far
  verdict

input == <<c, does, says, creds, lost>>
app == <<rows, user, session>>
vars == <<input, pc, app, token, k, rec, probes, tests, verdict>>

Records == {"empty", "acc", "survives", "probe", "want", "other", "live"}
Status == {"PASS", "FAIL", "MISSING"}
Test == {"deployment", "health", "api-contract", "unauthorized", "register",
         "duplicate-register", "login", "invalid-login", "session", "invalid-input", "create",
         "read", "update", "delete", "read-missing", "refresh", "database", "core-feature",
         "realtime", "logout", "post-logout", "error-path", "fake-check", "user-journey",
         "ui-interaction", "local-persistence", "external-service", "android-launch"}
NoVerdict == [status |-> "none", code |-> "none"]
Step == {"contract", "auth", "login", "create", "update", "delete", "refresh", "logout",
         "errors", "services", "probes", "probe", "live", "journey", "local", "judge", "done"}

TypeOK ==
  /\ c \in Command /\ [does |-> does, says |-> says] \in App /\ creds \in Credential
  /\ lost \in [call : LostCall \cup {"none"}, reached : BOOLEAN]
  /\ pc \in Step
  /\ rows \subseteq Records \X BOOLEAN
  /\ user \in BOOLEAN /\ session \in BOOLEAN /\ token \in BOOLEAN /\ rec \in BOOLEAN
  /\ k \in 1..(Len(Features(c)) + 1)
  /\ probes \in Seq({"PASS", "FAIL"}) /\ Len(probes) = k - 1
  /\ DOMAIN tests \subseteq Test /\ \A t \in DOMAIN tests : tests[t] \in Status
  /\ verdict.status \in {"none", "passed", "failed", "blocked"}

Init ==
  /\ c \in Command /\ creds \in Credential
  /\ \E a \in App : does = a.does /\ says = a.says
  /\ lost \in [call : LostCall, reached : BOOLEAN] \cup {[call |-> "none", reached |-> TRUE]}
  /\ pc = IF Backend(c) THEN "contract" ELSE "local"
  /\ rows = {} /\ user = FALSE /\ session = FALSE /\ token = FALSE
  /\ k = 1 /\ rec = FALSE /\ probes = <<>>
  /\ tests = <<>> /\ verdict = NoVerdict

-----------------------------------------------------------------------------
\* Calls (callApi) and what the app answers.

Answers(q) == "up" \in does /\ lost.call # q
Reaches(q) == "up" \in does /\ (lost.call # q \/ lost.reached)

\* The records are served to a caller with token t.
Open(t) ==
  /\ "roundtrip" \in says
  /\ WantsAuth(c) => ("guards" \notin does \/ (t /\ session))
\* An app that does not store answers every request with the same.
Fake == "stores" \notin does
Ok(q, t) == Answers(q) /\ Open(t)
Acts(q, t) == Reaches(q) /\ Open(t) /\ ~Fake

\* readRows of a list: none for an answer without rows, and for no answer.
Listed(q, t, rs) == IF Ok(q, t) /\ ~Fake THEN rs ELSE {}
Posted(q, t, r, rs) == IF Acts(q, t) THEN rs \cup {<<r, FALSE>>} ELSE rs
Edited(q, t, r, rs) ==
  IF Acts(q, t) /\ "updates" \in does /\ <<r, FALSE>> \in rs
  THEN (rs \ {<<r, FALSE>>}) \cup {<<r, TRUE>>} ELSE rs
Without(r, rs) == {x \in rs : x[1] # r}
Removed(q, t, r, rs) == IF Acts(q, t) /\ "deletes" \in does THEN Without(r, rs) ELSE rs
Holds(r, rs) == Without(r, rs) # rs
\* GET of one record.
Got(q, t, r, rs) == Ok(q, t) /\ (Fake \/ Holds(r, rs))

Result(pass) == IF pass THEN "PASS" ELSE "FAIL"
Record(results) ==
  tests' = [t \in DOMAIN tests \cup DOMAIN results |->
              IF t \in DOMAIN results THEN results[t] ELSE tests[t]]
RecordsPath == "roundtrip" \in says \/ c.named
Goto(s) == pc' = s

-----------------------------------------------------------------------------
\* runProductionRuntimeAcceptance, at a URL.

\* A health that is not answered is asked of the records instead.  The contract is probed
\* with the methods of the page and without a body; there is nothing to probe when the page
\* calls no endpoint and no path of records is known.
Contract ==
  /\ pc = "contract"
  /\ \E probed \in {TRUE, RecordsPath} :
       /\ Record([t \in {"deployment", "health", "api-contract"} |->
            CASE t = "deployment" -> Result("up" \in does)
              [] t = "health" -> Result("up" \in does /\ ("health" \in does \/ ~Answers("health")))
              [] t = "api-contract" ->
                   IF probed THEN Result(Answers("contract") /\ "contract" \in does) ELSE "MISSING"])
       /\ rows' = IF ~probed \/ "validates" \in does THEN rows
                  ELSE Posted("contract", FALSE, "empty", rows)
  /\ Goto(IF WantsAuth(c) THEN "auth" ELSE "create")
  /\ UNCHANGED <<input, user, session, token, k, rec, probes, verdict>>

Auth ==
  /\ pc = "auth"
  /\ LET once == user \/ (Reaches("register") /\ "registers" \in does)
         stored == Answers("register") /\ "registers" \in does
         taken == once /\ "unique" \in does
     IN /\ Record([t \in {"unauthorized", "register", "duplicate-register"} |->
             CASE t = "unauthorized" ->
                    Result(Answers("unauthorized") /\ "guards" \in does /\ "roundtrip" \in says)
               [] t = "register" -> Result(stored)
               [] t = "duplicate-register" ->
                    Result(Answers("duplicate") /\ (taken \/ "registers" \notin does))])
        /\ user' = (once \/ (Reaches("duplicate") /\ "registers" \in does))
  /\ Goto("login")
  /\ UNCHANGED <<input, rows, session, token, k, rec, probes, verdict>>

Login ==
  /\ pc = "login"
  /\ LET in == Answers("login") /\ user /\ "token" \in does
     IN /\ token' = in
        /\ session' = (session \/ (Reaches("login") /\ user /\ "token" \in does)
                       \/ (Reaches("wrong-login") /\ user /\ "password" \notin does))
        /\ Record([t \in {"invalid-login", "login", "session"} |->
             CASE t = "invalid-login" ->
                    Result(Answers("wrong-login") /\ (~user \/ "password" \in does))
               [] t = "login" -> Result(in)
               [] t = "session" ->
                    IF in THEN Result(Answers("session") /\ "roundtrip" \in says) ELSE "MISSING"])
  /\ Goto("create")
  /\ UNCHANGED <<input, rows, user, k, rec, probes, verdict>>

\* Without a records path this and what follows as far as the logout is passed over.
Create ==
  /\ pc = "create"
  /\ IF RecordsPath
     THEN LET r1 == IF "validates" \in does THEN rows ELSE Posted("invalid", token, "empty", rows)
              r2 == Posted("create", token, "acc", r1)
              before == Listed("before", token, r1)
              after == Listed("read", token, r2)
          IN /\ rows' = r2
             /\ Record([t \in {"invalid-input", "create", "read", "fake-check"} |->
                  CASE t = "invalid-input" ->
                         Result(Answers("invalid") /\ (~Open(token) \/ "validates" \in does))
                    [] t = "create" -> Result(Ok("create", token))
                    [] t = "read" -> Result(<<"acc", FALSE>> \in after)
                    [] t = "fake-check" -> Result(before # after /\ "clean" \in does)])
             /\ Goto("update")
     ELSE Goto("errors") /\ UNCHANGED <<rows, tests>>
  /\ UNCHANGED <<input, user, session, token, k, rec, probes, verdict>>

\* Whatever the PUT answers: what counts is what a list then shows.
Update ==
  /\ pc = "update"
  /\ LET r == IF tests["create"] = "PASS" THEN Edited("update", token, "acc", rows) ELSE rows
     IN /\ rows' = r
        /\ Record([t \in {"update"} |->
             IF tests["create"] = "PASS"
             THEN Result(<<"acc", TRUE>> \in Listed("reread", token, r)) ELSE "MISSING"])
  /\ Goto("delete")
  /\ UNCHANGED <<input, user, session, token, k, rec, probes, verdict>>

\* Gone is a list that does not show the edited record, be it empty for want of an answer.
Delete ==
  /\ pc = "delete"
  /\ LET made == tests["create"] = "PASS"
         r == IF made THEN Removed("delete", token, "acc", rows) ELSE rows
         absent == ~Got("missing", token, "acc", r)
                   /\ ~Holds("acc", Listed("list-missing", token, r))
     IN /\ rows' = r
        /\ Record([t \in {"delete", "read-missing"} |->
             CASE ~made -> "MISSING"
               [] made /\ t = "delete" ->
                    Result(<<"acc", TRUE>> \notin Listed("relist", token, r))
               [] made /\ t = "read-missing" -> Result(absent)])
  /\ Goto("refresh")
  /\ UNCHANGED <<input, user, session, token, k, rec, probes, verdict>>

\* And the database: at a URL, this test and those of the lifecycle.
Lifecycle == {"create", "read", "update", "delete", "read-missing"}
Refresh ==
  /\ pc = "refresh"
  /\ LET r == Posted("again", token, "survives", rows)
         there == Ok("again", token) /\ <<"survives", FALSE>> \in Listed("refresh", token, r)
     IN /\ rows' = r
        /\ Record([t \in {"refresh", "database"} |->
             Result(there /\ (t = "database" => \A u \in Lifecycle : tests[u] = "PASS"))])
  /\ Goto(IF token THEN "logout" ELSE "errors")
  /\ UNCHANGED <<input, user, session, token, k, rec, probes, verdict>>

Logout ==
  /\ pc = "logout"
  /\ session' = (session /\ ~(Reaches("logout") /\ "logout" \in does))
  /\ Record([t \in {"logout", "post-logout"} |->
       CASE t = "logout" -> Result(Answers("logout"))
         [] t = "post-logout" ->
              Result(Answers("after-logout") /\ "guards" \in does /\ ~session')])
  /\ token' = FALSE
  /\ Goto("errors")
  /\ UNCHANGED <<input, rows, user, k, rec, probes, verdict>>

\* The launch on a device, and an unknown route.
Errors ==
  /\ pc = "errors"
  /\ Record([t \in {"error-path"} \cup (IF c.native THEN {"android-launch"} ELSE {}) |->
       IF t = "error-path" THEN Result(Answers("unknown") /\ "unknown404" \in does)
       ELSE Result("launches" \in does)])
  /\ Goto("services")
  /\ UNCHANGED <<input, app, token, k, rec, probes, verdict>>

\* callExternalServiceForReal, by the runner itself: three services have a URL that needs
\* no key; two need one and have no URL; the others have no probe.
Called(s) == s \in {"weather", "maps", "translation"} \/ (s \in {"email", "sms"} /\ s \in creds)
Usable(s) == s \in {"weather", "maps", "translation"}
Services ==
  /\ pc = "services"
  /\ IF c.services = {} THEN UNCHANGED tests
     ELSE LET called == {s \in c.services : Called(s)} IN
          Record([t \in {"external-service"} |->
            Result(/\ called # {} /\ \A s \in called : Usable(s)
                   /\ called = c.services \/ (Answers("fabrication") /\ ~Open(token)))])
  /\ Goto(IF Features(c) # <<>> /\ RecordsPath THEN "probes" ELSE "live")
  /\ UNCHANGED <<input, app, token, k, rec, probes, verdict>>

\* Mutant: the probes are sent with the session that was logged out.
NoSession(held, live) == held

\* ensureSession: a new session unless one is held or none is needed.
EnsureSession(held, live) == held \/ live

LoggedIn == WantsAuth(c) /\ ~token /\ user /\ "token" \in does
StartProbes ==
  /\ pc = "probes"
  /\ session' = (session \/ (LoggedIn /\ Reaches("relogin")))
  /\ token' = EnsureSession(token, LoggedIn /\ Answers("relogin"))
  /\ LET open == "roundtrip" \in says
                 /\ (WantsAuth(c) => "guards" \notin does \/ (token' /\ session')) IN
     /\ rec' = (Answers("probe") /\ open)
     /\ rows' = IF Reaches("probe") /\ open /\ ~Fake THEN rows \cup {<<"probe", FALSE>>} ELSE rows
  /\ Goto("probe")
  /\ UNCHANGED <<input, user, k, probes, tests, verdict>>

-----------------------------------------------------------------------------
\* runCoreFeatureProbes: one probe a step, on the record they share.

Current == Features(c)[k]
AtProbe(kind) == pc = "probe" /\ k <= Len(Features(c)) /\ Kind(Current) = kind
\* Mutant: a probe the product cannot perform is not marked.
PassesOnly(pass) ==
  /\ probes' = IF pass THEN Append(probes, "PASS") ELSE probes
  /\ k' = k + 1
  /\ UNCHANGED <<input, pc, user, session, token, rec, tests, verdict>>

Probed(pass) ==
  /\ probes' = Append(probes, Result(pass))
  /\ k' = k + 1
  /\ UNCHANGED <<input, pc, user, session, token, rec, tests, verdict>>

NotDelivered ==
  /\ pc = "probe" /\ k <= Len(Features(c)) /\ Kind(Current) \notin says
  /\ Probed(FALSE) /\ UNCHANGED rows

RoundTrip ==
  /\ AtProbe("roundtrip") /\ "roundtrip" \in says /\ Current # "delete"
  /\ Probed(/\ rec /\ Got("probe-get", token, "probe", rows)
            /\ <<"probe", FALSE>> \in Listed("probe-list", token, rows))
  /\ UNCHANGED rows

DeleteProbe ==
  /\ AtProbe("roundtrip") /\ "roundtrip" \in says /\ Current = "delete"
  /\ rows' = IF rec THEN Removed("delete-probe", token, "probe", rows) ELSE rows
  /\ Probed(/\ rec /\ Ok("delete-probe", token) /\ (Fake \/ Holds("probe", rows))
            /\ ~Holds("probe", Listed("probe-list", token, rows')))

NumericTotal ==
  /\ AtProbe("numeric-total") /\ "numeric-total" \in says
  /\ Probed(rec /\ "amount" \in does) /\ UNCHANGED rows

StateTransition ==
  /\ AtProbe("state-transition") /\ "state-transition" \in says
  /\ rows' = IF rec THEN Edited("put-probe", token, "probe", rows) ELSE rows
  /\ Probed(/\ rec /\ Got("probe-get", token, "probe", rows')
            /\ <<"probe", TRUE>> \in rows')

\* Mutant: a record that matches is enough.
WantFound(found) == "want" \in found

\* Two more records, of which the search is to find one.
Narrowed(found) == "want" \in found /\ "other" \notin found
FilterNarrowing ==
  /\ AtProbe("filter-narrowing") /\ "filter-narrowing" \in says
  /\ LET r == Posted("other", token, "other", Posted("want", token, "want", rows))
         served == {x[1] : x \in Listed("filter", token, r)}
     IN /\ rows' = r
        /\ Probed(Narrowed(IF "searches" \in does THEN served \cap {"want"} ELSE served))

\* A list in the order of insertion is not the declared one once it has two records; an
\* order by a text is not looked at.
Ordering ==
  /\ AtProbe("ordering") /\ "ordering" \in says
  /\ LET listed == Listed("order", token, rows) IN
     Probed(\/ "orders" \in does \/ "text-order" \in says
            \/ \A x, y \in listed : x = y)
  /\ UNCHANGED rows

\* Any number in the answer of the route will do.
ComputedOutput ==
  /\ AtProbe("computed-output") /\ "computed-output" \in says
  /\ Probed("summary-route" \in says /\ Answers("summary") /\ "summary" \in does)
  /\ UNCHANGED rows

\* judgeCoreFeature.
JudgeProbes ==
  /\ pc = "probe" /\ k > Len(Features(c))
  /\ Record([t \in {"core-feature"} |-> Result(\A n \in DOMAIN probes : probes[n] = "PASS")])
  /\ Goto("live")
  /\ UNCHANGED <<input, app, token, k, rec, probes, verdict>>

\* runDeployedRealtimeTwoClient, with a session if there were no probes to need one.
Live ==
  /\ pc = "live"
  /\ IF c.live
     THEN LET held == EnsureSession(token, LoggedIn /\ Answers("live-login"))
              alive == session \/ (LoggedIn /\ Reaches("live-login"))
              open == "roundtrip" \in says
                      /\ (WantsAuth(c) => "guards" \notin does \/ (held /\ alive))
          IN /\ token' = held /\ session' = alive
             /\ rows' = IF Reaches("live") /\ open /\ ~Fake /\ "live" \in does
                        THEN rows \cup {<<"live", FALSE>>} ELSE rows
             /\ Record([t \in {"realtime"} |->
                  Result("live" \in does /\ Answers("live") /\ open /\ ~Fake)])
     ELSE UNCHANGED <<token, session, rows, tests>>
  /\ Goto("journey")
  /\ UNCHANGED <<input, user, k, rec, probes, verdict>>

\* A page that throws while it is driven fails the journey.
Journey ==
  /\ pc = "journey"
  /\ Record([t \in {"user-journey"} |-> Result(JourneyPasses(c, tests) /\ "runs" \in does)])
  /\ Goto("judge")
  /\ UNCHANGED <<input, app, token, k, rec, probes, verdict>>

\* An app without a server: runUserJourney on its page, whose updates and deletes pass
\* once anything is stored, and the interaction and persistence of the page.
Local ==
  /\ pc = "local"
  /\ LET keeps == "runs" \in does /\ "keeps" \in does
         journey == "runs" \in does /\ "catches" \in does
                    /\ ((WantsData(c) \/ "create" \in ToSet(Features(c))) => keeps)
     IN Record([t \in {"user-journey", "ui-interaction", "local-persistence"} |->
          CASE t = "user-journey" -> Result(journey)
            [] t = "ui-interaction" -> Result("runs" \in does)
            [] t = "local-persistence" -> Result(keeps)])
  /\ Goto("judge")
  /\ UNCHANGED <<input, app, token, k, rec, probes, verdict>>

-----------------------------------------------------------------------------
\* evaluateRuntimeAcceptance.

\* Credentials are asked for every service, and those of its environment.
unmetDependencies == c.services \ creds
Blocked(code) == [status |-> "blocked", code |-> code]
Failed(code) == [status |-> "failed", code |-> code]

Is(t, s) == t \in DOMAIN tests /\ tests[t] = s
\* noFalsePassViolations of the run.
RuntimeViolation ==
  \/ \E t \in {"api-contract", "login", "post-logout", "unauthorized", "user-journey",
               "fake-check", "core-feature"} : Is(t, "FAIL")
  \/ Backend(c) /\ \E t \in {"database", "create"} : t \in DOMAIN tests /\ tests[t] # "PASS"
  \/ Is("realtime", "MISSING")
  \/ "external-service" \in DOMAIN tests /\ tests["external-service"] # "PASS"
     /\ \A s \in c.services : ~Called(s)
  \/ \E row \in Requirements(c) : \E t \in RequiredTests(row, Backend(c)) : Is(t, "FAIL")

\* In the order of its returns.
Verdict ==
  CASE "clean" \notin does -> Failed("static")
    [] unmetDependencies # {} -> Blocked("dependency-required")
    [] c.native /\ ~Is("android-launch", "PASS") -> Blocked("android-runtime-unavailable")
    [] RuntimeViolation -> Failed("no-false-pass-violation")
    [] \E t \in Owed(c) : Is(t, "FAIL") -> Failed("runtime-failed")
    [] \E t \in Owed(c) : ~Is(t, "PASS") -> Blocked("runtime-evidence-incomplete")
    [] OTHER -> [status |-> "passed", code |-> "none"]

Judge ==
  /\ pc = "judge"
  /\ verdict' = Verdict
  /\ Goto("done")
  /\ UNCHANGED <<input, app, token, k, rec, probes, tests>>

Done == pc = "done" /\ UNCHANGED vars

ProbeStep ==
  \/ NotDelivered \/ RoundTrip \/ DeleteProbe \/ NumericTotal \/ StateTransition
  \/ FilterNarrowing \/ Ordering \/ ComputedOutput \/ JudgeProbes

Next ==
  \/ Contract \/ Auth \/ Login \/ Create \/ Update \/ Delete \/ Refresh \/ Logout
  \/ Errors \/ Services \/ StartProbes \/ ProbeStep \/ Live \/ Journey \/ Local
  \/ Judge \/ Done

Spec == Init /\ [][Next]_vars

-----------------------------------------------------------------------------
\* What an app does that passes a test.
Shown(t) ==
  CASE t = "deployment" -> {"up"}
    [] t = "health" -> {"health"}
    [] t = "api-contract" -> {"contract"}
    [] t = "unauthorized" -> {"guards"}
    [] t = "register" -> {"registers"}
    [] t = "duplicate-register" -> {"unique"}
    [] t = "invalid-login" -> {"password"}
    [] t \in {"login", "session"} -> {"registers", "token"}
    [] t = "invalid-input" -> {"validates"}
    [] t \in {"create", "read", "refresh"} -> {"stores"}
    [] t = "fake-check" -> {"stores", "clean"}
    [] t = "update" -> {"stores", "updates"}
    [] t \in {"delete", "read-missing"} -> {"stores", "deletes"}
    [] t = "database" -> {"stores", "updates", "deletes"}
    [] t = "post-logout" -> {"guards", "logout"}
    [] t = "error-path" -> {"unknown404"}
    [] t = "realtime" -> {"live"}
    [] t = "android-launch" -> {"launches"}
    [] t \in {"user-journey", "ui-interaction"} -> {"runs"}
    [] t = "local-persistence" -> {"keeps"}
    [] OTHER -> {}

\* What an app does that has a feature; an order by a text is not probed, nor one of the
\* single record that is left when the probe's was deleted before and nothing was searched.
OneRecord == "delete" \in c.words /\ "search" \notin c.words
FeatureShown(f) ==
  CASE Kind(f) = "state-transition" -> {"updates"}
    [] Kind(f) = "filter-narrowing" -> {"searches"}
    [] Kind(f) = "ordering" -> IF "text-order" \in says \/ OneRecord THEN {} ELSE {"orders"}
    [] Kind(f) = "computed-output" -> {"summary"}
    [] Kind(f) = "numeric-total" -> {"amount"}
    [] Kind(f) = "roundtrip" -> IF f = "delete" THEN {"deletes"} ELSE {"stores"}

\* What a call without an answer hides: the health is asked of the records then, a search
\* has nothing to leave out, and no list, nor one of a single record, is out of order.
Hidden ==
  CASE lost.call = "health" -> {"health"}
    [] lost.call = "other" -> {"searches"}
    [] lost.call \in {"relogin", "probe", "order"} -> {"orders"}
    [] OTHER -> {}

\* An app with a server that is accepted does all that is owed, and has the features that
\* were asked for (production-runtime.js), although one call of the run went unanswered:
\* some tests pass for want of an answer, and others of the same run catch it.  What is
\* Hidden is not caught.
PassedIsTrue ==
  verdict.status = "passed" /\ Backend(c) =>
    /\ UNION {Shown(t) : t \in Owed(c)} \subseteq does \cup Hidden
    /\ UNION {FeatureShown(f) : f \in ToSet(Features(c))} \subseteq does \cup Hidden

\* The run records every test that is owed, but those of a logout when the login failed: what
\* the runner does and what the judge asks of it are derived twice, in two files
\* (production-runtime.mjs, production-runtime.js).  Without a records path there is nothing
\* to test.
OwedIsRecorded ==
  pc = "done" /\ (Backend(c) => RecordsPath) =>
    \A t \in Owed(c) \ DOMAIN tests :
      /\ t \in {"logout", "post-logout"}
      /\ tests["login"] = "FAIL"

\* The features whose probes come where the shared record still is what they look for:
\* none but a second transition after it is edited, none after it is deleted.
InOrder ==
  LET F == Features(c) IN
  \A m, n \in DOMAIN F : m < n =>
    /\ F[m] = "delete" => Kind(F[n]) \notin {"roundtrip", "state-transition"}
    /\ Kind(F[m]) = "state-transition" => (Kind(F[n]) = "roundtrip" => F[n] = "delete")

\* A perfect app is accepted, if every answer arrives, as long as its probes are InOrder
\* and its services are those the runner can call (core-feature.js, production-runtime.mjs).
PerfectAppPasses ==
  /\ pc = "done" /\ does = Behaviour /\ Kinds \cup {"summary-route"} \subseteq says
  /\ lost.call = "none" /\ InOrder
  /\ c.services \subseteq {"weather", "maps", "translation"} \cap creds
  => verdict.status = "passed"

\* "records come back in the requested order" (core-feature.js:31).
SortedIsOrdered ==
  /\ verdict.status = "passed" /\ Backend(c) /\ lost.call = "none"
  /\ "sort" \in c.words /\ "text-order" \notin says
  => "orders" \in does

\* "an external API is required but was never called for real" (production-runtime.js:474).
PassedMeansCalled ==
  verdict.status = "passed" => \A s \in c.services : Called(s)

=============================================================================
