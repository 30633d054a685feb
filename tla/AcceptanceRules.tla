-------------------------- MODULE AcceptanceRules --------------------------
(***************************************************************************)
(* What a generated app owes before it may be delivered: from the command  *)
(* to its specification (requirement-spec.js), its architecture            *)
(* (architecture.js), its requirements, the runtime tests they demand      *)
(* (production-runtime.js) and the probes of its own core feature          *)
(* (core-feature.js).                                                      *)
(*                                                                         *)
(* A command is what the catalogues of requirement-spec.js find in its     *)
(* text: a class of product, verbs, services, and the regular expressions  *)
(* that match.  It asks for software.  Wording, labels, ids and the static *)
(* evidence of a requirement are left out.                                 *)
(***************************************************************************)
EXTENDS Naturals, SequencesExt, Subsequences

\* The keys of FEATURES, in its order.
FeatureOrder == <<"create", "read", "update", "delete", "search", "sort", "report", "export",
                  "import", "reminder", "notification", "attachment", "payment", "audit", "media">>
Feature == ToSet(FeatureOrder)
Service == {"weather", "maps", "email", "sms", "payments", "translation", "ai", "search", "storage"}

\* operated: of OPERATED_PRODUCTS, records: the rest of CRUD_TYPES, other: of neither.
\* several: more than one user.  named: the text has a noun of its own domain.
CommandRecord ==
  [type : {"operated", "records", "other", "none"}, words : SUBSET Feature,
   services : SUBSET Service, roles : BOOLEAN, auth : BOOLEAN, live : BOOLEAN, data : BOOLEAN,
   secure : BOOLEAN, several : BOOLEAN, native : BOOLEAN, named : BOOLEAN]

-----------------------------------------------------------------------------
\* extractRequirementSpec.

Crud == {"create", "read", "update", "delete"}
Detected(c) == OnlyIn(FeatureOrder, c.words)
Asked(c) ==
  IF c.words = {} /\ c.type \in {"operated", "records"}
  THEN OnlyIn(FeatureOrder, Crud)
  ELSE Detected(c)

\* The features, each once: a verb of records implies a delete and a read, at the end.
Features(c) ==
  LET asked == ToSet(Asked(c)) IN
  IF asked \cap {"create", "read", "audit"} # {} /\ "delete" \notin asked
  THEN Asked(c) \o OnlyIn(<<"delete", "read">>, Feature \ asked)
  ELSE Asked(c)

WantsAuth(c) == c.auth \/ c.roles
WantsData(c) == c.data \/ Crud \cap ToSet(Features(c)) # {}
WantsSecurity(c) == c.secure \/ WantsAuth(c)

\* The kinds of requirements it writes; the platform's has no test.
Requirements(c) ==
  UNION {IF c.type # "none" \/ c.named \/ c.roles THEN {"product"} ELSE {},
         IF Features(c) # <<>> THEN {"core"} ELSE {},
         IF WantsData(c) THEN {"data", "refresh"} ELSE {},
         IF WantsAuth(c) THEN {"register", "login", "logout", "unauthorized"} ELSE {},
         IF WantsData(c) \/ WantsAuth(c) THEN {"api"} ELSE {},
         IF c.services # {} THEN {"external"} ELSE {},
         IF c.live THEN {"realtime"} ELSE {},
         IF WantsSecurity(c) THEN {"validation"} ELSE {},
         {"stub"}}

\* selectArchitecture: a server, or the device alone.
Backend(c) ==
  \/ c.several \/ WantsAuth(c) \/ c.live \/ c.native
  \/ c.services # {}
  \/ c.type = "operated"

-----------------------------------------------------------------------------
\* requiredTestsForRequirement.

\* Translated for an app without a server.
LocalTests(tests) ==
  LET told == UNION {CASE t \in {"user-journey"} -> {t}
                       [] t = "core-feature" -> {"ui-interaction", "user-journey"}
                       [] t \in {"create", "read", "invalid-input", "error-path", "fake-check"} ->
                            {"ui-interaction"}
                       [] t = "refresh" -> {"ui-interaction", "local-persistence"}
                       [] OTHER -> {} : t \in tests}
  IN IF told = {} THEN {"ui-interaction", "user-journey"} ELSE told

BackendTests(row) ==
  CASE row = "product" -> {"create", "read", "user-journey"}
    [] row = "core" -> {"core-feature", "create", "read", "user-journey"}
    [] row = "data" -> {"create", "read", "refresh"}
    [] row = "refresh" -> {"refresh"}
    [] row = "register" -> {"register", "duplicate-register"}
    [] row = "login" -> {"login", "invalid-login", "session"}
    [] row = "logout" -> {"logout", "post-logout"}
    [] row = "unauthorized" -> {"unauthorized"}
    [] row = "api" -> {"deployment", "api-contract", "create"}
    [] row = "external" -> {"external-service"}
    [] row = "realtime" -> {"realtime"}
    [] row = "validation" -> {"invalid-input", "error-path"}
    [] row = "stub" -> {"fake-check"}

\* Mutant: the tests of a server are demanded of every app.
UntranslatedTests(row, backend) == BackendTests(row)

RequiredTests(row, backend) ==
  IF backend THEN BackendTests(row) ELSE LocalTests(BackendTests(row))

\* runtimeObligations, of an app that has code.
RequiredByArchitecture(c) ==
  IF Backend(c)
  THEN {"deployment", "health", "api-contract", "create", "read", "update", "delete",
        "read-missing", "refresh", "database", "error-path", "fake-check", "user-journey"}
       \cup (IF Features(c) # <<>> THEN {"core-feature"} ELSE {})
       \cup (IF WantsAuth(c)
             THEN {"unauthorized", "register", "duplicate-register", "login", "invalid-login",
                   "session", "logout", "post-logout"} ELSE {})
       \cup (IF c.live THEN {"realtime"} ELSE {})
       \cup (IF c.services # {} THEN {"external-service"} ELSE {})
       \cup (IF c.native THEN {"android-launch"} ELSE {})
  ELSE {"ui-interaction", "user-journey"}
       \cup (IF WantsData(c) THEN {"local-persistence"} ELSE {})

Owed(c) ==
  RequiredByArchitecture(c) \cup UNION {RequiredTests(row, Backend(c)) : row \in Requirements(c)}

-----------------------------------------------------------------------------
\* coreFeatureFor: one probe per feature, in the order of the features.

Kind(f) ==
  CASE f \in {"create", "read", "delete", "import", "attachment"} -> "roundtrip"
    [] f \in {"update", "reminder", "notification", "media"} -> "state-transition"
    [] f \in {"report", "export", "audit"} -> "computed-output"
    [] f = "search" -> "filter-narrowing"
    [] f = "sort" -> "ordering"
    [] f = "payment" -> "numeric-total"
Kinds == {Kind(f) : f \in Feature}

\* planJourney, with the tests that are the evidence of each of its steps at a URL
\* (JOURNEY_STEP_EVIDENCE).
JourneyEvidence(c) ==
  {{"deployment"}, {"health"}, {"error-path"}}
  \cup (IF WantsAuth(c)
        THEN {{"unauthorized"}, {"register"}, {"login"}, {"session"}, {"invalid-input"},
              {"logout", "post-logout"}} ELSE {})
  \cup (IF WantsData(c)
        THEN {{"create"}, {"invalid-input"}, {"read"}, {"update"}, {"delete"}, {"refresh"}}
        ELSE {})
  \cup (IF c.live THEN {{"realtime"}} ELSE {})

\* judgeDeployedJourney.
JourneyPasses(c, tests) ==
  \A evidence \in JourneyEvidence(c) :
    LET observed == evidence \cap DOMAIN tests IN
    observed # {} /\ \A t \in observed : tests[t] = "PASS"

=============================================================================
