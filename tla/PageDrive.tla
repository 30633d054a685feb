----------------------------- MODULE PageDrive -----------------------------
(***************************************************************************)
(* How a generated page is judged without a browser: verifyGeneratedApp    *)
(* runs its scripts, presses every control twice over (as the page loads,  *)
(* then with its inputs filled) and counts what changed on the page since  *)
(* the last snapshot; interact then drives one action of a user.           *)
(*                                                                         *)
(* A control is what its handler does when it is pressed.  A document is   *)
(* whether an input holds a text, and whether anything differs from the    *)
(* last snapshot.                                                          *)
(***************************************************************************)
EXTENDS Naturals, SequencesExt, Subsequences

CONSTANTS Page, MaxControls

\* What a handler does: changes the page; adds what the input holds and empties it, or refuses
\* an empty input in silence; flips a panel; only saves; only answers later; nothing; throws.
Effect == {"acts", "adds", "flips", "saves", "later", "idle", "throws"}
\* How a control is wired: onclick="fn()", onclick="fn('7')", onclick="fn(this)", a listener.
Wiring == {"call", "literal", "argument", "listener"}
Control == [wired : Wiring, defined : BOOLEAN, does : Effect]
PageRecord == [clean : BOOLEAN, input : BOOLEAN, controls : BoundedSeq(Control, MaxControls)]

PageDriveBounds == MaxControls \in Nat /\ Page \subseteq PageRecord

VARIABLES
  page,
  stage,   \* "load", "empty" (first pass), "filled" (second pass), "judged", "driven"
  agenda,  \* what the pass has left to press
  typed,   \* an input holds a text
  stale,   \* the page differs from the snapshot
  statuses,\* of the presses so far
  judgement,
  change   \* what interact reported, and what the user sees

vars == <<page, stage, agenda, typed, stale, statuses, judgement, change>>

NoChange == [reported |-> FALSE, seen |-> FALSE, error |-> FALSE]

TypeOK ==
  /\ page \in Page
  /\ stage \in {"load", "empty", "filled", "judged", "driven"}
  /\ agenda \in Seq(Control)
  /\ typed \in BOOLEAN /\ stale \in BOOLEAN
  /\ statuses \subseteq {"mutated", "no-op", "threw", "skipped-args"}
  /\ judgement \in {"none", "functional", "static", "broken"}
  /\ change \in [reported : BOOLEAN, seen : BOOLEAN, error : BOOLEAN]

Wired(how) == OnlyIn(page.controls, {x \in Control : x.wired \in how})
\* missingHandlers: names the markup calls that no script defines.
Missing == \E x \in ToSet(page.controls) : x.wired # "listener" /\ ~x.defined
\* The pass before there were listeners: what the markup names.
MarkupPass == OnlyIn(Wired({"call", "literal"}), {x \in Control : x.defined})
\* A pass: the names of the markup, then its literal calls, then the listeners.
Pass ==
  LET Known(s) == OnlyIn(s, {x \in Control : x.wired = "listener" \/ x.defined})
      Names == [i \in DOMAIN Wired({"call", "literal", "argument"}) |->
                 LET x == Wired({"call", "literal", "argument"})[i]
                 IN IF x.wired = "literal" THEN [x EXCEPT !.wired = "argument"] ELSE x]
  IN Known(Names \o Wired({"literal"}) \o Wired({"listener"}))

\* Whether a handler changes the page at once.
Shows(x, text) == x.does \in {"acts", "flips"} \/ (x.does = "adds" /\ text)

Init ==
  /\ page \in Page
  /\ stage = "load" /\ agenda = <<>> /\ typed = FALSE /\ stale = FALSE
  /\ statuses = {} /\ judgement = "none" /\ change = NoChange

\* The scripts and the load events have run, errors or not; the first snapshot is taken.
Load ==
  /\ stage = "load"
  /\ stage' = "empty" /\ agenda' = Pass
  /\ UNCHANGED <<page, typed, stale, statuses, judgement, change>>

\* One handler: what differs from the snapshot is its doing, and the snapshot is taken again,
\* unless it threw.
Press ==
  /\ stage \in {"empty", "filled"} /\ agenda # <<>>
  /\ LET x == Head(agenda) IN
       IF x.wired = "argument"
       THEN statuses' = statuses \cup {"skipped-args"} /\ UNCHANGED <<typed, stale>>
       ELSE IF x.does = "throws"
       THEN statuses' = statuses \cup {"threw"} /\ UNCHANGED <<typed, stale>>
       ELSE /\ statuses' = statuses \cup
                 {IF stale \/ Shows(x, typed) THEN "mutated" ELSE "no-op"}
            /\ stale' = FALSE
            /\ typed' = (typed /\ x.does # "adds")
  /\ agenda' = Tail(agenda)
  /\ UNCHANGED <<page, stage, judgement, change>>

\* The second pass fills every empty input, and takes no snapshot.
Fill ==
  /\ stage = "empty" /\ agenda = <<>>
  /\ stage' = "filled" /\ agenda' = Pass
  /\ typed' = page.input
  /\ stale' = (stale \/ page.input)
  /\ UNCHANGED <<page, statuses, judgement, change>>

Verdict ==
  IF ~page.clean \/ Missing \/ "threw" \in statuses THEN "broken"
  ELSE IF "mutated" \notin statuses THEN "static" ELSE "functional"

Judge ==
  /\ stage = "filled" /\ agenda = <<>>
  /\ stage' = "judged" /\ judgement' = Verdict
  /\ UNCHANGED <<page, agenda, typed, stale, statuses, change>>

\* interact: fill the form, press a control (click() dispatches its event and a second one is
\* dispatched) or call a handler, and let its promises and timers settle.
Interact(x, fills) ==
  /\ stage = "judged"
  /\ x.wired # "listener" => x.defined
  /\ LET text  == typed \/ (fills /\ page.input)
         twice == x.wired = "listener"
         seen  == \/ x.does \in {"acts", "later"} \/ (x.does = "adds" /\ text)
                  \/ x.does = "flips" /\ ~twice
     IN /\ change' = [seen |-> seen, error |-> x.does = "throws",
                      reported |-> seen \/ (fills /\ page.input /\ ~typed)]
        /\ typed' = (text /\ x.does # "adds")
  /\ stage' = "driven"
  /\ UNCHANGED <<page, agenda, stale, statuses, judgement>>

Rest == stage \in {"judged", "driven"} /\ UNCHANGED vars

Next ==
  \/ Load \/ Press \/ Fill \/ Judge
  \/ \E x \in ToSet(page.controls), fills \in BOOLEAN : Interact(x, fills)
  \/ Rest

Spec == Init /\ [][Next]_vars

(***************************************************************************)
(* What a verdict is worth.                                                *)
(***************************************************************************)
\* The page runs, and nothing it wires is missing or throws when it can be pressed.
Sound ==
  /\ page.clean /\ ~Missing
  /\ \A x \in ToSet(page.controls) : x.wired # "argument" => x.does # "throws"
\* Some control that can be pressed shows its work at once, given a text where it needs one.
Alive ==
  \E x \in ToSet(page.controls) : x.wired # "argument" /\ Shows(x, page.input)

\* A page that runs, and shows its work at the press of a control, is functional; a functional
\* page runs, and shows its work or has an input (whose filling is taken for the work of the
\* first handler pressed after it); what a user would see is reported.
VerdictIsTrue ==
  /\ judgement # "none" /\ Sound /\ Alive => judgement = "functional"
  /\ judgement = "functional" => Sound /\ (Alive \/ page.input)
  /\ change.seen => change.reported

\* "A handler that throws, or that changes nothing at all, is not a working feature" (the
\* comment of the two passes).  Refuted: a page with an input and a dead button.
DeadPageIsRefused == judgement = "functional" => Alive
=============================================================================
