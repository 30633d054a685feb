---------------------------- MODULE AcceptanceProofs ----------------------------
(***************************************************************************)
(* What is proved of the run that accepts a generated product, and of the  *)
(* three parts it is checked with: the page's drive, the founder's journey *)
(* and the deployment's harness.                                           *)
(*                                                                         *)
(* The drive needs to know of every control that is still to be pressed    *)
(* what it will show; the journey, what each step that passed has shown;   *)
(* the harness, that what a client has and will be given is told once, and *)
(* where the rows of two stores stand.  A run's record is read at its end, *)
(* so its invariants say step by step which tests are there, what each     *)
(* that passed shows of the app, and, of an app that does all it should,   *)
(* which record the next probe finds.                                      *)
(***************************************************************************)
EXTENDS MCAcceptanceRun, WellFoundedInduction, FiniteSetTheorems, TLAPS

-----------------------------------------------------------------------------
\* Lists.

\* The least-number principle, the form of induction the provers can use.
LEMMA LeastNumber ==
  ASSUME NEW T, T \subseteq Nat, T # {}
  PROVE  \E n \in T : \A m \in T : n <= m
<1> DEFINE R == {ss \in Nat \X Nat : ss[1] < ss[2]}
<1>1. IsWellFoundedOn(R, Nat)
  BY NatLessThanWellFounded DEF OpToRel
<1> HIDE DEF R
<1>2. PICK n \in T : \A m \in T : ~(<<m, n>> \in R)
  BY <1>1, WFMin
<1>3. ASSUME NEW m \in T
      PROVE  ~(m < n)
  <2>1. ~(<<m, n>> \in R)
    BY <1>2
  <2>2. QED
    BY <2>1 DEF R
<1>4. QED
  BY <1>3

\* What the recursive function of OnlyIn is.
Picked(s, S, n, f) ==
  f = [i \in 0..n |-> IF i = 0 THEN <<>>
                      ELSE IF s[i] \in S THEN Append(f[i - 1], s[i]) ELSE f[i - 1]]
\* t is the first n elements of s that are in S, e says where they stand in s.
Stands(t, s, S, n, e) ==
  /\ e \in [1..Len(t) -> 1..n]
  /\ \A i, j \in 1..Len(t) : i < j => e[i] < e[j]
  /\ \A i \in 1..Len(t) : t[i] = s[e[i]] /\ t[i] \in S
  /\ \A m \in 1..n : s[m] \in S => \E i \in 1..Len(t) : e[i] = m

LEMMA PickedExists ==
  ASSUME NEW T, NEW s \in Seq(T), NEW S
  PROVE  \E f : Picked(s, S, Len(s), f)
<1> DEFINE Bad == {n \in Nat : ~\E f : Picked(s, S, n, f)}
<1>1. SUFFICES ASSUME ~\E f : Picked(s, S, Len(s), f)
               PROVE  FALSE
  OBVIOUS
<1>2. Len(s) \in Bad
  BY <1>1
<1>3. PICK n \in Bad : \A m \in Bad : n <= m
  <2>1. Bad \subseteq Nat
    OBVIOUS
  <2>2. QED
    BY <2>1, <1>2, LeastNumber
<1>4. CASE n = 0
  <2>1. Picked(s, S, 0, [i \in 0..0 |-> <<>>])
    BY DEF Picked
  <2>2. QED
    BY <1>3, <1>4, <2>1
<1>5. CASE n # 0
  <2>1. n - 1 \in Nat /\ n - 1 \notin Bad /\ n \in Nat
    BY <1>3, <1>5
  <2>2. PICK g : Picked(s, S, n - 1, g)
    BY <2>1
  <2> DEFINE h == [i \in 0..n |-> IF i = n THEN IF s[n] \in S THEN Append(g[n - 1], s[n])
    ELSE g[n - 1]
                                  ELSE g[i]]
  <2>3. ASSUME NEW i \in 0..n
        PROVE  h[i] = IF i = 0 THEN <<>> ELSE IF s[i] \in S THEN Append(h[i - 1], s[i])
                 ELSE h[i - 1]
    <3>1. CASE i = n
      BY <3>1, <1>5, <2>1
    <3>2. CASE i # n
      <4>1. i \in 0..(n - 1) /\ h[i] = g[i]
        BY <3>2, <2>1
      <4>2. g[i] = IF i = 0 THEN <<>> ELSE IF s[i] \in S THEN Append(g[i - 1], s[i]) ELSE g[i - 1]
        BY <2>2, <4>1, <2>1 DEF Picked
      <4>3. i # 0 => h[i - 1] = g[i - 1]
        BY <3>2, <2>1
      <4>4. QED
        BY <4>1, <4>2, <4>3
    <3>3. QED
      BY <3>1, <3>2
  <2>4. Picked(s, S, n, h)
    BY <2>3 DEF Picked
  <2>5. QED
    BY <2>4, <1>3
<1>6. QED
  BY <1>4, <1>5

\* One more element that is in S, and one that is not.
LEMMA StandsOn ==
  ASSUME NEW T, NEW s \in Seq(T), NEW S, NEW n \in 1..Len(s), NEW t \in Seq(T), NEW e,
         Stands(t, s, S, n - 1, e)
  PROVE  /\ s[n] \notin S => Stands(t, s, S, n, e)
         /\ s[n] \in S => \E d : Stands(Append(t, s[n]), s, S, n, d)
<1>0. n \in Nat /\ n # 0 /\ Len(t) \in Nat /\ 1..n = (1..(n - 1)) \cup {n}
  OBVIOUS
<1>1. ASSUME s[n] \notin S PROVE Stands(t, s, S, n, e)
  BY <1>0, <1>1 DEF Stands
<1>2. ASSUME s[n] \in S PROVE \E d : Stands(Append(t, s[n]), s, S, n, d)
  <2> DEFINE l == Len(t)
             u == Append(t, s[n])
             d == [i \in 1..(l + 1) |-> IF i = l + 1 THEN n ELSE e[i]]
  <2>1. Len(u) = l + 1 /\ u[l + 1] = s[n] /\ \A i \in 1..l : u[i] = t[i]
    OBVIOUS
  <2>2. l \in Nat /\ 1..(l + 1) = (1..l) \cup {l + 1}
    OBVIOUS
  <2>3. d[l + 1] = n /\ \A i \in 1..l : d[i] = e[i] /\ e[i] \in 1..(n - 1)
    BY <2>2 DEF Stands
  <2>4. d \in [1..(l + 1) -> 1..n]
    BY <1>0, <2>2, <2>3
  <2> HIDE DEF d, u, l
  <2>5. ASSUME NEW i \in 1..(l + 1), NEW j \in 1..(l + 1), i < j PROVE d[i] < d[j]
    <3>1. i \in 1..l
      BY <2>2, <2>5
    <3>2. CASE j = l + 1
      BY <3>1, <3>2, <1>0, <2>3
    <3>3. CASE j # l + 1
      <4>1. j \in 1..l
        BY <3>3, <2>2
      <4>2. QED
        BY <3>1, <4>1, <2>3, <2>5 DEF Stands, l
    <3>4. QED
      BY <3>2, <3>3
  <2>6. ASSUME NEW i \in 1..(l + 1) PROVE u[i] = s[d[i]] /\ u[i] \in S
    BY <1>2, <2>1, <2>2, <2>3 DEF Stands, l
  <2>7. ASSUME NEW m \in 1..n, s[m] \in S PROVE \E i \in 1..(l + 1) : d[i] = m
    <3>1. CASE m = n
      BY <3>1, <2>2, <2>3
    <3>2. CASE m # n
      <4>1. m \in 1..(n - 1)
        BY <3>2, <1>0
      <4>2. PICK i \in 1..l : e[i] = m
        BY <4>1, <2>7 DEF Stands, l
      <4>3. QED
        BY <4>2, <2>2, <2>3
    <3>3. QED
      BY <3>1, <3>2
  <2>8. Stands(u, s, S, n, d)
    BY <2>1, <2>4, <2>5, <2>6, <2>7 DEF Stands
  <2>9. QED
    BY <2>8 DEF u
<1>3. QED
  BY <1>1, <1>2

\* OnlyIn picks out what is in the set, in the order of the list.
LEMMA OnlyInIs ==
  ASSUME NEW T, NEW s \in Seq(T), NEW S
  PROVE  OnlyIn(s, S) \in Seq(T) /\ \E e : Stands(OnlyIn(s, S), s, S, Len(s), e)
<1> DEFINE kept == CHOOSE f : Picked(s, S, Len(s), f)
<1>1. OnlyIn(s, S) = kept[Len(s)]
  BY DEF OnlyIn, Picked
<1>2. Picked(s, S, Len(s), kept)
  BY PickedExists
<1> HIDE DEF kept
<1> DEFINE Right(n) == kept[n] \in Seq(T) /\ \E e : Stands(kept[n], s, S, n, e)
           Bad == {n \in 0..Len(s) : ~Right(n)}
<1>3. Bad = {}
  <2>1. SUFFICES ASSUME Bad # {}
                 PROVE  FALSE
    OBVIOUS
  <2>2. PICK n \in Bad : \A m \in Bad : n <= m
    <3>1. Bad \subseteq Nat
      OBVIOUS
    <3> HIDE DEF Bad
    <3>2. QED
      BY <3>1, <2>1, LeastNumber
  <2>3. kept[n] = IF n = 0 THEN <<>> ELSE IF s[n] \in S THEN Append(kept[n - 1], s[n])
          ELSE kept[n - 1]
    BY <1>2, <2>2 DEF Picked
  <2>4. CASE n = 0
    <3>1. kept[0] = <<>> /\ Len(<<>>) = 0 /\ 1..0 = {}
      BY <2>3, <2>4
    <3>2. Stands(<<>>, s, S, 0, [i \in {} |-> 0])
      BY <3>1 DEF Stands
    <3>3. Right(0)
      BY <3>1, <3>2
    <3>4. QED
      BY <2>2, <2>4, <3>3
  <2>5. CASE n # 0
    <3>1. n \in 0..Len(s) /\ Len(s) \in Nat
      BY <2>2
    <3>2. n - 1 \in 0..Len(s) /\ n \in 1..Len(s) /\ ~(n <= n - 1)
      BY <3>1, <2>5
    <3>3. n - 1 \notin Bad
      <4> HIDE DEF Bad
      <4> QED BY <3>2, <2>2
    <3>4. Right(n - 1)
      BY <3>2, <3>3
    <3>5. PICK e : Stands(kept[n - 1], s, S, n - 1, e)
      BY <3>4
    <3>6. s[n] \in T /\ kept[n - 1] \in Seq(T)
      BY <3>2, <3>4
    <3>7. CASE s[n] \in S
      <4> DEFINE t == kept[n - 1]
      <4>1. kept[n] = Append(t, s[n])
        BY <2>3, <2>5, <3>7
      <4>2. t \in Seq(T) /\ Stands(t, s, S, n - 1, e)
        BY <3>5, <3>6
      <4> HIDE DEF t
      <4>3. \E d : Stands(Append(t, s[n]), s, S, n, d)
        BY <4>2, <3>2, <3>7, StandsOn
      <4>4. Append(t, s[n]) \in Seq(T)
        BY <4>2, <3>6
      <4>5. Right(n)
        BY <4>1, <4>3, <4>4
      <4>6. QED
        BY <4>5, <2>2
    <3>8. CASE s[n] \notin S
      <4> DEFINE t == kept[n - 1]
      <4>1. kept[n] = t
        BY <2>3, <2>5, <3>8
      <4>2. t \in Seq(T) /\ Stands(t, s, S, n - 1, e)
        BY <3>5, <3>6
      <4> HIDE DEF t
      <4>3. Stands(t, s, S, n, e)
        BY <4>2, <3>2, <3>8, StandsOn
      <4>4. Right(n)
        BY <4>1, <4>2, <4>3
      <4>5. QED
        BY <4>4, <2>2
    <3>9. QED
      BY <3>7, <3>8
  <2>6. QED
    BY <2>4, <2>5
<1>4. Right(Len(s))
  <2>1. Len(s) \in 0..Len(s)
    OBVIOUS
  <2>2. QED
    BY <1>3, <2>1
<1>5. QED
  BY <1>1, <1>4

LEMMA OnlyInHas ==
  ASSUME NEW T, NEW s \in Seq(T), NEW S
  PROVE  OnlyIn(s, S) \in Seq(T) /\ ToSet(OnlyIn(s, S)) = ToSet(s) \cap S
<1> DEFINE t == OnlyIn(s, S)
<1>1. t \in Seq(T) /\ \E e : Stands(t, s, S, Len(s), e)
  BY OnlyInIs
<1> HIDE DEF t
<1>2. PICK e : Stands(t, s, S, Len(s), e)
  BY <1>1
<1>3. DOMAIN t = 1..Len(t) /\ DOMAIN s = 1..Len(s)
  BY <1>1
<1>4. ASSUME NEW x \in ToSet(t) PROVE x \in ToSet(s) \cap S
  <2>1. PICK i \in 1..Len(t) : x = t[i]
    BY <1>3 DEF ToSet
  <2>2. x = s[e[i]] /\ e[i] \in 1..Len(s) /\ x \in S
    BY <1>2, <2>1 DEF Stands
  <2>3. QED
    BY <1>3, <2>2 DEF ToSet
<1>5. ASSUME NEW x \in ToSet(s) \cap S PROVE x \in ToSet(t)
  <2>1. PICK m \in 1..Len(s) : x = s[m]
    BY <1>3 DEF ToSet
  <2>2. PICK i \in 1..Len(t) : e[i] = m
    BY <1>2, <1>5, <2>1 DEF Stands
  <2>3. x = t[i]
    BY <1>2, <2>1, <2>2 DEF Stands
  <2>4. QED
    BY <1>3, <2>2, <2>3 DEF ToSet
<1>6. QED
  BY <1>1, <1>4, <1>5 DEF t

LEMMA ConcatHas ==
  ASSUME NEW T, NEW s \in Seq(T), NEW t \in Seq(T)
  PROVE  s \o t \in Seq(T) /\ ToSet(s \o t) = ToSet(s) \cup ToSet(t)
<1> DEFINE u == s \o t
<1>1. /\ u \in Seq(T) /\ Len(u) = Len(s) + Len(t) /\ Len(s) \in Nat /\ Len(t) \in Nat
      /\ \A i \in 1..Len(s) : u[i] = s[i]
      /\ \A i \in 1..Len(t) : u[Len(s) + i] = t[i]
  OBVIOUS
<1>2. DOMAIN s = 1..Len(s) /\ DOMAIN t = 1..Len(t) /\ DOMAIN u = 1..Len(u)
  OBVIOUS
<1> HIDE DEF u
<1>3. ASSUME NEW x \in ToSet(u) PROVE x \in ToSet(s) \cup ToSet(t)
  <2>1. PICK i \in 1..Len(u) : x = u[i]
    BY <1>2 DEF ToSet
  <2>2. CASE i \in 1..Len(s)
    BY <1>1, <1>2, <2>1, <2>2 DEF ToSet
  <2>3. CASE i \notin 1..Len(s)
    <3>1. i - Len(s) \in 1..Len(t) /\ Len(s) + (i - Len(s)) = i
      BY <1>1, <2>3
    <3>2. x = t[i - Len(s)]
      BY <1>1, <2>1, <3>1
    <3>3. QED
      BY <1>2, <3>1, <3>2 DEF ToSet
  <2>4. QED
    BY <2>2, <2>3
<1>4. ASSUME NEW x \in ToSet(s) PROVE x \in ToSet(u)
  <2>1. PICK i \in 1..Len(s) : x = s[i]
    BY <1>2 DEF ToSet
  <2>2. i \in 1..Len(u) /\ x = u[i]
    BY <1>1, <2>1
  <2>3. QED
    BY <1>2, <2>2 DEF ToSet
<1>5. ASSUME NEW x \in ToSet(t) PROVE x \in ToSet(u)
  <2>1. PICK i \in 1..Len(t) : x = t[i]
    BY <1>2 DEF ToSet
  <2>2. Len(s) + i \in 1..Len(u) /\ x = u[Len(s) + i]
    BY <1>1, <2>1
  <2>3. QED
    BY <1>2, <2>2 DEF ToSet
<1>6. QED
  BY <1>1, <1>3, <1>4, <1>5 DEF u

-----------------------------------------------------------------------------
\* PageDrive.

LEMMA DriveLists ==
  ASSUME NEW s, NEW S
  PROVE  Drive!OnlyIn(s, S) = OnlyIn(s, S) /\ Drive!ToSet(s) = ToSet(s)
BY DEF Drive!OnlyIn, OnlyIn, Drive!ToSet, ToSet

\* What can be pressed of the page, and what is pressed of it.
Pressable(x) == x.wired # "argument" /\ (x.wired = "listener" \/ x.defined)

PageTyped ==
  /\ page.clean \in BOOLEAN /\ page.input \in BOOLEAN /\ page.controls \in Seq(Drive!Control)
  /\ agenda \in Seq(Drive!Control) /\ typed \in BOOLEAN /\ stale \in BOOLEAN
  /\ stage \in {"load", "empty", "filled", "judged", "driven"}
\* What is pressed is a control of the page as it stands there, unless it is passed over.
PressesControls ==
  \A x \in ToSet(agenda) : x.wired # "argument" => x \in ToSet(page.controls)
\* A control that throws and can be pressed is still to be pressed, or has thrown.
ThrowersThrow ==
  /\ stage \in {"empty", "filled", "judged", "driven"} =>
       \A x \in ToSet(page.controls) :
         Pressable(x) /\ x.does = "throws" => x \in ToSet(agenda) \/ "threw" \in statuses
  /\ "threw" \in statuses =>
       \E x \in ToSet(page.controls) : x.wired # "argument" /\ x.does = "throws"
\* A control that shows its work is still to be pressed with the text it needs, or something
\* has changed.
WorkShows ==
  /\ stage \in {"filled", "judged", "driven"} /\ ~Drive!Missing /\ Drive!Alive =>
       \/ "mutated" \in statuses
       \/ /\ typed = page.input
          /\ \E x \in ToSet(agenda) : x.wired # "argument" /\ Drive!Shows(x, page.input)
  /\ "mutated" \in statuses => Drive!Alive \/ page.input
Unjudged ==
  /\ stage \notin {"judged", "driven"} => judgement = "none" /\ change = Drive!NoChange
  /\ stage \in {"judged", "driven"} => agenda = <<>>
  /\ ~page.input /\ stage # "driven" => ~typed /\ ~stale
PageInv ==
  /\ PageTyped /\ PressesControls /\ ThrowersThrow /\ WorkShows /\ Unjudged /\ VerdictIsTrue

LEMMA PageIsRecord ==
  ASSUME NEW p \in Page
  PROVE  p.clean \in BOOLEAN /\ p.input \in BOOLEAN /\ p.controls \in Seq(Drive!Control)
<1>1. PICK m \in 0..MaxControls : p.controls \in [1..m -> Drive!Control]
  BY RunnerAssumption DEF Drive!PageDriveBounds, Drive!PageRecord, Drive!BoundedSeq, Drive!SeqOf
<1>2. MaxControls \in Nat
  BY RunnerAssumption DEF Drive!PageDriveBounds
<1>3. p.controls \in Seq(Drive!Control)
  BY <1>1, <1>2
<1>4. QED
  BY <1>3, RunnerAssumption DEF Drive!PageDriveBounds, Drive!PageRecord

\* What a pass presses.
LEMMA PassIs ==
  ASSUME PageTyped
  PROVE  /\ Drive!Pass \in Seq(Drive!Control)
         /\ \A x \in ToSet(Drive!Pass) : x.wired # "argument" => x \in ToSet(page.controls)
         /\ \A x \in ToSet(page.controls) : Pressable(x) => x \in ToSet(Drive!Pass)
<1> DEFINE W(how) == OnlyIn(page.controls, {x \in Drive!Control : x.wired \in how})
           named == W({"call", "literal", "argument"})
           Names == [i \in DOMAIN named |->
                      IF named[i].wired = "literal" THEN [named[i] EXCEPT !.wired = "argument"]
                        ELSE named[i]]
           Fit == {x \in Drive!Control : x.wired = "listener" \/ x.defined}
           all == Names \o W({"literal"}) \o W({"listener"})
<1>1. Drive!Pass = OnlyIn(all, Fit)
  BY DriveLists DEF Drive!Pass, Drive!Wired
<1>2. ASSUME NEW how
      PROVE  /\ W(how) \in Seq(Drive!Control)
             /\ ToSet(W(how)) = ToSet(page.controls) \cap {x \in Drive!Control : x.wired \in how}
  BY OnlyInHas DEF PageTyped
<1>3. named \in Seq(Drive!Control)
  BY <1>2
<1>4. /\ W({"literal"}) \in Seq(Drive!Control) /\ W({"listener"}) \in Seq(Drive!Control)
      /\ ToSet(named)
           = ToSet(page.controls) \cap {x \in Drive!Control : x.wired \in {"call", "literal", "argument"}}
      /\ ToSet(W({"literal"}))
           = ToSet(page.controls) \cap {x \in Drive!Control : x.wired \in {"literal"}}
      /\ ToSet(W({"listener"}))
           = ToSet(page.controls) \cap {x \in Drive!Control : x.wired \in {"listener"}}
  BY <1>2
<1> DEFINE literals == W({"literal"})
           listeners == W({"listener"})
<1> HIDE DEF W, named
<1>5. ASSUME NEW x \in Drive!Control
      PROVE  [x EXCEPT !.wired = "argument"] \in Drive!Control
  BY DEF Drive!Control, Drive!Wiring
<1>6. Names \in Seq(Drive!Control) /\ DOMAIN Names = DOMAIN named
  BY <1>3, <1>5
<1>7. ASSUME NEW x \in ToSet(Names), x.wired # "argument"
      PROVE  x \in ToSet(named)
  <2>1. PICK i \in DOMAIN named : x = Names[i]
    BY <1>6 DEF ToSet
  <2>2. named[i] \in Drive!Control
    BY <1>3, <2>1
  <2>3. [named[i] EXCEPT !.wired = "argument"].wired = "argument"
    BY <2>2 DEF Drive!Control
  <2>4. x = named[i]
    BY <1>7, <2>1, <2>3
  <2>5. QED
    BY <2>1, <2>4 DEF ToSet
<1>8. ASSUME NEW x \in ToSet(named), x.wired # "literal"
      PROVE  x \in ToSet(Names)
  <2>1. PICK i \in DOMAIN named : x = named[i]
    BY DEF ToSet
  <2>2. x = Names[i]
    BY <1>8, <2>1
  <2>3. QED
    BY <1>6, <2>1, <2>2 DEF ToSet
<1> HIDE DEF Names
<1>9. /\ Names \o literals \in Seq(Drive!Control)
      /\ ToSet(Names \o literals) = ToSet(Names) \cup ToSet(literals)
  BY <1>4, <1>6, ConcatHas
<1>10. all \in Seq(Drive!Control)
         /\ ToSet(all) = ToSet(Names) \cup ToSet(literals) \cup ToSet(listeners)
  <2> DEFINE front == Names \o literals
  <2>1. front \in Seq(Drive!Control) /\ ToSet(front) = ToSet(Names) \cup ToSet(literals)
    BY <1>9
  <2> HIDE DEF front, literals, listeners
  <2>2. listeners \in Seq(Drive!Control)
    BY <1>4 DEF listeners
  <2>3. front \o listeners \in Seq(Drive!Control)
          /\ ToSet(front \o listeners) = ToSet(front) \cup ToSet(listeners)
    BY <2>1, <2>2, ConcatHas
  <2>4. all = front \o listeners
    BY DEF front, literals, listeners
  <2>5. QED
    BY <2>1, <2>3, <2>4
<1> HIDE DEF all
<1>11. OnlyIn(all, Fit) \in Seq(Drive!Control) /\ ToSet(OnlyIn(all, Fit)) = ToSet(all) \cap Fit
  BY <1>10, OnlyInHas
<1>12. ASSUME NEW x \in ToSet(page.controls)
       PROVE  x \in Drive!Control /\ x.wired \in {"call", "literal", "argument", "listener"}
  <2>1. PICK i \in DOMAIN page.controls : x = page.controls[i]
    BY DEF ToSet
  <2>2. x \in Drive!Control
    BY <2>1 DEF PageTyped
  <2>3. QED
    BY <2>2 DEF Drive!Control, Drive!Wiring
<1>13. ASSUME NEW x \in ToSet(Drive!Pass), x.wired # "argument"
       PROVE  x \in ToSet(page.controls)
  BY <1>1, <1>4, <1>7, <1>10, <1>11, <1>13
<1>14. ASSUME NEW x \in ToSet(page.controls), Pressable(x)
       PROVE  x \in ToSet(Drive!Pass)
  BY <1>1, <1>4, <1>8, <1>10, <1>11, <1>12, <1>14 DEF Pressable
<1>15. QED
  BY <1>1, <1>11, <1>13, <1>14

LEMMA PageAtFirst == Drive!Init => PageInv
<1> SUFFICES ASSUME Drive!Init PROVE PageInv
  OBVIOUS
<1>1. PageTyped
  <2>1. page \in Page /\ agenda = <<>> /\ typed = FALSE /\ stale = FALSE /\ stage = "load"
    BY DEF Drive!Init
  <2>2. <<>> \in Seq(Drive!Control)
    OBVIOUS
  <2>3. QED
    BY <2>1, <2>2, PageIsRecord DEF PageTyped
<1>2. ToSet(agenda) = {}
  BY DEF Drive!Init, ToSet
<1>3. QED
  BY <1>1, <1>2 DEF Drive!Init, PageInv, PressesControls, ThrowersThrow, WorkShows, Unjudged,
     VerdictIsTrue,
     Drive!VerdictIsTrue, Drive!NoChange

\* A pass begins: as the page loads, and with the inputs filled.
LEMMA PassBegins == PageInv /\ (Drive!Load \/ Drive!Fill) => PageInv'
<1> SUFFICES ASSUME PageInv, Drive!Load \/ Drive!Fill PROVE PageInv'
  OBVIOUS
<1>1. /\ page' = page /\ statuses' = statuses /\ judgement' = judgement /\ change' = change
      /\ agenda' = Drive!Pass /\ stage' \in {"empty", "filled"} /\ stage \in {"load", "empty"}
      /\ stage' = "filled" => typed' = page.input /\ stale' = (stale \/ page.input)
      /\ stage' = "empty" => typed' = typed /\ stale' = stale
  BY DEF Drive!Load, Drive!Fill
<1>2. PageTyped /\ Unjudged
  BY DEF PageInv
<1>3. /\ Drive!Pass \in Seq(Drive!Control)
      /\ \A x \in ToSet(Drive!Pass) : x.wired # "argument" => x \in ToSet(page.controls)
      /\ \A x \in ToSet(page.controls) : Pressable(x) => x \in ToSet(Drive!Pass)
  BY <1>2, PassIs
<1>4. PageTyped'
  BY <1>1, <1>2, <1>3 DEF PageTyped
<1>5. PressesControls' /\ ThrowersThrow'
  BY <1>1, <1>3 DEF PageInv, PressesControls, ThrowersThrow, Pressable
<1>6. WorkShows'
  <2>1. (Drive!Missing' <=> Drive!Missing) /\ (Drive!Alive' <=> Drive!Alive)
    BY <1>1 DEF Drive!Missing, Drive!Alive
  <2>2. ASSUME stage' = "filled", ~Drive!Missing, Drive!Alive
        PROVE  \E x \in ToSet(Drive!Pass) : x.wired # "argument" /\ Drive!Shows(x, page.input)
    <3>1. PICK x \in ToSet(page.controls) : x.wired # "argument" /\ Drive!Shows(x, page.input)
      BY <2>2, DriveLists DEF Drive!Alive
    <3>2. Pressable(x)
      BY <2>2, <3>1, DriveLists DEF Drive!Missing, Pressable
    <3>3. QED
      BY <1>3, <3>1, <3>2
  <2>3. QED
    BY <1>1, <2>1, <2>2 DEF PageInv, WorkShows
<1>7. Unjudged' /\ VerdictIsTrue'
  BY <1>1, <1>2 DEF PageInv, Unjudged, VerdictIsTrue, Drive!VerdictIsTrue, Drive!NoChange,
     PageTyped
<1>8. QED
  BY <1>4, <1>5, <1>6, <1>7 DEF PageInv

LEMMA HeadAndTail ==
  ASSUME NEW T, NEW s \in Seq(T), s # <<>>
  PROVE  /\ Head(s) \in T /\ Head(s) \in ToSet(s) /\ Tail(s) \in Seq(T)
         /\ ToSet(s) = {Head(s)} \cup ToSet(Tail(s))
<1> DEFINE t == Tail(s)
<1>1. /\ Len(s) \in Nat /\ Len(s) > 0 /\ Head(s) = s[1] /\ s[1] \in T /\ t \in Seq(T)
      /\ Len(t) = Len(s) - 1 /\ \A i \in 1..(Len(s) - 1) : t[i] = s[i + 1]
  OBVIOUS
<1>2. DOMAIN s = 1..Len(s) /\ DOMAIN t = 1..(Len(s) - 1)
  OBVIOUS
<1> HIDE DEF t
<1>3. ASSUME NEW x \in ToSet(s) PROVE x = Head(s) \/ x \in ToSet(t)
  <2>1. PICK i \in 1..Len(s) : x = s[i]
    BY <1>2 DEF ToSet
  <2>2. CASE i = 1
    BY <1>1, <2>1, <2>2
  <2>3. CASE i # 1
    <3>1. i - 1 \in 1..(Len(s) - 1) /\ (i - 1) + 1 = i
      BY <1>1, <2>3
    <3>2. x = t[i - 1]
      BY <1>1, <2>1, <3>1
    <3>3. QED
      BY <1>2, <3>1, <3>2 DEF ToSet
  <2>4. QED
    BY <2>2, <2>3
<1>4. ASSUME NEW x \in ToSet(t) PROVE x \in ToSet(s)
  <2>1. PICK i \in 1..(Len(s) - 1) : x = t[i]
    BY <1>2 DEF ToSet
  <2>2. i + 1 \in 1..Len(s) /\ x = s[i + 1]
    BY <1>1, <2>1
  <2>3. QED
    BY <1>2, <2>2 DEF ToSet
<1>5. Head(s) \in ToSet(s)
  BY <1>1, <1>2 DEF ToSet
<1>6. QED
  BY <1>1, <1>3, <1>4, <1>5 DEF t

\* One handler is pressed.
LEMMA PressKeeps == PageInv /\ Drive!Press => PageInv'
<1> SUFFICES ASSUME PageInv, Drive!Press PROVE PageInv'
  OBVIOUS
<1> DEFINE x == Head(agenda)
<1>1. /\ page' = page /\ stage' = stage /\ judgement' = judgement /\ change' = change
      /\ agenda' = Tail(agenda) /\ agenda # <<>> /\ stage \in {"empty", "filled"}
  BY DEF Drive!Press
<1>2. PageTyped /\ PressesControls /\ ThrowersThrow /\ WorkShows /\ Unjudged
  BY DEF PageInv
<1>3. /\ x \in Drive!Control /\ x \in ToSet(agenda) /\ Tail(agenda) \in Seq(Drive!Control)
      /\ ToSet(agenda) = {x} \cup ToSet(Tail(agenda))
  BY <1>1, <1>2, HeadAndTail DEF PageTyped
<1>4. \/ x.wired = "argument" /\ statuses' = statuses \cup {"skipped-args"} /\ typed' = typed
        /\ stale' = stale
      \/ /\ x.wired # "argument" /\ x.does = "throws"
         /\ statuses' = statuses \cup {"threw"} /\ typed' = typed /\ stale' = stale
      \/ /\ x.wired # "argument" /\ x.does # "throws"
         /\ statuses' = statuses
              \cup {IF stale \/ Drive!Shows(x, typed) THEN "mutated" ELSE "no-op"}
         /\ stale' = FALSE /\ typed' = (typed /\ x.does # "adds")
  BY DEF Drive!Press
<1> HIDE DEF x
<1>5. (Drive!Missing' <=> Drive!Missing) /\ (Drive!Alive' <=> Drive!Alive)
  BY <1>1 DEF Drive!Missing, Drive!Alive
<1>6. PageTyped'
  BY <1>1, <1>2, <1>3, <1>4 DEF PageTyped
<1>7. PressesControls'
  BY <1>1, <1>2, <1>3 DEF PressesControls
<1>8. ThrowersThrow'
  <2>1. "threw" \in statuses' => "threw" \in statuses \/ (x.wired # "argument" /\ x.does = "throws")
    BY <1>4
  <2>2. x.wired # "argument" => x \in ToSet(page.controls)
    BY <1>2, <1>3 DEF PressesControls
  <2>3. ASSUME NEW y \in ToSet(page.controls), Pressable(y), y.does = "throws"
        PROVE  y \in ToSet(Tail(agenda)) \/ "threw" \in statuses'
    BY <1>1, <1>2, <1>3, <1>4, <2>3 DEF ThrowersThrow, Pressable
  <2>4. QED
    BY <1>1, <1>2, <2>1, <2>2, <2>3 DEF ThrowersThrow, Pressable
<1>9. WorkShows'
  <2>1. ASSUME "mutated" \in statuses', "mutated" \notin statuses PROVE Drive!Alive \/ page.input
    <3>1. x.wired # "argument" /\ (stale \/ Drive!Shows(x, typed))
      BY <1>4, <2>1
    <3>2. ASSUME ~page.input PROVE Drive!Alive
      <4>1. Drive!Shows(x, page.input)
        BY <1>1, <1>2, <3>1, <3>2 DEF Unjudged, Drive!Shows
      <4>2. x \in ToSet(page.controls)
        BY <1>2, <1>3, <3>1 DEF PressesControls
      <4>3. QED
        BY <3>1, <4>1, <4>2, DriveLists DEF Drive!Alive
    <3>3. QED
      BY <3>2
  <2>2. ASSUME stage = "filled", ~Drive!Missing, Drive!Alive, "mutated" \notin statuses'
        PROVE  /\ typed' = page.input
               /\ \E y \in ToSet(Tail(agenda)) : y.wired # "argument" /\ Drive!Shows(y, page.input)
    <3>1. "mutated" \notin statuses
      BY <1>4, <2>2
    <3>2. /\ typed = page.input
          /\ \E y \in ToSet(agenda) : y.wired # "argument" /\ Drive!Shows(y, page.input)
      BY <1>2, <2>2, <3>1 DEF WorkShows
    <3>3. ~(x.wired # "argument" /\ x.does # "throws" /\ Drive!Shows(x, typed))
      BY <1>4, <2>2
    <3>4. typed' = typed
      BY <1>2, <1>4, <3>3 DEF Drive!Shows, PageTyped
    <3>5. ~(x.wired # "argument" /\ Drive!Shows(x, page.input))
      BY <3>2, <3>3 DEF Drive!Shows
    <3>6. QED
      BY <1>3, <3>2, <3>4, <3>5
  <2>3. "mutated" \in statuses => Drive!Alive \/ page.input
    BY <1>2 DEF WorkShows
  <2>4. QED
    BY <1>1, <1>5, <2>1, <2>2, <2>3 DEF WorkShows
<1>10. Unjudged'
  <2>1. ~page.input => ~typed' /\ ~stale'
    BY <1>1, <1>2, <1>4 DEF Unjudged
  <2>2. QED
    BY <1>1, <1>2, <2>1 DEF Unjudged
<1>11. VerdictIsTrue'
  BY <1>1, <1>2 DEF Unjudged, VerdictIsTrue, Drive!VerdictIsTrue, Drive!NoChange
<1>12. QED
  BY <1>6, <1>7, <1>8, <1>9, <1>10, <1>11 DEF PageInv

\* The page is judged.
LEMMA JudgeKeeps == PageInv /\ Drive!Judge => PageInv'
<1> SUFFICES ASSUME PageInv, Drive!Judge PROVE PageInv'
  OBVIOUS
<1>1. /\ page' = page /\ agenda' = agenda /\ typed' = typed /\ stale' = stale
           /\ statuses' = statuses
      /\ change' = change /\ agenda = <<>> /\ stage = "filled" /\ stage' = "judged"
      /\ judgement' = Drive!Verdict
  BY DEF Drive!Judge
<1>2. PageTyped /\ PressesControls /\ ThrowersThrow /\ WorkShows /\ Unjudged
  BY DEF PageInv
<1>3. (Drive!Missing' <=> Drive!Missing) /\ (Drive!Alive' <=> Drive!Alive)
        /\ (Drive!Sound' <=> Drive!Sound)
  BY <1>1 DEF Drive!Missing, Drive!Alive, Drive!Sound
<1>4. ToSet(agenda) = {}
  BY <1>1 DEF ToSet
<1>5. ASSUME Drive!Sound, Drive!Alive PROVE Drive!Verdict = "functional"
  <2>1. page.clean /\ ~Drive!Missing /\ "threw" \notin statuses
    BY <1>2, <1>5, DriveLists DEF Drive!Sound, ThrowersThrow
  <2>2. "mutated" \in statuses
    BY <1>1, <1>2, <1>4, <1>5, <2>1 DEF WorkShows
  <2>3. QED
    BY <2>1, <2>2 DEF Drive!Verdict
<1>6. ASSUME Drive!Verdict = "functional" PROVE Drive!Sound /\ (Drive!Alive \/ page.input)
  <2>1. page.clean /\ ~Drive!Missing /\ "threw" \notin statuses /\ "mutated" \in statuses
    BY <1>6 DEF Drive!Verdict
  <2>2. ASSUME NEW x \in ToSet(page.controls), x.wired # "argument" PROVE x.does # "throws"
    <3>1. Pressable(x)
      BY <2>1, <2>2, DriveLists DEF Drive!Missing, Pressable
    <3>2. QED
      BY <1>1, <1>2, <1>4, <2>1, <3>1 DEF ThrowersThrow
  <2>3. QED
    BY <1>2, <2>1, <2>2, DriveLists DEF Drive!Sound, WorkShows
<1>7. VerdictIsTrue'
  BY <1>1, <1>2, <1>3, <1>5, <1>6 DEF VerdictIsTrue, Drive!VerdictIsTrue, Unjudged,
     Drive!NoChange
<1>8. PageTyped' /\ PressesControls' /\ ThrowersThrow' /\ WorkShows' /\ Unjudged'
  BY <1>1, <1>2, <1>3 DEF PageTyped, PressesControls, ThrowersThrow, WorkShows, Unjudged
<1>9. QED
  BY <1>7, <1>8 DEF PageInv

\* A user's action.
LEMMA InteractKeeps ==
  ASSUME PageInv, NEW x, NEW fills \in BOOLEAN, Drive!Interact(x, fills)
  PROVE  PageInv'
<1>1. /\ page' = page /\ agenda' = agenda /\ stale' = stale /\ statuses' = statuses
      /\ judgement' = judgement /\ stage = "judged" /\ stage' = "driven"
      /\ typed' \in BOOLEAN /\ (change'.seen => change'.reported)
  BY DEF Drive!Interact
<1>2. PageTyped /\ PressesControls /\ ThrowersThrow /\ WorkShows /\ Unjudged /\ VerdictIsTrue
  BY DEF PageInv
<1>3. (Drive!Missing' <=> Drive!Missing) /\ (Drive!Alive' <=> Drive!Alive)
        /\ (Drive!Sound' <=> Drive!Sound)
  BY <1>1 DEF Drive!Missing, Drive!Alive, Drive!Sound
<1>4. ToSet(agenda) = {}
  BY <1>1, <1>2 DEF Unjudged, ToSet
<1>5. VerdictIsTrue'
  BY <1>1, <1>2, <1>3 DEF VerdictIsTrue, Drive!VerdictIsTrue
<1>6. PageTyped' /\ PressesControls' /\ ThrowersThrow' /\ Unjudged'
  BY <1>1, <1>2, <1>3 DEF PageTyped, PressesControls, ThrowersThrow, Unjudged
<1>7. WorkShows'
  BY <1>1, <1>2, <1>3, <1>4 DEF WorkShows
<1>8. QED
  BY <1>5, <1>6, <1>7 DEF PageInv

LEMMA PageKept == PageInv /\ [Drive!Next]_(Drive!vars) => PageInv'
<1> SUFFICES ASSUME PageInv, [Drive!Next]_(Drive!vars) PROVE PageInv'
  OBVIOUS
<1>1. CASE UNCHANGED Drive!vars
  BY <1>1 DEF Drive!vars, PageInv, PageTyped, PressesControls, ThrowersThrow, WorkShows,
     Unjudged,
     VerdictIsTrue, Drive!VerdictIsTrue, Drive!Missing, Drive!Alive, Drive!Sound
<1>2. ASSUME NEW x \in ToSet(page.controls), NEW fills \in BOOLEAN, Drive!Interact(x, fills)
      PROVE  PageInv'
  BY <1>2, InteractKeeps
<1>3. Drive!Rest => UNCHANGED Drive!vars
  BY DEF Drive!Rest
<1>4. QED
  BY <1>1, <1>2, <1>3, DriveLists, PassBegins, PressKeeps, JudgeKeeps DEF Drive!Next

\* However many controls a page has and however they are wired: a page that runs and shows its
\* work is judged functional, a functional one runs and shows its work or has an input, and what
\* a user would see is reported (verifyGeneratedApp and interact).
THEOREM PageVerdictIsTrue == Drive!Spec => []VerdictIsTrue
<1>1. PageInv => VerdictIsTrue
  BY DEF PageInv
<1>2. QED
  BY <1>1, PageAtFirst, PageKept, PTL DEF Drive!Spec

-----------------------------------------------------------------------------
\* UserJourney: what a step that passed shows, and that a whole build fails none.

Passed(s) == s \in DOMAIN steps /\ steps[s] = "PASS"
Did(b) == b \in build.does
LetIn == Did("guards") => opened

PastLoad == {"backend", "auth", "create", "update", "delete", "refresh", "local", "live",
             "logout", "errors"}
PastAuth == {"create", "update", "delete", "refresh", "live", "logout", "errors"}
PastData == {"refresh", "live", "logout", "errors"}
AuthSteps == {"unauthorized", "validation", "register", "login", "session"}
DataSteps == {"create", "validation-data", "read", "update", "delete"}

JourneyTyped ==
  /\ plan \in Plan /\ build \in Founder!Candidates(plan)
  /\ at \in Founder!Stage /\ hangs \in Nat
  /\ at # "end" => outcome = "none"
  /\ opened \in BOOLEAN /\ bearer \in BOOLEAN /\ member \in BOOLEAN

\* Where the run is says what the plan has.
OnItsWay ==
  /\ at \in {"backend", "auth", "create", "update", "delete", "refresh", "live", "logout"} =>
       plan.backend
  /\ at = "auth" => plan.auth
  /\ at \in {"create", "update", "delete", "refresh", "local"} => plan.data
  /\ at = "local" => ~plan.backend
  /\ at = "live" => plan.live
  /\ at \in PastLoad \ {"backend"} /\ plan.backend => Did("handler")
  /\ at \in {"load", "backend", "auth", "create", "local"} => store = {}
  /\ at = "update" => "edited" \notin store
  /\ at \in PastLoad \cup {"load"} /\ at # "errors" => opened = bearer
  /\ at \in {"update", "delete"} => LetIn

Shown1 ==
  /\ at \in PastLoad => "startup" \in DOMAIN steps /\ (Passed("startup") => Did("loads"))
  /\ at \in PastAuth /\ plan.auth =>
       /\ AuthSteps \subseteq DOMAIN steps
       /\ Passed("unauthorized") => Did("guards")
       /\ Passed("validation") => Did("rejects")
       /\ Passed("register") => Did("registers")
       /\ Passed("login") => Did("logs-in") /\ (at # "errors" => bearer)
       /\ Passed("session") => Did("lists")
ShownData ==
  /\ at \in {"update", "delete"} =>
       /\ {"create", "validation-data", "read"} \subseteq DOMAIN steps
       /\ Passed("validation-data") => Did("validates")
       /\ Passed("read") => Did("lists") /\ Did("stores")
  /\ at = "delete" =>
       /\ "update" \in DOMAIN steps
       /\ Passed("update") => Did("updates") /\ "edited" \in store /\ Did("lists")
  /\ at \in PastData /\ plan.data /\ plan.backend =>
       /\ DataSteps \subseteq DOMAIN steps
       /\ (\A s \in DataSteps : Passed(s)) =>
            {"validates", "stores", "lists", "updates", "deletes"} \subseteq build.does
  /\ at = "errors" /\ plan.data /\ ~plan.backend =>
       "read" \in DOMAIN steps /\ (Passed("read") => Did("keeps"))
ShownLate ==
  /\ at \in {"logout", "errors"} /\ plan.live =>
       /\ "realtime" \in DOMAIN steps
       /\ Passed("realtime") => build.hub.reach # "none"
            /\ (build.hub.rests \/ build.hub.reach = "all")
  /\ at = "errors" /\ plan.auth /\ Passed("unauthorized") /\ Passed("login") /\ Passed("session") =>
       "logout" \in DOMAIN steps /\ (Passed("logout") => Did("kills"))

\* A whole build has failed nothing yet, and is let in.
Unfailed ==
  at # "end" /\ Founder!Whole /\ hangs = 0 =>
    /\ \A s \in DOMAIN steps : steps[s] = "PASS"
    /\ at \in PastAuth \ {"errors"} => LetIn /\ (plan.auth => opened /\ bearer)
    /\ at = "update" => "journey" \in store

JourneyInv ==
  /\ JourneyTyped /\ OnItsWay /\ Shown1 /\ ShownData /\ ShownLate /\ Unfailed /\ JourneyIsTrue

\* What a plan may be.
LEMMA PlanIsRecord ==
  ASSUME NEW p \in Plan
  PROVE  /\ p.backend \in BOOLEAN /\ p.auth \in BOOLEAN /\ p.data \in BOOLEAN /\ p.live \in BOOLEAN
         /\ p.auth \/ p.live => p.backend
  BY RunnerAssumption DEF Founder!UserJourneyBounds

\* Nothing is recorded in an empty record.
LEMMA NoSteps == DOMAIN <<>> = {}
  OBVIOUS

\* A journey begins.
LEMMA JourneyAtFirst == Founder!Init => JourneyInv
<1> SUFFICES ASSUME Founder!Init PROVE JourneyInv
  OBVIOUS
<1> USE DEF Founder!Init
<1>1. at \in {"load", "accept"} /\ DOMAIN steps = {}
  OBVIOUS
<1>2. JourneyTyped /\ OnItsWay
  BY DEF JourneyTyped, OnItsWay, Founder!Stage, PastLoad
<1>3. Shown1 /\ ShownData /\ ShownLate
  BY DEF Shown1, ShownData, ShownLate, PastLoad, PastAuth, PastData
<1>4. Unfailed /\ JourneyIsTrue
  BY DEF Unfailed, PastAuth, JourneyIsTrue, Founder!JourneyIsTrue
<1>5. QED
  BY <1>2, <1>3, <1>4 DEF JourneyInv

\* What a plan and where the run is say of each other.
PlanAllows ==
  /\ plan.backend \in BOOLEAN /\ plan.auth \in BOOLEAN /\ plan.data \in BOOLEAN
  /\ plan.live \in BOOLEAN /\ (plan.auth \/ plan.live => plan.backend)
  /\ plan.backend \/ ~Did("handler")
  /\ build.hub.reach \in {"none", "all", "first"} /\ build.hub.rests \in BOOLEAN
LEMMA JourneyContext ==
  ASSUME JourneyInv
  PROVE  PlanAllows
  BY RunnerAssumption DEF PlanAllows, JourneyInv, JourneyTyped, Did, Founder!Candidates,
     Founder!UserJourneyBounds, Founder!Hub

\* The page is run.
LEMMA LoadKeeps == JourneyInv /\ Founder!Load => JourneyInv'
<1> SUFFICES ASSUME JourneyInv, Founder!Load PROVE JourneyInv'
  OBVIOUS
<1>a. PlanAllows
  BY JourneyContext
<1>b. JourneyTyped /\ OnItsWay /\ Shown1 /\ ShownData /\ ShownLate /\ Unfailed /\ JourneyIsTrue
  BY DEF JourneyInv
<1>0. /\ plan' = plan /\ build' = build /\ store' = store /\ member' = member /\ opened' = opened
      /\ bearer' = bearer /\ outcome' = outcome /\ hangs' = hangs
      /\ at = "load" /\ outcome = "none" /\ store = {} /\ opened = bearer
  BY <1>b DEF Founder!Load, Founder!around, Founder!world, JourneyTyped, OnItsWay
<1>1. \/ at' = "backend" /\ plan.backend
      \/ at' = "local" /\ ~plan.backend /\ plan.data
      \/ at' = "errors" /\ ~plan.backend /\ ~plan.data
  BY <1>a DEF PlanAllows, Founder!Load, Founder!Does, Did, Founder!AfterBackend
<1>2. steps' = [s \in DOMAIN steps \cup {"startup"} |->
        IF s = "startup" THEN (IF Did("loads") THEN "PASS" ELSE "FAIL") ELSE steps[s]]
  BY DEF Founder!Load, Founder!Record, Founder!Result, Founder!Planned, Founder!Does, Did
<1>3. JourneyTyped'
  BY <1>0, <1>1, <1>b DEF JourneyTyped, Founder!Stage
<1>4. OnItsWay'
  BY <1>0, <1>1 DEF OnItsWay
<1>5. Shown1'
  BY <1>0, <1>1, <1>2, <1>a DEF PlanAllows, Shown1, PastAuth, Passed, Did
<1>6. ShownData'
  BY <1>0, <1>1 DEF ShownData, PastData
<1>7. ShownLate'
  BY <1>0, <1>1, <1>a DEF PlanAllows, ShownLate
<1>8. Unfailed'
  BY <1>0, <1>1, <1>2, <1>b DEF Unfailed, PastAuth, Did, Founder!Whole, Founder!Asked,
     Founder!Does
<1>9. JourneyIsTrue'
  BY <1>0 DEF JourneyIsTrue, Founder!JourneyIsTrue
<1>10. QED
  BY <1>3, <1>4, <1>5, <1>6, <1>7, <1>8, <1>9 DEF JourneyInv

\* The server is loaded, or nothing of it can be tried.
LEMMA BackendKeeps == JourneyInv /\ Founder!Backend => JourneyInv'
<1> SUFFICES ASSUME JourneyInv, Founder!Backend PROVE JourneyInv'
  OBVIOUS
<1>a. PlanAllows
  BY JourneyContext
<1>b. JourneyTyped /\ OnItsWay /\ Shown1 /\ ShownData /\ ShownLate /\ Unfailed /\ JourneyIsTrue
  BY DEF JourneyInv
<1>0. /\ plan' = plan /\ build' = build /\ store' = store /\ member' = member /\ opened' = opened
      /\ bearer' = bearer /\ hangs' = hangs
      /\ at = "backend" /\ outcome = "none" /\ store = {} /\ opened = bearer /\ plan.backend
  BY <1>b DEF Founder!Backend, Founder!around, Founder!world, JourneyTyped, OnItsWay, PastLoad
<1>1. \/ at' = "end" /\ ~Did("handler") /\ outcome' = "failed"
      \/ /\ Did("handler") /\ outcome' = "none"
         /\ \/ at' = "auth" /\ plan.auth
            \/ at' = "create" /\ ~plan.auth /\ plan.data
            \/ at' = "live" /\ ~plan.auth /\ ~plan.data /\ plan.live
            \/ at' = "errors" /\ ~plan.auth /\ ~plan.data /\ ~plan.live
  BY <1>0 DEF Founder!Backend, Founder!Does, Did, Founder!AfterBackend
<1>2. Did("handler") =>
        steps' = [s \in DOMAIN steps \cup {"backend-starts", "health"} |->
                    IF s \in {"backend-starts", "health"} THEN "PASS" ELSE steps[s]]
  BY <1>0 DEF Founder!Backend, Founder!Record, Founder!Planned, Founder!Does, Did
<1>3. JourneyTyped'
  BY <1>0, <1>1, <1>b DEF JourneyTyped, Founder!Stage
<1>4. OnItsWay'
  BY <1>0, <1>1 DEF OnItsWay, PastLoad, Did
<1>5. Shown1'
  BY <1>0, <1>1, <1>2, <1>b DEF Shown1, PastLoad, PastAuth, Passed, Did
<1>6. ShownData'
  BY <1>0, <1>1 DEF ShownData, PastData
<1>7. ShownLate'
  BY <1>0, <1>1 DEF ShownLate
<1>8. Unfailed'
  BY <1>0, <1>1, <1>2, <1>b DEF Unfailed, PastAuth, Did, LetIn, Founder!Whole, Founder!Asked,
     Founder!Does
<1>9. JourneyIsTrue'
  BY <1>0, <1>1 DEF JourneyIsTrue, Founder!JourneyIsTrue, Founder!Whole, Founder!Asked, Did
<1>10. QED
  BY <1>3, <1>4, <1>5, <1>6, <1>7, <1>8, <1>9 DEF JourneyInv

\* The accounts.
LEMMA AuthKeeps == JourneyInv /\ Founder!Auth => JourneyInv'
<1> SUFFICES ASSUME JourneyInv, Founder!Auth PROVE JourneyInv'
  OBVIOUS
<1>a. PlanAllows
  BY JourneyContext
<1>b. JourneyTyped /\ OnItsWay /\ Shown1 /\ ShownData /\ ShownLate /\ Unfailed /\ JourneyIsTrue
  BY DEF JourneyInv
<1>0. /\ plan' = plan /\ build' = build /\ store' = store /\ outcome' = outcome /\ hangs' = hangs
      /\ at = "auth" /\ outcome = "none" /\ store = {} /\ plan.auth /\ plan.backend
      /\ Did("handler")
      /\ member' = Did("registers") /\ bearer' = (Did("registers") /\ Did("logs-in"))
      /\ opened' = bearer'
  BY <1>b DEF Founder!Auth, Founder!around, JourneyTyped, OnItsWay, PastLoad, Did, Founder!Does
<1>1. \/ at' = "create" /\ plan.data
      \/ at' = "live" /\ ~plan.data /\ plan.live
      \/ at' = "logout" /\ ~plan.data /\ ~plan.live
  BY DEF Founder!Auth, Founder!AfterAuth
<1>2. /\ DOMAIN steps' = DOMAIN steps \cup AuthSteps
      /\ \A s \in DOMAIN steps \ AuthSteps : steps'[s] = steps[s]
      /\ steps'["unauthorized"] = IF Did("guards") THEN "PASS" ELSE "FAIL"
      /\ steps'["validation"] = IF Did("rejects") THEN "PASS" ELSE "FAIL"
      /\ steps'["register"] = IF Did("registers") THEN "PASS" ELSE "FAIL"
      /\ steps'["login"] = IF bearer' THEN "PASS" ELSE "FAIL"
      /\ steps'["session"] = IF Did("lists") /\ (Did("guards") => opened') THEN "PASS" ELSE "FAIL"
  BY <1>0 DEF Founder!Auth, Founder!Record, Founder!Result, Founder!Planned, Founder!Does, Did,
     AuthSteps
<1>3. JourneyTyped'
  <2>1. bearer' \in BOOLEAN /\ member' \in BOOLEAN /\ opened' \in BOOLEAN
    BY <1>0 DEF Did
  <2>2. QED
    BY <2>1, <1>0, <1>1, <1>b DEF JourneyTyped, Founder!Stage
<1>4. OnItsWay'
  BY <1>0, <1>1 DEF OnItsWay, Did
<1>5. Shown1'
  BY <1>0, <1>2, <1>b DEF Shown1, PastLoad, AuthSteps, Passed, Did
<1>6. ShownData'
  BY <1>0, <1>1 DEF ShownData, PastData
<1>7. ShownLate'
  BY <1>0, <1>1 DEF ShownLate
<1>8. Unfailed'
  BY <1>0, <1>1, <1>2, <1>b DEF Unfailed, Did, LetIn, Founder!Whole, Founder!Asked, AuthSteps
<1>9. JourneyIsTrue'
  BY <1>0 DEF JourneyIsTrue, Founder!JourneyIsTrue
<1>10. QED
  BY <1>3, <1>4, <1>5, <1>6, <1>7, <1>8, <1>9 DEF JourneyInv

\* A record.
LEMMA CreateKeeps == JourneyInv /\ Founder!Create => JourneyInv'
<1> SUFFICES ASSUME JourneyInv, Founder!Create PROVE JourneyInv'
  OBVIOUS
<1>a. PlanAllows
  BY JourneyContext
<1>b. JourneyTyped /\ OnItsWay /\ Shown1 /\ ShownData /\ ShownLate /\ Unfailed /\ JourneyIsTrue
  BY DEF JourneyInv
<1>0. /\ plan' = plan /\ build' = build /\ member' = member /\ opened' = opened
      /\ bearer' = bearer /\ outcome' = outcome /\ hangs' = hangs
      /\ at = "create" /\ outcome = "none" /\ store = {} /\ plan.data /\ plan.backend
      /\ Did("handler")
      /\ opened = bearer /\ "edited" \notin store'
      /\ ("journey" \in store' <=> Did("stores") /\ LetIn)
  BY <1>b DEF Founder!Create, Founder!around, JourneyTyped, OnItsWay, PastLoad, Did,
     Founder!Does, Founder!Admitted, LetIn
<1>1. \/ at' = "update" /\ LetIn
      \/ at' = "refresh" /\ ~LetIn
  BY DEF Founder!Create, Founder!Does, Founder!Admitted, Did, LetIn
<1>2. /\ DOMAIN steps' = DOMAIN steps \cup {"validation-data", "create", "read"}
                        \cup (IF LetIn THEN {} ELSE {"update", "delete"})
      /\ \A s \in DOMAIN steps \ {"validation-data", "create", "read", "update", "delete"} :
            steps'[s] = steps[s]
      /\ LetIn
           => \A s \in DOMAIN steps \ {"validation-data", "create", "read"} : steps'[s] = steps[s]
      /\ steps'["validation-data"] = IF Did("validates") \/ ~LetIn THEN "PASS" ELSE "FAIL"
      /\ steps'["create"] = IF LetIn THEN "PASS" ELSE "FAIL"
      /\ steps'["read"] = IF Did("lists") /\ LetIn /\ "journey" \in store' THEN "PASS" ELSE "FAIL"
  BY <1>0 DEF Founder!Create, Founder!Record, Founder!Result, Founder!Planned, Founder!Does,
     Founder!Admitted, Founder!Sees, Founder!Lists, Did, LetIn
<1>3. JourneyTyped'
  BY <1>0, <1>1, <1>b DEF JourneyTyped, Founder!Stage
<1>4. OnItsWay'
  BY <1>0, <1>1 DEF OnItsWay, Did, LetIn
<1>5. Shown1'
  BY <1>0, <1>2, <1>b DEF Shown1, PastLoad, PastAuth, Passed, Did
<1>6. ShownData'
  BY <1>0, <1>1, <1>2 DEF ShownData, PastData, DataSteps, Passed, Did
<1>7. ShownLate'
  BY <1>1 DEF ShownLate
<1>8. Unfailed'
  BY <1>0, <1>2, <1>b DEF Unfailed, PastAuth, Did, LetIn, Founder!Whole, Founder!Asked,
     Founder!Does
<1>9. JourneyIsTrue'
  BY <1>0 DEF JourneyIsTrue, Founder!JourneyIsTrue
<1>10. QED
  BY <1>3, <1>4, <1>5, <1>6, <1>7, <1>8, <1>9 DEF JourneyInv

\* The record is edited.
LEMMA UpdateKeeps == JourneyInv /\ Founder!Update => JourneyInv'
<1> SUFFICES ASSUME JourneyInv, Founder!Update PROVE JourneyInv'
  OBVIOUS
<1>a. PlanAllows
  BY JourneyContext
<1>b. JourneyTyped /\ OnItsWay /\ Shown1 /\ ShownData /\ ShownLate /\ Unfailed /\ JourneyIsTrue
  BY DEF JourneyInv
<1>0. /\ plan' = plan /\ build' = build /\ member' = member /\ opened' = opened
      /\ bearer' = bearer /\ outcome' = outcome /\ hangs' = hangs
      /\ at = "update" /\ outcome = "none" /\ plan.data /\ plan.backend /\ Did("handler")
      /\ opened = bearer /\ LetIn
      /\ ("edited" \in store' <=> Did("updates") /\ "journey" \in store)
  BY <1>b DEF Founder!Update, Founder!around, JourneyTyped, OnItsWay, PastLoad, Did,
     Founder!Does
<1>1. at' = "delete"
  BY DEF Founder!Update
<1>2. steps' = [s \in DOMAIN steps \cup {"update"} |->
        IF s = "update" THEN (IF Did("lists") /\ "edited" \in store' THEN "PASS" ELSE "FAIL")
          ELSE steps[s]]
  BY <1>0 DEF Founder!Update, Founder!Record, Founder!Result, Founder!Planned, Founder!Does,
     Founder!Admitted, Founder!Sees, Founder!Lists, Did, LetIn
<1>3. JourneyTyped'
  BY <1>0, <1>1, <1>b DEF JourneyTyped, Founder!Stage
<1>4. OnItsWay'
  BY <1>0, <1>1 DEF OnItsWay, Did, LetIn
<1>5. Shown1'
  BY <1>0, <1>2, <1>b DEF Shown1, PastLoad, PastAuth, Passed, Did
<1>6. ShownData'
  BY <1>0, <1>1, <1>2, <1>b DEF ShownData, PastData, Passed, Did
<1>7. ShownLate'
  BY <1>1 DEF ShownLate
<1>8. Unfailed'
  BY <1>0, <1>1, <1>2, <1>b DEF Unfailed, Did, LetIn, Founder!Whole, Founder!Asked, Founder!Does
<1>9. JourneyIsTrue'
  BY <1>0 DEF JourneyIsTrue, Founder!JourneyIsTrue
<1>10. QED
  BY <1>3, <1>4, <1>5, <1>6, <1>7, <1>8, <1>9 DEF JourneyInv

\* The record is deleted.
LEMMA DeleteKeeps == JourneyInv /\ Founder!Delete => JourneyInv'
<1> SUFFICES ASSUME JourneyInv, Founder!Delete PROVE JourneyInv'
  OBVIOUS
<1>a. PlanAllows
  BY JourneyContext
<1>b. JourneyTyped /\ OnItsWay /\ Shown1 /\ ShownData /\ ShownLate /\ Unfailed /\ JourneyIsTrue
  BY DEF JourneyInv
<1>0. /\ plan' = plan /\ build' = build /\ member' = member /\ opened' = opened
      /\ bearer' = bearer /\ outcome' = outcome /\ hangs' = hangs
      /\ at = "delete" /\ outcome = "none" /\ plan.data /\ plan.backend /\ Did("handler")
      /\ opened = bearer /\ LetIn
      /\ ("edited" \in store' <=> ~Did("deletes") /\ "edited" \in store)
  BY <1>b DEF Founder!Delete, Founder!around, JourneyTyped, OnItsWay, PastLoad, Did,
     Founder!Does
<1>1. at' = "refresh"
  BY DEF Founder!Delete
<1>2. steps' = [s \in DOMAIN steps \cup {"delete"} |->
        IF s = "delete" THEN (IF ~(Did("lists") /\ "edited" \in store') THEN "PASS" ELSE "FAIL")
          ELSE steps[s]]
  BY <1>0 DEF Founder!Delete, Founder!Record, Founder!Result, Founder!Planned, Founder!Does,
     Founder!Admitted, Founder!Sees, Founder!Lists, Did, LetIn
<1>3. JourneyTyped'
  BY <1>0, <1>1, <1>b DEF JourneyTyped, Founder!Stage
<1>4. OnItsWay'
  BY <1>0, <1>1 DEF OnItsWay, Did
<1>5. Shown1'
  BY <1>0, <1>2, <1>b DEF Shown1, PastLoad, PastAuth, Passed, Did
<1>6. ShownData'
  BY <1>0, <1>1, <1>2, <1>b DEF ShownData, DataSteps, Passed, Did
<1>7. ShownLate'
  BY <1>1 DEF ShownLate
<1>8. Unfailed'
  BY <1>0, <1>1, <1>2, <1>b DEF Unfailed, Did, LetIn, Founder!Whole, Founder!Asked, Founder!Does
<1>9. JourneyIsTrue'
  BY <1>0 DEF JourneyIsTrue, Founder!JourneyIsTrue
<1>10. QED
  BY <1>3, <1>4, <1>5, <1>6, <1>7, <1>8, <1>9 DEF JourneyInv

\* The record is made again.
LEMMA RefreshKeeps == JourneyInv /\ Founder!Refresh => JourneyInv'
<1> SUFFICES ASSUME JourneyInv, Founder!Refresh PROVE JourneyInv'
  OBVIOUS
<1>a. PlanAllows
  BY JourneyContext
<1>b. JourneyTyped /\ OnItsWay /\ Shown1 /\ ShownData /\ ShownLate /\ Unfailed /\ JourneyIsTrue
  BY DEF JourneyInv
<1>0. /\ plan' = plan /\ build' = build /\ member' = member /\ opened' = opened
      /\ bearer' = bearer /\ outcome' = outcome /\ hangs' = hangs
      /\ at = "refresh" /\ outcome = "none" /\ plan.data /\ plan.backend /\ Did("handler")
      /\ opened = bearer
      /\ (Did("stores") /\ LetIn => "survives" \in store')
  BY <1>b DEF Founder!Refresh, Founder!around, JourneyTyped, OnItsWay, PastLoad, Did,
     Founder!Does, Founder!Admitted, LetIn
<1>1. \/ at' = "live" /\ plan.live
      \/ at' = "logout" /\ ~plan.live
  BY DEF Founder!Refresh, Founder!AfterData
<1>2. steps' = [s \in DOMAIN steps \cup {"refresh"} |->
        IF s = "refresh"
        THEN (IF Did("lists") /\ LetIn /\ "survives" \in store' THEN "PASS" ELSE "FAIL")
        ELSE steps[s]]
  BY <1>0 DEF Founder!Refresh, Founder!Record, Founder!Result, Founder!Planned, Founder!Does,
     Founder!Admitted, Founder!Sees, Founder!Lists, Did, LetIn
<1>3. JourneyTyped'
  BY <1>0, <1>1, <1>b DEF JourneyTyped, Founder!Stage
<1>4. OnItsWay'
  BY <1>0, <1>1 DEF OnItsWay, Did
<1>5. Shown1'
  BY <1>0, <1>2, <1>b DEF Shown1, PastLoad, PastAuth, Passed, Did
<1>6. ShownData'
  BY <1>0, <1>1, <1>2, <1>b DEF ShownData, PastData, DataSteps, Passed
<1>7. ShownLate'
  BY <1>0, <1>1 DEF ShownLate
<1>8. Unfailed'
  BY <1>0, <1>1, <1>2, <1>b DEF Unfailed, PastAuth, Did, LetIn, Founder!Whole, Founder!Asked,
     Founder!Does
<1>9. JourneyIsTrue'
  BY <1>0 DEF JourneyIsTrue, Founder!JourneyIsTrue
<1>10. QED
  BY <1>3, <1>4, <1>5, <1>6, <1>7, <1>8, <1>9 DEF JourneyInv

\* The form of a product without a server.
LEMMA LocalKeeps == JourneyInv /\ Founder!Local => JourneyInv'
<1> SUFFICES ASSUME JourneyInv, Founder!Local PROVE JourneyInv'
  OBVIOUS
<1>a. PlanAllows
  BY JourneyContext
<1>b. JourneyTyped /\ OnItsWay /\ Shown1 /\ ShownData /\ ShownLate /\ Unfailed /\ JourneyIsTrue
  BY DEF JourneyInv
<1>0. /\ plan' = plan /\ build' = build /\ member' = member /\ opened' = opened
      /\ bearer' = bearer /\ outcome' = outcome /\ hangs' = hangs
      /\ at = "local" /\ outcome = "none" /\ plan.data /\ ~plan.backend /\ store = {}
      /\ opened = bearer /\ ~plan.live
      /\ (store' # {} <=> Did("keeps") /\ Did("loads"))
  BY <1>b, <1>a DEF PlanAllows, Founder!Local, Founder!around, JourneyTyped, OnItsWay, PastLoad,
     Did, Founder!Does
<1>1. at' = "errors"
  BY <1>0 DEF Founder!Local
<1>2. steps' = [s \in DOMAIN steps \cup {"create", "validation-data", "read", "update", "delete",
                                        "recreate", "refresh"} |->
        IF s \in {"validation-data", "recreate"} THEN "PASS"
        ELSE IF s \in {"create", "read", "update", "delete", "refresh"}
             THEN (IF store' # {} THEN "PASS" ELSE "FAIL")
             ELSE steps[s]]
  BY <1>0 DEF Founder!Local, Founder!Record, Founder!Result, Founder!Planned
<1>3. JourneyTyped'
  BY <1>0, <1>1, <1>b DEF JourneyTyped, Founder!Stage
<1>4. OnItsWay'
  BY <1>0, <1>1 DEF OnItsWay
<1>5. Shown1'
  BY <1>0, <1>2, <1>b, <1>a DEF PlanAllows, Shown1, PastLoad, Passed, Did
<1>6. ShownData'
  BY <1>0, <1>1, <1>2 DEF ShownData, Passed, Did
<1>7. ShownLate'
  BY <1>0, <1>a DEF PlanAllows, ShownLate
<1>8. Unfailed'
  BY <1>0, <1>1, <1>2, <1>b DEF Unfailed, Did, Founder!Whole, Founder!Asked
<1>9. JourneyIsTrue'
  BY <1>0 DEF JourneyIsTrue, Founder!JourneyIsTrue
<1>10. QED
  BY <1>3, <1>4, <1>5, <1>6, <1>7, <1>8, <1>9 DEF JourneyInv

\* The clients of the live channel.
LEMMA LiveKeeps == JourneyInv /\ Founder!Live => JourneyInv'
<1> SUFFICES ASSUME JourneyInv, Founder!Live PROVE JourneyInv'
  OBVIOUS
<1>a. PlanAllows
  BY JourneyContext
<1>b. JourneyTyped /\ OnItsWay /\ Shown1 /\ ShownData /\ ShownLate /\ Unfailed /\ JourneyIsTrue
  BY DEF JourneyInv
<1>0. /\ plan' = plan /\ build' = build /\ member' = member /\ opened' = opened
      /\ bearer' = bearer /\ outcome' = outcome /\ hangs' = hangs
      /\ at = "live" /\ outcome = "none" /\ plan.live /\ plan.backend /\ Did("handler")
      /\ opened = bearer
  BY <1>b DEF Founder!Live, Founder!around, JourneyTyped, OnItsWay, PastLoad
<1>1. at' = "logout"
  BY DEF Founder!Live
<1>2. steps' = [s \in DOMAIN steps \cup {"realtime"} |->
        IF s = "realtime"
        THEN (IF LetIn /\ (\/ build.hub.reach = "all"
                           \/ build.hub.reach = "first" /\ build.hub.rests) THEN "PASS" ELSE "FAIL")
        ELSE steps[s]]
  BY <1>0 DEF Founder!Live, Founder!Record, Founder!Result, Founder!Planned, Founder!Does,
     Founder!Admitted, Did, LetIn, Founder!Receives, Founder!Watched
<1>3. JourneyTyped'
  BY <1>0, <1>1, <1>b DEF JourneyTyped, Founder!Stage
<1>4. OnItsWay'
  BY <1>0, <1>1 DEF OnItsWay, Did
<1>5. Shown1'
  BY <1>0, <1>2, <1>b DEF Shown1, PastLoad, PastAuth, Passed, Did
<1>6. ShownData'
  BY <1>0, <1>1, <1>2, <1>b DEF ShownData, PastData, DataSteps, Passed
<1>7. ShownLate'
  BY <1>0, <1>1, <1>2 DEF ShownLate, Passed
<1>8. Unfailed'
  BY <1>0, <1>1, <1>2, <1>b DEF Unfailed, PastAuth, Did, LetIn, Founder!Whole, Founder!Asked,
     Founder!Does
<1>9. JourneyIsTrue'
  BY <1>0 DEF JourneyIsTrue, Founder!JourneyIsTrue
<1>10. QED
  BY <1>3, <1>4, <1>5, <1>6, <1>7, <1>8, <1>9 DEF JourneyInv

\* The session is ended.
LEMMA LogoutKeeps == JourneyInv /\ Founder!Logout => JourneyInv'
<1> SUFFICES ASSUME JourneyInv, Founder!Logout PROVE JourneyInv'
  OBVIOUS
<1>a. PlanAllows
  BY JourneyContext
<1>b. JourneyTyped /\ OnItsWay /\ Shown1 /\ ShownData /\ ShownLate /\ Unfailed /\ JourneyIsTrue
  BY DEF JourneyInv
<1>0. /\ plan' = plan /\ build' = build /\ store' = store /\ member' = member /\ bearer' = bearer
      /\ outcome' = outcome /\ hangs' = hangs
      /\ at = "logout" /\ outcome = "none" /\ plan.backend /\ Did("handler")
      /\ opened = bearer /\ opened \in BOOLEAN /\ opened' \in BOOLEAN
      /\ (plan.auth /\ bearer => opened' = ~Did("kills"))
  BY <1>b DEF Founder!Logout, Founder!around, JourneyTyped, OnItsWay, PastLoad, Did,
     Founder!Does
<1>1. at' = "errors"
  BY DEF Founder!Logout
<1>2. /\ ~(plan.auth /\ bearer) => steps' = steps
      /\ plan.auth /\ bearer =>
           steps' = [s \in DOMAIN steps \cup {"logout"} |->
             IF s = "logout"
             THEN (IF ~(Did("lists") /\ (Did("guards") => opened')) THEN "PASS" ELSE "FAIL")
             ELSE steps[s]]
  BY <1>0 DEF Founder!Logout, Founder!Record, Founder!Result, Founder!Planned, Founder!Does, Did
<1>3. JourneyTyped'
  BY <1>0, <1>1, <1>b DEF JourneyTyped, Founder!Stage
<1>4. OnItsWay'
  BY <1>0, <1>1 DEF OnItsWay, Did
<1>5. Shown1'
  BY <1>0, <1>2, <1>b DEF Shown1, PastLoad, PastAuth, Passed, Did
<1>6. ShownData'
  BY <1>0, <1>1, <1>2, <1>b DEF ShownData, PastData, DataSteps, Passed
<1>7. ShownLate'
  BY <1>0, <1>2, <1>b DEF ShownLate, Passed, Did, Shown1, PastAuth
<1>8. Unfailed'
  BY <1>0, <1>1, <1>2, <1>b DEF Unfailed, Did, Founder!Whole, Founder!Asked, Founder!Does
<1>9. JourneyIsTrue'
  BY <1>0 DEF JourneyIsTrue, Founder!JourneyIsTrue
<1>10. QED
  BY <1>3, <1>4, <1>5, <1>6, <1>7, <1>8, <1>9 DEF JourneyInv

\* The journey is judged.
LEMMA ErrorsKeeps == JourneyInv /\ Founder!Errors => JourneyInv'
<1> SUFFICES ASSUME JourneyInv, Founder!Errors PROVE JourneyInv'
  OBVIOUS
<1>a. PlanAllows
  BY JourneyContext
<1>b. JourneyTyped /\ OnItsWay /\ Shown1 /\ ShownData /\ ShownLate /\ Unfailed /\ JourneyIsTrue
  BY DEF JourneyInv
<1>0. /\ plan' = plan /\ build' = build /\ store' = store /\ member' = member /\ opened' = opened
      /\ bearer' = bearer /\ hangs' = hangs
      /\ at = "errors" /\ outcome = "none"
  BY <1>b DEF Founder!Errors, Founder!around, Founder!world, JourneyTyped
<1>1. /\ at' = "end"
      /\ outcome' \in {"passed", "failed"}
      /\ (outcome' = "passed" <=> \A s \in DOMAIN steps' : steps'[s] = "PASS")
  BY DEF Founder!Errors
<1>2. steps' = [s \in DOMAIN steps \cup {"errors"} |->
        IF s = "errors" THEN (IF Did("handler") \/ Did("catches") THEN "PASS" ELSE "FAIL")
          ELSE steps[s]]
  BY DEF Founder!Errors, Founder!Record, Founder!Result, Founder!Planned, Founder!Does, Did
<1>3. JourneyTyped'
  BY <1>0, <1>1, <1>b DEF JourneyTyped, Founder!Stage
<1>4. OnItsWay'
  BY <1>1 DEF OnItsWay, PastLoad
<1>5. Shown1'
  BY <1>1 DEF Shown1, PastLoad, PastAuth
<1>6. ShownData'
  BY <1>1 DEF ShownData, PastData
<1>7. ShownLate'
  BY <1>1 DEF ShownLate
<1>8. Unfailed'
  BY <1>1 DEF Unfailed
<1>9. JourneyIsTrue'
  <2>1. ASSUME outcome' = "passed" PROVE Founder!Asked' \subseteq build'.does
    <3>1. \A s \in DOMAIN steps : s # "errors" => Passed(s)
      BY <1>1, <1>2, <2>1 DEF Passed
    <3>2. Did("loads") /\ (plan.backend => Did("handler")) /\ (~plan.backend => Did("catches"))
      BY <1>0, <1>1, <1>2, <1>b, <1>a, <2>1, <3>1 DEF PlanAllows, Shown1, OnItsWay, PastLoad
    <3>3. plan.auth
            => {"guards", "rejects", "registers", "logs-in", "lists", "kills"} \subseteq build.does
      BY <1>0, <1>b, <3>1 DEF Shown1, ShownLate, PastAuth, AuthSteps, Did
    <3>4. plan.data /\ plan.backend
            => {"validates", "stores", "lists", "updates", "deletes"} \subseteq build.does
      BY <1>0, <1>b, <3>1 DEF ShownData, PastData, DataSteps
    <3>5. plan.data /\ ~plan.backend => Did("keeps")
      BY <1>0, <1>b, <3>1 DEF ShownData
    <3>6. QED
      BY <1>0, <3>2, <3>3, <3>4, <3>5 DEF Founder!Asked, Did
  <2>2. ASSUME outcome' = "passed", plan.live
      PROVE  build.hub.reach # "none" /\ (build.hub.rests \/ build.hub.reach = "all")
    BY <1>0, <1>1, <1>2, <1>b, <2>2 DEF ShownLate, Passed
  <2>3. ASSUME outcome' = "failed", hangs' = 0 PROVE ~Founder!Whole'
    <3>1. SUFFICES ASSUME Founder!Whole PROVE FALSE
      BY <1>0 DEF Founder!Whole, Founder!Asked, Founder!Does
    <3>2. \A s \in DOMAIN steps : steps[s] = "PASS"
      BY <1>0, <1>b, <2>3, <3>1 DEF Unfailed
    <3>3. Did("handler") \/ Did("catches")
      BY <3>1 DEF Founder!Whole, Founder!Asked, Did
    <3>4. QED
      BY <1>1, <1>2, <2>3, <3>2, <3>3
  <2>4. QED
    BY <1>0, <2>1, <2>2, <2>3 DEF JourneyIsTrue, Founder!JourneyIsTrue
<1>10. QED
  BY <1>3, <1>4, <1>5, <1>6, <1>7, <1>8, <1>9 DEF JourneyInv

\* A call has no answer.
LEMMA HangKeeps == JourneyInv /\ Founder!Hang => JourneyInv'
<1> SUFFICES ASSUME JourneyInv, Founder!Hang PROVE JourneyInv'
  OBVIOUS
<1>a. PlanAllows
  BY JourneyContext
<1>b. JourneyTyped /\ OnItsWay /\ Shown1 /\ ShownData /\ ShownLate /\ Unfailed /\ JourneyIsTrue
  BY DEF JourneyInv
<1>0. /\ plan' = plan /\ build' = build /\ store' = store /\ member' = member /\ opened' = opened
      /\ bearer' = bearer
      /\ outcome = "none" /\ hangs' \in Nat /\ hangs' # 0 /\ Did("handler")
      /\ at \in {"backend", "auth", "create", "update", "delete", "refresh", "live", "logout",
                "errors"}
  BY <1>b DEF Founder!Hang, Founder!around, Founder!world, JourneyTyped, Did, Founder!Does
<1>1. \/ at = "live" /\ at' = "logout" /\ outcome' = "none" /\ opened = bearer /\ plan.live
        /\ plan.backend
      \/ at' = "end" /\ outcome' = "rejected"
  BY <1>0, <1>b DEF Founder!Hang, OnItsWay, PastLoad
<1>2. at = "live" => steps' = [s \in DOMAIN steps \cup {"realtime"} |->
                                 IF s = "realtime" THEN "FAIL" ELSE steps[s]]
  BY <1>b DEF Founder!Hang, Founder!Record, Founder!Planned, OnItsWay
<1>3. JourneyTyped'
  BY <1>0, <1>1, <1>b DEF JourneyTyped, Founder!Stage
<1>4. OnItsWay'
  BY <1>0, <1>1 DEF OnItsWay, PastLoad, Did
<1>5. Shown1'
  BY <1>0, <1>1, <1>2, <1>b DEF Shown1, PastLoad, PastAuth, Passed, Did
<1>6. ShownData'
  BY <1>0, <1>1, <1>2, <1>b DEF ShownData, PastData, Passed
<1>7. ShownLate'
  BY <1>1, <1>2 DEF ShownLate, Passed
<1>8. Unfailed'
  BY <1>0 DEF Unfailed
<1>9. JourneyIsTrue'
  BY <1>1 DEF JourneyIsTrue, Founder!JourneyIsTrue
<1>10. QED
  BY <1>3, <1>4, <1>5, <1>6, <1>7, <1>8, <1>9 DEF JourneyInv

\* The other loop.
LEMMA AcceptKeeps == JourneyInv /\ Founder!Accept => JourneyInv'
<1> SUFFICES ASSUME JourneyInv, Founder!Accept PROVE JourneyInv'
  OBVIOUS
<1>a. PlanAllows
  BY JourneyContext
<1>b. JourneyTyped /\ OnItsWay /\ Shown1 /\ ShownData /\ ShownLate /\ Unfailed /\ JourneyIsTrue
  BY DEF JourneyInv
<1>0. /\ plan' = plan /\ build' = build /\ store' = store /\ member' = member /\ opened' = opened
      /\ bearer' = bearer /\ hangs' = hangs
      /\ at = "accept"
  BY DEF Founder!Accept, Founder!around, Founder!world
<1>1. at' = "end" /\ outcome' = IF Founder!Whole THEN "passed" ELSE "failed"
  BY DEF Founder!Accept
<1>2. steps' = steps
  BY DEF Founder!Accept
<1>3. JourneyTyped'
  BY <1>0, <1>1, <1>b DEF JourneyTyped, Founder!Stage
<1>4. OnItsWay'
  BY <1>1 DEF OnItsWay, PastLoad
<1>5. Shown1'
  BY <1>1 DEF Shown1, PastLoad, PastAuth
<1>6. ShownData'
  BY <1>1 DEF ShownData, PastData
<1>7. ShownLate'
  BY <1>1 DEF ShownLate
<1>8. Unfailed'
  BY <1>1 DEF Unfailed
<1>9. JourneyIsTrue'
  BY <1>0, <1>1 DEF JourneyIsTrue, Founder!JourneyIsTrue, Founder!Whole, Founder!Asked,
     Founder!Does
<1>10. QED
  BY <1>3, <1>4, <1>5, <1>6, <1>7, <1>8, <1>9 DEF JourneyInv

\* The loop returns.
LEMMA ReturnKeeps == JourneyInv /\ Founder!Return => JourneyInv'
BY DEF Founder!Return, Founder!world, JourneyInv, JourneyTyped, OnItsWay, Shown1, ShownData,
   ShownLate, Unfailed, JourneyIsTrue, Founder!JourneyIsTrue, Passed, Did, Founder!Whole,
   Founder!Asked, Founder!Does

\* It is over.
LEMMA RestKeeps == JourneyInv /\ Founder!Rest => JourneyInv'
BY DEF Founder!Rest, Founder!vars, JourneyInv, JourneyTyped, OnItsWay, Shown1, ShownData,
   ShownLate, Unfailed, JourneyIsTrue, Founder!JourneyIsTrue, Passed, Did, Founder!Whole,
   Founder!Asked, Founder!Does

\* Another build, and the journey from its beginning.
LEMMA RepairKeeps ==
  ASSUME JourneyInv, NEW b \in Founder!Candidates(plan), Founder!Repair(b)
  PROVE  JourneyInv'
<1>1. /\ plan' = plan /\ build' \in Founder!Candidates(plan) /\ hangs' = hangs /\ outcome' = "none"
      /\ at' \in {"load", "accept"} /\ DOMAIN steps' = {} /\ store' = {}
      /\ opened' = FALSE /\ bearer' = FALSE /\ member' = FALSE
  BY DEF Founder!Repair, Founder!Start, Founder!Fresh
<1>2. JourneyTyped' /\ OnItsWay'
  BY <1>1 DEF JourneyInv, JourneyTyped, OnItsWay, Founder!Stage, PastLoad
<1>3. Shown1' /\ ShownData' /\ ShownLate'
  BY <1>1 DEF Shown1, ShownData, ShownLate, PastLoad, PastAuth, PastData
<1>4. Unfailed' /\ JourneyIsTrue'
  BY <1>1 DEF Unfailed, PastAuth, JourneyIsTrue, Founder!JourneyIsTrue
<1>5. QED
  BY <1>2, <1>3, <1>4 DEF JourneyInv

\* Every step of a journey.
LEMMA JourneyKept == JourneyInv /\ [Founder!Next]_(Founder!vars) => JourneyInv'
<1> SUFFICES ASSUME JourneyInv, [Founder!Next]_(Founder!vars) PROVE JourneyInv'
  OBVIOUS
<1>1. ASSUME NEW b \in Founder!Candidates(plan), Founder!Repair(b) PROVE JourneyInv'
  BY <1>1, RepairKeeps
<1>2. CASE UNCHANGED Founder!vars
  BY <1>2 DEF Founder!vars, JourneyInv, JourneyTyped, OnItsWay, Shown1, ShownData, ShownLate,
     Unfailed, JourneyIsTrue, Founder!JourneyIsTrue, Passed, Did, LetIn, Founder!Whole,
     Founder!Asked, Founder!Does
<1>3. QED
  BY <1>1, <1>2, LoadKeeps, BackendKeeps, AuthKeeps, CreateKeeps, UpdateKeeps, DeleteKeeps,
     RefreshKeeps, LocalKeeps, LiveKeeps, LogoutKeeps, ErrorsKeeps, HangKeeps, ReturnKeeps,
     AcceptKeeps, RestKeeps DEF Founder!Next

\* Whatever was planned and built: a journey that passed did all the plan asks of it, and one
\* that failed was not of a whole build, unless a call hung (runUserJourney, userJourneyMarkers).
THEOREM JourneyCorrect == Founder!Spec => []JourneyIsTrue
<1>1. JourneyInv => JourneyIsTrue
  BY DEF JourneyInv
<1>2. QED
  BY <1>1, JourneyAtFirst, JourneyKept, PTL DEF Founder!Spec

-----------------------------------------------------------------------------
\* DeploymentHarness: the live channel.

LEMMA HarnessLists ==
  ASSUME NEW s, NEW S
  PROVE  /\ Harness!OnlyIn(s, S) = OnlyIn(s, S) /\ Harness!ToSet(s) = ToSet(s)
         /\ Harness!IsInjective(s) <=> IsInjective(s)
         /\ Harness!Reverse(s) = Reverse(s)
BY DEF Harness!OnlyIn, OnlyIn, Harness!ToSet, ToSet, Harness!IsInjective, IsInjective,
   Harness!Reverse, Reverse

LEMMA HarnessSets ==
  ASSUME NEW S
  PROVE  Harness!Cardinality(S) = Cardinality(S) /\ (Harness!IsFiniteSet(S) <=> IsFiniteSet(S))
BY DEF Harness!Cardinality, Cardinality, Harness!IsFiniteSet, IsFiniteSet

\* Two lists without a message twice, in one or in both.
Apart(s, t) == IsInjective(s) /\ IsInjective(t) /\ ToSet(s) \cap ToSet(t) = {}

LEMMA ApartIsInjective ==
  ASSUME NEW T, NEW s \in Seq(T), NEW t \in Seq(T), Apart(s, t)
  PROVE  IsInjective(s \o t)
<1> DEFINE u == s \o t
<1>1. /\ u \in Seq(T) /\ Len(u) = Len(s) + Len(t) /\ Len(s) \in Nat /\ Len(t) \in Nat
      /\ \A i \in 1..Len(s) : u[i] = s[i]
      /\ \A i \in 1..Len(t) : u[Len(s) + i] = t[i]
  OBVIOUS
<1>2. DOMAIN s = 1..Len(s) /\ DOMAIN t = 1..Len(t) /\ DOMAIN u = 1..Len(u)
  OBVIOUS
<1> HIDE DEF u
<1>3. ASSUME NEW i \in 1..Len(u)
      PROVE  \/ i \in 1..Len(s) /\ u[i] = s[i] /\ s[i] \in ToSet(s)
             \/ i - Len(s) \in 1..Len(t) /\ u[i] = t[i - Len(s)] /\ t[i - Len(s)] \in ToSet(t)
  <2>1. CASE i \in 1..Len(s)
    BY <1>1, <1>2, <2>1 DEF ToSet
  <2>2. CASE i \notin 1..Len(s)
    <3>1. i - Len(s) \in 1..Len(t) /\ Len(s) + (i - Len(s)) = i
      BY <1>1, <2>2
    <3>2. QED
      BY <1>1, <1>2, <3>1 DEF ToSet
  <2>3. QED
    BY <2>1, <2>2
<1>4. ASSUME NEW i \in 1..Len(u), NEW j \in 1..Len(u), u[i] = u[j] PROVE i = j
  <2>1. CASE i \in 1..Len(s) /\ u[i] = s[i] /\ s[i] \in ToSet(s)
    <3>1. CASE j \in 1..Len(s) /\ u[j] = s[j] /\ s[j] \in ToSet(s)
      BY <1>2, <1>4, <2>1, <3>1 DEF Apart, IsInjective
    <3>2. CASE j - Len(s) \in 1..Len(t) /\ u[j] = t[j - Len(s)] /\ t[j - Len(s)] \in ToSet(t)
      BY <1>4, <2>1, <3>2 DEF Apart
    <3>3. QED
      BY <1>3, <3>1, <3>2
  <2>2. CASE i - Len(s) \in 1..Len(t) /\ u[i] = t[i - Len(s)] /\ t[i - Len(s)] \in ToSet(t)
    <3>1. CASE j \in 1..Len(s) /\ u[j] = s[j] /\ s[j] \in ToSet(s)
      BY <1>4, <2>2, <3>1 DEF Apart
    <3>2. CASE j - Len(s) \in 1..Len(t) /\ u[j] = t[j - Len(s)] /\ t[j - Len(s)] \in ToSet(t)
      <4>1. i - Len(s) = j - Len(s)
        BY <1>2, <1>4, <2>2, <3>2 DEF Apart, IsInjective
      <4>2. QED
        BY <1>1, <4>1
    <3>3. QED
      BY <1>3, <3>1, <3>2
  <2>3. QED
    BY <1>3, <2>1, <2>2
<1>5. QED
  BY <1>2, <1>4 DEF IsInjective, u

LEMMA AppendIs ==
  ASSUME NEW T, NEW s \in Seq(T), NEW m \in T
  PROVE  /\ Append(s, m) \in Seq(T) /\ ToSet(Append(s, m)) = ToSet(s) \cup {m}
         /\ IsInjective(s) /\ m \notin ToSet(s) => IsInjective(Append(s, m))
<1> DEFINE t == Append(s, m)
           n == Len(s)
<1>1. n \in Nat /\ t \in Seq(T) /\ Len(t) = n + 1 /\ t[n + 1] = m /\ \A i \in 1..n : t[i] = s[i]
  OBVIOUS
<1>2. DOMAIN s = 1..n /\ DOMAIN t = 1..(n + 1)
  BY <1>1
<1> HIDE DEF t, n
<1>3. 1..(n + 1) = (1..n) \cup {n + 1}
  BY <1>1
<1>4. ToSet(t) = ToSet(s) \cup {m}
  BY <1>1, <1>2, <1>3 DEF ToSet
<1>5. ASSUME IsInjective(s), m \notin ToSet(s) PROVE IsInjective(t)
  <2>1. \A i \in 1..n : s[i] # m
    BY <1>2, <1>5 DEF ToSet
  <2>2. ASSUME NEW i \in (1..n) \cup {n + 1}, NEW j \in (1..n) \cup {n + 1}, t[i] = t[j]
        PROVE  i = j
    BY <1>1, <1>2, <1>5, <2>1, <2>2 DEF IsInjective
  <2>3. QED
    BY <1>2, <1>3, <2>2 DEF IsInjective
<1>6. QED
  BY <1>1, <1>4, <1>5 DEF t

\* A client's connection.
Attached == [state : {"none", "open", "gone"}, half : Nat, early : Seq(Nat), got : Seq(Nat),
             owed : SUBSET Nat, left : BOOLEAN]
Connected == {s \in Socket : conn[s].state # "none"}
HarnessTyped ==
  /\ product \in Product /\ writes.done \in Nat /\ writes.deletes \in Nat
  /\ writes = [done |-> writes.done, deletes |-> writes.deletes]
  /\ sent \in [Harness!Half -> Seq(Nat)]
  /\ conn \in [Socket -> Attached]
\* A half of the hub is of a client that has connected.
HalvesAreClients ==
  pairs \in Nat /\ hub \subseteq 1..pairs /\ pairs <= Cardinality(Connected)
\* What a half was sent, and what a client has and will be given, is told once; it is a write
\* that was made, or the confirmation.
ToldOnce ==
  /\ \A h \in Harness!Half : IsInjective(sent[h]) /\ ToSet(sent[h]) \subseteq 0..writes.done
  /\ \A t \in Socket :
       /\ Apart(conn[t].got, conn[t].early)
       /\ ToSet(conn[t].got) \cup ToSet(conn[t].early) \subseteq 0..writes.done
\* A half in the hub was confirmed.  A client nobody left is attached to one, and what it is
\* owed it has.
AllTold ==
  /\ \A h \in hub : 0 \in ToSet(sent[h])
  /\ \A t \in Socket :
       product.hub = "all" /\ conn[t].state = "open" /\ ~conn[t].left =>
         /\ conn[t].half \in hub /\ conn[t].owed \subseteq ToSet(conn[t].got)
         /\ 0 \in ToSet(conn[t].got) \cup ToSet(conn[t].early)
ChannelInv == HarnessTyped /\ HalvesAreClients /\ ToldOnce /\ AllTold

LEMMA EmptyList == ToSet(<<>>) = {} /\ IsInjective(<<>>)
  BY DEF ToSet, IsInjective

LEMMA HalvesAre == Harness!Half = 1..Cardinality(Socket) /\ Cardinality(Socket) \in Nat
                     /\ IsFiniteSet(Socket)
  BY RunnerAssumption, HarnessSets, FS_CardinalityType DEF Harness!Half,
     Harness!DeploymentHarnessBounds

\* There is a half for one more client.
LEMMA OneMoreClient ==
  ASSUME HalvesAreClients, NEW t \in Socket, conn[t].state = "none"
  PROVE  /\ IsFiniteSet(Connected) /\ pairs + 1 <= Cardinality(Connected \cup {t})
         /\ pairs + 1 \in Harness!Half /\ hub \subseteq Harness!Half
<1>1. Connected \subseteq Socket /\ t \notin Connected
  BY DEF Connected
<1>2. IsFiniteSet(Connected) /\ Cardinality(Connected) \in Nat
  BY <1>1, HalvesAre, FS_Subset, FS_CardinalityType
<1>3. Cardinality(Connected \cup {t}) = Cardinality(Connected) + 1
  BY <1>1, <1>2, FS_AddElement
<1>4. Cardinality(Connected \cup {t}) <= Cardinality(Socket)
  BY <1>1, HalvesAre, FS_Subset
<1>5. pairs + 1 <= Cardinality(Connected \cup {t}) /\ pairs + 1 <= Cardinality(Socket)
  BY <1>2, <1>3, <1>4, HalvesAre DEF HalvesAreClients
<1>6. QED
  BY <1>2, <1>5, HalvesAre DEF HalvesAreClients

\* The first of some halves is one of them.
LEMMA FirstIs ==
  ASSUME NEW H, H \subseteq Nat, H # {}
  PROVE  Harness!First(H) \in H
<1>1. \E h \in H : \A g \in H : h <= g
  BY LeastNumber
<1>2. QED
  BY <1>1 DEF Harness!First

LEMMA ChannelAtFirst == Harness!Init => ChannelInv
<1> SUFFICES ASSUME Harness!Init PROVE ChannelInv
  OBVIOUS
<1>1. HarnessTyped
  <2>1. <<>> \in Seq(Nat)
    OBVIOUS
  <2>2. QED
    BY <2>1 DEF Harness!Init, HarnessTyped, Attached, Harness!NoSocket
<1>2. Connected = {}
  BY DEF Connected, Harness!Init, Harness!NoSocket
<1>3. HalvesAreClients
  BY <1>2, FS_EmptySet DEF HalvesAreClients, Harness!Init
<1>4. ToldOnce /\ AllTold
  BY EmptyList DEF ToldOnce, AllTold, Apart, Harness!Init, Harness!NoSocket
<1>5. QED
  BY <1>1, <1>3, <1>4 DEF ChannelInv

\* A write is broadcast.
LEMMA BroadcastKeeps ==
  ASSUME ChannelInv, writes' = [done |-> writes.done + 1, deletes |-> writes'.deletes],
         writes'.deletes \in Nat, Harness!Broadcast(writes.done + 1),
         product' = product, pairs' = pairs, hub' = hub
  PROVE  ChannelInv'
<1> DEFINE m == writes.done + 1
           R == Harness!Reached
<1>1. HarnessTyped /\ HalvesAreClients /\ ToldOnce /\ AllTold
  BY DEF ChannelInv
<1>2. m \in Nat /\ m # 0 /\ m \notin 0..writes.done /\ writes'.done = m
        /\ 0..writes.done \subseteq 0..m /\ m \in 0..m
  BY <1>1 DEF HarnessTyped, Attached
<1>3. /\ sent' = [h \in Harness!Half |-> IF h \in R THEN Append(sent[h], m) ELSE sent[h]]
      /\ conn' = [t \in Socket |->
           IF conn[t].state # "open" THEN conn[t]
           ELSE [conn[t] EXCEPT !.owed = @ \cup {m},
                                !.got = IF conn[t].half \in R THEN Append(@, m) ELSE @]]
      /\ product.hub = "all" => R = hub
  BY DEF Harness!Broadcast, Harness!Reached
<1> HIDE DEF m, R
<1>4. ASSUME NEW t \in Socket
      PROVE  /\ conn'[t].state = conn[t].state /\ conn'[t].half = conn[t].half
             /\ conn'[t].early = conn[t].early /\ conn'[t].left = conn[t].left
             /\ \/ conn'[t].got = conn[t].got
                \/ conn'[t].got = Append(conn[t].got, m)
             /\ conn[t].state = "open" =>
                  /\ conn'[t].owed = conn[t].owed \cup {m}
                  /\ conn[t].half \in R => conn'[t].got = Append(conn[t].got, m)
             /\ conn'[t] \in Attached
             /\ conn[t].got \in Seq(Nat) /\ conn[t].early \in Seq(Nat)
  <2> DEFINE more == Append(conn[t].got, m)
             all  == conn[t].owed \cup {m}
  <2>1. conn[t] \in Attached /\ conn[t].got \in Seq(Nat) /\ conn[t].early \in Seq(Nat)
    BY <1>1 DEF HarnessTyped, Attached
  <2>2. more \in Seq(Nat) /\ all \in SUBSET Nat
    BY <1>2, <2>1 DEF Attached
  <2>3. conn'[t] = IF conn[t].state # "open" THEN conn[t]
                   ELSE [conn[t] EXCEPT !.owed = all,
                                        !.got = IF conn[t].half \in R THEN more ELSE @]
    BY <1>3
  <2> HIDE DEF more, all
  <2>4. CASE conn[t].state # "open"
    BY <2>1, <2>3, <2>4
  <2>5. CASE conn[t].state = "open" /\ conn[t].half \in R
    <3>1. conn'[t] = [conn[t] EXCEPT !.owed = all, !.got = more]
      BY <2>3, <2>5
    <3>2. conn'[t].got = more /\ conn'[t].owed = all /\ conn'[t] \in Attached
          /\ conn'[t].state = conn[t].state /\ conn'[t].half = conn[t].half
          /\ conn'[t].early = conn[t].early /\ conn'[t].left = conn[t].left
      BY <2>1, <2>2, <3>1 DEF Attached
    <3>3. QED
      BY <2>1, <2>5, <3>2 DEF more, all
  <2>6. CASE conn[t].state = "open" /\ conn[t].half \notin R
    <3>1. conn'[t] = [conn[t] EXCEPT !.owed = all]
      BY <2>1, <2>3, <2>6 DEF Attached
    <3>2. conn'[t].got = conn[t].got /\ conn'[t].owed = all /\ conn'[t] \in Attached
          /\ conn'[t].state = conn[t].state /\ conn'[t].half = conn[t].half
          /\ conn'[t].early = conn[t].early /\ conn'[t].left = conn[t].left
      BY <2>1, <2>2, <3>1 DEF Attached
    <3>3. QED
      BY <2>1, <2>6, <3>2 DEF all
  <2>7. QED
    BY <2>4, <2>5, <2>6
<1>5. HarnessTyped'
  <2>1. conn' \in [Socket -> Attached]
    BY <1>3, <1>4
  <2>2. sent' \in [Harness!Half -> Seq(Nat)]
    <3>1. ASSUME NEW h \in Harness!Half
            PROVE sent[h] \in Seq(Nat) /\ Append(sent[h], m) \in Seq(Nat)
      <4>1. sent[h] \in Seq(Nat)
        BY <1>1 DEF HarnessTyped
      <4>2. QED
        BY <1>2, <4>1
    <3>2. QED
      BY <1>3, <3>1
  <2>3. QED
    BY <1>1, <1>2, <2>1, <2>2 DEF HarnessTyped, Attached, m
<1>6. HalvesAreClients'
  <2>1. Connected' = Connected
    BY <1>4 DEF Connected
  <2>2. QED
    BY <1>1, <2>1 DEF HalvesAreClients
<1>7. ToldOnce'
  <2>1. ASSUME NEW h \in Harness!Half
        PROVE  IsInjective(sent'[h]) /\ ToSet(sent'[h]) \subseteq 0..m
    <3>1. sent[h] \in Seq(Nat) /\ IsInjective(sent[h]) /\ ToSet(sent[h]) \subseteq 0..writes.done
      BY <1>1 DEF ToldOnce, HarnessTyped, Attached
    <3>2. sent'[h] = sent[h] \/ sent'[h] = Append(sent[h], m)
      BY <1>3
    <3>3. /\ ToSet(Append(sent[h], m)) = ToSet(sent[h]) \cup {m}
          /\ IsInjective(Append(sent[h], m))
      <4>1. m \notin ToSet(sent[h])
        BY <1>2, <3>1
      <4>2. QED
        BY <1>2, <3>1, <4>1, AppendIs
    <3>4. QED
      BY <1>2, <3>1, <3>2, <3>3
  <2>2. ASSUME NEW t \in Socket
        PROVE  /\ Apart(conn'[t].got, conn'[t].early)
               /\ ToSet(conn'[t].got) \cup ToSet(conn'[t].early) \subseteq 0..m
    <3>1. Apart(conn[t].got, conn[t].early)
            /\ ToSet(conn[t].got) \cup ToSet(conn[t].early) \subseteq 0..writes.done
      BY <1>1 DEF ToldOnce
    <3>2. IsInjective(Append(conn[t].got, m))
            /\ ToSet(Append(conn[t].got, m)) = ToSet(conn[t].got) \cup {m}
      BY <1>2, <1>4, <3>1, AppendIs DEF Apart
    <3>3. QED
      BY <1>2, <1>4, <3>1, <3>2 DEF Apart
  <2>3. QED
    BY <1>2, <2>1, <2>2 DEF ToldOnce
<1>8. AllTold'
  <2>1. ASSUME NEW h \in hub PROVE 0 \in ToSet(sent'[h])
    <3>1. h \in Harness!Half
      <4>1. Connected \subseteq Socket
        BY DEF Connected
      <4>2. Cardinality(Connected) <= Cardinality(Socket) /\ Cardinality(Connected) \in Nat
        BY <4>1, HalvesAre, FS_Subset, FS_CardinalityType
      <4>3. QED
        BY <1>1, <4>2, HalvesAre DEF HalvesAreClients
    <3>2. sent[h] \in Seq(Nat) /\ 0 \in ToSet(sent[h])
            /\ (sent'[h] = sent[h] \/ sent'[h] = Append(sent[h], m))
      BY <1>1, <1>3, <3>1 DEF AllTold, HarnessTyped, Attached
    <3>3. ToSet(Append(sent[h], m)) = ToSet(sent[h]) \cup {m}
      BY <1>2, <3>2, AppendIs
    <3>4. QED
      BY <3>2, <3>3
  <2>2. ASSUME NEW t \in Socket, product.hub = "all", conn[t].state = "open", ~conn[t].left
        PROVE  /\ conn[t].half \in hub /\ conn'[t].owed \subseteq ToSet(conn'[t].got)
               /\ 0 \in ToSet(conn'[t].got) \cup ToSet(conn'[t].early)
    <3>1. /\ conn[t].half \in hub /\ conn[t].owed \subseteq ToSet(conn[t].got)
          /\ 0 \in ToSet(conn[t].got) \cup ToSet(conn[t].early)
      BY <1>1, <2>2 DEF AllTold
    <3>2. /\ conn'[t].got = Append(conn[t].got, m) /\ conn'[t].owed = conn[t].owed \cup {m}
          /\ conn'[t].early = conn[t].early
      BY <1>3, <1>4, <2>2, <3>1
    <3>3. ToSet(Append(conn[t].got, m)) = ToSet(conn[t].got) \cup {m}
      <4>1. conn[t].got \in Seq(Nat)
        BY <1>4
      <4>2. QED
        BY <1>2, <4>1, AppendIs
    <3>4. QED
      BY <3>1, <3>2, <3>3
  <2>3. QED
    BY <1>4, <2>1, <2>2 DEF AllTold
<1>9. QED
  BY <1>5, <1>6, <1>7, <1>8 DEF ChannelInv

\* Where the stores alone change.
LEMMA ChannelStays ==
  ASSUME ChannelInv, product' = product, writes' = writes, pairs' = pairs, hub' = hub, sent' = sent,
         conn' = conn
  PROVE  ChannelInv'
BY DEF ChannelInv, HarnessTyped, Attached, HalvesAreClients, Connected, ToldOnce, AllTold

\* A write without a hub to tell.
LEMMA SilentKeeps ==
  ASSUME ChannelInv, writes' = [done |-> writes.done + 1, deletes |-> writes'.deletes],
         writes'.deletes \in Nat, product' = product, pairs' = pairs, hub' = hub, sent' = sent,
         conn' = conn
  PROVE  ChannelInv'
<1>1. HarnessTyped /\ HalvesAreClients /\ ToldOnce /\ AllTold
  BY DEF ChannelInv
<1>2. writes'.done = writes.done + 1 /\ writes'.done \in Nat
        /\ 0..writes.done \subseteq 0..writes'.done
  BY <1>1 DEF HarnessTyped, Attached
<1>3. HarnessTyped' /\ HalvesAreClients' /\ AllTold'
  BY <1>1, <1>2 DEF HarnessTyped, Attached, HalvesAreClients, Connected, AllTold
<1>4. ToldOnce'
  BY <1>1, <1>2 DEF ToldOnce
<1>5. QED
  BY <1>3, <1>4 DEF ChannelInv

LEMMA HttpKeeps ==
  ASSUME ChannelInv, NEW op, NEW id, Harness!Http(op, id)
  PROVE  ChannelInv'
<1>1. product' = product /\ pairs' = pairs /\ hub' = hub
  BY DEF Harness!Http
<1>2. HarnessTyped
  BY DEF ChannelInv
<1>3. CASE writes' = writes /\ sent' = sent /\ conn' = conn
  BY <1>1, <1>3, ChannelStays
<1>4. CASE /\ writes' = [done |-> writes.done + 1,
                         deletes |-> writes.deletes + (IF op = "delete" THEN 1 ELSE 0)]
           /\ \/ sent' = sent /\ conn' = conn
              \/ Harness!Broadcast(writes.done + 1)
  <2>1. writes'.deletes \in Nat /\ writes' = [done |-> writes.done + 1, deletes |-> writes'.deletes]
    BY <1>2, <1>4 DEF HarnessTyped, Attached
  <2>2. QED
    BY <1>1, <1>4, <2>1, SilentKeeps, BroadcastKeeps
<1>5. QED
  BY <1>3, <1>4 DEF Harness!Http

\* A client joins.
LEMMA UpgradeKeeps ==
  ASSUME ChannelInv, NEW t \in Socket, Harness!Upgrade(t)
  PROVE  ChannelInv'
<1>1. HarnessTyped /\ HalvesAreClients /\ ToldOnce /\ AllTold
  BY DEF ChannelInv
<1>2. product' = product /\ writes' = writes /\ conn[t].state = "none"
  BY DEF Harness!Upgrade
<1>3. CASE product.hub = "none" /\ conn' = [conn EXCEPT ![t].state = "gone"] /\ pairs' = pairs
             /\ hub' = hub /\ sent' = sent
  <2>1. /\ \A u \in Socket : /\ conn'[u].got = conn[u].got /\ conn'[u].early = conn[u].early
                             /\ conn'[u].owed = conn[u].owed /\ conn'[u].half = conn[u].half
                             /\ conn'[u].left = conn[u].left
                             /\ u # t => conn'[u].state = conn[u].state
        /\ conn'[t].state = "gone"
    BY <1>1, <1>3 DEF HarnessTyped, Attached
  <2>2. HarnessTyped'
    BY <1>1, <1>2, <1>3 DEF HarnessTyped, Attached
  <2>3. HalvesAreClients'
    <3>1. Connected' = Connected \cup {t}
      BY <2>1 DEF Connected
    <3>2. IsFiniteSet(Connected) /\ pairs + 1 <= Cardinality(Connected \cup {t})
      BY <1>1, <1>2, OneMoreClient
    <3>3. Cardinality(Connected \cup {t}) \in Nat
      BY <3>2, FS_AddElement, FS_CardinalityType
    <3>4. QED
      BY <1>1, <1>3, <3>1, <3>2, <3>3 DEF HalvesAreClients
  <2>4. ToldOnce' /\ AllTold'
    BY <1>1, <1>2, <1>3, <2>1 DEF ToldOnce, AllTold
  <2>5. QED
    BY <2>2, <2>3, <2>4 DEF ChannelInv
<1>4. CASE product.hub # "none"
  <2> DEFINE new == pairs + 1
             half == Harness!First(hub \cup {new})
             told == [sent EXCEPT ![new] = <<0>>]
  <2>1. /\ pairs' = new /\ hub' = hub \cup {new} /\ sent' = told
        /\ conn' = [conn EXCEPT ![t] = [Harness!NoSocket EXCEPT !.state = "open", !.half = half,
                                                                !.early = told[half]]]
    BY <1>4 DEF Harness!Upgrade, Harness!Outbound, Harness!Early
  <2>2. new \in Harness!Half /\ hub \subseteq Harness!Half /\ new \in Nat /\ hub \subseteq Nat
    <3>1. new \in Harness!Half /\ hub \subseteq Harness!Half
      BY <1>1, <1>2, OneMoreClient
    <3>2. Harness!Half \subseteq Nat
      BY HalvesAre
    <3>3. QED
      BY <3>1, <3>2
  <2>3. half \in hub \cup {new}
    BY <2>2, FirstIs
  <2>4. half \in Harness!Half /\ half \in Nat
    BY <2>2, <2>3
  <2>5. told \in [Harness!Half -> Seq(Nat)] /\ told[new] = <<0>>
          /\ \A h \in Harness!Half : h # new => told[h] = sent[h]
    BY <1>1, <2>2 DEF HarnessTyped, Attached
  <2>6. ToSet(<<0>>) = {0} /\ IsInjective(<<0>>) /\ <<0>> \in Seq(Nat)
    BY DEF ToSet, IsInjective
  <2>7. ASSUME NEW h \in Harness!Half
        PROVE  IsInjective(told[h]) /\ ToSet(told[h]) \subseteq 0..writes.done
    <3>1. 0 \in 0..writes.done
      BY <1>1 DEF HarnessTyped, Attached
    <3>2. QED
      BY <1>1, <2>5, <2>6, <3>1 DEF ToldOnce
  <2>8. ASSUME NEW h \in hub \cup {new} PROVE 0 \in ToSet(told[h])
    BY <1>1, <2>2, <2>5, <2>6 DEF AllTold
  <2> HIDE DEF half, told, new
  <2>9. /\ conn'[t].state = "open" /\ conn'[t].half = half /\ conn'[t].early = told[half]
        /\ conn'[t].got = <<>> /\ conn'[t].owed = {} /\ ~conn'[t].left
        /\ \A u \in Socket : u # t => conn'[u] = conn[u]
    BY <1>1, <2>1 DEF HarnessTyped, Attached, Harness!NoSocket
  <2>10. HarnessTyped'
    <3>1. told[half] \in Seq(Nat) /\ <<>> \in Seq(Nat)
      BY <2>4, <2>5
    <3>2. conn' \in [Socket -> Attached]
      BY <1>1, <2>1, <2>4, <3>1 DEF HarnessTyped, Attached, Harness!NoSocket
    <3>3. QED
      BY <1>1, <1>2, <2>1, <2>5, <3>2 DEF HarnessTyped, Attached
  <2>11. HalvesAreClients'
    <3>1. Connected' = Connected \cup {t}
      BY <2>9 DEF Connected
    <3>2. IsFiniteSet(Connected) /\ pairs + 1 <= Cardinality(Connected \cup {t})
      BY <1>1, <1>2, OneMoreClient
    <3>3. hub \cup {new} \subseteq 1..new
      BY <1>1 DEF HalvesAreClients, new
    <3>4. QED
      BY <2>1, <2>2, <3>1, <3>2, <3>3 DEF new, HalvesAreClients
  <2>12. ToldOnce'
    <3>1. Apart(<<>>, told[half]) /\ ToSet(<<>>) \cup ToSet(told[half]) \subseteq 0..writes.done
      BY <2>4, <2>7, EmptyList DEF Apart
    <3>2. QED
      BY <1>1, <1>2, <2>1, <2>7, <2>9, <3>1 DEF ToldOnce
  <2>13. AllTold'
    BY <1>1, <1>2, <2>1, <2>3, <2>8, <2>9 DEF AllTold
  <2>14. QED
    BY <2>10, <2>11, <2>12, <2>13 DEF ChannelInv
<1>5. QED
  BY <1>3, <1>4 DEF Harness!Upgrade

\* The next tick.
LEMMA FlushKeeps ==
  ASSUME ChannelInv, NEW t \in Socket, Harness!Flush(t)
  PROVE  ChannelInv'
<1>1. HarnessTyped /\ HalvesAreClients /\ ToldOnce /\ AllTold
  BY DEF ChannelInv
<1>2. /\ product' = product /\ writes' = writes /\ pairs' = pairs /\ hub' = hub /\ sent' = sent
      /\ conn' = [conn EXCEPT ![t].early = <<>>,
                              ![t].got = IF conn[t].state = "open" THEN @ \o conn[t].early ELSE @]
  BY DEF Harness!Flush
<1> DEFINE got == conn[t].got
           early == conn[t].early
<1>3. got \in Seq(Nat) /\ early \in Seq(Nat) /\ Apart(got, early)
      /\ ToSet(got) \cup ToSet(early) \subseteq 0..writes.done
  BY <1>1 DEF HarnessTyped, Attached, ToldOnce
<1> HIDE DEF got, early
<1>4. got \o early \in Seq(Nat) /\ ToSet(got \o early) = ToSet(got) \cup ToSet(early)
        /\ IsInjective(got \o early)
  BY <1>3, ConcatHas, ApartIsInjective
<1>5. /\ conn'[t].early = <<>>
      /\ conn'[t].got = IF conn[t].state = "open" THEN got \o early ELSE got
      /\ conn'[t].state = conn[t].state /\ conn'[t].half = conn[t].half
      /\ conn'[t].owed = conn[t].owed /\ conn'[t].left = conn[t].left
      /\ \A u \in Socket : u # t => conn'[u] = conn[u]
  BY <1>1, <1>2 DEF HarnessTyped, Attached, got, early
<1>6. HarnessTyped'
  <2>1. conn' \in [Socket -> Attached]
    <3>1. <<>> \in Seq(Nat) /\ (IF conn[t].state = "open" THEN got \o early ELSE got) \in Seq(Nat)
      BY <1>3, <1>4
    <3>2. QED
      BY <1>1, <1>2, <3>1 DEF HarnessTyped, Attached, got, early
  <2>2. QED
    BY <1>1, <1>2, <2>1 DEF HarnessTyped, Attached
<1>7. HalvesAreClients'
  <2>1. Connected' = Connected
    BY <1>5 DEF Connected
  <2>2. QED
    BY <1>1, <1>2, <2>1 DEF HalvesAreClients
<1>8. ToldOnce'
  <2>1. Apart(conn'[t].got, conn'[t].early)
          /\ ToSet(conn'[t].got) \cup ToSet(conn'[t].early) \subseteq 0..writes.done
    BY <1>3, <1>4, <1>5, EmptyList DEF Apart
  <2>2. QED
    BY <1>1, <1>2, <1>5, <2>1 DEF ToldOnce
<1>9. AllTold'
  <2>1. ASSUME NEW u \in Socket, product.hub = "all", conn[u].state = "open", ~conn[u].left
        PROVE  /\ conn[u].half \in hub /\ conn'[u].owed \subseteq ToSet(conn'[u].got)
               /\ 0 \in ToSet(conn'[u].got) \cup ToSet(conn'[u].early)
    BY <1>1, <1>4, <1>5, <2>1 DEF AllTold, got, early
  <2>2. ASSUME NEW u \in Socket
        PROVE  conn'[u].state = conn[u].state /\ conn'[u].half = conn[u].half
                 /\ conn'[u].left = conn[u].left
    BY <1>5
  <2>3. \A h \in hub : 0 \in ToSet(sent[h])
    BY <1>1 DEF AllTold
  <2>4. \A h \in hub' : 0 \in ToSet(sent'[h])
    BY <1>2, <2>3
  <2>5. ASSUME NEW u \in Socket, product'.hub = "all", conn'[u].state = "open", ~conn'[u].left
        PROVE  /\ conn'[u].half \in hub' /\ conn'[u].owed \subseteq ToSet(conn'[u].got)
               /\ 0 \in ToSet(conn'[u].got) \cup ToSet(conn'[u].early)
    <3>1. product.hub = "all" /\ conn[u].state = "open" /\ ~conn[u].left
            /\ conn'[u].half = conn[u].half
      BY <1>2, <2>2, <2>5
    <3>2. /\ conn[u].half \in hub /\ conn'[u].owed \subseteq ToSet(conn'[u].got)
          /\ 0 \in ToSet(conn'[u].got) \cup ToSet(conn'[u].early)
      BY <2>1, <3>1
    <3>3. hub' = hub
      BY <1>2
    <3>4. conn'[u].half \in hub'
      BY <3>1, <3>2, <3>3
    <3>5. QED
      BY <3>2, <3>4, Zenon
  <2>6. QED
    BY <2>4, <2>5 DEF AllTold
<1>10. QED
  BY <1>6, <1>7, <1>8, <1>9 DEF ChannelInv

\* A client leaves.
LEMMA LeaveKeeps ==
  ASSUME ChannelInv, NEW t \in Socket, Harness!Leave(t)
  PROVE  ChannelInv'
<1>1. HarnessTyped /\ HalvesAreClients /\ ToldOnce /\ AllTold
  BY DEF ChannelInv
<1>2. /\ product' = product /\ writes' = writes /\ pairs' = pairs /\ sent' = sent
           /\ hub' \subseteq hub
      /\ conn[t].state = "open"
      /\ conn'
           = [s \in Socket |-> [conn[s] EXCEPT !.state = IF s = t THEN "gone" ELSE @, !.left = TRUE]]
  BY DEF Harness!Leave
<1>3. \A u \in Socket : /\ conn'[u].got = conn[u].got /\ conn'[u].early = conn[u].early
                        /\ conn'[u].left /\ (conn'[u].state # "none" <=> conn[u].state # "none")
  BY <1>1, <1>2 DEF HarnessTyped, Attached
<1>4. HarnessTyped'
  BY <1>1, <1>2 DEF HarnessTyped, Attached
<1>5. HalvesAreClients'
  <2>1. Connected' = Connected
    BY <1>3 DEF Connected
  <2>2. QED
    BY <1>1, <1>2, <2>1 DEF HalvesAreClients
<1>6. ToldOnce' /\ AllTold'
  BY <1>1, <1>2, <1>3 DEF ToldOnce, AllTold
<1>7. QED
  BY <1>4, <1>5, <1>6 DEF ChannelInv

LEMMA ChannelKept == ChannelInv /\ [Harness!Next]_(Harness!vars) => ChannelInv'
<1> SUFFICES ASSUME ChannelInv, [Harness!Next]_(Harness!vars) PROVE ChannelInv'
  OBVIOUS
<1>1. CASE UNCHANGED Harness!vars
  BY <1>1, ChannelStays DEF Harness!vars
<1>2. CASE Harness!Start \/ Harness!Close \/ Harness!Rest
  BY <1>2, ChannelStays DEF Harness!Start, Harness!Close, Harness!Rest, Harness!vars
<1>3. QED
  BY <1>1, <1>2, HttpKeeps, UpgradeKeeps, FlushKeeps, LeaveKeeps DEF Harness!Next

\* Whoever comes and goes, no client is given a write twice, and where the hub reaches all its
\* clients each is given all of them until someone leaves (the upgrade handler; broadcastLive).
THEOREM WritesAreToldOnce == Harness!Spec => []EveryWriteOnce
<1>1. ASSUME ChannelInv PROVE EveryWriteOnce
  <2>1. HarnessTyped /\ ToldOnce /\ AllTold
    BY <1>1 DEF ChannelInv
  <2>2. ASSUME NEW t \in Socket
        PROVE  IsInjective(conn[t].got \o (IF conn[t].state = "open" THEN conn[t].early ELSE <<>>))
    <3>1. conn[t].got \in Seq(Nat) /\ conn[t].early \in Seq(Nat) /\ <<>> \in Seq(Nat)
      BY <2>1 DEF HarnessTyped, Attached
    <3>2. Apart(conn[t].got, conn[t].early) /\ Apart(conn[t].got, <<>>)
      BY <2>1, EmptyList DEF ToldOnce, Apart
    <3>3. QED
      BY <3>1, <3>2, ApartIsInjective
  <2>3. ASSUME NEW t \in Socket, product.hub = "all", conn[t].state = "open", ~conn[t].left
        PROVE  /\ conn[t].owed \subseteq ToSet(conn[t].got)
               /\ conn[t].early = <<>> => 0 \in ToSet(conn[t].got)
    BY <2>1, <2>3, EmptyList DEF AllTold
  <2>4. QED
    BY <2>2, <2>3, HarnessLists DEF EveryWriteOnce, Harness!EveryWriteOnce
<1>2. QED
  BY <1>1, ChannelAtFirst, ChannelKept, PTL DEF Harness!Spec

-----------------------------------------------------------------------------
\* DeploymentHarness: the in-memory D1 and D1.

LEMMA ReversedHas ==
  ASSUME NEW T, NEW s \in Seq(T)
  PROVE  Reverse(s) \in Seq(T) /\ ToSet(Reverse(s)) = ToSet(s)
<1> DEFINE t == Reverse(s)
           n == Len(s)
<1>1. n \in Nat /\ DOMAIN s = 1..n /\ \A i \in 1..n : s[i] \in T
  OBVIOUS
<1>2. t = [i \in 1..n |-> s[(n - i) + 1]]
  BY DEF Reverse
<1> HIDE DEF n, t
<1>3. \A i \in 1..n : (n - i) + 1 \in 1..n /\ (n - ((n - i) + 1)) + 1 = i
  BY <1>1
<1>4. t \in Seq(T) /\ DOMAIN t = 1..n
  BY <1>1, <1>2, <1>3
<1>5. ToSet(t) = ToSet(s)
  <2>1. ASSUME NEW x \in ToSet(s) PROVE x \in ToSet(t)
    <3>1. PICK i \in 1..n : x = s[i]
      BY <1>1 DEF ToSet
    <3>2. (n - i) + 1 \in 1..n /\ t[(n - i) + 1] = s[(n - ((n - i) + 1)) + 1]
      BY <1>2, <1>3
    <3>3. QED
      BY <1>3, <1>4, <3>1, <3>2 DEF ToSet
  <2>2. ASSUME NEW x \in ToSet(t) PROVE x \in ToSet(s)
    <3>1. PICK i \in 1..n : x = t[i]
      BY <1>4 DEF ToSet
    <3>2. QED
      BY <1>1, <1>2, <1>3, <3>1 DEF ToSet
  <2>3. QED
    BY <2>1, <2>2
<1>6. QED
  BY <1>4, <1>5 DEF t

IsList(s) == \E T : s \in Seq(T)
\* A table.
Table(kind, list, id) == [kind |-> kind, rows |-> list, last |-> id]
IsTable(db, kind) == db = Table(kind, db.rows, db.last) /\ IsList(db.rows)

\* What the statements that write do to a list of rows.
NewRow(id, values) == Harness!Assigned(Harness!InsertRow, values, [id |-> id, title |-> 0])
UpdatedRows(list, values) ==
  [i \in DOMAIN list |->
     IF Harness!Matches(Harness!UpdateById,
                        SubSeq(values, Len(Harness!UpdateById.cols) + 1, Len(values)), list[i])
     THEN Harness!Assigned(Harness!UpdateById, values, list[i]) ELSE list[i]]
KeptRows(list, values) ==
  OnlyIn(list, {row \in ToSet(list) : ~Harness!Matches(Harness!DeleteById, values, row)})

\* What each statement does to a table.
LEMMA StatementsDo ==
  ASSUME NEW kind, NEW r, NEW l, NEW values
  PROVE  LET db == Table(kind, r, l)
         IN /\ Harness!Execute(db, Harness!SelectById, values)
                 = Harness!Answered(db, Harness!Found(db, Harness!SelectById, values), 0)
            /\ Harness!Execute(db, Harness!InsertRow, values)
                 = Harness!Answered(Table(kind, Append(r, NewRow(Harness!NewId(db), values)),
                                          Harness!NewId(db)), <<>>, Harness!NewId(db))
            /\ Harness!Execute(db, Harness!UpdateById, values)
                 = Harness!Answered(Table(kind, UpdatedRows(r, values), l), <<>>, 0)
            /\ Harness!Execute(db, Harness!DeleteById, values)
                 = Harness!Answered(Table(kind, KeptRows(r, values), l), <<>>, 0)
<1> DEFINE db == Table(kind, r, l)
<1>1. db = [kind |-> kind, rows |-> r, last |-> l] /\ db.kind = kind /\ db.rows = r /\ db.last = l
  BY DEF Table
<1> HIDE DEF db
<1>2. Harness!Execute(db, Harness!SelectById, values)
        = Harness!Answered(db, Harness!Found(db, Harness!SelectById, values), 0)
  BY DEF Harness!Execute, Harness!SelectById, Harness!Statement, Harness!Ordered
<1>3. ASSUME NEW id, Harness!NewId(db) = id
      PROVE  Harness!Execute(db, Harness!InsertRow, values)
               = Harness!Answered(Table(kind, Append(r, NewRow(id, values)), id), <<>>, id)
  <2>1. [db EXCEPT !.rows = Append(@, NewRow(id, values)), !.last = id]
          = Table(kind, Append(r, NewRow(id, values)), id)
    <3> DEFINE more == Append(r, NewRow(id, values))
               d == [db EXCEPT !.rows = more]
    <3>1. d = [kind |-> kind, rows |-> more, last |-> l]
      BY <1>1
    <3>2. [db EXCEPT !.rows = Append(@, NewRow(id, values)), !.last = id] = [d EXCEPT !.last = id]
      BY <1>1, Zenon
    <3> HIDE DEF d, more
    <3>3. [d EXCEPT !.last = id] = [kind |-> kind, rows |-> more, last |-> id]
      BY <3>1
    <3>4. QED
      BY <3>2, <3>3 DEF more, Table
  <2>2. Harness!InsertRow.verb = "INSERT"
    BY DEF Harness!InsertRow, Harness!Statement
  <2>3. QED
    BY <1>3, <2>1, <2>2 DEF Harness!Execute, NewRow
<1>4. Harness!Execute(db, Harness!UpdateById, values)
        = Harness!Answered(Table(kind, UpdatedRows(r, values), l), <<>>, 0)
  <2>1. Harness!UpdateById.verb = "UPDATE"
    BY DEF Harness!UpdateById, Harness!Statement
  <2>2. QED
    BY <1>1, <2>1 DEF Harness!Execute, Harness!AfterSet, UpdatedRows, Table
<1>5. Harness!Execute(db, Harness!DeleteById, values)
        = Harness!Answered(Table(kind, KeptRows(r, values), l), <<>>, 0)
  <2>1. Harness!DeleteById.verb = "DELETE"
    BY DEF Harness!DeleteById, Harness!Statement
  <2>2. Harness!OnlyIn(r, {row \in Harness!ToSet(r) :
                             ~Harness!Matches(Harness!DeleteById, values, row)})
          = KeptRows(r, values)
    BY HarnessLists DEF KeptRows
  <2>3. [db EXCEPT !.rows = Harness!OnlyIn(@, {row \in Harness!ToSet(@) :
                              ~Harness!Matches(Harness!DeleteById, values, row)})]
          = Table(kind, KeptRows(r, values), l)
    BY <1>1, <2>2 DEF Table
  <2>4. QED
    BY <2>1, <2>3 DEF Harness!Execute
<1>6. QED
  BY <1>2, <1>3, <1>4, <1>5 DEF db

\* Two stores of the same rows.
SameRows(a, b) == IsTable(a, "shim") /\ IsTable(b, "d1") /\ a.rows = b.rows
\* What a request leaves of them, and answers.
ServedAlike(x, y) ==
  /\ x.status = y.status /\ ToSet(x.rows) = ToSet(y.rows)
  /\ SameRows(x.db, y.db)

LEMMA FoundIsList ==
  ASSUME NEW db, IsList(db.rows), NEW st, NEW values
  PROVE  IsList(Harness!Found(db, st, values))
<1>1. PICK T : db.rows \in Seq(T)
  BY DEF IsList
<1>2. QED
  BY <1>1, HarnessLists, OnlyInHas DEF Harness!Found, IsList

LEMMA ReadAlike ==
  ASSUME NEW a, NEW b, SameRows(a, b), NEW values
  PROVE  LET x == Harness!Execute(a, Harness!SelectById, values)
             y == Harness!Execute(b, Harness!SelectById, values)
         IN x.db = a /\ y.db = b /\ x.rows = y.rows
<1>1. Harness!Found(a, Harness!SelectById, values) = Harness!Found(b, Harness!SelectById, values)
  BY DEF SameRows, Harness!Found
<1>2. QED
  <2>1. /\ Harness!Execute(a, Harness!SelectById, values)
             = Harness!Answered(a, Harness!Found(a, Harness!SelectById, values), 0)
        /\ Harness!Execute(b, Harness!SelectById, values)
             = Harness!Answered(b, Harness!Found(b, Harness!SelectById, values), 0)
    BY StatementsDo DEF SameRows, IsTable
  <2>2. QED
    BY <1>1, <2>1 DEF Harness!Answered

LEMMA ListAlike ==
  ASSUME NEW a, NEW b, SameRows(a, b), NEW id, NEW title
  PROVE  LET x == Harness!Serve(a, "list", id, title)
             y == Harness!Serve(b, "list", id, title)
         IN x.db = a /\ y.db = b /\ ServedAlike(x, y)
<1> DEFINE found == Harness!Found(a, Harness!SelectAll, <<>>)
<1>1. found = Harness!Found(b, Harness!SelectAll, <<>>)
  BY DEF SameRows, Harness!Found
<1>2. IsList(found)
  BY FoundIsList DEF SameRows, IsTable
<1> HIDE DEF found
<1>3. ToSet(Reverse(found)) = ToSet(found)
  BY <1>2, ReversedHas DEF IsList
<1>4. /\ Harness!Execute(a, Harness!SelectAll, <<>>) = Harness!Answered(a, found, 0)
      /\ Harness!Execute(b, Harness!SelectAll, <<>>) = Harness!Answered(b, Reverse(found), 0)
  <2>1. a.kind = "shim" /\ b.kind = "d1"
    BY DEF SameRows, IsTable, Table
  <2>2. Harness!Execute(a, Harness!SelectAll, <<>>) = Harness!Answered(a, found, 0)
    BY <2>1 DEF found, Harness!Execute, Harness!SelectAll, Harness!Statement, Harness!Ordered
  <2>3. Harness!Execute(b, Harness!SelectAll, <<>>)
          = Harness!Answered(b, Reverse(Harness!Found(b, Harness!SelectAll, <<>>)), 0)
    BY <2>1, HarnessLists DEF Harness!Execute, Harness!SelectAll, Harness!Statement,
       Harness!Ordered
  <2>4. QED
    BY <1>1, <2>2, <2>3
<1>5. /\ Harness!Serve(a, "list", id, title) = [db |-> a, status |-> 200, rows |-> found]
      /\ Harness!Serve(b, "list", id, title) = [db |-> b, status |-> 200, rows |-> Reverse(found)]
  BY <1>4 DEF Harness!Serve, Harness!List, Harness!Response, Harness!Answered
<1>6. QED
  BY <1>3, <1>5 DEF ServedAlike

\* A created record has the same number in both as long as none was deleted.
LEMMA CreateAlike ==
  ASSUME NEW a, NEW b, SameRows(a, b), Len(a.rows) = b.last, NEW id, NEW title
  PROVE  LET x == Harness!Serve(a, "create", id, title)
             y == Harness!Serve(b, "create", id, title)
         IN ServedAlike(x, y) /\ Len(x.db.rows) = y.db.last /\ x.status = 201
<1> DEFINE new == b.last + 1
           row == NewRow(new, <<title>>)
           more == Append(a.rows, row)
           first == Table("shim", more, new)
           second == Table("d1", more, new)
<1>1. IsTable(a, "shim") /\ IsTable(b, "d1") /\ a.rows = b.rows
  BY DEF SameRows
<1>2. /\ Harness!Execute(a, Harness!InsertRow, <<title>>) = Harness!Answered(first, <<>>, new)
      /\ Harness!Execute(b, Harness!InsertRow, <<title>>) = Harness!Answered(second, <<>>, new)
  <2>1. a = Table("shim", a.rows, a.last) /\ b = Table("d1", b.rows, b.last)
    BY <1>1 DEF IsTable
  <2>2. Harness!NewId(a) = Len(a.rows) + 1 /\ Harness!NewId(b) = b.last + 1
    BY <2>1 DEF Table, Harness!NewId
  <2>3. /\ Harness!Execute(a, Harness!InsertRow, <<title>>)
             = Harness!Answered(Table("shim", Append(a.rows, NewRow(Harness!NewId(a), <<title>>)),
                                      Harness!NewId(a)), <<>>, Harness!NewId(a))
        /\ Harness!Execute(b, Harness!InsertRow, <<title>>)
             = Harness!Answered(Table("d1", Append(b.rows, NewRow(Harness!NewId(b), <<title>>)),
                                      Harness!NewId(b)), <<>>, Harness!NewId(b))
    BY <2>1, StatementsDo
  <2>4. QED
    BY <1>1, <2>2, <2>3
<1> HIDE DEF row
<1>3. IsList(more) /\ Len(more) = new
  <2>1. PICK T : a.rows \in Seq(T)
    BY <1>1 DEF IsTable, IsList
  <2>2. a.rows \in Seq(T \cup {row}) /\ row \in T \cup {row}
    BY <2>1
  <2>3. more \in Seq(T \cup {row}) /\ Len(more) = Len(a.rows) + 1
    BY <2>2
  <2>4. QED
    BY <2>3 DEF IsList
<1> HIDE DEF more, new
<1>4. SameRows(first, second)
  BY <1>3 DEF SameRows, IsTable, Table
<1> DEFINE u == Harness!Execute(first, Harness!SelectById, <<new>>)
           v == Harness!Execute(second, Harness!SelectById, <<new>>)
<1>5. u.db = first /\ v.db = second /\ u.rows = v.rows
  BY <1>4, ReadAlike
<1>6. /\ Harness!Serve(a, "create", id, title) = [db |-> u.db, status |-> 201, rows |-> u.rows]
      /\ Harness!Serve(b, "create", id, title) = [db |-> v.db, status |-> 201, rows |-> v.rows]
  BY <1>2 DEF Harness!Serve, Harness!Create, Harness!ReadBack, Harness!Response,
     Harness!Answered
<1> HIDE DEF u, v
<1>7. QED
  BY <1>3, <1>4, <1>5, <1>6 DEF ServedAlike, Table

\* An update changes the same rows in both, in their place.
LEMMA UpdateAlike ==
  ASSUME NEW a, NEW b, SameRows(a, b), NEW id, NEW title
  PROVE  LET x == Harness!Serve(a, "update", id, title)
             y == Harness!Serve(b, "update", id, title)
         IN /\ ServedAlike(x, y) /\ Len(x.db.rows) = Len(a.rows) /\ y.db.last = b.last
<1> DEFINE p == Harness!Execute(a, Harness!SelectById, <<id>>)
           q == Harness!Execute(b, Harness!SelectById, <<id>>)
<1>1. p.db = a /\ q.db = b /\ p.rows = q.rows
  BY ReadAlike
<1>2. CASE p.rows = <<>>
  <2>1. /\ Harness!Serve(a, "update", id, title) = [db |-> p.db, status |-> 404, rows |-> p.rows]
        /\ Harness!Serve(b, "update", id, title) = [db |-> q.db, status |-> 404, rows |-> q.rows]
    BY <1>1, <1>2 DEF Harness!Serve, Harness!Update, Harness!Missing, Harness!ReadBack,
       Harness!Response
  <2> HIDE DEF p, q
  <2>2. QED
    BY <1>1, <2>1 DEF ServedAlike
<1>3. CASE p.rows # <<>>
  <2> DEFINE val == <<title, id>>
             now == UpdatedRows(a.rows, val)
             first == Table("shim", now, a.last)
             second == Table("d1", now, b.last)
  <2>1. /\ Harness!Execute(a, Harness!UpdateById, val) = Harness!Answered(first, <<>>, 0)
        /\ Harness!Execute(b, Harness!UpdateById, val) = Harness!Answered(second, <<>>, 0)
    <3>1. a = Table("shim", a.rows, a.last) /\ b = Table("d1", b.rows, b.last) /\ a.rows = b.rows
      BY DEF SameRows, IsTable
    <3>2. QED
      BY <3>1, StatementsDo
  <2>2. IsList(now) /\ Len(now) = Len(a.rows)
    <3>1. PICK T : a.rows \in Seq(T)
      BY DEF SameRows, IsTable, IsList
    <3>2. DOMAIN a.rows = 1..Len(a.rows) /\ Len(a.rows) \in Nat
      BY <3>1
    <3>3. DOMAIN now = 1..Len(a.rows)
      BY <3>2 DEF UpdatedRows
    <3> HIDE DEF now
    <3>4. now \in Seq({now[i] : i \in 1..Len(a.rows)})
      <4>1. now = [i \in 1..Len(a.rows) |-> now[i]]
        BY <3>2 DEF UpdatedRows, now
      <4>2. QED
        BY <3>2, <4>1
    <3>5. QED
      BY <3>2, <3>3, <3>4 DEF IsList
  <2> HIDE DEF now
  <2>3. SameRows(first, second)
    BY <2>2 DEF SameRows, IsTable, Table
  <2> DEFINE u == Harness!Execute(first, Harness!SelectById, <<id>>)
             v == Harness!Execute(second, Harness!SelectById, <<id>>)
  <2>4. u.db = first /\ v.db = second /\ u.rows = v.rows
    BY <2>3, ReadAlike
  <2>5. /\ Harness!Serve(a, "update", id, title) = [db |-> u.db, status |-> 200, rows |-> u.rows]
        /\ Harness!Serve(b, "update", id, title) = [db |-> v.db, status |-> 200, rows |-> v.rows]
    BY <1>1, <1>3, <2>1 DEF Harness!Serve, Harness!Update, Harness!Missing, Harness!ReadBack,
       Harness!Response, Harness!Answered
  <2> HIDE DEF u, v
  <2>6. QED
    BY <2>2, <2>3, <2>4, <2>5 DEF ServedAlike, Table
<1>4. QED
  BY <1>2, <1>3

\* A delete takes the same rows from both.
LEMMA DeleteAlike ==
  ASSUME NEW a, NEW b, SameRows(a, b), NEW id, NEW title
  PROVE  LET x == Harness!Serve(a, "delete", id, title)
             y == Harness!Serve(b, "delete", id, title)
         IN ServedAlike(x, y) /\ (x.status = 404 => x.db = a /\ y.db = b)
<1> DEFINE p == Harness!Execute(a, Harness!SelectById, <<id>>)
           q == Harness!Execute(b, Harness!SelectById, <<id>>)
<1>1. p.db = a /\ q.db = b /\ p.rows = q.rows
  BY ReadAlike
<1>2. CASE p.rows = <<>>
  <2>1. /\ Harness!Serve(a, "delete", id, title) = [db |-> p.db, status |-> 404, rows |-> p.rows]
        /\ Harness!Serve(b, "delete", id, title) = [db |-> q.db, status |-> 404, rows |-> q.rows]
    BY <1>1, <1>2 DEF Harness!Serve, Harness!Delete, Harness!Missing, Harness!ReadBack,
       Harness!Response
  <2> HIDE DEF p, q
  <2>2. QED
    BY <1>1, <2>1 DEF ServedAlike
<1>3. CASE p.rows # <<>>
  <2> DEFINE now == KeptRows(a.rows, <<id>>)
             first == Table("shim", now, a.last)
             second == Table("d1", now, b.last)
  <2>1. /\ Harness!Execute(a, Harness!DeleteById, <<id>>) = Harness!Answered(first, <<>>, 0)
        /\ Harness!Execute(b, Harness!DeleteById, <<id>>) = Harness!Answered(second, <<>>, 0)
    <3>1. a = Table("shim", a.rows, a.last) /\ b = Table("d1", b.rows, b.last) /\ a.rows = b.rows
      BY DEF SameRows, IsTable
    <3>2. QED
      BY <3>1, StatementsDo
  <2>2. IsList(now)
    <3>1. PICK T : a.rows \in Seq(T)
      BY DEF SameRows, IsTable, IsList
    <3>2. QED
      BY <3>1, OnlyInHas DEF IsList, KeptRows
  <2> HIDE DEF now
  <2>3. SameRows(first, second)
    BY <2>2 DEF SameRows, IsTable, Table
  <2>4. /\ Harness!Serve(a, "delete", id, title) = [db |-> first, status |-> 200, rows |-> <<>>]
        /\ Harness!Serve(b, "delete", id, title) = [db |-> second, status |-> 200, rows |-> <<>>]
    BY <1>1, <1>3, <2>1 DEF Harness!Serve, Harness!Delete, Harness!Missing, Harness!Response,
       Harness!Answered
  <2>5. QED
    BY <2>3, <2>4 DEF ServedAlike
<1>4. QED
  BY <1>2, <1>3

\* As long as no row was inserted after a deletion, both hold the same; until a deletion the
\* next number is the same.
StoresInv ==
  ~reused => /\ SameRows(stores.shim, stores.d1) /\ writes.deletes \in Nat
             /\ writes.deletes = 0 => Len(stores.shim.rows) = stores.d1.last

LEMMA StoresAtFirst == Harness!Init => StoresInv
<1>1. IsList(<<>>) /\ Len(<<>>) = 0
  <2>1. <<>> \in Seq({})
    OBVIOUS
  <2>2. QED
    BY <2>1 DEF IsList
<1>2. QED
  BY <1>1 DEF StoresInv, Harness!Init, Harness!Empty, SameRows, IsTable, Table

LEMMA RequestKeepsStores ==
  ASSUME StoresInv, NEW op \in {"list", "create", "update", "delete"}, NEW id, Harness!Http(op, id)
  PROVE  StoresInv'
<1> DEFINE n == writes.done + 1
           x == Harness!Serve(stores.shim, op, id, n)
           y == Harness!Serve(stores.d1, op, id, n)
<1>1. /\ stores' = [shim |-> x.db, d1 |-> y.db]
      /\ \/ /\ op # "list" /\ x.status # 404
            /\ writes' = [done |-> n, deletes |-> writes.deletes + (IF op = "delete" THEN 1 ELSE 0)]
            /\ reused' = (reused \/ (op = "create" /\ writes.deletes > 0))
         \/ (op = "list" \/ x.status = 404) /\ writes' = writes /\ reused' = reused
  BY DEF Harness!Http
<1>2. SUFFICES ASSUME ~reused'
               PROVE  /\ SameRows(x.db, y.db) /\ writes'.deletes \in Nat
                      /\ writes'.deletes = 0 => Len(x.db.rows) = y.db.last
  BY <1>1 DEF StoresInv
<1>3. ~reused
  BY <1>1, <1>2
<1>4. /\ SameRows(stores.shim, stores.d1) /\ writes.deletes \in Nat
      /\ writes.deletes = 0 => Len(stores.shim.rows) = stores.d1.last
  BY <1>3 DEF StoresInv
<1>5. CASE op = "list"
  BY <1>1, <1>4, <1>5, ListAlike DEF ServedAlike
<1>6. CASE op = "create"
  <2>1. writes.deletes = 0
    <3>1. CASE x.status = 404
      <4>1. x.status = 201
        BY <1>6 DEF Harness!Serve, Harness!Create, Harness!ReadBack, Harness!Response
      <4>2. QED
        BY <3>1, <4>1
    <3>2. CASE x.status # 404
      <4>1. reused' = (reused \/ (op = "create" /\ writes.deletes > 0))
        BY <1>1, <1>6, <3>2
      <4>2. ~(writes.deletes > 0)
        BY <1>2, <1>6, <4>1
      <4>3. QED
        BY <1>4, <4>2
    <3>3. QED
      BY <3>1, <3>2
  <2>2. ServedAlike(x, y) /\ Len(x.db.rows) = y.db.last
    BY <1>4, <1>6, <2>1, CreateAlike
  <2> HIDE DEF x, y
  <2>3. QED
    BY <1>1, <1>4, <1>6, <2>2 DEF ServedAlike
<1>7. CASE op = "update"
  <2>1. ServedAlike(x, y) /\ Len(x.db.rows) = Len(stores.shim.rows) /\ y.db.last = stores.d1.last
    BY <1>4, <1>7, UpdateAlike
  <2> HIDE DEF x, y
  <2>2. QED
    BY <1>1, <1>4, <1>7, <2>1 DEF ServedAlike
<1>8. CASE op = "delete"
  <2>1. ServedAlike(x, y) /\ (x.status = 404 => x.db = stores.shim /\ y.db = stores.d1)
    BY <1>4, <1>8, DeleteAlike
  <2> HIDE DEF x, y
  <2>2. QED
    BY <1>1, <1>4, <1>8, <2>1 DEF ServedAlike
<1>9. QED
  BY <1>5, <1>6, <1>7, <1>8

LEMMA StoresKept == StoresInv /\ [Harness!Next]_(Harness!vars) => StoresInv'
<1> SUFFICES ASSUME StoresInv, [Harness!Next]_(Harness!vars) PROVE StoresInv'
  OBVIOUS
<1>1. ASSUME stores' = stores, writes' = writes, reused' = reused PROVE StoresInv'
  BY <1>1 DEF StoresInv
<1>2. CASE UNCHANGED Harness!vars
  BY <1>1, <1>2 DEF Harness!vars
<1>3. CASE Harness!Start \/ Harness!Close \/ Harness!Rest
  BY <1>1, <1>3 DEF Harness!Start, Harness!Close, Harness!Rest, Harness!vars
<1>4. ASSUME NEW t \in Socket, Harness!Upgrade(t) \/ Harness!Flush(t) \/ Harness!Leave(t)
      PROVE  StoresInv'
  BY <1>1, <1>4 DEF Harness!Upgrade, Harness!Flush, Harness!Leave
<1>5. QED
  BY <1>2, <1>3, <1>4, RequestKeepsStores DEF Harness!Next

\* The in-memory D1 answers as D1 does, but for the order of a list, until a row is inserted
\* after one was deleted (execute of InMemoryD1; the record routes).
THEOREM ShimAnswersAsD1 == Harness!Spec => []ShimIsD1
<1>1. ASSUME StoresInv PROVE Harness!ShimIsD1
  <2>1. SUFFICES ASSUME ~reused
                 PROVE  /\ ToSet(stores.shim.rows) = ToSet(stores.d1.rows)
                        /\ writes.deletes = 0 => Harness!SameAnswer("create", 1)
                        /\ \A op \in {"list", "update", "delete"}, id \in 1..MaxWrites :
                             Harness!SameAnswer(op, id)
    BY HarnessLists DEF Harness!ShimIsD1
  <2>2. SameRows(stores.shim, stores.d1)
        /\ (writes.deletes = 0 => Len(stores.shim.rows) = stores.d1.last)
    BY <1>1, <2>1 DEF StoresInv
  <2>3. ASSUME NEW op, NEW id,
               ServedAlike(Harness!Serve(stores.shim, op, id, 0), Harness!Serve(stores.d1, op, id, 0))
        PROVE  Harness!SameAnswer(op, id)
    BY <2>3, HarnessLists DEF ServedAlike, Harness!SameAnswer
  <2>4. writes.deletes = 0 => Harness!SameAnswer("create", 1)
    BY <2>2, <2>3, CreateAlike
  <2>5. ASSUME NEW op \in {"list", "update", "delete"}, NEW id PROVE Harness!SameAnswer(op, id)
    BY <2>2, <2>3, ListAlike, UpdateAlike, DeleteAlike
  <2>6. QED
    BY <2>2, <2>4, <2>5 DEF SameRows
<1>2. QED
  <2>1. StoresInv => ShimIsD1
    BY <1>1 DEF ShimIsD1
  <2>2. QED
    BY <2>1, StoresAtFirst, StoresKept, PTL DEF Harness!Spec

-----------------------------------------------------------------------------
\* AcceptanceRun: what each step of a run records.

SameTest(t) ==
  (t \in DOMAIN tests' <=> t \in DOMAIN tests) /\ (t \in DOMAIN tests => tests'[t] = tests[t])
Writes(T) ==
  DOMAIN tests' = DOMAIN tests \cup T /\ \A t \in DOMAIN tests \ T : tests'[t] = tests[t]

\* The tests a step records.
Written(s) ==
  CASE s = "contract" -> {"deployment", "health", "api-contract"}
    [] s = "auth" -> {"unauthorized", "register", "duplicate-register"}
    [] s = "login" -> {"invalid-login", "login", "session"}
    [] s = "create" -> {"invalid-input", "create", "read", "fake-check"}
    [] s = "update" -> {"update"}
    [] s = "delete" -> {"delete", "read-missing"}
    [] s = "refresh" -> {"refresh", "database"}
    [] s = "logout" -> {"logout", "post-logout"}
    [] s = "errors" -> {"error-path", "android-launch"}
    [] s = "services" -> {"external-service"}
    [] s = "probe" -> {"core-feature"}
    [] s = "live" -> {"realtime"}
    [] s = "journey" -> {"user-journey"}
    [] s = "local" -> {"user-journey", "ui-interaction", "local-persistence"}
    [] OTHER -> {}

LEMMA RecordIs ==
  ASSUME NEW results, Record(results)
  PROVE  Writes(DOMAIN results) /\ \A t \in DOMAIN results : tests'[t] = results[t]
  BY DEF Record, Writes

LEMMA WritesKeep ==
  ASSUME NEW T, Writes(T), NEW t, t \notin T
  PROVE  SameTest(t)
  BY DEF Writes, SameTest

LEMMA ContractWrites ==
  ASSUME Contract
  PROVE  /\ Writes(Written("contract"))
         /\ tests'["deployment"] = Result("up" \in does)
         /\ tests'["health"] = Result("up" \in does /\ ("health" \in does \/ ~Answers("health")))
         /\ \/ tests'["api-contract"] = Result(Answers("contract") /\ "contract" \in does)
            \/ tests'["api-contract"] = "MISSING" /\ ~RecordsPath
<1> DEFINE Found(p) == IF p THEN Result(Answers("contract") /\ "contract" \in does) ELSE "MISSING"
           Made(p) == [t \in {"deployment", "health", "api-contract"} |->
             CASE t = "deployment" -> Result("up" \in does)
               [] t = "health" -> Result("up" \in does /\ ("health" \in does \/ ~Answers("health")))
               [] t = "api-contract" -> Found(p)]
<1>1. PICK probed \in {TRUE, RecordsPath} : Record(Made(probed))
  BY DEF Contract
<1>2. DOMAIN Made(probed) = Written("contract")
  BY DEF Written
<1>3. /\ Made(probed)["deployment"] = Result("up" \in does)
      /\ Made(probed)["health"] = Result("up" \in does /\ ("health" \in does \/ ~Answers("health")))
      /\ Made(probed)["api-contract"] = Found(probed)
  OBVIOUS
<1>4. \/ Found(probed) = Result(Answers("contract") /\ "contract" \in does)
      \/ Found(probed) = "MISSING" /\ ~RecordsPath
  BY <1>1
<1> HIDE DEF Made, Found
<1>5. Writes(DOMAIN Made(probed)) /\ \A t \in DOMAIN Made(probed) : tests'[t] = Made(probed)[t]
  BY <1>1, RecordIs
<1>6. /\ tests'["deployment"] = Made(probed)["deployment"]
      /\ tests'["health"] = Made(probed)["health"]
      /\ tests'["api-contract"] = Made(probed)["api-contract"]
  BY <1>2, <1>5 DEF Written
<1>7. QED
  BY <1>2, <1>3, <1>4, <1>5, <1>6

LEMMA AuthWrites ==
  ASSUME Auth
  PROVE  LET once == user \/ (Reaches("register") /\ "registers" \in does) IN
         /\ Writes(Written("auth"))
         /\ tests'["unauthorized"]
              = Result(Answers("unauthorized") /\ "guards" \in does /\ "roundtrip" \in says)
         /\ tests'["register"] = Result(Answers("register") /\ "registers" \in does)
         /\ tests'["duplicate-register"]
              = Result(Answers("duplicate")
                /\ ((once /\ "unique" \in does) \/ "registers" \notin does))
         /\ user' = (once \/ (Reaches("duplicate") /\ "registers" \in does))
  BY RecordIs DEF Auth, Written

LEMMA LoginWrites ==
  ASSUME Login
  PROVE  LET in == Answers("login") /\ user /\ "token" \in does IN
         /\ Writes(Written("login"))
         /\ tests'["invalid-login"]
              = Result(Answers("wrong-login") /\ (~user \/ "password" \in does))
         /\ tests'["login"] = Result(in)
         /\ tests'["session"]
              = IF in THEN Result(Answers("session") /\ "roundtrip" \in says) ELSE "MISSING"
  BY RecordIs DEF Login, Written

Rejected(r, rs) == IF "validates" \in does THEN rs ELSE Posted("invalid", token, r, rs)
LEMMA CreateWrites ==
  ASSUME Create, RecordsPath
  PROVE  LET r1 == Rejected("empty", rows)
             before == Listed("before", token, r1)
             after == Listed("read", token, rows') IN
         /\ Writes(Written("create")) /\ rows' = Posted("create", token, "acc", r1)
         /\ tests'["invalid-input"]
              = Result(Answers("invalid") /\ (~Open(token) \/ "validates" \in does))
         /\ tests'["create"] = Result(Ok("create", token))
         /\ tests'["read"] = Result(<<"acc", FALSE>> \in after)
         /\ tests'["fake-check"] = Result(before # after /\ "clean" \in does)
  BY RecordIs DEF Create, Written, Rejected

LEMMA UpdateWrites ==
  ASSUME Update
  PROVE  /\ Writes(Written("update"))
         /\ rows' = IF tests["create"] = "PASS" THEN Edited("update", token, "acc", rows) ELSE rows
         /\ tests'["update"] = IF tests["create"] = "PASS"
              THEN Result(<<"acc", TRUE>> \in Listed("reread", token, rows')) ELSE "MISSING"
  BY RecordIs DEF Update, Written

LEMMA DeleteWrites ==
  ASSUME Delete
  PROVE  /\ Writes(Written("delete"))
         /\ rows' = IF tests["create"] = "PASS" THEN Removed("delete", token, "acc", rows) ELSE rows
         /\ tests'["delete"] = IF tests["create"] = "PASS"
              THEN Result(<<"acc", TRUE>> \notin Listed("relist", token, rows')) ELSE "MISSING"
         /\ tests'["read-missing"] = IF tests["create"] = "PASS"
              THEN Result(/\ ~Got("missing", token, "acc", rows')
                          /\ ~Holds("acc", Listed("list-missing", token, rows')))
              ELSE "MISSING"
<1> DEFINE made == tests["create"] = "PASS"
           absent == /\ ~Got("missing", token, "acc", rows')
                     /\ ~Holds("acc", Listed("list-missing", token, rows'))
           results == [t \in {"delete", "read-missing"} |->
             CASE ~made -> "MISSING"
               [] made /\ t = "delete" ->
                    Result(<<"acc", TRUE>> \notin Listed("relist", token, rows'))
               [] made /\ t = "read-missing" -> Result(absent)]
<1>1. rows' = IF made THEN Removed("delete", token, "acc", rows) ELSE rows
  BY DEF Delete
<1>2. Record(results)
  BY <1>1 DEF Delete
<1>3. /\ DOMAIN results = Written("delete")
      /\ results["delete"] = IF made
           THEN Result(<<"acc", TRUE>> \notin Listed("relist", token, rows')) ELSE "MISSING"
      /\ results["read-missing"] = IF made THEN Result(absent) ELSE "MISSING"
  <2> HIDE DEF made, absent
  <2>1. QED
    BY DEF Written
<1> HIDE DEF results
<1>4. QED
  BY <1>1, <1>2, <1>3, RecordIs DEF Written

LEMMA RefreshWrites ==
  ASSUME Refresh
  PROVE  LET there == /\ Ok("again", token)
                      /\ <<"survives", FALSE>> \in Listed("refresh", token, rows') IN
         /\ Writes(Written("refresh")) /\ rows' = Posted("again", token, "survives", rows)
         /\ tests'["refresh"] = Result(there)
         /\ tests'["database"] = Result(there /\ \A u \in Lifecycle : tests[u] = "PASS")
<1> DEFINE there == Ok("again", token) /\ <<"survives", FALSE>> \in Listed("refresh", token, rows')
           all == \A u \in Lifecycle : tests[u] = "PASS"
           results == [t \in {"refresh", "database"} |->
             Result(there /\ (t = "database" => all))]
<1>1. rows' = Posted("again", token, "survives", rows)
  BY DEF Refresh
<1>2. Record(results)
  BY <1>1 DEF Refresh
<1>3. /\ DOMAIN results = Written("refresh")
      /\ results["refresh"] = Result(there) /\ results["database"] = Result(there /\ all)
  <2> HIDE DEF there, all
  <2>1. QED
    BY DEF Written, Result
<1> HIDE DEF results
<1>4. QED
  BY <1>1, <1>2, <1>3, RecordIs DEF Written

LEMMA LogoutWrites ==
  ASSUME Logout
  PROVE  /\ Writes(Written("logout"))
         /\ tests'["logout"] = Result(Answers("logout"))
         /\ tests'["post-logout"]
              = Result(Answers("after-logout") /\ "guards" \in does /\ ~session')
  BY RecordIs DEF Logout, Written

LEMMA ErrorsWrites ==
  ASSUME Errors
  PROVE  LET T == {"error-path"} \cup (IF c.native THEN {"android-launch"} ELSE {}) IN
         /\ Writes(T) /\ T \subseteq Written("errors")
         /\ tests'["error-path"] = Result(Answers("unknown") /\ "unknown404" \in does)
         /\ c.native => tests'["android-launch"] = Result("launches" \in does)
  BY RecordIs DEF Errors, Written

LEMMA ServicesWrites ==
  ASSUME Services
  PROVE  LET called == {s \in c.services : Called(s)} IN
         \/ c.services = {} /\ tests' = tests
         \/ /\ c.services # {} /\ Writes(Written("services"))
            /\ tests'["external-service"]
                 = Result(/\ called # {} /\ \A s \in called : Usable(s)
                          /\ called = c.services \/ (Answers("fabrication") /\ ~Open(token)))
<1> DEFINE called == {s \in c.services : Called(s)}
           real == /\ called # {} /\ \A s \in called : Usable(s)
                   /\ called = c.services \/ (Answers("fabrication") /\ ~Open(token))
           results == [t \in {"external-service"} |-> Result(real)]
<1>1. CASE c.services = {}
  BY <1>1 DEF Services
<1>2. CASE c.services # {}
  <2>1. Record(results)
    BY <1>2 DEF Services
  <2> HIDE DEF real
  <2>2. DOMAIN results = Written("services") /\ results["external-service"] = Result(real)
    BY DEF Written
  <2> HIDE DEF results
  <2>3. Writes(Written("services")) /\ tests'["external-service"] = Result(real)
    BY <2>1, <2>2, RecordIs DEF Written
  <2>4. QED
    BY <1>2, <2>3 DEF real
<1>3. QED
  BY <1>1, <1>2

LEMMA JudgeProbesWrites ==
  ASSUME JudgeProbes
  PROVE  /\ Writes(Written("probe"))
         /\ tests'["core-feature"] = Result(\A n \in DOMAIN probes : probes[n] = "PASS")
<1> DEFINE all == \A n \in DOMAIN probes : probes[n] = "PASS"
           results == [t \in {"core-feature"} |-> Result(all)]
<1>1. Record(results)
  BY DEF JudgeProbes
<1> HIDE DEF all
<1>2. DOMAIN results = Written("probe") /\ results["core-feature"] = Result(all)
  BY DEF Written
<1> HIDE DEF results
<1>3. QED
  BY <1>1, <1>2, RecordIs DEF Written, all

LEMMA LiveWrites ==
  ASSUME Live
  PROVE  \/ ~c.live /\ tests' = tests /\ rows' = rows /\ token' = token /\ session' = session
         \/ LET open == "roundtrip" \in says
                        /\ (WantsAuth(c) => "guards" \notin does \/ (token' /\ session')) IN
            /\ c.live /\ Writes(Written("live"))
            /\ token' = EnsureSession(token, LoggedIn /\ Answers("live-login"))
            /\ session' = (session \/ (LoggedIn /\ Reaches("live-login")))
            /\ rows' = IF Reaches("live") /\ open /\ ~Fake /\ "live" \in does
                       THEN rows \cup {<<"live", FALSE>>} ELSE rows
            /\ tests'["realtime"] = Result("live" \in does /\ Answers("live") /\ open /\ ~Fake)
<1>1. CASE ~c.live
  BY <1>1 DEF Live
<1>2. CASE c.live
  <2> DEFINE held == EnsureSession(token, LoggedIn /\ Answers("live-login"))
             alive == session \/ (LoggedIn /\ Reaches("live-login"))
             open == "roundtrip" \in says
                     /\ (WantsAuth(c) => "guards" \notin does \/ (held /\ alive))
             shown == "live" \in does /\ Answers("live") /\ open /\ ~Fake
             results == [t \in {"realtime"} |-> Result(shown)]
  <2>1. /\ token' = held /\ session' = alive
        /\ rows' = IF Reaches("live") /\ open /\ ~Fake /\ "live" \in does
                   THEN rows \cup {<<"live", FALSE>>} ELSE rows
        /\ Record(results)
    BY <1>2 DEF Live
  <2>2. DOMAIN results = Written("live") /\ results["realtime"] = Result(shown)
    BY DEF Written
  <2> HIDE DEF results
  <2>3. Writes(Written("live")) /\ tests'["realtime"] = Result(shown)
    BY <2>1, <2>2, RecordIs DEF Written
  <2> HIDE DEF held, alive
  <2>4. QED
    BY <1>2, <2>1, <2>3 DEF held, alive
<1>3. QED
  BY <1>1, <1>2

LEMMA JourneyWrites ==
  ASSUME Journey
  PROVE  /\ Writes(Written("journey"))
         /\ tests'["user-journey"] = Result(JourneyPasses(c, tests) /\ "runs" \in does)
  BY RecordIs DEF Journey, Written

LEMMA LocalWrites ==
  ASSUME Local
  PROVE  LET keeps == "runs" \in does /\ "keeps" \in does IN
         /\ Writes(Written("local"))
         /\ tests'["user-journey"]
              = Result(/\ "runs" \in does /\ "catches" \in does
                       /\ (WantsData(c) \/ "create" \in ToSet(Features(c))) => keeps)
         /\ tests'["ui-interaction"] = Result("runs" \in does)
         /\ tests'["local-persistence"] = Result(keeps)
<1> DEFINE keeps == "runs" \in does /\ "keeps" \in does
           journey == /\ "runs" \in does /\ "catches" \in does
                      /\ (WantsData(c) \/ "create" \in ToSet(Features(c))) => keeps
           results == [t \in {"user-journey", "ui-interaction", "local-persistence"} |->
             CASE t = "user-journey" -> Result(journey)
               [] t = "ui-interaction" -> Result("runs" \in does)
               [] t = "local-persistence" -> Result(keeps)]
<1>1. Record(results)
  BY DEF Local
<1> HIDE DEF journey, keeps
<1>2. /\ DOMAIN results = Written("local") /\ results["user-journey"] = Result(journey)
      /\ results["ui-interaction"] = Result("runs" \in does)
      /\ results["local-persistence"] = Result(keeps)
  BY DEF Written
<1> HIDE DEF results
<1>3. QED
  BY <1>1, <1>2, RecordIs DEF Written, journey, keeps

\* Whose turn it is.
LEMMA WhoseTurn ==
  ASSUME Next
  PROVE  \/ (pc = "contract" /\ Contract) \/ (pc = "auth" /\ Auth) \/ (pc = "login" /\ Login)
         \/ (pc = "create" /\ Create) \/ (pc = "update" /\ Update) \/ (pc = "delete" /\ Delete)
         \/ (pc = "refresh" /\ Refresh) \/ (pc = "logout" /\ Logout)
         \/ (pc = "errors" /\ Errors) \/ (pc = "services" /\ Services)
         \/ (pc = "probes" /\ StartProbes) \/ (pc = "probe" /\ ProbeStep)
         \/ (pc = "live" /\ Live) \/ (pc = "journey" /\ Journey) \/ (pc = "local" /\ Local)
         \/ (pc = "judge" /\ Judge) \/ (pc = "done" /\ UNCHANGED vars)
<1>1. ProbeStep => pc = "probe"
  BY DEF ProbeStep, NotDelivered, RoundTrip, DeleteProbe, NumericTotal, StateTransition,
     FilterNarrowing, Ordering, ComputedOutput, JudgeProbes, AtProbe
<1>2. /\ (Contract => pc = "contract") /\ (Auth => pc = "auth") /\ (Login => pc = "login")
      /\ (Create => pc = "create") /\ (Update => pc = "update") /\ (Delete => pc = "delete")
      /\ (Refresh => pc = "refresh") /\ (Logout => pc = "logout") /\ (Errors => pc = "errors")
  BY DEF Contract, Auth, Login, Create, Update, Delete, Refresh, Logout, Errors
<1>3. /\ (Services => pc = "services") /\ (StartProbes => pc = "probes") /\ (Live => pc = "live")
      /\ (Journey => pc = "journey") /\ (Local => pc = "local") /\ (Judge => pc = "judge")
      /\ (Done => pc = "done" /\ UNCHANGED vars)
  BY DEF Services, StartProbes, Live, Journey, Local, Judge, Done
<1>4. CASE \/ Contract \/ Auth \/ Login \/ Create \/ Update \/ Delete \/ Refresh \/ Logout
           \/ Errors
  BY <1>2, <1>4
<1>5. CASE \/ Services \/ StartProbes \/ ProbeStep \/ Live \/ Journey \/ Local \/ Judge \/ Done
  BY <1>1, <1>3, <1>5
<1>6. QED
  BY <1>4, <1>5 DEF Next

\* A probe leaves a result, or they are all judged.
LEMMA ProbeDoes ==
  ASSUME ProbeStep
  PROVE  /\ UNCHANGED <<input, user, session, token, rec, verdict>>
         /\ \/ /\ k <= Len(Features(c)) /\ k' = k + 1 /\ UNCHANGED <<pc, tests>>
               /\ \E pass \in BOOLEAN : probes' = Append(probes, Result(pass))
            \/ /\ k > Len(Features(c)) /\ pc' = "live" /\ UNCHANGED <<rows, k, probes>>
               /\ Writes(Written("probe"))
<1>1. ASSUME NEW pass, Probed(pass)
      PROVE  /\ UNCHANGED <<input, user, session, token, rec, verdict>>
             /\ k' = k + 1 /\ UNCHANGED <<pc, tests>>
             /\ \E b \in BOOLEAN : probes' = Append(probes, Result(b))
  <2>1. probes' = Append(probes, Result(pass)) /\ k' = k + 1
        /\ UNCHANGED <<input, pc, user, session, token, rec, tests, verdict>>
    BY <1>1 DEF Probed
  <2>2. CASE pass
    <3>1. Result(pass) = Result(TRUE)
      BY <2>2 DEF Result
    <3>2. QED
      BY <2>1, <3>1
  <2>3. CASE ~pass
    <3>1. Result(pass) = Result(FALSE)
      BY <2>3 DEF Result
    <3>2. QED
      BY <2>1, <3>1
  <2>4. QED
    BY <2>2, <2>3
<1>2. CASE JudgeProbes
  BY <1>2, JudgeProbesWrites DEF JudgeProbes, app, Goto
<1>3. CASE \/ NotDelivered \/ RoundTrip \/ DeleteProbe \/ NumericTotal \/ StateTransition
           \/ FilterNarrowing \/ Ordering \/ ComputedOutput
  <2>1. k <= Len(Features(c)) /\ \E pass : Probed(pass)
    BY <1>3 DEF NotDelivered, RoundTrip, DeleteProbe, NumericTotal, StateTransition,
       FilterNarrowing, Ordering, ComputedOutput, AtProbe
  <2>2. QED
    BY <1>1, <2>1
<1>4. QED
  BY <1>2, <1>3 DEF ProbeStep

\* What a step leaves alone, and where it goes.
RunFrame ==
  /\ UNCHANGED input
  /\ (user => user') /\ (pc # "auth" => user' = user)
  /\ pc \notin {"login", "logout", "probes", "live"} => token' = token /\ session' = session
  /\ pc # "probe" => k' = k /\ probes' = probes
  /\ pc # "probes" => rec' = rec
  /\ pc # "judge" => verdict' = verdict
  /\ DOMAIN tests \subseteq DOMAIN tests'
  /\ \A t : t \notin Written(pc) => SameTest(t)
  /\ pc' = pc => tests' = tests /\ verdict' = verdict /\ token' = token /\ session' = session
  /\ \/ pc' = pc
     \/ pc = "contract" /\ pc' = IF WantsAuth(c) THEN "auth" ELSE "create"
     \/ pc = "auth" /\ pc' = "login"
     \/ pc = "login" /\ pc' = "create"
     \/ pc = "create" /\ pc' = IF RecordsPath THEN "update" ELSE "errors"
     \/ pc = "update" /\ pc' = "delete"
     \/ pc = "delete" /\ pc' = "refresh"
     \/ pc = "refresh" /\ pc' = IF token THEN "logout" ELSE "errors"
     \/ pc = "logout" /\ pc' = "errors"
     \/ pc = "errors" /\ pc' = "services"
     \/ pc = "services" /\ pc' = IF Features(c) # <<>> /\ RecordsPath THEN "probes" ELSE "live"
     \/ pc = "probes" /\ pc' = "probe"
     \/ pc = "probe" /\ pc' = "live" /\ k > Len(Features(c))
     \/ pc = "live" /\ pc' = "journey"
     \/ pc = "journey" /\ pc' = "judge"
     \/ pc = "local" /\ pc' = "judge"
     \/ pc = "judge" /\ pc' = "done"

LEMMA NothingWritten ==
  ASSUME tests' = tests
  PROVE  DOMAIN tests \subseteq DOMAIN tests' /\ \A t : SameTest(t)
  BY DEF SameTest
LEMMA SomeWritten ==
  ASSUME NEW s, NEW T, T \subseteq Written(s), Writes(T)
  PROVE  DOMAIN tests \subseteq DOMAIN tests' /\ \A t : t \notin Written(s) => SameTest(t)
  BY DEF SameTest, Writes

LEMMA FrameHolds == [Next]_vars => RunFrame
<1> SUFFICES ASSUME [Next]_vars PROVE RunFrame
  OBVIOUS
<1>1. CASE UNCHANGED vars
  BY <1>1, NothingWritten DEF vars, RunFrame, input, app
<1>2. CASE pc = "contract" /\ Contract
  <2>1. DOMAIN tests \subseteq DOMAIN tests' /\ \A t : t \notin Written(pc) => SameTest(t)
    BY <1>2, SomeWritten, ContractWrites
  <2>2. QED
    BY <1>2, <2>1 DEF Contract, RunFrame, Goto, input, app
<1>3. CASE pc = "auth" /\ Auth
  <2>1. DOMAIN tests \subseteq DOMAIN tests' /\ \A t : t \notin Written(pc) => SameTest(t)
    BY <1>3, SomeWritten, AuthWrites
  <2>2. QED
    BY <1>3, <2>1 DEF Auth, RunFrame, Goto, input, app
<1>4. CASE pc = "login" /\ Login
  <2>1. DOMAIN tests \subseteq DOMAIN tests' /\ \A t : t \notin Written(pc) => SameTest(t)
    BY <1>4, SomeWritten, LoginWrites
  <2>2. QED
    BY <1>4, <2>1 DEF Login, RunFrame, Goto, input, app
<1>5. CASE pc = "create" /\ Create
  <2>1. DOMAIN tests \subseteq DOMAIN tests' /\ \A t : t \notin Written(pc) => SameTest(t)
    BY <1>5, NothingWritten, SomeWritten, CreateWrites DEF Create
  <2>2. QED
    BY <1>5, <2>1 DEF Create, RunFrame, Goto, input, app
<1>6. CASE pc = "update" /\ Update
  <2>1. DOMAIN tests \subseteq DOMAIN tests' /\ \A t : t \notin Written(pc) => SameTest(t)
    BY <1>6, SomeWritten, UpdateWrites
  <2>2. QED
    BY <1>6, <2>1 DEF Update, RunFrame, Goto, input, app
<1>7. CASE pc = "delete" /\ Delete
  <2>1. DOMAIN tests \subseteq DOMAIN tests' /\ \A t : t \notin Written(pc) => SameTest(t)
    BY <1>7, SomeWritten, DeleteWrites
  <2>2. QED
    BY <1>7, <2>1 DEF Delete, RunFrame, Goto, input, app
<1>8. CASE pc = "refresh" /\ Refresh
  <2>1. DOMAIN tests \subseteq DOMAIN tests' /\ \A t : t \notin Written(pc) => SameTest(t)
    BY <1>8, SomeWritten, RefreshWrites
  <2>2. QED
    BY <1>8, <2>1 DEF Refresh, RunFrame, Goto, input, app
<1>9. CASE pc = "logout" /\ Logout
  <2>1. DOMAIN tests \subseteq DOMAIN tests' /\ \A t : t \notin Written(pc) => SameTest(t)
    BY <1>9, SomeWritten, LogoutWrites
  <2>2. QED
    BY <1>9, <2>1 DEF Logout, RunFrame, Goto, input, app
<1>10. CASE pc = "errors" /\ Errors
  <2>1. DOMAIN tests \subseteq DOMAIN tests' /\ \A t : t \notin Written(pc) => SameTest(t)
    BY <1>10, SomeWritten, ErrorsWrites
  <2>2. QED
    BY <1>10, <2>1 DEF Errors, RunFrame, Goto, input, app
<1>11. CASE pc = "services" /\ Services
  <2>1. DOMAIN tests \subseteq DOMAIN tests' /\ \A t : t \notin Written(pc) => SameTest(t)
    BY <1>11, NothingWritten, SomeWritten, ServicesWrites
  <2>2. QED
    BY <1>11, <2>1 DEF Services, RunFrame, Goto, input, app
<1>12. CASE pc = "probes" /\ StartProbes
  <2>1. DOMAIN tests \subseteq DOMAIN tests' /\ \A t : t \notin Written(pc) => SameTest(t)
    BY <1>12, NothingWritten DEF StartProbes
  <2>2. QED
    BY <1>12, <2>1 DEF StartProbes, RunFrame, Goto, input, app
<1>13. CASE pc = "live" /\ Live
  <2>1. DOMAIN tests \subseteq DOMAIN tests' /\ \A t : t \notin Written(pc) => SameTest(t)
    BY <1>13, NothingWritten, SomeWritten, LiveWrites
  <2>2. QED
    BY <1>13, <2>1 DEF Live, RunFrame, Goto, input, app
<1>14. CASE pc = "journey" /\ Journey
  <2>1. DOMAIN tests \subseteq DOMAIN tests' /\ \A t : t \notin Written(pc) => SameTest(t)
    BY <1>14, SomeWritten, JourneyWrites
  <2>2. QED
    BY <1>14, <2>1 DEF Journey, RunFrame, Goto, input, app
<1>15. CASE pc = "local" /\ Local
  <2>1. DOMAIN tests \subseteq DOMAIN tests' /\ \A t : t \notin Written(pc) => SameTest(t)
    BY <1>15, SomeWritten, LocalWrites
  <2>2. QED
    BY <1>15, <2>1 DEF Local, RunFrame, Goto, input, app
<1>16. CASE pc = "judge" /\ Judge
  <2>1. DOMAIN tests \subseteq DOMAIN tests' /\ \A t : t \notin Written(pc) => SameTest(t)
    BY <1>16, NothingWritten DEF Judge
  <2>2. QED
    BY <1>16, <2>1 DEF Judge, RunFrame, Goto, input, app
<1>17. CASE pc = "probe" /\ ProbeStep
  <2>1. DOMAIN tests \subseteq DOMAIN tests' /\ \A t : t \notin Written(pc) => SameTest(t)
    BY <1>17, NothingWritten, SomeWritten, ProbeDoes
  <2>2. QED
    BY <1>17, <2>1, ProbeDoes DEF RunFrame
<1>18. QED
  BY <1>1, <1>2, <1>3, <1>4, <1>5, <1>6, <1>7, <1>8, <1>9, <1>10, <1>11, <1>12, <1>13, <1>14,
     <1>15, <1>16, <1>17, WhoseTurn

-----------------------------------------------------------------------------
\* What is owed is recorded.

LEMMA RowsOf ==
  ASSUME NEW d, NEW row \in Requirements(d)
  PROVE  \/ row \in {"product", "data", "refresh", "api", "validation", "stub"}
         \/ row = "core" /\ Features(d) # <<>>
         \/ row \in {"register", "login", "logout", "unauthorized"} /\ WantsAuth(d)
         \/ row = "external" /\ d.services # {}
         \/ row = "realtime" /\ d.live
  BY DEF Requirements

\* The requirements demand of a server no more than its architecture does, but for the
\* rejection of an invalid input.
LEMMA OwedOfServer ==
  ASSUME NEW d, Backend(d), NEW t \in Owed(d)
  PROVE  t \in RequiredByArchitecture(d) \/ t = "invalid-input"
<1>1. CASE t \in RequiredByArchitecture(d)
  BY <1>1
<1>2. ASSUME NEW row \in Requirements(d), t \in BackendTests(row)
      PROVE  t \in RequiredByArchitecture(d) \/ t = "invalid-input"
  <2>1. CASE row \in {"product", "data", "refresh", "api", "validation", "stub"}
    BY <1>2, <2>1 DEF BackendTests, RequiredByArchitecture
  <2>2. CASE row = "core" /\ Features(d) # <<>>
    BY <1>2, <2>2 DEF BackendTests, RequiredByArchitecture
  <2>3. CASE row \in {"register", "login", "logout", "unauthorized"} /\ WantsAuth(d)
    BY <1>2, <2>3 DEF BackendTests, RequiredByArchitecture
  <2>4. CASE row = "external" /\ d.services # {}
    BY <1>2, <2>4 DEF BackendTests, RequiredByArchitecture
  <2>5. CASE row = "realtime" /\ d.live
    BY <1>2, <2>5 DEF BackendTests, RequiredByArchitecture
  <2>6. QED
    BY <2>1, <2>2, <2>3, <2>4, <2>5, RowsOf
<1>3. QED
  BY <1>1, <1>2 DEF Owed, RequiredTests

\* An app without a server owes what its page shows.
LEMMA OwedOfPage ==
  ASSUME NEW d, ~Backend(d), NEW t \in Owed(d)
  PROVE  t \in Written("local")
<1>1. \A T : LocalTests(T) \subseteq Written("local")
  BY DEF LocalTests, Written
<1>2. RequiredByArchitecture(d) \subseteq Written("local")
  BY DEF RequiredByArchitecture, Written
<1>3. QED
  BY <1>1, <1>2 DEF Owed, RequiredTests

\* Which tests there are by where the run is.
Until(s) ==
  CASE s = "contract" -> {"contract"}
    [] s = "auth" -> {"contract", "auth"}
    [] s = "login" -> {"contract", "auth", "login"}
    [] s = "create" -> {"contract", "auth", "login", "create"}
    [] s = "update" -> {"contract", "auth", "login", "create", "update"}
    [] s = "delete" -> {"contract", "auth", "login", "create", "update", "delete"}
    [] s = "refresh" -> {"contract", "auth", "login", "create", "update", "delete", "refresh"}
    [] s = "logout" -> Step \ {"errors", "services", "probes", "probe", "live", "journey",
                               "judge", "done", "local"}
    [] s = "errors" -> Step \ {"services", "probes", "probe", "live", "journey", "judge", "done",
                               "local"}
    [] s = "services" -> Step \ {"probes", "probe", "live", "journey", "judge", "done", "local"}
    [] s = "probes" -> Step \ {"probe", "live", "journey", "judge", "done", "local"}
    [] s = "probe" -> Step \ {"live", "journey", "judge", "done", "local"}
    [] s = "live" -> Step \ {"journey", "judge", "done", "local"}
    [] s = "journey" -> Step \ {"judge", "done", "local"}
    [] s = "local" -> {"local"}
Past(s) == pc \notin Until(s)

RunTyped ==
  /\ c \in Command /\ pc \in Step /\ k \in Nat /\ k # 0
  /\ user \in BOOLEAN /\ token \in BOOLEAN /\ session \in BOOLEAN
  /\ probes \in Seq({"PASS", "FAIL"}) /\ Len(probes) = k - 1
  /\ (~Backend(c) => pc \in {"local", "judge", "done"}) /\ (Backend(c) => pc # "local")
  /\ pc \in {"auth", "login"} => WantsAuth(c)
  /\ pc \in {"update", "delete", "refresh", "logout", "probes", "probe"} => RecordsPath
  /\ pc \in {"probes", "probe"} => Features(c) # <<>>
  /\ pc # "done" => verdict = NoVerdict

TestsThere ==
  /\ Backend(c) =>
       /\ Past("contract") => Written("contract") \subseteq DOMAIN tests
       /\ Past("auth") /\ WantsAuth(c) => Written("auth") \subseteq DOMAIN tests
       /\ Past("login") /\ WantsAuth(c) => Written("login") \subseteq DOMAIN tests
       /\ RecordsPath =>
            /\ Past("create") => Written("create") \subseteq DOMAIN tests
            /\ Past("update") => Written("update") \subseteq DOMAIN tests
            /\ Past("delete") => Written("delete") \subseteq DOMAIN tests
            /\ Past("refresh") => Written("refresh") \subseteq DOMAIN tests
            /\ Past("logout") /\ Is("login", "PASS") => Written("logout") \subseteq DOMAIN tests
       /\ Past("errors") => "error-path" \in DOMAIN tests
            /\ (c.native => "android-launch" \in DOMAIN tests)
       /\ Past("services") /\ c.services # {} => "external-service" \in DOMAIN tests
       /\ Past("probe") /\ RecordsPath /\ Features(c) # <<>> => "core-feature" \in DOMAIN tests
       /\ Past("live") /\ c.live => "realtime" \in DOMAIN tests
       /\ Past("journey") => "user-journey" \in DOMAIN tests
  /\ ~Backend(c) /\ Past("local") => Written("local") \subseteq DOMAIN tests

\* The runner has a token from a login that passed to its logout.
TokenIsLogin ==
  /\ Is("login", "PASS") \/ Is("login", "FAIL") \/ "login" \notin DOMAIN tests
  /\ ~Past("login") => ~token /\ "login" \notin DOMAIN tests
  /\ Past("login") /\ ~Past("refresh") => (token <=> Is("login", "PASS"))
  /\ Past("refresh") /\ ~Past("logout") => token
  /\ RecordsPath /\ Past("logout") /\ ~Past("probes") => ~token
  /\ ~WantsAuth(c) => "login" \notin DOMAIN tests

LEMMA NoTests == DOMAIN <<>> = {}
  OBVIOUS

LEMMA FeaturesAreList ==
  ASSUME NEW d
  PROVE  Features(d) \in Seq(Feature)
<1>1. FeatureOrder \in Seq(Feature)
  BY DEF FeatureOrder, Feature, ToSet
<1>2. Asked(d) \in Seq(Feature)
  BY <1>1, OnlyInHas DEF Asked, Detected
<1>3. <<"delete", "read">> \in Seq(Feature)
  BY DEF FeatureOrder, Feature, ToSet
<1>4. OnlyIn(<<"delete", "read">>, Feature \ ToSet(Asked(d))) \in Seq(Feature)
  BY <1>3, OnlyInHas
<1>5. Asked(d) \o OnlyIn(<<"delete", "read">>, Feature \ ToSet(Asked(d))) \in Seq(Feature)
  BY <1>2, <1>4, ConcatHas
<1>6. QED
  BY <1>2, <1>5 DEF Features

RecordInv == RunTyped /\ TestsThere /\ TokenIsLogin

LEMMA RecordAtFirst == Init => RecordInv
<1> SUFFICES ASSUME Init PROVE RecordInv
  OBVIOUS
<1>1. DOMAIN tests = {} /\ pc \in {"contract", "local"} /\ (pc = "local" <=> ~Backend(c))
  BY NoTests DEF Init
<1>2. <<>> \in Seq({"PASS", "FAIL"}) /\ Len(<<>>) = 0
  OBVIOUS
<1>3. RunTyped
  <2>1. c \in Command /\ k = 1 /\ user = FALSE /\ token = FALSE /\ session = FALSE /\ probes = <<>>
        /\ verdict = NoVerdict
    BY DEF Init
  <2>2. k \in Nat /\ k # 0 /\ probes \in Seq({"PASS", "FAIL"}) /\ Len(probes) = k - 1
    BY <1>2, <2>1
  <2>3. QED
    BY <1>1, <2>1, <2>2 DEF RunTyped, Step
<1>4. TestsThere /\ TokenIsLogin
  BY <1>1 DEF TestsThere, TokenIsLogin, Past, Until, Step, Init, Is
<1>5. QED
  BY <1>3, <1>4 DEF RecordInv

\* A result is one more.
LEMMA OneMoreResult ==
  ASSUME NEW s \in Seq({"PASS", "FAIL"}), NEW pass
  PROVE  Append(s, Result(pass)) \in Seq({"PASS", "FAIL"})
           /\ Len(Append(s, Result(pass))) = Len(s) + 1
<1>1. Result(pass) \in {"PASS", "FAIL"}
  BY DEF Result
<1> DEFINE r == Result(pass)
<1> HIDE DEF r
<1>2. r \in {"PASS", "FAIL"} => Append(s, r) \in Seq({"PASS", "FAIL"})
        /\ Len(Append(s, r)) = Len(s) + 1
  OBVIOUS
<1>3. QED
  BY <1>1, <1>2 DEF r

LEMMA TypedKept ==
  ASSUME RunTyped, [Next]_vars
  PROVE  RunTyped'
<1>1. RunFrame
  BY FrameHolds
<1>2. c' = c /\ pc' \in Step
  BY <1>1 DEF RunFrame, RunTyped, Step, input
<1>3. k' \in Nat /\ k' # 0 /\ probes' \in Seq({"PASS", "FAIL"}) /\ Len(probes') = k' - 1
  <2>1. CASE k' = k /\ probes' = probes
    BY <2>1 DEF RunTyped
  <2>2. CASE ProbeStep
    <3>1. CASE UNCHANGED <<k, probes>>
      BY <2>1, <3>1
    <3>2. ASSUME NEW pass, k' = k + 1, probes' = Append(probes, Result(pass))
          PROVE  k' \in Nat /\ k' # 0 /\ probes' \in Seq({"PASS", "FAIL"}) /\ Len(probes') = k' - 1
      BY <3>2, OneMoreResult DEF RunTyped
    <3>3. QED
      BY <2>2, <3>1, <3>2, ProbeDoes
  <2>3. QED
    BY <1>1, <2>1, <2>2, WhoseTurn DEF RunFrame, vars
<1>4. user' \in BOOLEAN
  BY <1>1, AuthWrites, WhoseTurn DEF RunTyped, RunFrame, vars, app
<1>5. token' \in BOOLEAN /\ session' \in BOOLEAN
  <2>1. CASE token' = token /\ session' = session
    BY <2>1 DEF RunTyped
  <2>2. CASE Login
    BY <2>2 DEF Login
  <2>3. CASE Logout
    BY <2>3 DEF Logout
  <2>4. CASE StartProbes
    BY <2>4 DEF StartProbes, EnsureSession
  <2>5. CASE Live
    BY <2>1, <2>5, LiveWrites DEF EnsureSession
  <2>6. QED
    BY <1>1, <2>1, <2>2, <2>3, <2>4, <2>5, WhoseTurn DEF RunFrame, vars, app
<1>6. (~Backend(c') => pc' \in {"local", "judge", "done"}) /\ (Backend(c') => pc' # "local")
  BY <1>1, <1>2 DEF RunFrame, RunTyped
<1>7. /\ pc' \in {"update", "delete", "refresh", "logout", "probes", "probe"} => RecordsPath'
      /\ pc' \in {"probes", "probe"} => Features(c') # <<>>
  BY <1>1, <1>2 DEF RunFrame, RunTyped, RecordsPath, input
<1>8. pc' \in {"auth", "login"} => WantsAuth(c')
  BY <1>1, <1>2 DEF RunFrame, RunTyped
<1>9. pc' # "done" => verdict' = NoVerdict
  BY <1>1 DEF RunFrame, RunTyped
<1>10. QED
  BY <1>2, <1>3, <1>4, <1>5, <1>6, <1>7, <1>8, <1>9 DEF RunTyped

LEMMA TestsThereKept ==
  ASSUME RecordInv, [Next]_vars
  PROVE  TestsThere'
<1>1. RunFrame /\ RunTyped /\ TestsThere /\ TokenIsLogin
  BY FrameHolds DEF RecordInv
<1>2. /\ c' = c /\ (RecordsPath' <=> RecordsPath) /\ DOMAIN tests \subseteq DOMAIN tests'
      /\ (pc # "login" => (Is("login", "PASS")' <=> Is("login", "PASS")))
  <2>1. pc # "login" => "login" \notin Written(pc)
    BY DEF Written
  <2>2. QED
    BY <1>1, <2>1 DEF RunFrame, input, RecordsPath, SameTest, Is
<1>3. CASE pc' = pc
  BY <1>1, <1>2, <1>3 DEF TestsThere, Past, Until, Is, RunFrame
<1>4. CASE pc = "contract" /\ Contract /\ pc' # pc
  BY <1>1, <1>2, <1>4, ContractWrites DEF TestsThere, TokenIsLogin, Past, Until, Written,
     Writes, Step, RunTyped, RunFrame, Is
<1>5. CASE pc = "auth" /\ Auth /\ pc' # pc
  BY <1>1, <1>2, <1>5, AuthWrites DEF TestsThere, TokenIsLogin, Past, Until, Written, Writes,
     Step, RunTyped, RunFrame, Is
<1>6. CASE pc = "login" /\ Login /\ pc' # pc
  BY <1>1, <1>2, <1>6, LoginWrites DEF TestsThere, TokenIsLogin, Past, Until, Written, Writes,
     Step, RunTyped, RunFrame, Is
<1>7. CASE pc = "create" /\ Create /\ pc' # pc
  BY <1>1, <1>2, <1>7, CreateWrites DEF TestsThere, TokenIsLogin, Past, Until, Written,
     Writes, Step, RunTyped, RunFrame, Is
<1>8. CASE pc = "update" /\ Update /\ pc' # pc
  BY <1>1, <1>2, <1>8, UpdateWrites DEF TestsThere, TokenIsLogin, Past, Until, Written,
     Writes, Step, RunTyped, RunFrame, Is
<1>9. CASE pc = "delete" /\ Delete /\ pc' # pc
  BY <1>1, <1>2, <1>9, DeleteWrites DEF TestsThere, TokenIsLogin, Past, Until, Written,
     Writes, Step, RunTyped, RunFrame, Is
<1>10. CASE pc = "refresh" /\ Refresh /\ pc' # pc
  BY <1>1, <1>2, <1>10, RefreshWrites DEF TestsThere, TokenIsLogin, Past, Until, Written,
     Writes, Step, RunTyped, RunFrame, Is
<1>11. CASE pc = "logout" /\ Logout /\ pc' # pc
  BY <1>1, <1>2, <1>11, LogoutWrites DEF TestsThere, TokenIsLogin, Past, Until, Written,
     Writes, Step, RunTyped, RunFrame, Is
<1>12. CASE pc = "errors" /\ Errors /\ pc' # pc
  BY <1>1, <1>2, <1>12, ErrorsWrites DEF TestsThere, TokenIsLogin, Past, Until, Written,
     Writes, Step, RunTyped, RunFrame, Is
<1>13. CASE pc = "services" /\ Services /\ pc' # pc
  <2>1. c.services # {} => "external-service" \in DOMAIN tests'
    BY <1>13, ServicesWrites DEF Writes, Written
  <2>2. QED
    BY <1>1, <1>2, <1>13, <2>1 DEF TestsThere, TokenIsLogin, Past, Until, Step, RunTyped,
       RunFrame
<1>14. CASE pc = "probes" /\ StartProbes /\ pc' # pc
  BY <1>1, <1>2, <1>14 DEF TestsThere, TokenIsLogin, Past, Until, Written, Writes, Step,
     RunTyped, RunFrame, Is
<1>15. CASE pc = "probe" /\ ProbeStep /\ pc' # pc
  BY <1>1, <1>2, <1>15, ProbeDoes DEF TestsThere, TokenIsLogin, Past, Until, Written, Writes,
     Step, RunTyped, RunFrame, Is
<1>16. CASE pc = "live" /\ Live /\ pc' # pc
  <2>1. c.live => "realtime" \in DOMAIN tests'
    BY <1>16, LiveWrites DEF Writes, Written
  <2>2. QED
    BY <1>1, <1>2, <1>16, <2>1 DEF TestsThere, TokenIsLogin, Past, Until, Step, RunTyped,
       RunFrame
<1>17. CASE pc = "journey" /\ Journey /\ pc' # pc
  BY <1>1, <1>2, <1>17, JourneyWrites DEF TestsThere, TokenIsLogin, Past, Until, Written,
     Writes, Step, RunTyped, RunFrame, Is
<1>18. CASE pc = "local" /\ Local /\ pc' # pc
  BY <1>1, <1>2, <1>18, LocalWrites DEF TestsThere, TokenIsLogin, Past, Until, Written,
     Writes, Step, RunTyped, RunFrame, Is
<1>19. CASE pc = "judge" /\ Judge /\ pc' # pc
  BY <1>1, <1>2, <1>19 DEF TestsThere, TokenIsLogin, Past, Until, Written, Writes, Step,
     RunTyped, RunFrame, Is
<1>20. QED
  BY <1>3, <1>4, <1>5, <1>6, <1>7, <1>8, <1>9, <1>10, <1>11, <1>12, <1>13, <1>14, <1>15,
     <1>16, <1>17, <1>18, <1>19, WhoseTurn DEF vars

LEMMA TokenIsLoginKept ==
  ASSUME RecordInv, [Next]_vars
  PROVE  TokenIsLogin'
<1>1. RunFrame /\ RunTyped /\ TestsThere /\ TokenIsLogin
  BY FrameHolds DEF RecordInv
<1>2. c' = c /\ (RecordsPath' <=> RecordsPath)
  BY <1>1 DEF RunFrame, input, RecordsPath
<1>3. CASE Login
  <2>1. /\ Writes(Written("login")) /\ (token' <=> tests'["login"] = "PASS")
        /\ tests'["login"] \in {"PASS", "FAIL"} /\ pc = "login" /\ pc' = "create"
    BY <1>3, LoginWrites DEF Login, Result, Goto
  <2>2. WantsAuth(c)
    BY <1>1, <2>1 DEF RunTyped
  <2>3. "login" \in DOMAIN tests'
    BY <2>1 DEF Writes, Written
  <2>4. QED
    BY <1>2, <2>1, <2>2, <2>3 DEF TokenIsLogin, Is, Past, Until, Step
<1>4. CASE Logout
  <2>1. ~token' /\ pc = "logout" /\ pc' = "errors"
    BY <1>4 DEF Logout, Goto
  <2>2. SameTest("login")
    <3>1. "login" \notin Written(pc)
      BY <2>1 DEF Written
    <3>2. QED
      BY <1>1, <3>1 DEF RunFrame
  <2>3. QED
    BY <1>1, <1>2, <2>1, <2>2 DEF TokenIsLogin, Is, SameTest, Past, Until, Step
<1>5. CASE pc \notin {"login", "logout"}
  <2>1. SameTest("login")
    <3>1. "login" \notin Written(pc)
      BY <1>5 DEF Written
    <3>2. QED
      BY <1>1, <3>1 DEF RunFrame
  <2>2. QED
    BY <1>1, <1>2, <1>5, <2>1 DEF TokenIsLogin, Is, SameTest, Past, Until, Step, RunFrame,
       RunTyped
<1>6. CASE UNCHANGED vars
  BY <1>1, <1>6 DEF vars, input, TokenIsLogin, Is, Past, RecordsPath
<1>7. QED
  BY <1>3, <1>4, <1>5, <1>6, WhoseTurn

LEMMA RecordKept == RecordInv /\ [Next]_vars => RecordInv'
  BY TypedKept, TestsThereKept, TokenIsLoginKept DEF RecordInv

\* At the end of a run every test that is owed is there, but for those of a logout without a login.
LEMMA OwedIsThere ==
  ASSUME RecordInv, pc \in {"judge", "done"}, Backend(c) => RecordsPath, NEW t \in Owed(c),
         t \notin DOMAIN tests
  PROVE  t \in {"logout", "post-logout"} /\ Is("login", "FAIL")
<1>1. RunTyped /\ TestsThere /\ TokenIsLogin
  BY DEF RecordInv
<1>2. CASE ~Backend(c)
  BY <1>1, <1>2, OwedOfPage DEF TestsThere, Past, Until
<1>3. CASE Backend(c)
  <2>1. \A s \in Step \ {"judge", "done", "probes"} : Past(s)
    BY DEF Past, Until, Step
  <2>2. t \in RequiredByArchitecture(c) \/ t = "invalid-input"
    BY <1>3, OwedOfServer
  <2>3. QED
    BY <1>1, <1>3, <2>1, <2>2 DEF TestsThere, TokenIsLogin, RequiredByArchitecture, Written,
       Step, Is
<1>4. QED
  BY <1>2, <1>3

\* The run of any product records every test that is owed, but those of a logout when the login
\* failed (production-runtime.mjs, production-runtime.js).
THEOREM OwedTestsRecorded == Spec => []OwedIsRecorded
<1>1. RecordInv => OwedIsRecorded
  BY OwedIsThere DEF OwedIsRecorded, Is
<1>2. QED
  BY <1>1, RecordAtFirst, RecordKept, PTL DEF Spec

-----------------------------------------------------------------------------
\* What a test that passed shows of the app.

LEMMA SameElse ==
  ASSUME RunTyped, [Next]_vars, NEW s \in Step, pc # s, NEW t \in Written(s), t # "user-journey"
  PROVE  SameTest(t)
<1>1. t \notin Written(pc)
  BY DEF RunTyped, Step, Written
<1>2. QED
  BY <1>1, FrameHolds DEF RunFrame

\* The constants of a run.
LEMMA InputStays ==
  ASSUME [Next]_vars
  PROVE  c' = c /\ does' = does /\ says' = says /\ lost' = lost /\ (user => user')
  BY FrameHolds DEF RunFrame, input

ContractTold ==
  /\ Is("deployment", "PASS") => "up" \in does
  /\ Is("health", "PASS") => "health" \in does \/ lost.call = "health"
  /\ Is("api-contract", "PASS") => "contract" \in does
AuthTold ==
  /\ Is("unauthorized", "PASS") => "guards" \in does /\ "roundtrip" \in says
  /\ Is("register", "PASS") => "registers" \in does /\ user
  /\ Is("register", "PASS") /\ Is("duplicate-register", "PASS") => "unique" \in does
LoginTold ==
  /\ Is("login", "PASS") => "token" \in does
  /\ Is("register", "PASS") /\ Is("invalid-login", "PASS") => "password" \in does
  /\ Past("login") /\ ~Past("logout") /\ token => session
CreateTold ==
  /\ Is("create", "PASS") => "up" \in does /\ "roundtrip" \in says
  /\ Is("create", "PASS") /\ Is("invalid-input", "PASS") => "validates" \in does
  /\ Is("read", "PASS") => "stores" \in does
\* A record is edited by an app that updates.
UpdateTold ==
  /\ \A r : <<r, TRUE>> \in rows => "updates" \in does
  /\ Is("update", "PASS") => "stores" \in does /\ "updates" \in does
  /\ pc = "delete" /\ Is("update", "PASS") => <<"acc", TRUE>> \in rows
  /\ pc \in {"update", "delete"} /\ Is("create", "PASS") => Open(token)
\* An answer that is missing empties the list that is to show the deletion, or it answers
\* the request for the record that is gone, but not both.
DeleteTold ==
  (\A t \in {"create", "update", "delete", "read-missing"} : Is(t, "PASS")) => "deletes" \in does
RefreshTold ==
  Is("refresh", "PASS") => "up" \in does /\ "stores" \in does /\ <<"survives", FALSE>> \in rows
LogoutTold == Is("post-logout", "PASS") => "guards" \in does /\ "logout" \in does
LateTold ==
  /\ Is("error-path", "PASS") => "unknown404" \in does
  /\ Is("android-launch", "PASS") => "launches" \in does
LiveTold == Is("realtime", "PASS") => "live" \in does
RunsTold == Backend(c) /\ Is("user-journey", "PASS") => "runs" \in does

LEMMA Passes == \A pass : Result(pass) = "PASS" <=> pass
  BY DEF Result

LEMMA AnswersReaches == \A q : Answers(q) => Reaches(q) /\ "up" \in does
  BY DEF Answers, Reaches

LEMMA ContractToldKept ==
  ASSUME RecordInv, ContractTold, [Next]_vars
  PROVE  ContractTold'
<1>1. RunTyped /\ TestsThere /\ TokenIsLogin /\ RunFrame
  BY FrameHolds DEF RecordInv
<1>2. CASE pc = "contract" /\ Contract
  <2>1. /\ tests'["deployment"] = "PASS" => "up" \in does
        /\ tests'["health"] = "PASS" => "up" \in does /\ ("health" \in does \/ ~Answers("health"))
        /\ tests'["api-contract"] = "PASS" => "contract" \in does
    <3> DEFINE there == Answers("contract") /\ "contract" \in does
    <3>1. tests'["api-contract"] = Result(there) \/ tests'["api-contract"] = "MISSING"
      BY <1>2, ContractWrites
    <3>2. Result(there) = "PASS" => there
      BY Passes
    <3>3. tests'["deployment"] = "PASS" => "up" \in does
      <4>1. tests'["deployment"] = Result("up" \in does)
        BY <1>2, ContractWrites
      <4>2. QED
        BY <4>1 DEF Result
    <3>4. tests'["health"] = "PASS"
            => "up" \in does /\ ("health" \in does \/ ~Answers("health"))
      BY <1>2, ContractWrites, Passes
    <3>5. tests'["api-contract"] = "PASS" => there
      BY <3>1, <3>2
    <3>6. QED
      BY <3>3, <3>4, <3>5
  <2>2. "up" \in does /\ ~Answers("health") => lost.call = "health"
    BY DEF Answers
  <2>3. QED
    BY <2>1, <2>2, InputStays DEF ContractTold, Is
<1>3. CASE pc # "contract"
  <2>1. \A t \in Written("contract") : SameTest(t)
    BY <1>1, <1>3, SameElse DEF Step, Written
  <2>2. QED
    BY <1>1, <1>3, <2>1, InputStays DEF ContractTold, Is, SameTest, Written
<1>4. CASE UNCHANGED vars
  BY <1>4, InputStays DEF vars, ContractTold, Is
<1>5. QED
  BY <1>2, <1>3, <1>4, WhoseTurn

LEMMA AuthToldKept ==
  ASSUME RecordInv, AuthTold, [Next]_vars
  PROVE  AuthTold'
<1>1. RunTyped /\ TestsThere /\ TokenIsLogin /\ RunFrame
  BY FrameHolds DEF RecordInv
<1>2. CASE pc = "auth" /\ Auth
  BY <1>1, <1>2, InputStays, AuthWrites, Passes, AnswersReaches DEF AuthTold, Is
<1>3. CASE pc # "auth"
  <2>1. \A t \in Written("auth") : SameTest(t)
    BY <1>1, <1>3, SameElse DEF Step, Written
  <2>2. QED
    BY <1>1, <1>3, <2>1, InputStays DEF AuthTold, Is, SameTest, Written
<1>4. CASE UNCHANGED vars
  BY <1>4, InputStays DEF vars, AuthTold, Is
<1>5. QED
  BY <1>2, <1>3, <1>4, WhoseTurn

LEMMA LogoutToldKept ==
  ASSUME RecordInv, LoginTold, LogoutTold, [Next]_vars
  PROVE  LogoutTold'
<1>1. RunTyped /\ TestsThere /\ TokenIsLogin /\ RunFrame
  BY FrameHolds DEF RecordInv
<1>2. CASE pc = "logout" /\ Logout
  BY <1>1, <1>2, InputStays, LogoutWrites, Passes, AnswersReaches DEF LogoutTold, LoginTold,
     Is, Logout, Past, Until, TokenIsLogin, Step
<1>3. CASE pc # "logout"
  <2>1. \A t \in Written("logout") : SameTest(t)
    BY <1>1, <1>3, SameElse DEF Step, Written
  <2>2. QED
    BY <1>1, <1>3, <2>1, InputStays DEF LogoutTold, Is, SameTest, Written
<1>4. CASE UNCHANGED vars
  BY <1>4, InputStays DEF vars, LogoutTold, Is
<1>5. QED
  BY <1>2, <1>3, <1>4, WhoseTurn

LEMMA LateToldKept ==
  ASSUME RecordInv, LateTold, [Next]_vars
  PROVE  LateTold'
<1>1. RunTyped /\ TestsThere /\ TokenIsLogin /\ RunFrame
  BY FrameHolds DEF RecordInv
<1>2. CASE pc = "errors" /\ Errors
  <2>1. tests'["error-path"] = "PASS" => "unknown404" \in does
    BY <1>2, ErrorsWrites, Passes
  <2>2. CASE c.native
    <3>1. tests'["android-launch"] = Result("launches" \in does)
      BY <1>2, <2>2, ErrorsWrites
    <3>2. QED
      BY <2>1, <3>1, InputStays DEF LateTold, Is, Result
  <2>3. CASE ~c.native
    <3>1. Writes({"error-path"})
      BY <1>2, <2>3, ErrorsWrites
    <3>2. SameTest("android-launch")
      BY <3>1, WritesKeep
    <3>3. QED
      BY <2>1, <3>2, InputStays DEF LateTold, Is, SameTest
  <2>4. QED
    BY <2>2, <2>3
<1>3. CASE pc # "errors"
  <2>1. \A t \in Written("errors") : SameTest(t)
    BY <1>1, <1>3, SameElse DEF Step, Written
  <2>2. QED
    BY <1>1, <1>3, <2>1, InputStays DEF LateTold, Is, SameTest, Written
<1>4. CASE UNCHANGED vars
  BY <1>4, InputStays DEF vars, LateTold, Is
<1>5. QED
  BY <1>2, <1>3, <1>4, WhoseTurn

LEMMA LiveToldKept ==
  ASSUME RecordInv, LiveTold, [Next]_vars
  PROVE  LiveTold'
<1>1. RunTyped /\ TestsThere /\ TokenIsLogin /\ RunFrame
  BY FrameHolds DEF RecordInv
<1>2. CASE pc = "live" /\ Live
  BY <1>1, <1>2, InputStays, LiveWrites, Passes, AnswersReaches DEF LiveTold, Is
<1>3. CASE pc # "live"
  <2>1. \A t \in Written("live") : SameTest(t)
    BY <1>1, <1>3, SameElse DEF Step, Written
  <2>2. QED
    BY <1>1, <1>3, <2>1, InputStays DEF LiveTold, Is, SameTest, Written
<1>4. CASE UNCHANGED vars
  BY <1>4, InputStays DEF vars, LiveTold, Is
<1>5. QED
  BY <1>2, <1>3, <1>4, WhoseTurn

\* What a step records is not there before it.
Recording == {"contract", "auth", "login", "create", "update", "delete", "refresh", "logout",
              "errors", "services", "probe", "live"}
NotYet == \A s \in Recording : \A t \in Written(s) : ~Past(s) => t \notin DOMAIN tests

LEMMA NotYetKept ==
  ASSUME RunTyped, NotYet, [Next]_vars
  PROVE  NotYet'
<1>1. RunFrame
  BY FrameHolds
<1>2. SUFFICES ASSUME NEW s \in Recording, NEW t \in Written(s), ~Past(s)'
               PROVE  t \notin DOMAIN tests'
  BY DEF NotYet
<1>3. pc' # pc => ~Past(s) /\ pc # s
  BY <1>1, <1>2 DEF RunFrame, Recording, Past, Until, Step
<1>4. CASE pc' = pc
  BY <1>1, <1>2, <1>4 DEF RunFrame, NotYet, Past
<1>5. CASE pc' # pc
  <2>1. t \notin Written(pc)
    BY <1>2, <1>3, <1>5 DEF Recording, Written, RunTyped, Step
  <2>2. QED
    BY <1>1, <1>2, <1>3, <1>5, <2>1 DEF NotYet, RunFrame, SameTest
<1>6. QED
  BY <1>4, <1>5

LEMMA LoginToldKept ==
  ASSUME RecordInv, NotYet, AuthTold, LoginTold, [Next]_vars
  PROVE  LoginTold'
<1>1. RunTyped /\ TestsThere /\ TokenIsLogin /\ RunFrame
  BY FrameHolds DEF RecordInv
<1>2. CASE pc = "login" /\ Login
  <2>1. SameTest("register")
    BY <1>1, <1>2, SameElse DEF Step, Written
  <2>2. token' => Answers("login") /\ user /\ "token" \in does
    BY <1>2 DEF Login
  <2>3. token' => session'
    BY <1>2, <2>2, AnswersReaches DEF Login
  <2>4. tests'["login"] = "PASS" => "token" \in does
    BY <1>2, LoginWrites, Passes
  <2>5. tests'["invalid-login"] = "PASS" => ~user \/ "password" \in does
    BY <1>2, LoginWrites, Passes
  <2>6. Is("register", "PASS")' => user
    BY <2>1 DEF Is, SameTest, AuthTold
  <2>7. QED
    BY <2>3, <2>4, <2>5, <2>6, InputStays DEF LoginTold, Is
<1>3. CASE pc # "login"
  <2>1. \A t \in Written("login") : SameTest(t)
    BY <1>1, <1>3, SameElse DEF Step, Written
  <2>2. Is("register", "PASS")' /\ Is("invalid-login", "PASS")' => "password" \in does
    <3>1. CASE pc = "auth"
      <4>1. "invalid-login" \notin DOMAIN tests
        BY <3>1 DEF NotYet, Recording, Written, Past, Until
      <4>2. QED
        BY <2>1, <4>1 DEF Is, SameTest, Written
    <3>2. CASE pc # "auth"
      <4>1. SameTest("register") /\ SameTest("invalid-login")
        BY <1>1, <2>1, <3>2, SameElse DEF Step, Written
      <4>2. QED
        BY <4>1 DEF Is, SameTest, LoginTold
    <3>3. QED
      BY <3>1, <3>2
  <2>3. Past("login")' /\ ~Past("logout")' /\ token' => session'
    <3>1. pc' = pc => token' = token /\ session' = session
      BY <1>1 DEF RunFrame
    <3>2. CASE pc' = pc
      BY <3>1, <3>2 DEF LoginTold, Past
    <3>3. CASE pc' # pc /\ ~Past("login") /\ pc # "login"
      <4>1. ~token /\ token' = token
        BY <1>1, <3>3 DEF RunFrame, TokenIsLogin, Past, Until
      <4>2. QED
        BY <4>1
    <3>4. CASE pc' # pc /\ Past("login") /\ pc \in {"create", "update", "delete", "refresh"}
      <4>1. token' = token /\ session' = session /\ ~Past("logout")
        BY <1>1, <3>4 DEF RunFrame, Past, Until, Step
      <4>2. QED
        BY <3>4, <4>1 DEF LoginTold
    <3>5. QED
      BY <1>1, <1>3, <3>2, <3>3, <3>4 DEF RunFrame, Past, Until, Step
  <2>4. QED
    BY <1>1, <1>3, <2>1, <2>2, <2>3, InputStays DEF LoginTold, Is, SameTest, Written
<1>4. CASE UNCHANGED vars
  BY <1>4, InputStays DEF vars, app, LoginTold, Is, Past
<1>5. QED
  BY <1>2, <1>3, <1>4, WhoseTurn

\* A record is edited by an app that updates, and one that nobody edits or deletes stays.
Follows(rs, next) ==
  /\ \A r : <<r, TRUE>> \in next => <<r, TRUE>> \in rs \/ "updates" \in does
  /\ \A x \in rs : x[1] \in {"survives", "want"} => x \in next
RowsFrame ==
  /\ Follows(rows, rows')
  /\ pc \notin {"contract", "create", "update", "delete", "refresh", "probes", "probe", "live"}
       => rows' = rows

LEMMA SameFollows == ASSUME NEW rs PROVE Follows(rs, rs)
  BY DEF Follows
LEMMA MoreFollows ==
  ASSUME NEW rs, NEW r
  PROVE  Follows(rs, rs \cup {<<r, FALSE>>})
  BY DEF Follows
LEMMA PostedFollows ==
  ASSUME NEW q, NEW t, NEW r, NEW rs
  PROVE  Follows(rs, Posted(q, t, r, rs))
  BY SameFollows, MoreFollows DEF Posted
LEMMA EditedFollows ==
  ASSUME NEW q, NEW t, NEW r, NEW rs, r \notin {"survives", "want"}
  PROVE  Follows(rs, Edited(q, t, r, rs))
<1>1. CASE Edited(q, t, r, rs) = rs
  BY <1>1, SameFollows
<1>2. CASE Edited(q, t, r, rs) = (rs \ {<<r, FALSE>>}) \cup {<<r, TRUE>>} /\ "updates" \in does
  <2>1. <<r, FALSE>>[1] = r
    OBVIOUS
  <2>2. QED
    BY <1>2, <2>1 DEF Follows
<1>3. QED
  BY <1>1, <1>2 DEF Edited
LEMMA RemovedFollows ==
  ASSUME NEW q, NEW t, NEW r, NEW rs, r \notin {"survives", "want"}
  PROVE  Follows(rs, Removed(q, t, r, rs))
<1>1. Follows(rs, Without(r, rs))
  BY DEF Follows, Without
<1>2. QED
  BY <1>1, SameFollows DEF Removed
LEMMA FollowsOn ==
  ASSUME NEW rs, NEW mid, NEW next, Follows(rs, mid), Follows(mid, next)
  PROVE  Follows(rs, next)
  BY DEF Follows

LEMMA ProbeRows ==
  ASSUME ProbeStep
  PROVE  \/ rows' = rows
         \/ Current = "delete" /\ rows' = Removed("delete-probe", token, "probe", rows)
         \/ rows' = Edited("put-probe", token, "probe", rows)
         \/ rows' = Posted("other", token, "other", Posted("want", token, "want", rows))
  BY DEF ProbeStep, NotDelivered, RoundTrip, DeleteProbe, NumericTotal, StateTransition,
     FilterNarrowing, Ordering, ComputedOutput, JudgeProbes, app

LEMMA RowsFrameHolds == [Next]_vars => RowsFrame
<1> SUFFICES ASSUME [Next]_vars PROVE RowsFrame
  OBVIOUS
<1>1. CASE rows' = rows
  BY <1>1, SameFollows DEF RowsFrame
<1>2. CASE pc = "contract" /\ Contract
  <2>1. rows' = rows \/ rows' = Posted("contract", FALSE, "empty", rows)
    BY <1>2 DEF Contract
  <2>2. QED
    BY <1>1, <1>2, <2>1, PostedFollows DEF RowsFrame
<1>3. CASE pc = "create" /\ Create
  <2>1. CASE RecordsPath
    <3>1. Follows(rows, Rejected("empty", rows))
      BY SameFollows, PostedFollows DEF Rejected
    <3>2. rows' = Posted("create", token, "acc", Rejected("empty", rows))
      BY <1>3, <2>1, CreateWrites
    <3>3. Follows(Rejected("empty", rows), rows')
      BY <3>2, PostedFollows
    <3>4. QED
      BY <1>3, <3>1, <3>3, FollowsOn DEF RowsFrame
  <2>2. CASE ~RecordsPath
    BY <1>1, <1>3, <2>2 DEF Create
  <2>3. QED
    BY <2>1, <2>2
<1>4. CASE pc = "update" /\ Update
  <2>1. rows' = rows \/ rows' = Edited("update", token, "acc", rows)
    BY <1>4, UpdateWrites
  <2>2. QED
    BY <1>1, <1>4, <2>1, EditedFollows DEF RowsFrame
<1>5. CASE pc = "delete" /\ Delete
  <2>1. rows' = rows \/ rows' = Removed("delete", token, "acc", rows)
    BY <1>5, DeleteWrites
  <2>2. QED
    BY <1>1, <1>5, <2>1, RemovedFollows DEF RowsFrame
<1>6. CASE pc = "refresh" /\ Refresh
  <2>1. rows' = Posted("again", token, "survives", rows)
    BY <1>6, RefreshWrites
  <2>2. QED
    BY <1>6, <2>1, PostedFollows DEF RowsFrame
<1>7. CASE pc = "probes" /\ StartProbes
  <2>1. rows' = rows \/ rows' = rows \cup {<<"probe", FALSE>>}
    BY <1>7 DEF StartProbes
  <2>2. QED
    BY <1>1, <1>7, <2>1, MoreFollows DEF RowsFrame
<1>8. CASE pc = "probe" /\ ProbeStep
  <2>1. CASE rows' = Removed("delete-probe", token, "probe", rows)
    BY <1>8, <2>1, RemovedFollows DEF RowsFrame
  <2>2. CASE rows' = Edited("put-probe", token, "probe", rows)
    BY <1>8, <2>2, EditedFollows DEF RowsFrame
  <2>3. CASE rows' = Posted("other", token, "other", Posted("want", token, "want", rows))
    <3> DEFINE mid == Posted("want", token, "want", rows)
    <3>1. Follows(rows, mid)
      BY PostedFollows
    <3>2. Follows(mid, rows')
      BY <2>3, PostedFollows
    <3>3. QED
      BY <1>8, <3>1, <3>2, FollowsOn DEF RowsFrame
  <2>4. QED
    BY <1>1, <1>8, <2>1, <2>2, <2>3, ProbeRows
<1>9. CASE pc = "live" /\ Live
  <2>1. rows' = rows \/ rows' = rows \cup {<<"live", FALSE>>}
    BY <1>9, LiveWrites
  <2>2. QED
    BY <1>1, <1>9, <2>1, MoreFollows DEF RowsFrame
<1>10. CASE \/ Auth \/ Login \/ Logout \/ Errors \/ Services \/ Journey \/ Local \/ Judge
            \/ UNCHANGED vars
  BY <1>1, <1>10 DEF Auth, Login, Logout, Errors, Services, Journey, Local, Judge, vars, app
<1>11. QED
  BY <1>2, <1>3, <1>4, <1>5, <1>6, <1>7, <1>8, <1>9, <1>10, WhoseTurn

LEMMA CreateToldKept ==
  ASSUME RecordInv, CreateTold, [Next]_vars
  PROVE  CreateTold'
<1>1. RunTyped /\ TestsThere /\ TokenIsLogin /\ RunFrame
  BY FrameHolds DEF RecordInv
<1>2. CASE pc = "create" /\ Create /\ RecordsPath
  <2>1. tests'["create"] = "PASS" => Answers("create") /\ Open(token)
    BY <1>2, CreateWrites, Passes DEF Ok
  <2>2. tests'["invalid-input"] = "PASS" => ~Open(token) \/ "validates" \in does
    BY <1>2, CreateWrites, Passes
  <2>3. tests'["read"] = "PASS" => <<"acc", FALSE>> \in Listed("read", token, rows')
    BY <1>2, CreateWrites, Passes
  <2>4. tests'["read"] = "PASS" => "stores" \in does
    BY <2>3 DEF Listed, Fake
  <2>5. QED
    BY <2>1, <2>2, <2>4, InputStays, AnswersReaches DEF CreateTold, Is, Open
<1>3. CASE tests' = tests
  BY <1>3, InputStays DEF CreateTold, Is
<1>4. CASE pc # "create"
  <2>1. \A t \in Written("create") : SameTest(t)
    BY <1>1, <1>4, SameElse DEF Step, Written
  <2>2. QED
    BY <1>1, <1>4, <2>1, InputStays DEF CreateTold, Is, SameTest, Written
<1>5. QED
  BY <1>2, <1>3, <1>4, WhoseTurn DEF vars, Create

LEMMA UpdateToldKept ==
  ASSUME RecordInv, NotYet, CreateTold, UpdateTold, [Next]_vars
  PROVE  UpdateTold'
<1>1. RunTyped /\ RunFrame /\ RowsFrame
  BY FrameHolds, RowsFrameHolds DEF RecordInv
<1>2. \A r : <<r, TRUE>> \in rows' => "updates" \in does
  BY <1>1 DEF RowsFrame, Follows, UpdateTold
<1>3. CASE pc = "update" /\ Update
  <2>1. tests'["update"] = "PASS" =>
          tests["create"] = "PASS" /\ <<"acc", TRUE>> \in Listed("reread", token, rows')
    <3>1. CASE tests["create"] = "PASS"
      <4>1. tests'["update"] = Result(<<"acc", TRUE>> \in Listed("reread", token, rows'))
        BY <1>3, <3>1, UpdateWrites
      <4>2. QED
        BY <3>1, <4>1 DEF Result
    <3>2. CASE tests["create"] # "PASS"
      BY <1>3, <3>2, UpdateWrites
    <3>3. QED
      BY <3>1, <3>2
  <2>2. tests'["update"] = "PASS" => "stores" \in does /\ <<"acc", TRUE>> \in rows'
    BY <2>1 DEF Listed, Fake
  <2>3. SameTest("create") /\ token' = token /\ session' = session
    BY <1>1, <1>3, SameElse DEF Step, Written, RunFrame
  <2>4. Is("create", "PASS")' => Open(token)
    BY <1>3, <2>3 DEF UpdateTold, Is, SameTest
  <2>5. Open(token)' <=> Open(token)
    BY <2>3, InputStays DEF Open
  <2>6. QED
    BY <1>2, <2>2, <2>4, <2>5, InputStays DEF UpdateTold, Is
<1>4. CASE pc = "create" /\ Create /\ pc' = "update"
  <2>1. RecordsPath
    BY <1>1, <1>4 DEF RunFrame
  <2>2. tests'["create"] = "PASS" => Answers("create") /\ Open(token)
    BY <1>4, <2>1, CreateWrites, Passes DEF Ok
  <2>3. "update" \notin DOMAIN tests /\ SameTest("update") /\ token' = token /\ session' = session
    BY <1>1, <1>4, SameElse DEF NotYet, Recording, Step, Written, Past, Until, RunFrame
  <2>4. Open(token)' <=> Open(token)
    BY <2>3, InputStays DEF Open
  <2>5. QED
    BY <1>2, <1>4, <2>2, <2>3, <2>4, InputStays DEF UpdateTold, Is, SameTest
<1>5. CASE pc' = pc
  <2>1. tests' = tests /\ token' = token /\ session' = session
    BY <1>1, <1>5 DEF RunFrame
  <2>2. Open(token)' <=> Open(token)
    BY <2>1, InputStays DEF Open
  <2>3. pc = "delete" => rows' = rows
    BY <1>5, WhoseTurn DEF Delete, Goto, vars, app
  <2>4. QED
    BY <1>2, <1>5, <2>1, <2>2, <2>3, InputStays DEF UpdateTold, Is
<1>6. CASE pc \notin {"create", "update"} /\ pc' \notin {"update", "delete"}
  <2>1. SameTest("update")
    BY <1>1, <1>6, SameElse DEF Step, Written
  <2>2. QED
    BY <1>2, <1>6, <2>1, InputStays DEF UpdateTold, Is, SameTest
<1>7. CASE pc = "create" /\ pc' = "errors"
  <2>1. SameTest("update")
    BY <1>1, <1>7, SameElse DEF Step, Written
  <2>2. QED
    BY <1>2, <1>7, <2>1, InputStays DEF UpdateTold, Is, SameTest
<1>8. QED
  BY <1>1, <1>3, <1>4, <1>5, <1>6, <1>7, WhoseTurn DEF RunFrame, vars

LEMMA DeleteToldKept ==
  ASSUME RecordInv, NotYet, CreateTold, UpdateTold, DeleteTold, [Next]_vars
  PROVE  DeleteTold'
<1> DEFINE T == {"create", "update", "delete", "read-missing"}
<1>1. RunTyped /\ RunFrame
  BY FrameHolds DEF RecordInv
<1>2. CASE pc = "delete" /\ Delete
  <2>1. SUFFICES ASSUME \A t \in T : Is(t, "PASS")', "deletes" \notin does
                 PROVE  FALSE
    BY InputStays DEF DeleteTold
  <2>2. SameTest("create") /\ SameTest("update")
    BY <1>1, <1>2, SameElse DEF Step, Written
  <2>3. Is("create", "PASS") /\ Is("update", "PASS")
    BY <2>1, <2>2 DEF Is, SameTest
  <2>4. Open(token) /\ <<"acc", TRUE>> \in rows /\ "stores" \in does /\ "up" \in does
    BY <1>2, <2>3 DEF UpdateTold, CreateTold
  <2>5. rows' = rows
    BY <1>2, <2>1, DeleteWrites DEF Removed
  <2>6. <<"acc", TRUE>> \notin Listed("relist", token, rows')
    <3>1. tests'["delete"] = Result(<<"acc", TRUE>> \notin Listed("relist", token, rows'))
      BY <1>2, <2>3, DeleteWrites DEF Is
    <3>2. QED
      BY <2>1, <3>1, Passes DEF Is
  <2>7. ~Got("missing", token, "acc", rows')
    <3>1. tests'["read-missing"] = Result(/\ ~Got("missing", token, "acc", rows')
                                          /\ ~Holds("acc", Listed("list-missing", token, rows')))
      BY <1>2, <2>3, DeleteWrites DEF Is
    <3>2. QED
      BY <2>1, <3>1, Passes DEF Is
  <2>8. lost.call = "relist"
    BY <2>4, <2>5, <2>6 DEF Listed, Ok, Answers, Fake
  <2>9. Holds("acc", rows')
    BY <2>4, <2>5 DEF Holds, Without
  <2>10. QED
    BY <2>4, <2>7, <2>8, <2>9 DEF Got, Ok, Answers
<1>3. CASE pc # "delete"
  <2>1. SameTest("delete")
    BY <1>1, <1>3, SameElse DEF Step, Written
  <2>2. CASE "delete" \notin DOMAIN tests
    BY <2>1, <2>2 DEF DeleteTold, Is, SameTest
  <2>3. CASE "delete" \in DOMAIN tests
    <3>1. pc \notin {"create", "update"}
      BY <2>3 DEF NotYet, Recording, Written, Past, Until
    <3>2. \A t \in T : SameTest(t)
      BY <1>1, <1>3, <3>1, SameElse DEF Step, Written
    <3>3. QED
      BY <3>2, InputStays DEF DeleteTold, Is, SameTest
  <2>4. QED
    BY <2>2, <2>3
<1>4. QED
  BY <1>2, <1>3, <1>1, WhoseTurn, InputStays DEF vars, DeleteTold, Is

LEMMA RefreshToldKept ==
  ASSUME RecordInv, RefreshTold, [Next]_vars
  PROVE  RefreshTold'
<1>1. RunTyped /\ RowsFrame
  BY RowsFrameHolds DEF RecordInv
<1>2. CASE pc = "refresh" /\ Refresh
  <2>1. tests'["refresh"] = "PASS" =>
          Ok("again", token) /\ <<"survives", FALSE>> \in Listed("refresh", token, rows')
    BY <1>2, RefreshWrites, Passes
  <2>2. QED
    BY <2>1, InputStays DEF RefreshTold, Is, Ok, Answers, Listed, Fake
<1>3. CASE pc # "refresh"
  <2>1. SameTest("refresh")
    BY <1>1, <1>3, SameElse DEF Step, Written
  <2>2. QED
    BY <1>1, <2>1, InputStays DEF RefreshTold, Is, SameTest, RowsFrame, Follows
<1>4. CASE UNCHANGED vars
  BY <1>4, InputStays DEF RefreshTold, Is, vars, app
<1>5. QED
  BY <1>2, <1>3, <1>4, WhoseTurn

LEMMA RunsToldKept ==
  ASSUME RecordInv, RunsTold, [Next]_vars
  PROVE  RunsTold'
<1>1. RunTyped /\ RunFrame
  BY FrameHolds DEF RecordInv
<1>2. CASE pc = "journey" /\ Journey
  <2>1. tests'["user-journey"] = "PASS" => "runs" \in does
    BY <1>2, JourneyWrites, Passes
  <2>2. QED
    BY <2>1, InputStays DEF RunsTold, Is
<1>3. CASE pc \notin {"journey", "local"}
  <2>1. "user-journey" \notin Written(pc)
    BY <1>1, <1>3 DEF RunTyped, Step, Written
  <2>2. SameTest("user-journey")
    BY <1>1, <2>1 DEF RunFrame
  <2>3. QED
    BY <2>2, InputStays DEF RunsTold, Is, SameTest
<1>4. CASE pc = "local"
  BY <1>1, <1>4, InputStays DEF RunTyped, RunsTold
<1>5. CASE UNCHANGED vars
  BY <1>5, InputStays DEF RunsTold, Is, vars
<1>6. QED
  BY <1>2, <1>3, <1>4, <1>5, WhoseTurn

-----------------------------------------------------------------------------
\* What the probes that passed show of the app.

\* A feature that is sorted by was asked for, and stands where the catalogue has it.
LEMMA SortedFeatures ==
  ASSUME NEW d, NEW n \in DOMAIN Features(d), Features(d)[n] = "sort"
  PROVE  /\ \A m \in 1..(n - 1) : Features(d)[m] \in d.words
         /\ "search" \in d.words => \E m \in 1..(n - 1) : Features(d)[m] = "search"
<1> DEFINE extra == OnlyIn(<<"delete", "read">>, Feature \ ToSet(Asked(d)))
           asked == Asked(d)
<1>1. FeatureOrder \in Seq(Feature) /\ <<"delete", "read">> \in Seq(Feature)
  BY DEF FeatureOrder, Feature, ToSet
<1>2. asked \in Seq(Feature) /\ extra \in Seq(Feature) /\ ToSet(extra) \subseteq {"delete", "read"}
  <2>1. ToSet(<<"delete", "read">>) = {"delete", "read"}
    BY DEF ToSet
  <2>2. asked \in Seq(Feature)
    BY <1>1, OnlyInHas DEF Asked, Detected
  <2> HIDE DEF asked
  <2>3. extra \in Seq(Feature) /\ ToSet(extra) = {"delete", "read"} \cap (Feature \ ToSet(Asked(d)))
    BY <1>1, <2>1, OnlyInHas
  <2>4. QED
    BY <2>2, <2>3
<1>3. Features(d) = asked \/ Features(d) = asked \o extra
  BY DEF Features
<1>4. n \in 1..Len(asked) /\ \A m \in 1..n : Features(d)[m] = asked[m]
  <2> HIDE DEF extra, asked
  <2>1. CASE Features(d) = asked
    <3>1. DOMAIN asked = 1..Len(asked) /\ Len(asked) \in Nat
      BY <1>2
    <3>2. QED
      BY <2>1, <3>1
  <2>2. CASE Features(d) = asked \o extra
    <3> DEFINE u == asked \o extra
    <3>1. /\ DOMAIN u = 1..(Len(asked) + Len(extra)) /\ Len(asked) \in Nat /\ Len(extra) \in Nat
          /\ \A i \in 1..Len(asked) : u[i] = asked[i]
          /\ \A i \in 1..Len(extra) : u[Len(asked) + i] = extra[i]
          /\ DOMAIN extra = 1..Len(extra)
      BY <1>2
    <3> HIDE DEF u
    <3>2. n \in 1..(Len(asked) + Len(extra)) /\ u[n] = "sort" /\ Features(d) = u
      BY <2>2, <3>1 DEF u
    <3>3. n \in 1..Len(asked)
      <4>1. SUFFICES ASSUME n \notin 1..Len(asked)
                     PROVE  FALSE
        OBVIOUS
      <4>2. n - Len(asked) \in 1..Len(extra) /\ Len(asked) + (n - Len(asked)) = n
        BY <3>1, <3>2, <4>1
      <4>3. extra[n - Len(asked)] = "sort"
        BY <3>1, <3>2, <4>2
      <4>4. "sort" \in ToSet(extra)
        BY <3>1, <4>2, <4>3 DEF ToSet
      <4>5. QED
        BY <1>2, <4>4
    <3>4. QED
      BY <3>1, <3>2, <3>3
  <2>3. QED
    BY <1>3, <2>1, <2>2
<1>5. DOMAIN asked = 1..Len(asked) /\ Len(asked) \in Nat
  <2> HIDE DEF asked
  <2>1. QED
    BY <1>2
<1>6. "sort" \in ToSet(asked)
  <2> HIDE DEF asked
  <2>1. QED
    BY <1>4, <1>5 DEF ToSet
<1>7. asked = OnlyIn(FeatureOrder, d.words)
  <2>1. "sort" \notin ToSet(OnlyIn(FeatureOrder, Crud))
    BY <1>1, OnlyInHas DEF Crud
  <2>2. QED
    BY <1>6, <2>1 DEF Asked, Detected
<1> HIDE DEF asked, extra
<1>8. PICK e : Stands(asked, FeatureOrder, d.words, Len(FeatureOrder), e)
  BY <1>1, <1>7, OnlyInIs
<1>9. \A m \in 1..(n - 1) : Features(d)[m] \in d.words
  <2>1. \A m \in 1..(n - 1) : m \in 1..Len(asked) /\ Features(d)[m] = asked[m]
    BY <1>4, <1>5
  <2>2. QED
    BY <1>8, <2>1 DEF Stands
<1>10. ASSUME "search" \in d.words
       PROVE  \E m \in 1..(n - 1) : Features(d)[m] = "search"
  <2>0. Len(FeatureOrder) = 15
    BY DEF FeatureOrder
  <2>1. e[n] \in 1..15 /\ FeatureOrder[e[n]] = "sort"
    <3>1. n \in 1..Len(asked) /\ asked[n] = "sort"
      BY <1>4, <1>5
    <3>2. QED
      BY <1>8, <2>0, <3>1 DEF Stands
  <2>2. e[n] = 6
    BY <2>1 DEF FeatureOrder
  <2>3. 5 \in 1..15 /\ FeatureOrder[5] = "search"
    BY DEF FeatureOrder
  <2>4. PICK m \in 1..Len(asked) : e[m] = 5
    BY <1>8, <1>10, <2>0, <2>3 DEF Stands
  <2>5. asked[m] = "search"
    BY <1>8, <2>3, <2>4 DEF Stands
  <2>6. m < n
    <3>1. ~(n < m)
      BY <1>4, <1>8, <2>2, <2>4 DEF Stands
    <3>2. QED
      BY <1>4, <1>5, <2>2, <2>4, <3>1
  <2>7. m \in 1..(n - 1) /\ m \in 1..n
    BY <1>4, <1>5, <2>4, <2>6
  <2>8. QED
    BY <1>4, <2>5, <2>7
<1>11. QED
  BY <1>9, <1>10

\* The probes have a session and their record.
Ready ==
  /\ lost.call \notin {"relogin", "probe"}
  /\ Is("create", "PASS") /\ Is("refresh", "PASS")
  /\ WantsAuth(c) => Is("register", "PASS") /\ Is("login", "PASS")
Gone(n) == \E m \in 1..(n - 1) : Features(c)[m] = "delete"
ProbesHeld ==
  /\ ~Past("probes") => k = 1
  /\ pc = "probe" /\ Ready =>
       Open(token) /\ (~Gone(k) => \E e \in BOOLEAN : <<"probe", e>> \in rows)

OrderTold(n) ==
  \/ "orders" \in does \/ "text-order" \in says
  \/ Gone(n) /\ \A m \in 1..(n - 1) : Features(c)[m] = "search" => probes[m] # "PASS"
ProbeTold(n) ==
  probes[n] = "PASS" =>
    LET kind == Kind(Features(c)[n]) IN
    /\ kind = "state-transition" => "updates" \in does
    /\ kind = "filter-narrowing" =>
         ("searches" \in does \/ lost.call = "other") /\ \E x \in rows : x[1] = "want"
    /\ kind = "computed-output" => "summary" \in does
    /\ kind = "numeric-total" => "amount" \in does
    /\ kind = "ordering" /\ Ready /\ lost.call # "order" => OrderTold(n)
ProbesTold == \A n \in 1..(k - 1) : ProbeTold(n)

LEMMA ProbedIs ==
  ASSUME RunTyped, NEW pass, Probed(pass)
  PROVE  /\ k' = k + 1 /\ UNCHANGED <<input, pc, user, session, token, rec, tests, verdict>>
         /\ probes'[k] = Result(pass) /\ \A n \in 1..(k - 1) : probes'[n] = probes[n]
<1> DEFINE r == Result(pass)
<1>1. k \in Nat /\ probes \in Seq({"PASS", "FAIL"}) /\ Len(probes) = k - 1 /\ r \in {"PASS", "FAIL"}
  BY DEF RunTyped, Result
<1>2. probes' = Append(probes, r) /\ k' = k + 1
      /\ UNCHANGED <<input, pc, user, session, token, rec, tests, verdict>>
  BY DEF Probed
<1> HIDE DEF r
<1>3. Append(probes, r)[k] = r /\ \A n \in 1..(k - 1) : Append(probes, r)[n] = probes[n]
  BY <1>1
<1>4. QED
  BY <1>2, <1>3 DEF r

\* The probe of a search finds the one record of two.
LEMMA SearchShows ==
  ASSUME FilterNarrowing, RunTyped, probes'[k] = "PASS"
  PROVE  ("searches" \in does \/ lost.call = "other") /\ \E x \in rows' : x[1] = "want"
<1> DEFINE mid == Posted("want", token, "want", rows)
           listed == Listed("filter", token, rows')
           names == {x[1] : x \in listed}
           found == IF "searches" \in does THEN names \cap {"want"} ELSE names
<1>1. rows' = Posted("other", token, "other", mid) /\ Probed(Narrowed(found))
  BY DEF FilterNarrowing
<1>2. Narrowed(found)
  <2> HIDE DEF found
  <2>1. probes'[k] = Result(Narrowed(found))
    BY <1>1, ProbedIs
  <2>2. QED
    BY <2>1 DEF Result
<1>3. "want" \in names
  BY <1>2 DEF Narrowed
<1>4. PICK x \in listed : x[1] = "want"
  BY <1>3
<1>5. x \in rows' /\ Ok("filter", token) /\ ~Fake
  BY <1>4 DEF Listed
<1>6. ASSUME "searches" \notin does, lost.call # "other"
      PROVE  FALSE
  <2>1. Acts("other", token)
    BY <1>5, <1>6 DEF Acts, Ok, Answers, Reaches
  <2>2. <<"other", FALSE>> \in rows'
    BY <1>1, <2>1 DEF Posted
  <2>3. listed = rows'
    BY <1>5 DEF Listed
  <2>4. <<"other", FALSE>>[1] \in names
    BY <2>2, <2>3
  <2>5. QED
    BY <1>2, <1>6, <2>4 DEF Narrowed
<1>7. QED
  BY <1>4, <1>5, <1>6

\* A list that is in order for want of records is one of the record that survives alone.
LEMMA OrderShows ==
  ASSUME Ordering, RunTyped, CreateTold, RefreshTold, ProbesHeld, ProbesTold, Ready,
         lost.call # "order", probes'[k] = "PASS"
  PROVE  OrderTold(k)
<1> DEFINE listed == Listed("order", token, rows)
<1>1. pc = "probe" /\ k <= Len(Features(c)) /\ k \in Nat
  BY DEF Ordering, AtProbe, RunTyped
<1>2. CASE "orders" \in does \/ "text-order" \in says
  BY <1>2 DEF OrderTold
<1>3. CASE ~("orders" \in does \/ "text-order" \in says)
  <2>1. \A x, y \in listed : x = y
    <3> DEFINE one == \A x, y \in listed : x = y
    <3>1. Probed("orders" \in does \/ "text-order" \in says \/ one)
      BY DEF Ordering
    <3> HIDE DEF one
    <3>2. probes'[k] = Result("orders" \in does \/ "text-order" \in says \/ one)
      BY <3>1, ProbedIs
    <3>3. one
      BY <1>3, <3>2 DEF Result
    <3>4. QED
      BY <3>3 DEF one
  <2>2. Open(token) /\ (~Gone(k) => \E e \in BOOLEAN : <<"probe", e>> \in rows)
    BY <1>1 DEF ProbesHeld
  <2>3. "up" \in does /\ "stores" \in does /\ <<"survives", FALSE>> \in rows
    BY DEF Ready, RefreshTold
  <2>4. listed = rows
    BY <2>2, <2>3 DEF Listed, Ok, Answers, Fake
  <2>5. Gone(k)
    BY <2>1, <2>2, <2>3, <2>4
  <2>6. ASSUME NEW m \in 1..(k - 1), Features(c)[m] = "search", probes[m] = "PASS"
        PROVE  FALSE
    <3>1. ProbeTold(m) /\ Kind("search") = "filter-narrowing"
      BY DEF ProbesTold, Kind
    <3>2. PICK x \in rows : x[1] = "want"
      BY <2>6, <3>1 DEF ProbeTold
    <3>3. x = <<"survives", FALSE>>
      BY <2>1, <2>3, <2>4
    <3>4. QED
      BY <3>2, <3>3
  <2>7. QED
    BY <2>5, <2>6 DEF OrderTold
<1>4. QED
  BY <1>2, <1>3

LEMMA TransitionShows ==
  ASSUME StateTransition, RunTyped, UpdateTold, RowsFrame, probes'[k] = "PASS"
  PROVE  "updates" \in does
<1> DEFINE pass == /\ rec /\ Got("probe-get", token, "probe", rows')
                   /\ <<"probe", TRUE>> \in rows'
<1>1. Probed(pass)
  BY DEF StateTransition
<1>2. pass
  <2> HIDE DEF pass
  <2>1. QED
    BY <1>1, ProbedIs DEF Result
<1>3. QED
  BY <1>2 DEF RowsFrame, Follows, UpdateTold

LEMMA ReportShows ==
  ASSUME ComputedOutput, RunTyped, probes'[k] = "PASS"
  PROVE  "summary" \in does
<1> DEFINE pass == "summary-route" \in says /\ Answers("summary") /\ "summary" \in does
<1>1. Probed(pass)
  BY DEF ComputedOutput
<1>2. pass
  <2> HIDE DEF pass
  <2>1. QED
    BY <1>1, ProbedIs DEF Result
<1>3. QED
  BY <1>2

LEMMA TotalShows ==
  ASSUME NumericTotal, RunTyped, probes'[k] = "PASS"
  PROVE  "amount" \in does
<1> DEFINE pass == rec /\ "amount" \in does
<1>1. Probed(pass)
  BY DEF NumericTotal
<1>2. pass
  <2> HIDE DEF pass
  <2>1. QED
    BY <1>1, ProbedIs DEF Result
<1>3. QED
  BY <1>2

LEMMA NotDeliveredFails ==
  ASSUME NotDelivered, RunTyped
  PROVE  probes'[k] # "PASS"
<1>1. Probed(FALSE)
  BY DEF NotDelivered
<1>2. QED
  BY <1>1, ProbedIs DEF Result

\* What the probe of this step shows.
LEMMA ProbeShows ==
  ASSUME RunTyped, CreateTold, UpdateTold, RefreshTold, ProbesHeld, ProbesTold, RowsFrame,
         ProbeStep, k <= Len(Features(c)), probes'[k] = "PASS"
  PROVE  /\ Kind(Current) = "state-transition" => "updates" \in does
         /\ Kind(Current) = "filter-narrowing" =>
              ("searches" \in does \/ lost.call = "other") /\ \E x \in rows' : x[1] = "want"
         /\ Kind(Current) = "computed-output" => "summary" \in does
         /\ Kind(Current) = "numeric-total" => "amount" \in does
         /\ Kind(Current) = "ordering" /\ Ready /\ lost.call # "order" => OrderTold(k)
<1>1. ~JudgeProbes /\ ~NotDelivered
  BY NotDeliveredFails DEF JudgeProbes, RunTyped
<1>2. CASE RoundTrip \/ DeleteProbe
  BY <1>2 DEF RoundTrip, DeleteProbe, AtProbe
<1>3. CASE NumericTotal
  BY <1>3, TotalShows DEF NumericTotal, AtProbe
<1>4. CASE StateTransition
  BY <1>4, TransitionShows DEF StateTransition, AtProbe
<1>5. CASE FilterNarrowing
  <2>1. Kind(Current) = "filter-narrowing"
    BY <1>5 DEF FilterNarrowing, AtProbe
  <2>2. QED
    BY <1>5, <2>1, SearchShows
<1>6. CASE Ordering
  <2>1. Kind(Current) = "ordering"
    BY <1>6 DEF Ordering, AtProbe
  <2>2. QED
    BY <1>6, <2>1, OrderShows
<1>7. CASE ComputedOutput
  BY <1>7, ReportShows DEF ComputedOutput, AtProbe
<1>8. QED
  BY <1>1, <1>2, <1>3, <1>4, <1>5, <1>6, <1>7 DEF ProbeStep

\* A step that is not a probe leaves the probes' results, and what Ready is once they began.
LEMMA ReadyStays ==
  ASSUME RunTyped, [Next]_vars, Past("refresh")
  PROVE  Ready' <=> Ready
<1>1. pc \notin {"auth", "login", "create", "refresh"}
  BY DEF Past, Until
<1>2. /\ SameTest("create") /\ SameTest("refresh") /\ SameTest("register") /\ SameTest("login")
  BY <1>1, SameElse DEF Step, Written
<1>3. QED
  BY <1>2, InputStays DEF Ready, Is, SameTest

LEMMA ProbesToldKept ==
  ASSUME RecordInv, CreateTold, UpdateTold, RefreshTold, ProbesHeld, ProbesTold, [Next]_vars
  PROVE  ProbesTold'
<1>1. RunTyped /\ RunFrame /\ RowsFrame
  BY FrameHolds, RowsFrameHolds DEF RecordInv
<1>2. SUFFICES ASSUME NEW n \in 1..(k' - 1)
               PROVE  ProbeTold(n)'
  BY DEF ProbesTold
<1>3. k # 1 => Past("refresh")
  BY <1>1 DEF ProbesHeld, Past, Until, Step, RunTyped
<1>4. \A x \in rows : x[1] = "want" => x \in rows'
  BY <1>1 DEF RowsFrame, Follows
<1>5. ASSUME n \in 1..(k - 1), \A m \in 1..(k - 1) : probes'[m] = probes[m]
      PROVE  ProbeTold(n)'
  <2>1. ProbeTold(n) /\ probes'[n] = probes[n] /\ k # 1 /\ k \in Nat
    BY <1>1, <1>5 DEF ProbesTold, RunTyped
  <2>2. \A m \in 1..(n - 1) : probes'[m] = probes[m]
    BY <1>5, <2>1
  <2>3. (Ready' <=> Ready) /\ (OrderTold(n) => OrderTold(n)')
    BY <1>1, <1>3, <2>1, <2>2, ReadyStays, InputStays DEF OrderTold, Gone
  <2>4. QED
    BY <1>4, <2>1, <2>3, InputStays DEF ProbeTold
<1>6. CASE k' = k /\ probes' = probes
  BY <1>5, <1>6
<1>7. CASE ProbeStep /\ k <= Len(Features(c)) /\ k' = k + 1
  <2>1. \A m \in 1..(k - 1) : probes'[m] = probes[m]
    <3>1. ~JudgeProbes
      BY <1>1, <1>7 DEF JudgeProbes, RunTyped
    <3>2. \E pass : Probed(pass)
      BY <1>7, <3>1 DEF ProbeStep, NotDelivered, RoundTrip, DeleteProbe, NumericTotal,
         StateTransition, FilterNarrowing, Ordering, ComputedOutput
    <3>3. QED
      BY <1>1, <3>2, ProbedIs
  <2>2. CASE n \in 1..(k - 1)
    BY <1>5, <2>1, <2>2
  <2>3. CASE n = k /\ probes'[k] = "PASS"
    <3>1. /\ Kind(Current) = "state-transition" => "updates" \in does
          /\ Kind(Current) = "filter-narrowing" =>
               ("searches" \in does \/ lost.call = "other") /\ \E x \in rows' : x[1] = "want"
          /\ Kind(Current) = "computed-output" => "summary" \in does
          /\ Kind(Current) = "numeric-total" => "amount" \in does
          /\ Kind(Current) = "ordering" /\ Ready /\ lost.call # "order" => OrderTold(k)
      BY <1>1, <1>7, <2>3, ProbeShows
    <3>2. Past("refresh")
      BY <1>7, WhoseTurn DEF ProbeStep, NotDelivered, RoundTrip, DeleteProbe, NumericTotal,
         StateTransition, FilterNarrowing, Ordering, ComputedOutput, JudgeProbes, AtProbe, Past,
         Until
    <3>3. (Ready' <=> Ready) /\ (OrderTold(n) => OrderTold(n)')
      BY <1>1, <2>1, <2>3, <3>2, ReadyStays, InputStays DEF OrderTold, Gone
    <3>4. Features(c')[n] = Current
      BY <2>3, InputStays DEF Current
    <3>5. QED
      BY <2>3, <3>1, <3>3, <3>4, InputStays DEF ProbeTold
  <2>4. CASE n = k /\ probes'[k] # "PASS"
    BY <2>4 DEF ProbeTold
  <2>5. n \in 1..(k - 1) \/ n = k
    BY <1>1, <1>7 DEF RunTyped
  <2>6. QED
    BY <2>2, <2>3, <2>4, <2>5
<1>8. QED
  BY <1>1, <1>6, <1>7, ProbeDoes, WhoseTurn DEF RunFrame, vars

LEMMA ProbesHeldKept ==
  ASSUME RecordInv, AuthTold, LoginTold, CreateTold, RefreshTold, ProbesHeld, [Next]_vars
  PROVE  ProbesHeld'
<1>1. RunTyped /\ RunFrame /\ TokenIsLogin
  BY FrameHolds DEF RecordInv
<1>2. ~Past("probes")' => k' = 1
  <2>1. ~Past("probes")' => ~Past("probes") /\ pc # "probe"
    BY <1>1 DEF RunFrame, RunTyped, Past, Until, Step
  <2>2. QED
    BY <1>1, <2>1 DEF RunFrame, ProbesHeld
<1>3. CASE pc = "probes" /\ StartProbes /\ Ready'
  <2>1. Ready
    <3>1. Past("refresh")
      BY <1>3 DEF Past, Until
    <3>2. QED
      BY <1>1, <1>3, <3>1, ReadyStays
  <2>2. "up" \in does /\ "roundtrip" \in says /\ "stores" \in does
    BY <2>1 DEF Ready, CreateTold, RefreshTold
  <2>3. WantsAuth(c) => token' /\ session'
    <3>1. SUFFICES ASSUME WantsAuth(c)
                   PROVE  token' /\ session'
      OBVIOUS
    <3>2. ~token
      BY <1>1, <1>3 DEF TokenIsLogin, RunTyped, Past, Until
    <3>3. LoggedIn
      BY <2>1, <3>1, <3>2 DEF LoggedIn, Ready, AuthTold, LoginTold
    <3>4. Answers("relogin")
      BY <2>1, <2>2 DEF Ready, Answers
    <3>5. QED
      BY <1>3, <3>3, <3>4, AnswersReaches DEF StartProbes, EnsureSession
  <2>4. Open(token)'
    BY <2>2, <2>3, InputStays DEF Open
  <2>5. <<"probe", FALSE>> \in rows'
    <3>1. Reaches("probe") /\ ~Fake
      BY <2>1, <2>2 DEF Ready, Reaches, Fake
    <3>2. QED
      BY <1>3, <2>2, <2>3, <3>1 DEF StartProbes
  <2>6. QED
    BY <1>2, <2>4, <2>5 DEF ProbesHeld
<1>4. CASE pc = "probe" /\ ProbeStep /\ pc' = "probe" /\ Ready'
  <2>1. Ready
    <3>1. Past("refresh")
      BY <1>4 DEF Past, Until
    <3>2. QED
      BY <1>1, <1>4, <3>1, ReadyStays
  <2>2. Open(token) /\ (~Gone(k) => \E e \in BOOLEAN : <<"probe", e>> \in rows)
    BY <1>4, <2>1 DEF ProbesHeld
  <2>3. k' = k + 1 /\ k \in Nat /\ k <= Len(Features(c))
    BY <1>1, <1>4, ProbeDoes DEF RunTyped
  <2>4. token' = token /\ session' = session
    BY <1>4, ProbeDoes
  <2>5. Open(token)'
    BY <2>2, <2>4, InputStays DEF Open
  <2>6. ~Gone(k)' => ~Gone(k) /\ Current # "delete"
    <3>1. \A m \in 1..(k - 1) : m \in 1..(k' - 1)
      BY <2>3
    <3>2. k \in 1..(k' - 1) \/ k = 0
      BY <2>3
    <3>3. k # 0
      BY <1>1 DEF RunTyped
    <3>4. QED
      BY <3>1, <3>2, <3>3, InputStays DEF Gone, Current
  <2>7. ASSUME NEW e \in BOOLEAN, <<"probe", e>> \in rows, Current # "delete"
        PROVE  \E b \in BOOLEAN : <<"probe", b>> \in rows'
    <3>1. CASE rows' = rows
      BY <2>7, <3>1
    <3>2. CASE rows' = Edited("put-probe", token, "probe", rows)
      BY <2>7, <3>2 DEF Edited
    <3>3. CASE rows' = Posted("other", token, "other", Posted("want", token, "want", rows))
      BY <2>7, <3>3 DEF Posted
    <3>4. QED
      BY <1>4, <2>7, <3>1, <3>2, <3>3, ProbeRows
  <2>8. QED
    BY <1>2, <2>2, <2>5, <2>6, <2>7 DEF ProbesHeld
<1>5. CASE UNCHANGED vars
  BY <1>2, <1>5 DEF vars, input, app, ProbesHeld, Ready, Is, Open, Gone
<1>6. CASE pc' # "probe" \/ ~Ready'
  BY <1>2, <1>6 DEF ProbesHeld
<1>7. pc' = "probe" =>
        \/ pc = "probes" /\ StartProbes
        \/ pc = "probe" /\ ProbeStep
        \/ UNCHANGED vars
  <2>1. pc' = "probe" => pc \in {"probe", "probes"}
    BY <1>1 DEF RunFrame
  <2>2. QED
    BY <2>1, WhoseTurn
<1>8. QED
  BY <1>3, <1>4, <1>5, <1>6, <1>7

CoreTold ==
  Is("core-feature", "PASS") =>
    k > Len(Features(c)) /\ \A n \in 1..(k - 1) : probes[n] = "PASS"
JudgedTold ==
  verdict.status = "passed" =>
    pc = "done" /\ "clean" \in does /\ \A t \in Owed(c) : Is(t, "PASS")

LEMMA CoreToldKept ==
  ASSUME RecordInv, NotYet, CoreTold, [Next]_vars
  PROVE  CoreTold'
<1>1. RunTyped /\ RunFrame
  BY FrameHolds DEF RecordInv
<1>2. CASE pc = "probe" /\ JudgeProbes
  <2>1. DOMAIN probes = 1..(k - 1)
    BY <1>1 DEF RunTyped
  <2>2. tests'["core-feature"] = "PASS" => \A n \in DOMAIN probes : probes[n] = "PASS"
    <3> DEFINE all == \A n \in DOMAIN probes : probes[n] = "PASS"
    <3>1. tests'["core-feature"] = Result(all)
      BY <1>2, JudgeProbesWrites
    <3> HIDE DEF all
    <3>2. tests'["core-feature"] = "PASS" => all
      BY <3>1 DEF Result
    <3>3. QED
      BY <3>2 DEF all
  <2>3. k > Len(Features(c)) /\ k' = k /\ probes' = probes
    BY <1>2 DEF JudgeProbes
  <2>4. QED
    BY <2>1, <2>2, <2>3, InputStays DEF CoreTold, Is
<1>3. CASE pc = "probe" /\ ProbeStep /\ tests' = tests
  <2>1. "core-feature" \notin DOMAIN tests
    BY <1>3 DEF NotYet, Recording, Written, Past, Until, Step
  <2>2. QED
    BY <1>3, <2>1 DEF CoreTold, Is
<1>4. CASE pc # "probe"
  <2>1. SameTest("core-feature")
    BY <1>1, <1>4, SameElse DEF Step, Written
  <2>2. QED
    BY <1>1, <1>4, <2>1, InputStays DEF CoreTold, Is, SameTest, RunFrame
<1>5. CASE UNCHANGED vars
  BY <1>5 DEF vars, input, CoreTold, Is
<1>6. ProbeStep => JudgeProbes \/ tests' = tests
  BY DEF ProbeStep, NotDelivered, RoundTrip, DeleteProbe, NumericTotal, StateTransition,
     FilterNarrowing, Ordering, ComputedOutput, Probed
<1>7. QED
  BY <1>2, <1>3, <1>4, <1>5, <1>6, WhoseTurn

LEMMA PassedVerdict ==
  ASSUME Verdict.status = "passed"
  PROVE  "clean" \in does /\ \A t \in Owed(c) : Is(t, "PASS")
  BY DEF Verdict, Failed, Blocked

LEMMA JudgedToldKept ==
  ASSUME RecordInv, JudgedTold, [Next]_vars
  PROVE  JudgedTold'
<1>1. RunTyped /\ RunFrame
  BY FrameHolds DEF RecordInv
<1>2. CASE pc = "judge" /\ Judge
  <2>1. verdict' = Verdict /\ tests' = tests /\ pc' = "done"
    BY <1>2 DEF Judge, Goto
  <2>2. QED
    BY <2>1, PassedVerdict, InputStays DEF JudgedTold, Is
<1>3. CASE pc # "done" /\ pc # "judge"
  <2>1. verdict' = NoVerdict
    BY <1>1, <1>3 DEF RunTyped, RunFrame
  <2>2. QED
    BY <2>1 DEF JudgedTold, NoVerdict
<1>4. CASE UNCHANGED vars
  BY <1>4 DEF vars, input, JudgedTold, Is
<1>5. QED
  BY <1>2, <1>3, <1>4, WhoseTurn

ToldInv ==
  /\ RecordInv /\ NotYet
  /\ ContractTold /\ AuthTold /\ LoginTold /\ CreateTold /\ UpdateTold /\ DeleteTold /\ RefreshTold
  /\ LogoutTold /\ LateTold /\ LiveTold /\ RunsTold
  /\ ProbesHeld /\ ProbesTold /\ CoreTold /\ JudgedTold

LEMMA ToldAtFirst == Init => ToldInv
<1> SUFFICES ASSUME Init PROVE ToldInv
  OBVIOUS
<1>1. RecordInv /\ DOMAIN tests = {} /\ rows = {} /\ k = 1 /\ verdict = NoVerdict
      /\ pc \in {"contract", "local"}
  BY RecordAtFirst, NoTests DEF Init
<1>2. NotYet
  BY <1>1 DEF NotYet
<1>3. ContractTold /\ AuthTold /\ LogoutTold /\ LateTold /\ LiveTold /\ RunsTold /\ CoreTold
  BY <1>1 DEF ContractTold, AuthTold, LogoutTold, LateTold, LiveTold, RunsTold, CoreTold, Is
<1>4. LoginTold /\ CreateTold /\ UpdateTold /\ DeleteTold /\ RefreshTold
  BY <1>1 DEF LoginTold, CreateTold, UpdateTold, DeleteTold, RefreshTold, Is, Past, Until
<1>5. ProbesHeld /\ ProbesTold
  <2>1. 1..(k - 1) = {}
    BY <1>1
  <2>2. QED
    BY <1>1, <2>1 DEF ProbesHeld, ProbesTold
<1>6. JudgedTold
  BY <1>1 DEF JudgedTold, NoVerdict
<1>7. QED
  BY <1>1, <1>2, <1>3, <1>4, <1>5, <1>6 DEF ToldInv

LEMMA ToldKept == ToldInv /\ [Next]_vars => ToldInv'
<1> SUFFICES ASSUME ToldInv, [Next]_vars PROVE ToldInv'
  OBVIOUS
<1>1. RecordInv' /\ NotYet'
  BY RecordKept, NotYetKept DEF ToldInv, RecordInv
<1>2. ContractTold' /\ AuthTold' /\ LoginTold' /\ CreateTold' /\ UpdateTold'
  BY ContractToldKept, AuthToldKept, LoginToldKept, CreateToldKept, UpdateToldKept DEF ToldInv
<1>3. DeleteTold' /\ RefreshTold' /\ LogoutTold' /\ LateTold' /\ LiveTold' /\ RunsTold'
  BY DeleteToldKept, RefreshToldKept, LogoutToldKept, LateToldKept, LiveToldKept, RunsToldKept
     DEF ToldInv
<1>4. ProbesHeld' /\ ProbesTold' /\ CoreTold' /\ JudgedTold'
  BY ProbesHeldKept, ProbesToldKept, CoreToldKept, JudgedToldKept DEF ToldInv
<1>5. QED
  BY <1>1, <1>2, <1>3, <1>4 DEF ToldInv

\* What is owed of an app with a server whose verdict is passed.
LEMMA OwedIsShown ==
  ASSUME ToldInv, verdict.status = "passed", Backend(c), NEW t \in Owed(c)
  PROVE  Shown(t) \subseteq does \cup Hidden
<1>1. \A s \in Owed(c) : Is(s, "PASS")
  BY DEF ToldInv, JudgedTold
<1>2. RequiredByArchitecture(c) \subseteq Owed(c)
  BY DEF Owed
<1>3. \A s \in {"create", "read", "update", "delete", "read-missing", "refresh"} : Is(s, "PASS")
  BY <1>1, <1>2 DEF RequiredByArchitecture
<1>4. /\ "stores" \in does /\ "updates" \in does /\ "deletes" \in does /\ "clean" \in does
  BY <1>3 DEF ToldInv, UpdateTold, DeleteTold, JudgedTold
<1>5. Is(t, "PASS")
  BY <1>1
<1>6. CASE t \in {"deployment", "health", "api-contract"}
  BY <1>5, <1>6 DEF ToldInv, ContractTold, Shown, Hidden
<1>7. CASE t \in {"unauthorized", "register", "duplicate-register", "login", "invalid-login",
                  "session", "logout", "post-logout"}
  <2>1. WantsAuth(c)
    BY <1>7, OwedOfServer DEF RequiredByArchitecture
  <2>2. Is("register", "PASS") /\ Is("login", "PASS")
    BY <1>1, <1>2, <2>1 DEF RequiredByArchitecture
  <2>3. QED
    BY <1>5, <1>7, <2>2 DEF ToldInv, AuthTold, LoginTold, LogoutTold, Shown
<1>8. CASE t \in {"create", "read", "refresh", "fake-check", "update", "delete", "read-missing",
                  "database"}
  BY <1>4, <1>8 DEF Shown
<1>9. CASE t = "invalid-input"
  BY <1>3, <1>5, <1>9 DEF ToldInv, CreateTold, Shown
<1>10. CASE t \in {"error-path", "android-launch", "realtime", "user-journey"}
  BY <1>5, <1>10 DEF ToldInv, LateTold, LiveTold, RunsTold, Shown
<1>11. CASE t \in {"core-feature", "external-service"}
  BY <1>11 DEF Shown
<1>12. QED
  BY <1>6, <1>7, <1>8, <1>9, <1>10, <1>11, OwedOfServer DEF RequiredByArchitecture

\* And the features that were asked for.
LEMMA FeaturesAreShown ==
  ASSUME ToldInv, verdict.status = "passed", Backend(c), NEW n \in DOMAIN Features(c)
  PROVE  FeatureShown(Features(c)[n]) \subseteq does \cup Hidden
<1> DEFINE F == Features(c)
           f == F[n]
<1>1. \A s \in Owed(c) : Is(s, "PASS")
  BY DEF ToldInv, JudgedTold
<1>2. RequiredByArchitecture(c) \subseteq Owed(c)
  BY DEF Owed
<1>3. \A s \in {"create", "read", "update", "delete", "read-missing", "refresh"} : Is(s, "PASS")
  BY <1>1, <1>2 DEF RequiredByArchitecture
<1>4. "stores" \in does /\ "deletes" \in does
  BY <1>3 DEF ToldInv, UpdateTold, DeleteTold
<1>5. F \in Seq(Feature) /\ F # <<>> /\ n \in 1..Len(F) /\ f \in Feature
  <2>1. F \in Seq(Feature)
    BY FeaturesAreList
  <2> HIDE DEF F
  <2>2. QED
    BY <2>1 DEF F
<1>6. Is("core-feature", "PASS")
  BY <1>1, <1>2, <1>5 DEF RequiredByArchitecture
<1>7. \A m \in 1..n : m \in 1..(k - 1) /\ probes[m] = "PASS"
  <2>1. k > Len(F) /\ \A m \in 1..(k - 1) : probes[m] = "PASS"
    BY <1>6 DEF ToldInv, CoreTold
  <2>2. k \in Nat /\ Len(F) \in Nat
    BY <1>5 DEF ToldInv, RecordInv, RunTyped
  <2> HIDE DEF F, f
  <2>3. QED
    BY <1>5, <2>1, <2>2
<1>8. ProbeTold(n) /\ probes[n] = "PASS"
  <2>1. n \in 1..n
    BY <1>5
  <2>2. QED
    BY <1>7, <2>1 DEF ToldInv, ProbesTold
<1>9. CASE Kind(f) = "roundtrip"
  BY <1>4, <1>9 DEF FeatureShown
<1>10. CASE Kind(f) \in {"state-transition", "computed-output", "numeric-total"}
  BY <1>8, <1>10 DEF ProbeTold, FeatureShown
<1>11. CASE Kind(f) = "filter-narrowing"
  BY <1>8, <1>11 DEF ProbeTold, FeatureShown, Hidden
<1>12. CASE Kind(f) = "ordering"
  <2>1. f = "sort"
    BY <1>5, <1>12 DEF Kind, Feature, FeatureOrder, ToSet
  <2>2. CASE lost.call \in {"relogin", "probe", "order"}
    BY <1>12, <2>2 DEF FeatureShown, Hidden
  <2>3. CASE lost.call \notin {"relogin", "probe", "order"}
    <3>1. Ready
      BY <1>1, <1>2, <1>3, <2>3 DEF Ready, RequiredByArchitecture
    <3>2. OrderTold(n)
      BY <1>8, <1>12, <2>3, <3>1 DEF ProbeTold
    <3>3. Gone(n) => "delete" \in c.words
      BY <2>1, SortedFeatures DEF Gone
    <3>4. "search" \in c.words =>
            \E m \in 1..(n - 1) : F[m] = "search" /\ probes[m] = "PASS"
      <4>1. SUFFICES ASSUME "search" \in c.words
                     PROVE  \E m \in 1..(n - 1) : F[m] = "search" /\ probes[m] = "PASS"
        OBVIOUS
      <4>2. PICK m \in 1..(n - 1) : F[m] = "search"
        BY <2>1, <4>1, SortedFeatures
      <4>3. m \in 1..n
        BY <1>5
      <4>4. QED
        BY <1>7, <4>2, <4>3
    <3>5. QED
      BY <1>12, <3>2, <3>3, <3>4 DEF OrderTold, FeatureShown, OneRecord
  <2>4. QED
    BY <2>2, <2>3
<1>13. QED
  BY <1>5, <1>9, <1>10, <1>11, <1>12 DEF Kind, Feature, FeatureOrder, ToSet

\* An app with a server that is accepted does all that is owed and has the features that were
\* asked for, but for what a call without an answer hides (production-runtime.js).
THEOREM AcceptedAppDoesAll == Spec => []PassedIsTrue
<1>1. ToldInv => PassedIsTrue
  <2>1. SUFFICES ASSUME ToldInv, verdict.status = "passed", Backend(c)
                 PROVE  /\ \A t \in Owed(c) : Shown(t) \subseteq does \cup Hidden
                        /\ \A f \in ToSet(Features(c)) : FeatureShown(f) \subseteq does \cup Hidden
    BY DEF PassedIsTrue
  <2>2. QED
    BY <2>1, OwedIsShown, FeaturesAreShown DEF ToSet
<1>2. QED
  BY <1>1, ToldAtFirst, ToldKept, PTL DEF Spec

-----------------------------------------------------------------------------
\* A perfect app.

Perfect ==
  /\ does = Behaviour /\ Kinds \cup {"summary-route"} \subseteq says
  /\ lost.call = "none" /\ InOrder
  /\ c.services \subseteq {"weather", "maps", "translation"} \cap creds

AllPass == \A t \in DOMAIN tests : tests[t] = "PASS"
\* The record of the lifecycle is there alone, and edited once it is updated.
OneAtATime ==
  /\ pc \in {"contract", "auth", "login", "create"} => rows = {}
  /\ pc = "update" => rows = {<<"acc", FALSE>>}
  /\ pc = "delete" => rows = {<<"acc", TRUE>>}
SignedIn ==
  /\ Past("auth") /\ WantsAuth(c) => user
  /\ Past("login") /\ ~Past("logout") /\ WantsAuth(c) => token /\ session
  /\ pc \in {"probe", "live"} /\ token => session
\* The record of the probes is there until it is deleted, as it was until it is edited.
Moved(n) == \E m \in 1..(n - 1) : Kind(Features(c)[m]) = "state-transition"
ProbeThere ==
  pc = "probe" =>
    /\ rec /\ Open(token)
    /\ ~Gone(k) => \E e \in BOOLEAN : <<"probe", e>> \in rows
    /\ ~Gone(k) /\ ~Moved(k) => <<"probe", FALSE>> \in rows
ProbesPass == \A n \in 1..(k - 1) : probes[n] = "PASS"
PerfectParts ==
  /\ AllPass /\ OneAtATime /\ SignedIn /\ ProbeThere /\ ProbesPass
  /\ pc = "done" => verdict.status = "passed"

LEMMA PerfectDoes ==
  ASSUME Perfect
  PROVE  /\ "up" \in does /\ "health" \in does /\ "contract" \in does /\ "guards" \in does
         /\ "registers" \in does /\ "unique" \in does /\ "password" \in does /\ "token" \in does
         /\ "validates" \in does /\ "stores" \in does /\ "updates" \in does /\ "deletes" \in does
         /\ "logout" \in does /\ "unknown404" \in does /\ "searches" \in does /\ "orders" \in does
         /\ "summary" \in does /\ "amount" \in does /\ "live" \in does /\ "launches" \in does
         /\ "keeps" \in does /\ "catches" \in does /\ "runs" \in does /\ "clean" \in does
  BY DEF Perfect, Behaviour
LEMMA PerfectAnswers ==
  ASSUME Perfect
  PROVE  /\ \A q : q # "none" => Answers(q) /\ Reaches(q)
         /\ ~Fake
  BY PerfectDoes DEF Perfect, Answers, Reaches, Fake
LEMMA PerfectSays ==
  ASSUME Perfect
  PROVE  /\ \A f \in Feature : Kind(f) \in says
         /\ "roundtrip" \in says /\ "summary-route" \in says /\ RecordsPath
<1>1. Kind("create") = "roundtrip" /\ "create" \in Feature
  BY DEF Kind, Feature, FeatureOrder, ToSet
<1>2. QED
  BY <1>1 DEF Perfect, Kinds, RecordsPath
LEMMA PerfectStays ==
  ASSUME [Next]_vars
  PROVE  Perfect' <=> Perfect
  BY FrameHolds DEF RunFrame, input, Perfect, InOrder
\* What it is asked for it does to a caller that is let in.
Plus(r, rs) == rs \cup {<<r, FALSE>>}
Changed(r, rs) == (rs \ {<<r, FALSE>>}) \cup {<<r, TRUE>>}
LEMMA PerfectServes ==
  ASSUME NEW q, NEW t, Perfect, Open(t), q # "none"
  PROVE  Ok(q, t) /\ Acts(q, t)
  BY PerfectAnswers DEF Ok, Acts
LEMMA PerfectLists ==
  ASSUME NEW q, NEW t, NEW rs, Perfect, Open(t), q # "none"
  PROVE  Listed(q, t, rs) = rs
  BY PerfectAnswers DEF Ok, Listed
LEMMA PerfectPosts ==
  ASSUME NEW q, NEW t, NEW r, NEW rs, Perfect, Open(t), q # "none"
  PROVE  Posted(q, t, r, rs) = Plus(r, rs)
  BY PerfectServes DEF Posted, Plus
LEMMA PerfectRemoves ==
  ASSUME NEW q, NEW t, NEW r, NEW rs, Perfect, Open(t), q # "none"
  PROVE  Removed(q, t, r, rs) = Without(r, rs)
  BY PerfectServes, PerfectDoes DEF Removed
LEMMA PerfectEdits ==
  ASSUME NEW q, NEW t, NEW r, NEW rs, Perfect, Open(t), q # "none", <<r, FALSE>> \in rs
  PROVE  Edited(q, t, r, rs) = Changed(r, rs)
  BY PerfectServes, PerfectDoes DEF Edited, Changed

LEMMA AllPassOn ==
  ASSUME AllPass, NEW T, Writes(T), \A t \in T : tests'[t] = "PASS"
  PROVE  AllPass'
  BY DEF AllPass, Writes
LEMMA ResultPass == \A p : p => Result(p) = "PASS"
  BY DEF Result
LEMMA AllPassStays == ASSUME AllPass, tests' = tests PROVE AllPass'
  BY DEF AllPass

LEMMA PerfectContract ==
  ASSUME Perfect, AllPass, Contract
  PROVE  AllPass' /\ rows' = rows
<1>1. tests'["deployment"] = "PASS" /\ tests'["health"] = "PASS" /\ tests'["api-contract"] = "PASS"
  BY ContractWrites, PerfectDoes, PerfectAnswers, PerfectSays DEF Result
<1>2. \A t \in Written("contract") : tests'[t] = "PASS"
  BY <1>1 DEF Written
<1>3. rows' = rows
  BY PerfectDoes DEF Contract
<1>4. QED
  BY <1>2, <1>3, ContractWrites, AllPassOn

LEMMA PerfectAuth ==
  ASSUME Perfect, AllPass, Auth
  PROVE  AllPass' /\ rows' = rows /\ user'
<1>1. Reaches("register")
  BY PerfectAnswers
<1>2. tests'["unauthorized"] = "PASS" /\ tests'["register"] = "PASS"
  BY AuthWrites, PerfectDoes, PerfectAnswers, PerfectSays DEF Result
<1>3. tests'["duplicate-register"] = "PASS" /\ user'
  BY <1>1, AuthWrites, PerfectDoes, PerfectAnswers DEF Result
<1>4. \A t \in Written("auth") : tests'[t] = "PASS"
  BY <1>2, <1>3 DEF Written
<1>5. QED
  BY <1>3, <1>4, AuthWrites, AllPassOn DEF Auth

LEMMA PerfectLogin ==
  ASSUME Perfect, AllPass, Login, user
  PROVE  AllPass' /\ rows' = rows /\ token' /\ session'
<1>1. Answers("login") /\ Reaches("login")
  BY PerfectAnswers
<1>2. tests'["invalid-login"] = "PASS" /\ tests'["login"] = "PASS" /\ tests'["session"] = "PASS"
  BY <1>1, LoginWrites, PerfectDoes, PerfectAnswers, PerfectSays DEF Result
<1>3. \A t \in Written("login") : tests'[t] = "PASS"
  BY <1>2 DEF Written
<1>4. rows' = rows /\ token' /\ session'
  BY <1>1, PerfectDoes DEF Login
<1>5. QED
  BY <1>3, <1>4, LoginWrites, AllPassOn

LEMMA PerfectCreate ==
  ASSUME Perfect, AllPass, Create, Open(token), rows = {}
  PROVE  AllPass' /\ rows' = {<<"acc", FALSE>>}
<1>1. rows' = {<<"acc", FALSE>>}
  <2>1. rows' = Posted("create", token, "acc", {})
    BY CreateWrites, PerfectSays, PerfectDoes DEF Rejected
  <2>2. rows' = Plus("acc", {})
    BY <2>1, PerfectPosts
  <2>3. QED
    BY <2>2 DEF Plus
<1>2. Listed("before", token, Rejected("empty", rows)) = {} /\ Listed("read", token, rows') = rows'
  <2>1. Rejected("empty", rows) = {}
    BY PerfectDoes DEF Rejected
  <2>2. QED
    BY <2>1, PerfectLists
<1>3. tests'["invalid-input"] = "PASS" /\ tests'["create"] = "PASS"
  BY CreateWrites, PerfectSays, PerfectDoes, PerfectAnswers, PerfectServes DEF Result
<1>4. tests'["read"] = "PASS"
  <2>1. tests'["read"] = Result(<<"acc", FALSE>> \in Listed("read", token, rows'))
    BY CreateWrites, PerfectSays
  <2>2. QED
    BY <1>1, <1>2, <2>1 DEF Result
<1>5. tests'["fake-check"] = "PASS"
  <2>1. tests'["fake-check"] = Result(/\ Listed("before", token, Rejected("empty", rows))
                                           # Listed("read", token, rows')
                                      /\ "clean" \in does)
    BY CreateWrites, PerfectSays
  <2>2. QED
    BY <1>1, <1>2, <2>1, PerfectDoes DEF Result
<1>6. \A t \in Written("create") : tests'[t] = "PASS"
  BY <1>3, <1>4, <1>5 DEF Written
<1>7. QED
  BY <1>1, <1>6, CreateWrites, PerfectSays, AllPassOn

LEMMA PerfectUpdate ==
  ASSUME Perfect, AllPass, Update, Open(token), rows = {<<"acc", FALSE>>},
         "create" \in DOMAIN tests
  PROVE  AllPass' /\ rows' = {<<"acc", TRUE>>}
<1>1. tests["create"] = "PASS"
  BY DEF AllPass
<1>2. rows' = {<<"acc", TRUE>>}
  <2>1. rows' = Edited("update", token, "acc", rows)
    BY <1>1, UpdateWrites
  <2>2. <<"acc", FALSE>> \in rows
    OBVIOUS
  <2>3. rows' = Changed("acc", rows)
    BY <2>1, <2>2, PerfectEdits
  <2>4. QED
    BY <2>3 DEF Changed
<1>3. tests'["update"] = "PASS"
  <2>1. tests'["update"] = Result(<<"acc", TRUE>> \in Listed("reread", token, rows'))
    BY <1>1, UpdateWrites
  <2>2. Listed("reread", token, rows') = rows'
    BY PerfectLists
  <2>3. QED
    BY <1>2, <2>1, <2>2 DEF Result
<1>4. \A t \in Written("update") : tests'[t] = "PASS"
  BY <1>3 DEF Written
<1>5. QED
  BY <1>2, <1>4, UpdateWrites, AllPassOn

LEMMA PerfectDelete ==
  ASSUME Perfect, AllPass, Delete, Open(token), rows = {<<"acc", TRUE>>}, "create" \in DOMAIN tests
  PROVE  AllPass'
<1>1. tests["create"] = "PASS"
  BY DEF AllPass
<1>2. rows' = {}
  <2>1. <<"acc", TRUE>>[1] = "acc"
    OBVIOUS
  <2>2. Without("acc", {<<"acc", TRUE>>}) = {}
    BY <2>1 DEF Without
  <2>3. rows' = Removed("delete", token, "acc", rows)
    BY <1>1, DeleteWrites
  <2>4. QED
    BY <2>2, <2>3, PerfectRemoves
<1>3. tests'["delete"] = "PASS"
  <2>1. tests'["delete"] = Result(<<"acc", TRUE>> \notin Listed("relist", token, rows'))
    BY <1>1, DeleteWrites
  <2>2. Listed("relist", token, rows') = {}
    BY <1>2, PerfectLists
  <2>3. QED
    BY <2>1, <2>2 DEF Result
<1>4. tests'["read-missing"] = "PASS"
  <2>1. tests'["read-missing"] = Result(/\ ~Got("missing", token, "acc", rows')
                                        /\ ~Holds("acc", Listed("list-missing", token, rows')))
    BY <1>1, DeleteWrites
  <2>2. ~Holds("acc", rows')
    BY <1>2 DEF Holds, Without
  <2>3. ~Got("missing", token, "acc", rows') /\ Listed("list-missing", token, rows') = rows'
    BY <2>2, PerfectLists, PerfectAnswers DEF Got
  <2>4. QED
    BY <2>1, <2>2, <2>3 DEF Result
<1>5. \A t \in Written("delete") : tests'[t] = "PASS"
  BY <1>3, <1>4 DEF Written
<1>6. QED
  BY <1>5, DeleteWrites, AllPassOn

LEMMA PerfectRefresh ==
  ASSUME Perfect, AllPass, Refresh, Open(token), Lifecycle \subseteq DOMAIN tests
  PROVE  AllPass'
<1> DEFINE there == Ok("again", token) /\ <<"survives", FALSE>> \in Listed("refresh", token, rows')
           all == \A u \in Lifecycle : tests[u] = "PASS"
<1>1. all
  BY DEF AllPass
<1>2. there
  <2>1. rows' = Posted("again", token, "survives", rows)
    BY RefreshWrites
  <2>2. rows' = Plus("survives", rows)
    BY <2>1, PerfectPosts
  <2>3. Ok("again", token) /\ Listed("refresh", token, rows') = rows'
    BY PerfectServes, PerfectLists
  <2>4. QED
    BY <2>2, <2>3 DEF Plus
<1>3. tests'["refresh"] = Result(there) /\ tests'["database"] = Result(there /\ all)
  BY RefreshWrites
<1> HIDE DEF there, all
<1>4. tests'["refresh"] = "PASS" /\ tests'["database"] = "PASS"
  BY <1>1, <1>2, <1>3 DEF Result
<1>5. \A t \in Written("refresh") : tests'[t] = "PASS"
  BY <1>4 DEF Written
<1>6. QED
  BY <1>5, RefreshWrites, AllPassOn

LEMMA PerfectLogout ==
  ASSUME Perfect, AllPass, Logout
  PROVE  AllPass'
<1>1. ~session'
  BY PerfectAnswers, PerfectDoes DEF Logout
<1>2. tests'["logout"] = "PASS" /\ tests'["post-logout"] = "PASS"
  BY <1>1, LogoutWrites, PerfectAnswers, PerfectDoes DEF Result
<1>3. \A t \in Written("logout") : tests'[t] = "PASS"
  BY <1>2 DEF Written
<1>4. QED
  BY <1>3, LogoutWrites, AllPassOn

LEMMA PerfectErrors ==
  ASSUME Perfect, AllPass, Errors
  PROVE  AllPass'
<1> DEFINE T == {"error-path"} \cup (IF c.native THEN {"android-launch"} ELSE {})
<1>1. tests'["error-path"] = "PASS"
  BY ErrorsWrites, PerfectAnswers, PerfectDoes DEF Result
<1>2. c.native => tests'["android-launch"] = "PASS"
  BY ErrorsWrites, PerfectDoes DEF Result
<1>3. \A t \in T : tests'[t] = "PASS"
  BY <1>1, <1>2
<1>4. Writes(T)
  BY ErrorsWrites
<1> HIDE DEF T
<1>5. QED
  BY <1>3, <1>4, AllPassOn

LEMMA PerfectServices ==
  ASSUME Perfect, AllPass, Services
  PROVE  AllPass'
<1> DEFINE called == {s \in c.services : Called(s)}
           real == /\ called # {} /\ \A s \in called : Usable(s)
                   /\ called = c.services \/ (Answers("fabrication") /\ ~Open(token))
<1>1. CASE c.services = {} /\ tests' = tests
  BY <1>1, AllPassStays
<1>2. CASE /\ c.services # {} /\ Writes(Written("services"))
           /\ tests'["external-service"] = Result(real)
  <2>1. \A s \in c.services : Called(s) /\ Usable(s)
    BY DEF Perfect, Called, Usable
  <2>2. called = c.services
    BY <2>1
  <2>3. real
    BY <1>2, <2>1, <2>2
  <2> HIDE DEF real
  <2>4. tests'["external-service"] = "PASS"
    BY <1>2, <2>3 DEF Result
  <2>5. \A t \in Written("services") : tests'[t] = "PASS"
    BY <2>4 DEF Written
  <2>6. QED
    BY <1>2, <2>5, AllPassOn
<1>3. QED
  BY <1>1, <1>2, ServicesWrites

LEMMA PerfectLive ==
  ASSUME Perfect, AllPass, Live, token => session, WantsAuth(c) => user
  PROVE  AllPass'
<1> DEFINE open == /\ "roundtrip" \in says
                   /\ (WantsAuth(c) => "guards" \notin does \/ (token' /\ session'))
           shown == "live" \in does /\ Answers("live") /\ open /\ ~Fake
<1>1. CASE tests' = tests
  BY <1>1, AllPassStays
<1>2. CASE /\ Writes(Written("live")) /\ tests'["realtime"] = Result(shown)
           /\ token' = EnsureSession(token, LoggedIn /\ Answers("live-login"))
           /\ session' = (session \/ (LoggedIn /\ Reaches("live-login")))
  <2>1. Answers("live-login") /\ Reaches("live-login") /\ Answers("live") /\ ~Fake
    BY PerfectAnswers
  <2>2. WantsAuth(c) => token \/ LoggedIn
    BY PerfectDoes DEF LoggedIn
  <2>3. WantsAuth(c) => token' /\ session'
    BY <1>2, <2>1, <2>2 DEF EnsureSession
  <2>4. shown
    BY <2>1, <2>3, PerfectDoes, PerfectSays
  <2> HIDE DEF shown
  <2>5. tests'["realtime"] = "PASS"
    BY <1>2, <2>4 DEF Result
  <2>6. \A t \in Written("live") : tests'[t] = "PASS"
    BY <2>5 DEF Written
  <2>7. QED
    BY <1>2, <2>6, AllPassOn
<1>3. QED
  BY <1>1, <1>2, LiveWrites

LEMMA PerfectLocal ==
  ASSUME Perfect, AllPass, Local
  PROVE  AllPass'
<1>1. /\ tests'["user-journey"] = "PASS" /\ tests'["ui-interaction"] = "PASS"
      /\ tests'["local-persistence"] = "PASS"
  BY LocalWrites, PerfectDoes DEF Result
<1>2. \A t \in Written("local") : tests'[t] = "PASS"
  BY <1>1 DEF Written
<1>3. QED
  BY <1>2, LocalWrites, AllPassOn

LEMMA NextProbe ==
  ASSUME RunTyped, c' = c, k' = k + 1
  PROVE  /\ Gone(k)' <=> (Gone(k) \/ Current = "delete")
         /\ Moved(k)' <=> (Moved(k) \/ Kind(Current) = "state-transition")
<1>1. \A m : m \in 1..(k' - 1) <=> (m \in 1..(k - 1) \/ m = k)
  BY DEF RunTyped
<1>2. QED
  BY <1>1 DEF Gone, Moved, Current

\* The probes stand where the record still is what they look for.
LEMMA ProbesInOrder ==
  ASSUME Perfect, RunTyped, k <= Len(Features(c))
  PROVE  /\ Current \in Feature /\ Kind(Current) \in says
         /\ Kind(Current) \in {"roundtrip", "state-transition"} => ~Gone(k)
         /\ Kind(Current) = "roundtrip" /\ Current # "delete" => ~Moved(k)
<1> DEFINE F == Features(c)
<1>1. k \in DOMAIN F /\ F[k] \in Feature /\ \A m \in 1..(k - 1) : m \in DOMAIN F /\ m < k
  <2>1. F \in Seq(Feature)
    BY FeaturesAreList
  <2>2. k \in Nat /\ k # 0 /\ k <= Len(F)
    BY DEF RunTyped
  <2> HIDE DEF F
  <2>3. QED
    BY <2>1, <2>2
<1>2. \A m, n \in DOMAIN F : m < n =>
        /\ F[m] = "delete" => Kind(F[n]) \notin {"roundtrip", "state-transition"}
        /\ Kind(F[m]) = "state-transition" => (Kind(F[n]) = "roundtrip" => F[n] = "delete")
  BY DEF Perfect, InOrder
<1>3. ~Gone(k) \/ Kind(Current) \notin {"roundtrip", "state-transition"}
  BY <1>1, <1>2 DEF Gone, Current
<1>4. ~Moved(k) \/ Kind(Current) # "roundtrip" \/ Current = "delete"
  BY <1>1, <1>2 DEF Moved, Current
<1>5. QED
  BY <1>1, <1>3, <1>4, PerfectSays DEF Current

\* A probe that passes, on records that are as they were, or one more.
LEMMA ProbeGoesOn ==
  ASSUME Perfect, RunTyped, ProbeThere, pc = "probe", NEW pass, pass, Probed(pass),
         Current # "delete", Kind(Current) # "state-transition", rows \subseteq rows'
  PROVE  probes'[k] = "PASS" /\ ProbeThere'
<1>1. /\ k' = k + 1 /\ UNCHANGED <<c, says, does, pc, session, token, rec>>
      /\ probes'[k] = Result(pass)
  BY ProbedIs DEF input
<1>2. (Gone(k)' <=> Gone(k)) /\ (Moved(k)' <=> Moved(k))
  BY <1>1, NextProbe
<1>3. ProbeThere'
  BY <1>1, <1>2 DEF ProbeThere, Open
<1>4. QED
  BY <1>1, <1>3 DEF Result

LEMMA PerfectRoundTrip ==
  ASSUME Perfect, RunTyped, ProbeThere, RoundTrip
  PROVE  probes'[k] = "PASS" /\ ProbeThere'
<1> DEFINE pass == /\ rec /\ Got("probe-get", token, "probe", rows)
                   /\ <<"probe", FALSE>> \in Listed("probe-list", token, rows)
<1>1. /\ pc = "probe" /\ k <= Len(Features(c)) /\ Kind(Current) = "roundtrip"
      /\ Current # "delete" /\ Probed(pass) /\ rows' = rows
  BY DEF RoundTrip, AtProbe
<1>2. rec /\ Open(token) /\ <<"probe", FALSE>> \in rows
  BY <1>1, ProbesInOrder DEF ProbeThere
<1>3. Holds("probe", rows)
  BY <1>2 DEF Holds, Without
<1>4. pass
  BY <1>2, <1>3, PerfectServes, PerfectLists DEF Got
<1> HIDE DEF pass
<1>5. QED
  BY <1>1, <1>4, ProbeGoesOn

LEMMA PerfectNumericTotal ==
  ASSUME Perfect, RunTyped, ProbeThere, NumericTotal
  PROVE  probes'[k] = "PASS" /\ ProbeThere'
<1> DEFINE pass == rec /\ "amount" \in does
<1>1. pc = "probe" /\ Kind(Current) = "numeric-total" /\ Probed(pass) /\ rows' = rows
  BY DEF NumericTotal, AtProbe
<1>2. pass
  BY <1>1, PerfectDoes DEF ProbeThere
<1>3. Current # "delete"
  BY <1>1 DEF Kind
<1> HIDE DEF pass
<1>4. QED
  BY <1>1, <1>2, <1>3, ProbeGoesOn

LEMMA PerfectOrdering ==
  ASSUME Perfect, RunTyped, ProbeThere, Ordering
  PROVE  probes'[k] = "PASS" /\ ProbeThere'
<1> DEFINE one == \A x, y \in Listed("order", token, rows) : x = y
           pass == "orders" \in does \/ "text-order" \in says \/ one
<1>1. pc = "probe" /\ Kind(Current) = "ordering" /\ Probed(pass) /\ rows' = rows
  BY DEF Ordering, AtProbe
<1> HIDE DEF one
<1>2. pass
  BY PerfectDoes
<1>3. Current # "delete"
  BY <1>1 DEF Kind
<1> HIDE DEF pass
<1>4. QED
  BY <1>1, <1>2, <1>3, ProbeGoesOn

LEMMA PerfectComputedOutput ==
  ASSUME Perfect, RunTyped, ProbeThere, ComputedOutput
  PROVE  probes'[k] = "PASS" /\ ProbeThere'
<1> DEFINE pass == "summary-route" \in says /\ Answers("summary") /\ "summary" \in does
<1>1. pc = "probe" /\ Kind(Current) = "computed-output" /\ Probed(pass) /\ rows' = rows
  BY DEF ComputedOutput, AtProbe
<1>2. pass
  BY PerfectDoes, PerfectSays, PerfectAnswers
<1>3. Current # "delete"
  BY <1>1 DEF Kind
<1> HIDE DEF pass
<1>4. QED
  BY <1>1, <1>2, <1>3, ProbeGoesOn

LEMMA PerfectFilterNarrowing ==
  ASSUME Perfect, RunTyped, ProbeThere, FilterNarrowing
  PROVE  probes'[k] = "PASS" /\ ProbeThere'
<1> DEFINE given == {x[1] : x \in Listed("filter", token, rows')}
           found == IF "searches" \in does THEN given \cap {"want"} ELSE given
           pass == Narrowed(found)
<1>1. /\ pc = "probe" /\ Kind(Current) = "filter-narrowing" /\ Probed(pass)
      /\ rows' = Posted("other", token, "other", Posted("want", token, "want", rows))
  BY DEF FilterNarrowing, AtProbe
<1>2. Open(token)
  BY <1>1 DEF ProbeThere
<1>3. rows' = Plus("other", Plus("want", rows))
  BY <1>1, <1>2, PerfectPosts
<1>4. rows \subseteq rows' /\ <<"want", FALSE>> \in rows'
  BY <1>3 DEF Plus
<1>5. pass
  <2>1. Listed("filter", token, rows') = rows'
    BY <1>2, PerfectLists
  <2>2. <<"want", FALSE>>[1] \in given
    BY <1>4, <2>1
  <2>3. found = given \cap {"want"} /\ "want" \in found
    BY <2>2, PerfectDoes
  <2>4. QED
    BY <2>3 DEF Narrowed
<1>6. Current # "delete"
  BY <1>1 DEF Kind
<1> HIDE DEF pass
<1>7. QED
  BY <1>1, <1>4, <1>5, <1>6, ProbeGoesOn

LEMMA PerfectDeleteProbe ==
  ASSUME Perfect, RunTyped, ProbeThere, DeleteProbe
  PROVE  probes'[k] = "PASS" /\ ProbeThere'
<1> DEFINE pass == /\ rec /\ Ok("delete-probe", token) /\ (Fake \/ Holds("probe", rows))
                   /\ ~Holds("probe", Listed("probe-list", token, rows'))
<1>1. /\ pc = "probe" /\ k <= Len(Features(c)) /\ Kind(Current) = "roundtrip"
      /\ Current = "delete" /\ Probed(pass)
      /\ rows' = IF rec THEN Removed("delete-probe", token, "probe", rows) ELSE rows
  BY DEF DeleteProbe, AtProbe
<1>2. rec /\ Open(token) /\ \E e \in BOOLEAN : <<"probe", e>> \in rows
  BY <1>1, ProbesInOrder DEF ProbeThere
<1>3. rows' = Without("probe", rows)
  BY <1>1, <1>2, PerfectRemoves
<1>4. Holds("probe", rows) /\ ~Holds("probe", rows')
  <2>1. Without("probe", rows') = rows'
    BY <1>3 DEF Without
  <2>2. PICK e \in BOOLEAN : <<"probe", e>> \in rows
    BY <1>2
  <2>3. <<"probe", e>>[1] = "probe"
    OBVIOUS
  <2>4. <<"probe", e>> \notin Without("probe", rows)
    BY <2>3 DEF Without
  <2>5. QED
    BY <2>1, <2>2, <2>4 DEF Holds
<1>5. pass
  BY <1>2, <1>4, PerfectServes, PerfectLists
<1> HIDE DEF pass
<1>6. /\ k' = k + 1 /\ UNCHANGED <<c, says, does, pc, session, token, rec>>
      /\ probes'[k] = Result(pass)
  BY <1>1, ProbedIs DEF input
<1>7. Gone(k)'
  BY <1>1, <1>6, NextProbe
<1>8. QED
  BY <1>2, <1>5, <1>6, <1>7 DEF ProbeThere, Open, Result

LEMMA PerfectStateTransition ==
  ASSUME Perfect, RunTyped, ProbeThere, StateTransition
  PROVE  probes'[k] = "PASS" /\ ProbeThere'
<1> DEFINE pass == /\ rec /\ Got("probe-get", token, "probe", rows')
                   /\ <<"probe", TRUE>> \in rows'
<1>1. /\ pc = "probe" /\ k <= Len(Features(c)) /\ Kind(Current) = "state-transition"
      /\ Probed(pass)
      /\ rows' = IF rec THEN Edited("put-probe", token, "probe", rows) ELSE rows
  BY DEF StateTransition, AtProbe
<1>2. rec /\ Open(token) /\ \E e \in BOOLEAN : <<"probe", e>> \in rows
  BY <1>1, ProbesInOrder DEF ProbeThere
<1>3. <<"probe", TRUE>> \in rows'
  <2>1. CASE <<"probe", FALSE>> \in rows
    <3>1. rows' = Edited("put-probe", token, "probe", rows)
      BY <1>1, <1>2
    <3>2. rows' = Changed("probe", rows)
      BY <1>2, <2>1, <3>1, PerfectEdits
    <3>3. QED
      BY <3>2 DEF Changed
  <2>2. CASE <<"probe", FALSE>> \notin rows
    BY <1>1, <1>2, <2>2 DEF Edited
  <2>3. QED
    BY <2>1, <2>2
<1>4. pass
  <2>1. <<"probe", TRUE>>[1] = "probe"
    OBVIOUS
  <2>2. Holds("probe", rows')
    BY <1>3, <2>1 DEF Holds, Without
  <2>3. QED
    BY <1>2, <1>3, <2>2, PerfectServes DEF Got
<1> HIDE DEF pass
<1>5. /\ k' = k + 1 /\ UNCHANGED <<c, says, does, pc, session, token, rec>>
      /\ probes'[k] = Result(pass)
  BY <1>1, ProbedIs DEF input
<1>6. Moved(k)'
  BY <1>1, <1>5, NextProbe
<1>7. QED
  BY <1>2, <1>3, <1>4, <1>5, <1>6 DEF ProbeThere, Open, Result

LEMMA PerfectProbe ==
  ASSUME Perfect, RunTyped, ProbeThere, ProbesPass, ProbeStep, k <= Len(Features(c))
  PROVE  ProbesPass' /\ ProbeThere' /\ tests' = tests
<1>1. ~JudgeProbes /\ ~NotDelivered
  <2>1. k \in Nat /\ Len(Features(c)) \in Nat
    <3>1. Features(c) \in Seq(Feature)
      BY FeaturesAreList
    <3>2. QED
      BY <3>1 DEF RunTyped
  <2>2. ~JudgeProbes
    BY <2>1 DEF JudgeProbes
  <2>3. ~NotDelivered
    BY ProbesInOrder DEF NotDelivered
  <2>4. QED
    BY <2>2, <2>3
<1>2. probes'[k] = "PASS" /\ ProbeThere'
  BY <1>1, PerfectRoundTrip, PerfectDeleteProbe, PerfectNumericTotal, PerfectStateTransition,
     PerfectFilterNarrowing, PerfectOrdering, PerfectComputedOutput DEF ProbeStep
<1>3. \E pass : Probed(pass)
  BY <1>1 DEF ProbeStep, RoundTrip, DeleteProbe, NumericTotal, StateTransition, FilterNarrowing,
     Ordering, ComputedOutput
<1>4. k' = k + 1 /\ tests' = tests /\ \A n \in 1..(k - 1) : probes'[n] = probes[n]
  BY <1>3, ProbedIs
<1>5. \A n \in 1..(k' - 1) : n \in 1..(k - 1) \/ n = k
  BY <1>4 DEF RunTyped
<1>6. QED
  BY <1>2, <1>4, <1>5 DEF ProbesPass

LEMMA PerfectOpens ==
  ASSUME Perfect, WantsAuth(c) => token /\ session
  PROVE  Open(token)
  BY PerfectSays DEF Open

LEMMA PerfectStart ==
  ASSUME Perfect, RecordInv, SignedIn, ProbesHeld, StartProbes, pc = "probes"
  PROVE  (token' => session') /\ ProbeThere' /\ ProbesPass'
<1>1. ~token /\ k = 1
  BY PerfectSays DEF RecordInv, RunTyped, TokenIsLogin, ProbesHeld, Past, Until, Step
<1>2. WantsAuth(c) => LoggedIn
  BY <1>1, PerfectDoes DEF SignedIn, LoggedIn, Past, Until
<1>3. Answers("relogin") /\ Reaches("relogin") /\ Answers("probe") /\ Reaches("probe") /\ ~Fake
  BY PerfectAnswers
<1>4. /\ token' = EnsureSession(token, LoggedIn /\ Answers("relogin"))
      /\ session' = (session \/ (LoggedIn /\ Reaches("relogin")))
      /\ UNCHANGED <<c, does, says, k, probes>>
  BY DEF StartProbes, input
<1>5. (WantsAuth(c) => token' /\ session') /\ (~WantsAuth(c) => ~token')
  BY <1>1, <1>2, <1>3, <1>4 DEF EnsureSession, LoggedIn
<1>6. "roundtrip" \in says /\ (WantsAuth(c) => "guards" \notin does \/ (token' /\ session'))
  BY <1>5, PerfectSays
<1>7. rec' /\ <<"probe", FALSE>> \in rows'
  BY <1>3, <1>6 DEF StartProbes
<1>8. Open(token)'
  BY <1>4, <1>6 DEF Open
<1>9. 1..(k' - 1) = {}
  BY <1>1, <1>4
<1>10. QED
  BY <1>5, <1>7, <1>8, <1>9 DEF ProbeThere, ProbesPass

\* The journey has its evidence.
LEMMA PerfectJourney ==
  ASSUME Perfect, RecordInv, AllPass, Journey, pc = "journey"
  PROVE  AllPass'
<1>1. RunTyped /\ TestsThere /\ Backend(c) /\ RecordsPath
  BY PerfectSays DEF RecordInv, RunTyped
<1>2. \A s \in Step \ {"journey", "judge", "done", "local", "probes"} : Past(s)
  BY DEF Past, Until, Step
<1>3. WantsAuth(c)
        => Written("auth") \cup Written("login") \cup Written("logout") \subseteq DOMAIN tests
  <2>1. WantsAuth(c) => Written("auth") \cup Written("login") \subseteq DOMAIN tests
    BY <1>1, <1>2 DEF TestsThere, Step
  <2>2. WantsAuth(c) => Is("login", "PASS")
    BY <2>1 DEF Written, AllPass, Is
  <2>3. QED
    BY <1>1, <1>2, <2>1, <2>2 DEF TestsThere, Step
<1>4. /\ Written("contract") \cup Written("create") \cup Written("update") \cup Written("delete")
           \cup Written("refresh") \cup {"error-path"} \subseteq DOMAIN tests
      /\ c.live => "realtime" \in DOMAIN tests
  BY <1>1, <1>2 DEF TestsThere, Step
<1>5. ASSUME NEW evidence \in JourneyEvidence(c)
      PROVE  evidence \cap DOMAIN tests # {}
  <2>1. CASE evidence \in {{"deployment"}, {"health"}, {"error-path"}}
    BY <1>4, <2>1 DEF Written
  <2>2. CASE WantsAuth(c) /\ evidence \in {{"unauthorized"}, {"register"}, {"login"}, {"session"},
                                            {"invalid-input"}, {"logout", "post-logout"}}
    BY <1>3, <1>4, <2>2 DEF Written
  <2>3. CASE evidence \in {{"create"}, {"invalid-input"}, {"read"}, {"update"}, {"delete"},
                           {"refresh"}}
    BY <1>4, <2>3 DEF Written
  <2>4. CASE c.live /\ evidence = {"realtime"}
    BY <1>4, <2>4
  <2>5. QED
    BY <1>5, <2>1, <2>2, <2>3, <2>4 DEF JourneyEvidence
<1>6. JourneyPasses(c, tests)
  BY <1>5 DEF JourneyPasses, AllPass
<1>7. tests'["user-journey"] = "PASS"
  BY <1>6, JourneyWrites, PerfectDoes DEF Result
<1>8. \A t \in Written("journey") : tests'[t] = "PASS"
  BY <1>7 DEF Written
<1>9. QED
  BY <1>8, JourneyWrites, AllPassOn

\* With every test that is owed there, and none that did not pass.
LEMMA PerfectVerdict ==
  ASSUME Perfect, RecordInv, AllPass, pc = "judge"
  PROVE  Verdict.status = "passed"
<1>1. \A t, s : Is(t, s) => s = "PASS"
  BY DEF Is, AllPass
<1>2. \A t \in Owed(c) : Is(t, "PASS")
  <2>1. \A t \in Owed(c) : t \in DOMAIN tests
    BY <1>1, OwedIsThere, PerfectSays
  <2>2. QED
    BY <2>1 DEF Is, AllPass
<1>3. c.native => Is("android-launch", "PASS")
  <2>1. SUFFICES ASSUME c.native
                 PROVE  "android-launch" \in DOMAIN tests
    BY DEF Is, AllPass
  <2>2. Backend(c) /\ Past("errors")
    BY <2>1 DEF Backend, Past, Until, Step
  <2>3. QED
    BY <2>1, <2>2 DEF RecordInv, TestsThere
<1>4. unmetDependencies = {}
  BY DEF unmetDependencies, Perfect
<1>5. ~RuntimeViolation
  BY <1>1 DEF RuntimeViolation, AllPass
<1>6. ~\E t \in Owed(c) : Is(t, "FAIL")
  BY <1>1
<1>7. Verdict = [status |-> "passed", code |-> "none"]
  <2>1. "clean" \in does
    BY PerfectDoes
  <2>2. QED
    BY <1>2, <1>3, <1>4, <1>5, <1>6, <2>1 DEF Verdict
<1>8. QED
  BY <1>7

\* A step that stays where it is is a probe, or none.
LEMMA StaysPut ==
  ASSUME [Next]_vars, pc' = pc, pc # "probe"
  PROVE  UNCHANGED vars
<1>1. CASE pc \in {"contract", "auth", "login", "create", "update", "delete", "refresh"}
  BY <1>1, WhoseTurn DEF Contract, Auth, Login, Create, Update, Delete, Refresh, Goto
<1>2. CASE pc \notin {"contract", "auth", "login", "create", "update", "delete", "refresh"}
  BY <1>2, WhoseTurn DEF Logout, Errors, Services, StartProbes, Live, Journey, Local, Judge,
     Goto
<1>3. QED
  BY <1>1, <1>2

LEMMA AllPassKept ==
  ASSUME ToldInv, Perfect, PerfectParts, [Next]_vars
  PROVE  AllPass'
<1>1. RecordInv /\ RunTyped /\ TestsThere /\ AllPass /\ OneAtATime /\ SignedIn /\ RecordsPath
  BY PerfectSays DEF ToldInv, RecordInv, PerfectParts
<1>2. pc \in {"create", "update", "delete", "refresh"} => Open(token)
  BY <1>1, PerfectOpens DEF SignedIn, Past, Until, Step
<1>3. pc \in {"update", "delete", "refresh"} => "create" \in DOMAIN tests
  BY <1>1 DEF TestsThere, RunTyped, Past, Until, Written
<1>4. CASE pc = "contract" /\ Contract
  BY <1>1, <1>4, PerfectContract
<1>5. CASE pc = "auth" /\ Auth
  BY <1>1, <1>5, PerfectAuth
<1>6. CASE pc = "login" /\ Login
  <2>1. user
    BY <1>1, <1>6 DEF SignedIn, RunTyped, Past, Until
  <2>2. QED
    BY <1>1, <1>6, <2>1, PerfectLogin
<1>7. CASE pc = "create" /\ Create
  BY <1>1, <1>2, <1>7, PerfectCreate DEF OneAtATime
<1>8. CASE pc = "update" /\ Update
  BY <1>1, <1>2, <1>3, <1>8, PerfectUpdate DEF OneAtATime
<1>9. CASE pc = "delete" /\ Delete
  BY <1>1, <1>2, <1>3, <1>9, PerfectDelete DEF OneAtATime
<1>10. CASE pc = "refresh" /\ Refresh
  <2>1. Lifecycle \subseteq DOMAIN tests
    BY <1>1, <1>10 DEF TestsThere, RunTyped, Past, Until, Written, Lifecycle
  <2>2. QED
    BY <1>1, <1>2, <1>10, <2>1, PerfectRefresh
<1>11. CASE pc = "logout" /\ Logout
  BY <1>1, <1>11, PerfectLogout
<1>12. CASE pc = "errors" /\ Errors
  BY <1>1, <1>12, PerfectErrors
<1>13. CASE pc = "services" /\ Services
  BY <1>1, <1>13, PerfectServices
<1>14. CASE pc = "probe" /\ ProbeStep
  <2>1. CASE tests' = tests
    BY <1>1, <2>1, AllPassStays
  <2>2. CASE JudgeProbes
    <3> DEFINE all == \A n \in DOMAIN probes : probes[n] = "PASS"
    <3>1. all
      BY <1>1 DEF PerfectParts, ProbesPass, RunTyped
    <3>2. tests'["core-feature"] = Result(all)
      BY <2>2, JudgeProbesWrites
    <3> HIDE DEF all
    <3>3. \A t \in Written("probe") : tests'[t] = "PASS"
      BY <3>1, <3>2 DEF Result, Written
    <3>4. QED
      BY <1>1, <2>2, <3>3, JudgeProbesWrites, AllPassOn
  <2>3. QED
    BY <1>14, <2>1, <2>2 DEF ProbeStep, NotDelivered, RoundTrip, DeleteProbe, NumericTotal,
       StateTransition, FilterNarrowing, Ordering, ComputedOutput, Probed
<1>15. CASE pc = "live" /\ Live
  <2>1. (token => session) /\ (WantsAuth(c) => user)
    BY <1>1, <1>15 DEF SignedIn, Past, Until, Step
  <2>2. QED
    BY <1>1, <1>15, <2>1, PerfectLive
<1>16. CASE pc = "journey" /\ Journey
  BY <1>1, <1>16, PerfectJourney
<1>17. CASE pc = "local" /\ Local
  BY <1>1, <1>17, PerfectLocal
<1>18. CASE tests' = tests
  BY <1>1, <1>18, AllPassStays
<1>19. StartProbes \/ Judge \/ UNCHANGED vars => tests' = tests
  BY DEF StartProbes, Judge, vars
<1>20. QED
  BY <1>4, <1>5, <1>6, <1>7, <1>8, <1>9, <1>10, <1>11, <1>12, <1>13, <1>14, <1>15, <1>16, <1>17,
     <1>18, <1>19, WhoseTurn

LEMMA OneAtATimeKept ==
  ASSUME ToldInv, Perfect, PerfectParts, [Next]_vars
  PROVE  OneAtATime'
<1>1. RecordInv /\ RunTyped /\ TestsThere /\ AllPass /\ OneAtATime /\ SignedIn /\ RecordsPath
      /\ RunFrame
  BY FrameHolds, PerfectSays DEF ToldInv, RecordInv, PerfectParts
<1>2. pc \in {"create", "update"} => Open(token)
  BY <1>1, PerfectOpens DEF SignedIn, Past, Until, Step
<1>3. CASE pc' \notin {"contract", "auth", "login", "create", "update", "delete"}
  BY <1>3 DEF OneAtATime
<1>4. CASE pc' = pc /\ pc # "probe"
  BY <1>1, <1>4, StaysPut DEF vars, app, OneAtATime
<1>5. CASE pc = "contract" /\ Contract
  BY <1>1, <1>5, PerfectContract DEF OneAtATime, Contract, Goto
<1>6. CASE pc = "auth" /\ Auth
  BY <1>1, <1>6 DEF OneAtATime, Auth, Goto
<1>7. CASE pc = "login" /\ Login
  BY <1>1, <1>7 DEF OneAtATime, Login, Goto
<1>8. CASE pc = "create" /\ Create /\ pc' = "update"
  BY <1>1, <1>2, <1>8, PerfectCreate DEF OneAtATime
<1>9. CASE pc = "update" /\ Update /\ pc' = "delete"
  <2>1. "create" \in DOMAIN tests
    BY <1>1, <1>9 DEF TestsThere, RunTyped, Past, Until, Written
  <2>2. QED
    BY <1>1, <1>2, <1>9, <2>1, PerfectUpdate DEF OneAtATime
<1>10. CASE pc' \in {"contract", "auth", "login", "create", "update", "delete"} /\ pc' # pc
  <2>1. \/ pc \in {"contract", "auth", "login"}
        \/ pc = "create" /\ pc' = "update"
        \/ pc = "update" /\ pc' = "delete"
    BY <1>1, <1>10 DEF RunFrame
  <2>2. QED
    BY <1>5, <1>6, <1>7, <1>8, <1>9, <1>10, <2>1, WhoseTurn DEF vars
<1>11. QED
  BY <1>3, <1>4, <1>10

LEMMA SignedInKept ==
  ASSUME ToldInv, Perfect, PerfectParts, [Next]_vars
  PROVE  SignedIn'
<1>1. RecordInv /\ RunTyped /\ TokenIsLogin /\ AllPass /\ SignedIn /\ RecordsPath /\ RunFrame
      /\ ProbesHeld /\ c' = c
  BY FrameHolds, PerfectSays, InputStays DEF ToldInv, RecordInv, PerfectParts
<1>2. Past("auth")' /\ WantsAuth(c) => user'
  <2>1. CASE pc = "auth" /\ Auth
    BY <1>1, <2>1, PerfectAuth
  <2>2. CASE Past("auth")
    BY <1>1, <2>2 DEF SignedIn, RunFrame
  <2>3. CASE ~Past("auth") /\ Past("auth")' /\ WantsAuth(c)
    <3>1. pc = "auth" /\ pc' # pc
      BY <1>1, <2>3 DEF RunFrame, Past, Until
    <3>2. QED
      BY <2>1, <3>1, WhoseTurn DEF vars
  <2>4. QED
    BY <2>2, <2>3
<1>3. Past("login")' /\ ~Past("logout")' /\ WantsAuth(c) => token' /\ session'
  <2>1. CASE pc = "login" /\ Login
    <3>1. user
      BY <1>1, <2>1 DEF SignedIn, RunTyped, Past, Until
    <3>2. QED
      BY <1>1, <2>1, <3>1, PerfectLogin
  <2>2. CASE pc' = pc
    BY <1>1, <2>2 DEF RunFrame, SignedIn, Past
  <2>3. CASE pc' # pc /\ Past("login")' /\ ~Past("logout")' /\ WantsAuth(c) /\ pc # "login"
    <3>1. pc \in {"create", "update", "delete", "refresh"}
      BY <1>1, <2>3 DEF RunFrame, RunTyped, Past, Until, Step
    <3>2. token' = token /\ session' = session /\ Past("login") /\ ~Past("logout")
      BY <1>1, <3>1 DEF RunFrame, Past, Until, Step
    <3>3. QED
      BY <1>1, <2>3, <3>2 DEF SignedIn
  <2>4. QED
    BY <2>1, <2>2, <2>3, WhoseTurn DEF vars
<1>4. pc' \in {"probe", "live"} /\ token' => session'
  <2>1. CASE pc = "probes" /\ StartProbes
    BY <1>1, <2>1, PerfectStart
  <2>2. CASE pc' = pc
    BY <1>1, <2>2 DEF RunFrame, SignedIn
  <2>3. CASE pc = "probe" /\ pc' = "live"
    <3>1. token' = token /\ session' = session
      BY <1>1, <2>3 DEF RunFrame
    <3>2. QED
      BY <1>1, <2>3, <3>1 DEF SignedIn
  <2>4. CASE pc = "services"
    BY <1>1, <2>4 DEF RunFrame, TokenIsLogin, Past, Until, Step
  <2>5. pc' \in {"probe", "live"} /\ pc' # pc =>
          pc = "services" \/ pc = "probe" \/ (pc = "probes" /\ StartProbes)
    <3>1. pc' \in {"probe", "live"} /\ pc' # pc => pc \in {"services", "probe", "probes"}
      BY <1>1 DEF RunFrame
    <3>2. pc = "probes" /\ pc' # pc => StartProbes
      BY WhoseTurn DEF vars
    <3>3. QED
      BY <3>1, <3>2
  <2>6. QED
    BY <1>1, <2>1, <2>2, <2>3, <2>4, <2>5 DEF RunFrame
<1>5. QED
  BY <1>1, <1>2, <1>3, <1>4 DEF SignedIn

LEMMA ProbesKept ==
  ASSUME ToldInv, Perfect, PerfectParts, [Next]_vars
  PROVE  ProbeThere' /\ ProbesPass'
<1>1. RecordInv /\ RunTyped /\ RunFrame /\ SignedIn /\ ProbesHeld /\ ProbeThere /\ ProbesPass
  BY FrameHolds DEF ToldInv, RecordInv, PerfectParts
<1>2. CASE pc = "probes" /\ StartProbes
  BY <1>1, <1>2, PerfectStart
<1>3. CASE pc = "probe" /\ ProbeStep
  <2>1. CASE k <= Len(Features(c))
    BY <1>1, <1>3, <2>1, PerfectProbe
  <2>2. CASE ~(k <= Len(Features(c)))
    BY <1>1, <1>3, <2>2, ProbeDoes DEF ProbeThere, ProbesPass
  <2>3. QED
    BY <2>1, <2>2
<1>4. CASE pc \notin {"probes", "probe"}
  BY <1>1, <1>4 DEF RunFrame, ProbeThere, ProbesPass
<1>5. CASE UNCHANGED vars
  BY <1>1, <1>5 DEF vars, input, app, ProbeThere, ProbesPass, Open, Gone, Moved
<1>6. QED
  BY <1>2, <1>3, <1>4, <1>5, WhoseTurn

PerfectInv == ToldInv /\ (Perfect => PerfectParts)

LEMMA PerfectAtFirst == Init => PerfectInv
<1> SUFFICES ASSUME Init PROVE PerfectInv
  OBVIOUS
<1>1. ToldInv /\ DOMAIN tests = {} /\ rows = {} /\ k = 1 /\ pc \in {"contract", "local"}
      /\ (pc = "local" <=> ~Backend(c))
  BY ToldAtFirst, NoTests DEF Init
<1>2. AllPass /\ OneAtATime /\ ProbeThere
  BY <1>1 DEF AllPass, OneAtATime, ProbeThere
<1>3. ProbesPass
  <2>1. 1..(k - 1) = {}
    BY <1>1
  <2>2. QED
    BY <2>1 DEF ProbesPass
<1>4. SignedIn
  BY <1>1 DEF SignedIn, Past, Until, Step, Backend
<1>5. QED
  BY <1>1, <1>2, <1>3, <1>4 DEF PerfectInv, PerfectParts

LEMMA PerfectKept == PerfectInv /\ [Next]_vars => PerfectInv'
<1> SUFFICES ASSUME PerfectInv, [Next]_vars PROVE PerfectInv'
  OBVIOUS
<1>1. ToldInv /\ ToldInv'
  BY ToldKept DEF PerfectInv
<1>2. CASE ~Perfect
  BY <1>1, <1>2, PerfectStays DEF PerfectInv
<1>3. CASE Perfect
  <2>1. PerfectParts
    BY <1>3 DEF PerfectInv
  <2>2. AllPass' /\ OneAtATime' /\ SignedIn' /\ ProbeThere' /\ ProbesPass'
    BY <1>1, <1>3, <2>1, AllPassKept, OneAtATimeKept, SignedInKept, ProbesKept
  <2>3. pc' = "done" => verdict'.status = "passed"
    <3>1. CASE pc = "judge" /\ Judge
      <4>1. RecordInv /\ AllPass
        BY <1>1, <2>1 DEF ToldInv, PerfectParts
      <4>2. QED
        BY <1>3, <3>1, <4>1, PerfectVerdict DEF Judge
    <3>2. CASE pc' = pc
      BY <2>1, <3>2, FrameHolds DEF PerfectParts, RunFrame
    <3>3. pc' = "done" /\ pc' # pc => pc = "judge"
      BY FrameHolds DEF RunFrame
    <3>4. pc = "judge" /\ pc' # pc => Judge
      BY WhoseTurn DEF vars
    <3>5. QED
      BY <3>1, <3>2, <3>3, <3>4
  <2>4. QED
    BY <1>1, <2>2, <2>3 DEF PerfectInv, PerfectParts
<1>4. QED
  BY <1>2, <1>3

\* A perfect app is accepted, if every answer arrives, as long as its probes are InOrder and
\* its services are those the runner can call (core-feature.js, production-runtime.mjs).
THEOREM PerfectAppIsAccepted == Spec => []PerfectAppPasses
<1>1. PerfectInv => PerfectAppPasses
  BY DEF PerfectInv, PerfectParts, Perfect, PerfectAppPasses
<1>2. QED
  BY <1>1, PerfectAtFirst, PerfectKept, PTL DEF Spec

=============================================================================
