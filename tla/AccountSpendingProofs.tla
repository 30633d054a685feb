----------------------- MODULE AccountSpendingProofs -----------------------
(***************************************************************************)
(* Proofs about what the account spends, for any isolates, minutes, limits *)
(* and bounds.                                                             *)
(*                                                                         *)
(* CronTick, the gate that lets an idle cron sleep: a tick that looks at  *)
(* the store finds the work whatever became of the marker, and on a sweep  *)
(* every tick looks, unless its isolate cannot read.  An isolate that can  *)
(* spoil the next sweep took a fault of its own, so that the sweeps that   *)
(* are left to spoil are counted by the faults so far.                     *)
(*                                                                         *)
(* AccountBudget, the daily count of rows: what the ledger says, what is   *)
(* on its way to it and what D1 answered last are together what D1 billed. *)
(* The sum over the isolates is a fold; that it grows and shrinks with its *)
(* summands is proved of the recursion by a smallest counterexample.       *)
(***************************************************************************)
EXTENDS AccountBudget, CronTick, FiniteSetTheorems, TLAPS

-----------------------------------------------------------------------------
\* The minutes wrap at a sweep.
LEMMA NextMinuteIs ==
  ASSUME minute \in 0..(Sweep - 1)
  PROVE  NextMinute = (IF minute = Sweep - 1 THEN 0 ELSE minute + 1)
<1>1. Sweep \in Nat /\ Sweep > 0
  BY CronTickAssumption
<1>2. CASE minute = Sweep - 1
  <2>1. minute + 1 = Sweep
    BY <1>1, <1>2
  <2>2. Sweep % Sweep = 0
    BY <1>1, SMT
  <2> QED BY <1>2, <2>1, <2>2 DEF NextMinute
<1>3. CASE minute # Sweep - 1
  <2>1. minute + 1 \in 0..(Sweep - 1)
    BY <1>1, <1>3
  <2>2. (minute + 1) % Sweep = minute + 1
    BY <1>1, <2>1, SMT
  <2> QED BY <1>3, <2>2 DEF NextMinute
<1> QED BY <1>2, <1>3

Boot == [state : {"cold", "warm", "failed"}, cool : 0..Cooldown]
Tick == [pc : {"free", "look", "run"}, iso : Worker, prev : Wake, behind : BOOLEAN]
Rows == [state : {"none", "live", "parked"}, age : 0..Dead]

\* The bounds are numbers, and an idle slot is a tick.
LEMMA BoundsAreNumbers ==
  /\ Sweep \in Nat /\ Sweep > 0 /\ Cooldown \in Nat /\ Cooldown <= Sweep
  /\ Dead \in Nat /\ Dirty \in Nat /\ Dirty > 0 /\ Dirty <= Dead
  /\ Faults \in Nat /\ Commands \in Nat
  /\ IsFiniteSet(Worker)
  BY CronTickAssumption

LEMMA NoTickIsTick == NoTick \in Tick
<1>1. (CHOOSE i \in Worker : TRUE) \in Worker
  BY CronTickAssumption
<1> QED BY <1>1 DEF NoTick, Tick, Wake

\* A fault is one of the Faults.
LEMMA FaultIsCounted ==
  ASSUME GateTypeOK, CallFails
  PROVE  bad' \in 0..Faults /\ bad' = bad + 1
  BY BoundsAreNumbers DEF GateTypeOK, CallFails

\* One step keeps the type of the state.
LEMMA GateTypeStep ==
  ASSUME GateTypeOK, [GateNext]_gateVars
  PROVE  GateTypeOK'
<1> USE BoundsAreNumbers
<1>0. /\ minute \in 0..(Sweep - 1) /\ fired \in BOOLEAN /\ work \in Rows
      /\ marker \in {"none", "pending", "idle"} /\ mark \in BOOLEAN
      /\ boot \in [Worker -> Boot] /\ view \in [Worker -> BOOLEAN]
      /\ tick \in [Slot -> Tick]
      /\ waited \in Nat /\ stolen \in BOOLEAN /\ bad \in 0..Faults /\ asked \in 0..Commands
  BY DEF GateTypeOK, Boot, Tick, Rows
<1>g. SUFFICES
      /\ minute' \in 0..(Sweep - 1) /\ fired' \in BOOLEAN /\ work' \in Rows
      /\ marker' \in {"none", "pending", "idle"} /\ mark' \in BOOLEAN
      /\ boot' \in [Worker -> Boot] /\ view' \in [Worker -> BOOLEAN]
      /\ tick' \in [Slot -> Tick]
      /\ waited' \in Nat /\ stolen' \in BOOLEAN /\ bad' \in 0..Faults /\ asked' \in 0..Commands
  BY DEF GateTypeOK, Boot, Tick, Rows
<1>u. CASE UNCHANGED gateVars
  BY <1>u, <1>0 DEF gateVars
<1>1. ASSUME NEW i \in Worker, Release(i)  PROVE GateTypeOK'
  <2>1. work' \in Rows
    BY <1>1 DEF Release, Rows
  <2>2. view' \in [Worker -> BOOLEAN] /\ asked' \in 0..Commands
    BY <1>0, <1>1 DEF Release
  <2>3. tick' \in [Slot -> Tick]
    BY <1>0, <1>1 DEF Release, Overtake, Tick
  <2> QED BY <1>0, <1>1, <2>1, <2>2, <2>3 DEF Release, GateTypeOK, Boot, Tick, Rows
<1>2. ASSUME NEW i \in Worker, EvictWorker(i)  PROVE GateTypeOK'
  <2>1. boot' \in [Worker -> Boot] /\ view' \in [Worker -> BOOLEAN]
    BY <1>0, <1>2 DEF EvictWorker, Boot
  <2>2. tick' \in [Slot -> Tick]
    BY <1>0, <1>2, NoTickIsTick DEF EvictWorker
  <2>3. bad' \in 0..Faults
    BY <1>2, FaultIsCounted DEF EvictWorker
  <2> QED BY <1>0, <1>2, <2>1, <2>2, <2>3 DEF EvictWorker, GateTypeOK, Boot, Tick, Rows
<1>3. ASSUME markSchedulerWork  PROVE GateTypeOK'
  BY <1>0, <1>3 DEF markSchedulerWork, GateTypeOK, Boot, Tick, Rows
<1>4. ASSUME MarkFails  PROVE GateTypeOK'
  <2>1. bad' \in 0..Faults
    BY <1>4, FaultIsCounted DEF MarkFails
  <2> QED BY <1>0, <1>4, <2>1 DEF MarkFails, GateTypeOK, Boot, Tick, Rows
<1>5. ASSUME NEW s \in Slot, NEW i \in Worker, NEW prev \in Wake, Call(s, i, prev),
             bad' \in 0..Faults
      PROVE  GateTypeOK'
  <2>1. [NoTick EXCEPT !.pc = "look", !.iso = i, !.prev = prev] \in Tick
    BY NoTickIsTick DEF Tick
  <2>2. tick' \in [Slot -> Tick]
    BY <1>0, <1>5, <2>1 DEF Call
  <2> QED BY <1>0, <1>5, <2>2 DEF Call, GateTypeOK, Boot, Tick, Rows
<1>6. ASSUME NEW s \in Slot, NEW i \in Worker,
             RunSweep(s, i) \/ RunPending(s, i) \/ RunUnmarked(s, i) \/ RunChanged(s, i)
               \/ RunUnreadable(s, i)
      PROVE  GateTypeOK'
  <2>1. PICK prev \in Wake : Call(s, i, prev) /\ (UNCHANGED bad \/ CallFails)
    BY <1>6 DEF RunSweep, RunPending, RunUnmarked, RunChanged, RunUnreadable, Wake
  <2>2. bad' \in 0..Faults
    BY <1>0, <2>1, FaultIsCounted
  <2> QED BY <1>5, <2>1, <2>2
<1>7. ASSUME Skip  PROVE GateTypeOK'
  BY <1>0, <1>7 DEF Skip, GateTypeOK, Boot, Tick, Rows
<1>8. ASSUME NEW s \in Slot, NEW seen \in BOOLEAN, Looked(s, tick[s].iso, seen),
             boot' \in [Worker -> Boot], bad' \in 0..Faults, waited' \in Nat
      PROVE  GateTypeOK'
  <2>1. view' \in [Worker -> BOOLEAN]
    BY <1>0, <1>8 DEF Looked
  <2>2. tick' \in [Slot -> Tick]
    BY <1>0, <1>8 DEF Looked, Tick
  <2> QED BY <1>0, <1>8, <2>1, <2>2 DEF Looked, GateTypeOK, Boot, Tick, Rows
<1>9. ASSUME NEW s \in Slot, Look(s)  PROVE GateTypeOK'
  <2>0. [state |-> "warm", cool |-> 0] \in Boot
    BY DEF Boot
  <2>1. boot' \in [Worker -> Boot]
    BY <1>0, <1>9, <2>0 DEF Look
  <2>2. Holds(work) \in BOOLEAN
    BY DEF Holds
  <2> QED BY <1>0, <1>8, <1>9, <2>1, <2>2 DEF Look
<1>10. ASSUME NEW s \in Slot, LookFails(s)  PROVE GateTypeOK'
  <2>0. tick[s].iso \in Worker
    BY <1>0 DEF Tick
  <2>1. boot' \in [Worker -> Boot]
    BY <1>0, <1>10, <2>0 DEF LookFails, Boot
  <2>2. view[tick[s].iso] \in BOOLEAN
    BY <1>0, <2>0
  <2>3. bad' \in 0..Faults
    BY <1>10, FaultIsCounted DEF LookFails
  <2> QED BY <1>0, <1>8, <1>10, <2>1, <2>2, <2>3 DEF LookFails
<1>11. ASSUME NEW s \in Slot, LookBlind(s)  PROVE GateTypeOK'
  <2>0. tick[s].iso \in Worker
    BY <1>0 DEF Tick
  <2>2. view[tick[s].iso] \in BOOLEAN
    BY <1>0, <2>0
  <2> QED BY <1>0, <1>8, <1>11, <2>2 DEF LookBlind
<1>12. ASSUME NEW s \in Slot, Work(s)  PROVE GateTypeOK'
  <2>1. PICK next \in {"live", "none", "parked"} :
          /\ work' = [state |-> next, age |-> 0]
          /\ view' = [view EXCEPT ![tick[s].iso] = next # "none"]
    BY <1>12 DEF Work
  <2>2. work' \in Rows
    BY <2>1 DEF Rows
  <2>3. view' \in [Worker -> BOOLEAN]
    BY <1>0, <2>1
  <2> QED BY <1>0, <1>12, <2>2, <2>3 DEF Work, GateTypeOK, Boot, Tick, Rows
<1>13. ASSUME NEW s \in Slot, Retire(s)  PROVE GateTypeOK'
  <2>2. work' \in Rows
    BY <1>13 DEF Retire, Rows
  <2> QED BY <1>0, <1>13, <2>2 DEF Retire, GateTypeOK, Boot, Tick, Rows
<1>14. ASSUME NEW s \in Slot, End(s)  PROVE GateTypeOK'
  <2>1. tick' \in [Slot -> Tick]
    BY <1>0, <1>14, NoTickIsTick DEF End
  <2>2. marker' \in {"none", "pending", "idle"} /\ stolen' \in BOOLEAN
    BY <1>0, <1>14 DEF End, Answer
  <2> QED BY <1>0, <1>14, <2>1, <2>2 DEF End, GateTypeOK, Boot, Tick, Rows
<1>15. ASSUME NEW s \in Slot, EndLost(s)  PROVE GateTypeOK'
  <2>1. tick' \in [Slot -> Tick]
    BY <1>0, <1>15, NoTickIsTick DEF EndLost
  <2>2. bad' \in 0..Faults
    BY <1>15, FaultIsCounted DEF EndLost
  <2> QED BY <1>0, <1>15, <2>1, <2>2 DEF EndLost, GateTypeOK, Boot, Tick, Rows
<1>16. ASSUME Minute  PROVE GateTypeOK'
  <2>1. minute' \in 0..(Sweep - 1)
    BY <1>0, <1>16, NextMinuteIs DEF Minute
  <2>2. work' \in Rows
    BY <1>0, <1>16 DEF Minute, Rows
  <2>3. boot' \in [Worker -> Boot]
    <3>1. ASSUME NEW i \in Worker
          PROVE  [boot[i] EXCEPT !.cool = IF @ = 0 THEN 0 ELSE @ - 1] \in Boot
      <4>1. boot[i] \in Boot
        BY <1>0
      <4> QED BY <4>1 DEF Boot
    <3> QED BY <1>16, <3>1 DEF Minute
  <2>4. waited' \in Nat
    BY <1>0, <1>16 DEF Minute
  <2> QED BY <1>0, <1>16, <2>1, <2>2, <2>3, <2>4 DEF Minute, GateTypeOK, Boot, Tick, Rows
<1> QED
  BY <1>g, <1>u, <1>1, <1>2, <1>3, <1>4, <1>6, <1>7, <1>9, <1>10, <1>11, <1>12, <1>13,
     <1>14, <1>15, <1>16 DEF GateNext, GateTypeOK, Boot, Tick, Rows

LEMMA GateTypeAtFirst == GateInit => GateTypeOK
<1>1. SUFFICES ASSUME GateInit PROVE GateTypeOK
  OBVIOUS
<1>2. tick \in [Slot -> Tick]
  BY <1>1, NoTickIsTick DEF GateInit
<1>3. boot \in [Worker -> Boot]
  BY <1>1, BoundsAreNumbers DEF GateInit, Boot
<1>4. work \in Rows
  BY <1>1, BoundsAreNumbers DEF GateInit, Rows
<1>5. view \in [Worker -> BOOLEAN]
  BY <1>1 DEF GateInit
<1>6. waited \in Nat /\ bad \in 0..Faults /\ asked \in 0..Commands
  BY <1>1, BoundsAreNumbers DEF GateInit
<1>7. /\ minute \in 0..(Sweep - 1) /\ fired \in BOOLEAN /\ mark \in BOOLEAN
      /\ marker \in {"none", "pending", "idle"} /\ stolen \in BOOLEAN
  BY <1>1 DEF GateInit
<1> QED BY <1>2, <1>3, <1>4, <1>5, <1>6, <1>7 DEF GateTypeOK, Tick, Boot, Rows

\* The state of the idle gate has its type.
THEOREM GateTypeCorrect == GateSpec => []GateTypeOK
<1>1. GateInit => GateTypeOK
  BY GateTypeAtFirst
<1>2. GateTypeOK /\ [GateNext]_gateVars => GateTypeOK'
  BY GateTypeStep
<1> QED BY <1>1, <1>2, PTL DEF GateSpec

-----------------------------------------------------------------------------
\* Minutes until the sweep has looked: none while the sweep's own tick is to look yet.
Looking == \E s \in Slot : tick[s].pc = "look"
OneLook ==
  /\ \A s, t \in Slot : tick[s].pc = "look" /\ tick[t].pc = "look" => s = t
  /\ Looking => fired
Distance == IF minute # 0 THEN Sweep - minute ELSE IF fired /\ ~Looking THEN Sweep ELSE 0

\* The isolates whose cooldown outlasts the next sweep; each took a fault, and each can
\* spoil one sweep.
Blind == {i \in Worker : boot[i].state = "failed" /\ boot[i].cool > Distance}

WaitInv ==
  /\ OneLook
  /\ Cardinality(Blind) <= bad
  /\ waited + Distance <= Sweep * (1 + bad - Cardinality(Blind))

LEMMA DistanceIsShort ==
  ASSUME GateTypeOK
  PROVE  Distance \in 0..Sweep
<1>1. minute \in 0..(Sweep - 1)
  BY DEF GateTypeOK
<1> QED BY <1>1, BoundsAreNumbers DEF Distance

LEMMA BlindAreFew == IsFiniteSet(Blind) /\ Cardinality(Blind) \in Nat
<1>1. Blind \in SUBSET Worker
  BY DEF Blind
<1>2. IsFiniteSet(Blind)
  BY <1>1, BoundsAreNumbers, FS_Subset
<1> QED BY <1>2, FS_CardinalityType

\* A sweep for each fault not held by a blind isolate.
LEMMA TurnsGrow ==
  ASSUME NEW k \in Nat, NEW m \in Nat, NEW w \in Nat, NEW v \in Nat,
         w <= Sweep * (1 + k),
         \/ m >= k /\ v <= w
         \/ m > k /\ v <= w + Sweep
         \/ v <= Sweep
  PROVE  v <= Sweep * (1 + m)
<1>0. Sweep \in Nat
  BY BoundsAreNumbers
<1>1. Sweep * (1 + k) = Sweep + Sweep * k /\ Sweep * (1 + m) = Sweep + Sweep * m
  BY <1>0
<1>2. Sweep * k \in Nat /\ Sweep * m \in Nat
  BY <1>0
<1>3. CASE m >= k /\ v <= w
  <2>1. PICK d \in Nat : m = k + d
    <3>1. m - k \in Nat /\ m = k + (m - k)
      BY <1>3
    <3> QED BY <3>1
  <2>2. Sweep * m = Sweep * k + Sweep * d /\ Sweep * d \in Nat
    BY <1>0, <2>1
  <2> QED BY <1>0, <1>1, <1>2, <1>3, <2>2
<1>4. CASE m > k /\ v <= w + Sweep
  <2>1. PICK d \in Nat : m = k + (1 + d)
    <3>1. m - k - 1 \in Nat /\ m = k + (1 + (m - k - 1))
      BY <1>4
    <3> QED BY <3>1
  <2>2. Sweep * m = Sweep * k + (Sweep + Sweep * d) /\ Sweep * d \in Nat
    BY <1>0, <2>1
  <2> QED BY <1>0, <1>1, <1>2, <1>4, <2>2
<1>5. CASE v <= Sweep
  BY <1>0, <1>1, <1>2, <1>5
<1> QED BY <1>3, <1>4, <1>5

LEMMA TurnsMove ==
  ASSUME NEW B \in Nat, NEW C \in Nat, NEW b \in Nat, NEW c \in Nat, NEW w0 \in Nat,
         NEW w1 \in Nat, NEW d0 \in Nat, NEW d1 \in Nat,
         B <= b, w0 + d0 <= Sweep * (1 + b - B),
         \/ C <= B /\ c >= b /\ (w1 + d1 <= w0 + d0 \/ w1 + d1 <= Sweep)
         \/ C <= B + 1 /\ c = b + 1 /\ w1 + d1 <= w0 + d0
         \/ C <= B /\ c = b + 1 /\ w1 + d1 <= w0 + d0 + Sweep
         \/ C + 1 <= B /\ c = b /\ w1 + d1 <= w0 + d0 + Sweep
  PROVE  C <= c /\ w1 + d1 <= Sweep * (1 + c - C)
<1>0. Sweep \in Nat
  BY BoundsAreNumbers
<1> DEFINE k == b - B
           m == c - C
<1>1. C <= c
  OBVIOUS
<1>2. k \in Nat /\ m \in Nat /\ 1 + b - B = 1 + k /\ 1 + c - C = 1 + m
  BY <1>1
<1>3. w0 + d0 <= Sweep * (1 + k)
  <2> HIDE DEF k
  <2> QED BY <1>2
<1>4. \/ m >= k /\ w1 + d1 <= w0 + d0
      \/ m > k /\ w1 + d1 <= w0 + d0 + Sweep
      \/ w1 + d1 <= Sweep
  BY <1>0
<1>5. w1 + d1 <= Sweep * (1 + m)
  <2> HIDE DEF k, m
  <2>1. w0 + d0 \in Nat /\ w1 + d1 \in Nat
    OBVIOUS
  <2> QED BY <1>2, <1>3, <1>4, <2>1, TurnsGrow
<1> HIDE DEF m
<1> QED BY <1>1, <1>2, <1>5

\* How the bound moves with the faults, the blind isolates and the wait.
LEMMA WaitMoves ==
  ASSUME GateTypeOK, GateTypeOK', WaitInv, OneLook',
         \/ /\ Blind' \subseteq Blind /\ bad' >= bad
            /\ waited' + Distance' <= waited + Distance \/ waited' = 0
         \/ /\ \E i \in Worker : Blind' \subseteq Blind \cup {i}
            /\ bad' = bad + 1 /\ waited' + Distance' <= waited + Distance
         \/ /\ Blind' \subseteq Blind /\ bad' = bad + 1
            /\ waited' + Distance' <= waited + Distance + Sweep
         \/ /\ \E i \in Blind : Blind' \subseteq Blind \ {i}
            /\ bad' = bad /\ waited' + Distance' <= waited + Distance + Sweep
  PROVE  WaitInv'
<1> DEFINE B == Cardinality(Blind)
           C == Cardinality(Blind')
<1>1. IsFiniteSet(Blind) /\ B \in Nat
  BY BlindAreFew
<1>2. IsFiniteSet(Blind') /\ C \in Nat
  <2>1. Blind' \in SUBSET Worker
    BY DEF Blind
  <2>2. IsFiniteSet(Blind')
    BY <2>1, BoundsAreNumbers, FS_Subset
  <2> QED BY <2>2, FS_CardinalityType
<1>3. /\ Distance \in Nat /\ Distance <= Sweep
      /\ waited \in Nat /\ bad \in Nat /\ Sweep \in Nat
  BY DistanceIsShort, BoundsAreNumbers DEF GateTypeOK
<1>d. PICK d1 \in 0..Sweep : Distance' = d1
  <2>1. minute' \in 0..(Sweep - 1) /\ Sweep \in Nat
    BY BoundsAreNumbers DEF GateTypeOK
  <2>2. PICK n \in 0..(Sweep - 1) : minute' = n
    BY <2>1
  <2>3. Distance' = IF n # 0 THEN Sweep - n
                    ELSE IF (fired /\ ~Looking)' THEN Sweep ELSE 0
    BY <2>2 DEF Distance
  <2> HIDE DEF Distance
  <2>4. (IF n # 0 THEN Sweep - n ELSE IF (fired /\ ~Looking)' THEN Sweep ELSE 0) \in 0..Sweep
    BY <2>1
  <2> QED BY <2>3, <2>4
<1>w. PICK w1 \in Nat : waited' = w1
  BY DEF GateTypeOK
<1>c. PICK c \in Nat : bad' = c
  <2>1. bad' \in Nat
    BY BoundsAreNumbers DEF GateTypeOK
  <2> QED BY <2>1
<1>4. B <= bad /\ waited + Distance <= Sweep * (1 + bad - B)
  BY DEF WaitInv
<1>5. SUFFICES C <= c /\ w1 + d1 <= Sweep * (1 + c - C)
  <2>1. bad' - C = c - C /\ waited' + Distance' = w1 + d1 /\ 1 + bad' - C = 1 + c - C
    BY <1>c, <1>w, <1>d
  <2> HIDE DEF C
  <2>2. ASSUME C <= c, w1 + d1 <= Sweep * (1 + c - C)
        PROVE  C <= bad' /\ waited' + Distance' <= Sweep * (1 + bad' - C)
    BY <1>c, <2>1, <2>2
  <2> USE DEF C
  <2> QED BY <2>2 DEF WaitInv
<1>6. ASSUME Blind' \subseteq Blind  PROVE C <= B
  BY <1>1, <1>6, FS_Subset
<1>7. ASSUME NEW i \in Worker, Blind' \subseteq Blind \cup {i}  PROVE C <= B + 1
  <2>0. /\ IsFiniteSet(Blind \cup {i})
        /\ Cardinality(Blind \cup {i}) = IF i \in Blind THEN B ELSE B + 1
    BY <1>1, FS_AddElement
  <2>1. IsFiniteSet(Blind \cup {i}) /\ Cardinality(Blind \cup {i}) <= B + 1
    <3> HIDE DEF B
    <3> QED BY <1>1, <2>0
  <2>2. C <= Cardinality(Blind \cup {i}) /\ Cardinality(Blind \cup {i}) \in Nat
    BY <1>7, <2>1, FS_Subset, FS_CardinalityType
  <2> QED BY <1>1, <1>2, <2>1, <2>2
<1>8. ASSUME NEW i \in Blind, Blind' \subseteq Blind \ {i}  PROVE C + 1 <= B
  <2>1. IsFiniteSet(Blind \ {i}) /\ Cardinality(Blind \ {i}) = B - 1
    BY <1>1, FS_RemoveElement
  <2>2. C <= Cardinality(Blind \ {i})
    BY <1>8, <2>1, FS_Subset
  <2> QED BY <1>1, <1>2, <2>1, <2>2
<1>9. ASSUME Blind' \subseteq Blind, bad' >= bad,
             waited' + Distance' <= waited + Distance \/ waited' = 0
      PROVE  C <= c /\ w1 + d1 <= Sweep * (1 + c - C)
  <2>1. c >= bad /\ (w1 + d1 <= waited + Distance \/ w1 = 0)
    BY <1>9, <1>c, <1>w, <1>d
  <2>2. w1 + d1 <= waited + Distance \/ w1 + d1 <= Sweep
    BY <1>3, <2>1
  <2>3. C <= B
    BY <1>6, <1>9
  <2> HIDE DEF B, C
  <2> QED BY <1>1, <1>2, <1>3, <1>4, <2>1, <2>2, <2>3, TurnsMove
<1>10. ASSUME NEW i \in Worker, Blind' \subseteq Blind \cup {i},
              bad' = bad + 1, waited' + Distance' <= waited + Distance
       PROVE  C <= c /\ w1 + d1 <= Sweep * (1 + c - C)
  <2>1. c = bad + 1 /\ w1 + d1 <= waited + Distance
    BY <1>10, <1>c, <1>w, <1>d
  <2>2. C <= B + 1
    BY <1>7, <1>10
  <2> HIDE DEF B, C
  <2> QED BY <1>1, <1>2, <1>3, <1>4, <2>1, <2>2, TurnsMove
<1>11. ASSUME Blind' \subseteq Blind, bad' = bad + 1,
              waited' + Distance' <= waited + Distance + Sweep
       PROVE  C <= c /\ w1 + d1 <= Sweep * (1 + c - C)
  <2>1. c = bad + 1 /\ w1 + d1 <= waited + Distance + Sweep
    BY <1>11, <1>c, <1>w, <1>d
  <2>2. C <= B
    BY <1>6, <1>11
  <2> HIDE DEF B, C
  <2> QED BY <1>1, <1>2, <1>3, <1>4, <2>1, <2>2, TurnsMove
<1>12. ASSUME NEW i \in Blind, Blind' \subseteq Blind \ {i},
              bad' = bad, waited' + Distance' <= waited + Distance + Sweep
       PROVE  C <= c /\ w1 + d1 <= Sweep * (1 + c - C)
  <2>1. c = bad /\ w1 + d1 <= waited + Distance + Sweep
    BY <1>12, <1>c, <1>w, <1>d
  <2>2. C + 1 <= B
    BY <1>8, <1>12
  <2> HIDE DEF B, C
  <2> QED BY <1>1, <1>2, <1>3, <1>4, <2>1, <2>2, TurnsMove
<1> HIDE DEF B, C
<1> QED BY <1>9, <1>10, <1>11, <1>12

\* What Distance reads is as it was.
LEMMA SameDistance ==
  ASSUME minute' = minute, minute # 0 \/ (fired' = fired /\ (Looking' <=> Looking))
  PROVE  Distance' = Distance
  BY DEF Distance

LEMMA SameLooks ==
  ASSUME OneLook, minute' = minute, fired' = fired,
         \A t \in Slot : tick'[t].pc = "look" <=> tick[t].pc = "look"
  PROVE  OneLook' /\ Distance' = Distance
<1>1. Looking' <=> Looking
  BY DEF Looking
<1>2. OneLook'
  BY <1>1 DEF OneLook
<1> QED BY <1>1, <1>2, SameDistance

\* What is blind depends on the stores and the distance.
LEMMA SameBlind ==
  ASSUME boot' = boot, Distance' = Distance
  PROVE  Blind' = Blind
  BY DEF Blind

\* A step that moves neither time, nor looks, nor stores.
LEMMA CalmWait ==
  ASSUME GateTypeOK, GateTypeOK', WaitInv, minute' = minute, boot' = boot,
         fired' = fired, \A t \in Slot : tick'[t].pc = "look" <=> tick[t].pc = "look",
         waited' \in {waited, 0}, bad' = bad \/ CallFails
  PROVE  WaitInv'
<1>1. OneLook' /\ Distance' = Distance
  BY SameLooks DEF WaitInv
<1>2. Blind' = Blind
  BY <1>1, SameBlind
<1>3. bad' >= bad
  <2>1. bad \in Nat
    BY BoundsAreNumbers DEF GateTypeOK
  <2> QED BY <2>1, FaultIsCounted
<1>4. waited' + Distance' <= waited + Distance \/ waited' = 0
  <2>1. waited \in Nat /\ Distance \in Nat
    BY DistanceIsShort, BoundsAreNumbers DEF GateTypeOK
  <2>2. CASE waited' = waited
    <3>1. waited' + Distance' = waited + Distance
      BY <1>1, <2>2
    <3> QED BY <2>1, <3>1
  <2> QED BY <2>2
<1> QED BY <1>1, <1>2, <1>3, <1>4, WaitMoves

\* The minute's tick is called: if it is the sweep's, its look is owed at once.
LEMMA CallWait ==
  ASSUME GateTypeOK, GateTypeOK', WaitInv, NEW s \in Slot, NEW i \in Worker,
         RunSweep(s, i) \/ RunPending(s, i) \/ RunUnmarked(s, i) \/ RunChanged(s, i)
           \/ RunUnreadable(s, i)
  PROVE  WaitInv'
<1>1. PICK prev \in Wake : Call(s, i, prev) /\ (UNCHANGED bad \/ CallFails)
  BY DEF RunSweep, RunPending, RunUnmarked, RunChanged, RunUnreadable, Wake
<1>2. ~Looking /\ ~fired /\ fired'
  BY <1>1 DEF Call, WaitInv, OneLook
<1>3. \A t \in Slot : tick'[t].pc = "look" <=> t = s
  BY <1>1, <1>2 DEF Call, Looking, GateTypeOK, Free, NoTick
<1>4. Looking' /\ OneLook'
  BY <1>2, <1>3 DEF Looking, OneLook
<1>5. Distance' = Distance
  <2>1. minute' = minute
    BY <1>1 DEF Call
  <2> QED BY <1>2, <1>4, <2>1 DEF Distance
<1>6. Blind' = Blind
  BY <1>1, <1>5, SameBlind DEF Call
<1>7. bad' >= bad
  <2>1. bad \in Nat
    BY BoundsAreNumbers DEF GateTypeOK
  <2> QED BY <1>1, <2>1, FaultIsCounted
<1>8. waited' + Distance' <= waited + Distance
  <2>1. waited \in Nat /\ Distance \in Nat
    BY DistanceIsShort, BoundsAreNumbers DEF GateTypeOK
  <2>2. waited' + Distance' = waited + Distance
    BY <1>1, <1>5 DEF Call
  <2> QED BY <2>1, <2>2
<1> QED BY <1>4, <1>6, <1>7, <1>8, WaitMoves

LEMMA SkipWait ==
  ASSUME GateTypeOK, GateTypeOK', WaitInv, Skip
  PROVE  WaitInv'
<1>1. minute # 0 /\ fired' /\ minute' = minute /\ boot' = boot /\ tick' = tick
      /\ waited' = waited /\ bad' = bad
  BY DEF Skip, IsSweep
<1>2. OneLook'
  BY <1>1 DEF OneLook, Looking, WaitInv
<1>3. Distance' = Distance
  BY <1>1, SameDistance
<1>4. Blind' = Blind
  BY <1>1, <1>3, SameBlind
<1>5. waited' + Distance' <= waited + Distance /\ bad' >= bad
  <2>1. waited \in Nat /\ Distance \in Nat /\ bad \in Nat
    BY DistanceIsShort, BoundsAreNumbers DEF GateTypeOK
  <2>2. waited' + Distance' = waited + Distance
    BY <1>1, <1>3
  <2> QED BY <1>1, <2>1, <2>2
<1> QED BY <1>2, <1>4, <1>5, WaitMoves

\* A tick has looked, or was cut before it: no look is owed, and if this is the sweep's
\* minute the next sweep is a whole round away, when no cooldown of today still lasts.
LEMMA LookOver ==
  ASSUME GateTypeOK, WaitInv, minute' = minute, fired' = fired,
         NEW s \in Slot, tick[s].pc = "look",
         \A t \in Slot : tick'[t].pc = "look" => t # s /\ tick[t].pc = "look"
  PROVE  /\ OneLook'
         /\ Distance' = Distance \/ (minute = 0 /\ Distance = 0 /\ Distance' = Sweep)
<1>1. Looking /\ ~Looking'
  BY DEF WaitInv, OneLook, Looking
<1>2. OneLook'
  BY <1>1 DEF OneLook, Looking
<1> QED BY <1>1, <1>2 DEF Distance

LEMMA NoneBlind ==
  ASSUME GateTypeOK', Distance' = Sweep
  PROVE  Blind' = {}
<1>1. \A i \in Worker : boot'[i].cool \in 0..Cooldown
  BY DEF GateTypeOK
<1>2. \A c \in 0..Cooldown : ~(c > Sweep)
  BY BoundsAreNumbers
<1> QED BY <1>1, <1>2 DEF Blind

LEMMA LookWait ==
  ASSUME GateTypeOK, GateTypeOK', WaitInv, NEW s \in Slot, Look(s)
  PROVE  WaitInv'
<1>1. /\ tick[s].pc = "look" /\ minute' = minute /\ fired' = fired
      /\ \A t \in Slot : tick'[t].pc = "look" => t # s /\ tick[t].pc = "look"
  BY DEF Look, Looked, GateTypeOK
<1>2. /\ OneLook'
      /\ Distance' = Distance \/ (minute = 0 /\ Distance = 0 /\ Distance' = Sweep)
  BY <1>1, LookOver
<1>3. Blind' \subseteq Blind
  <2>1. CASE Distance' = Distance
    BY <2>1 DEF Look, Blind, GateTypeOK
  <2> QED BY <1>2, <2>1, NoneBlind
<1>4. waited' = 0 /\ bad' >= bad
  <2>1. bad \in Nat
    BY BoundsAreNumbers DEF GateTypeOK
  <2> QED BY <2>1 DEF Look
<1> QED BY <1>2, <1>3, <1>4, WaitMoves

LEMMA LookFailsWait ==
  ASSUME GateTypeOK, GateTypeOK', WaitInv, NEW s \in Slot, LookFails(s)
  PROVE  WaitInv'
<1>1. /\ tick[s].pc = "look" /\ minute' = minute /\ fired' = fired /\ waited' = waited
      /\ \A t \in Slot : tick'[t].pc = "look" => t # s /\ tick[t].pc = "look"
  BY DEF LookFails, Looked, GateTypeOK
<1>2. /\ OneLook'
      /\ Distance' = Distance \/ (minute = 0 /\ Distance = 0 /\ Distance' = Sweep)
  BY <1>1, LookOver
<1>3. bad' = bad + 1
  BY FaultIsCounted DEF LookFails
<1>4. waited \in Nat /\ Distance \in Nat /\ Sweep \in Nat /\ tick[s].iso \in Worker
  BY DistanceIsShort, BoundsAreNumbers DEF GateTypeOK
<1>5. CASE Distance' = Distance
  <2>1. Blind' \subseteq Blind \cup {tick[s].iso}
    BY <1>4, <1>5 DEF LookFails, Blind, GateTypeOK
  <2>2. waited' + Distance' = waited + Distance
    BY <1>1, <1>5
  <2>3. waited' + Distance' <= waited + Distance
    BY <1>4, <2>2
  <2> QED BY <1>2, <1>3, <1>4, <2>1, <2>3, WaitMoves
<1>6. CASE minute = 0 /\ Distance = 0 /\ Distance' = Sweep
  <2>1. Blind' \subseteq Blind
    BY <1>6, NoneBlind
  <2>2. waited' + Distance' = waited + Sweep
    BY <1>1, <1>6
  <2>3. waited' + Distance' <= waited + Distance + Sweep
    BY <1>4, <1>6, <2>2
  <2> QED BY <1>2, <1>3, <2>1, <2>3, WaitMoves
<1> QED BY <1>2, <1>5, <1>6

LEMMA LookBlindWait ==
  ASSUME GateTypeOK, GateTypeOK', WaitInv, NEW s \in Slot, LookBlind(s)
  PROVE  WaitInv'
<1>1. /\ tick[s].pc = "look" /\ minute' = minute /\ fired' = fired /\ waited' = waited
      /\ bad' = bad /\ boot' = boot
      /\ \A t \in Slot : tick'[t].pc = "look" => t # s /\ tick[t].pc = "look"
  BY DEF LookBlind, Looked, GateTypeOK
<1>2. /\ OneLook'
      /\ Distance' = Distance \/ (minute = 0 /\ Distance = 0 /\ Distance' = Sweep)
  BY <1>1, LookOver
<1>4. waited \in Nat /\ Distance \in Nat /\ Sweep \in Nat /\ bad \in Nat
      /\ tick[s].iso \in Worker
  BY DistanceIsShort, BoundsAreNumbers DEF GateTypeOK
<1>5. CASE Distance' = Distance
  <2>1. Blind' = Blind
    BY <1>1, <1>5, SameBlind
  <2>2. waited' + Distance' = waited + Distance
    BY <1>1, <1>5
  <2>3. waited' + Distance' <= waited + Distance /\ bad' >= bad
    BY <1>1, <1>4, <2>2
  <2> QED BY <1>2, <2>1, <2>3, WaitMoves
<1>6. CASE minute = 0 /\ Distance = 0 /\ Distance' = Sweep
  <2>1. Blind' = {}
    BY <1>6, NoneBlind
  <2>2. tick[s].iso \in Blind
    <3>1. boot[tick[s].iso].state = "failed" /\ boot[tick[s].iso].cool # 0
      BY <1>4 DEF LookBlind, CanLoad, GateTypeOK
    <3>2. boot[tick[s].iso].cool \in Nat
      BY <1>4, BoundsAreNumbers DEF GateTypeOK
    <3> QED BY <1>4, <1>6, <3>1, <3>2 DEF Blind
  <2>3. waited' + Distance' = waited + Sweep
    BY <1>1, <1>6
  <2>4. waited' + Distance' <= waited + Distance + Sweep
    BY <1>4, <1>6, <2>3
  <2> QED BY <1>1, <1>2, <2>1, <2>2, <2>4, WaitMoves
<1> QED BY <1>2, <1>5, <1>6

LEMMA EvictWait ==
  ASSUME GateTypeOK, GateTypeOK', WaitInv, NEW i \in Worker, EvictWorker(i)
  PROVE  WaitInv'
<1>1. /\ minute' = minute /\ fired' = fired /\ waited' = waited
      /\ \A t \in Slot : tick'[t] \in {tick[t], NoTick}
      /\ \A t \in Slot : tick'[t].pc = "look" => tick[t].pc = "look"
  BY DEF EvictWorker, NoTick
<1>2. bad' = bad + 1
  BY FaultIsCounted DEF EvictWorker
<1>3. waited \in Nat /\ Distance \in Nat /\ Sweep \in Nat
  BY DistanceIsShort, BoundsAreNumbers DEF GateTypeOK
<1>4. CASE \A t \in Slot : tick'[t].pc = "look" <=> tick[t].pc = "look"
  <2>1. OneLook' /\ Distance' = Distance
    BY <1>1, <1>4, SameLooks DEF WaitInv
  <2>2. Blind' \subseteq Blind
    BY <2>1 DEF EvictWorker, Blind, GateTypeOK
  <2>3. waited' + Distance' = waited + Distance
    BY <1>1, <2>1
  <2>4. waited' + Distance' <= waited + Distance + Sweep
    BY <1>3, <2>3
  <2> QED BY <1>2, <2>1, <2>2, <2>4, WaitMoves
<1>5. CASE ~ \A t \in Slot : tick'[t].pc = "look" <=> tick[t].pc = "look"
  <2>1. PICK t \in Slot : tick[t].pc = "look" /\ tick'[t].pc # "look"
    BY <1>1, <1>5
  <2>2. \A r \in Slot : tick'[r].pc = "look" => r # t /\ tick[r].pc = "look"
    BY <1>1, <2>1
  <2>3. /\ OneLook'
        /\ Distance' = Distance \/ (minute = 0 /\ Distance = 0 /\ Distance' = Sweep)
    BY <1>1, <2>1, <2>2, LookOver
  <2>4. Blind' \subseteq Blind
    <3>1. CASE Distance' = Distance
      BY <3>1 DEF EvictWorker, Blind, GateTypeOK
    <3> QED BY <2>3, <3>1, NoneBlind
  <2>5. waited' + Distance' = waited + Distance \/ waited' + Distance' = waited + Sweep
    BY <1>1, <2>3
  <2>6. waited' + Distance' <= waited + Distance + Sweep
    BY <1>3, <2>5
  <2> QED BY <1>2, <2>3, <2>4, <2>6, WaitMoves
<1> QED BY <1>4, <1>5

\* A minute brings the sweep a minute nearer, for the work and for the cooldowns.
LEMMA MinuteWait ==
  ASSUME GateTypeOK, GateTypeOK', WaitInv, Minute
  PROVE  WaitInv'
<1>1. fired /\ ~Looking /\ ~Looking' /\ fired' = FALSE /\ tick' = tick /\ bad' = bad
  BY DEF Minute, Looking
<1>2. OneLook'
  BY <1>1 DEF OneLook, Looking
<1>3. minute \in 0..(Sweep - 1) /\ Sweep \in Nat /\ Sweep > 0 /\ waited \in Nat /\ bad \in Nat
  BY BoundsAreNumbers DEF GateTypeOK
<1>4. Distance = Sweep - minute
  BY <1>1, <1>3 DEF Distance
<1>5. Distance' = Distance - 1 /\ Distance \in Nat
  <2>1. minute' = IF minute = Sweep - 1 THEN 0 ELSE minute + 1
    BY <1>3, NextMinuteIs DEF Minute
  <2>2. CASE minute = Sweep - 1
    <3>1. minute' = 0 /\ Distance' = 0
      BY <1>1, <2>1, <2>2 DEF Distance
    <3> QED BY <1>3, <1>4, <2>2, <3>1
  <2>3. CASE minute # Sweep - 1
    <3>1. minute' = minute + 1
      BY <2>1, <2>3
    <3>2. minute + 1 # 0
      BY <1>3
    <3>3. Distance' = Sweep - (minute + 1)
      BY <3>1, <3>2 DEF Distance
    <3> QED BY <1>3, <1>4, <3>3
  <2> QED BY <2>2, <2>3
<1>6. Blind' \subseteq Blind
  <2>1. SUFFICES ASSUME NEW i \in Worker, boot'[i].state = "failed",
                        boot'[i].cool > Distance'
                 PROVE  boot[i].state = "failed" /\ boot[i].cool > Distance
    BY DEF Blind
  <2>2. /\ boot'[i].state = boot[i].state
        /\ boot'[i].cool = IF boot[i].cool = 0 THEN 0 ELSE boot[i].cool - 1
    BY DEF Minute, GateTypeOK
  <2>3. PICK c \in Nat : boot[i].cool = c
    <3>1. boot[i].cool \in Nat
      BY BoundsAreNumbers DEF GateTypeOK
    <3> QED BY <3>1
  <2>4. PICK d \in Nat : Distance = d
    BY <1>5
  <2>5. (IF c = 0 THEN 0 ELSE c - 1) > d - 1
    BY <1>5, <2>1, <2>2, <2>3, <2>4
  <2>6. d > 0
    BY <1>3, <1>4, <2>4
  <2>7. c > d
    BY <2>5, <2>6
  <2> QED BY <2>1, <2>2, <2>3, <2>4, <2>7
<1>7. bad' >= bad /\ (waited' + Distance' <= waited + Distance \/ waited' = 0)
  <2>1. CASE waited' = waited + 1
    <3>1. waited' + Distance' = (waited + 1) + (Distance - 1)
      BY <1>5, <2>1
    <3>2. (waited + 1) + (Distance - 1) <= waited + Distance
      BY <1>3, <1>5
    <3> QED BY <1>1, <1>3, <3>1, <3>2
  <2> QED BY <1>1, <1>3, <2>1 DEF Minute
<1> QED BY <1>2, <1>6, <1>7, WaitMoves

LEMMA WaitStep ==
  ASSUME GateTypeOK, GateTypeOK', WaitInv, [GateNext]_gateVars
  PROVE  WaitInv'
<1>u. CASE UNCHANGED gateVars
  BY <1>u, CalmWait DEF gateVars
<1>1. ASSUME NEW i \in Worker, Release(i)  PROVE WaitInv'
  <2>1. \A t \in Slot : tick'[t].pc = tick[t].pc
    BY <1>1 DEF Release, Overtake, GateTypeOK
  <2> QED BY <1>1, <2>1, CalmWait DEF Release
<1>3. ASSUME markSchedulerWork  PROVE WaitInv'
  BY <1>3, CalmWait DEF markSchedulerWork
<1>4. ASSUME MarkFails  PROVE WaitInv'
  BY <1>4, CalmWait DEF MarkFails
<1>12. ASSUME NEW s \in Slot, Work(s)  PROVE WaitInv'
  BY <1>12, CalmWait DEF Work
<1>13. ASSUME NEW s \in Slot, Retire(s)  PROVE WaitInv'
  BY <1>13, CalmWait DEF Retire
<1>14. ASSUME NEW s \in Slot, End(s)  PROVE WaitInv'
  <2>1. \A t \in Slot : tick'[t].pc = "look" <=> tick[t].pc = "look"
    BY <1>14 DEF End, NoTick, GateTypeOK
  <2> QED BY <1>14, <2>1, CalmWait DEF End
<1>15. ASSUME NEW s \in Slot, EndLost(s)  PROVE WaitInv'
  <2>1. \A t \in Slot : tick'[t].pc = "look" <=> tick[t].pc = "look"
    BY <1>15 DEF EndLost, NoTick, GateTypeOK
  <2> QED BY <1>15, <2>1, CalmWait DEF EndLost
<1> QED
  BY <1>u, <1>1, <1>3, <1>4, <1>12, <1>13, <1>14, <1>15, CallWait, SkipWait, LookWait,
     LookFailsWait, LookBlindWait, EvictWait, MinuteWait DEF GateNext

LEMMA WaitAtFirst == GateInit => WaitInv
<1>1. SUFFICES ASSUME GateInit PROVE WaitInv
  OBVIOUS
<1>2. ~Looking /\ OneLook
  BY <1>1 DEF GateInit, NoTick, Looking, OneLook
<1>3. Blind = {}
  BY <1>1 DEF GateInit, Blind
<1>4. Cardinality(Blind) = 0 /\ bad = 0 /\ waited = 0
  BY <1>1, <1>3, FS_EmptySet DEF GateInit
<1>5. Sweep * (1 + bad - Cardinality(Blind)) = Sweep /\ waited + Distance <= Sweep
  <2>1. Distance \in 0..Sweep
    BY <1>1, BoundsAreNumbers DEF GateInit, Distance
  <2>2. Sweep * (1 + bad - Cardinality(Blind)) = Sweep * 1
    BY <1>4
  <2> QED BY <1>4, <2>1, <2>2, BoundsAreNumbers
<1> QED BY <1>2, <1>4, <1>5 DEF WaitInv

\* The wait for the next sweep and the blind isolates, in every reachable state.
THEOREM WaitInvariant == GateSpec => [](GateTypeOK /\ WaitInv)
<1>1. GateInit => GateTypeOK /\ WaitInv
  BY WaitAtFirst, GateTypeAtFirst
<1>2. GateTypeOK /\ WaitInv /\ [GateNext]_gateVars => (GateTypeOK /\ WaitInv)'
  BY GateTypeStep, WaitStep
<1> QED BY <1>1, <1>2, PTL DEF GateSpec

\* Whatever happens to the marker, live work waits for a look no longer than a sweep, and
\* a sweep more for each fault: "a missed update can delay a tick by minutes, never wedge
\* the scheduler".
THEOREM WorkIsNeverWedgedHolds == GateSpec => []WorkIsNeverWedged
<1>1. GateTypeOK /\ WaitInv => WorkIsNeverWedged
  <2>1. SUFFICES ASSUME GateTypeOK, WaitInv PROVE waited <= Sweep * (1 + bad)
    BY DEF WorkIsNeverWedged
  <2> DEFINE B == Cardinality(Blind)
  <2>2. B \in Nat /\ bad \in Nat /\ waited \in Nat /\ Distance \in Nat
    BY <2>1, BlindAreFew, DistanceIsShort, BoundsAreNumbers DEF GateTypeOK
  <2>3. B <= bad /\ waited + Distance <= Sweep * (1 + bad - B)
    BY <2>1 DEF WaitInv
  <2>4. bad - B \in Nat /\ 1 + bad - B = 1 + (bad - B) /\ bad >= bad - B
        /\ waited <= waited + Distance /\ waited + Distance \in Nat
    <3> HIDE DEF B
    <3> QED BY <2>2, <2>3
  <2>5. waited + Distance <= Sweep * (1 + (bad - B))
    <3> HIDE DEF B
    <3> QED BY <2>3, <2>4
  <2>6. waited <= Sweep * (1 + bad)
    <3> DEFINE w0 == waited + Distance
               k == bad - B
    <3> HIDE DEF w0, k, B
    <3>1. k \in Nat /\ w0 \in Nat /\ bad >= k /\ waited <= w0 /\ w0 <= Sweep * (1 + k)
      BY <2>4, <2>5 DEF w0, k
    <3> QED BY <2>2, <3>1, TurnsGrow
  <2> QED BY <2>6
<1> QED BY <1>1, WaitInvariant, PTL

-----------------------------------------------------------------------------
\* Without a fault and a stolen marker: the marker is never "idle" over live work that is
\* marked, a tick that looked after the work came to life sees it, and what waits a
\* minute has its tick before it.
QuickInv ==
  bad = 0 /\ ~stolen =>
    /\ \A i \in Worker : boot[i].state # "failed"
    /\ mark => work.age = 0
    /\ Alive /\ ~mark => marker # "idle"
    /\ \A s \in Slot :
         tick[s].pc = "run" /\ ~tick[s].behind /\ Alive => view[tick[s].iso]
    /\ waited <= 1
    /\ Alive /\ waited = 1 => ~fired \/ Looking

LEMMA AliveHolds == Alive => Holds(work)
  BY DEF Alive, Holds

\* A fault spoils the premise for good.
LEMMA FaultEndsQuick ==
  ASSUME GateTypeOK, CallFails
  PROVE  QuickInv'
<1>1. bad \in Nat /\ bad' = bad + 1
  BY FaultIsCounted, BoundsAreNumbers DEF GateTypeOK
<1>2. bad' # 0
  BY <1>1
<1> QED BY <1>2 DEF QuickInv

\* The steps that begin nothing and end nothing.
LEMMA CallQuick ==
  ASSUME GateTypeOK, QuickInv, UNCHANGED bad, NEW s \in Slot, NEW i \in Worker,
         NEW prev \in Wake, Call(s, i, prev)
  PROVE  QuickInv'
<1>1. /\ UNCHANGED <<work, marker, mark, boot, view, waited, stolen, bad>>
      /\ tick' = [tick EXCEPT ![s] = [NoTick EXCEPT !.pc = "look", !.iso = i, !.prev = prev]]
  BY DEF Call
<1>2. Looking' /\ (Alive' <=> Alive)
  BY <1>1 DEF Looking, GateTypeOK, NoTick, Alive
<1>3. \A t \in Slot : tick'[t].pc = "run" => tick'[t] = tick[t]
  BY <1>1 DEF GateTypeOK, NoTick
<1> QED BY <1>1, <1>2, <1>3 DEF QuickInv

LEMMA QuickStep ==
  ASSUME GateTypeOK, GateTypeOK', OneLook, QuickInv, [GateNext]_gateVars
  PROVE  QuickInv'
<1>0. work.age \in 0..Dead /\ work.state \in {"none", "live", "parked"} /\ waited \in Nat
  BY DEF GateTypeOK
<1>u. CASE UNCHANGED gateVars
  BY <1>u DEF gateVars, QuickInv, Alive, Looking
<1>1. ASSUME NEW i \in Worker, Release(i)  PROVE QuickInv'
  <2>1. /\ mark' = TRUE /\ work'.age = 0 /\ waited' = 0
        /\ UNCHANGED <<boot, stolen, bad>>
    BY <1>1 DEF Release
  <2>2. \A t \in Slot : tick'[t].pc = "run" => tick'[t].behind
    BY <1>1 DEF Release, Overtake, GateTypeOK
  <2> QED BY <2>1, <2>2 DEF QuickInv
<1>2. ASSUME NEW i \in Worker, EvictWorker(i)  PROVE QuickInv'
  BY <1>2, FaultEndsQuick DEF EvictWorker
<1>3. ASSUME markSchedulerWork  PROVE QuickInv'
  BY <1>3 DEF markSchedulerWork, QuickInv, Alive, Looking
<1>4. ASSUME MarkFails  PROVE QuickInv'
  BY <1>4, FaultEndsQuick DEF MarkFails
<1>6. ASSUME NEW s \in Slot, NEW i \in Worker,
             RunSweep(s, i) \/ RunPending(s, i) \/ RunUnmarked(s, i) \/ RunChanged(s, i)
               \/ RunUnreadable(s, i)
      PROVE  QuickInv'
  <2>1. PICK prev \in Wake : Call(s, i, prev) /\ (UNCHANGED bad \/ CallFails)
    BY <1>6 DEF RunSweep, RunPending, RunUnmarked, RunChanged, RunUnreadable, Wake
  <2> QED BY <2>1, CallQuick, FaultEndsQuick
<1>7. ASSUME Skip  PROVE QuickInv'
  <2>1. UNCHANGED <<work, marker, mark, boot, view, tick, waited, stolen, bad>>
    BY <1>7 DEF Skip
  <2>2. (Alive' <=> Alive) /\ (Looking' <=> Looking)
    BY <2>1 DEF Alive, Looking
  <2>3. bad = 0 /\ ~stolen => ~Alive
    <3>1. ~mark \/ work.age = 0 \/ ~(bad = 0 /\ ~stolen)
      BY DEF QuickInv
    <3>2. work.age # 0
      BY <1>7, BoundsAreNumbers DEF Skip, RowsChanged
    <3> QED BY <1>7, <3>1, <3>2 DEF QuickInv, Skip
  <2> QED BY <2>1, <2>2, <2>3 DEF QuickInv
<1>9. ASSUME NEW s \in Slot, Look(s)  PROVE QuickInv'
  <2>1. UNCHANGED <<work, marker, mark, stolen, bad>> /\ waited' = 0
    BY <1>9 DEF Look, Looked
  <2>2. Alive' <=> Alive
    BY <2>1 DEF Alive
  <2>3. \A i \in Worker : boot'[i].state # "failed" \/ boot'[i] = boot[i]
    BY <1>9 DEF Look, GateTypeOK
  <2>4. \A i \in Worker : Alive /\ view[i] => view'[i]
    BY <1>9, AliveHolds DEF Look, Looked, GateTypeOK
  <2>5. \A t \in Slot : tick'[t].iso = tick[t].iso /\ tick'[t].behind = tick[t].behind
                        /\ (t # s => tick'[t].pc = tick[t].pc)
    BY <1>9 DEF Look, Looked, GateTypeOK
  <2>6. Alive => view'[tick[s].iso]
    BY <1>9, AliveHolds DEF Look, Looked, GateTypeOK
  <2>7. \A t \in Slot : tick[t].iso \in Worker
    BY DEF GateTypeOK
  <2> QED BY <2>1, <2>2, <2>3, <2>4, <2>5, <2>6, <2>7 DEF QuickInv
<1>10. ASSUME NEW s \in Slot, LookFails(s)  PROVE QuickInv'
  BY <1>10, FaultEndsQuick DEF LookFails
<1>11. ASSUME NEW s \in Slot, LookBlind(s)  PROVE QuickInv'
  <2>1. tick[s].iso \in Worker
    BY DEF GateTypeOK
  <2>2. boot[tick[s].iso].state = "failed"
    BY <1>11, <2>1 DEF LookBlind, CanLoad, GateTypeOK
  <2>3. bad' = bad /\ stolen' = stolen
    BY <1>11 DEF LookBlind, Looked
  <2> QED BY <2>1, <2>2, <2>3 DEF QuickInv
<1>12. ASSUME NEW s \in Slot, Work(s)  PROVE QuickInv'
  <2>1. PICK next \in {"live", "none", "parked"} :
          /\ work' = [state |-> next, age |-> 0]
          /\ view' = [view EXCEPT ![tick[s].iso] = next # "none"]
    BY <1>12 DEF Work
  <2>2. UNCHANGED <<fired, marker, mark, boot, tick, waited, stolen, bad>> /\ Alive
    BY <1>12 DEF Work
  <2>3. work'.age = 0 /\ (Alive' => next = "live")
    BY <2>1 DEF Alive
  <2>4. Looking' <=> Looking
    BY <2>2 DEF Looking
  <2>5. \A t \in Slot : tick[t].iso \in Worker
    BY DEF GateTypeOK
  <2>6. \A i \in Worker : Alive' /\ view[i] => view'[i]
    BY <2>1, <2>3 DEF GateTypeOK
  <2> QED BY <2>2, <2>3, <2>4, <2>5, <2>6 DEF QuickInv
<1>13. ASSUME NEW s \in Slot, Retire(s)  PROVE QuickInv'
  <2>1. UNCHANGED <<fired, marker, mark, boot, view, tick, waited, stolen, bad>>
        /\ work'.age = 0 /\ ~Alive'
    BY <1>13 DEF Retire, Alive
  <2> QED BY <2>1 DEF QuickInv
<1>14. ASSUME NEW s \in Slot, End(s)  PROVE QuickInv'
  <2>1. UNCHANGED <<fired, work, mark, boot, view, waited, bad>>
    BY <1>14 DEF End
  <2>2. \A t \in Slot : tick'[t].pc = "run" => tick'[t] = tick[t]
    BY <1>14 DEF End, GateTypeOK, NoTick
  <2>3. (Alive' <=> Alive) /\ (Looking <=> Looking')
    BY <1>14, <2>1 DEF End, Alive, Looking, GateTypeOK, NoTick
  <2>4. stolen => stolen'
    BY <1>14 DEF End
  <2>5. ASSUME bad = 0, ~stolen', Alive, ~mark  PROVE marker' # "idle"
    <3>1. marker # "idle"
      BY <2>4, <2>5 DEF QuickInv
    <3>2. CASE Written(s, Answer(tick[s].iso)) /\ Answer(tick[s].iso) = "idle"
      <4>1. ~tick[s].behind /\ tick[s].pc = "run"
        BY <1>14, <2>5, <3>2 DEF End
      <4>2. view[tick[s].iso]
        BY <2>4, <2>5, <4>1 DEF QuickInv
      <4> QED BY <3>2, <4>2 DEF Answer
    <3> QED BY <1>14, <3>1, <3>2 DEF End
  <2> QED BY <2>1, <2>2, <2>3, <2>4, <2>5 DEF QuickInv
<1>15. ASSUME NEW s \in Slot, EndLost(s)  PROVE QuickInv'
  BY <1>15, FaultEndsQuick DEF EndLost
<1>16. ASSUME Minute  PROVE QuickInv'
  <2>1. UNCHANGED <<marker, mark, view, tick, stolen, bad>> /\ fired /\ ~Looking /\ ~mark
        /\ fired' = FALSE
    BY <1>16 DEF Minute, Looking
  <2>2. Alive' => Alive
    <3>1. work'.state = work.state
          /\ work'.age = (IF work.age < Dead THEN work.age + 1 ELSE Dead)
      BY <1>16 DEF Minute, GateTypeOK
    <3>2. ASSUME Alive' PROVE Alive
      <4>1. work'.state = "live" /\ work'.age < Dead
        BY <3>2 DEF Alive
      <4>2. (IF work.age < Dead THEN work.age + 1 ELSE Dead) < Dead
        BY <3>1, <4>1
      <4>3. work.age < Dead
        BY <1>0, <4>2, BoundsAreNumbers
      <4> QED BY <3>1, <4>1, <4>3 DEF Alive
    <3> QED BY <3>2
  <2>3. \A i \in Worker : boot'[i].state = boot[i].state
    BY <1>16 DEF Minute, GateTypeOK
  <2>4. bad = 0 /\ ~stolen => waited' <= 1
    <3>1. ASSUME bad = 0, ~stolen, Alive  PROVE waited = 0
      <4>1. waited <= 1 /\ waited # 1
        BY <2>1, <3>1 DEF QuickInv
      <4> QED BY <1>0, <4>1
    <3> QED BY <1>16, <3>1 DEF Minute
  <2> QED BY <2>1, <2>2, <2>3, <2>4 DEF QuickInv
<1> QED
  BY <1>u, <1>1, <1>2, <1>3, <1>4, <1>6, <1>7, <1>9, <1>10, <1>11, <1>12, <1>13, <1>14,
     <1>15, <1>16 DEF GateNext

\* Work just released is looked at by the next minute's tick, unless a fault came between
\* or a slower tick wrote "idle" over its marker.
THEOREM FreshWorkIsQuickHolds == GateSpec => []FreshWorkIsQuick
<1>1. GateInit => QuickInv
  BY DEF GateInit, QuickInv, Alive, NoTick
<1>2. GateTypeOK /\ WaitInv /\ GateTypeOK' /\ QuickInv /\ [GateNext]_gateVars => QuickInv'
  BY QuickStep DEF WaitInv
<1>3. QuickInv => FreshWorkIsQuick
  BY DEF QuickInv, FreshWorkIsQuick
<1> QED BY <1>1, <1>2, <1>3, WaitInvariant, PTL DEF GateSpec

-----------------------------------------------------------------------------
\* The sum over a finite set, as the fold of the library computes it: take out an element,
\* add what is left.
Sums(it, f) ==
  it = [s \in SUBSET Isolate |->
          IF s = {} THEN 0
          ELSE f[CHOOSE x \in s : TRUE] + it[s \ {CHOOSE x \in s : TRUE}]]

\* A family of subsets of a finite set has a minimal one: what induction on the set stands on.
LEMMA SmallestSubset ==
  ASSUME NEW S, IsFiniteSet(S), NEW T, T \subseteq SUBSET S, T # {}
  PROVE  \E x \in T : \A y \in T : y \subseteq x => y = x
<1>1. IsWellFoundedOn(StrictSubsetOrdering(S), SUBSET S)
  BY FS_StrictSubsetOrderingWellFounded, FS_FiniteSubsetsOfFinite
<1>2. PICK x \in T : \A y \in T : ~ (<<y, x>> \in StrictSubsetOrdering(S))
  BY <1>1, WFMin
<1>3. ASSUME NEW y \in T, y \subseteq x  PROVE y = x
  BY <1>2, <1>3 DEF StrictSubsetOrdering
<1> QED BY <1>3

LEMMA SmallestNumber ==
  ASSUME NEW T \in SUBSET Nat, T # {}
  PROVE  \E n \in T : \A m \in T : n <= m
<1>1. PICK n \in T : \A m \in T : ~ (<<m, n>> \in OpToRel(<, Nat))
  BY NatLessThanWellFounded, WFMin
<1>2. \A m \in T : ~ (m < n)
  BY <1>1 DEF OpToRel
<1> QED BY <1>2

\* The equation of the sums has a solution: it holds up to one more element of the set
\* each time it is unfolded.
UpTo(g, f, n) ==
  \A s \in SUBSET Isolate :
    Cardinality(s) <= n =>
      g[s] = IF s = {} THEN 0
             ELSE f[CHOOSE x \in s : TRUE] + g[s \ {CHOOSE x \in s : TRUE}]

LEMMA SubsetsAreFinite ==
  ASSUME NEW s \in SUBSET Isolate
  PROVE  /\ IsFiniteSet(s) /\ Cardinality(s) \in Nat /\ Cardinality(s) <= Cardinality(Isolate)
         /\ s # {} => /\ (CHOOSE x \in s : TRUE) \in s
                      /\ s \ {CHOOSE x \in s : TRUE} \in SUBSET Isolate
                      /\ Cardinality(s \ {CHOOSE x \in s : TRUE}) = Cardinality(s) - 1
<1>1. IsFiniteSet(s) /\ Cardinality(s) <= Cardinality(Isolate)
  BY FiniteAssumption, FS_Subset
<1>2. Cardinality(s) \in Nat
  BY <1>1, FS_CardinalityType
<1>3. ASSUME s # {}  PROVE (CHOOSE x \in s : TRUE) \in s
  BY <1>3
<1>4. ASSUME s # {}, NEW x \in s
      PROVE  s \ {x} \in SUBSET Isolate /\ Cardinality(s \ {x}) = Cardinality(s) - 1
  BY <1>1, FS_RemoveElement
<1> QED BY <1>1, <1>2, <1>3, <1>4

LEMMA UnfoldOnce ==
  ASSUME NEW f, NEW g, NEW n \in Nat, UpTo(g, f, n)
  PROVE  \E h : UpTo(h, f, n + 1)
<1> DEFINE h == [s \in SUBSET Isolate |->
                   IF s = {} THEN 0
                   ELSE f[CHOOSE x \in s : TRUE] + g[s \ {CHOOSE x \in s : TRUE}]]
<1>1. ASSUME NEW s \in SUBSET Isolate, Cardinality(s) <= n  PROVE h[s] = g[s]
  BY <1>1 DEF UpTo
<1>2. ASSUME NEW s \in SUBSET Isolate, Cardinality(s) <= n + 1
      PROVE  h[s] = IF s = {} THEN 0
                    ELSE f[CHOOSE x \in s : TRUE] + h[s \ {CHOOSE x \in s : TRUE}]
  <2>1. CASE s = {}
    BY <2>1
  <2>2. CASE s # {}
    <3> DEFINE x == CHOOSE x \in s : TRUE
    <3>1. s \ {x} \in SUBSET Isolate /\ Cardinality(s \ {x}) = Cardinality(s) - 1
          /\ Cardinality(s) \in Nat
      BY <2>2, SubsetsAreFinite
    <3>2. Cardinality(s \ {x}) <= n
      <4> HIDE DEF x
      <4> QED BY <1>2, <3>1
    <3>3. h[s \ {x}] = g[s \ {x}]
      <4> HIDE DEF x, h
      <4> QED BY <1>1, <3>1, <3>2
    <3>4. h[s] = f[x] + g[s \ {x}]
      BY <2>2
    <3> QED BY <2>2, <3>3, <3>4
  <2> QED BY <2>1, <2>2
<1> HIDE DEF h
<1>3. UpTo(h, f, n + 1)
  BY <1>2 DEF UpTo
<1> QED BY <1>3

LEMMA SumsExist ==
  ASSUME NEW f
  PROVE  \E it : Sums(it, f)
<1> DEFINE Bad == {n \in Nat : ~ \E g : UpTo(g, f, n)}
           N == Cardinality(Isolate)
<1>1. Bad = {}
  <2>1. SUFFICES ASSUME Bad # {} PROVE FALSE
    OBVIOUS
  <2>2. PICK n \in Bad : \A m \in Bad : n <= m
    <3>1. Bad \in SUBSET Nat
      OBVIOUS
    <3> HIDE DEF Bad
    <3> QED BY <2>1, <3>1, SmallestNumber
  <2>3. CASE n = 0
    <3> DEFINE g == [s \in SUBSET Isolate |-> 0]
    <3>1. UpTo(g, f, 0)
      <4>1. ASSUME NEW s \in SUBSET Isolate, Cardinality(s) <= 0  PROVE s = {}
        <5>1. Cardinality(s) = 0
          <6>1. Cardinality(s) \in Nat
            BY SubsetsAreFinite
          <6> QED BY <4>1, <6>1
        <5> QED BY <5>1, SubsetsAreFinite, FS_EmptySet
      <4> QED BY <4>1 DEF UpTo
    <3> HIDE DEF g
    <3> QED BY <2>2, <2>3, <3>1
  <2>4. CASE n # 0
    <3>1. n \in Nat /\ n - 1 \in Nat /\ (n - 1) + 1 = n /\ ~ (n <= n - 1)
      BY <2>2, <2>4
    <3>2. n - 1 \notin Bad
      <4> HIDE DEF Bad
      <4> QED BY <2>2, <3>1
    <3>3. PICK g : UpTo(g, f, n - 1)
      BY <3>1, <3>2
    <3>4. \E h : UpTo(h, f, (n - 1) + 1)
      BY <3>1, <3>3, UnfoldOnce
    <3> QED BY <2>2, <3>1, <3>4
  <2> QED BY <2>3, <2>4
<1>2. N \in Nat
  BY FiniteAssumption, FS_CardinalityType
<1>3. PICK g : UpTo(g, f, N)
  <2>1. N \notin Bad
    <3> HIDE DEF Bad
    <3> QED BY <1>1
  <2> HIDE DEF N
  <2> QED BY <1>2, <2>1
<1> DEFINE it == [s \in SUBSET Isolate |-> g[s]]
<1>4. ASSUME NEW s \in SUBSET Isolate
      PROVE  it[s] = IF s = {} THEN 0
                     ELSE f[CHOOSE x \in s : TRUE] + it[s \ {CHOOSE x \in s : TRUE}]
  <2>1. g[s] = IF s = {} THEN 0
               ELSE f[CHOOSE x \in s : TRUE] + g[s \ {CHOOSE x \in s : TRUE}]
    BY <1>3, SubsetsAreFinite DEF UpTo
  <2>2. s # {} => it[s \ {CHOOSE x \in s : TRUE}] = g[s \ {CHOOSE x \in s : TRUE}]
    BY SubsetsAreFinite
  <2> QED BY <2>1, <2>2
<1>5. Sums(it, f)
  <2>1. it = [s \in SUBSET Isolate |-> it[s]]
    OBVIOUS
  <2> HIDE DEF it
  <2> QED BY <1>4, <2>1 DEF Sums
<1> HIDE DEF it
<1> QED BY <1>5

LEMMA SumsUnfold ==
  ASSUME NEW f, NEW it, Sums(it, f), NEW s \in SUBSET Isolate
  PROVE  it[s] = IF s = {} THEN 0
                 ELSE f[CHOOSE x \in s : TRUE] + it[s \ {CHOOSE x \in s : TRUE}]
<1> DEFINE next(r) == IF r = {} THEN 0
                      ELSE f[CHOOSE x \in r : TRUE] + it[r \ {CHOOSE x \in r : TRUE}]
<1>1. it = [r \in SUBSET Isolate |-> next(r)]
  BY DEF Sums
<1>2. it[s] = next(s)
  <2> HIDE DEF next
  <2> QED BY <1>1
<1> QED BY <1>2

\* Two sums whose summands differ at most at one element differ by what it differs.
LEMMA SumsDiffer ==
  ASSUME NEW f \in [Isolate -> Nat], NEW g \in [Isolate -> Nat], NEW a, NEW b,
         Sums(a, f), Sums(b, g), NEW i, NEW u \in Nat, NEW v \in Nat,
         i \in Isolate => f[i] = u /\ g[i] = v,
         \A j \in Isolate : j # i => f[j] = g[j]
  PROVE  \A s \in SUBSET Isolate :
           /\ a[s] \in Nat /\ b[s] \in Nat
           /\ a[s] + (IF i \in s THEN v ELSE 0) = b[s] + (IF i \in s THEN u ELSE 0)
<1> DEFINE Right(s) == /\ a[s] \in Nat /\ b[s] \in Nat
                       /\ a[s] + (IF i \in s THEN v ELSE 0) = b[s] + (IF i \in s THEN u ELSE 0)
           Bad == {s \in SUBSET Isolate : ~ Right(s)}
<1>1. SUFFICES ASSUME Bad # {} PROVE FALSE
  OBVIOUS
<1>2. PICK s \in Bad : \A r \in Bad : r \subseteq s => r = s
  <2>1. Bad \subseteq SUBSET Isolate
    OBVIOUS
  <2> HIDE DEF Bad
  <2> QED BY <1>1, <2>1, FiniteAssumption, SmallestSubset
<1>3. s \in SUBSET Isolate /\ ~ Right(s)
  BY <1>2
<1>4. CASE s = {}
  <2>1. a[s] = 0 /\ b[s] = 0
    BY <1>3, <1>4, SumsUnfold
  <2> QED BY <1>3, <1>4, <2>1
<1>5. CASE s # {}
  <2> DEFINE x == CHOOSE x \in s : TRUE
             r == s \ {x}
  <2>1. x \in s /\ x \in Isolate /\ r \in SUBSET Isolate /\ x \notin r
    BY <1>3, <1>5, SubsetsAreFinite
  <2>2. a[s] = f[x] + a[r] /\ b[s] = g[x] + b[r]
    BY <1>3, <1>5, SumsUnfold
  <2>3. Right(r)
    <3>1. r \subseteq s /\ r # s
      BY <2>1
    <3>2. r \notin Bad
      <4> HIDE DEF Bad, r, x
      <4> QED BY <1>2, <3>1
    <3> HIDE DEF r, x
    <3> QED BY <2>1, <3>2
  <2>4. i \in s <=> i \in r \/ i = x
    BY <2>1
  <2>5. f[x] \in Nat /\ g[x] \in Nat
    <3> HIDE DEF x, r
    <3> QED BY <2>1
  <2>6. a[r] \in Nat /\ b[r] \in Nat
        /\ a[r] + (IF i \in r THEN v ELSE 0) = b[r] + (IF i \in r THEN u ELSE 0)
    BY <2>3
  <2> HIDE DEF x, r
  <2>7. a[s] \in Nat /\ b[s] \in Nat
    BY <2>2, <2>5, <2>6
  <2>8. CASE x = i
    <3>1. f[x] = u /\ g[x] = v /\ i \in s /\ i \notin r
      BY <2>1, <2>8
    <3>2. a[r] = b[r]
      BY <2>6, <3>1
    <3>3. f[x] + a[r] + v = g[x] + b[r] + u
      BY <2>6, <3>1, <3>2
    <3> QED BY <1>3, <2>2, <2>7, <3>1, <3>3
  <2>9. CASE x # i
    <3>1. f[x] = g[x] /\ (i \in s <=> i \in r)
      BY <2>1, <2>4, <2>9
    <3>2. a[s] + (IF i \in r THEN v ELSE 0) = b[s] + (IF i \in r THEN u ELSE 0)
      BY <2>2, <2>5, <2>6, <3>1
    <3> QED BY <1>3, <2>7, <3>1, <3>2
  <2> QED BY <2>8, <2>9
<1> QED BY <1>4, <1>5

LEMMA SumsOfNothing ==
  ASSUME NEW f, NEW a, Sums(a, f), \A j \in Isolate : f[j] = 0
  PROVE  \A s \in SUBSET Isolate : a[s] = 0
<1> DEFINE Bad == {s \in SUBSET Isolate : a[s] # 0}
<1>1. SUFFICES ASSUME Bad # {} PROVE FALSE
  OBVIOUS
<1>2. PICK s \in Bad : \A r \in Bad : r \subseteq s => r = s
  <2>1. Bad \subseteq SUBSET Isolate
    OBVIOUS
  <2> HIDE DEF Bad
  <2> QED BY <1>1, <2>1, FiniteAssumption, SmallestSubset
<1>3. s \in SUBSET Isolate /\ a[s] # 0
  BY <1>2
<1>4. CASE s = {}
  BY <1>3, <1>4, SumsUnfold
<1>5. CASE s # {}
  <2> DEFINE x == CHOOSE x \in s : TRUE
             r == s \ {x}
  <2>1. x \in s /\ x \in Isolate /\ r \in SUBSET Isolate /\ x \notin r
    BY <1>3, <1>5, SubsetsAreFinite
  <2>2. a[s] = f[x] + a[r]
    <3>1. a[s] = IF s = {} THEN 0 ELSE f[x] + a[r]
      BY <1>3, SumsUnfold
    <3> QED BY <1>5, <3>1
  <2>3. a[r] = 0
    <3>1. r \subseteq s /\ r # s
      BY <2>1
    <3> HIDE DEF r, x
    <3> QED BY <1>2, <2>1, <3>1
  <2> HIDE DEF x, r
  <2> QED BY <1>3, <2>1, <2>2, <2>3
<1> QED BY <1>4, <1>5

\* The sum of f.
Total(f) == (CHOOSE it : Sums(it, f))[Isolate]

LEMMA TotalIs ==
  ASSUME NEW f \in [Isolate -> Nat], NEW it, Sums(it, f)
  PROVE  it[Isolate] = Total(f) /\ Total(f) \in Nat
<1> DEFINE a == CHOOSE it0 : Sums(it0, f)
<1>1. Sums(a, f)
  BY SumsExist
<1> HIDE DEF a
<1>2. a[Isolate] \in Nat /\ it[Isolate] \in Nat
      /\ a[Isolate] + (IF NoOne \in Isolate THEN 0 ELSE 0)
           = it[Isolate] + (IF NoOne \in Isolate THEN 0 ELSE 0)
  BY <1>1, SumsDiffer, NoOneAssumption
<1>3. a[Isolate] = it[Isolate]
  BY <1>2
<1> QED BY <1>2, <1>3 DEF Total, a

LEMMA TotalMoves ==
  ASSUME NEW f \in [Isolate -> Nat], NEW g \in [Isolate -> Nat], NEW i \in Isolate,
         \A j \in Isolate : j # i => f[j] = g[j]
  PROVE  /\ Total(f) \in Nat /\ Total(g) \in Nat
         /\ Total(f) + g[i] = Total(g) + f[i]
<1>1. PICK a : Sums(a, f)
  BY SumsExist
<1>2. PICK b : Sums(b, g)
  BY SumsExist
<1>3. a[Isolate] + g[i] = b[Isolate] + f[i]
  <2>1. f[i] \in Nat /\ g[i] \in Nat
    OBVIOUS
  <2>2. a[Isolate] + (IF i \in Isolate THEN g[i] ELSE 0)
          = b[Isolate] + (IF i \in Isolate THEN f[i] ELSE 0)
    BY <1>1, <1>2, <2>1, SumsDiffer
  <2> QED BY <2>2
<1> QED BY <1>1, <1>2, <1>3, TotalIs

LEMMA TotalOfNothing ==
  ASSUME NEW f \in [Isolate -> Nat], \A j \in Isolate : f[j] = 0
  PROVE  Total(f) = 0
<1>1. PICK a : Sums(a, f)
  BY SumsExist
<1>2. a[Isolate] = 0
  BY <1>1, SumsOfNothing
<1> QED BY <1>1, <1>2, TotalIs

\* What the isolates have on its way to the ledger is such a sum.
LEMMA OnItsWayIs ==
  (\A i \in Isolate : Unreported(i) \in Nat) =>
    OnItsWay = Total([i \in Isolate |-> Unreported(i)])
<1>1. SUFFICES ASSUME \A i \in Isolate : Unreported(i) \in Nat
               PROVE  OnItsWay = Total([i \in Isolate |-> Unreported(i)])
  OBVIOUS
<1> DEFINE f == [i \in Isolate |-> Unreported(i)]
           Fold(iter) == iter = [s \in SUBSET Isolate |->
                           IF s = {} THEN 0
                           ELSE Unreported(CHOOSE x \in s : TRUE)
                                  + iter[s \ {CHOOSE x \in s : TRUE}]]
           it == CHOOSE iter : Fold(iter)
<1>2. OnItsWay = it[Isolate]
  BY DEF OnItsWay, MapThenSumSet, MapThenFoldSet
<1>3. ASSUME NEW iter PROVE Fold(iter) <=> Sums(iter, f)
  <2>1. ASSUME NEW s \in SUBSET Isolate, s # {}
        PROVE  Unreported(CHOOSE x \in s : TRUE) = f[CHOOSE x \in s : TRUE]
    <3>1. (CHOOSE x \in s : TRUE) \in Isolate
      BY <2>1
    <3> QED BY <3>1
  <2>2. [s \in SUBSET Isolate |-> IF s = {} THEN 0
           ELSE Unreported(CHOOSE x \in s : TRUE) + iter[s \ {CHOOSE x \in s : TRUE}]]
        = [s \in SUBSET Isolate |-> IF s = {} THEN 0
           ELSE f[CHOOSE x \in s : TRUE] + iter[s \ {CHOOSE x \in s : TRUE}]]
    <3> HIDE DEF f
    <3> QED BY <2>1
  <2> QED BY <2>2 DEF Sums
<1>4. Sums(it, f)
  <2>1. \E iter : Fold(iter)
    <3>1. PICK iter : Sums(iter, f)
      BY SumsExist
    <3> HIDE DEF Fold, f
    <3> QED BY <1>3, <3>1
  <2>2. Fold(it)
    <3> HIDE DEF Fold
    <3> QED BY <2>1
  <2> HIDE DEF Fold, it, f
  <2> QED BY <1>3, <2>2
<1>5. f \in [Isolate -> Nat]
  BY <1>1
<1> HIDE DEF it, f
<1>6. it[Isolate] = Total(f)
  BY <1>4, <1>5, TotalIs
<1> QED BY <1>2, <1>6 DEF f

-----------------------------------------------------------------------------
\* A write under way is some isolate's.
Owned == \A p \in Put : put[p].pc # "idle" => put[p].by \in Isolate

BudgetInv == TypeOK /\ Owned

LEMMA LimitsAreNumbers ==
  Limit \in Nat /\ Critical \in Nat /\ Guard \in Nat /\ Safety \in Nat
  BY LimitAssumption

LEMMA accountLocalIsLocal ==
  ASSUME TypeOK, NEW i \in Isolate
  PROVE  /\ accountLocal(i) \in Local /\ accountLocal(i).day = day
         /\ accountLocal(i) = local[i] \/ accountLocal(i) = NoLocal(day)
  BY DEF TypeOK, accountLocal, NoLocal, Local, Day

LEMMA RecordedIsNat ==
  ASSUME TypeOK, NEW d
  PROVE  Recorded(d) \in Nat
  BY DEF TypeOK, Recorded

LEMMA BaseIsNat ==
  ASSUME TypeOK, NEW i \in Isolate, NEW ok \in BOOLEAN
  PROVE  Base(i, ok) \in Nat
<1>1. local[i].seen \in Nat
  BY DEF TypeOK, Local
<1> QED BY <1>1, RecordedIsNat DEF Base

LEMMA RemainingIsNat ==
  ASSUME NEW l \in Local, NEW f \in Flush
  PROVE  Remaining(l, f) \in Nat /\ Remaining(l, f) <= l.pend
  BY DEF Remaining, Local, Flush

LEMMA FaultIsLeft ==
  ASSUME TypeOK, Fault
  PROVE  left' \in [midnights : Nat, faults : Nat]
<1>1. left.faults \in Nat /\ left.faults > 0
  BY DEF TypeOK, Fault
<1>2. left.faults - 1 \in Nat
  BY <1>1
<1> QED BY <1>2 DEF TypeOK, Fault

LEMMA FlushStarts ==
  ASSUME TypeOK, NEW i \in Isolate, NEW l \in Local, StartFlush(i, l)
  PROVE  flush' \in [Isolate -> Flush]
<1>1. [pc |-> "read", rows |-> l.pend, base |-> 0, from |-> l.day, day |-> l.day] \in Flush
  BY DEF Flush, Local
<1> QED BY <1>1 DEF TypeOK, StartFlush

LEMMA BudgetStep ==
  ASSUME BudgetInv, [Next]_vars
  PROVE  BudgetInv'
<1> USE LimitsAreNumbers
<1>0. /\ day \in Nat /\ billed \in 0..Limit /\ refused \in BOOLEAN
      /\ row \in [day : Nat, n : Nat]
      /\ quota \in [Isolate -> Quota] /\ local \in [Isolate -> Local]
      /\ flush \in [Isolate -> Flush] /\ put \in [Put -> Write]
      /\ left \in [midnights : Nat, faults : Nat]
      /\ doubt \in BOOLEAN /\ lost \in BOOLEAN
  BY DEF BudgetInv, TypeOK, Day
<1>t. TypeOK
  BY DEF BudgetInv
<1>o. \A p \in Put : put[p].pc # "idle" => put[p].by \in Isolate
  BY DEF BudgetInv, Owned
<1>n. NoFlush \in Flush /\ NoWrite \in Write /\ NoQuota \in Quota
      /\ \A d \in Nat : NoLocal(d) \in Local
  BY DEF NoFlush, Flush, NoWrite, Write, NoQuota, Quota, NoLocal, Local, Day
<1>u. CASE UNCHANGED vars
  BY <1>u, <1>0, <1>o DEF vars, BudgetInv, TypeOK, Owned, Day
<1>1. ASSUME NEW i \in Isolate, NoteRead(i)  PROVE BudgetInv'
  <2>1. accountLocal(i) \in Local
    BY <1>t, accountLocalIsLocal
  <2>2. flush' \in [Isolate -> Flush]
    BY <1>1, <1>t, <2>1, FlushStarts DEF NoteRead
  <2>3. local' \in [Isolate -> Local]
    BY <1>0, <1>1, <2>1 DEF NoteRead
  <2> QED BY <1>0, <1>o, <1>1, <2>2, <2>3 DEF NoteRead, BudgetInv, TypeOK, Owned, Day
<1>2. ASSUME NEW i \in Isolate, NEW ok \in BOOLEAN, FlushRead(i, ok)  PROVE BudgetInv'
  <2>1. Base(i, ok) \in Nat /\ local[i].day \in Nat
    BY <1>0, <1>t, BaseIsNat DEF Local, Day
  <2>2. flush' \in [Isolate -> Flush]
    <3> DEFINE f == [flush[i] EXCEPT !.pc = "write", !.base = Base(i, ok), !.day = local[i].day]
    <3>1. f \in Flush
      BY <1>0, <2>1 DEF Flush, Day
    <3>2. flush' = [flush EXCEPT ![i] = f]
      BY <1>0, <1>2 DEF FlushRead
    <3> HIDE DEF f
    <3> QED BY <1>0, <3>1, <3>2
  <2>3. local' \in [Isolate -> Local]
    BY <1>0, <1>2, <2>1 DEF FlushRead, Local
  <2>4. left' \in [midnights : Nat, faults : Nat]
    BY <1>0, <1>2, <1>t, FaultIsLeft DEF FlushRead
  <2> QED BY <1>0, <1>o, <1>2, <2>2, <2>3, <2>4 DEF FlushRead, BudgetInv, TypeOK, Owned, Day
<1>3. ASSUME NEW i \in Isolate, FlushWrite(i)  PROVE BudgetInv'
  <2>1. /\ flush[i].base + flush[i].rows \in Nat /\ flush[i].day \in Nat
    BY <1>0 DEF Flush, Day
  <2>2. row' \in [day : Nat, n : Nat]
    BY <1>3, <2>1 DEF FlushWrite
  <2>3. flush' \in [Isolate -> Flush]
    BY <1>0, <1>3 DEF FlushWrite, Flush
  <2>4. doubt' \in BOOLEAN /\ lost' \in BOOLEAN
    BY <1>0, <1>3 DEF FlushWrite
  <2> QED BY <1>0, <1>o, <1>3, <2>2, <2>3, <2>4 DEF FlushWrite, BudgetInv, TypeOK, Owned, Day
<1>4. ASSUME NEW i \in Isolate, FlushRefused(i)  PROVE BudgetInv'
  <2>3. flush' \in [Isolate -> Flush]
    BY <1>0, <1>4, <1>n DEF FlushRefused
  <2> QED BY <1>0, <1>o, <1>4, <2>3 DEF FlushRefused, BudgetInv, TypeOK, Owned, Day
<1>5. ASSUME NEW i \in Isolate, FlushReply(i)  PROVE BudgetInv'
  <2>1. Remaining(local[i], flush[i]) \in Nat /\ flush[i].base + flush[i].rows \in Nat
    <3>1. local[i] \in Local /\ flush[i] \in Flush
      BY <1>0
    <3> QED BY <3>1, RemainingIsNat DEF Flush
  <2>2. local' \in [Isolate -> Local]
    BY <1>0, <1>5, <2>1 DEF FlushReply, Local
  <2>3. flush' \in [Isolate -> Flush]
    BY <1>0, <1>5, <1>n DEF FlushReply
  <2>4. doubt' \in BOOLEAN /\ lost' \in BOOLEAN
    BY <1>0, <1>5 DEF FlushReply
  <2> QED BY <1>0, <1>o, <1>5, <2>2, <2>3, <2>4 DEF FlushReply, BudgetInv, TypeOK, Owned, Day
<1>6. ASSUME NEW i \in Isolate, FlushReplyLost(i)  PROVE BudgetInv'
  <2>1. flush' \in [Isolate -> Flush]
    BY <1>0, <1>6, <1>n DEF FlushReplyLost
  <2>2. left' \in [midnights : Nat, faults : Nat]
    BY <1>t, <1>6, FaultIsLeft DEF FlushReplyLost
  <2> QED BY <1>0, <1>o, <1>6, <2>1, <2>2 DEF FlushReplyLost, BudgetInv, TypeOK, Owned, Day
<1>7. ASSUME NEW i \in Isolate, Evict(i)  PROVE BudgetInv'
  <2>1. left' \in [midnights : Nat, faults : Nat]
    BY <1>t, <1>7, FaultIsLeft DEF Evict
  <2>2. quota' \in [Isolate -> Quota] /\ local' \in [Isolate -> Local]
        /\ flush' \in [Isolate -> Flush]
    BY <1>0, <1>7, <1>n DEF Evict
  <2>3. put' \in [Put -> Write] /\ \A p \in Put : put'[p].pc # "idle" => put'[p].by \in Isolate
    BY <1>0, <1>o, <1>7, <1>n DEF Evict, NoWrite
  <2>4. lost' \in BOOLEAN
    BY <1>0, <1>7 DEF Evict
  <2> QED BY <1>0, <1>7, <2>1, <2>2, <2>3, <2>4 DEF Evict, BudgetInv, TypeOK, Owned, Day
<1>8. ASSUME NEW p \in Put, NEW i \in Isolate, NEW critical \in BOOLEAN, NEW estimate \in {1, 2},
             Reserve(p, i, critical, estimate)
      PROVE  BudgetInv'
  <2>1. Asking(i, critical) \in Write /\ Asking(i, critical).by \in Isolate
    BY DEF Asking, NoWrite, Write, Day
  <2>2. put' \in [Put -> Write] /\ \A q \in Put : put'[q].pc # "idle" => put'[q].by \in Isolate
    BY <1>0, <1>o, <1>8, <2>1 DEF Reserve
  <2>3. local' \in [Isolate -> Local]
    BY <1>0, <1>t, <1>8, accountLocalIsLocal DEF Reserve
  <2> QED BY <1>0, <1>8, <2>2, <2>3 DEF Reserve, BudgetInv, TypeOK, Owned, Day
<1>9. ASSUME NEW i \in Isolate  PROVE Sent(i) \in Write /\ Sent(i).by \in Isolate
  BY DEF Sent, NoWrite, Write, Day
<1>10. ASSUME NEW p \in Put, Decide(p)  PROVE BudgetInv'
  <2>1. put[p].by \in Isolate
    BY <1>o, <1>10 DEF Decide
  <2>2. PICK seen \in {Recorded(local[put[p].by].day), local[put[p].by].seen} :
          /\ local' = [local EXCEPT ![put[p].by].seen = seen]
          /\ put' = [put EXCEPT ![p] =
               IF optionalWriteAllowed(local'[put[p].by], put[p].critical)
               THEN Sent(put[p].by) ELSE NoWrite]
    BY <1>10 DEF Decide
  <2>3. seen \in Nat
    <3>1. local[put[p].by].seen \in Nat
      BY <1>0, <2>1 DEF Local
    <3> QED BY <1>t, <3>1, RecordedIsNat
  <2>4. local' \in [Isolate -> Local]
    BY <1>0, <2>2, <2>3 DEF Local
  <2>5. put' \in [Put -> Write] /\ \A q \in Put : put'[q].pc # "idle" => put'[q].by \in Isolate
    <3>1. CASE put' = [put EXCEPT ![p] = Sent(put[p].by)]
      BY <1>0, <1>o, <1>9, <2>1, <3>1
    <3>2. CASE put' = [put EXCEPT ![p] = NoWrite]
      BY <1>0, <1>o, <1>n, <3>2 DEF NoWrite
    <3> QED BY <2>2, <3>1, <3>2
  <2> QED BY <1>0, <1>10, <2>4, <2>5 DEF Decide, BudgetInv, TypeOK, Owned, Day
<1>11. ASSUME NEW p \in Put, NEW i \in Isolate, Prune(p, i)  PROVE BudgetInv'
  <2>1. put' \in [Put -> Write] /\ \A q \in Put : put'[q].pc # "idle" => put'[q].by \in Isolate
    BY <1>0, <1>o, <1>9, <1>11 DEF Prune
  <2> QED BY <1>0, <1>11, <2>1 DEF Prune, BudgetInv, TypeOK, Owned, Day
<1>12. ASSUME NEW p \in Put, Land(p)  PROVE BudgetInv'
  <2>1. put' \in [Put -> Write] /\ \A q \in Put : put'[q].pc # "idle" => put'[q].by \in Isolate
    BY <1>0, <1>o, <1>12 DEF Land, Write, Day
  <2>2. billed' \in 0..Limit /\ refused' \in BOOLEAN
    <3>1. CASE Spent
      BY <1>0, <1>12, <3>1 DEF Land
    <3>2. CASE ~Spent
      <4>1. billed' = billed + 1 /\ refused' = refused
        BY <1>12, <3>2 DEF Land
      <4>2. billed + 1 \in 0..Limit
        BY <1>0, <3>2 DEF Spent
      <4> QED BY <1>0, <4>1, <4>2
    <3> QED BY <3>1, <3>2
  <2> QED BY <1>0, <1>12, <2>1, <2>2 DEF Land, BudgetInv, TypeOK, Owned, Day
<1>13. ASSUME NEW p \in Put, LandStale(p)  PROVE BudgetInv'
  <2>1. put' \in [Put -> Write] /\ \A q \in Put : put'[q].pc # "idle" => put'[q].by \in Isolate
    BY <1>0, <1>o, <1>13 DEF LandStale, Write, Day
  <2>2. left' \in [midnights : Nat, faults : Nat]
    BY <1>t, <1>13, FaultIsLeft DEF LandStale
  <2> QED BY <1>0, <1>13, <2>1, <2>2 DEF LandStale, BudgetInv, TypeOK, Owned, Day
<1>14. ASSUME NEW p \in Put, Record(p)  PROVE BudgetInv'
  <2> DEFINE i == put[p].by
             l == [accountLocal(i) EXCEPT !.pend = @ + 1]
  <2>1. i \in Isolate
    BY <1>o, <1>14 DEF Record
  <2>2. l \in Local
    <3>1. accountLocal(i) \in Local
      BY <1>t, <2>1, accountLocalIsLocal
    <3> HIDE DEF i
    <3> QED BY <3>1 DEF Local
  <2>3. /\ quota' = [quota EXCEPT ![i].used = Count(@)] /\ local' = [local EXCEPT ![i] = l]
        /\ UNCHANGED flush \/ StartFlush(i, l)
        /\ put' = [put EXCEPT ![p] = NoWrite]
        /\ doubt' = (doubt \/ put[p].pc = "stale" \/ put[p].on # day)
        /\ UNCHANGED <<day, billed, refused, row, left, lost>>
    BY <1>14 DEF Record
  <2> HIDE DEF i, l
  <2>4. quota' \in [Isolate -> Quota]
    <3>1. Count(quota[i].used) \in 0..Limit
      BY <1>0, <2>1 DEF Count, Quota
    <3> QED BY <1>0, <2>1, <2>3, <3>1 DEF Quota
  <2>5. local' \in [Isolate -> Local] /\ flush' \in [Isolate -> Flush]
    BY <1>0, <1>t, <2>1, <2>2, <2>3, FlushStarts
  <2>6. put' \in [Put -> Write] /\ \A q \in Put : put'[q].pc # "idle" => put'[q].by \in Isolate
    BY <1>0, <1>o, <1>n, <2>3 DEF NoWrite
  <2> QED BY <1>0, <2>3, <2>4, <2>5, <2>6 DEF BudgetInv, TypeOK, Owned, Day
<1>15. ASSUME NEW p \in Put, noteD1WriteBlocked(p)  PROVE BudgetInv'
  <2>1. quota' \in [Isolate -> Quota]
    BY <1>0, <1>15 DEF noteD1WriteBlocked, Quota
  <2>2. put' \in [Put -> Write] /\ \A q \in Put : put'[q].pc # "idle" => put'[q].by \in Isolate
    BY <1>0, <1>o, <1>n, <1>15 DEF noteD1WriteBlocked, NoWrite
  <2> QED BY <1>0, <1>15, <2>1, <2>2 DEF noteD1WriteBlocked, BudgetInv, TypeOK, Owned, Day
<1>16. ASSUME NEW p \in Put, Unanswered(p)  PROVE BudgetInv'
  <2>1. left' \in [midnights : Nat, faults : Nat]
    BY <1>t, <1>16, FaultIsLeft DEF Unanswered
  <2>2. put' \in [Put -> Write] /\ \A q \in Put : put'[q].pc # "idle" => put'[q].by \in Isolate
    BY <1>0, <1>o, <1>n, <1>16 DEF Unanswered, NoWrite
  <2>3. lost' \in BOOLEAN
    BY <1>0, <1>16 DEF Unanswered
  <2> QED BY <1>0, <1>16, <2>1, <2>2, <2>3 DEF Unanswered, BudgetInv, TypeOK, Owned, Day
<1>17. ASSUME Midnight  PROVE BudgetInv'
  <2>1. day + 1 \in Nat /\ 0 \in 0..Limit /\ left.midnights - 1 \in Nat
    BY <1>0, <1>17 DEF Midnight
  <2>2. quota' \in [Isolate -> Quota]
    BY <1>17, <1>n DEF Midnight
  <2>3. local' \in [Isolate -> Local]
    BY <1>0, <1>17, <1>n, <2>1 DEF Midnight
  <2>4. left' \in [midnights : Nat, faults : Nat]
    BY <1>0, <1>17, <2>1 DEF Midnight
  <2> QED BY <1>0, <1>o, <1>17, <2>1, <2>2, <2>3, <2>4
         DEF Midnight, BudgetInv, TypeOK, Owned, Day
<1> QED
  BY <1>u, <1>1, <1>2, <1>3, <1>4, <1>5, <1>6, <1>7, <1>8, <1>10, <1>11, <1>12, <1>13,
     <1>14, <1>15, <1>16, <1>17 DEF Next

LEMMA BudgetAtFirst == Init => BudgetInv
<1>1. SUFFICES ASSUME Init PROVE BudgetInv
  OBVIOUS
<1>2. 0 \in 0..Limit /\ left \in [midnights : Nat, faults : Nat]
  BY <1>1, LimitsAreNumbers, BoundAssumption DEF Init
<1>3. quota \in [Isolate -> Quota] /\ local \in [Isolate -> Local] /\ flush \in [Isolate -> Flush]
  BY <1>1, <1>2 DEF Init, NoQuota, Quota, NoLocal, Local, NoFlush, Flush, Day
<1>4. put \in [Put -> Write] /\ Owned
  BY <1>1 DEF Init, NoWrite, Write, Day, Owned
<1>5. row \in [day : Day, n : Nat]
  BY <1>1 DEF Init, Day
<1> QED BY <1>1, <1>2, <1>3, <1>4, <1>5 DEF Init, BudgetInv, TypeOK, Day

-----------------------------------------------------------------------------
\* Nothing is of a day to come; a flush writes for a day between that of its rows and its
\* isolate's, and on the day of its rows they are still pending; one that has written the
\* rows of another day into today's ledger is in doubt.
FlushTimes(l, f) ==
  f.pc # "none" =>
    f.from <= f.day /\ f.day <= l.day /\ (f.from = l.day => f.rows <= l.pend)
FlushDoubt(f, d, doubtful) == f.pc = "reply" /\ f.day = d /\ f.from # d => doubtful

TimesInv ==
  /\ row.day <= day
  /\ \A i \in Isolate : /\ local[i].day <= day
                        /\ FlushTimes(local[i], flush[i])
                        /\ FlushDoubt(flush[i], day, doubt)
  /\ \A p \in Put : put[p].on <= day

\* The types of BudgetInv, spelled out.
LEMMA BudgetTypes ==
  ASSUME BudgetInv
  PROVE  /\ day \in Nat /\ billed \in Nat /\ row.day \in Nat /\ row.n \in Nat
         /\ row = [day |-> row.day, n |-> row.n]
         /\ local \in [Isolate -> Local] /\ flush \in [Isolate -> Flush] /\ put \in [Put -> Write]
         /\ doubt \in BOOLEAN /\ lost \in BOOLEAN
         /\ \A i \in Isolate : /\ local[i].day \in Nat /\ local[i].pend \in Nat
                               /\ local[i].seen \in Nat
                               /\ flush[i].rows \in Nat /\ flush[i].base \in Nat
                               /\ flush[i].from \in Nat /\ flush[i].day \in Nat
         /\ \A p \in Put : put[p].on \in Nat /\ (put[p].pc # "idle" => put[p].by \in Isolate)
<1>1. \A i \in Isolate : local[i] \in Local /\ flush[i] \in Flush
  BY DEF BudgetInv, TypeOK
<1>2. \A p \in Put : put[p] \in Write
  BY DEF BudgetInv, TypeOK
<1>3. \A i \in Isolate : /\ local[i].day \in Nat /\ local[i].pend \in Nat
                         /\ local[i].seen \in Nat
                         /\ flush[i].rows \in Nat /\ flush[i].base \in Nat
                         /\ flush[i].from \in Nat /\ flush[i].day \in Nat
  BY <1>1 DEF Local, Flush, Day
<1>4. \A p \in Put : put[p].on \in Nat
  BY <1>2 DEF Write, Day
<1>5. billed \in Nat
  BY LimitsAreNumbers DEF BudgetInv, TypeOK
<1>6. row.day \in Nat /\ row.n \in Nat /\ row = [day |-> row.day, n |-> row.n]
  BY DEF BudgetInv, TypeOK, Day
<1> QED BY <1>3, <1>4, <1>5, <1>6 DEF BudgetInv, TypeOK, Day, Owned

\* One isolate's counters move, within the day.
LEMMA TimesMove ==
  ASSUME BudgetInv, TimesInv, day' = day, doubt => doubt',
         NEW i \in Isolate, NEW l, NEW f,
         local'[i] = l, flush'[i] = f, l.day <= day, FlushTimes(l, f),
         FlushDoubt(f, day, doubt'),
         \A j \in Isolate : j # i => local'[j] = local[j] /\ flush'[j] = flush[j],
         row' = row \/ \E d \in Nat : d <= day /\ row'.day = d,
         \A p \in Put : put'[p].on \in {put[p].on, day, 0}
  PROVE  TimesInv'
<1>1. row'.day <= day'
  BY DEF TimesInv
<1>2. \A p \in Put : put'[p].on <= day'
  <2>1. TAKE p \in Put
  <2>2. put[p].on <= day /\ 0 <= day /\ day <= day
    BY BudgetTypes DEF TimesInv
  <2> QED BY <2>2
<1>3. ASSUME NEW j \in Isolate
      PROVE  local'[j].day <= day' /\ FlushTimes(local'[j], flush'[j])
             /\ FlushDoubt(flush'[j], day', doubt')
  <2>1. CASE j = i
    BY <2>1
  <2>2. CASE j # i
    <3>1. local[j].day <= day /\ FlushTimes(local[j], flush[j]) /\ FlushDoubt(flush[j], day, doubt)
      BY DEF TimesInv
    <3>2. local'[j] = local[j] /\ flush'[j] = flush[j] /\ day' = day
      BY <2>2
    <3>3. FlushDoubt(flush[j], day, doubt')
      BY <3>1 DEF FlushDoubt
    <3> QED BY <3>1, <3>2, <3>3
  <2> QED BY <2>1, <2>2
<1> QED BY <1>1, <1>2, <1>3 DEF TimesInv

LEMMA TimesQuiet ==
  ASSUME BudgetInv, TimesInv, day' = day, doubt => doubt',
         local' = local, flush' = flush, row' = row,
         \A p \in Put : put'[p].on \in {put[p].on, day, 0}
  PROVE  TimesInv'
<1>2. \A p \in Put : put'[p].on <= day'
  <2>1. TAKE p \in Put
  <2>2. put[p].on <= day /\ 0 <= day /\ day <= day
    BY BudgetTypes DEF TimesInv
  <2> QED BY <2>2
<1>3. \A j \in Isolate : FlushDoubt(flush[j], day, doubt')
  BY DEF TimesInv, FlushDoubt
<1>4. row'.day <= day' /\ \A j \in Isolate : local'[j].day <= day' /\ FlushTimes(local'[j], flush'[j])
  BY DEF TimesInv
<1> QED BY <1>2, <1>3, <1>4 DEF TimesInv

LEMMA accountLocalTimes ==
  ASSUME BudgetInv, TimesInv, NEW i \in Isolate
  PROVE  /\ accountLocal(i) \in Local /\ accountLocal(i).day = day
         /\ FlushTimes(accountLocal(i), flush[i])
         /\ local[i].day # day => accountLocal(i) = NoLocal(day)
         /\ local[i].day = day => accountLocal(i) = local[i]
<1>1. accountLocal(i) \in Local /\ accountLocal(i).day = day
  BY accountLocalIsLocal DEF BudgetInv
<1>2. CASE local[i].day = day
  BY <1>1, <1>2 DEF accountLocal, TimesInv
<1>3. CASE local[i].day # day
  <2>1. accountLocal(i) = NoLocal(day)
    BY <1>3 DEF accountLocal
  <2>2. FlushTimes(local[i], flush[i]) /\ local[i].day < day
    <3>1. FlushTimes(local[i], flush[i]) /\ local[i].day <= day
      BY DEF TimesInv
    <3>2. local[i].day \in Nat /\ day \in Nat
      BY BudgetTypes
    <3> QED BY <1>3, <3>1, <3>2
  <2>3. flush[i].pc # "none" =>
          flush[i].from <= flush[i].day /\ flush[i].day <= day /\ flush[i].from # day
    BY <2>2, BudgetTypes DEF FlushTimes
  <2> QED BY <1>1, <1>3, <2>1, <2>3 DEF FlushTimes
<1> QED BY <1>2, <1>3

LEMMA TimesStep ==
  ASSUME BudgetInv, TimesInv, [Next]_vars
  PROVE  TimesInv'
<1>0. /\ day \in Nat /\ row.day \in Nat
      /\ local \in [Isolate -> Local] /\ flush \in [Isolate -> Flush] /\ put \in [Put -> Write]
      /\ \A i \in Isolate : /\ local[i].day \in Nat /\ local[i].pend \in Nat
                            /\ local[i].seen \in Nat
                            /\ flush[i].rows \in Nat /\ flush[i].base \in Nat
                            /\ flush[i].from \in Nat /\ flush[i].day \in Nat
      /\ \A p \in Put : put[p].on \in Nat /\ (put[p].pc # "idle" => put[p].by \in Isolate)
  BY BudgetTypes
<1>i. ASSUME NEW i \in Isolate
      PROVE  local[i].day <= day /\ FlushTimes(local[i], flush[i])
             /\ FlushDoubt(flush[i], day, doubt)
  BY DEF TimesInv
<1>n. \A l : FlushTimes(l, NoFlush) /\ \A d, b : FlushDoubt(NoFlush, d, b)
  BY DEF FlushTimes, FlushDoubt, NoFlush
<1>u. CASE UNCHANGED vars
  BY <1>u, TimesQuiet DEF vars
<1>1. ASSUME NEW i \in Isolate, NoteRead(i)  PROVE TimesInv'
  <2> DEFINE l == accountLocal(i)
             f == [pc |-> "read", rows |-> l.pend, base |-> 0, from |-> l.day, day |-> l.day]
  <2>1. l \in Local /\ l.day = day
    BY accountLocalTimes
  <2>2. local' = [local EXCEPT ![i] = l] /\ flush' = [flush EXCEPT ![i] = f]
    BY <1>1 DEF NoteRead, StartFlush
  <2>3. FlushTimes(l, f) /\ FlushDoubt(f, day, doubt')
    <3>1. l.pend \in Nat
      BY <2>1 DEF Local
    <3> QED BY <1>0, <2>1, <3>1 DEF FlushTimes, FlushDoubt
  <2>4. l.day <= day
    BY <1>0, <2>1
  <2> HIDE DEF l, f
  <2>5. UNCHANGED <<day, row, put, doubt>>
    BY <1>1 DEF NoteRead
  <2>6. local'[i] = l /\ flush'[i] = f
        /\ \A j \in Isolate : j # i => local'[j] = local[j] /\ flush'[j] = flush[j]
    BY <1>0, <2>2
  <2> QED BY <2>3, <2>4, <2>5, <2>6, TimesMove
<1>2. ASSUME NEW i \in Isolate, NEW ok \in BOOLEAN, FlushRead(i, ok)  PROVE TimesInv'
  <2> DEFINE l == [local[i] EXCEPT !.seen = Base(i, ok)]
             f == [flush[i] EXCEPT !.pc = "write", !.base = Base(i, ok), !.day = local[i].day]
  <2>1. local'[i] = l /\ flush'[i] = f
        /\ \A j \in Isolate : j # i => local'[j] = local[j] /\ flush'[j] = flush[j]
    BY <1>0, <1>2 DEF FlushRead
  <2>2. /\ l.day = local[i].day /\ l.pend = local[i].pend
        /\ f.pc = "write" /\ f.from = flush[i].from /\ f.rows = flush[i].rows
        /\ f.day = local[i].day
    <3>1. local[i] \in Local /\ flush[i] \in Flush
      BY <1>0
    <3> QED BY <3>1 DEF Local, Flush
  <2> HIDE DEF l, f
  <2>3. FlushTimes(l, f) /\ FlushDoubt(f, day, doubt') /\ l.day <= day
    <3>1. FlushTimes(local[i], flush[i]) /\ flush[i].pc = "read" /\ local[i].day <= day
      BY <1>2, <1>i DEF FlushRead
    <3> QED BY <1>0, <2>2, <3>1 DEF FlushTimes, FlushDoubt
  <2>5. UNCHANGED <<day, row, put, doubt>>
    BY <1>2 DEF FlushRead
  <2> QED BY <2>1, <2>3, <2>5, TimesMove
<1>3. ASSUME NEW i \in Isolate, FlushWrite(i)  PROVE TimesInv'
  <2> DEFINE f == [flush[i] EXCEPT !.pc = "reply"]
  <2>1. local'[i] = local[i] /\ flush'[i] = f
        /\ \A j \in Isolate : j # i => local'[j] = local[j] /\ flush'[j] = flush[j]
    BY <1>0, <1>3 DEF FlushWrite
  <2>2. /\ f.pc = "reply" /\ f.from = flush[i].from /\ f.rows = flush[i].rows
        /\ f.day = flush[i].day
    <3>1. flush[i] \in Flush
      BY <1>0
    <3> QED BY <3>1 DEF Flush
  <2> HIDE DEF f
  <2>3. FlushTimes(local[i], f) /\ local[i].day <= day /\ flush[i].day <= day
    <3>1. FlushTimes(local[i], flush[i]) /\ flush[i].pc = "write" /\ local[i].day <= day
      BY <1>3, <1>i DEF FlushWrite
    <3> QED BY <1>0, <2>2, <3>1 DEF FlushTimes
  <2>4. row'.day = flush[i].day /\ (doubt => doubt') /\ (flush[i].day # flush[i].from => doubt')
        /\ day' = day /\ put' = put
    BY <1>3 DEF FlushWrite
  <2>5. FlushDoubt(f, day, doubt')
    BY <2>2, <2>4 DEF FlushDoubt
  <2> QED BY <1>0, <2>1, <2>3, <2>4, <2>5, TimesMove
<1>4. ASSUME NEW i \in Isolate, flush' = [flush EXCEPT ![i] = NoFlush], NEW l, l.day <= day,
             local'[i] = l, \A j \in Isolate : j # i => local'[j] = local[j],
             UNCHANGED <<day, row>>, doubt => doubt',
             \A p \in Put : put'[p].on \in {put[p].on, day, 0}
      PROVE  TimesInv'
  <2>1. flush'[i] = NoFlush /\ \A j \in Isolate : j # i => flush'[j] = flush[j]
    BY <1>0, <1>4
  <2> QED BY <1>4, <1>n, <2>1, TimesMove
<1>5. ASSUME NEW i \in Isolate, FlushRefused(i)  PROVE TimesInv'
  BY <1>4, <1>5, <1>i DEF FlushRefused
<1>6. ASSUME NEW i \in Isolate, FlushReply(i)  PROVE TimesInv'
  <2> DEFINE l == local'[i]
  <2>1. l.day = local[i].day /\ \A j \in Isolate : j # i => local'[j] = local[j]
    <3>1. local[i] \in Local
      BY <1>0
    <3> QED BY <1>0, <1>6, <3>1 DEF FlushReply, Local
  <2>2. l.day <= day
    BY <1>i, <2>1
  <2>3. /\ flush' = [flush EXCEPT ![i] = NoFlush] /\ UNCHANGED <<day, row, put>>
        /\ doubt => doubt'
    BY <1>6 DEF FlushReply
  <2> QED BY <1>4, <2>1, <2>2, <2>3
<1>7. ASSUME NEW i \in Isolate, FlushReplyLost(i)  PROVE TimesInv'
  BY <1>4, <1>7, <1>i DEF FlushReplyLost
<1>8. ASSUME NEW i \in Isolate, Evict(i)  PROVE TimesInv'
  <2>1. local'[i] = NoLocal(day) /\ \A j \in Isolate : j # i => local'[j] = local[j]
    BY <1>0, <1>8 DEF Evict
  <2>2. NoLocal(day).day <= day
    BY <1>0 DEF NoLocal
  <2>3. \A p \in Put : put'[p].on \in {put[p].on, day, 0}
    BY <1>8 DEF Evict, NoWrite
  <2> QED BY <1>4, <1>8, <2>1, <2>2, <2>3 DEF Evict
<1>9. ASSUME NEW i \in Isolate, local' = [local EXCEPT ![i] = accountLocal(i)],
             UNCHANGED <<day, row, flush, doubt>>,
             \A p \in Put : put'[p].on \in {put[p].on, day, 0}
      PROVE  TimesInv'
  <2>1. local'[i] = accountLocal(i) /\ \A j \in Isolate : j # i => local'[j] = local[j]
    BY <1>0, <1>9
  <2>2. accountLocal(i).day <= day /\ FlushTimes(accountLocal(i), flush[i])
    BY <1>0, accountLocalTimes
  <2> QED BY <1>9, <1>i, <2>1, <2>2, TimesMove
<1>10. ASSUME NEW p \in Put, NEW i \in Isolate, NEW critical \in BOOLEAN, NEW estimate \in {1, 2},
             Reserve(p, i, critical, estimate)
       PROVE  TimesInv'
  <2>1. \A q \in Put : put'[q].on \in {put[q].on, day, 0}
    BY <1>0, <1>10 DEF Reserve, Asking, NoWrite
  <2> QED BY <1>9, <1>10, <2>1 DEF Reserve
<1>11. ASSUME NEW p \in Put, Decide(p)  PROVE TimesInv'
  <2> DEFINE i == put[p].by
  <2>1. i \in Isolate
    BY <1>0, <1>11 DEF Decide
  <2>2. /\ local'[i].day = local[i].day /\ local'[i].pend = local[i].pend
        /\ \A j \in Isolate : j # i => local'[j] = local[j]
        /\ \A q \in Put : put'[q].on \in {put[q].on, day, 0}
        /\ UNCHANGED <<day, row, flush, doubt>>
    <3>0. PICK seen \in {Recorded(local[put[p].by].day), local[put[p].by].seen} :
            /\ local' = [local EXCEPT ![put[p].by].seen = seen]
            /\ put' = [put EXCEPT ![p] =
                 IF optionalWriteAllowed(local'[put[p].by], put[p].critical)
                 THEN Sent(put[p].by) ELSE NoWrite]
      BY <1>11 DEF Decide
    <3>1. local' = [local EXCEPT ![put[p].by].seen = seen]
          /\ put'[p].on = 0 /\ \A q \in Put : q # p => put'[q] = put[q]
      <4>1. put' = [put EXCEPT ![p] = Sent(put[p].by)] \/ put' = [put EXCEPT ![p] = NoWrite]
        BY <3>0
      <4>2. Sent(put[p].by).on = 0 /\ NoWrite.on = 0
        BY DEF Sent, NoWrite
      <4> QED BY <1>0, <3>0, <4>1, <4>2
    <3>2. local[i] \in Local
      BY <1>0, <2>1
    <3> QED BY <1>0, <1>11, <2>1, <3>1, <3>2 DEF Decide, Local
  <2> HIDE DEF i
  <2>3. FlushTimes(local'[i], flush[i])
    BY <1>i, <2>1, <2>2 DEF FlushTimes
  <2>4. local'[i].day <= day
    BY <1>i, <2>1, <2>2
  <2> QED BY <1>i, <2>1, <2>2, <2>3, <2>4, TimesMove
<1>12. ASSUME NEW p \in Put, NEW i \in Isolate, Prune(p, i)  PROVE TimesInv'
  <2>1. \A q \in Put : put'[q].on \in {put[q].on, day, 0}
    BY <1>0, <1>12 DEF Prune, Sent, NoWrite
  <2> QED BY <1>12, <2>1, TimesQuiet DEF Prune
<1>13. ASSUME NEW p \in Put, Land(p)  PROVE TimesInv'
  <2>1. \A q \in Put : put'[q].on \in {put[q].on, day, 0}
    BY <1>0, <1>13 DEF Land, Write
  <2> QED BY <1>13, <2>1, TimesQuiet DEF Land
<1>14. ASSUME NEW p \in Put, LandStale(p)  PROVE TimesInv'
  <2>1. \A q \in Put : put'[q].on \in {put[q].on, day, 0}
    BY <1>0, <1>14 DEF LandStale, Write
  <2> QED BY <1>14, <2>1, TimesQuiet DEF LandStale
<1>15. ASSUME NEW p \in Put, Record(p)  PROVE TimesInv'
  <2> DEFINE i == put[p].by
             l == [accountLocal(i) EXCEPT !.pend = @ + 1]
             f == [pc |-> "read", rows |-> l.pend, base |-> 0, from |-> l.day, day |-> l.day]
  <2>1. i \in Isolate
    BY <1>0, <1>15 DEF Record
  <2>2. /\ local' = [local EXCEPT ![i] = l]
        /\ UNCHANGED flush \/ (FlushDue(i, l) /\ flush' = [flush EXCEPT ![i] = f])
        /\ UNCHANGED <<day, row>> /\ (doubt => doubt') /\ put' = [put EXCEPT ![p] = NoWrite]
    BY <1>15 DEF Record, StartFlush
  <2>3. l.day = day /\ l.pend = accountLocal(i).pend + 1 /\ accountLocal(i).pend \in Nat
        /\ FlushTimes(accountLocal(i), flush[i]) /\ accountLocal(i).day = day
    <3>1. accountLocal(i) \in Local /\ accountLocal(i).day = day
          /\ FlushTimes(accountLocal(i), flush[i])
      BY <2>1, accountLocalTimes
    <3> HIDE DEF i
    <3> QED BY <3>1 DEF Local
  <2>4. f.pc = "read" /\ f.rows = l.pend /\ f.from = l.day /\ f.day = l.day
    OBVIOUS
  <2>5. \A q \in Put : put'[q].on \in {put[q].on, day, 0}
    BY <1>0, <2>2 DEF NoWrite
  <2> HIDE DEF i, l, f
  <2>6. l.day <= day /\ FlushTimes(l, flush[i]) /\ FlushTimes(l, f) /\ FlushDoubt(f, day, doubt')
    BY <1>0, <2>1, <2>3, <2>4 DEF FlushTimes, FlushDoubt
  <2>7. FlushDoubt(flush[i], day, doubt')
    BY <1>i, <2>1, <2>2 DEF FlushDoubt
  <2>8. local'[i] = l /\ (\A j \in Isolate : j # i => local'[j] = local[j] /\ flush'[j] = flush[j])
        /\ flush'[i] \in {flush[i], f}
    BY <1>0, <2>1, <2>2
  <2>9. FlushTimes(l, flush'[i]) /\ FlushDoubt(flush'[i], day, doubt')
    BY <2>6, <2>7, <2>8
  <2> QED BY <2>1, <2>2, <2>5, <2>6, <2>8, <2>9, TimesMove
<1>16. ASSUME NEW p \in Put, noteD1WriteBlocked(p)  PROVE TimesInv'
  <2>1. \A q \in Put : put'[q].on \in {put[q].on, day, 0}
    BY <1>0, <1>16 DEF noteD1WriteBlocked, NoWrite
  <2> QED BY <1>16, <2>1, TimesQuiet DEF noteD1WriteBlocked
<1>17. ASSUME NEW p \in Put, Unanswered(p)  PROVE TimesInv'
  <2>1. \A q \in Put : put'[q].on \in {put[q].on, day, 0}
    BY <1>0, <1>17 DEF Unanswered, NoWrite
  <2> QED BY <1>17, <2>1, TimesQuiet DEF Unanswered
<1>18. ASSUME Midnight  PROVE TimesInv'
  <2>1. day' = day + 1 /\ row' = row /\ put' = put /\ flush' = flush
        /\ \A i \in Isolate : local'[i] = local[i] \/ (flush[i].pc = "none"
                                                       /\ local'[i] = NoLocal(day + 1))
    BY <1>18 DEF Midnight
  <2>2. row.day <= day + 1
    BY <1>0 DEF TimesInv
  <2>3. \A p \in Put : put[p].on <= day + 1
    <3>1. \A p \in Put : put[p].on <= day
      BY DEF TimesInv
    <3> QED BY <1>0, <3>1
  <2>4. ASSUME NEW i \in Isolate
        PROVE  local'[i].day <= day + 1 /\ FlushTimes(local'[i], flush[i])
               /\ FlushDoubt(flush[i], day + 1, doubt')
    <3>1. local[i].day <= day /\ FlushTimes(local[i], flush[i])
      BY <1>i
    <3>2. FlushDoubt(flush[i], day + 1, doubt')
      BY <1>0, <3>1 DEF FlushTimes, FlushDoubt
    <3>3. CASE local'[i] = local[i]
      <4>1. local[i].day <= day + 1
        BY <1>0, <3>1
      <4> QED BY <3>1, <3>2, <3>3, <4>1
    <3>4. CASE flush[i].pc = "none" /\ local'[i] = NoLocal(day + 1)
      <4>1. NoLocal(day + 1).day <= day + 1
        BY <1>0 DEF NoLocal
      <4> QED BY <3>2, <3>4, <4>1 DEF FlushTimes
    <3> QED BY <2>1, <3>3, <3>4
  <2> QED BY <2>1, <2>2, <2>3, <2>4 DEF TimesInv
<1> QED
  BY <1>u, <1>1, <1>2, <1>3, <1>5, <1>6, <1>7, <1>8, <1>10, <1>11, <1>12, <1>13,
     <1>14, <1>15, <1>16, <1>17, <1>18 DEF Next

LEMMA TimesAtFirst == Init => TimesInv
  BY DEF Init, TimesInv, NoLocal, NoFlush, NoWrite, FlushTimes, FlushDoubt

-----------------------------------------------------------------------------
\* What is on its way from one isolate, and what it may take for the ledger's number of
\* the day d: as it was read, as a flush will write it, as a flush has written it.
Waiting(l, f, d) ==
  IF l.day # d THEN 0
  ELSE IF f.pc = "reply" /\ f.from = d /\ f.day = d THEN Remaining(l, f) ELSE l.pend
ReadingOf(l, f, d, x) ==
  \/ l.day = d /\ x = l.seen
  \/ f.pc = "write" /\ f.day = d /\ x = f.base
  \/ f.pc = "reply" /\ f.day = d /\ x = f.base + f.rows
Reading(x) ==
  x = 0 \/ x = Recorded(day) \/ \E i \in Isolate : ReadingOf(local[i], flush[i], day, x)

\* No number that may be taken for the ledger's exceeds, with what is on its way, what D1
\* has billed; and the ledger's own does not fall short of it.
CountInv ==
  /\ ~doubt => \A x \in Nat : Reading(x) => x + OnItsWay + Cardinality(Landed(Put)) <= billed
  /\ ~lost => Recorded(day) + OnItsWay + Cardinality(Landed(Put)) >= billed

LEMMA UnreportedIs == \A i \in Isolate : Unreported(i) = Waiting(local[i], flush[i], day)
  BY DEF Unreported, Waiting

LEMMA WaitingIsNat ==
  ASSUME NEW l \in Local, NEW f \in Flush, NEW d
  PROVE  Waiting(l, f, d) \in Nat
<1>1. l.pend \in Nat
  BY DEF Local
<1> QED BY <1>1, RemainingIsNat DEF Waiting

AllAreNumbers == \A i \in Isolate : Unreported(i) \in Nat
WayIsTheirSum == OnItsWay = Total([i \in Isolate |-> Unreported(i)])

LEMMA UnreportedIsNat == BudgetInv => AllAreNumbers
<1>1. ASSUME BudgetInv, NEW i \in Isolate  PROVE Unreported(i) \in Nat
  BY <1>1, UnreportedIs, WaitingIsNat DEF BudgetInv, TypeOK
<1> QED BY <1>1 DEF AllAreNumbers

LEMMA WayIsSum == BudgetInv => WayIsTheirSum
  BY UnreportedIsNat, OnItsWayIs DEF AllAreNumbers, WayIsTheirSum

\* The same of the next state.
LEMMA NextWayIsSum ==
  ASSUME BudgetInv'
  PROVE  /\ \A i \in Isolate : Unreported(i)' \in Nat
         /\ OnItsWay' = Total([i \in Isolate |-> Unreported(i)'])
<1>1. BudgetInv' => AllAreNumbers' /\ WayIsTheirSum'
  BY UnreportedIsNat, WayIsSum, PTL
<1>2. AllAreNumbers' => \A i \in Isolate : Unreported(i)' \in Nat
  BY DEF AllAreNumbers
<1>3. WayIsTheirSum' => OnItsWay' = Total([i \in Isolate |-> Unreported(i)'])
  BY DEF WayIsTheirSum
<1> QED BY <1>1, <1>2, <1>3

LEMMA OnItsWayIsNat == BudgetInv => OnItsWay \in Nat
<1>1. SUFFICES ASSUME BudgetInv PROVE OnItsWay \in Nat
  OBVIOUS
<1> DEFINE f == [i \in Isolate |-> Unreported(i)]
<1>2. f \in [Isolate -> Nat] /\ OnItsWay = Total(f)
  BY <1>1, UnreportedIsNat, OnItsWayIs DEF AllAreNumbers
<1> HIDE DEF f
<1>3. PICK it : Sums(it, f)
  BY SumsExist
<1> QED BY <1>2, <1>3, TotalIs

LEMMA LandedIsFinite == IsFiniteSet(Landed(Put)) /\ Cardinality(Landed(Put)) \in Nat
<1>1. Landed(Put) \in SUBSET Put
  BY DEF Landed
<1>2. IsFiniteSet(Landed(Put))
  BY <1>1, FiniteAssumption, FS_Subset
<1> QED BY <1>2, FS_CardinalityType

\* What one isolate reports moves the sum by as much.
LEMMA WayMoves ==
  ASSUME BudgetInv, BudgetInv', NEW i \in Isolate,
         \A j \in Isolate : j # i => Unreported(j)' = Unreported(j)
  PROVE  \E u, v, t, t1 \in Nat :
           /\ Unreported(i) = u /\ Unreported(i)' = v
           /\ OnItsWay = t /\ OnItsWay' = t1 /\ t1 + u = t + v
<1> DEFINE f == [j \in Isolate |-> Unreported(j)]
           g == [j \in Isolate |-> Unreported(j)']
<1>1. f \in [Isolate -> Nat] /\ OnItsWay = Total(f)
  BY UnreportedIsNat, OnItsWayIs DEF AllAreNumbers
<1>3. g \in [Isolate -> Nat] /\ OnItsWay' = Total(g)
  BY NextWayIsSum
<1>4. f[i] = Unreported(i) /\ g[i] = Unreported(i)' /\ \A j \in Isolate : j # i => f[j] = g[j]
  OBVIOUS
<1> HIDE DEF f, g
<1>5. Total(f) \in Nat /\ Total(g) \in Nat /\ Total(f) + g[i] = Total(g) + f[i]
  BY <1>1, <1>3, <1>4, TotalMoves
<1>6. f[i] \in Nat /\ g[i] \in Nat
  BY <1>1, <1>3
<1>7. Total(g) + f[i] = Total(f) + g[i]
  BY <1>5
<1> QED BY <1>1, <1>3, <1>4, <1>5, <1>6, <1>7

LEMMA WayStays ==
  ASSUME BudgetInv, BudgetInv', \A j \in Isolate : Unreported(j)' = Unreported(j)
  PROVE  OnItsWay' = OnItsWay
<1>3. OnItsWay' = Total([j \in Isolate |-> Unreported(j)'])
  BY NextWayIsSum
<1>4. OnItsWay = Total([j \in Isolate |-> Unreported(j)])
  BY WayIsSum DEF WayIsTheirSum
<1>5. [j \in Isolate |-> Unreported(j)'] = [j \in Isolate |-> Unreported(j)]
  OBVIOUS
<1> QED BY <1>3, <1>4, <1>5

\* How a step moves the counts.
LEMMA CountMoves ==
  ASSUME BudgetInv, BudgetInv', CountInv,
         NEW t \in Nat, NEW t1 \in Nat, OnItsWay = t, OnItsWay' = t1,
         NEW c \in Nat, NEW c1 \in Nat,
         Cardinality(Landed(Put)) = c, Cardinality(Landed(Put)') = c1,
         NEW b \in Nat, NEW b1 \in Nat, billed = b, billed' = b1,
         NEW r1 \in Nat, Recorded(day)' = r1,
         \/ doubt'
         \/ /\ ~doubt
            /\ \A y \in Nat : Reading(y)' =>
                 \E x \in Nat : Reading(x) /\ y + t1 + c1 + b <= x + t + c + b1,
         \/ lost'
         \/ ~lost /\ Recorded(day) + t + c + b1 <= r1 + t1 + c1 + b
  PROVE  CountInv'
<1>1. ASSUME ~doubt', NEW y \in Nat, Reading(y)'
      PROVE  (y + OnItsWay + Cardinality(Landed(Put)) <= billed)'
  <2>1. PICK x \in Nat : Reading(x) /\ y + t1 + c1 + b <= x + t + c + b1 /\ ~doubt
    BY <1>1
  <2>2. x + t + c <= b
    BY <2>1 DEF CountInv
  <2>3. y + t1 + c1 <= b1
    BY <2>1, <2>2
  <2> QED BY <2>3
<1>2. ASSUME ~lost'
      PROVE  (Recorded(day) + OnItsWay + Cardinality(Landed(Put)) >= billed)'
  <2>1. PICK r \in Nat : Recorded(day) = r
    BY RecordedIsNat DEF BudgetInv
  <2>2. r + t + c >= b
    BY <1>2, <2>1 DEF CountInv
  <2>3. r + t + c + b1 <= r1 + t1 + c1 + b
    BY <1>2, <2>1
  <2>4. r1 + t1 + c1 >= b1
    BY <2>2, <2>3
  <2> QED BY <2>4
<1>3. CountInv' <=>
        /\ (~doubt => \A x \in Nat :
              Reading(x) => x + OnItsWay + Cardinality(Landed(Put)) <= billed)'
        /\ (~lost => Recorded(day) + OnItsWay + Cardinality(Landed(Put)) >= billed)'
  BY DEF CountInv
<1> QED BY <1>1, <1>2, <1>3

\* The step does not touch what is counted.
LEMMA CountStays ==
  ASSUME BudgetInv, BudgetInv', CountInv,
         \A j \in Isolate : Unreported(j)' = Unreported(j),
         Landed(Put)' = Landed(Put), billed' = billed, day' = day, row' = row,
         doubt => doubt', lost => lost',
         \A x \in Nat : Reading(x)' => Reading(x)
  PROVE  CountInv'
<1>1. OnItsWay' = OnItsWay /\ Recorded(day)' = Recorded(day)
  BY WayStays DEF Recorded
<1>2. OnItsWay \in Nat /\ Cardinality(Landed(Put)) \in Nat /\ billed \in Nat
      /\ Recorded(day) \in Nat
  BY OnItsWayIsNat, LandedIsFinite, BudgetTypes, RecordedIsNat DEF BudgetInv
<1>3. Cardinality(Landed(Put)') = Cardinality(Landed(Put))
  OBVIOUS
<1>4. \A y \in Nat : Reading(y)' => \E x \in Nat : Reading(x)
        /\ y + OnItsWay + Cardinality(Landed(Put)) + billed
             <= x + OnItsWay + Cardinality(Landed(Put)) + billed
  <2>1. ASSUME NEW y \in Nat, Reading(y)'
        PROVE  Reading(y) /\ y + OnItsWay + Cardinality(Landed(Put)) + billed
                               <= y + OnItsWay + Cardinality(Landed(Put)) + billed
    BY <1>2, <2>1
  <2> QED BY <2>1
<1>5. Recorded(day) + OnItsWay + Cardinality(Landed(Put)) + billed
        <= Recorded(day) + OnItsWay + Cardinality(Landed(Put)) + billed
  BY <1>2
<1> QED BY <1>1, <1>2, <1>3, <1>4, <1>5, CountMoves

LEMMA ReadingStays ==
  ASSUME day' = day, row' = row,
         \A j \in Isolate : \A x \in Nat :
           ReadingOf(local'[j], flush'[j], day, x) => Reading(x)
  PROVE  \A x \in Nat : Reading(x)' => Reading(x)
<1>1. ASSUME NEW x \in Nat, Reading(x)'  PROVE Reading(x)
  <2>1. x = 0 \/ x = Recorded(day)' \/ \E j \in Isolate : ReadingOf(local'[j], flush'[j], day', x)
    BY <1>1 DEF Reading
  <2>2. Recorded(day)' = Recorded(day)
    BY DEF Recorded
  <2>3. CASE x = 0 \/ x = Recorded(day)
    BY <2>3 DEF Reading
  <2> QED BY <2>1, <2>2, <2>3
<1> QED BY <1>1

LEMMA OwnReading ==
  ASSUME NEW j \in Isolate, NEW x, ReadingOf(local[j], flush[j], day, x)
  PROVE  Reading(x)
  BY DEF Reading

LEMMA LandedStays ==
  ASSUME day' = day,
         \A p \in Put : (put'[p].pc = "billed" /\ put'[p].on = day)
                          <=> (put[p].pc = "billed" /\ put[p].on = day)
  PROVE  Landed(Put)' = Landed(Put)
  BY DEF Landed

\* One isolate's counters move, but neither what it reports nor what it may read.
LEMMA OneMoves ==
  ASSUME BudgetInv, BudgetInv', CountInv, day' = day, billed' = billed, row' = row,
         Landed(Put)' = Landed(Put), doubt => doubt', lost => lost',
         NEW i \in Isolate, NEW l, NEW f, local'[i] = l, flush'[i] = f,
         \A j \in Isolate : j # i => local'[j] = local[j] /\ flush'[j] = flush[j],
         Waiting(l, f, day) = Waiting(local[i], flush[i], day),
         \A x \in Nat : ReadingOf(l, f, day, x) => Reading(x)
  PROVE  CountInv'
<1>1. ASSUME NEW j \in Isolate  PROVE Unreported(j)' = Unreported(j)
  <2>1. Unreported(j)' = Waiting(local'[j], flush'[j], day')
    BY DEF Unreported, Waiting
  <2>2. Unreported(j) = Waiting(local[j], flush[j], day)
    BY UnreportedIs
  <2> QED BY <2>1, <2>2
<1>2. ASSUME NEW j \in Isolate, NEW x \in Nat, ReadingOf(local'[j], flush'[j], day, x)
      PROVE  Reading(x)
  BY <1>2, OwnReading
<1>3. \A x \in Nat : Reading(x)' => Reading(x)
  BY <1>2, ReadingStays
<1> QED BY <1>1, <1>3, CountStays

\* No counter moves.
LEMMA NoneMoves ==
  ASSUME BudgetInv, BudgetInv', CountInv, day' = day, billed' = billed, row' = row,
         Landed(Put)' = Landed(Put), doubt => doubt', lost => lost',
         local' = local, flush' = flush
  PROVE  CountInv'
<1>1. ASSUME NEW j \in Isolate  PROVE Unreported(j)' = Unreported(j)
  BY DEF Unreported
<1>2. \A j \in Isolate : \A x \in Nat : ReadingOf(local'[j], flush'[j], day, x) => Reading(x)
  BY OwnReading
<1>3. \A x \in Nat : Reading(x)' => Reading(x)
  BY <1>2, ReadingStays
<1> QED BY <1>1, <1>3, CountStays

LEMMA NoteReadCounts ==
  ASSUME BudgetInv, BudgetInv', TimesInv, CountInv, NEW i \in Isolate, NoteRead(i)
  PROVE  CountInv'
<1>0. /\ local \in [Isolate -> Local] /\ flush \in [Isolate -> Flush]
  BY BudgetTypes
<1> DEFINE l == accountLocal(i)
           f == [pc |-> "read", rows |-> l.pend, base |-> 0, from |-> l.day, day |-> l.day]
<1>1. l = local[i] /\ l.day = day
  BY accountLocalTimes DEF NoteRead, FlushDue, NoLocal
<1>2. /\ flush[i].pc = "none" /\ f.pc = "read"
      /\ local'[i] = l /\ flush'[i] = f
      /\ \A j \in Isolate : j # i => local'[j] = local[j] /\ flush'[j] = flush[j]
      /\ UNCHANGED <<day, billed, row, put, doubt, lost>>
  BY <1>0 DEF NoteRead, FlushDue, StartFlush
<1> HIDE DEF l, f
<1>3. Waiting(l, f, day) = Waiting(local[i], flush[i], day)
  BY <1>1, <1>2 DEF Waiting
<1>4. \A x \in Nat : ReadingOf(l, f, day, x) => Reading(x)
  BY <1>1, <1>2 DEF ReadingOf, Reading
<1>5. Landed(Put)' = Landed(Put)
  BY <1>2, LandedStays
<1> QED BY <1>2, <1>3, <1>4, <1>5, OneMoves

LEMMA FlushReadCounts ==
  ASSUME BudgetInv, BudgetInv', TimesInv, CountInv, NEW i \in Isolate, NEW ok \in BOOLEAN,
         FlushRead(i, ok)
  PROVE  CountInv'
<1>0. /\ local \in [Isolate -> Local] /\ flush \in [Isolate -> Flush]
  BY BudgetTypes
<1> DEFINE l == [local[i] EXCEPT !.seen = Base(i, ok)]
           f == [flush[i] EXCEPT !.pc = "write", !.base = Base(i, ok), !.day = local[i].day]
<1>1. /\ local'[i] = l /\ flush'[i] = f
      /\ \A j \in Isolate : j # i => local'[j] = local[j] /\ flush'[j] = flush[j]
      /\ UNCHANGED <<day, billed, row, put, doubt, lost>> /\ flush[i].pc = "read"
  BY <1>0 DEF FlushRead
<1>2. /\ l.day = local[i].day /\ l.pend = local[i].pend /\ l.seen = Base(i, ok)
      /\ f.pc = "write" /\ f.base = Base(i, ok) /\ f.day = local[i].day
  <2>1. local[i] \in Local /\ flush[i] \in Flush
    BY <1>0
  <2> QED BY <2>1 DEF Local, Flush
<1> HIDE DEF l, f
<1>3. Waiting(l, f, day) = Waiting(local[i], flush[i], day)
  BY <1>1, <1>2 DEF Waiting
<1>4. ASSUME NEW x \in Nat, ReadingOf(l, f, day, x)  PROVE Reading(x)
  <2>1. local[i].day = day /\ x = Base(i, ok)
    BY <1>2, <1>4 DEF ReadingOf
  <2>2. x = Recorded(day) \/ ReadingOf(local[i], flush[i], day, x)
    BY <2>1 DEF Base, ReadingOf
  <2> QED BY <2>2 DEF Reading
<1>5. Landed(Put)' = Landed(Put)
  BY <1>1, LandedStays
<1> QED BY <1>1, <1>3, <1>4, <1>5, OneMoves

LEMMA FlushRefusedCounts ==
  ASSUME BudgetInv, BudgetInv', TimesInv, CountInv, NEW i \in Isolate, FlushRefused(i)
  PROVE  CountInv'
<1>0. /\ local \in [Isolate -> Local] /\ flush \in [Isolate -> Flush]
  BY BudgetTypes
<1>1. /\ local'[i] = local[i] /\ flush'[i] = NoFlush
      /\ \A j \in Isolate : j # i => local'[j] = local[j] /\ flush'[j] = flush[j]
      /\ UNCHANGED <<day, billed, row, put, doubt, lost>> /\ flush[i].pc = "write"
  BY <1>0 DEF FlushRefused
<1>2. Waiting(local[i], NoFlush, day) = Waiting(local[i], flush[i], day)
  BY <1>1 DEF Waiting, NoFlush
<1>3. ASSUME NEW x \in Nat, ReadingOf(local[i], NoFlush, day, x)  PROVE Reading(x)
  BY <1>3 DEF ReadingOf, Reading, NoFlush
<1>4. Landed(Put)' = Landed(Put)
  BY <1>1, LandedStays
<1> QED BY <1>1, <1>2, <1>3, <1>4, OneMoves

\* The ledger gets the rows, and they are no longer on their way: on their own day.
LEMMA FlushWriteCounts ==
  ASSUME BudgetInv, BudgetInv', TimesInv, CountInv, NEW i \in Isolate, FlushWrite(i)
  PROVE  CountInv'
<1>0. /\ local \in [Isolate -> Local] /\ flush \in [Isolate -> Flush]
      /\ local[i] \in Local /\ flush[i] \in Flush
      /\ local[i].day \in Nat /\ local[i].pend \in Nat /\ local[i].seen \in Nat
      /\ flush[i].rows \in Nat /\ flush[i].base \in Nat
      /\ flush[i].from \in Nat /\ flush[i].day \in Nat
      /\ day \in Nat /\ billed \in Nat /\ row.day \in Nat /\ row.n \in Nat
  BY BudgetTypes
<1> DEFINE f == [flush[i] EXCEPT !.pc = "reply"]
           rows == flush[i].rows
           base == flush[i].base
<1>1. /\ local' = local /\ flush'[i] = f /\ \A j \in Isolate : j # i => flush'[j] = flush[j]
      /\ UNCHANGED <<day, billed, put>> /\ flush[i].pc = "write"
      /\ row' = [day |-> flush[i].day, n |-> base + rows]
      /\ doubt' = (doubt \/ flush[i].day # flush[i].from)
      /\ lost' = (lost \/ base < Recorded(flush[i].day) \/ flush[i].day < row.day)
  BY <1>0 DEF FlushWrite
<1>2. /\ f.pc = "reply" /\ f.rows = rows /\ f.base = base
      /\ f.from = flush[i].from /\ f.day = flush[i].day
  BY <1>0 DEF Flush
<1> HIDE DEF f
<1>3. /\ flush[i].from <= flush[i].day /\ flush[i].day <= local[i].day /\ local[i].day <= day
      /\ flush[i].from = local[i].day => rows <= local[i].pend
  BY <1>1 DEF TimesInv, FlushTimes
<1>4. Landed(Put)' = Landed(Put)
  BY <1>1, LandedStays
<1>5. Unreported(i)' = Waiting(local[i], f, day)
  BY <1>1 DEF Unreported, Waiting
<1>6. Unreported(i) = Waiting(local[i], flush[i], day)
  BY UnreportedIs
<1>7. \A j \in Isolate : j # i => Unreported(j)' = Unreported(j)
  BY <1>1 DEF Unreported
<1>8. PICK u, v, t, t1 \in Nat :
        /\ Unreported(i) = u /\ Unreported(i)' = v
        /\ OnItsWay = t /\ OnItsWay' = t1 /\ t1 + u = t + v
  BY <1>7, WayMoves
<1>c. PICK c \in Nat : Cardinality(Landed(Put)) = c
  BY LandedIsFinite
<1>r. PICK r \in Nat : Recorded(day) = r
  BY RecordedIsNat DEF BudgetInv
<1>b. PICK b \in Nat : billed = b
  BY <1>0
\* The rows are today's.
<1>9. CASE flush[i].from = day
  <2>1. flush[i].day = day /\ local[i].day = day /\ rows <= local[i].pend
    BY <1>0, <1>3, <1>9
  <2>2. v = Remaining(local[i], f) /\ u = local[i].pend
    BY <1>1, <1>2, <1>5, <1>6, <1>8, <1>9, <2>1 DEF Waiting
  <2>3. v + rows = u
    BY <1>0, <1>2, <2>1, <2>2 DEF Remaining
  <2>4. t1 + rows = t
    BY <1>0, <1>8, <2>3
  <2>5. Recorded(day)' = base + rows
    BY <1>1, <2>1 DEF Recorded
  <2>6. base \in Nat /\ rows \in Nat /\ base + rows \in Nat /\ Reading(base)
    BY <1>0, <1>1, <2>1 DEF Reading, ReadingOf
  <2> HIDE DEF base, rows
  <2>7. ASSUME NEW y \in Nat, Reading(y)'
        PROVE  \E x \in Nat : Reading(x) /\ y + t1 + c + b <= x + t + c + b
    <3>1. CASE Reading(y)
      BY <2>4, <2>6, <3>1
    <3>2. CASE y = base + rows
      BY <2>4, <2>6, <3>2
    <3>3. ASSUME NEW j \in Isolate, ReadingOf(local'[j], flush'[j], day', y)
          PROVE  Reading(y) \/ y = base + rows
      <4>1. CASE j # i
        BY <1>1, <3>3, <4>1 DEF Reading
      <4>2. CASE j = i
        <5>1. ReadingOf(local[i], f, day, y)
          BY <1>1, <3>3, <4>2
        <5>2. (local[i].day = day /\ y = local[i].seen) \/ y = base + rows
          BY <1>2, <5>1 DEF ReadingOf
        <5> QED BY <5>2 DEF Reading, ReadingOf
      <4> QED BY <4>1, <4>2
    <3>4. y = 0 \/ y = Recorded(day)' \/ \E j \in Isolate : ReadingOf(local'[j], flush'[j], day', y)
      BY <2>7 DEF Reading
    <3>5. y = 0 => Reading(y)
      BY DEF Reading
    <3> QED BY <2>5, <3>1, <3>2, <3>3, <3>4, <3>5
  <2>8. lost' \/ (~lost /\ r + t + c + b <= (base + rows) + t1 + c + b)
    <3>1. CASE base < Recorded(day)
      BY <1>1, <2>1, <3>1
    <3>2. CASE ~ (base < Recorded(day))
      <4>1. r <= base
        BY <1>r, <2>6, <3>2
      <4>2. r + t + c + b <= (base + rows) + t1 + c + b
        BY <2>4, <2>6, <4>1
      <4> QED BY <1>1, <4>2
    <3> QED BY <3>1, <3>2
  <2>9. doubt' \/ ~doubt
    BY <1>1
  <2> QED BY <1>1, <1>4, <1>8, <1>c, <1>r, <1>b, <2>5, <2>6, <2>7, <2>8, <2>9, CountMoves
\* They are of another day: in doubt, and today's ledger is overwritten or left alone.
<1>10. CASE flush[i].from # day
  <2>1. u = v
    <3>1. flush[i].pc # "reply" /\ f.from # day
      BY <1>1, <1>2, <1>10
    <3> QED BY <1>5, <1>6, <1>8, <3>1 DEF Waiting
  <2>2. t1 = t
    BY <1>8, <2>1
  <2>3. CASE flush[i].day = day
    <3>1. doubt'
      BY <1>1, <1>10, <2>3
    <3>2. Recorded(day)' = base + rows /\ base + rows \in Nat
      BY <1>0, <1>1, <2>3 DEF Recorded
    <3>3. lost' \/ (~lost /\ r + t + c + b <= (base + rows) + t1 + c + b)
      <4>1. CASE base < Recorded(day)
        BY <1>1, <2>3, <4>1
      <4>2. CASE ~ (base < Recorded(day))
        <5>1. r <= base + rows
          BY <1>0, <1>r, <4>2
        <5>2. r + t + c + b <= (base + rows) + t1 + c + b
          BY <2>2, <3>2, <5>1
        <5> QED BY <1>1, <5>2
      <4> QED BY <4>1, <4>2
    <3> QED BY <1>1, <1>4, <1>8, <1>c, <1>r, <1>b, <3>1, <3>2, <3>3, CountMoves
  <2>4. CASE flush[i].day # day
    <3>1. Recorded(day)' = 0
      BY <1>1, <2>4 DEF Recorded
    <3>2. lost' \/ (~lost /\ r = 0)
      <4>1. flush[i].day < day
        BY <1>0, <1>3, <2>4
      <4>2. CASE row.day = day
        BY <1>1, <4>1, <4>2
      <4>3. CASE row.day # day
        BY <1>1, <1>r, <4>3 DEF Recorded
      <4> QED BY <4>2, <4>3
    <3>3. ASSUME NEW y \in Nat, Reading(y)'  PROVE Reading(y)
      <4>1. y = 0 \/ y = Recorded(day)' \/ \E j \in Isolate : ReadingOf(local'[j], flush'[j], day', y)
        BY <3>3 DEF Reading
      <4>2. ASSUME NEW j \in Isolate, ReadingOf(local'[j], flush'[j], day', y)  PROVE Reading(y)
        <5>1. CASE j # i
          BY <1>1, <4>2, <5>1 DEF Reading
        <5>2. CASE j = i
          <6>1. ReadingOf(local[i], f, day, y)
            BY <1>1, <4>2, <5>2
          <6> QED BY <1>2, <2>4, <6>1 DEF Reading, ReadingOf
        <5> QED BY <5>1, <5>2
      <4> QED BY <3>1, <4>1, <4>2 DEF Reading
    <3>4. \A y \in Nat : Reading(y)' => \E x \in Nat : Reading(x) /\ y + t1 + c + b <= x + t + c + b
      <4>1. ASSUME NEW y \in Nat, Reading(y)'
            PROVE  Reading(y) /\ y + t1 + c + b <= y + t + c + b
        BY <2>2, <3>3, <4>1
      <4> QED BY <4>1
    <3>5. lost' \/ (~lost /\ r + t + c + b <= 0 + t1 + c + b)
      BY <2>2, <3>2
    <3>6. doubt' \/ ~doubt
      BY <1>1
    <3> QED BY <1>1, <1>4, <1>8, <1>c, <1>r, <1>b, <3>1, <3>4, <3>5, <3>6, CountMoves
  <2> QED BY <2>3, <2>4
<1> QED BY <1>9, <1>10

\* The answer takes the flushed rows from the counter: whose answer comes on another day
\* leaves both counts open, or finds nothing to take.
LEMMA FlushReplyCounts ==
  ASSUME BudgetInv, BudgetInv', TimesInv, CountInv, NEW i \in Isolate, FlushReply(i)
  PROVE  CountInv'
<1>0. /\ local \in [Isolate -> Local] /\ flush \in [Isolate -> Flush]
      /\ local[i] \in Local /\ flush[i] \in Flush
      /\ local[i].day \in Nat /\ local[i].pend \in Nat /\ local[i].seen \in Nat
      /\ flush[i].rows \in Nat /\ flush[i].base \in Nat
      /\ flush[i].from \in Nat /\ flush[i].day \in Nat /\ day \in Nat
  BY BudgetTypes
<1> DEFINE l == [local[i] EXCEPT !.pend = Remaining(local[i], flush[i]),
                                 !.seen = flush[i].base + flush[i].rows]
<1>1. /\ local'[i] = l /\ flush'[i] = NoFlush
      /\ \A j \in Isolate : j # i => local'[j] = local[j] /\ flush'[j] = flush[j]
      /\ UNCHANGED <<day, billed, row, put>> /\ flush[i].pc = "reply"
      /\ lost' = (lost \/ (local[i].day # flush[i].from /\ local[i].pend > 0))
      /\ doubt' = (doubt \/ local[i].day # flush[i].day)
  BY <1>0 DEF FlushReply
<1>2. /\ l.day = local[i].day /\ l.pend = Remaining(local[i], flush[i])
      /\ l.seen = flush[i].base + flush[i].rows
  BY <1>0 DEF Local
<1> HIDE DEF l
<1>3. /\ flush[i].from <= flush[i].day /\ flush[i].day <= local[i].day /\ local[i].day <= day
      /\ flush[i].day = day /\ flush[i].from # day => doubt
  BY <1>1 DEF TimesInv, FlushTimes, FlushDoubt
<1>4. CASE doubt' /\ lost'
  BY <1>4 DEF CountInv
<1>5. CASE ~ (doubt' /\ lost')
  <2>1. Waiting(l, NoFlush, day) = Waiting(local[i], flush[i], day)
    <3>1. CASE local[i].day # day
      BY <1>2, <3>1 DEF Waiting
    <3>2. CASE local[i].day = day
      <4>1. Waiting(l, NoFlush, day) = Remaining(local[i], flush[i])
        BY <1>2, <3>2 DEF Waiting, NoFlush
      <4>2. CASE flush[i].from = day
        <5>1. flush[i].day = day
          BY <1>0, <1>3, <3>2, <4>2
        <5> QED BY <1>1, <3>2, <4>1, <4>2, <5>1 DEF Waiting
      <4>3. CASE flush[i].from # day
        <5>1. doubt'
          BY <1>1, <1>3, <3>2, <4>3
        <5>2. ~ (local[i].pend > 0)
          BY <1>1, <1>5, <3>2, <4>3, <5>1
        <5>3. local[i].pend = 0
          BY <1>0, <5>2
        <5>4. Remaining(local[i], flush[i]) = 0
          BY <1>0, <5>3 DEF Remaining
        <5> QED BY <3>2, <4>1, <4>3, <5>3, <5>4 DEF Waiting
      <4> QED BY <4>2, <4>3
    <3> QED BY <3>1, <3>2
  <2>2. CASE ~doubt'
    <3>1. ASSUME NEW x \in Nat, ReadingOf(l, NoFlush, day, x)  PROVE Reading(x)
      <4>1. local[i].day = day /\ x = flush[i].base + flush[i].rows
        BY <1>2, <3>1 DEF ReadingOf, NoFlush
      <4>2. flush[i].day = day
        BY <1>1, <2>2, <4>1
      <4> QED BY <1>1, <4>1, <4>2 DEF Reading, ReadingOf
    <3>2. Landed(Put)' = Landed(Put)
      BY <1>1, LandedStays
    <3> QED BY <1>1, <2>1, <3>1, <3>2, OneMoves
  <2>3. CASE doubt'
    <3>1. ASSUME NEW j \in Isolate  PROVE Unreported(j)' = Unreported(j)
      <4>1. Unreported(j)' = Waiting(local'[j], flush'[j], day')
        BY DEF Unreported, Waiting
      <4>2. Unreported(j) = Waiting(local[j], flush[j], day)
        BY UnreportedIs
      <4> QED BY <1>1, <2>1, <4>1, <4>2
    <3>2. OnItsWay' = OnItsWay
      BY <3>1, WayStays
    <3>3. Landed(Put)' = Landed(Put)
      BY <1>1, LandedStays
    <3>4. Recorded(day)' = Recorded(day)
      BY <1>1 DEF Recorded
    <3>5. ~lost
      BY <1>1, <1>5, <2>3
    <3> QED BY <1>1, <2>3, <3>2, <3>3, <3>4, <3>5 DEF CountInv
  <2> QED BY <2>2, <2>3
<1> QED BY <1>4, <1>5

\* The answer is lost: its rows are counted again.
LEMMA FlushReplyLostCounts ==
  ASSUME BudgetInv, BudgetInv', TimesInv, CountInv, NEW i \in Isolate, FlushReplyLost(i)
  PROVE  CountInv'
<1>0. /\ local \in [Isolate -> Local] /\ flush \in [Isolate -> Flush]
      /\ local[i] \in Local /\ flush[i] \in Flush /\ local[i].pend \in Nat /\ billed \in Nat
  BY BudgetTypes
<1>1. /\ local' = local /\ flush'[i] = NoFlush
      /\ \A j \in Isolate : j # i => flush'[j] = flush[j]
      /\ UNCHANGED <<day, billed, row, put, lost>> /\ doubt' = TRUE
  BY <1>0 DEF FlushReplyLost
<1>2. \A j \in Isolate : j # i => Unreported(j)' = Unreported(j)
  BY <1>1 DEF Unreported
<1>3. PICK u, v, t, t1 \in Nat :
        /\ Unreported(i) = u /\ Unreported(i)' = v
        /\ OnItsWay = t /\ OnItsWay' = t1 /\ t1 + u = t + v
  BY <1>2, WayMoves
<1>4. u <= v
  <2>1. Unreported(i)' = Waiting(local[i], NoFlush, day)
    BY <1>1 DEF Unreported, Waiting
  <2>2. v = IF local[i].day # day THEN 0 ELSE local[i].pend
    BY <1>3, <2>1 DEF Waiting, NoFlush
  <2>3. u = Waiting(local[i], flush[i], day)
    BY <1>3, UnreportedIs
  <2>4. Remaining(local[i], flush[i]) <= local[i].pend
    BY <1>0, RemainingIsNat
  <2> QED BY <1>0, <2>2, <2>3, <2>4 DEF Waiting
<1>5. t <= t1
  BY <1>3, <1>4
<1>6. Landed(Put)' = Landed(Put)
  BY <1>1, LandedStays
<1>7. PICK c, r, b \in Nat : Cardinality(Landed(Put)) = c /\ Recorded(day) = r /\ billed = b
  BY <1>0, LandedIsFinite, RecordedIsNat DEF BudgetInv
<1>8. Recorded(day)' = r
  BY <1>1, <1>7 DEF Recorded
<1>9. lost' \/ (~lost /\ r + t + c + b <= r + t1 + c + b)
  BY <1>1, <1>5
<1> QED BY <1>1, <1>3, <1>6, <1>7, <1>8, <1>9, CountMoves

\* A write reserves, is sent, refused, or asks again: the isolate's counters are at most
\* rolled over.
LEMMA RolledOver ==
  ASSUME BudgetInv, TimesInv, NEW i \in Isolate
  PROVE  /\ Waiting(accountLocal(i), flush[i], day) = Waiting(local[i], flush[i], day)
         /\ \A x \in Nat : ReadingOf(accountLocal(i), flush[i], day, x) => Reading(x)
<1>0. flush[i].from \in Nat /\ flush[i].day \in Nat /\ local[i].day \in Nat /\ day \in Nat
  BY BudgetTypes
<1>1. CASE local[i].day = day
  <2>1. accountLocal(i) = local[i]
    BY <1>1, accountLocalTimes
  <2> QED BY <2>1, OwnReading
<1>2. CASE local[i].day # day
  <2>1. accountLocal(i) = NoLocal(day)
    BY <1>2, accountLocalTimes
  <2>2. NoLocal(day).day = day /\ NoLocal(day).pend = 0 /\ NoLocal(day).seen = 0
    BY DEF NoLocal
  <2>3. Waiting(local[i], flush[i], day) = 0
    BY <1>2 DEF Waiting
  <2>4. local[i].day <= day /\ FlushTimes(local[i], flush[i])
    BY DEF TimesInv
  <2>5. ~ (flush[i].pc = "reply" /\ flush[i].from = day)
    BY <1>0, <1>2, <2>4 DEF FlushTimes
  <2>6. Waiting(NoLocal(day), flush[i], day) = 0
    BY <2>2, <2>5 DEF Waiting
  <2>7. ASSUME NEW x \in Nat, ReadingOf(NoLocal(day), flush[i], day, x)  PROVE Reading(x)
    BY <2>2, <2>7 DEF ReadingOf, Reading
  <2> QED BY <2>1, <2>3, <2>6, <2>7
<1> QED BY <1>1, <1>2

LEMMA ReserveCounts ==
  ASSUME BudgetInv, BudgetInv', TimesInv, CountInv, NEW p \in Put, NEW i \in Isolate,
         NEW critical \in BOOLEAN, NEW estimate \in {1, 2}, Reserve(p, i, critical, estimate)
  PROVE  CountInv'
<1>0. local \in [Isolate -> Local] /\ put \in [Put -> Write]
  BY BudgetTypes
<1>1. /\ local'[i] = accountLocal(i) /\ \A j \in Isolate : j # i => local'[j] = local[j]
      /\ UNCHANGED <<day, billed, row, flush, doubt, lost>>
  BY <1>0 DEF Reserve
<1>2. Landed(Put)' = Landed(Put)
  BY <1>0, <1>1, LandedStays DEF Reserve, Asking, NoWrite
<1> QED BY <1>1, <1>2, RolledOver, OneMoves

LEMMA DecideCounts ==
  ASSUME BudgetInv, BudgetInv', TimesInv, CountInv, NEW p \in Put, Decide(p)
  PROVE  CountInv'
<1>0. /\ local \in [Isolate -> Local] /\ put \in [Put -> Write] /\ put[p].by \in Isolate
      /\ put[p].pc = "asking"
  BY BudgetTypes DEF Decide
<1> DEFINE i == put[p].by
<1>1. PICK seen \in {Recorded(local[put[p].by].day), local[put[p].by].seen} :
        /\ local' = [local EXCEPT ![put[p].by].seen = seen]
        /\ put' = [put EXCEPT ![p] =
             IF optionalWriteAllowed(local'[put[p].by], put[p].critical)
             THEN Sent(put[p].by) ELSE NoWrite]
  BY DEF Decide
<1> DEFINE l == [local[i] EXCEPT !.seen = seen]
<1>2. /\ local'[i] = l /\ \A j \in Isolate : j # i => local'[j] = local[j]
      /\ UNCHANGED <<day, billed, row, flush, doubt, lost>>
  BY <1>0, <1>1 DEF Decide
<1>3. l.day = local[i].day /\ l.pend = local[i].pend /\ l.seen = seen
  <2>1. local[i] \in Local
    BY <1>0
  <2> QED BY <2>1 DEF Local
<1>4. Landed(Put)' = Landed(Put)
  <2>1. put' = [put EXCEPT ![p] = Sent(put[p].by)] \/ put' = [put EXCEPT ![p] = NoWrite]
    BY <1>1
  <2>2. Sent(put[p].by).pc # "billed" /\ NoWrite.pc # "billed"
    BY DEF Sent, NoWrite
  <2> QED BY <1>0, <1>2, <2>1, <2>2, LandedStays
<1>5. i \in Isolate /\ seen \in {Recorded(local[i].day), local[i].seen}
  BY <1>0
<1> HIDE DEF i, l
<1>6. Waiting(l, flush[i], day) = Waiting(local[i], flush[i], day)
  BY <1>3 DEF Waiting, Remaining
<1>7. ASSUME NEW x \in Nat, ReadingOf(l, flush[i], day, x)  PROVE Reading(x)
  BY <1>3, <1>5, <1>7 DEF ReadingOf, Reading
<1> QED BY <1>2, <1>4, <1>5, <1>6, <1>7, OneMoves

LEMMA PutCounts ==
  ASSUME BudgetInv, BudgetInv', TimesInv, CountInv, NEW p \in Put,
         \/ \E i \in Isolate : Prune(p, i)
         \/ LandStale(p) \/ noteD1WriteBlocked(p) \/ (Land(p) /\ Spent)
  PROVE  CountInv'
<1>0. put \in [Put -> Write] /\ local \in [Isolate -> Local] /\ flush \in [Isolate -> Flush]
      /\ put[p] \in Write
  BY BudgetTypes
<1>1. UNCHANGED <<day, billed, row, local, flush, doubt, lost>>
  BY DEF Prune, LandStale, noteD1WriteBlocked, Land
<1>2. /\ put[p].pc # "billed" /\ put'[p].pc # "billed"
      /\ \A q \in Put : q # p => put'[q] = put[q]
  <2>1. CASE \E i \in Isolate : Prune(p, i)
    BY <1>0, <2>1 DEF Prune, Sent, NoWrite
  <2>2. CASE LandStale(p)
    BY <1>0, <2>2 DEF LandStale, Write
  <2>3. CASE noteD1WriteBlocked(p)
    BY <1>0, <2>3 DEF noteD1WriteBlocked, NoWrite
  <2>4. CASE Land(p) /\ Spent
    BY <1>0, <2>4 DEF Land, Write
  <2> QED BY <2>1, <2>2, <2>3, <2>4
<1>3. Landed(Put)' = Landed(Put)
  BY <1>1, <1>2, LandedStays
<1> QED BY <1>1, <1>3, NoneMoves

LEMMA LandCounts ==
  ASSUME BudgetInv, BudgetInv', TimesInv, CountInv, NEW p \in Put, Land(p), ~Spent
  PROVE  CountInv'
<1>0. put \in [Put -> Write] /\ billed \in Nat /\ put[p] \in Write
  BY BudgetTypes
<1>1. /\ UNCHANGED <<day, row, local, flush, doubt, lost>> /\ billed' = billed + 1
      /\ put'[p].pc = "billed" /\ put'[p].on = day /\ put[p].pc = "sent"
      /\ \A q \in Put : q # p => put'[q] = put[q]
  BY <1>0 DEF Land, Write
<1>2. Landed(Put)' = Landed(Put) \cup {p} /\ p \notin Landed(Put)
  BY <1>1 DEF Landed
<1>3. PICK c, r, b, t \in Nat : Cardinality(Landed(Put)) = c /\ Recorded(day) = r /\ billed = b
                                /\ OnItsWay = t
  BY <1>0, LandedIsFinite, RecordedIsNat, OnItsWayIsNat DEF BudgetInv
<1>4. Cardinality(Landed(Put)') = c + 1
  BY <1>2, <1>3, LandedIsFinite, FS_AddElement
<1>5. OnItsWay' = t /\ Recorded(day)' = r
  <2>1. \A j \in Isolate : Unreported(j)' = Unreported(j)
    BY <1>1 DEF Unreported
  <2> QED BY <1>1, <1>3, <2>1, WayStays DEF Recorded
<1>6. billed' = b + 1 /\ b + 1 \in Nat /\ c + 1 \in Nat
  BY <1>1, <1>3
<1>7. ASSUME NEW y \in Nat, Reading(y)'
      PROVE  \E x \in Nat : Reading(x) /\ y + t + (c + 1) + b <= x + t + c + (b + 1)
  <2>1. \A j \in Isolate : \A x \in Nat :
          ReadingOf(local'[j], flush'[j], day, x) => Reading(x)
    BY <1>1, OwnReading
  <2>2. Reading(y)
    BY <1>1, <1>7, <2>1, ReadingStays
  <2>3. y + t + (c + 1) + b <= y + t + c + (b + 1)
    OBVIOUS
  <2> QED BY <2>2, <2>3
<1>8. r + t + c + (b + 1) <= r + t + (c + 1) + b
  OBVIOUS
<1>9. (doubt' \/ ~doubt) /\ (lost' \/ ~lost)
  BY <1>1
<1> QED BY <1>3, <1>4, <1>5, <1>6, <1>7, <1>8, <1>9, CountMoves

\* The isolate counts the row: from landed to pending.
LEMMA RecordCounts ==
  ASSUME BudgetInv, BudgetInv', TimesInv, CountInv, NEW p \in Put, NEW i \in Isolate,
         put[p].by = i, Record(p)
  PROVE  CountInv'
<1>0. /\ local \in [Isolate -> Local] /\ flush \in [Isolate -> Flush] /\ put \in [Put -> Write]
      /\ put[p].pc \in {"billed", "stale"}
      /\ day \in Nat /\ billed \in Nat
  BY BudgetTypes DEF Record
<1> DEFINE l == [accountLocal(i) EXCEPT !.pend = @ + 1]
           f == [pc |-> "read", rows |-> l.pend, base |-> 0, from |-> l.day, day |-> l.day]
<1>1. /\ local' = [local EXCEPT ![i] = l]
      /\ UNCHANGED flush \/ (FlushDue(i, l) /\ flush' = [flush EXCEPT ![i] = f])
      /\ put' = [put EXCEPT ![p] = NoWrite]
      /\ doubt' = (doubt \/ put[p].pc = "stale" \/ put[p].on # day)
      /\ UNCHANGED <<day, billed, row, lost>>
  BY DEF Record, StartFlush
<1>2. /\ accountLocal(i) \in Local /\ l.day = day /\ l.seen = accountLocal(i).seen
      /\ l.pend = accountLocal(i).pend + 1 /\ accountLocal(i).pend \in Nat
      /\ accountLocal(i).day = day /\ FlushTimes(accountLocal(i), flush[i])
  <2>1. accountLocal(i) \in Local /\ accountLocal(i).day = day
        /\ FlushTimes(accountLocal(i), flush[i])
    BY <1>0, accountLocalTimes
  <2> QED BY <2>1 DEF Local
<1>3. f.pc = "read" /\ i \in Isolate
  BY <1>0
<1> HIDE DEF l, f
<1>4. /\ local'[i] = l /\ \A j \in Isolate : j # i => local'[j] = local[j] /\ flush'[j] = flush[j]
      /\ flush'[i] = flush[i] \/ (flush[i].pc = "none" /\ flush'[i] = f)
  BY <1>0, <1>1, <1>3 DEF FlushDue
<1>5. \A j \in Isolate : j # i => Unreported(j)' = Unreported(j)
  BY <1>1, <1>4 DEF Unreported
<1>6. PICK u, v, t, t1 \in Nat :
        /\ Unreported(i) = u /\ Unreported(i)' = v
        /\ OnItsWay = t /\ OnItsWay' = t1 /\ t1 + u = t + v
  BY <1>3, <1>5, WayMoves
<1>7. v = u + 1
  <2>0. flush[i].from \in Nat /\ flush[i].day \in Nat /\ flush[i].rows \in Nat
    BY <1>3, BudgetTypes
  <2>1. u = Waiting(accountLocal(i), flush[i], day)
    BY <1>3, <1>6, UnreportedIs, RolledOver
  <2>2. v = Waiting(l, flush'[i], day)
    <3>1. Unreported(i)' = Waiting(local'[i], flush'[i], day')
      BY DEF Unreported, Waiting
    <3> QED BY <1>1, <1>4, <1>6, <3>1
  <2>3. CASE flush'[i] = flush[i]
    <3>1. CASE flush[i].pc = "reply" /\ flush[i].from = day /\ flush[i].day = day
      <4>1. flush[i].rows <= accountLocal(i).pend
        BY <1>2, <3>1 DEF FlushTimes
      <4>2. u = Remaining(accountLocal(i), flush[i]) /\ v = Remaining(l, flush[i])
        BY <1>2, <2>1, <2>2, <2>3, <3>1 DEF Waiting
      <4> QED BY <1>2, <2>0, <4>1, <4>2 DEF Remaining
    <3>2. CASE ~ (flush[i].pc = "reply" /\ flush[i].from = day /\ flush[i].day = day)
      BY <1>2, <2>1, <2>2, <2>3, <3>2 DEF Waiting
    <3> QED BY <3>1, <3>2
  <2>4. CASE flush[i].pc = "none" /\ flush'[i] = f
    BY <1>2, <1>3, <2>1, <2>2, <2>4 DEF Waiting
  <2> QED BY <1>4, <2>3, <2>4
<1>8. t1 = t + 1
  BY <1>6, <1>7
<1>9. PICK c, r, b \in Nat : Cardinality(Landed(Put)) = c /\ Recorded(day) = r /\ billed = b
  BY <1>0, LandedIsFinite, RecordedIsNat DEF BudgetInv
<1>10. Recorded(day)' = r /\ billed' = b
  BY <1>1, <1>9 DEF Recorded
<1>11. Landed(Put)' = Landed(Put) \ {p}
  BY <1>0, <1>1 DEF Landed, NoWrite
<1>12. PICK c1 \in Nat : /\ Cardinality(Landed(Put)') = c1
                         /\ p \in Landed(Put) => c1 + 1 = c
                         /\ p \notin Landed(Put) => c1 = c
  <2>1. Cardinality(Landed(Put) \ {p}) = (IF p \in Landed(Put) THEN c - 1 ELSE c)
        /\ IsFiniteSet(Landed(Put) \ {p})
    BY <1>9, LandedIsFinite, FS_RemoveElement
  <2>2. Cardinality(Landed(Put) \ {p}) \in Nat
    BY <2>1, FS_CardinalityType
  <2> QED BY <1>9, <1>11, <2>1, <2>2
<1>13. p \notin Landed(Put) => doubt'
  BY <1>0, <1>1 DEF Landed
<1>14. ASSUME NEW y \in Nat, Reading(y)'  PROVE Reading(y)
  <2>1. ASSUME NEW j \in Isolate, NEW x \in Nat, ReadingOf(local'[j], flush'[j], day, x)
        PROVE  Reading(x)
    <3>1. CASE j # i
      BY <1>4, <2>1, <3>1, OwnReading
    <3>2. CASE j = i
      <4>1. ReadingOf(accountLocal(i), flush[i], day, x)
        BY <1>2, <1>3, <1>4, <2>1, <3>2 DEF ReadingOf
      <4> QED BY <1>3, <4>1, RolledOver
    <3> QED BY <3>1, <3>2
  <2> QED BY <1>1, <1>14, <2>1, ReadingStays
<1>15. doubt' \/ (~doubt /\ \A y \in Nat : Reading(y)' =>
                     \E x \in Nat : Reading(x) /\ y + t1 + c1 + b <= x + t + c + b)
  <2>1. CASE ~doubt'
    <3>1. t1 + c1 = t + c
      BY <1>8, <1>12, <1>13, <2>1
    <3>2. ASSUME NEW y \in Nat, Reading(y)'
          PROVE  Reading(y) /\ y + t1 + c1 + b <= y + t + c + b
      BY <1>14, <3>1, <3>2
    <3> QED BY <1>1, <2>1, <3>2
  <2> QED BY <2>1
<1>16. lost' \/ (~lost /\ r + t + c + b <= r + t1 + c1 + b)
  BY <1>1, <1>8, <1>12
<1> QED BY <1>6, <1>9, <1>10, <1>12, <1>15, <1>16, CountMoves

\* No answer reached the isolate: a row that was billed today is lost to the count.
LEMMA UnansweredCounts ==
  ASSUME BudgetInv, BudgetInv', TimesInv, CountInv, NEW p \in Put, Unanswered(p)
  PROVE  CountInv'
<1>0. put \in [Put -> Write] /\ billed \in Nat
  BY BudgetTypes
<1>1. /\ UNCHANGED <<day, billed, row, local, flush, doubt>>
      /\ put' = [put EXCEPT ![p] = NoWrite]
      /\ lost' = (lost \/ (put[p].pc = "billed" /\ put[p].on = day))
  BY DEF Unanswered
<1>2. Landed(Put)' = Landed(Put) \ {p}
  BY <1>0, <1>1 DEF Landed, NoWrite
<1>3. CASE p \notin Landed(Put)
  <2>1. Landed(Put)' = Landed(Put)
    BY <1>2, <1>3
  <2> QED BY <1>1, <2>1, NoneMoves
<1>4. CASE p \in Landed(Put)
  <2>1. PICK c, r, b, t \in Nat : Cardinality(Landed(Put)) = c /\ Recorded(day) = r
                                  /\ billed = b /\ OnItsWay = t
    BY <1>0, LandedIsFinite, RecordedIsNat, OnItsWayIsNat DEF BudgetInv
  <2>2. PICK c1 \in Nat : Cardinality(Landed(Put)') = c1 /\ c1 + 1 = c
    <3>1. Cardinality(Landed(Put) \ {p}) = c - 1 /\ IsFiniteSet(Landed(Put) \ {p})
      BY <1>4, <2>1, LandedIsFinite, FS_RemoveElement
    <3>2. Cardinality(Landed(Put) \ {p}) \in Nat
      BY <3>1, FS_CardinalityType
    <3> QED BY <1>2, <2>1, <3>1, <3>2
  <2>3. OnItsWay' = t /\ Recorded(day)' = r /\ billed' = b
    <3>1. \A j \in Isolate : Unreported(j)' = Unreported(j)
      BY <1>1 DEF Unreported
    <3> QED BY <1>1, <2>1, <3>1, WayStays DEF Recorded
  <2>4. lost'
    BY <1>1, <1>4 DEF Landed
  <2>5. ASSUME NEW y \in Nat, Reading(y)'
        PROVE  \E x \in Nat : Reading(x) /\ y + t + c1 + b <= x + t + c + b
    <3>1. \A j \in Isolate : \A x \in Nat :
            ReadingOf(local'[j], flush'[j], day, x) => Reading(x)
      BY <1>1, OwnReading
    <3>2. Reading(y)
      BY <1>1, <2>5, <3>1, ReadingStays
    <3>3. y + t + c1 + b <= y + t + c + b
      BY <2>2
    <3> QED BY <3>2, <3>3
  <2>6. doubt' \/ ~doubt
    BY <1>1
  <2> QED BY <2>1, <2>2, <2>3, <2>4, <2>5, <2>6, CountMoves
<1> QED BY <1>3, <1>4

\* An isolate goes with what it has not reported.
LEMMA EvictCounts ==
  ASSUME BudgetInv, BudgetInv', TimesInv, CountInv, NEW i \in Isolate, Evict(i)
  PROVE  CountInv'
<1>0. /\ local \in [Isolate -> Local] /\ flush \in [Isolate -> Flush] /\ put \in [Put -> Write]
      /\ billed \in Nat
  BY BudgetTypes
<1>1. /\ local'[i] = NoLocal(day) /\ flush'[i] = NoFlush
      /\ \A j \in Isolate : j # i => local'[j] = local[j] /\ flush'[j] = flush[j]
      /\ put' = [p \in Put |-> IF p \in Own(i) THEN NoWrite ELSE put[p]]
      /\ lost' = (lost \/ Unreported(i) > 0 \/ Landed(Own(i)) # {})
      /\ UNCHANGED <<day, billed, row, doubt>>
  BY <1>0 DEF Evict
<1>2. \A j \in Isolate : j # i => Unreported(j)' = Unreported(j)
  BY <1>1 DEF Unreported
<1>3. PICK u, v, t, t1 \in Nat :
        /\ Unreported(i) = u /\ Unreported(i)' = v
        /\ OnItsWay = t /\ OnItsWay' = t1 /\ t1 + u = t + v
  BY <1>2, WayMoves
<1>4. v = 0
  <2>1. Unreported(i)' = Waiting(NoLocal(day), NoFlush, day)
    BY <1>1 DEF Unreported, Waiting
  <2> QED BY <1>3, <2>1 DEF Waiting, NoLocal, NoFlush
<1>5. Landed(Put)' = Landed(Put) \ Own(i) /\ Landed(Own(i)) = Landed(Put) \cap Own(i)
  BY <1>0, <1>1 DEF Landed, NoWrite, Own
<1>6. PICK c, c1, r, b \in Nat :
        /\ Cardinality(Landed(Put)) = c /\ Cardinality(Landed(Put)') = c1 /\ c1 <= c
        /\ Recorded(day) = r /\ billed = b
  <2>1. IsFiniteSet(Landed(Put) \ Own(i))
        /\ Cardinality(Landed(Put) \ Own(i)) <= Cardinality(Landed(Put))
    <3>1. Landed(Put) \ Own(i) \in SUBSET Landed(Put)
      OBVIOUS
    <3> QED BY <3>1, LandedIsFinite, FS_Subset
  <2>2. Cardinality(Landed(Put) \ Own(i)) \in Nat
    BY <2>1, FS_CardinalityType
  <2>3. Cardinality(Landed(Put)') = Cardinality(Landed(Put) \ Own(i))
    BY <1>5
  <2> QED BY <1>0, <2>1, <2>2, <2>3, LandedIsFinite, RecordedIsNat DEF BudgetInv
<1>7. Recorded(day)' = r /\ billed' = b
  BY <1>1, <1>6 DEF Recorded
<1>8. ASSUME NEW y \in Nat, Reading(y)'
      PROVE  \E x \in Nat : Reading(x) /\ y + t1 + c1 + b <= x + t + c + b
  <2>1. ASSUME NEW j \in Isolate, NEW x \in Nat, ReadingOf(local'[j], flush'[j], day, x)
        PROVE  Reading(x)
    <3>1. CASE j # i
      BY <1>1, <2>1, <3>1, OwnReading
    <3>2. CASE j = i
      BY <1>1, <2>1, <3>2 DEF ReadingOf, NoLocal, NoFlush, Reading
    <3> QED BY <3>1, <3>2
  <2>2. Reading(y)
    BY <1>1, <1>8, <2>1, ReadingStays
  <2>3. y + t1 + c1 + b <= y + t + c + b
    BY <1>3, <1>4, <1>6
  <2> QED BY <2>2, <2>3
<1>9. lost' \/ (~lost /\ r + t + c + b <= r + t1 + c1 + b)
  <2>1. CASE ~lost'
    <3>1. u = 0
      <4>1. ~ (Unreported(i) > 0)
        BY <1>1, <2>1
      <4>2. ~ (u > 0)
        BY <1>3, <4>1
      <4> QED BY <4>2
    <3>2. Landed(Put)' = Landed(Put)
      BY <1>1, <1>5, <2>1
    <3>3. c1 = c
      BY <1>6, <3>2
    <3>4. t1 = t
      BY <1>3, <1>4, <3>1
    <3>5. r + t + c + b <= r + t1 + c1 + b
      BY <3>3, <3>4
    <3> QED BY <1>1, <2>1, <3>5
  <2> QED BY <2>1
<1>10. doubt' \/ ~doubt
  BY <1>1
<1> QED BY <1>3, <1>6, <1>7, <1>8, <1>9, <1>10, CountMoves

\* A new day: nothing billed, nothing on its way, nothing in the ledger.
LEMMA MidnightCounts ==
  ASSUME BudgetInv, BudgetInv', TimesInv, CountInv, Midnight
  PROVE  CountInv'
<1>0. /\ day \in Nat /\ row.day \in Nat
      /\ \A i \in Isolate : local[i].day \in Nat /\ flush[i].day \in Nat
      /\ \A p \in Put : put[p].on \in Nat
  BY BudgetTypes
<1>1. /\ day' = day + 1 /\ billed' = 0 /\ row' = row /\ put' = put /\ flush' = flush
      /\ \A i \in Isolate : local'[i] = local[i] \/ (flush[i].pc = "none"
                                                     /\ local'[i] = NoLocal(day + 1))
  BY DEF Midnight
<1>2. /\ row.day # day + 1 /\ \A p \in Put : put[p].on # day + 1
      /\ \A i \in Isolate : local[i].day # day + 1
                            /\ (flush[i].pc # "none" => flush[i].day # day + 1)
  <2>1. row.day <= day /\ \A p \in Put : put[p].on <= day
    BY DEF TimesInv
  <2>2. \A i \in Isolate : local[i].day <= day
                           /\ (flush[i].pc # "none" => flush[i].day <= local[i].day)
    BY DEF TimesInv, FlushTimes
  <2> QED BY <1>0, <2>1, <2>2
<1>3. Recorded(day)' = 0 /\ Landed(Put)' = {}
  BY <1>1, <1>2 DEF Recorded, Landed
<1>4. ASSUME NEW i \in Isolate  PROVE Unreported(i)' = 0
  <2>1. Unreported(i)' = Waiting(local'[i], flush[i], day + 1)
    BY <1>1 DEF Unreported, Waiting
  <2>2. CASE local'[i] = local[i]
    BY <1>2, <2>1, <2>2 DEF Waiting
  <2>3. CASE flush[i].pc = "none" /\ local'[i] = NoLocal(day + 1)
    BY <2>1, <2>3 DEF Waiting, NoLocal
  <2> QED BY <1>1, <2>2, <2>3
<1>5. OnItsWay' = 0
  <2> DEFINE g == [i \in Isolate |-> Unreported(i)']
  <2>1. OnItsWay' = Total(g)
    BY NextWayIsSum
  <2>2. g \in [Isolate -> Nat] /\ \A i \in Isolate : g[i] = 0
    BY <1>4
  <2> HIDE DEF g
  <2> QED BY <2>1, <2>2, TotalOfNothing
<1>6. ASSUME NEW y \in Nat, Reading(y)'  PROVE y = 0
  <2>1. y = 0 \/ y = Recorded(day)'
        \/ \E i \in Isolate : ReadingOf(local'[i], flush[i], day + 1, y)
    BY <1>1, <1>6 DEF Reading
  <2>2. ASSUME NEW i \in Isolate, ReadingOf(local'[i], flush[i], day + 1, y)  PROVE y = 0
    <3>1. CASE local'[i] = local[i]
      BY <1>2, <2>2, <3>1 DEF ReadingOf
    <3>2. CASE flush[i].pc = "none" /\ local'[i] = NoLocal(day + 1)
      BY <2>2, <3>2 DEF ReadingOf, NoLocal
    <3> QED BY <1>1, <3>1, <3>2
  <2> QED BY <1>3, <2>1, <2>2
<1>7. Cardinality(Landed(Put)') = 0
  BY <1>3, FS_EmptySet
<1>8. Cardinality(Landed(Put))' = 0
  BY <1>7
<1>9. ASSUME NEW y \in Nat, Reading(y)'
      PROVE  (y + OnItsWay + Cardinality(Landed(Put)) <= billed)'
  <2>1. y = 0
    BY <1>6, <1>9
  <2>2. 0 + 0 + 0 <= 0
    OBVIOUS
  <2> QED BY <1>1, <1>5, <1>8, <2>1, <2>2
<1>10. (Recorded(day) + OnItsWay + Cardinality(Landed(Put)) >= billed)'
  <2>1. 0 + 0 + 0 >= 0
    OBVIOUS
  <2> QED BY <1>1, <1>3, <1>5, <1>8, <2>1
<1> QED BY <1>9, <1>10 DEF CountInv

LEMMA CountStep ==
  ASSUME BudgetInv, BudgetInv', TimesInv, CountInv, [Next]_vars
  PROVE  CountInv'
<1>0. put \in [Put -> Write]
  BY BudgetTypes
<1>u. CASE UNCHANGED vars
  <2>1. /\ UNCHANGED <<day, billed, row, local, flush, put, doubt, lost>>
    BY <1>u DEF vars
  <2>2. Landed(Put)' = Landed(Put)
    BY <2>1, LandedStays
  <2> QED BY <2>1, <2>2, NoneMoves
<1>1. ASSUME NEW i \in Isolate, NoteRead(i)  PROVE CountInv'
  BY <1>1, NoteReadCounts
<1>2. ASSUME NEW i \in Isolate, NEW ok \in BOOLEAN, FlushRead(i, ok)  PROVE CountInv'
  BY <1>2, FlushReadCounts
<1>3. ASSUME NEW i \in Isolate, FlushWrite(i)  PROVE CountInv'
  BY <1>3, FlushWriteCounts
<1>4. ASSUME NEW i \in Isolate, FlushRefused(i)  PROVE CountInv'
  BY <1>4, FlushRefusedCounts
<1>5. ASSUME NEW i \in Isolate, FlushReply(i)  PROVE CountInv'
  BY <1>5, FlushReplyCounts
<1>6. ASSUME NEW i \in Isolate, FlushReplyLost(i)  PROVE CountInv'
  BY <1>6, FlushReplyLostCounts
<1>7. ASSUME NEW i \in Isolate, Evict(i)  PROVE CountInv'
  BY <1>7, EvictCounts
<1>8. ASSUME NEW p \in Put, NEW i \in Isolate, NEW critical \in BOOLEAN,
             NEW estimate \in {1, 2}, Reserve(p, i, critical, estimate)
      PROVE  CountInv'
  BY <1>8, ReserveCounts
<1>9. ASSUME NEW p \in Put, NEW i \in Isolate, Prune(p, i)  PROVE CountInv'
  BY <1>9, PutCounts
<1>10. ASSUME NEW p \in Put, Decide(p)  PROVE CountInv'
  BY <1>10, DecideCounts
<1>11. ASSUME NEW p \in Put, Land(p)  PROVE CountInv'
  <2>1. CASE Spent
    BY <1>11, <2>1, PutCounts
  <2>2. CASE ~Spent
    BY <1>11, <2>2, LandCounts
  <2> QED BY <2>1, <2>2
<1>12. ASSUME NEW p \in Put, LandStale(p)  PROVE CountInv'
  BY <1>12, PutCounts
<1>13. ASSUME NEW p \in Put, Record(p)  PROVE CountInv'
  <2>1. PICK i \in Isolate : put[p].by = i
    BY <1>13 DEF BudgetInv, Owned, Record
  <2> QED BY <1>13, <2>1, RecordCounts
<1>14. ASSUME NEW p \in Put, noteD1WriteBlocked(p)  PROVE CountInv'
  BY <1>14, PutCounts
<1>15. ASSUME NEW p \in Put, Unanswered(p)  PROVE CountInv'
  BY <1>15, UnansweredCounts
<1>16. ASSUME Midnight  PROVE CountInv'
  BY <1>16, MidnightCounts
<1> QED
  BY <1>u, <1>1, <1>2, <1>3, <1>4, <1>5, <1>6, <1>7, <1>8, <1>9, <1>10, <1>11, <1>12,
     <1>13, <1>14, <1>15, <1>16 DEF Next

LEMMA CountAtFirst ==
  ASSUME Init, BudgetInv
  PROVE  CountInv
<1>1. ASSUME NEW i \in Isolate  PROVE Unreported(i) = 0
  BY DEF Init, NoLocal, NoFlush, Unreported
<1>2. OnItsWay = 0
  <2> DEFINE f == [i \in Isolate |-> Unreported(i)]
  <2>1. OnItsWay = Total(f)
    BY WayIsSum DEF WayIsTheirSum
  <2>2. f \in [Isolate -> Nat] /\ \A i \in Isolate : f[i] = 0
    BY <1>1
  <2> HIDE DEF f
  <2> QED BY <2>1, <2>2, TotalOfNothing
<1>3. Cardinality(Landed(Put)) = 0
  <2>1. Landed(Put) = {}
    BY DEF Init, Landed, NoWrite
  <2> QED BY <2>1, FS_EmptySet
<1>4. Recorded(day) = 0 /\ billed = 0
  BY DEF Init, Recorded
<1>5. ASSUME NEW x \in Nat, Reading(x)  PROVE x = 0
  BY <1>4, <1>5 DEF Reading, ReadingOf, Init, NoLocal, NoFlush
<1>6. ASSUME NEW x \in Nat, Reading(x)
      PROVE  x + OnItsWay + Cardinality(Landed(Put)) <= billed
  <2>1. 0 + 0 + 0 <= 0
    OBVIOUS
  <2> QED BY <1>2, <1>3, <1>4, <1>5, <1>6, <2>1
<1>7. Recorded(day) + OnItsWay + Cardinality(Landed(Put)) >= billed
  <2>1. 0 + 0 + 0 >= 0
    OBVIOUS
  <2> QED BY <1>2, <1>3, <1>4, <2>1
<1> QED BY <1>6, <1>7 DEF CountInv

\* The ledger's row, what the isolates have on its way to it, and what D1 has answered
\* but no isolate has counted, together say what D1 billed today.
THEOREM CountInvariant == Spec => [](BudgetInv /\ TimesInv /\ CountInv)
<1>1. Init => BudgetInv /\ TimesInv
  BY BudgetAtFirst, TimesAtFirst
<1>2. Init /\ BudgetInv => CountInv
  BY CountAtFirst
<1>3. BudgetInv /\ [Next]_vars => BudgetInv'
  BY BudgetStep
<1>4. BudgetInv /\ TimesInv /\ [Next]_vars => TimesInv'
  BY TimesStep
<1>5. BudgetInv /\ BudgetInv' /\ TimesInv /\ CountInv /\ [Next]_vars => CountInv'
  BY CountStep
<1> QED BY <1>1, <1>2, <1>3, <1>4, <1>5, PTL DEF Spec

\* The variables of the account's budget keep their types: no counter goes below zero,
\* and D1 bills no more rows a day than its limit.
THEOREM BudgetTypeCorrect == Spec => []TypeOK
<1>1. BudgetInv => TypeOK
  BY DEF BudgetInv
<1> QED BY <1>1, CountInvariant, PTL

\* The guard does not stop work D1 would take: unless something was counted that D1 did
\* not bill today, the row and what is on its way to it never exceed what D1 billed.
THEOREM NeverCountedTwiceHolds == Spec => []NeverCountedTwice
<1>1. ASSUME BudgetInv, CountInv, ~doubt  PROVE Recorded(day) + OnItsWay <= billed
  <2>1. PICK r, t, c, b \in Nat : /\ Recorded(day) = r /\ OnItsWay = t /\ billed = b
                                  /\ Cardinality(Landed(Put)) = c
    BY <1>1, RecordedIsNat, OnItsWayIsNat, LandedIsFinite, BudgetTypes DEF BudgetInv
  <2>2. Reading(r)
    BY <2>1 DEF Reading
  <2>3. r + t + c <= b
    BY <1>1, <2>1, <2>2 DEF CountInv
  <2>4. r + t <= b
    BY <2>3
  <2> QED BY <2>1, <2>4
<1>2. BudgetInv /\ CountInv => NeverCountedTwice
  BY <1>1 DEF NeverCountedTwice
<1> QED BY <1>2, CountInvariant, PTL

\* The guard does not open too far: unless an update of the ledger was lost, every row D1
\* billed today is in it, in an isolate that will flush it, or in an answer on its way.
THEOREM NothingSlipsPastHolds == Spec => []NothingSlipsPast
<1>1. CountInv => NothingSlipsPast
  BY DEF CountInv, NothingSlipsPast
<1> QED BY <1>1, CountInvariant, PTL
=============================================================================
