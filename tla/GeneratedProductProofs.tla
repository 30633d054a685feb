----------------------- MODULE GeneratedProductProofs -----------------------
(***************************************************************************)
(* Proofs about the product that is generated, in use and accepted.        *)
(*                                                                         *)
(* GeneratedApp, for any clients, requests at once, saves, sessions and    *)
(* shapes.  A page with live updates shows what is stored: what it has     *)
(* wrong of a record is made good by a request that has changed it and not *)
(* told of it yet, or by a message of its wire.  That is said of its list, *)
(* of the answer to load() it waits for, and of each record on its wire as *)
(* of the messages behind it (PageFine).  It is kept since no id comes     *)
(* back, and since a record that is pushed is the stored one or everyone   *)
(* has missed a change.                                                    *)
(*                                                                         *)
(* RuntimeAcceptance, for any projects, callers, versions and failures: a  *)
(* delivery is of a run that its own code, URL and artifact passed.        *)
(***************************************************************************)
EXTENDS GeneratedApp, RuntimeAcceptance, WellFoundedInduction, TLAPS

-----------------------------------------------------------------------------
\* GeneratedApp: its types and its invariant.

Record == [id : Nat, val : Nat]
Served == [pc : {"free", "sent", "write", "read", "cast", "answer"}, by : Client \cup {NoOne},
           op : Op, item : Record, token : Nat, got : Seq(Record),
           status : {"ok", "unauthorized", "refused", "error"}, heard : BOOLEAN]
Pushed == [type : {"created", "updated", "deleted"}, item : Record]
Paged == [open : BOOLEAN, list : Seq(Record), token : Nat, editing : Nat]

\* A request is some client's, and only those for a record go past their write.
Begun(q) ==
  /\ q.pc # "free" => q.by \in Client
  /\ q.pc \in {"read", "cast"} => q.op \in {"create", "update", "delete"}

AppTyped ==
  /\ shape \in Shapes
  /\ account \in Client \cup {NoOne}
  /\ rows \in Seq(Record) /\ lastId \in Nat
  /\ req \in [Request -> Served]
  /\ live \subseteq Client
  /\ wire \in [Client -> Seq(Pushed)]
  /\ page \in [Client -> Paged]
  /\ saves \in Nat
  /\ behind \subseteq Client
  /\ \A r \in Request : Begun(req[r])

AccountInv ==
  /\ account = NoOne => admitted = {}
  /\ \A c \in admitted : account = c

Ids(s) == {y.id : y \in ToSet(s)}

\* A request that changed record x and has not told of it.
Coming(q, op, x) ==
  \E r \in Request : q[r].op = op /\ q[r].item.id = x /\ q[r].pc \in {"read", "cast"}

\* A message of the wire, after the k-th, that tells of it.
Later(w, k, type, x) == \E j \in DOMAIN w : j > k /\ w[j].type = type /\ w[j].item.id = x

\* What a page has wrong of record x is made good.
Mended(s, q, w, k, x) ==
  IF x \in Ids(s) THEN Coming(q, "update", x) \/ Later(w, k, "updated", x)
  ELSE Coming(q, "delete", x) \/ Later(w, k, "deleted", x)

Fine(s, q, w, n, k, item) ==
  item.id \in 1..n /\ (item \in ToSet(s) \/ Mended(s, q, w, k, item.id))

AllFine(s, q, w, n, list) == \A y \in ToSet(list) : Fine(s, q, w, n, 0, y)
NoneMissing(s, q, w, list) ==
  \A x \in Ids(s) : x \in Ids(list) \/ Coming(q, "create", x) \/ Later(w, 0, "created", x)
Shows(s, q, w, n, list) == AllFine(s, q, w, n, list) /\ NoneMissing(s, q, w, list)

WireFine(s, q, w, n) ==
  \A k \in DOMAIN w :
    IF w[k].type = "deleted" THEN w[k].item.id \in 1..n /\ w[k].item.id \notin Ids(s)
    ELSE Fine(s, q, w, n, k, w[k].item)

Load(q, c, pcs) == q.op = "load" /\ q.by = c /\ q.heard /\ q.pc \in pcs

\* Its wire, the answer to load() it waits for, and, if it waits for none, its list.
PageFine(s, q, w, n, list, c) ==
  /\ WireFine(s, q, w, n)
  /\ \A r \in Request :
       Load(q[r], c, {"answer"}) /\ q[r].status = "ok" => Shows(s, q, w, n, q[r].got)
  /\ (\A r \in Request : ~Load(q[r], c, {"sent", "answer"})) => Shows(s, q, w, n, list)

Unique(s) == \A i, j \in DOMAIN s : s[i].id = s[j].id => i = j
Numbered(s, n) == (\A y \in ToSet(s) : y.id \in 1..n) /\ Unique(s)

Handled(q, s, n) ==
  /\ q.op = "create" /\ q.pc \in {"read", "cast"} => q.item.id \in 1..n
  /\ q.op \in {"update", "delete"} /\ q.pc \in {"write", "read", "cast", "answer"} /\ q.status = "ok" =>
       q.item.id \in 1..n
  /\ q.op \in {"create", "update"} /\ q.pc = "cast" =>
       IF q.got = <<>> THEN q.item.id \notin Ids(s) ELSE q.got[1].id = q.item.id
  /\ q.op = "delete" /\ q.pc \in {"cast", "answer"} /\ q.status = "ok" =>
       q.item.id \notin Ids(s)
  /\ q.pc \in {"sent", "write", "read", "cast"} => q.status = "ok"
  /\ q.op = "delete" => q.pc # "read"

StoreInv ==
  /\ Numbered(rows, lastId)
  /\ \A r \in Request : Handled(req[r], rows, lastId)
PagesInv ==
  \A c \in Client : c \notin behind => PageFine(rows, req, wire[c], lastId, page[c].list, c)
LiveInv == shape.realtime => StoreInv /\ PagesInv

\* The least-number principle, the form of induction the provers can use.
LEMMA LeastNumber ==
  ASSUME NEW T, T \subseteq Nat, T # {}
  PROVE  \E n \in T : \A m \in T : n <= m
<1> DEFINE R == {ss \in Nat \X Nat : ss[1] < ss[2]}
<1>1. IsWellFoundedOn(R, Nat)
  BY NatLessThanWellFounded DEF OpToRel
<1> HIDE DEF R
<1>2. PICK n \in T : \A m \in T : ~(<<m, n>> \in R)
  BY <1>1, WFMin
<1>3. ASSUME NEW m \in T
      PROVE  ~(m < n)
  <2>1. ~(<<m, n>> \in R)
    BY <1>2
  <2>2. QED
    BY <2>1 DEF R
<1>4. QED
  BY <1>3

Kept(s, id, n, f) ==
  f = [k \in 0..n |-> IF k = 0 THEN <<>>
                      ELSE IF s[k].id = id THEN f[k - 1] ELSE Append(f[k - 1], s[k])]

LEMMA KeptExists ==
  ASSUME NEW s \in Seq(Record), NEW id
  PROVE  \E f : Kept(s, id, Len(s), f)
<1> DEFINE Bad == {n \in Nat : ~\E f : Kept(s, id, n, f)}
<1>1. SUFFICES ASSUME ~\E f : Kept(s, id, Len(s), f)
               PROVE  FALSE
  OBVIOUS
<1>2. Len(s) \in Bad
  BY <1>1
<1>3. PICK n \in Bad : \A m \in Bad : n <= m
  <2>1. Bad \subseteq Nat
    OBVIOUS
  <2>2. QED
    BY <2>1, <1>2, LeastNumber
<1>4. CASE n = 0
  <2>1. Kept(s, id, 0, [k \in 0..0 |-> <<>>])
    BY DEF Kept
  <2>2. QED
    BY <1>3, <1>4, <2>1
<1>5. CASE n # 0
  <2>1. n - 1 \in Nat /\ n - 1 \notin Bad /\ n \in Nat
    BY <1>3, <1>5
  <2>2. PICK g : Kept(s, id, n - 1, g)
    BY <2>1
  <2> DEFINE h == [k \in 0..n |-> IF k = n THEN IF s[n].id = id THEN g[n - 1] ELSE Append(g[n - 1], s[n])
                                  ELSE g[k]]
  <2>3. ASSUME NEW k \in 0..n
        PROVE  h[k] = IF k = 0 THEN <<>> ELSE IF s[k].id = id THEN h[k - 1] ELSE Append(h[k - 1], s[k])
    <3>1. CASE k = n
      BY <3>1, <1>5, <2>1
    <3>2. CASE k # n
      <4>1. k \in 0..(n - 1) /\ h[k] = g[k]
        BY <3>2, <2>1
      <4>2. g[k] = IF k = 0 THEN <<>> ELSE IF s[k].id = id THEN g[k - 1] ELSE Append(g[k - 1], s[k])
        BY <2>2, <4>1, <2>1 DEF Kept
      <4>3. k # 0 => h[k - 1] = g[k - 1]
        BY <3>2, <2>1
      <4>4. QED
        BY <4>1, <4>2, <4>3
    <3>3. QED
      BY <3>1, <3>2
  <2>4. Kept(s, id, n, h)
    BY <2>3 DEF Kept
  <2>5. QED
    BY <2>4, <1>3
<1>6. QED
  BY <1>4, <1>5

LEMMA AppendedIs ==
  ASSUME NEW s \in Seq(Record), NEW item \in Record
  PROVE  /\ Append(s, item) \in Seq(Record)
         /\ ToSet(Append(s, item)) = ToSet(s) \cup {item}
<1> DEFINE t == Append(s, item)
           n == Len(s)
<1>1. n \in Nat /\ t \in Seq(Record) /\ Len(t) = n + 1 /\ t[n + 1] = item /\ \A k \in 1..n : t[k] = s[k]
  OBVIOUS
<1>2. DOMAIN s = 1..n /\ DOMAIN t = 1..(n + 1)
  BY <1>1
<1> HIDE DEF t, n
<1>3. 1..(n + 1) = (1..n) \cup {n + 1}
  BY <1>1
<1>4. ToSet(t) = ToSet(s) \cup {item}
  BY <1>1, <1>2, <1>3 DEF ToSet
<1>5. QED
  BY <1>1, <1>4 DEF t

LEMMA AppendUnique ==
  ASSUME NEW s \in Seq(Record), NEW item \in Record, Unique(s), item.id \notin Ids(s)
  PROVE  Unique(Append(s, item))
<1> DEFINE t == Append(s, item)
           n == Len(s)
<1>1. n \in Nat /\ Len(t) = n + 1 /\ t[n + 1] = item /\ \A k \in 1..n : t[k] = s[k]
  OBVIOUS
<1>2. DOMAIN s = 1..n /\ DOMAIN t = 1..(n + 1)
  OBVIOUS
<1> HIDE DEF t, n
<1>3. \A k \in 1..n : s[k].id # item.id
  BY <1>2 DEF Ids, ToSet
<1>4. 1..(n + 1) = (1..n) \cup {n + 1}
  BY <1>1
<1>5. \A i, j \in 1..n : s[i].id = s[j].id => i = j
  BY <1>2 DEF Unique
<1>6. ASSUME NEW i \in (1..n) \cup {n + 1}, NEW j \in (1..n) \cup {n + 1}, t[i].id = t[j].id
      PROVE  i = j
  BY <1>1, <1>3, <1>5, <1>6
<1>7. Unique(t)
  BY <1>2, <1>4, <1>6 DEF Unique
<1>8. QED
  BY <1>7 DEF t

LEMMA WithoutIs ==
  ASSUME NEW s \in Seq(Record), NEW id
  PROVE  /\ Without(s, id) \in Seq(Record)
         /\ ToSet(Without(s, id)) = {x \in ToSet(s) : x.id # id}
         /\ Unique(s) => Unique(Without(s, id))
<1> DEFINE kept == CHOOSE f : Kept(s, id, Len(s), f)
<1>1. Without(s, id) = kept[Len(s)]
  BY DEF Without, Kept
<1>2. Kept(s, id, Len(s), kept)
  BY KeptExists
<1> HIDE DEF kept
<1> DEFINE Right(k) == /\ kept[k] \in Seq(Record)
                       /\ ToSet(kept[k]) = {s[i] : i \in {j \in 1..k : s[j].id # id}}
                       /\ Unique(s) => Unique(kept[k])
           Bad == {k \in 0..Len(s) : ~Right(k)}
<1>3. Bad = {}
  <2>1. SUFFICES ASSUME Bad # {}
                 PROVE  FALSE
    OBVIOUS
  <2>2. PICK k \in Bad : \A m \in Bad : k <= m
    <3>1. Bad \subseteq Nat
      OBVIOUS
    <3> HIDE DEF Bad
    <3>2. QED
      BY <3>1, <2>1, LeastNumber
  <2>3. kept[k] = IF k = 0 THEN <<>> ELSE IF s[k].id = id THEN kept[k - 1] ELSE Append(kept[k - 1], s[k])
    BY <1>2, <2>2 DEF Kept
  <2>4. CASE k = 0
    <3>1. kept[0] = <<>> /\ {j \in 1..0 : s[j].id # id} = {}
      BY <2>3, <2>4
    <3>2. ToSet(<<>>) = {} /\ Unique(<<>>)
      BY DEF ToSet, Unique
    <3>3. Right(0)
      BY <3>1, <3>2
    <3>4. QED
      BY <2>2, <2>4, <3>3
  <2>5. CASE k # 0
    <3>1. k - 1 \in 0..Len(s) /\ k \in 1..Len(s) /\ Right(k - 1)
      <4>1. k \in 0..Len(s) /\ Len(s) \in Nat
        BY <2>2
      <4>2. k - 1 \in 0..Len(s) /\ k \in 1..Len(s) /\ ~(k <= k - 1)
        BY <4>1, <2>5
      <4>3. k - 1 \notin Bad
        <5> HIDE DEF Bad
        <5> QED BY <4>2, <2>2
      <4>4. QED
        BY <4>2, <4>3
    <3>2. s[k] \in Record
      BY <3>1
    <3>3. CASE s[k].id = id
      <4>1. {j \in 1..k : s[j].id # id} = {j \in 1..(k - 1) : s[j].id # id}
        BY <3>1, <3>3
      <4>2. Right(k)
        BY <2>3, <2>5, <3>1, <3>3, <4>1
      <4>3. QED
        BY <4>2, <2>2
    <3>4. CASE s[k].id # id
      <4> DEFINE t == kept[k - 1]
      <4>1. t \in Seq(Record) /\ kept[k] = Append(t, s[k])
        BY <2>3, <2>5, <3>1, <3>4
      <4>2. {j \in 1..k : s[j].id # id} = {j \in 1..(k - 1) : s[j].id # id} \cup {k}
        BY <3>1, <3>4
      <4>3. ToSet(t) = {s[i] : i \in {j \in 1..(k - 1) : s[j].id # id}}
        BY <3>1
      <4> HIDE DEF t
      <4>4. ToSet(Append(t, s[k])) = ToSet(t) \cup {s[k]}
        BY <4>1, <3>2, AppendedIs
      <4>a. ASSUME Unique(s)
            PROVE  Unique(Append(t, s[k]))
        <5>1. \A i \in 1..(k - 1) : s[i].id # s[k].id
          <6>1. \A i \in 1..(k - 1) : i \in DOMAIN s /\ k \in DOMAIN s /\ i # k
            BY <3>1
          <6>2. QED
            BY <4>a, <6>1 DEF Unique
        <5>2. s[k].id \notin Ids(t)
          BY <4>3, <5>1 DEF Ids
        <5>3. Unique(t)
          BY <3>1, <4>a DEF t
        <5>4. QED
          BY <4>1, <3>2, <5>2, <5>3, AppendUnique
      <4>5. Right(k)
        BY <4>1, <4>2, <4>3, <4>4, <4>a, <3>2
      <4>6. QED
        BY <4>5, <2>2
    <3>5. QED
      BY <3>3, <3>4
  <2>6. QED
    BY <2>4, <2>5
<1>4. Right(Len(s))
  <2>1. Len(s) \in 0..Len(s)
    OBVIOUS
  <2>2. QED
    BY <2>1, <1>3
<1>5. {s[i] : i \in {j \in 1..Len(s) : s[j].id # id}} = {x \in ToSet(s) : x.id # id}
  BY DEF ToSet
<1>6. QED
  BY <1>1, <1>4, <1>5

-----------------------------------------------------------------------------
\* A change of the table, seen by the pages: whoever has the old row wrong by it is told.

LEMMA IdsAreNat ==
  ASSUME NEW s \in Seq(Record), NEW x \in Ids(s)
  PROVE  x \in Nat
<1>1. PICK k \in DOMAIN s : x = s[k].id
  BY DEF Ids, ToSet
<1>2. s[k] \in Record
  OBVIOUS
<1>3. QED
  BY <1>1, <1>2 DEF Record

\* A step that may change rows, after which every change is on its way.
RowStep(s, q, n, s2, q2, n2) ==
  /\ n <= n2
  /\ \A op \in {"create", "update", "delete"}, x \in Nat : Coming(q, op, x) => Coming(q2, op, x)
  /\ \A x \in Ids(s2) : x \in Ids(s) \/ (x \notin 1..n /\ Coming(q2, "create", x))
  /\ \A x \in Ids(s) : x \in Ids(s2) \/ Coming(q2, "delete", x)
  /\ \A y \in ToSet(s) : y \in ToSet(s2) \/ y.id \notin Ids(s2) \/ Coming(q2, "update", y.id)

LEMMA RowStepFine ==
  ASSUME NEW s \in Seq(Record), NEW q, NEW n \in Nat, NEW s2 \in Seq(Record), NEW q2, NEW n2 \in Nat,
         NEW w \in Seq(Pushed), NEW k \in Nat, NEW y \in Record,
         RowStep(s, q, n, s2, q2, n2), Fine(s, q, w, n, k, y)
  PROVE  Fine(s2, q2, w, n2, k, y)
<1> DEFINE x == y.id
<1>1. x \in Nat /\ x \in 1..n /\ x \in 1..n2
  BY DEF Fine, RowStep, Record
<1>2. CASE y \in ToSet(s)
  <2>1. x \in Ids(s)
    BY <1>2 DEF Ids, ToSet
  <2>2. CASE y \in ToSet(s2)
    BY <2>2, <1>1 DEF Fine
  <2>3. CASE y \notin ToSet(s2)
    <3>1. x \notin Ids(s2) \/ Coming(q2, "update", x)
      BY <1>2, <2>3 DEF RowStep
    <3>2. x \in Ids(s2) \/ Coming(q2, "delete", x)
      BY <2>1 DEF RowStep
    <3>3. QED
      BY <3>1, <3>2, <1>1 DEF Fine, Mended
  <2>4. QED
    BY <2>2, <2>3
<1>3. CASE Mended(s, q, w, k, x)
  <2>1. CASE x \in Ids(s)
    <3>1. Coming(q, "update", x) \/ Later(w, k, "updated", x)
      BY <1>3, <2>1 DEF Mended
    <3>2. Coming(q2, "update", x) \/ Later(w, k, "updated", x)
      BY <3>1, <1>1 DEF RowStep
    <3>3. x \in Ids(s2) \/ Coming(q2, "delete", x)
      BY <2>1 DEF RowStep
    <3>4. QED
      BY <3>2, <3>3, <1>1 DEF Fine, Mended
  <2>2. CASE x \notin Ids(s)
    <3>1. Coming(q, "delete", x) \/ Later(w, k, "deleted", x)
      BY <1>3, <2>2 DEF Mended
    <3>2. Coming(q2, "delete", x) \/ Later(w, k, "deleted", x)
      BY <3>1, <1>1 DEF RowStep
    <3>3. x \notin Ids(s2)
      BY <2>2, <1>1 DEF RowStep
    <3>4. QED
      BY <3>2, <3>3, <1>1 DEF Fine, Mended
  <2>3. QED
    BY <2>1, <2>2
<1>4. QED
  BY <1>2, <1>3 DEF Fine

LEMMA RowStepShows ==
  ASSUME NEW s \in Seq(Record), NEW q, NEW n \in Nat, NEW s2 \in Seq(Record), NEW q2, NEW n2 \in Nat,
         NEW w \in Seq(Pushed), NEW list \in Seq(Record),
         RowStep(s, q, n, s2, q2, n2), Shows(s, q, w, n, list)
  PROVE  Shows(s2, q2, w, n2, list)
<1>1. AllFine(s2, q2, w, n2, list)
  <2>1. SUFFICES ASSUME NEW y \in ToSet(list)
                 PROVE  Fine(s2, q2, w, n2, 0, y)
    BY DEF AllFine
  <2>2. y \in Record /\ Fine(s, q, w, n, 0, y)
    BY DEF Shows, AllFine, ToSet
  <2>3. QED
    BY <2>2, RowStepFine
<1>2. NoneMissing(s2, q2, w, list)
  <2>1. SUFFICES ASSUME NEW x \in Ids(s2)
                 PROVE  x \in Ids(list) \/ Coming(q2, "create", x) \/ Later(w, 0, "created", x)
    BY DEF NoneMissing
  <2>2. x \in Nat
    BY IdsAreNat
  <2>3. x \in Ids(s) \/ Coming(q2, "create", x)
    BY DEF RowStep
  <2>4. x \in Ids(s) => x \in Ids(list) \/ Coming(q, "create", x) \/ Later(w, 0, "created", x)
    BY DEF Shows, NoneMissing
  <2>5. Coming(q, "create", x) => Coming(q2, "create", x)
    BY <2>2 DEF RowStep
  <2>6. QED
    BY <2>3, <2>4, <2>5
<1>3. QED
  BY <1>1, <1>2 DEF Shows

LEMMA RowStepWire ==
  ASSUME NEW s \in Seq(Record), NEW q, NEW n \in Nat, NEW s2 \in Seq(Record), NEW q2, NEW n2 \in Nat,
         NEW w \in Seq(Pushed), RowStep(s, q, n, s2, q2, n2), WireFine(s, q, w, n)
  PROVE  WireFine(s2, q2, w, n2)
<1>1. SUFFICES ASSUME NEW k \in DOMAIN w
               PROVE  IF w[k].type = "deleted" THEN w[k].item.id \in 1..n2 /\ w[k].item.id \notin Ids(s2)
                      ELSE Fine(s2, q2, w, n2, k, w[k].item)
  BY DEF WireFine
<1>2. k \in Nat /\ w[k].item \in Record
  <2>1. w[k] \in Pushed /\ k \in Nat
    OBVIOUS
  <2>2. QED
    BY <2>1 DEF Pushed
<1>3. CASE w[k].type = "deleted"
  <2>1. w[k].item.id \in 1..n /\ w[k].item.id \notin Ids(s)
    BY <1>3 DEF WireFine
  <2>2. QED
    BY <1>3, <2>1 DEF RowStep
<1>4. CASE w[k].type # "deleted"
  <2>1. Fine(s, q, w, n, k, w[k].item)
    BY <1>4 DEF WireFine
  <2>2. QED
    BY <1>2, <1>4, <2>1, RowStepFine
<1>5. QED
  BY <1>3, <1>4

\* The loads of a page are where they were.
SameLoads(q, q2, c) ==
  \A r \in Request :
    /\ \A pc \in {"sent", "answer"} : Load(q2[r], c, {pc}) <=> Load(q[r], c, {pc})
    /\ Load(q2[r], c, {"answer"}) => q2[r].status = q[r].status /\ q2[r].got = q[r].got

LEMMA RowStepPage ==
  ASSUME NEW s \in Seq(Record), NEW q \in [Request -> Served], NEW n \in Nat,
         NEW s2 \in Seq(Record), NEW q2 \in [Request -> Served], NEW n2 \in Nat,
         NEW w \in Seq(Pushed), NEW list \in Seq(Record), NEW c,
         RowStep(s, q, n, s2, q2, n2), SameLoads(q, q2, c), PageFine(s, q, w, n, list, c)
  PROVE  PageFine(s2, q2, w, n2, list, c)
<1>1. WireFine(s2, q2, w, n2)
  BY RowStepWire DEF PageFine
<1>2. ASSUME NEW r \in Request, Load(q2[r], c, {"answer"}), q2[r].status = "ok"
      PROVE  Shows(s2, q2, w, n2, q2[r].got)
  <2>1. Load(q[r], c, {"answer"}) /\ q[r].status = "ok" /\ q2[r].got = q[r].got
    BY <1>2 DEF SameLoads
  <2>2. Shows(s, q, w, n, q[r].got) /\ q[r].got \in Seq(Record)
    BY <2>1 DEF PageFine, Served
  <2>3. QED
    BY <2>1, <2>2, RowStepShows
<1>3. ASSUME \A r \in Request : ~Load(q2[r], c, {"sent", "answer"})
      PROVE  Shows(s2, q2, w, n2, list)
  <2>1. \A r \in Request : ~Load(q[r], c, {"sent", "answer"})
    BY <1>3 DEF SameLoads, Load
  <2>2. Shows(s, q, w, n, list)
    BY <2>1 DEF PageFine
  <2>3. QED
    BY <2>2, RowStepShows
<1>4. QED
  BY <1>1, <1>2, <1>3 DEF PageFine

-----------------------------------------------------------------------------
\* A change that is pushed.

\* A record that was saved is told of to every socket of live pages.
CastStep(s, q, q2, w, w2) ==
  /\ Len(w) <= Len(w2) /\ \A j \in DOMAIN w : w2[j] = w[j]
  /\ \A op \in {"create", "update", "delete"}, x \in Nat :
       Coming(q, op, x) =>
         \/ Coming(q2, op, x)
         \/ op # "delete" /\ x \notin Ids(s)
         \/ \E j \in DOMAIN w2 : j > Len(w) /\ w2[j].type = Kind[op] /\ w2[j].item.id = x
  /\ \A j \in DOMAIN w2 : j > Len(w) =>
       IF w2[j].type = "deleted" THEN \E r \in Request : w2[j].item.id = q[r].item.id /\ q[r].op = "delete" /\ q[r].pc = "cast"
       ELSE w2[j].item \in ToSet(s)

LEMMA CastStepFine ==
  ASSUME NEW s \in Seq(Record), NEW q, NEW q2, NEW n \in Nat, NEW w \in Seq(Pushed), NEW w2 \in Seq(Pushed),
         NEW k \in 0..Len(w), NEW y \in Record,
         CastStep(s, q, q2, w, w2), Fine(s, q, w, n, k, y)
  PROVE  Fine(s, q2, w2, n, k, y)
<1> DEFINE x == y.id
<1>1. x \in Nat /\ x \in 1..n
  BY DEF Fine, Record
<1>2. ASSUME NEW type, Later(w, k, type, x)
      PROVE  Later(w2, k, type, x)
  BY <1>2 DEF Later, CastStep
<1>3. ASSUME NEW op \in {"create", "update", "delete"}, Coming(q, op, x)
      PROVE  Coming(q2, op, x) \/ Later(w2, k, Kind[op], x) \/ (op # "delete" /\ x \notin Ids(s))
  <2>1. \/ Coming(q2, op, x)
        \/ op # "delete" /\ x \notin Ids(s)
        \/ \E j \in DOMAIN w2 : j > Len(w) /\ w2[j].type = Kind[op] /\ w2[j].item.id = x
    BY <1>1, <1>3, Zenon DEF CastStep
  <2>2. ASSUME NEW j \in DOMAIN w2, j > Len(w), w2[j].type = Kind[op], w2[j].item.id = x
        PROVE  Later(w2, k, Kind[op], x)
    <3>1. j > k
      BY <2>2
    <3>2. QED
      BY <2>2, <3>1 DEF Later
  <2>3. QED
    BY <2>1, <2>2
<1>4. CASE y \in ToSet(s)
  BY <1>1, <1>4 DEF Fine
<1>5. CASE Mended(s, q, w, k, x)
  <2>1. Kind["update"] = "updated" /\ Kind["delete"] = "deleted"
    BY DEF Kind
  <2>2. CASE x \in Ids(s)
    <3>1. Coming(q, "update", x) \/ Later(w, k, "updated", x)
      BY <1>5, <2>2 DEF Mended
    <3>2. Coming(q2, "update", x) \/ Later(w2, k, "updated", x)
      BY <3>1, <2>1, <2>2, <1>2, <1>3
    <3>3. QED
      BY <3>2, <2>2, <1>1 DEF Fine, Mended
  <2>3. CASE x \notin Ids(s)
    <3>1. Coming(q, "delete", x) \/ Later(w, k, "deleted", x)
      BY <1>5, <2>3 DEF Mended
    <3>2. Coming(q2, "delete", x) \/ Later(w2, k, "deleted", x)
      BY <3>1, <2>1, <1>2, <1>3
    <3>3. QED
      BY <3>2, <2>3, <1>1 DEF Fine, Mended
  <2>4. QED
    BY <2>2, <2>3
<1>6. QED
  BY <1>4, <1>5 DEF Fine

LEMMA CastStepShows ==
  ASSUME NEW s \in Seq(Record), NEW q, NEW q2, NEW n \in Nat, NEW w \in Seq(Pushed), NEW w2 \in Seq(Pushed),
         NEW list \in Seq(Record),
         CastStep(s, q, q2, w, w2), Shows(s, q, w, n, list)
  PROVE  Shows(s, q2, w2, n, list)
<1>1. AllFine(s, q2, w2, n, list)
  <2>1. SUFFICES ASSUME NEW y \in ToSet(list)
                 PROVE  Fine(s, q2, w2, n, 0, y)
    BY DEF AllFine
  <2>2. y \in Record /\ Fine(s, q, w, n, 0, y) /\ 0 \in 0..Len(w)
    BY DEF Shows, AllFine, ToSet
  <2>3. QED
    BY <2>2, CastStepFine
<1>2. NoneMissing(s, q2, w2, list)
  <2>1. SUFFICES ASSUME NEW x \in Ids(s)
                 PROVE  x \in Ids(list) \/ Coming(q2, "create", x) \/ Later(w2, 0, "created", x)
    BY DEF NoneMissing
  <2>2. x \in Nat
    BY IdsAreNat
  <2>3. x \in Ids(list) \/ Coming(q, "create", x) \/ Later(w, 0, "created", x)
    BY DEF Shows, NoneMissing
  <2>4. Later(w, 0, "created", x) => Later(w2, 0, "created", x)
    BY DEF Later, CastStep
  <2>5. Coming(q, "create", x) => Coming(q2, "create", x) \/ Later(w2, 0, "created", x)
    <3>1. Kind["create"] = "created"
      BY DEF Kind
    <3>2. QED
      BY <2>2, <3>1 DEF CastStep, Later
  <2>6. QED
    BY <2>3, <2>4, <2>5
<1>3. QED
  BY <1>1, <1>2 DEF Shows

LEMMA CastStepWire ==
  ASSUME NEW s \in Seq(Record), NEW q, NEW q2, NEW n \in Nat, NEW w \in Seq(Pushed), NEW w2 \in Seq(Pushed),
         CastStep(s, q, q2, w, w2), WireFine(s, q, w, n),
         Numbered(s, n), \A r \in Request : Handled(q[r], s, n)
  PROVE  WireFine(s, q2, w2, n)
<1>1. SUFFICES ASSUME NEW k \in DOMAIN w2
               PROVE  IF w2[k].type = "deleted" THEN w2[k].item.id \in 1..n /\ w2[k].item.id \notin Ids(s)
                      ELSE Fine(s, q2, w2, n, k, w2[k].item)
  BY DEF WireFine
<1>2. k \in Nat /\ w2[k].item \in Record
  <2>1. w2[k] \in Pushed /\ k \in Nat
    OBVIOUS
  <2>2. QED
    BY <2>1 DEF Pushed
<1>3. CASE k \in DOMAIN w
  <2>1. w2[k] = w[k] /\ k \in 0..Len(w)
    BY <1>3 DEF CastStep
  <2>2. IF w[k].type = "deleted" THEN w[k].item.id \in 1..n /\ w[k].item.id \notin Ids(s)
        ELSE Fine(s, q, w, n, k, w[k].item)
    BY <1>3 DEF WireFine
  <2>3. QED
    BY <1>2, <2>1, <2>2, CastStepFine
<1>4. CASE k \notin DOMAIN w
  <2>1. k > Len(w)
    BY <1>2, <1>4
  <2>2. CASE w2[k].type = "deleted"
    <3>1. PICK r \in Request : w2[k].item.id = q[r].item.id /\ q[r].op = "delete" /\ q[r].pc = "cast"
      BY <2>1, <2>2 DEF CastStep
    <3>2. Handled(q[r], s, n)
      OBVIOUS
    <3>3. QED
      BY <2>2, <3>1, <3>2 DEF Handled
  <2>3. CASE w2[k].type # "deleted"
    <3>1. w2[k].item \in ToSet(s)
      BY <2>1, <2>3 DEF CastStep
    <3>2. w2[k].item.id \in 1..n
      BY <3>1 DEF ToSet, Numbered
    <3>3. QED
      BY <2>3, <3>1, <3>2 DEF Fine
  <2>4. QED
    BY <2>2, <2>3
<1>5. QED
  BY <1>3, <1>4

LEMMA CastStepPage ==
  ASSUME NEW s \in Seq(Record), NEW q \in [Request -> Served], NEW n \in Nat,
         NEW q2 \in [Request -> Served], NEW w \in Seq(Pushed), NEW w2 \in Seq(Pushed),
         NEW list \in Seq(Record), NEW c,
         CastStep(s, q, q2, w, w2), SameLoads(q, q2, c), PageFine(s, q, w, n, list, c),
         Numbered(s, n), \A r \in Request : Handled(q[r], s, n)
  PROVE  PageFine(s, q2, w2, n, list, c)
<1>1. WireFine(s, q2, w2, n)
  BY CastStepWire DEF PageFine
<1>2. ASSUME NEW r \in Request, Load(q2[r], c, {"answer"}), q2[r].status = "ok"
      PROVE  Shows(s, q2, w2, n, q2[r].got)
  <2>1. Load(q[r], c, {"answer"}) /\ q[r].status = "ok" /\ q2[r].got = q[r].got
    BY <1>2 DEF SameLoads
  <2>2. Shows(s, q, w, n, q[r].got) /\ q[r].got \in Seq(Record)
    BY <2>1 DEF PageFine, Served
  <2>3. QED
    BY <2>1, <2>2, CastStepShows
<1>3. ASSUME \A r \in Request : ~Load(q2[r], c, {"sent", "answer"})
      PROVE  Shows(s, q2, w2, n, list)
  <2>1. \A r \in Request : ~Load(q[r], c, {"sent", "answer"})
    BY <1>3 DEF SameLoads, Load
  <2>2. Shows(s, q, w, n, list)
    BY <2>1 DEF PageFine
  <2>3. QED
    BY <2>2, CastStepShows
<1>4. QED
  BY <1>1, <1>2, <1>3 DEF PageFine

-----------------------------------------------------------------------------
\* The lists of the model.

LEMMA ReplacedIs ==
  ASSUME NEW s \in Seq(Record), NEW item \in Record
  PROVE  /\ Replaced(s, item) \in Seq(Record) /\ Len(Replaced(s, item)) = Len(s)
         /\ \A k \in DOMAIN s : Replaced(s, item)[k] = IF s[k].id = item.id THEN item ELSE s[k]
         /\ \A y \in ToSet(Replaced(s, item)) : y = item \/ (y \in ToSet(s) /\ y.id # item.id)
         /\ \A y \in ToSet(s) : y.id # item.id => y \in ToSet(Replaced(s, item))
         /\ Ids(Replaced(s, item)) = Ids(s)
<1> DEFINE t == Replaced(s, item)
<1>1. /\ t \in Seq(Record) /\ Len(t) = Len(s)
      /\ \A k \in DOMAIN s : t[k] = IF s[k].id = item.id THEN item ELSE s[k]
  BY DEF Replaced
<1>2. DOMAIN t = DOMAIN s
  BY <1>1
<1>3. \A k \in DOMAIN s : t[k].id = s[k].id
  BY <1>1
<1> HIDE DEF t
<1>4. ToSet(t) = {t[k] : k \in DOMAIN s} /\ ToSet(s) = {s[k] : k \in DOMAIN s}
  BY <1>2 DEF ToSet
<1>5. Ids(t) = Ids(s)
  <2>1. ASSUME NEW x \in Ids(t)
        PROVE  x \in Ids(s)
    <3>1. PICK k \in DOMAIN s : x = t[k].id
      BY <1>4 DEF Ids
    <3>2. QED
      BY <1>3, <1>4, <3>1 DEF Ids
  <2>2. ASSUME NEW x \in Ids(s)
        PROVE  x \in Ids(t)
    <3>1. PICK k \in DOMAIN s : x = s[k].id
      BY <1>4 DEF Ids
    <3>2. QED
      BY <1>3, <1>4, <3>1 DEF Ids
  <2>3. QED
    BY <2>1, <2>2
<1>6. QED
  BY <1>1, <1>4, <1>5 DEF t

LEMMA PrependedIs ==
  ASSUME NEW s \in Seq(Record), NEW item \in Record
  PROVE  /\ <<item>> \o s \in Seq(Record)
         /\ ToSet(<<item>> \o s) = {item} \cup ToSet(s)
<1> DEFINE t == <<item>> \o s
<1>1. t \in Seq(Record) /\ Len(t) = Len(s) + 1 /\ t[1] = item /\ \A k \in 1..Len(s) : t[k + 1] = s[k]
  OBVIOUS
<1> HIDE DEF t
<1>2. ASSUME NEW y \in ToSet(t)
      PROVE  y \in {item} \cup ToSet(s)
  <2>1. PICK k \in 1..Len(t) : y = t[k]
    BY <1>1 DEF ToSet
  <2>2. CASE k = 1
    BY <1>1, <2>1, <2>2
  <2>3. CASE k # 1
    <3>1. k - 1 \in 1..Len(s) /\ t[(k - 1) + 1] = s[k - 1]
      BY <1>1, <2>3
    <3>2. y = s[k - 1]
      BY <2>1, <3>1
    <3>3. QED
      BY <3>1, <3>2 DEF ToSet
  <2>4. QED
    BY <2>2, <2>3
<1>3. ASSUME NEW y \in ToSet(s)
      PROVE  y \in ToSet(t)
  <2>1. PICK k \in 1..Len(s) : y = s[k]
    BY DEF ToSet
  <2>2. k + 1 \in 1..Len(t) /\ y = t[k + 1]
    BY <1>1, <2>1
  <2>3. QED
    BY <1>1, <2>2 DEF ToSet
<1>4. item \in ToSet(t)
  BY <1>1 DEF ToSet
<1>5. QED
  BY <1>1, <1>2, <1>3, <1>4 DEF t

LEMMA ReversedIs ==
  ASSUME NEW s \in Seq(Record)
  PROVE  Reverse(s) \in Seq(Record) /\ ToSet(Reverse(s)) = ToSet(s)
<1> DEFINE t == Reverse(s)
<1>1. t \in Seq(Record) /\ Len(t) = Len(s) /\ \A k \in 1..Len(s) : t[k] = s[Len(s) - k + 1]
  BY DEF Reverse
<1> HIDE DEF t
<1>2. ASSUME NEW y \in ToSet(t)
      PROVE  y \in ToSet(s)
  <2>1. PICK k \in 1..Len(s) : y = t[k]
    BY <1>1 DEF ToSet
  <2>2. Len(s) - k + 1 \in 1..Len(s) /\ y = s[Len(s) - k + 1]
    BY <1>1, <2>1
  <2>3. QED
    BY <2>2 DEF ToSet
<1>3. ASSUME NEW y \in ToSet(s)
      PROVE  y \in ToSet(t)
  <2>1. PICK k \in 1..Len(s) : y = s[k]
    BY DEF ToSet
  <2> DEFINE j == Len(s) - k + 1
  <2>2. j \in 1..Len(s) /\ Len(s) - j + 1 = k
    BY <2>1
  <2>3. t[j] = s[Len(s) - j + 1]
    BY <1>1, <2>2
  <2>4. y = t[j]
    BY <2>1, <2>2, <2>3
  <2>5. QED
    BY <1>1, <2>2, <2>4 DEF ToSet
<1>4. QED
  BY <1>1, <1>2, <1>3 DEF t

LEMMA FoundIs ==
  ASSUME NEW s \in Seq(Record), NEW id
  PROVE  /\ Find(s, id) \in Seq(Record)
         /\ Find(s, id) = <<>> <=> id \notin Ids(s)
         /\ Find(s, id) # <<>> => Find(s, id)[1].id = id
<1> DEFINE hits == {x \in ToSet(s) : x.id = id}
<1>1. hits \subseteq Record
  BY DEF ToSet
<1>2. hits = {} <=> id \notin Ids(s)
  BY DEF Ids
<1>3. CASE hits = {}
  <2>1. Find(s, id) = <<>>
    BY <1>3 DEF Find
  <2>2. QED
    BY <1>2, <1>3, <2>1
<1>4. CASE hits # {}
  <2>1. Find(s, id) = <<CHOOSE x \in hits : TRUE>>
    BY <1>4 DEF Find
  <2>2. (CHOOSE x \in hits : TRUE) \in hits
    BY <1>4
  <2> DEFINE hit == CHOOSE x \in hits : TRUE
  <2>3. hit \in Record /\ hit.id = id /\ Find(s, id) = <<hit>>
    BY <1>1, <2>1, <2>2
  <2> HIDE DEF hit, hits
  <2>4. QED
    BY <1>2, <1>4, <2>3
<1>5. QED
  BY <1>3, <1>4

-----------------------------------------------------------------------------
\* A message that arrives.

LEMMA TailIs ==
  ASSUME NEW w \in Seq(Pushed), w # <<>>
  PROVE  /\ Tail(w) \in Seq(Pushed) /\ Head(w) = w[1] /\ w[1] \in Pushed
         /\ DOMAIN Tail(w) = 1..(Len(w) - 1) /\ \A k \in 1..(Len(w) - 1) : Tail(w)[k] = w[k + 1]
         /\ Len(w) \in Nat /\ Len(w) > 0
OBVIOUS

\* What the first message does not tell is told after it.
LEMMA LaterInTail ==
  ASSUME NEW w \in Seq(Pushed), w # <<>>, NEW k \in Nat, NEW type, NEW x,
         Later(w, k, type, x),
         k > 0 \/ w[1].type # type \/ w[1].item.id # x
  PROVE  Later(Tail(w), IF k = 0 THEN 0 ELSE k - 1, type, x)
<1>1. PICK j \in DOMAIN w : j > k /\ w[j].type = type /\ w[j].item.id = x
  BY DEF Later
<1>2. j \in Nat /\ j # 1 /\ j \in 1..Len(w)
  BY <1>1
<1> DEFINE i == j - 1
<1>3. i \in 1..(Len(w) - 1) /\ i + 1 = j /\ i > IF k = 0 THEN 0 ELSE k - 1
  BY <1>1, <1>2
<1>4. Tail(w)[i] = w[j] /\ i \in DOMAIN Tail(w)
  BY <1>3, TailIs
<1>5. QED
  BY <1>1, <1>3, <1>4 DEF Later

LEMMA FineInTail ==
  ASSUME NEW s \in Seq(Record), NEW q, NEW w \in Seq(Pushed), w # <<>>, NEW n \in Nat, NEW k \in Nat,
         NEW y \in Record, Fine(s, q, w, n, k, y), k > 0 \/ w[1].type = "created" \/ w[1].item.id # y.id
  PROVE  Fine(s, q, Tail(w), n, IF k = 0 THEN 0 ELSE k - 1, y)
<1> DEFINE m == IF k = 0 THEN 0 ELSE k - 1
<1>1. ASSUME NEW type \in {"updated", "deleted"}, Later(w, k, type, y.id)
      PROVE  Later(Tail(w), m, type, y.id)
  BY <1>1, LaterInTail
<1> HIDE DEF m
<1>2. Mended(s, q, w, k, y.id) => Mended(s, q, Tail(w), m, y.id)
  BY <1>1 DEF Mended
<1>3. Fine(s, q, Tail(w), n, m, y)
  BY <1>2 DEF Fine
<1>4. QED
  BY <1>3 DEF m

LEMMA WireInTail ==
  ASSUME NEW s \in Seq(Record), NEW q, NEW w \in Seq(Pushed), w # <<>>, NEW n \in Nat,
         WireFine(s, q, w, n)
  PROVE  WireFine(s, q, Tail(w), n)
<1>1. SUFFICES ASSUME NEW k \in DOMAIN Tail(w)
               PROVE  IF Tail(w)[k].type = "deleted"
                      THEN Tail(w)[k].item.id \in 1..n /\ Tail(w)[k].item.id \notin Ids(s)
                      ELSE Fine(s, q, Tail(w), n, k, Tail(w)[k].item)
  BY DEF WireFine
<1> DEFINE j == k + 1
<1>2. k \in Nat /\ j \in DOMAIN w /\ j \in Nat /\ j > 0 /\ j # 0 /\ j - 1 = k /\ Tail(w)[k] = w[j]
  BY TailIs
<1>3. w[j] \in Pushed
  BY <1>2
<1> HIDE DEF j
<1>4. CASE w[j].type = "deleted"
  BY <1>2, <1>4 DEF WireFine
<1>5. CASE w[j].type # "deleted"
  <2>1. Fine(s, q, w, n, j, w[j].item) /\ w[j].item \in Record
    BY <1>2, <1>3, <1>5 DEF WireFine, Pushed
  <2>2. Fine(s, q, Tail(w), n, IF j = 0 THEN 0 ELSE j - 1, w[j].item)
    BY <1>2, <2>1, FineInTail
  <2>3. QED
    BY <1>2, <1>5, <2>2
<1>6. QED
  BY <1>4, <1>5

LEMMA ShownIs ==
  ASSUME NEW list \in Seq(Record), NEW m \in Pushed
  PROVE  /\ Shown(list, m) \in Seq(Record)
         /\ m.type = "created" => ToSet(Shown(list, m)) = {m.item} \cup ToSet(list)
         /\ m.type = "updated" =>
              /\ \A y \in ToSet(Shown(list, m)) : y = m.item \/ (y \in ToSet(list) /\ y.id # m.item.id)
              /\ Ids(Shown(list, m)) = Ids(list)
         /\ m.type = "deleted" => ToSet(Shown(list, m)) = {y \in ToSet(list) : y.id # m.item.id}
<1>1. m.item \in Record /\ m.type \in {"created", "updated", "deleted"}
  BY DEF Pushed
<1>2. CASE m.type = "created"
  <2>1. Shown(list, m) = <<m.item>> \o list
    BY <1>2 DEF Shown
  <2>2. QED
    BY <1>1, <1>2, <2>1, PrependedIs
<1>3. CASE m.type = "updated"
  <2>1. Shown(list, m) = Replaced(list, m.item)
    BY <1>3 DEF Shown
  <2>2. QED
    BY <1>1, <1>3, <2>1, ReplacedIs
<1>4. CASE m.type = "deleted"
  <2>1. Shown(list, m) = Without(list, m.item.id)
    BY <1>4 DEF Shown
  <2>2. QED
    BY <1>4, <2>1, WithoutIs
<1>5. QED
  BY <1>1, <1>2, <1>3, <1>4

LEMMA DeliveredShows ==
  ASSUME NEW s \in Seq(Record), NEW q, NEW w \in Seq(Pushed), w # <<>>, NEW n \in Nat,
         NEW list \in Seq(Record), WireFine(s, q, w, n), Shows(s, q, w, n, list)
  PROVE  Shows(s, q, Tail(w), n, Shown(list, w[1]))
<1> DEFINE m == w[1]
           t == Shown(list, m)
<1>1. m \in Pushed /\ 1 \in DOMAIN w /\ m.item \in Record
  <2>1. m \in Pushed /\ 1 \in DOMAIN w
    BY TailIs
  <2>2. QED
    BY <2>1 DEF Pushed
<1>2. m.type # "deleted" => Fine(s, q, Tail(w), n, 0, m.item)
  <2>1. m.type # "deleted" => Fine(s, q, w, n, 1, m.item)
    BY <1>1 DEF WireFine
  <2>2. Fine(s, q, w, n, 1, m.item) => Fine(s, q, Tail(w), n, IF 1 = 0 THEN 0 ELSE 1 - 1, m.item)
    BY <1>1, FineInTail
  <2>3. QED
    BY <2>1, <2>2
<1>3. ASSUME NEW y \in ToSet(list), m.type = "created" \/ m.item.id # y.id
      PROVE  Fine(s, q, Tail(w), n, 0, y)
  <2>1. y \in Record /\ Fine(s, q, w, n, 0, y)
    BY DEF Shows, AllFine, ToSet
  <2>2. Fine(s, q, Tail(w), n, IF 0 = 0 THEN 0 ELSE 0 - 1, y)
    BY <1>3, <2>1, FineInTail
  <2>3. QED
    BY <2>2
<1>4. /\ m.type = "created" => ToSet(t) = {m.item} \cup ToSet(list)
      /\ m.type = "updated" => /\ \A y \in ToSet(t) : y = m.item \/ (y \in ToSet(list) /\ y.id # m.item.id)
                               /\ Ids(t) = Ids(list)
      /\ m.type = "deleted" => ToSet(t) = {y \in ToSet(list) : y.id # m.item.id}
      /\ m.type \in {"created", "updated", "deleted"}
  <2>1. m.type \in {"created", "updated", "deleted"}
    BY <1>1 DEF Pushed
  <2> HIDE DEF m
  <2>2. QED
    BY <1>1, <2>1, ShownIs
<1> HIDE DEF t
<1>5. AllFine(s, q, Tail(w), n, t)
  <2>1. SUFFICES ASSUME NEW y \in ToSet(t)
                 PROVE  Fine(s, q, Tail(w), n, 0, y)
    BY DEF AllFine
  <2> HIDE DEF m
  <2>2. m.type = "created" => y = m.item \/ y \in ToSet(list)
    BY <1>4
  <2>3. m.type # "created" => (y = m.item /\ m.type = "updated") \/ (y \in ToSet(list) /\ m.item.id # y.id)
    BY <1>4
  <2>4. QED
    BY <1>2, <1>3, <2>2, <2>3
<1>6. NoneMissing(s, q, Tail(w), t)
  <2>1. SUFFICES ASSUME NEW x \in Ids(s)
                 PROVE  x \in Ids(t) \/ Coming(q, "create", x) \/ Later(Tail(w), 0, "created", x)
    BY DEF NoneMissing
  <2>2. x \in Ids(list) \/ Coming(q, "create", x) \/ Later(w, 0, "created", x)
    BY DEF Shows, NoneMissing
  <2>3. CASE x \in Ids(list)
    <3>1. m.type = "deleted" => m.item.id # x
      BY <1>1 DEF WireFine
    <3>2. x \in Ids(t)
      BY <1>4, <2>3, <3>1 DEF Ids
    <3>3. QED
      BY <3>2
  <2>4. CASE Later(w, 0, "created", x)
    <3>1. CASE m.type = "created" /\ m.item.id = x
      <4> HIDE DEF m
      <4>1. m.item \in ToSet(t)
        BY <1>4, <3>1
      <4>2. x \in Ids(t)
        BY <3>1, <4>1 DEF Ids
      <4>3. QED
        BY <4>2
    <3>2. CASE m.type # "created" \/ m.item.id # x
      <4>1. Later(Tail(w), IF 0 = 0 THEN 0 ELSE 0 - 1, "created", x)
        BY <2>4, <3>2, LaterInTail
      <4>2. QED
        BY <4>1
    <3>3. QED
      BY <3>1, <3>2
  <2>5. QED
    BY <2>2, <2>3, <2>4
<1>7. QED
  BY <1>5, <1>6 DEF Shows, t

LEMMA DeliveredPage ==
  ASSUME NEW s \in Seq(Record), NEW q, NEW w \in Seq(Pushed), w # <<>>, NEW n \in Nat,
         NEW list \in Seq(Record), NEW c, PageFine(s, q, w, n, list, c),
         \A r \in Request : ~Load(q[r], c, {"answer"})
  PROVE  PageFine(s, q, Tail(w), n, Shown(list, w[1]), c)
<1>1. WireFine(s, q, Tail(w), n)
  BY WireInTail DEF PageFine
<1>2. (\A r \in Request : ~Load(q[r], c, {"sent", "answer"})) => Shows(s, q, Tail(w), n, Shown(list, w[1]))
  BY DeliveredShows DEF PageFine
<1>3. QED
  BY <1>1, <1>2 DEF PageFine

-----------------------------------------------------------------------------
\* What the actions do.

LEMMA SetTyped ==
  ASSUME AppTyped, NEW r \in Request, NEW p \in Served, Begun(p), Set(r, p)
  PROVE  /\ req' \in [Request -> Served]
         /\ \A t \in Request : Begun(req'[t])
         /\ req'[r] = p /\ \A t \in Request : t # r => req'[t] = req[t]
BY DEF AppTyped, Set

LEMMA ConstantsAre ==
  /\ NoItem \in Record /\ NoItem.id = 1
  /\ NoRequest \in Served /\ NoRequest.pc = "free" /\ NoRequest.op = "load"
  /\ NoPage \in Paged /\ NoPage.list = <<>> /\ NoPage.editing = 0
  /\ Op = {"load", "create", "update", "delete", "register", "login", "logout"}
BY DEF NoItem, Record, NoRequest, Served, Op, NoPage, Paged

\* A request that a page has just sent.
Asked(p, c, op) ==
  p \in Served /\ p.pc = "sent" /\ p.by = c /\ p.op = op /\ p.status = "ok" /\ p.heard = TRUE

LEMMA ApiIs ==
  ASSUME AppTyped, NEW c \in Client, NEW op \in Op, NEW item \in Record
  PROVE  Asked(Api(c, op, item), c, op)
<1>1. page[c].token \in Nat
  BY DEF AppTyped, Paged
<1>2. NoRequest \in Served /\ NoRequest.status = "ok" /\ NoRequest.heard = TRUE
  BY ConstantsAre DEF NoRequest
<1>3. QED
  BY <1>1, <1>2 DEF Asked, Api, Served

\* What the server does to a request keeps whose it is and what it asks.
Onward(p, q) == p.by = q.by /\ p.op = q.op /\ p.heard = q.heard /\ p.item = q.item

LEMMA AnswerIs ==
  ASSUME AppTyped, NEW r \in Request, NEW status \in {"ok", "unauthorized", "refused", "error"},
         Answer(r, status)
  PROVE  \E p \in Served : Set(r, p) /\ Onward(p, req[r]) /\ p.pc = "answer" /\ p.status = status
                           /\ p.got = req[r].got
<1> DEFINE p == [req[r] EXCEPT !.pc = "answer", !.status = status]
<1>1. req[r] \in Served
  BY DEF AppTyped
<1>2. /\ p \in Served /\ Onward(p, req[r]) /\ p.pc = "answer" /\ p.status = status
      /\ p.got = req[r].got
  BY <1>1 DEF Served, Onward
<1>3. Set(r, p)
  BY DEF Answer
<1> HIDE DEF p
<1>4. QED
  BY <1>2, <1>3

LEMMA GotoIs ==
  ASSUME AppTyped, NEW r \in Request, NEW pc \in {"write", "read", "cast", "answer"}, Goto(r, pc)
  PROVE  \E p \in Served : Set(r, p) /\ Onward(p, req[r]) /\ p.pc = pc /\ p.status = req[r].status
                           /\ p.got = req[r].got
<1> DEFINE p == [req[r] EXCEPT !.pc = pc]
<1>1. req[r] \in Served
  BY DEF AppTyped
<1>2. /\ p \in Served /\ Onward(p, req[r]) /\ p.pc = pc /\ p.status = req[r].status
      /\ p.got = req[r].got
  BY <1>1 DEF Served, Onward
<1>3. Set(r, p)
  BY DEF Goto
<1> HIDE DEF p
<1>4. QED
  BY <1>2, <1>3

LEMMA ArriveIs ==
  ASSUME AppTyped, NEW r \in Request, Arrive(r)
  PROVE  /\ req[r].pc = "sent"
         /\ \E p \in Served :
              /\ Set(r, p) /\ Onward(p, req[r])
              /\ \/ p.pc = "answer" /\ p.status # "ok"
                 \/ /\ p.pc = "write" /\ p.status = req[r].status /\ req[r].op # "load"
                    /\ req[r].op \in {"update", "delete"} => req[r].item.id \in Ids(rows)
                 \/ /\ p.op = "load" /\ p.pc = "answer" /\ p.got = Reverse(rows)
<1> DEFINE q == req[r]
           Goal == \E p \in Served :
              /\ Set(r, p) /\ Onward(p, req[r])
              /\ \/ p.pc = "answer" /\ p.status # "ok"
                 \/ /\ p.pc = "write" /\ p.status = req[r].status /\ req[r].op # "load"
                    /\ req[r].op \in {"update", "delete"} => req[r].item.id \in Ids(rows)
                 \/ /\ p.op = "load" /\ p.pc = "answer" /\ p.got = Reverse(rows)
<1>1. q.pc = "sent" /\ q \in Served
  BY DEF Arrive, AppTyped
<1>2. ASSUME NEW status \in {"unauthorized", "refused", "error"}, Answer(r, status)
      PROVE  Goal
  BY <1>2, AnswerIs
<1>3. ASSUME Goto(r, "write"), q.op # "load", q.op \in {"update", "delete"} => q.item.id \in Ids(rows)
      PROVE  Goal
  BY <1>3, GotoIs
<1>4. ASSUME q.op = "load", Set(r, [q EXCEPT !.pc = "answer", !.got = Reverse(rows)])
      PROVE  Goal
  <2> DEFINE p == [q EXCEPT !.pc = "answer", !.got = Reverse(rows)]
  <2>1. Reverse(rows) \in Seq(Record)
    BY ReversedIs DEF AppTyped
  <2>2. p \in Served /\ Onward(p, q) /\ p.pc = "answer" /\ p.got = Reverse(rows) /\ p.op = "load"
    BY <1>1, <1>4, <2>1 DEF Served, Onward
  <2>3. Set(r, p)
    BY <1>4
  <2> HIDE DEF p
  <2>4. QED
    BY <2>2, <2>3
<1>5. Find(rows, q.item.id) # <<>> => q.item.id \in Ids(rows)
  BY FoundIs DEF AppTyped
<1> HIDE DEF Goal
<1>6. Goal
  BY <1>2, <1>3, <1>4, <1>5 DEF Arrive
<1>7. QED
  BY <1>1, <1>6 DEF Goal

LEMMA WriteRowIs ==
  ASSUME AppTyped, NEW r \in Request, WriteRow(r)
  PROVE  /\ req[r].pc = "write"
         /\ \E p \in Served :
              /\ Set(r, p) /\ p.by = req[r].by /\ p.op = req[r].op /\ p.heard = req[r].heard
              /\ p.status = req[r].status
              /\ \/ /\ p.op = "create" /\ p.pc = "read" /\ p.item.id = lastId + 1
                    /\ lastId' = lastId + 1
                    /\ rows' = Append(rows, [id |-> lastId + 1, val |-> req[r].item.val])
                 \/ /\ p.op = "update" /\ p.pc = "read" /\ p.item = req[r].item
                    /\ lastId' = lastId /\ rows' = Replaced(rows, p.item)
                 \/ /\ p.op = "delete" /\ p.pc = IF shape.realtime THEN "cast" ELSE "answer"
                    /\ p.item = req[r].item
                    /\ lastId' = lastId /\ rows' = Without(rows, p.item.id)
<1> DEFINE q == req[r]
<1>1. q.pc = "write" /\ q \in Served /\ q.item \in Record /\ lastId \in Nat
  BY DEF WriteRow, AppTyped, Served
<1>2. CASE /\ q.op = "create" /\ lastId' = lastId + 1
           /\ rows' = Append(rows, [id |-> lastId + 1, val |-> q.item.val])
           /\ Set(r, [q EXCEPT !.pc = "read", !.item.id = lastId + 1])
  <2> DEFINE item == [q.item EXCEPT !.id = lastId + 1]
             p == [q EXCEPT !.pc = "read", !.item = item]
  <2>1. item \in Record /\ item.id = lastId + 1
    BY <1>1 DEF Record
  <2>2. p = [q EXCEPT !.pc = "read", !.item.id = lastId + 1]
    BY <1>1 DEF Served
  <2> HIDE DEF item
  <2>3. /\ p \in Served /\ p.by = q.by /\ p.op = "create" /\ p.heard = q.heard /\ p.status = q.status
        /\ p.pc = "read" /\ p.item.id = lastId + 1
    BY <1>1, <1>2, <2>1 DEF Served
  <2>4. Set(r, p)
    BY <1>2, <2>2
  <2> HIDE DEF p
  <2>5. QED
    BY <1>1, <1>2, <2>3, <2>4
<1>3. CASE q.op = "update" /\ rows' = Replaced(rows, q.item) /\ Goto(r, "read") /\ UNCHANGED lastId
  <2>1. PICK p \in Served : Set(r, p) /\ Onward(p, q) /\ p.pc = "read" /\ p.status = q.status
    BY <1>3, GotoIs
  <2>2. QED
    BY <1>1, <1>3, <2>1 DEF Onward
<1>4. CASE /\ q.op = "delete" /\ rows' = Without(rows, q.item.id)
           /\ Goto(r, IF shape.realtime THEN "cast" ELSE "answer") /\ UNCHANGED lastId
  <2> DEFINE pc == IF shape.realtime THEN "cast" ELSE "answer"
  <2>1. pc \in {"write", "read", "cast", "answer"} /\ Goto(r, pc)
    BY <1>4
  <2>2. PICK p \in Served : Set(r, p) /\ Onward(p, q) /\ p.pc = pc /\ p.status = q.status
    BY <2>1, GotoIs
  <2>3. QED
    BY <1>1, <1>4, <2>2 DEF Onward
<1>5. QED
  BY <1>2, <1>3, <1>4 DEF WriteRow

LEMMA ReadBackIs ==
  ASSUME AppTyped, NEW r \in Request, ReadBack(r)
  PROVE  /\ req[r].pc = "read"
         /\ \E p \in Served :
              /\ Set(r, p) /\ Onward(p, req[r]) /\ p.pc = IF shape.realtime THEN "cast" ELSE "answer"
              /\ p.status = req[r].status /\ p.got = Find(rows, p.item.id)
<1> DEFINE q == req[r]
           pc == IF shape.realtime THEN "cast" ELSE "answer"
           p == [q EXCEPT !.pc = pc, !.got = Find(rows, q.item.id)]
<1>1. q \in Served /\ Find(rows, q.item.id) \in Seq(Record) /\ pc \in {"cast", "answer"}
  BY FoundIs DEF AppTyped
<1>2. Set(r, p) /\ q.pc = "read"
  BY DEF ReadBack
<1> HIDE DEF pc
<1>3. p \in Served /\ Onward(p, q) /\ p.pc = pc /\ p.status = q.status /\ p.got = Find(rows, p.item.id)
  BY <1>1 DEF Served, Onward
<1> HIDE DEF p
<1>4. QED
  BY <1>2, <1>3 DEF pc

LEMMA WriteAccountIs ==
  ASSUME AppTyped, NEW r \in Request, WriteAccount(r)
  PROVE  /\ req[r].pc = "write" /\ req[r].op \in {"register", "login", "logout"}
         /\ \E p \in Served : Set(r, p) /\ Onward(p, req[r]) /\ p.pc = "answer"
         /\ \/ account' = account /\ admitted' = admitted
            \/ /\ account = NoOne /\ account' = req[r].by
               /\ admitted' = admitted \cup {req[r].by}
<1> DEFINE q == req[r]
<1>1. q \in Served /\ q.pc = "write"
  BY DEF AppTyped, WriteAccount
<1>2. CASE q.op = "register" /\ Insert(r)
  <2>1. Answer(r, "ok") \/ Answer(r, "error")
    BY <1>2 DEF Insert
  <2>2. \E p \in Served : Set(r, p) /\ Onward(p, req[r]) /\ p.pc = "answer"
    BY <2>1, AnswerIs
  <2>3. QED
    BY <1>1, <1>2, <2>2 DEF Insert
<1>3. CASE /\ q.op = "login" /\ UNCHANGED <<account, admitted>>
           /\ \E t \in Token : Set(r, [q EXCEPT !.pc = "answer", !.token = t])
  <2>1. PICK t \in Token : Set(r, [q EXCEPT !.pc = "answer", !.token = t])
    BY <1>3
  <2>2. t \in Nat
    BY DEF Token
  <2> DEFINE p == [q EXCEPT !.pc = "answer", !.token = t]
  <2>3. p \in Served /\ Onward(p, q) /\ p.pc = "answer"
    BY <1>1, <2>2 DEF Served, Onward
  <2> HIDE DEF p
  <2>4. \E pp \in Served : Set(r, pp) /\ Onward(pp, req[r]) /\ pp.pc = "answer"
    BY <2>1, <2>3 DEF p
  <2>5. QED
    BY <1>1, <1>3, <2>4
<1>4. CASE q.op = "logout" /\ Answer(r, "ok") /\ UNCHANGED <<account, admitted>>
  BY <1>1, <1>4, AnswerIs
<1>5. QED
  BY <1>2, <1>3, <1>4 DEF WriteAccount

LEMMA SendIs ==
  ASSUME AppTyped, NEW r \in Request, NEW c \in Client, NEW op \in Op, NEW item \in Record,
         Send(r, c, op, item)
  PROVE  /\ req[r].pc = "free"
         /\ \E p \in Served : Set(r, p) /\ p.pc = "sent" /\ p.by = c /\ p.op = op /\ p.status = "ok"
<1> DEFINE p == Api(c, op, item)
<1>1. Set(r, p) /\ req[r].pc = "free"
  BY DEF Send
<1>2. Asked(p, c, op)
  BY ApiIs
<1> HIDE DEF p
<1>3. QED
  BY <1>1, <1>2 DEF Asked

\* What a reload leaves of the other requests.
Unheard(p, q) ==
  /\ p.pc = q.pc /\ p.by = q.by /\ p.op = q.op /\ p.item = q.item /\ p.status = q.status /\ p.got = q.got
  /\ p.heard = q.heard \/ p.heard = FALSE

LEMMA OpenPageIs ==
  ASSUME AppTyped, NEW r \in Request, NEW c \in Client, OpenPage(r, c)
  PROVE  /\ req[r].pc = "free" /\ req' \in [Request -> Served]
         /\ \A t \in Request : t # r \/ ~shape.backend =>
              /\ Unheard(req'[t], req[t])
              /\ req[t].by = c => req'[t].heard = FALSE
              /\ req[t].by # c => req'[t] = req[t]
         /\ shape.backend => Asked(req'[r], c, "load")
         /\ page' \in [Client -> Paged] /\ \A d \in Client : d # c => page'[d] = page[d]
<1> DEFINE new == Api(c, "load", NoItem)
           p(t) == IF t = r /\ shape.backend THEN new
                   ELSE IF req[t].by = c THEN [req[t] EXCEPT !.heard = FALSE] ELSE req[t]
<1>0. Asked(new, c, "load")
  BY ApiIs, ConstantsAre
<1> HIDE DEF new
<1>1. new \in Served
  BY <1>0 DEF Asked
<1>2. req' = [t \in Request |-> p(t)] /\ req[r].pc = "free"
  BY DEF OpenPage, new
<1>3. ASSUME NEW t \in Request
      PROVE  p(t) \in Served /\ (t # r \/ ~shape.backend =>
                                  /\ Unheard(p(t), req[t])
                                  /\ req[t].by = c => p(t).heard = FALSE
                                  /\ req[t].by # c => p(t) = req[t])
  <2>1. req[t] \in Served
    BY DEF AppTyped
  <2>2. CASE t = r /\ shape.backend
    BY <1>1, <2>2
  <2>3. CASE (t # r \/ ~shape.backend) /\ req[t].by = c
    <3>1. p(t) = [req[t] EXCEPT !.heard = FALSE]
      BY <2>3
    <3>2. p(t) \in Served
      BY <2>1, <3>1 DEF Served
    <3>3. Unheard(p(t), req[t]) /\ p(t).heard = FALSE
      BY <2>1, <3>1 DEF Served, Unheard
    <3>4. QED
      BY <2>3, <3>2, <3>3
  <2>4. CASE (t # r \/ ~shape.backend) /\ req[t].by # c
    <3>1. p(t) = req[t]
      BY <2>4
    <3>2. QED
      BY <2>1, <2>4, <3>1 DEF Unheard
  <2>5. QED
    BY <2>2, <2>3, <2>4
<1>4. \A t \in Request : req'[t] = p(t)
  BY <1>2
<1>5. req' \in [Request -> Served]
  BY <1>2, <1>3
<1>6. shape.backend => Asked(req'[r], c, "load")
  BY <1>0, <1>4
<1> DEFINE list == IF shape.backend THEN <<>> ELSE rows
           shown == [NoPage EXCEPT !.open = TRUE, !.token = page[c].token, !.list = list]
<1>7. list \in Seq(Record) /\ page[c] \in Paged
  BY DEF AppTyped
<1> HIDE DEF list
<1>8. shown \in Paged
  BY <1>7, ConstantsAre DEF Paged
<1>9. page' = [page EXCEPT ![c] = shown]
  BY DEF OpenPage, list
<1> HIDE DEF shown
<1>10. page' \in [Client -> Paged] /\ \A d \in Client : d # c => page'[d] = page[d]
  BY <1>8, <1>9 DEF AppTyped
<1> HIDE DEF p
<1>11. QED
  BY <1>2, <1>3, <1>4, <1>5, <1>6, <1>10

LEMMA SavedIs ==
  ASSUME NEW q \in Served
  PROVE  Saved(q) \in Record
<1>1. q.got \in Seq(Record)
  BY DEF Served
<1>2. q.got # <<>> => Head(q.got) \in Record
  BY <1>1
<1>3. QED
  BY <1>2, ConstantsAre DEF Saved

\* The list of a page that is shown what was saved.
LEMMA ShowSavedIs ==
  ASSUME NEW q \in Served, NEW p \in Paged
  PROVE  /\ ShowSaved(q, p) \in Paged
         /\ \/ ShowSaved(q, p).list = Replaced(p.list, Saved(q))
            \/ ShowSaved(q, p).list = <<Saved(q)>> \o p.list
            \/ ShowSaved(q, p).list = p.list /\ q.got = <<>>
<1> DEFINE list == IF p.editing # 0 THEN Replaced(p.list, Saved(q)) ELSE <<Saved(q)>> \o p.list
<1>1. p.list \in Seq(Record)
  BY DEF Paged
<1>2. list \in Seq(Record)
  BY <1>1, SavedIs, ReplacedIs, PrependedIs
<1>3. \/ ShowSaved(q, p) = [p EXCEPT !.editing = 0, !.list = list]
      \/ ShowSaved(q, p) = p /\ q.got = <<>>
  BY DEF ShowSaved, Paged
<1>4. list = Replaced(p.list, Saved(q)) \/ list = <<Saved(q)>> \o p.list
  OBVIOUS
<1> HIDE DEF list
<1>5. [p EXCEPT !.editing = 0, !.list = list] \in Paged
  BY <1>2 DEF Paged
<1>6. [p EXCEPT !.editing = 0, !.list = list].list = list
  BY DEF Paged
<1>7. QED
  BY <1>3, <1>4, <1>5, <1>6

\* What a page makes of the answer it waits for.
ShownAnswer(p, q, list, list2) ==
  \/ q.op = "load" /\ q.status = "ok" /\ list2 = q.got /\ p.pc = "free"
  \/ Load(p, q.by, {"sent"})
  \/ q.op # "load" /\ p.op # "load" /\ list2 = list
  \/ q.op # "load" /\ p.pc = "free"
     /\ \/ list2 = list
        \/ \E y \in ToSet(rows) : y \in Record /\ (list2 = Replaced(list, y) \/ list2 = <<y>> \o list)
        \/ q.op = "delete" /\ q.status = "ok" /\ list2 = Without(list, q.item.id)

ReplyEffect(r, p) ==
  LET q == req[r]
  IN  /\ Set(r, p)
      /\ p.pc = "free" \/ (p.pc = "sent" /\ p.by = q.by /\ p.status = "ok" /\ p.op \in {"login", "load"})
      /\ behind \subseteq behind' /\ behind' \subseteq behind \cup {q.by}
      /\ page' \in [Client -> Paged] /\ \A d \in Client : d # q.by => page'[d] = page[d]
      /\ q.heard = FALSE => page' = page /\ p.pc = "free"
      /\ q.heard /\ q.by \notin behind' => ShownAnswer(p, q, page[q.by].list, page'[q.by].list)

LEMMA ReplyIs ==
  ASSUME AppTyped, NEW r \in Request, Reply(r)
  PROVE  req[r].pc = "answer" /\ req[r].by \in Client /\ \E p \in Served : ReplyEffect(r, p)
<1> DEFINE q == req[r]
           c == q.by
           ok == q.status = "ok"
<1>1. /\ q \in Served /\ q.pc = "answer" /\ c \in Client /\ page[c] \in Paged
      /\ page \in [Client -> Paged] /\ behind \subseteq Client
  BY DEF AppTyped, Begun, Reply
<1>2. NoRequest \in Served /\ NoRequest.pc = "free" /\ NoRequest.op = "load"
  BY ConstantsAre
<1>3. q.heard \in BOOLEAN /\ q.item \in Record /\ q.token \in Nat /\ q.got \in Seq(Record)
  BY <1>1 DEF Served
\* The page gets another list, and the request is done with.
<1>4. ASSUME NEW list \in Seq(Record), page' = [page EXCEPT ![c] = [page[c] EXCEPT !.list = list]]
      PROVE  /\ page' \in [Client -> Paged] /\ page'[c].list = list
             /\ \A d \in Client : d # c => page'[d] = page[d]
  <2> DEFINE shown == [page[c] EXCEPT !.list = list]
  <2>1. shown \in Paged /\ shown.list = list
    BY <1>1 DEF Paged
  <2> HIDE DEF shown
  <2>2. page' = [page EXCEPT ![c] = shown]
    BY <1>4 DEF shown
  <2>3. QED
    BY <1>1, <2>1, <2>2
<1> HIDE DEF c, ok
<1>5. CASE ~q.heard
  <2>1. Set(r, NoRequest) /\ page' = page /\ behind' = behind
    BY <1>5 DEF Reply
  <2>2. ReplyEffect(r, NoRequest)
    BY <1>1, <1>2, <1>5, <2>1 DEF ReplyEffect
  <2>3. QED
    BY <1>1, <1>2, <2>2 DEF c
<1>6. CASE q.heard /\ q.op = "load"
  <2> DEFINE list == IF ok THEN q.got ELSE IF q.status = "unauthorized" THEN <<>> ELSE page[c].list
  <2>1. /\ Set(r, NoRequest) /\ page' = [page EXCEPT ![c] = [page[c] EXCEPT !.list = list]]
        /\ behind' = IF ok THEN behind ELSE behind \cup {c}
    BY <1>6 DEF Reply, c, ok
  <2>2. list \in Seq(Record)
    BY <1>1, <1>3 DEF Paged
  <2>3. ok => list = q.got
    OBVIOUS
  <2> HIDE DEF list
  <2>4. /\ page' \in [Client -> Paged] /\ page'[c].list = list
        /\ \A d \in Client : d # c => page'[d] = page[d]
    BY <1>4, <2>1, <2>2
  <2>5. ReplyEffect(r, NoRequest)
    BY <1>2, <1>6, <2>1, <2>3, <2>4 DEF ReplyEffect, ShownAnswer, c, ok
  <2>6. QED
    BY <1>1, <1>2, <2>5 DEF c
<1>7. CASE q.heard /\ q.op \in {"create", "update"} /\ ok
  <2>1. /\ Set(r, NoRequest) /\ page' = [page EXCEPT ![c] = ShowSaved(q, page[c])]
        /\ behind' = IF SameEdit(q) /\ Stored(Saved(q)) THEN behind ELSE behind \cup {c}
    BY <1>7 DEF Reply, c, ok
  <2> DEFINE shown == ShowSaved(q, page[c])
  <2>2. /\ shown \in Paged
        /\ \/ shown.list = Replaced(page[c].list, Saved(q))
           \/ shown.list = <<Saved(q)>> \o page[c].list
           \/ shown.list = page[c].list
    BY <1>1, ShowSavedIs
  <2> HIDE DEF shown
  <2>3. page' = [page EXCEPT ![c] = shown]
    BY <2>1 DEF shown
  <2>4. /\ page' \in [Client -> Paged] /\ page'[c] = shown
        /\ \A d \in Client : d # c => page'[d] = page[d]
    BY <1>1, <2>2, <2>3
  <2>5. c \notin behind' => Saved(q) \in ToSet(rows)
    BY <2>1 DEF Stored
  <2>6. Saved(q) \in Record
    BY <1>1, SavedIs
  <2>7. behind \subseteq behind' /\ behind' \subseteq behind \cup {c}
    BY <2>1
  <2>8. c \notin behind' => ShownAnswer(NoRequest, q, page[c].list, page'[c].list)
    BY <1>2, <1>7, <2>2, <2>4, <2>5, <2>6 DEF ShownAnswer
  <2>9. ReplyEffect(r, NoRequest)
    BY <1>2, <1>7, <2>1, <2>4, <2>7, <2>8 DEF ReplyEffect, c
  <2>10. QED
    BY <1>1, <1>2, <2>9 DEF c
<1>8. CASE q.heard /\ q.op = "delete" /\ ok
  <2> DEFINE list == Without(page[c].list, q.item.id)
  <2>1. Set(r, NoRequest) /\ page' = [page EXCEPT ![c] = [page[c] EXCEPT !.list = list]] /\ behind' = behind
    BY <1>8 DEF Reply, c, ok
  <2>2. list \in Seq(Record)
    BY <1>1, WithoutIs DEF Paged
  <2>3. /\ page' \in [Client -> Paged] /\ page'[c].list = list
        /\ \A d \in Client : d # c => page'[d] = page[d]
    BY <1>4, <2>1, <2>2
  <2>4. ShownAnswer(NoRequest, q, page[c].list, page'[c].list)
    BY <1>2, <1>8, <2>3 DEF ShownAnswer, ok
  <2>5. ReplyEffect(r, NoRequest)
    BY <1>2, <1>8, <2>1, <2>3, <2>4 DEF ReplyEffect, c
  <2>6. QED
    BY <1>1, <1>2, <2>5 DEF c
<1>9. CASE q.heard /\ q.op = "register" /\ ok
  <2> DEFINE p == Api(c, "login", NoItem)
  <2>1. Set(r, p) /\ page' = page /\ behind' = behind
    BY <1>9 DEF Reply, c, ok
  <2>a. Asked(p, c, "login")
    BY <1>1, ApiIs, ConstantsAre
  <2> HIDE DEF p
  <2>2. p \in Served /\ p.pc = "sent" /\ p.by = c /\ p.op = "login" /\ p.status = "ok"
    BY <2>a DEF Asked
  <2>3. ShownAnswer(p, q, page[c].list, page'[c].list)
    BY <1>9, <2>1, <2>2 DEF ShownAnswer
  <2>4. ReplyEffect(r, p)
    BY <1>1, <1>9, <2>1, <2>2, <2>3 DEF ReplyEffect, c
  <2>5. QED
    BY <1>1, <2>2, <2>4 DEF c
<1>10. CASE q.heard /\ q.op = "login" /\ ok
  <2> DEFINE new == Api(c, "load", NoItem)
             p == [new EXCEPT !.token = q.token]
             shown == [page[c] EXCEPT !.token = q.token]
  <2>1. Set(r, p) /\ page' = [page EXCEPT ![c] = shown] /\ behind' = behind
    BY <1>10 DEF Reply, c, ok
  <2>a. Asked(new, c, "load")
    BY <1>1, ApiIs, ConstantsAre
  <2> HIDE DEF new
  <2>2. new \in Served /\ new.pc = "sent" /\ new.by = c /\ new.op = "load" /\ new.status = "ok" /\ new.heard = TRUE
    BY <2>a DEF Asked
  <2>3. p \in Served /\ p.pc = "sent" /\ p.by = c /\ p.op = "load" /\ p.status = "ok" /\ p.heard = TRUE
    BY <1>3, <2>2 DEF Served
  <2>4. shown \in Paged
    BY <1>1, <1>3 DEF Paged
  <2> HIDE DEF p, shown
  <2>5. page' \in [Client -> Paged] /\ \A d \in Client : d # c => page'[d] = page[d]
    BY <1>1, <2>1, <2>4
  <2>6. ShownAnswer(p, q, page[c].list, page'[c].list)
    BY <2>3 DEF ShownAnswer, Load, c
  <2>7. ReplyEffect(r, p)
    BY <1>10, <2>1, <2>3, <2>5, <2>6 DEF ReplyEffect, c
  <2>8. QED
    BY <1>1, <2>3, <2>7 DEF c
<1>11. CASE q.heard /\ q.op = "logout" /\ ok
  <2> DEFINE shown == [page[c] EXCEPT !.token = 0, !.list = <<>>]
  <2>1. Set(r, NoRequest) /\ page' = [page EXCEPT ![c] = shown] /\ behind' = behind \cup {c}
    BY <1>11 DEF Reply, c, ok
  <2>2. shown \in Paged
    <3>1. <<>> \in Seq(Record)
      OBVIOUS
    <3>2. QED
      BY <1>1, <3>1 DEF Paged
  <2> HIDE DEF shown
  <2>3. page' \in [Client -> Paged] /\ \A d \in Client : d # c => page'[d] = page[d]
    BY <1>1, <2>1, <2>2
  <2>4. ReplyEffect(r, NoRequest)
    BY <1>2, <1>11, <2>1, <2>3 DEF ReplyEffect, c
  <2>5. QED
    BY <1>1, <1>2, <2>4 DEF c
<1>12. CASE q.heard /\ q.op # "load" /\ ~ok
  <2>1. Set(r, NoRequest) /\ page' = page /\ behind' = behind
    BY <1>12 DEF Reply, ok
  <2>2. ShownAnswer(NoRequest, q, page[c].list, page'[c].list)
    BY <1>2, <1>12, <2>1 DEF ShownAnswer
  <2>3. ReplyEffect(r, NoRequest)
    BY <1>1, <1>2, <1>12, <2>1, <2>2 DEF ReplyEffect, c
  <2>4. QED
    BY <1>1, <1>2, <2>3 DEF c
<1>13. QED
  <2>1. q.op \in Op
    BY <1>1 DEF Served
  <2>2. QED
    BY <2>1, <1>5, <1>6, <1>7, <1>8, <1>9, <1>10, <1>11, <1>12, ConstantsAre

LEMMA CastIs ==
  ASSUME AppTyped, NEW r \in Request, Cast(r)
  PROVE  /\ req[r].pc = "cast"
         /\ Casts(req[r]) => CastItem(req[r]) \in Record
         /\ \E p \in Served : /\ Set(r, p) /\ Onward(p, req[r]) /\ p.pc = "answer"
                              /\ p.status = req[r].status
         /\ wire' \in [Client -> Seq(Pushed)]
         /\ \A c \in Client :
              wire'[c] = IF Casts(req[r]) /\ c \in live
                         THEN Append(wire[c], [type |-> Kind[req[r].op], item |-> CastItem(req[r])])
                         ELSE wire[c]
<1> DEFINE q == req[r]
           m == [type |-> Kind[q.op], item |-> CastItem(q)]
<1>1. q \in Served /\ q.pc = "cast" /\ q.op \in {"create", "update", "delete"}
  BY DEF AppTyped, Begun, Cast
<1>2. \E p \in Served : Set(r, p) /\ Onward(p, q) /\ p.pc = "answer" /\ p.status = q.status
  <2>1. Goto(r, "answer")
    BY DEF Cast
  <2>2. QED
    BY <2>1, GotoIs
<1>3. Casts(q) => CastItem(q) \in Record
  <2>1. q.item \in Record /\ q.got \in Seq(Record)
    BY <1>1 DEF Served
  <2>2. q.got # <<>> => Head(q.got) \in Record
    BY <2>1
  <2>3. QED
    BY <2>1, <2>2 DEF Casts, CastItem
<1>4. Casts(q) => m \in Pushed
  <2>1. Kind[q.op] \in {"created", "updated", "deleted"}
    BY <1>1 DEF Kind
  <2>2. QED
    BY <1>3, <2>1 DEF Pushed
<1>5. wire \in [Client -> Seq(Pushed)]
  BY DEF AppTyped
<1>6. CASE Casts(q)
  <2>1. wire' = [c \in Client |-> IF c \in live THEN Append(wire[c], m) ELSE wire[c]]
    BY <1>6 DEF Cast, Sent
  <2> HIDE DEF m
  <2>2. \A c \in Client : (IF c \in live THEN Append(wire[c], m) ELSE wire[c]) \in Seq(Pushed)
    BY <1>4, <1>5, <1>6
  <2>3. /\ wire' \in [Client -> Seq(Pushed)]
        /\ \A c \in Client : wire'[c] = IF c \in live THEN Append(wire[c], m) ELSE wire[c]
    BY <2>1, <2>2
  <2>4. QED
    BY <1>1, <1>2, <1>3, <1>6, <2>3 DEF m
<1>7. CASE ~Casts(q)
  <2>1. wire' = wire
    BY <1>7 DEF Cast
  <2>2. QED
    BY <1>1, <1>2, <1>5, <1>7, <2>1
<1>8. QED
  BY <1>6, <1>7

\* The first record that a store on the device has under an id.
LEMMA FirstOfIs ==
  ASSUME NEW s \in Seq(Record), NEW id
  PROVE  FirstOf(s, id) \in 0..Len(s)
<1> DEFINE I == {k \in 1..Len(s) : s[k].id = id}
<1>1. FirstOf(s, id) = IF I # {} THEN Min(I) ELSE 0
  BY DEF FirstOf, SelectInSeq
<1>2. Len(s) \in Nat /\ I \subseteq Nat /\ I \subseteq 1..Len(s)
  OBVIOUS
<1> HIDE DEF I
<1>3. CASE I # {}
  <2>1. \E n \in I : \A m \in I : n <= m
    BY <1>2, <1>3, LeastNumber
  <2>2. Min(I) \in I
    BY <2>1 DEF Min
  <2> DEFINE at == Min(I)
  <2>3. FirstOf(s, id) = at /\ at \in I
    BY <1>1, <1>3, <2>2
  <2> HIDE DEF at
  <2>4. at \in 1..Len(s)
    BY <1>2, <2>3
  <2>5. FirstOf(s, id) \in 1..Len(s)
    BY <2>3, <2>4
  <2>6. QED
    BY <1>2, <2>5
<1>4. CASE I = {}
  BY <1>1, <1>2, <1>4
<1>5. QED
  BY <1>3, <1>4

LEMMA LocalTyped ==
  ASSUME AppTyped, NEW c \in Client, LocalSave(c) \/ LocalRemove(c)
  PROVE  rows' \in Seq(Record) /\ page' \in [Client -> Paged] /\ saves' \in Nat
<1> DEFINE p == page[c]
<1>1. rows \in Seq(Record) /\ page \in [Client -> Paged] /\ p \in Paged /\ saves \in Nat
  BY DEF AppTyped
<1>2. p.list \in Seq(Record) /\ p.editing \in Nat
  BY <1>1 DEF Paged
<1>3. ASSUME NEW list \in Seq(Record)
      PROVE  [page EXCEPT ![c].list = list] \in [Client -> Paged]
  <2>1. [p EXCEPT !.list = list] \in Paged
    BY <1>1 DEF Paged
  <2>2. QED
    BY <1>1, <2>1
<1>4. ASSUME NEW list \in Seq(Record)
      PROVE  [page EXCEPT ![c].list = list, ![c].editing = 0] \in [Client -> Paged]
  <2>1. [p EXCEPT !.list = list, !.editing = 0] \in Paged
    BY <1>1 DEF Paged
  <2>2. [page EXCEPT ![c].list = list, ![c].editing = 0] = [page EXCEPT ![c] = [p EXCEPT !.list = list, !.editing = 0]]
    BY <1>1
  <2>3. QED
    BY <1>1, <2>1, <2>2
<1>5. CASE LocalSave(c)
  <2> DEFINE new == [id |-> Len(rows) + 1, val |-> saves + 1]
             old == [id |-> p.editing, val |-> saves + 1]
             at == FirstOf(rows, old.id)
  <2>1. new \in Record /\ old \in Record /\ saves' \in Nat
    BY <1>1, <1>2, <1>5 DEF Record, LocalSave
  <2>2. at \in 0..Len(rows)
    BY <1>1, FirstOfIs
  <2>3. \/ rows' = Append(rows, new) /\ page' = [page EXCEPT ![c].list = <<new>> \o p.list]
        \/ /\ at # 0 /\ rows' = [rows EXCEPT ![at] = old]
           /\ page' = [page EXCEPT ![c].list = Replaced(p.list, old), ![c].editing = 0]
        \/ rows' = rows /\ page' = page
    BY <1>5, <1>1 DEF LocalSave
  <2> HIDE DEF new, old, at
  <2>4. Append(rows, new) \in Seq(Record) /\ <<new>> \o p.list \in Seq(Record)
    BY <1>1, <1>2, <2>1
  <2>5. at # 0 => [rows EXCEPT ![at] = old] \in Seq(Record)
    BY <1>1, <2>1, <2>2
  <2>6. Replaced(p.list, old) \in Seq(Record)
    BY <1>2, <2>1, ReplacedIs
  <2>7. CASE rows' = Append(rows, new) /\ page' = [page EXCEPT ![c].list = <<new>> \o p.list]
    BY <2>1, <2>7, <1>3, <2>4
  <2>8. CASE /\ at # 0 /\ rows' = [rows EXCEPT ![at] = old]
             /\ page' = [page EXCEPT ![c].list = Replaced(p.list, old), ![c].editing = 0]
    BY <2>1, <2>8, <1>4, <2>5, <2>6
  <2>9. QED
    BY <1>1, <2>1, <2>3, <2>7, <2>8
<1>6. CASE LocalRemove(c)
  <2>1. PICK x \in ToSet(p.list) :
          /\ FirstOf(rows, x.id) # 0 /\ rows' = RemoveAt(rows, FirstOf(rows, x.id))
          /\ page' = [page EXCEPT ![c].list = Without(p.list, x.id)]
    BY <1>1, <1>6 DEF LocalRemove
  <2> DEFINE at == FirstOf(rows, x.id)
  <2>2. at \in 1..Len(rows)
    BY <1>1, <2>1, FirstOfIs
  <2> HIDE DEF at
  <2>3. RemoveAt(rows, at) \in Seq(Record)
    BY <1>1, <2>2 DEF RemoveAt
  <2>4. Without(p.list, x.id) \in Seq(Record)
    BY <1>2, WithoutIs
  <2>5. QED
    BY <1>1, <1>3, <1>6, <2>1, <2>3, <2>4 DEF at, LocalRemove
<1>7. QED
  BY <1>5, <1>6

-----------------------------------------------------------------------------
\* AppSpec keeps the types.

LEMMA AppInitTyped == AppInit => AppTyped
<1>1. SUFFICES ASSUME AppInit
               PROVE  AppTyped
  OBVIOUS
<1>2. <<>> \in Seq(Record) /\ <<>> \in Seq(Pushed)
  OBVIOUS
<1>3. req \in [Request -> Served] /\ \A r \in Request : Begun(req[r])
  BY <1>1, ConstantsAre DEF AppInit, Begun
<1>4. page \in [Client -> Paged]
  BY <1>1, ConstantsAre DEF AppInit
<1>5. wire \in [Client -> Seq(Pushed)]
  BY <1>1, <1>2 DEF AppInit
<1>6. rows \in Seq(Record) /\ lastId \in Nat /\ saves \in Nat
  BY <1>1, <1>2 DEF AppInit
<1>7. shape \in Shapes /\ account = NoOne /\ live = {} /\ behind = {}
  BY <1>1 DEF AppInit
<1>8. QED
  BY <1>3, <1>4, <1>5, <1>6, <1>7 DEF AppTyped

\* What most actions leave alone.
LEMMA RequestsTyped ==
  ASSUME AppTyped, req' \in [Request -> Served], \A r \in Request : Begun(req'[r]),
         wire' \in [Client -> Seq(Pushed)], page' \in [Client -> Paged], live' \subseteq Client,
         saves' \in Nat, behind' \subseteq Client, UNCHANGED <<shape, server>>
  PROVE  AppTyped'
BY DEF AppTyped, server, Begun

LEMMA AppStepTyped == AppTyped /\ [AppNext]_appVars => AppTyped'
<1> SUFFICES ASSUME AppTyped, [AppNext]_appVars
             PROVE  AppTyped'
  OBVIOUS
<1> USE ConstantsAre
<1>a. /\ wire \in [Client -> Seq(Pushed)] /\ page \in [Client -> Paged] /\ live \subseteq Client
      /\ saves \in Nat /\ behind \subseteq Client /\ req \in [Request -> Served]
      /\ rows \in Seq(Record) /\ lastId \in Nat
      /\ \A r \in Request : Begun(req[r])
  BY DEF AppTyped
\* A request made of one that was under way.
<1>b. ASSUME NEW r \in Request, NEW p \in Served, Set(r, p), p.by = req[r].by, p.op = req[r].op,
             req[r].pc # "free", p.pc \in {"read", "cast"} => p.op \in {"create", "update", "delete"}
      PROVE  req' \in [Request -> Served] /\ \A t \in Request : Begun(req'[t])
  <2>1. Begun(p)
    BY <1>b, <1>a DEF Begun
  <2>2. QED
    BY <1>b, <2>1, SetTyped
<1>1. CASE UNCHANGED appVars
  BY <1>1 DEF appVars, AppTyped, Begun
<1>2. ASSUME NEW r \in Request, NEW c \in Client, OpenPage(r, c)
      PROVE  AppTyped'
  <2>1. /\ req' \in [Request -> Served] /\ page' \in [Client -> Paged]
        /\ \A t \in Request : t # r \/ ~shape.backend => Unheard(req'[t], req[t])
        /\ shape.backend => Asked(req'[r], c, "load")
    BY <1>2, OpenPageIs
  <2>2. ASSUME NEW t \in Request
        PROVE  Begun(req'[t])
    <3>1. CASE t # r \/ ~shape.backend
      BY <1>a, <2>1, <3>1 DEF Unheard, Begun
    <3>2. CASE t = r /\ shape.backend
      BY <2>1, <3>2 DEF Asked, Begun
    <3>3. QED
      BY <3>1, <3>2
  <2>3. wire' \in [Client -> Seq(Pushed)]
    <3>1. <<>> \in Seq(Pushed)
      OBVIOUS
    <3>2. wire' = [wire EXCEPT ![c] = <<>>]
      BY <1>2 DEF OpenPage
    <3>3. QED
      BY <1>a, <3>1, <3>2
  <2>4. live' \subseteq Client /\ saves' = saves /\ behind' = behind /\ UNCHANGED <<shape, server>>
    BY <1>a, <1>2 DEF OpenPage
  <2>5. QED
    BY <1>a, <2>1, <2>2, <2>3, <2>4, RequestsTyped
<1>3. ASSUME NEW r \in Request, NEW c \in Client, NEW op \in Op, NEW item \in Record,
             Send(r, c, op, item), saves' \in Nat, UNCHANGED <<shape, server, live, wire, page, behind>>
      PROVE  AppTyped'
  <2>1. PICK p \in Served : Set(r, p) /\ p.pc = "sent" /\ p.by = c
    BY <1>3, SendIs
  <2>2. Begun(p)
    BY <2>1 DEF Begun
  <2>3. req' \in [Request -> Served] /\ \A t \in Request : Begun(req'[t])
    BY <2>1, <2>2, SetTyped
  <2>4. QED
    BY <1>a, <1>3, <2>3, RequestsTyped
<1>4. ASSUME NEW r \in Request, NEW c \in Client, Save(r, c)
      PROVE  AppTyped'
  <2> DEFINE e == page[c].editing
             op == IF e = 0 THEN "create" ELSE "update"
             item == [id |-> IF e = 0 THEN 1 ELSE e, val |-> saves + 1]
  <2>1. Send(r, c, op, item) /\ saves' = saves + 1 /\ UNCHANGED <<shape, server, live, wire, page, behind>>
    BY <1>4 DEF Save
  <2>2. e \in Nat
    BY <1>a DEF Paged
  <2>3. op \in Op /\ item \in Record /\ saves' \in Nat
    BY <1>a, <2>1, <2>2 DEF Record, Op
  <2> HIDE DEF op, item
  <2>4. QED
    BY <1>3, <2>1, <2>3
<1>5. ASSUME NEW r \in Request, NEW c \in Client, removeItem(r, c)
      PROVE  AppTyped'
  <2>1. PICK x \in ToSet(page[c].list) : Send(r, c, "delete", x)
    BY <1>5 DEF removeItem
  <2>2. x \in Record
    <3>1. page[c].list \in Seq(Record)
      BY <1>a DEF Paged
    <3>2. QED
      BY <3>1 DEF ToSet
  <2>3. "delete" \in Op /\ saves' = saves /\ UNCHANGED <<shape, server, live, wire, page, behind>>
    BY <1>5 DEF removeItem, Op
  <2>4. QED
    BY <1>a, <1>3, <2>1, <2>2, <2>3
<1>6. ASSUME NEW r \in Request, NEW c \in Client, NEW op \in {"register", "login", "logout"}, Account(r, c, op)
      PROVE  AppTyped'
  <2>1. /\ Send(r, c, op, NoItem) /\ saves' = saves /\ UNCHANGED <<shape, server, live, wire, page, behind>>
        /\ op \in Op
    BY <1>6 DEF Account, Op
  <2>2. QED
    BY <1>a, <1>3, <2>1
<1>7. ASSUME NEW r \in Request, Arrive(r)
      PROVE  AppTyped'
  <2>1. PICK p \in Served : Set(r, p) /\ Onward(p, req[r]) /\ p.pc \in {"answer", "write"}
    BY <1>7, ArriveIs
  <2>2. req[r].pc # "free"
    BY <1>7, ArriveIs
  <2>3. req' \in [Request -> Served] /\ \A t \in Request : Begun(req'[t])
    BY <1>b, <2>1, <2>2 DEF Onward
  <2>4. behind' \subseteq Client /\ UNCHANGED <<shape, account, rows, lastId, live, wire, page, saves, admitted>>
    BY <1>a, <1>7 DEF Arrive
  <2>5. QED
    BY <1>a, <2>3, <2>4 DEF AppTyped, Begun
<1>8. ASSUME NEW r \in Request, WriteAccount(r)
      PROVE  AppTyped'
  <2>1. /\ req[r].pc = "write"
        /\ account' = account \/ account' = req[r].by
    BY <1>8, WriteAccountIs
  <2>2. PICK p \in Served : Set(r, p) /\ Onward(p, req[r]) /\ p.pc = "answer"
    BY <1>8, WriteAccountIs
  <2>3. req' \in [Request -> Served] /\ \A t \in Request : Begun(req'[t])
    BY <1>b, <2>1, <2>2 DEF Onward
  <2>4. account' \in Client \cup {NoOne}
    BY <1>a, <2>1 DEF AppTyped, Begun
  <2>5. UNCHANGED <<shape, rows, lastId, live, wire, page, saves, behind>>
    BY <1>8 DEF WriteAccount
  <2>6. QED
    BY <1>a, <2>3, <2>4, <2>5 DEF AppTyped, Begun
<1>9. ASSUME NEW r \in Request, WriteRow(r)
      PROVE  AppTyped'
  <2>1. PICK p \in Served :
              /\ Set(r, p) /\ p.by = req[r].by /\ p.op = req[r].op
              /\ \/ /\ p.op = "create" /\ lastId' = lastId + 1
                    /\ rows' = Append(rows, [id |-> lastId + 1, val |-> req[r].item.val])
                 \/ p.op = "update" /\ lastId' = lastId /\ rows' = Replaced(rows, p.item)
                 \/ p.op = "delete" /\ lastId' = lastId /\ rows' = Without(rows, p.item.id)
    BY <1>9, WriteRowIs
  <2>2. req[r].pc # "free"
    BY <1>9, WriteRowIs
  <2>3. req' \in [Request -> Served] /\ \A t \in Request : Begun(req'[t])
    BY <1>b, <2>1, <2>2
  <2>4. rows' \in Seq(Record) /\ lastId' \in Nat
    <3>1. req[r].item.val \in Nat /\ p.item \in Record
      BY <1>a DEF Served, Record
    <3>2. CASE rows' = Append(rows, [id |-> lastId + 1, val |-> req[r].item.val]) /\ lastId' = lastId + 1
      <4>1. [id |-> lastId + 1, val |-> req[r].item.val] \in Record
        BY <1>a, <3>1 DEF Record
      <4>2. QED
        BY <1>a, <3>2, <4>1
    <3>3. CASE rows' = Replaced(rows, p.item) /\ lastId' = lastId
      BY <1>a, <3>1, <3>3, ReplacedIs
    <3>4. CASE rows' = Without(rows, p.item.id) /\ lastId' = lastId
      BY <1>a, <3>4, WithoutIs
    <3>5. QED
      BY <2>1, <3>2, <3>3, <3>4
  <2>5. UNCHANGED <<shape, account, live, wire, page, saves, behind>>
    BY <1>9 DEF WriteRow
  <2>6. QED
    BY <1>a, <2>3, <2>4, <2>5 DEF AppTyped, Begun
<1>10. ASSUME NEW r \in Request, ReadBack(r)
       PROVE  AppTyped'
  <2>1. PICK p \in Served : Set(r, p) /\ Onward(p, req[r]) /\ p.pc \in {"cast", "answer"}
    BY <1>10, ReadBackIs
  <2>2. req[r].pc = "read"
    BY <1>10, ReadBackIs
  <2>3. p.op \in {"create", "update", "delete"}
    BY <1>a, <2>1, <2>2 DEF Begun, Onward
  <2>4. req' \in [Request -> Served] /\ \A t \in Request : Begun(req'[t])
    BY <1>b, <2>1, <2>2, <2>3 DEF Onward
  <2>5. UNCHANGED <<shape, server, live, wire, page, saves, behind>>
    BY <1>10 DEF ReadBack
  <2>6. QED
    BY <1>a, <2>4, <2>5, RequestsTyped
<1>11. ASSUME NEW r \in Request, Cast(r)
       PROVE  AppTyped'
  <2>1. PICK p \in Served : Set(r, p) /\ Onward(p, req[r]) /\ p.pc = "answer"
    BY <1>11, CastIs
  <2>2. req[r].pc = "cast" /\ wire' \in [Client -> Seq(Pushed)]
    BY <1>11, CastIs
  <2>3. req' \in [Request -> Served] /\ \A t \in Request : Begun(req'[t])
    BY <1>b, <2>1, <2>2 DEF Onward
  <2>4. UNCHANGED <<shape, server, live, page, saves>> /\ behind' \subseteq Client
    BY <1>a, <1>11 DEF Cast
  <2>5. QED
    BY <1>a, <2>2, <2>3, <2>4, RequestsTyped
<1>12. ASSUME NEW r \in Request, Reply(r)
       PROVE  AppTyped'
  <2>1. req[r].pc = "answer" /\ req[r].by \in Client
    BY <1>12, ReplyIs
  <2>2. PICK p \in Served : ReplyEffect(r, p)
    BY <1>12, ReplyIs
  <2>3. Begun(p) /\ Set(r, p)
    BY <2>1, <2>2 DEF ReplyEffect, Begun
  <2>4. req' \in [Request -> Served] /\ \A t \in Request : Begun(req'[t])
    BY <2>3, SetTyped
  <2>5. page' \in [Client -> Paged] /\ behind' \subseteq Client
    BY <1>a, <2>1, <2>2 DEF ReplyEffect
  <2>6. UNCHANGED <<shape, server, live, wire, saves>>
    BY <1>12 DEF Reply
  <2>7. QED
    BY <1>a, <2>4, <2>5, <2>6, RequestsTyped
<1>13. ASSUME NEW r \in Request, Cut(r)
       PROVE  AppTyped'
  <2>1. Set(r, NoRequest) /\ req[r].pc # "free" /\ UNCHANGED <<shape, server, live, wire, page, saves>>
    BY <1>13 DEF Cut
  <2>2. Begun(NoRequest)
    BY DEF Begun
  <2>3. req' \in [Request -> Served] /\ \A t \in Request : Begun(req'[t])
    BY <2>1, <2>2, SetTyped
  <2>4. behind' \subseteq Client
    BY <1>a, <1>13 DEF Cut, Begun
  <2>5. QED
    BY <1>a, <2>1, <2>3, <2>4, RequestsTyped
<1>14. ASSUME NEW c \in Client, StartEdit(c)
       PROVE  AppTyped'
  <2>1. PICK x \in ToSet(page[c].list) : page' = [page EXCEPT ![c].editing = x.id]
    BY <1>14 DEF StartEdit
  <2>2. page[c] \in Paged /\ page[c].list \in Seq(Record)
    BY <1>a DEF Paged
  <2>3. x.id \in Nat
    <3>1. x \in Record
      BY <2>2 DEF ToSet
    <3>2. QED
      BY <3>1 DEF Record
  <2>4. [page[c] EXCEPT !.editing = x.id] \in Paged
    BY <2>2, <2>3 DEF Paged
  <2>5. page' \in [Client -> Paged]
    BY <1>a, <2>1, <2>4
  <2>6. UNCHANGED <<shape, server, req, live, wire, saves, behind>>
    BY <1>14 DEF StartEdit
  <2>7. QED
    BY <1>a, <2>5, <2>6, RequestsTyped
<1>15. ASSUME NEW c \in Client, Connect(c)
       PROVE  AppTyped'
  <2>1. live' \subseteq Client /\ UNCHANGED <<shape, server, req, wire, page, saves, behind>>
    BY <1>a, <1>15 DEF Connect
  <2>2. QED
    BY <1>a, <2>1, RequestsTyped
<1>16. ASSUME NEW c \in Client, Drop(c)
       PROVE  AppTyped'
  <2>1. /\ live' \subseteq Client /\ behind' \subseteq Client /\ wire' = [wire EXCEPT ![c] = <<>>]
        /\ UNCHANGED <<shape, server, req, page, saves>>
    BY <1>a, <1>16 DEF Drop
  <2>2. <<>> \in Seq(Pushed)
    OBVIOUS
  <2>3. wire' \in [Client -> Seq(Pushed)]
    BY <1>a, <2>1, <2>2
  <2>4. QED
    BY <1>a, <2>1, <2>3, RequestsTyped
<1>17. ASSUME NEW c \in Client, Deliver(c)
       PROVE  AppTyped'
  <2> DEFINE w == wire[c]
             list == Shown(page[c].list, Head(w))
  <2>1. /\ w # <<>> /\ wire' = [wire EXCEPT ![c] = Tail(w)] /\ page' = [page EXCEPT ![c].list = list]
        /\ behind' \subseteq Client /\ UNCHANGED <<shape, server, req, live, saves>>
    BY <1>a, <1>17 DEF Deliver
  <2>2. w \in Seq(Pushed) /\ page[c] \in Paged /\ page[c].list \in Seq(Record)
    BY <1>a DEF Paged
  <2>3. Tail(w) \in Seq(Pushed) /\ Head(w) \in Pushed
    BY <2>1, <2>2, TailIs
  <2>4. list \in Seq(Record)
    BY <2>2, <2>3, ShownIs
  <2> HIDE DEF list
  <2>5. [page[c] EXCEPT !.list = list] \in Paged
    BY <2>2, <2>4 DEF Paged
  <2>6. page' \in [Client -> Paged]
    BY <1>a, <2>1, <2>5
  <2>7. wire' \in [Client -> Seq(Pushed)]
    BY <1>a, <2>1, <2>3
  <2>8. QED
    BY <1>a, <2>1, <2>6, <2>7, RequestsTyped
<1>18. ASSUME NEW c \in Client, LocalSave(c) \/ LocalRemove(c)
       PROVE  AppTyped'
  <2>1. rows' \in Seq(Record) /\ page' \in [Client -> Paged] /\ saves' \in Nat
    BY <1>18, LocalTyped
  <2>2. UNCHANGED <<shape, account, lastId, req, live, wire, behind>>
    BY <1>18 DEF LocalSave, LocalRemove
  <2>3. QED
    BY <1>a, <2>1, <2>2 DEF AppTyped, Begun
<1>19. ASSUME NEW t \in Token, Expire(t)
       PROVE  AppTyped'
  <2>1. UNCHANGED <<shape, account, rows, lastId, req, live, wire, page, saves, behind>>
    BY <1>19 DEF Expire
  <2>2. QED
    BY <1>a, <2>1 DEF AppTyped, Begun
<1>20. QED
  BY <1>1, <1>2, <1>4, <1>5, <1>6, <1>7, <1>8, <1>9, <1>10, <1>11, <1>12, <1>13, <1>14, <1>15, <1>16,
     <1>17, <1>18, <1>19 DEF AppNext

LEMMA AccountStep == AppTyped /\ AccountInv /\ [AppNext]_appVars => AccountInv'
<1> SUFFICES ASSUME AppTyped, AccountInv, [AppNext]_appVars
             PROVE  AccountInv'
  OBVIOUS
<1>1. ASSUME UNCHANGED <<account, admitted>>
      PROVE  AccountInv'
  BY <1>1 DEF AccountInv
<1>2. ASSUME NEW r \in Request, WriteAccount(r)
      PROVE  AccountInv'
  <2>1. \/ account' = account /\ admitted' = admitted
        \/ account = NoOne /\ account' = req[r].by /\ admitted' = admitted \cup {req[r].by}
    BY <1>2, WriteAccountIs
  <2>2. req[r].pc = "write"
    BY <1>2, WriteAccountIs
  <2>3. req[r].by \in Client
    BY <2>2 DEF AppTyped, Begun
  <2>4. CASE account = NoOne /\ account' = req[r].by /\ admitted' = admitted \cup {req[r].by}
    BY <2>3, <2>4, ClientAssumption DEF AccountInv
  <2>5. QED
    BY <1>1, <2>1, <2>4
<1>3. ASSUME NEW r \in Request, NEW c \in Client,
             \/ OpenPage(r, c) \/ Save(r, c) \/ removeItem(r, c)
             \/ \E op \in {"register", "login", "logout"} : Account(r, c, op)
      PROVE  AccountInv'
  BY <1>1, <1>3 DEF OpenPage, Save, removeItem, Account, server
<1>4. ASSUME NEW r \in Request, Arrive(r) \/ WriteRow(r) \/ ReadBack(r) \/ Cast(r) \/ Reply(r) \/ Cut(r)
      PROVE  AccountInv'
  BY <1>1, <1>4 DEF Arrive, WriteRow, ReadBack, Cast, Reply, Cut, server
<1>5. ASSUME NEW c \in Client,
             \/ StartEdit(c) \/ Connect(c) \/ Drop(c) \/ Deliver(c) \/ LocalSave(c) \/ LocalRemove(c)
      PROVE  AccountInv'
  BY <1>1, <1>5 DEF StartEdit, Connect, Drop, Deliver, LocalSave, LocalRemove, server
<1>6. ASSUME NEW t \in Token, Expire(t)
      PROVE  AccountInv'
  BY <1>1, <1>6 DEF Expire
<1>7. CASE UNCHANGED appVars
  BY <1>1, <1>7 DEF appVars
<1>8. QED
  BY <1>2, <1>3, <1>4, <1>5, <1>6, <1>7 DEF AppNext

\* GeneratedApp keeps its types, and a request under way is some client's; AppTyped says of
\* them what does not depend on the bounds of the runs.
THEOREM AppTypeCorrect == AppSpec => []AppTyped
BY AppInitTyped, AppStepTyped, PTL DEF AppSpec

\* Whoever was told that the registration succeeded has the account: of two INSERTs of one
\* email the second fails (register, fullstack-codegen.js:251).
THEOREM RegisteredCanLogInHolds == AppSpec => []RegisteredCanLogIn
<1>1. AppInit => AccountInv
  BY DEF AppInit, AccountInv
<1>2. AppSpec => []AccountInv
  BY <1>1, AccountStep, AppTypeCorrect, PTL DEF AppSpec
<1>3. AccountInv => RegisteredCanLogIn
  BY DEF AccountInv, RegisteredCanLogIn
<1>4. QED
  BY <1>2, <1>3, PTL

-----------------------------------------------------------------------------
\* AppSpec keeps the invariant.

ComingKept(q, q2) ==
  \A op \in {"create", "update", "delete"}, x \in Nat : Coming(q, op, x) => Coming(q2, op, x)

LEMMA QuietPage ==
  ASSUME AppTyped, PagesInv, NEW c \in Client, c \notin behind, req' \in [Request -> Served],
         page'[c].list = page[c].list, wire'[c] = wire[c], rows' = rows, lastId' = lastId,
         ComingKept(req, req'), SameLoads(req, req', c)
  PROVE  PageFine(rows', req', wire'[c], lastId', page'[c].list, c)
<1>1. PageFine(rows, req, wire[c], lastId, page[c].list, c)
  BY DEF PagesInv
<1>2. /\ rows \in Seq(Record) /\ lastId \in Nat /\ req \in [Request -> Served]
      /\ wire[c] \in Seq(Pushed) /\ page[c].list \in Seq(Record)
  BY DEF AppTyped, Paged
<1>3. RowStep(rows, req, lastId, rows, req', lastId)
  BY <1>2 DEF RowStep, ComingKept
<1>4. PageFine(rows, req', wire[c], lastId, page[c].list, c)
  BY <1>1, <1>2, <1>3, RowStepPage
<1>5. QED
  BY <1>4

LEMMA SetKeepsComing ==
  ASSUME AppTyped, NEW r \in Request, NEW p \in Served, Set(r, p),
         req[r].pc \in {"read", "cast"} =>
           p.pc \in {"read", "cast"} /\ p.op = req[r].op /\ p.item.id = req[r].item.id
  PROVE  ComingKept(req, req')
<1>1. req'[r] = p /\ \A t \in Request : t # r => req'[t] = req[t]
  BY DEF AppTyped, Set
<1>2. SUFFICES ASSUME NEW op, NEW x, Coming(req, op, x)
               PROVE  Coming(req', op, x)
  BY DEF ComingKept
<1>3. PICK t \in Request : req[t].op = op /\ req[t].item.id = x /\ req[t].pc \in {"read", "cast"}
  BY <1>2 DEF Coming
<1>4. req'[t].op = op /\ req'[t].item.id = x /\ req'[t].pc \in {"read", "cast"}
  BY <1>1, <1>3
<1>5. QED
  BY <1>4 DEF Coming

LEMMA SetSameLoads ==
  ASSUME AppTyped, NEW r \in Request, NEW p \in Served, Set(r, p), NEW c,
         ~Load(p, c, {"sent", "answer"}), ~Load(req[r], c, {"sent", "answer"})
  PROVE  SameLoads(req, req', c)
<1>1. req'[r] = p /\ \A t \in Request : t # r => req'[t] = req[t]
  BY DEF AppTyped, Set
<1>2. SUFFICES ASSUME NEW t \in Request
               PROVE  /\ \A pc \in {"sent", "answer"} : Load(req'[t], c, {pc}) <=> Load(req[t], c, {pc})
                      /\ Load(req'[t], c, {"answer"}) => req'[t].status = req[t].status /\ req'[t].got = req[t].got
  BY DEF SameLoads
<1>3. CASE t = r
  <2>1. \A pc \in {"sent", "answer"} : ~Load(p, c, {pc}) /\ ~Load(req[r], c, {pc})
    BY DEF Load
  <2>2. QED
    BY <1>1, <1>3, <2>1
<1>4. CASE t # r
  BY <1>1, <1>4
<1>5. QED
  BY <1>3, <1>4

LEMMA SetStore ==
  ASSUME AppTyped, StoreInv, NEW r \in Request, NEW p \in Served, Set(r, p), Handled(p, rows, lastId),
         rows' = rows, lastId' = lastId
  PROVE  StoreInv'
<1>1. req'[r] = p /\ \A t \in Request : t # r => req'[t] = req[t]
  BY DEF AppTyped, Set
<1>2. \A t \in Request : Handled(req'[t], rows, lastId)
  BY <1>1 DEF StoreInv
<1>3. QED
  BY <1>2 DEF StoreInv

\* A step that changes no row, no message and no list.
LEMMA QuietSet ==
  ASSUME AppTyped, StoreInv, PagesInv, NEW r \in Request, NEW p \in Served, Set(r, p), Begun(p),
         Handled(p, rows, lastId),
         req[r].pc \in {"read", "cast"} =>
           p.pc \in {"read", "cast"} /\ p.op = req[r].op /\ p.item.id = req[r].item.id,
         \A c \in Client : c \notin behind' =>
           /\ c \notin behind /\ page'[c].list = page[c].list
           /\ ~Load(p, c, {"sent", "answer"}) /\ ~Load(req[r], c, {"sent", "answer"}),
         UNCHANGED <<rows, lastId, wire>>
  PROVE  StoreInv' /\ PagesInv'
<1>1. req' \in [Request -> Served]
  BY SetTyped
<1>2. ComingKept(req, req')
  BY SetKeepsComing
<1>3. StoreInv'
  BY SetStore
<1>4. ASSUME NEW c \in Client, c \notin behind'
      PROVE  PageFine(rows', req', wire'[c], lastId', page'[c].list, c)
  <2>1. c \notin behind /\ page'[c].list = page[c].list /\ SameLoads(req, req', c)
    BY <1>4, SetSameLoads
  <2>2. QED
    BY <1>1, <1>2, <2>1, QuietPage
<1>5. QED
  BY <1>3, <1>4 DEF PagesInv

LEMMA StoredShows ==
  ASSUME NEW s \in Seq(Record), NEW q, NEW w, NEW n \in Nat, NEW list \in Seq(Record),
         Numbered(s, n), ToSet(list) = ToSet(s)
  PROVE  Shows(s, q, w, n, list)
<1>1. \A y \in ToSet(s) : y.id \in 1..n
  BY DEF Numbered, ToSet
<1>2. Ids(list) = Ids(s)
  BY DEF Ids
<1>3. QED
  BY <1>1, <1>2 DEF Shows, AllFine, NoneMissing, Fine

LEMMA ArriveKeeps ==
  ASSUME AppTyped, StoreInv, PagesInv, NEW r \in Request, Arrive(r)
  PROVE  StoreInv' /\ PagesInv'
<1> DEFINE q == req[r]
<1>1. PICK p \in Served :
        /\ Set(r, p) /\ Onward(p, q)
        /\ \/ p.pc = "answer" /\ p.status # "ok"
           \/ /\ p.pc = "write" /\ p.status = q.status /\ q.op # "load"
              /\ q.op \in {"update", "delete"} => q.item.id \in Ids(rows)
           \/ /\ p.op = "load" /\ p.pc = "answer" /\ p.got = Reverse(rows)
  BY ArriveIs
<1>2. q.pc = "sent" /\ q \in Served /\ Begun(q) /\ Handled(q, rows, lastId) /\ q.status = "ok"
  <2>1. q.pc = "sent" /\ q \in Served /\ Begun(q)
    BY ArriveIs DEF AppTyped
  <2>2. Handled(q, rows, lastId)
    BY DEF StoreInv
  <2>3. QED
    BY <2>1, <2>2 DEF Handled
<1>3. /\ UNCHANGED <<rows, lastId, wire, page>>
      /\ behind' = IF q.op = "load" /\ q.heard /\ Calm(q.by) THEN behind \ {q.by} ELSE behind
  BY DEF Arrive
<1>4. Begun(p) /\ Handled(p, rows, lastId)
  <2>1. Begun(p)
    BY <1>1, <1>2 DEF Begun, Onward
  <2>2. q.op \in {"update", "delete"} /\ q.item.id \in Ids(rows) => q.item.id \in 1..lastId
    BY DEF StoreInv, Numbered, Ids, ToSet
  <2>3. Handled(p, rows, lastId)
    BY <1>1, <1>2, <2>2 DEF Handled, Onward
  <2>4. QED
    BY <2>1, <2>3
<1>5. CASE ~(q.op = "load" /\ q.heard)
  <2>1. \A c : ~Load(p, c, {"sent", "answer"}) /\ ~Load(q, c, {"sent", "answer"})
    BY <1>1, <1>5 DEF Load, Onward
  <2>2. behind' = behind
    BY <1>3, <1>5
  <2>3. QED
    BY <1>1, <1>2, <1>3, <1>4, <2>1, <2>2, QuietSet
<1>6. CASE q.op = "load" /\ q.heard
  <2> DEFINE by == q.by
  <2>1. req' \in [Request -> Served] /\ req'[r] = p /\ \A t \in Request : t # r => req'[t] = req[t]
    BY <1>1, <1>4, SetTyped
  <2>2. StoreInv'
    BY <1>1, <1>3, <1>4, SetStore
  <2>3. ComingKept(req, req')
    BY <1>1, <1>2, SetKeepsComing
  <2>4. ASSUME NEW c \in Client, c # by, c \notin behind'
        PROVE  PageFine(rows', req', wire'[c], lastId', page'[c].list, c)
    <3>1. c \notin behind
      BY <1>3, <2>4
    <3>2. ~Load(p, c, {"sent", "answer"}) /\ ~Load(q, c, {"sent", "answer"})
      BY <1>1, <2>4 DEF Load, Onward
    <3>3. SameLoads(req, req', c)
      BY <1>1, <3>2, SetSameLoads
    <3>4. QED
      BY <1>3, <2>1, <2>3, <3>1, <3>3, QuietPage
  <2>5. ASSUME by \in Client, by \notin behind'
        PROVE  PageFine(rows', req', wire'[by], lastId', page'[by].list, by)
    <3>1. rows \in Seq(Record) /\ lastId \in Nat /\ wire[by] \in Seq(Pushed) /\ req \in [Request -> Served]
      BY <2>5 DEF AppTyped
    <3>2. Load(req'[r], by, {"sent", "answer"})
      BY <1>1, <1>6, <2>1 DEF Load, Onward
    <3>3. req'[r].status = "ok" => req'[r].got = Reverse(rows)
      BY <1>1, <1>6, <2>1
    <3>4. Shows(rows, req', wire[by], lastId, Reverse(rows))
      BY <3>1, ReversedIs, StoredShows DEF StoreInv
    <3>5. CASE Calm(by)
      <4>1. wire[by] = <<>> /\ \A t \in Request : req[t].by = by => req[t].pc # "answer"
        BY <3>5 DEF Calm
      <4>2. WireFine(rows, req', wire[by], lastId)
        BY <4>1 DEF WireFine
      <4>3. \A t \in Request : t # r => ~Load(req'[t], by, {"answer"})
        BY <2>1, <4>1 DEF Load
      <4>4. \A t \in Request : Load(req'[t], by, {"answer"}) /\ req'[t].status = "ok" =>
              Shows(rows, req', wire[by], lastId, req'[t].got)
        BY <3>3, <3>4, <4>3
      <4>5. QED
        BY <1>3, <3>2, <4>2, <4>4 DEF PageFine
    <3>6. CASE by \notin behind
      <4>1. PageFine(rows, req, wire[by], lastId, page[by].list, by)
        BY <2>5, <3>6 DEF PagesInv
      <4>2. RowStep(rows, req, lastId, rows, req', lastId)
        BY <2>3, <3>1 DEF RowStep, ComingKept
      <4>3. WireFine(rows, req', wire[by], lastId)
        BY <3>1, <4>1, <4>2, RowStepWire DEF PageFine
      <4>4. ASSUME NEW t \in Request, t # r, Load(req'[t], by, {"answer"}), req'[t].status = "ok"
            PROVE  Shows(rows, req', wire[by], lastId, req'[t].got)
        <5>1. req'[t] = req[t] /\ req[t].got \in Seq(Record)
          BY <2>1, <3>1, <4>4 DEF Served
        <5>2. Shows(rows, req, wire[by], lastId, req[t].got)
          BY <4>1, <4>4, <5>1 DEF PageFine
        <5>3. QED
          BY <3>1, <4>2, <5>1, <5>2, RowStepShows
      <4>5. \A t \in Request : Load(req'[t], by, {"answer"}) /\ req'[t].status = "ok" =>
              Shows(rows, req', wire[by], lastId, req'[t].got)
        BY <3>3, <3>4, <4>4
      <4>6. QED
        BY <1>3, <3>2, <4>3, <4>5 DEF PageFine
    <3>7. QED
      BY <1>3, <2>5, <3>5, <3>6
  <2>6. QED
    BY <2>2, <2>4, <2>5 DEF PagesInv
<1>7. QED
  BY <1>5, <1>6

\* A change of the table, once it is shown to be a RowStep.
LEMMA RowStepKeeps ==
  ASSUME AppTyped, PagesInv, NEW r \in Request, NEW p \in Served, Set(r, p), Begun(p),
         rows' \in Seq(Record), lastId' \in Nat,
         RowStep(rows, req, lastId, rows', req', lastId'), UNCHANGED <<wire, page, behind>>,
         \A c : ~Load(p, c, {"sent", "answer"}) /\ ~Load(req[r], c, {"sent", "answer"})
  PROVE  PagesInv'
<1>1. req' \in [Request -> Served]
  BY SetTyped
<1>2. ASSUME NEW c \in Client, c \notin behind
      PROVE  PageFine(rows', req', wire[c], lastId', page[c].list, c)
  <2>1. PageFine(rows, req, wire[c], lastId, page[c].list, c)
    BY <1>2 DEF PagesInv
  <2>2. SameLoads(req, req', c)
    BY SetSameLoads
  <2>3. /\ rows \in Seq(Record) /\ lastId \in Nat /\ req \in [Request -> Served]
        /\ wire[c] \in Seq(Pushed) /\ page[c].list \in Seq(Record)
    BY DEF AppTyped, Paged
  <2>4. QED
    BY <1>1, <2>1, <2>2, <2>3, RowStepPage
<1>3. QED
  BY <1>2 DEF PagesInv

\* No id comes back.
LEMMA HandledKept ==
  ASSUME NEW q, NEW s, NEW n \in Nat, NEW s2, NEW n2 \in Nat, Handled(q, s, n), n <= n2,
         \A x \in Ids(s2) : x \in Ids(s) \/ x \notin 1..n,
         q.op \in {"create", "update"} /\ q.pc = "cast" => q.item.id \in 1..n
  PROVE  Handled(q, s2, n2)
<1>1. 1..n \subseteq 1..n2
  OBVIOUS
<1>2. \A x \in 1..n : x \notin Ids(s) => x \notin Ids(s2)
  OBVIOUS
<1>3. QED
  BY <1>1, <1>2 DEF Handled

LEMMA CreateKeeps ==
  ASSUME AppTyped, StoreInv, PagesInv, shape.realtime, NEW r \in Request, WriteRow(r), req[r].op = "create"
  PROVE  StoreInv' /\ PagesInv'
<1> DEFINE q == req[r]
           new == [id |-> lastId + 1, val |-> q.item.val]
<1>1. PICK p \in Served :
        /\ Set(r, p) /\ p.by = q.by /\ p.op = q.op /\ p.heard = q.heard /\ p.status = q.status
        /\ p.pc = "read" /\ p.item.id = lastId + 1 /\ lastId' = lastId + 1
        /\ rows' = Append(rows, new)
  BY WriteRowIs
<1>2. q.pc = "write" /\ q \in Served /\ Begun(q) /\ Handled(q, rows, lastId) /\ UNCHANGED <<wire, page, behind>>
  BY WriteRowIs DEF WriteRow, AppTyped, StoreInv
<1>3. PICK n \in Nat : n = lastId
  BY DEF AppTyped
<1>4. rows \in Seq(Record) /\ new \in Record /\ new.id = n + 1
  BY <1>2, <1>3 DEF AppTyped, Served, Record
<1>5. Numbered(rows, n)
  BY <1>3 DEF StoreInv
<1> DEFINE s2 == Append(rows, new)
<1>6. s2 \in Seq(Record) /\ ToSet(s2) = ToSet(rows) \cup {new}
  BY <1>4, AppendedIs
<1>7. Ids(s2) = Ids(rows) \cup {n + 1}
  BY <1>4, <1>6 DEF Ids
<1>8. Numbered(s2, n + 1)
  <2>1. n + 1 \notin Ids(rows) /\ \A y \in ToSet(rows) : y.id \in 1..n
    BY <1>5 DEF Numbered, Ids
  <2>2. Unique(s2)
    BY <1>4, <1>5, <2>1, AppendUnique DEF Numbered
  <2> HIDE DEF s2, new
  <2>3. \A y \in ToSet(s2) : y.id \in 1..(n + 1)
    BY <1>4, <1>6, <2>1
  <2>4. QED
    BY <2>2, <2>3 DEF Numbered
<1> HIDE DEF s2, new
<1>9. rows' = s2 /\ lastId' = n + 1 /\ p.item.id = n + 1
  BY <1>1, <1>3 DEF s2
<1>10. Begun(p)
  BY <1>1, <1>2 DEF Begun
<1>11. req' \in [Request -> Served] /\ req'[r] = p /\ \A t \in Request : t # r => req'[t] = req[t]
  BY <1>1, <1>10, SetTyped
<1>12. StoreInv'
  <2>1. ASSUME NEW t \in Request
        PROVE  Handled(req'[t], s2, n + 1)
    <3>1. CASE t = r
      <4>1. p.op = "create" /\ p.pc = "read" /\ p.status = "ok" /\ n + 1 \in 1..(n + 1)
        BY <1>1, <1>2 DEF Handled
      <4>2. Handled(p, s2, n + 1)
        BY <1>9, <4>1 DEF Handled
      <4>3. QED
        BY <1>11, <3>1, <4>2
    <3>2. CASE t # r
      <4>1. Handled(req[t], rows, n)
        BY <1>3 DEF StoreInv
      <4>2. req[t].op \in {"create", "update"} /\ req[t].pc = "cast" => req[t].item.id \in 1..n
        BY <4>1 DEF Handled
      <4>3. \A x \in Ids(s2) : x \in Ids(rows) \/ x \notin 1..n
        BY <1>7
      <4>4. Handled(req[t], s2, n + 1)
        BY <4>1, <4>2, <4>3, HandledKept
      <4>5. QED
        BY <1>11, <3>2, <4>4
    <3>3. QED
      BY <3>1, <3>2
  <2>2. QED
    BY <1>8, <1>9, <2>1 DEF StoreInv
<1>13. RowStep(rows, req, n, s2, req', n + 1)
  <2>1. ComingKept(req, req')
    BY <1>1, <1>2, SetKeepsComing
  <2>2. Coming(req', "create", n + 1)
    BY <1>1, <1>9, <1>11 DEF Coming
  <2>3. QED
    BY <1>6, <1>7, <2>1, <2>2 DEF RowStep, ComingKept
<1>14. \A c : ~Load(p, c, {"sent", "answer"}) /\ ~Load(q, c, {"sent", "answer"})
  BY <1>1 DEF Load
<1>15. PagesInv'
  BY <1>1, <1>2, <1>3, <1>6, <1>9, <1>10, <1>13, <1>14, RowStepKeeps
<1>16. QED
  BY <1>12, <1>15

LEMMA UpdateKeeps ==
  ASSUME AppTyped, StoreInv, PagesInv, shape.realtime, NEW r \in Request, WriteRow(r), req[r].op = "update"
  PROVE  StoreInv' /\ PagesInv'
<1> DEFINE q == req[r]
<1>1. PICK p \in Served :
        /\ Set(r, p) /\ p.by = q.by /\ p.op = q.op /\ p.heard = q.heard /\ p.status = q.status
        /\ p.pc = "read" /\ p.item = q.item /\ lastId' = lastId /\ rows' = Replaced(rows, p.item)
  BY WriteRowIs
<1>2. q.pc = "write" /\ q \in Served /\ Begun(q) /\ Handled(q, rows, lastId) /\ UNCHANGED <<wire, page, behind>>
  BY WriteRowIs DEF WriteRow, AppTyped, StoreInv
<1>3. rows \in Seq(Record) /\ lastId \in Nat /\ p.item \in Record
  BY DEF AppTyped, Served
<1> DEFINE s2 == Replaced(rows, p.item)
<1>a. s2 \in Seq(Record) /\ Len(s2) = Len(rows)
  BY <1>3, ReplacedIs
<1>b. Ids(s2) = Ids(rows)
  BY <1>3, ReplacedIs
<1>c. \A k \in DOMAIN rows : s2[k] = IF rows[k].id = p.item.id THEN p.item ELSE rows[k]
  BY <1>3 DEF Replaced
<1>d. \A y \in ToSet(rows) : y.id # p.item.id => y \in ToSet(s2)
  BY <1>3, ReplacedIs
<1> HIDE DEF s2
<1>4. /\ s2 \in Seq(Record) /\ Len(s2) = Len(rows) /\ Ids(s2) = Ids(rows)
      /\ \A k \in DOMAIN rows : s2[k] = IF rows[k].id = p.item.id THEN p.item ELSE rows[k]
      /\ \A y \in ToSet(rows) : y.id # p.item.id => y \in ToSet(s2)
  BY <1>a, <1>b, <1>c, <1>d
<1>5. Numbered(s2, lastId)
  <2>1. DOMAIN s2 = DOMAIN rows
    BY <1>3, <1>4
  <2>2. \A k \in DOMAIN rows : s2[k].id = rows[k].id
    BY <1>4
  <2>3. Unique(s2)
    BY <2>1, <2>2 DEF Numbered, Unique, StoreInv
  <2>4. \A x \in Ids(rows) : x \in 1..lastId
    BY DEF Ids, Numbered, StoreInv
  <2>5. \A y \in ToSet(s2) : y.id \in 1..lastId
    BY <1>4, <2>4 DEF Ids
  <2>6. QED
    BY <2>3, <2>5 DEF Numbered
<1>6. Begun(p)
  BY <1>1, <1>2 DEF Begun
<1>7. req' \in [Request -> Served] /\ req'[r] = p /\ \A t \in Request : t # r => req'[t] = req[t]
  BY <1>1, <1>6, SetTyped
<1>8. rows' = s2 /\ lastId' = lastId
  BY <1>1 DEF s2
<1>9. StoreInv'
  <2>1. ASSUME NEW t \in Request
        PROVE  Handled(req'[t], s2, lastId)
    <3>1. Handled(p, rows, lastId)
      BY <1>1, <1>2 DEF Handled
    <3>2. Handled(req'[t], rows, lastId)
      BY <1>7, <3>1 DEF StoreInv
    <3>3. QED
      BY <1>4, <3>2 DEF Handled
  <2>2. QED
    BY <1>5, <1>8, <2>1 DEF StoreInv
<1>10. RowStep(rows, req, lastId, s2, req', lastId)
  <2>1. ComingKept(req, req')
    BY <1>1, <1>2, SetKeepsComing
  <2>2. Coming(req', "update", p.item.id)
    BY <1>1, <1>7 DEF Coming
  <2>3. QED
    BY <1>3, <1>4, <2>1, <2>2 DEF RowStep, ComingKept
<1>11. \A c : ~Load(p, c, {"sent", "answer"}) /\ ~Load(q, c, {"sent", "answer"})
  BY <1>1 DEF Load
<1>12. PagesInv'
  BY <1>1, <1>2, <1>3, <1>4, <1>6, <1>8, <1>10, <1>11, RowStepKeeps
<1>13. QED
  BY <1>9, <1>12

LEMMA DeleteKeeps ==
  ASSUME AppTyped, StoreInv, PagesInv, shape.realtime, NEW r \in Request, WriteRow(r), req[r].op = "delete"
  PROVE  StoreInv' /\ PagesInv'
<1> DEFINE q == req[r]
<1>1. PICK p \in Served :
        /\ Set(r, p) /\ p.by = q.by /\ p.op = q.op /\ p.heard = q.heard /\ p.status = q.status
        /\ p.pc = "cast" /\ p.item = q.item /\ lastId' = lastId /\ rows' = Without(rows, p.item.id)
  BY WriteRowIs
<1>2. q.pc = "write" /\ q \in Served /\ Begun(q) /\ Handled(q, rows, lastId) /\ UNCHANGED <<wire, page, behind>>
  BY WriteRowIs DEF WriteRow, AppTyped, StoreInv
<1>3. rows \in Seq(Record) /\ lastId \in Nat /\ p.item \in Record
  BY DEF AppTyped, Served
<1> DEFINE s2 == Without(rows, p.item.id)
<1>4. s2 \in Seq(Record) /\ ToSet(s2) = {x \in ToSet(rows) : x.id # p.item.id}
  BY <1>3, WithoutIs
<1>5. Numbered(s2, lastId)
  BY <1>3, <1>4, WithoutIs DEF StoreInv, Numbered
<1> HIDE DEF s2
<1>6. Ids(s2) = Ids(rows) \ {p.item.id}
  BY <1>4 DEF Ids
<1>7. Begun(p)
  BY <1>1, <1>2 DEF Begun
<1>8. req' \in [Request -> Served] /\ req'[r] = p /\ \A t \in Request : t # r => req'[t] = req[t]
  BY <1>1, <1>7, SetTyped
<1>9. rows' = s2 /\ lastId' = lastId
  BY <1>1 DEF s2
<1>10. StoreInv'
  <2>1. ASSUME NEW t \in Request
        PROVE  Handled(req'[t], s2, lastId)
    <3>1. CASE t = r
      <4>1. Handled(p, s2, lastId)
        BY <1>1, <1>2, <1>6 DEF Handled
      <4>2. QED
        BY <1>8, <3>1, <4>1
    <3>2. CASE t # r
      <4>1. Handled(req[t], rows, lastId)
        BY DEF StoreInv
      <4>2. req[t].op \in {"create", "update"} /\ req[t].pc = "cast" => req[t].item.id \in 1..lastId
        BY <4>1 DEF Handled
      <4>3. \A x \in Ids(s2) : x \in Ids(rows) \/ x \notin 1..lastId
        BY <1>6
      <4>4. Handled(req[t], s2, lastId)
        BY <1>3, <4>1, <4>2, <4>3, HandledKept
      <4>5. QED
        BY <1>8, <3>2, <4>4
    <3>3. QED
      BY <3>1, <3>2
  <2>2. QED
    BY <1>5, <1>9, <2>1 DEF StoreInv
<1>11. RowStep(rows, req, lastId, s2, req', lastId)
  <2>1. ComingKept(req, req')
    BY <1>1, <1>2, SetKeepsComing
  <2>2. Coming(req', "delete", p.item.id)
    BY <1>1, <1>8 DEF Coming
  <2>3. \A y \in ToSet(rows) : y \in ToSet(s2) \/ y.id \notin Ids(s2)
    BY <1>4, <1>6
  <2>4. \A x \in Ids(rows) : x \in Ids(s2) \/ x = p.item.id
    BY <1>6
  <2>5. QED
    BY <1>3, <1>6, <2>1, <2>2, <2>3, <2>4 DEF RowStep, ComingKept
<1>12. \A c : ~Load(p, c, {"sent", "answer"}) /\ ~Load(q, c, {"sent", "answer"})
  BY <1>1 DEF Load
<1>13. PagesInv'
  BY <1>1, <1>2, <1>3, <1>4, <1>7, <1>9, <1>11, <1>12, RowStepKeeps
<1>14. QED
  BY <1>10, <1>13

LEMMA ReadBackKeeps ==
  ASSUME AppTyped, StoreInv, PagesInv, shape.realtime, NEW r \in Request, ReadBack(r)
  PROVE  StoreInv' /\ PagesInv'
<1> DEFINE q == req[r]
<1>1. PICK p \in Served :
        /\ Set(r, p) /\ Onward(p, q) /\ p.pc = "cast" /\ p.status = q.status
        /\ p.got = Find(rows, p.item.id)
  BY ReadBackIs
<1>2. q.pc = "read" /\ q \in Served /\ Begun(q) /\ Handled(q, rows, lastId) /\ q.op \in {"create", "update"}
  <2>1. q.pc = "read" /\ q \in Served /\ Begun(q) /\ Handled(q, rows, lastId)
    BY ReadBackIs DEF AppTyped, StoreInv
  <2>2. QED
    BY <2>1 DEF Begun, Handled
<1>3. rows \in Seq(Record)
  BY DEF AppTyped
<1>4. Begun(p)
  BY <1>1, <1>2 DEF Begun, Onward
<1>5. IF p.got = <<>> THEN p.item.id \notin Ids(rows) ELSE p.got[1].id = p.item.id
  BY <1>1, <1>3, FoundIs
<1>6. Handled(p, rows, lastId)
  BY <1>1, <1>2, <1>5 DEF Handled, Onward
<1>7. \A c : ~Load(p, c, {"sent", "answer"}) /\ ~Load(q, c, {"sent", "answer"})
  BY <1>1, <1>2 DEF Load
<1>8. UNCHANGED <<rows, lastId, wire, page, behind>>
  BY DEF ReadBack, server
<1>9. QED
  BY <1>1, <1>2, <1>4, <1>6, <1>7, <1>8, QuietSet DEF Onward

LEMMA CastKeeps ==
  ASSUME AppTyped, StoreInv, PagesInv, NEW r \in Request, Cast(r)
  PROVE  StoreInv' /\ PagesInv'
<1> DEFINE q == req[r]
           m == [type |-> Kind[q.op], item |-> CastItem(q)]
<1>1. PICK p \in Served : Set(r, p) /\ Onward(p, q) /\ p.pc = "answer" /\ p.status = q.status
  BY CastIs
<1>2. /\ q.pc = "cast" /\ (Casts(q) => CastItem(q) \in Record)
      /\ wire' \in [Client -> Seq(Pushed)]
      /\ \A c \in Client : wire'[c] = IF Casts(q) /\ c \in live THEN Append(wire[c], m) ELSE wire[c]
  BY CastIs
<1>3. q \in Served /\ Begun(q) /\ Handled(q, rows, lastId) /\ q.op \in {"create", "update", "delete"}
      /\ q.status = "ok" /\ q.got \in Seq(Record)
  <2>1. q \in Served /\ Begun(q) /\ Handled(q, rows, lastId)
    BY DEF AppTyped, StoreInv
  <2>2. QED
    BY <1>2, <2>1 DEF Begun, Handled, Served
<1>4. /\ UNCHANGED <<rows, lastId, page>>
      /\ behind' = IF Casts(q) /\ Overtaken(q) THEN Client ELSE behind \cup (Client \ live)
  BY DEF Cast, server
<1>5. Begun(p) /\ Handled(p, rows, lastId)
  BY <1>1, <1>2, <1>3 DEF Begun, Handled, Onward
<1>6. req' \in [Request -> Served] /\ req'[r] = p /\ \A t \in Request : t # r => req'[t] = req[t]
  BY <1>1, <1>5, SetTyped
<1>7. StoreInv'
  BY <1>1, <1>4, <1>5, SetStore
<1>8. \A c : ~Load(p, c, {"sent", "answer"}) /\ ~Load(q, c, {"sent", "answer"})
  BY <1>1, <1>3 DEF Load, Onward
<1>9. ASSUME NEW op, NEW x, Coming(req, op, x), ~Coming(req', op, x)
      PROVE  op = q.op /\ x = q.item.id
  BY <1>6, <1>9 DEF Coming
<1>10. ASSUME NEW c \in Client, c \notin behind'
       PROVE  PageFine(rows, req', wire'[c], lastId, page[c].list, c)
  <2> DEFINE w == wire[c]
             w2 == wire'[c]
  <2>1. c \notin behind /\ c \in live /\ (Casts(q) => ~Overtaken(q))
    BY <1>4, <1>10
  <2>2. w \in Seq(Pushed) /\ w2 \in Seq(Pushed) /\ page[c].list \in Seq(Record) /\ req \in [Request -> Served]
        /\ rows \in Seq(Record) /\ lastId \in Nat
    BY <1>2 DEF AppTyped, Paged
  <2>3. w2 = IF Casts(q) THEN Append(w, m) ELSE w
    BY <1>2, <2>1
  <2>4. CastStep(rows, req, req', w, w2)
    <3>1. CASE Casts(q)
      <4>1. w2 = Append(w, m)
        BY <2>3, <3>1
      <4>2. m.type = Kind[q.op] /\ m.item = CastItem(q)
        OBVIOUS
      <4> DEFINE n == Len(w)
      <4> HIDE DEF w, w2, m
      <4>3. n \in Nat /\ Len(w2) = n + 1 /\ w2[n + 1] = m /\ \A j \in DOMAIN w : w2[j] = w[j]
        BY <2>2, <4>1
      <4>4. DOMAIN w2 = 1..(n + 1)
        BY <2>2, <4>3
      <4> HIDE DEF n
      <4>5. \A j \in DOMAIN w2 : j > n => j = n + 1
        BY <4>3, <4>4
      <4>6. CastItem(q).id = q.item.id
        <5>1. q.op # "delete" => q.got # <<>> /\ q.got[1].id = q.item.id
          BY <1>2, <1>3, <3>1 DEF Casts, Handled
        <5>2. q.got # <<>> => Head(q.got) = q.got[1]
          BY <1>3
        <5>3. QED
          BY <5>1, <5>2 DEF CastItem
      <4>7. q.op # "delete" => m.item \in ToSet(rows)
        BY <2>1, <3>1, <4>2 DEF Overtaken, Stored
      <4>8. m.type = "deleted" <=> q.op = "delete"
        BY <1>3, <4>2 DEF Kind
      <4>9. n + 1 \in DOMAIN w2 /\ n + 1 > n
        BY <4>3, <4>4
      <4>10. Len(w) <= Len(w2)
        BY <4>3 DEF n
      <4>11. ASSUME NEW op \in {"create", "update", "delete"}, NEW x \in Nat, Coming(req, op, x)
             PROVE  \/ Coming(req', op, x)
                    \/ \E j \in DOMAIN w2 : j > Len(w) /\ w2[j].type = Kind[op] /\ w2[j].item.id = x
        BY <1>9, <4>2, <4>3, <4>6, <4>9, <4>11 DEF n
      <4>12. ASSUME NEW j \in DOMAIN w2, j > Len(w)
             PROVE  IF w2[j].type = "deleted"
                    THEN \E t \in Request : w2[j].item.id = req[t].item.id /\ req[t].op = "delete" /\ req[t].pc = "cast"
                    ELSE w2[j].item \in ToSet(rows)
        <5>1. w2[j] = m
          BY <4>3, <4>5, <4>12 DEF n
        <5>2. QED
          BY <1>2, <4>2, <4>6, <4>7, <4>8, <5>1
      <4>13. QED
        BY <4>3, <4>10, <4>11, <4>12 DEF CastStep
    <3>2. CASE ~Casts(q)
      <4>1. q.op # "delete" /\ q.item.id \notin Ids(rows)
        BY <1>2, <1>3, <3>2 DEF Casts, Handled
      <4>2. w2 = w
        BY <2>3, <3>2
      <4>3. ASSUME NEW op, NEW x, Coming(req, op, x)
            PROVE  Coming(req', op, x) \/ (op # "delete" /\ x \notin Ids(rows))
        BY <1>9, <4>1, <4>3
      <4>4. Len(w) \in Nat /\ DOMAIN w = 1..Len(w)
        BY <2>2
      <4> HIDE DEF w, w2
      <4>5. \A j \in DOMAIN w2 : ~(j > Len(w))
        BY <4>2, <4>4
      <4>6. Len(w) <= Len(w2)
        BY <4>2, <4>4
      <4>7. QED
        BY <4>2, <4>3, <4>5, <4>6 DEF CastStep
    <3>3. QED
      BY <3>1, <3>2
  <2>5. SameLoads(req, req', c)
    BY <1>1, <1>8, SetSameLoads
  <2>6. PageFine(rows, req, w, lastId, page[c].list, c)
    BY <2>1 DEF PagesInv
  <2>7. Numbered(rows, lastId) /\ \A t \in Request : Handled(req[t], rows, lastId)
    BY DEF StoreInv
  <2> HIDE DEF w, w2
  <2>8. PageFine(rows, req', w2, lastId, page[c].list, c)
    BY <1>6, <2>2, <2>4, <2>5, <2>6, <2>7, CastStepPage
  <2>9. QED
    BY <2>8 DEF w2
<1>11. PagesInv'
  BY <1>4, <1>10 DEF PagesInv
<1>12. QED
  BY <1>7, <1>11

LEMMA DeliverKeeps ==
  ASSUME AppTyped, StoreInv, PagesInv, NEW c \in Client, Deliver(c)
  PROVE  StoreInv' /\ PagesInv'
<1> DEFINE w == wire[c]
           list == Shown(page[c].list, Head(w))
<1>1. /\ w # <<>> /\ wire' = [wire EXCEPT ![c] = Tail(w)] /\ page' = [page EXCEPT ![c].list = list]
      /\ behind' = IF Loading(c) THEN behind \cup {c} ELSE behind
      /\ UNCHANGED <<rows, lastId, req>>
  BY DEF Deliver, server
<1>2. /\ wire \in [Client -> Seq(Pushed)] /\ page \in [Client -> Paged] /\ req \in [Request -> Served]
      /\ rows \in Seq(Record) /\ lastId \in Nat
  BY DEF AppTyped
<1>3. w \in Seq(Pushed) /\ page[c].list \in Seq(Record) /\ Head(w) = w[1] /\ Tail(w) \in Seq(Pushed)
  BY <1>1, <1>2, TailIs DEF Paged
<1>4. StoreInv'
  BY <1>1 DEF StoreInv
<1>5. ASSUME NEW d \in Client, d # c, d \notin behind'
      PROVE  PageFine(rows, req, wire'[d], lastId, page'[d].list, d)
  <2>1. d \notin behind /\ wire'[d] = wire[d] /\ page'[d] = page[d]
    BY <1>1, <1>2, <1>5
  <2>2. QED
    BY <2>1 DEF PagesInv
<1>6. ASSUME c \notin behind'
      PROVE  PageFine(rows, req, wire'[c], lastId, page'[c].list, c)
  <2>1. c \notin behind /\ ~Loading(c)
    BY <1>1, <1>6
  <2>2. \A r \in Request : ~Load(req[r], c, {"answer"})
    BY <2>1 DEF Loading, Load
  <2>3. PageFine(rows, req, w, lastId, page[c].list, c)
    BY <2>1 DEF PagesInv
  <2>4. PageFine(rows, req, Tail(w), lastId, Shown(page[c].list, w[1]), c)
    BY <1>1, <1>2, <1>3, <2>2, <2>3, DeliveredPage
  <2>5. wire'[c] = Tail(w)
    BY <1>1, <1>2
  <2> DEFINE shown == list
  <2> HIDE DEF list
  <2>6. page'[c].list = list
    BY <1>1, <1>2 DEF Paged
  <2>7. QED
    BY <1>3, <2>4, <2>5, <2>6 DEF list
<1>7. PagesInv'
  BY <1>1, <1>5, <1>6 DEF PagesInv
<1>8. QED
  BY <1>4, <1>7

LEMMA CutKeeps ==
  ASSUME AppTyped, StoreInv, PagesInv, NEW r \in Request, Cut(r)
  PROVE  StoreInv' /\ PagesInv'
<1> USE ConstantsAre
<1>1. /\ Set(r, NoRequest) /\ UNCHANGED <<rows, lastId, wire, page>>
      /\ behind' = IF req[r].pc \in {"read", "cast"} THEN Client
                   ELSE IF req[r].op = "load" THEN behind \cup {req[r].by} ELSE behind
  BY DEF Cut, server
<1>2. Begun(NoRequest) /\ Handled(NoRequest, rows, lastId)
  BY DEF Begun, Handled
<1>3. StoreInv'
  BY <1>1, <1>2, SetStore
<1>4. CASE req[r].pc \in {"read", "cast"}
  <2>1. \A c \in Client : c \in behind'
    BY <1>1, <1>4
  <2>2. QED
    BY <1>3, <2>1 DEF PagesInv
<1>5. CASE req[r].pc \notin {"read", "cast"}
  <2>1. ASSUME NEW c \in Client, c \notin behind'
        PROVE  c \notin behind /\ ~Load(NoRequest, c, {"sent", "answer"}) /\ ~Load(req[r], c, {"sent", "answer"})
    BY <1>1, <1>5, <2>1 DEF Load
  <2>2. QED
    BY <1>1, <1>2, <1>5, <2>1, QuietSet
<1>6. QED
  BY <1>4, <1>5

LEMMA OpenPageKeeps ==
  ASSUME AppTyped, StoreInv, PagesInv, shape.backend, NEW r \in Request, NEW c \in Client, OpenPage(r, c)
  PROVE  StoreInv' /\ PagesInv'
<1>1. /\ req[r].pc = "free" /\ req' \in [Request -> Served]
      /\ \A t \in Request : t # r =>
           /\ Unheard(req'[t], req[t])
           /\ req[t].by = c => req'[t].heard = FALSE
           /\ req[t].by # c => req'[t] = req[t]
      /\ Asked(req'[r], c, "load")
      /\ \A d \in Client : d # c => page'[d] = page[d]
  BY OpenPageIs
<1>2. UNCHANGED <<rows, lastId, behind>> /\ wire' = [wire EXCEPT ![c] = <<>>]
  BY DEF OpenPage, server
<1>3. StoreInv'
  <2>1. ASSUME NEW t \in Request
        PROVE  Handled(req'[t], rows, lastId)
    <3>1. CASE t = r
      BY <1>1, <3>1 DEF Asked, Handled
    <3>2. CASE t # r
      <4>1. Handled(req[t], rows, lastId)
        BY DEF StoreInv
      <4>2. QED
        BY <1>1, <3>2, <4>1 DEF Unheard, Handled
    <3>3. QED
      BY <3>1, <3>2
  <2>2. QED
    BY <1>2, <2>1 DEF StoreInv
<1>4. ComingKept(req, req')
  <2>1. SUFFICES ASSUME NEW op, NEW x, Coming(req, op, x)
                 PROVE  Coming(req', op, x)
    BY DEF ComingKept
  <2>2. PICK t \in Request : req[t].op = op /\ req[t].item.id = x /\ req[t].pc \in {"read", "cast"}
    BY <2>1 DEF Coming
  <2>3. t # r
    BY <1>1, <2>2
  <2>4. QED
    BY <1>1, <2>2, <2>3 DEF Unheard, Coming
<1>5. ASSUME NEW d \in Client, d # c, d \notin behind
      PROVE  PageFine(rows', req', wire'[d], lastId', page'[d].list, d)
  <2>1. SameLoads(req, req', d)
    <3>1. SUFFICES ASSUME NEW t \in Request
                   PROVE  /\ \A pc \in {"sent", "answer"} : Load(req'[t], d, {pc}) <=> Load(req[t], d, {pc})
                          /\ Load(req'[t], d, {"answer"}) => req'[t].status = req[t].status /\ req'[t].got = req[t].got
      BY DEF SameLoads
    <3>2. CASE t = r
      <4>1. \A pc \in {"sent", "answer"} : ~Load(req'[t], d, {pc}) /\ ~Load(req[t], d, {pc})
        BY <1>1, <1>5, <3>2 DEF Load, Asked
      <4>2. QED
        BY <4>1
    <3>3. CASE t # r
      BY <1>1, <1>5, <3>3 DEF Unheard, Load
    <3>4. QED
      BY <3>2, <3>3
  <2>2. wire'[d] = wire[d] /\ page'[d] = page[d]
    BY <1>1, <1>2, <1>5 DEF AppTyped
  <2>3. QED
    BY <1>1, <1>2, <1>4, <1>5, <2>1, <2>2, QuietPage
<1>6. PageFine(rows', req', wire'[c], lastId', page'[c].list, c)
  <2>1. wire'[c] = <<>>
    BY <1>2 DEF AppTyped
  <2>2. WireFine(rows', req', wire'[c], lastId')
    BY <2>1 DEF WireFine
  <2>3. \A t \in Request : ~Load(req'[t], c, {"answer"})
    BY <1>1 DEF Unheard, Load, Asked
  <2>4. Load(req'[r], c, {"sent", "answer"})
    BY <1>1 DEF Load, Asked
  <2>5. QED
    BY <2>2, <2>3, <2>4 DEF PageFine
<1>7. PagesInv'
  BY <1>2, <1>5, <1>6 DEF PagesInv
<1>8. QED
  BY <1>3, <1>7

\* A list that is shown a record that is stored.
LEMMA StoredItemShows ==
  ASSUME NEW s \in Seq(Record), NEW q, NEW w, NEW n \in Nat, NEW list \in Seq(Record), NEW list2,
         Numbered(s, n), Shows(s, q, w, n, list), NEW y \in ToSet(s), y \in Record,
         list2 = Replaced(list, y) \/ list2 = <<y>> \o list
  PROVE  Shows(s, q, w, n, list2)
<1>1. y.id \in 1..n
  BY DEF Numbered
<1>2. Fine(s, q, w, n, 0, y)
  BY <1>1 DEF Fine
<1>3. \A z \in ToSet(list2) : z = y \/ z \in ToSet(list)
  <2>1. CASE list2 = Replaced(list, y)
    BY <2>1, ReplacedIs
  <2>2. CASE list2 = <<y>> \o list
    BY <2>2, PrependedIs
  <2>3. QED
    BY <2>1, <2>2
<1>4. Ids(list) \subseteq Ids(list2)
  <2>1. CASE list2 = Replaced(list, y)
    BY <2>1, ReplacedIs
  <2>2. CASE list2 = <<y>> \o list
    BY <2>2, PrependedIs DEF Ids
  <2>3. QED
    BY <2>1, <2>2
<1>5. AllFine(s, q, w, n, list2)
  BY <1>2, <1>3 DEF Shows, AllFine
<1>6. NoneMissing(s, q, w, list2)
  BY <1>4 DEF Shows, NoneMissing
<1>7. QED
  BY <1>5, <1>6 DEF Shows

\* A list that loses a record that is not stored.
LEMMA GoneShows ==
  ASSUME NEW s \in Seq(Record), NEW q, NEW w, NEW n \in Nat, NEW list \in Seq(Record),
         Shows(s, q, w, n, list), NEW x, x \notin Ids(s)
  PROVE  Shows(s, q, w, n, Without(list, x))
<1> DEFINE list2 == Without(list, x)
<1>1. ToSet(list2) = {y \in ToSet(list) : y.id # x}
  BY WithoutIs
<1> HIDE DEF list2
<1>2. \A z \in Ids(list) : z # x => z \in Ids(list2)
  BY <1>1 DEF Ids
<1>3. AllFine(s, q, w, n, list2)
  BY <1>1 DEF Shows, AllFine
<1>4. NoneMissing(s, q, w, list2)
  BY <1>2 DEF Shows, NoneMissing
<1>5. Shows(s, q, w, n, list2)
  BY <1>3, <1>4 DEF Shows
<1>6. QED
  BY <1>5 DEF list2

\* A page whose list changes with one of its requests.
LEMMA ListShown ==
  ASSUME AppTyped, PagesInv, NEW c \in Client, c \notin behind, NEW r \in Request, NEW p \in Served,
         Set(r, p), Begun(p), req[r].pc \notin {"read", "cast"}, ~Load(p, c, {"answer"}),
         NEW list \in Seq(Record),
         ~Load(p, c, {"sent"}) /\ (\A t \in Request : t # r => ~Load(req[t], c, {"sent", "answer"})) =>
           Shows(rows, req, wire[c], lastId, list)
  PROVE  PageFine(rows, req', wire[c], lastId, list, c)
<1>1. req' \in [Request -> Served] /\ req'[r] = p /\ \A t \in Request : t # r => req'[t] = req[t]
  BY SetTyped
<1>2. PageFine(rows, req, wire[c], lastId, page[c].list, c)
  BY DEF PagesInv
<1>3. rows \in Seq(Record) /\ lastId \in Nat /\ wire[c] \in Seq(Pushed) /\ req \in [Request -> Served]
  BY DEF AppTyped
<1>4. ComingKept(req, req')
  BY SetKeepsComing
<1>5. RowStep(rows, req, lastId, rows, req', lastId)
  BY <1>3, <1>4 DEF RowStep, ComingKept
<1>6. WireFine(rows, req', wire[c], lastId)
  BY <1>2, <1>3, <1>5, RowStepWire DEF PageFine
<1>7. ASSUME NEW t \in Request, Load(req'[t], c, {"answer"}), req'[t].status = "ok"
      PROVE  Shows(rows, req', wire[c], lastId, req'[t].got)
  <2>1. t # r /\ req'[t] = req[t]
    BY <1>1, <1>7
  <2>2. req[t].got \in Seq(Record)
    BY <1>3 DEF Served
  <2>3. Shows(rows, req, wire[c], lastId, req[t].got)
    BY <1>2, <1>7, <2>1 DEF PageFine
  <2>4. QED
    BY <1>3, <1>5, <2>1, <2>2, <2>3, RowStepShows
<1>8. ASSUME \A t \in Request : ~Load(req'[t], c, {"sent", "answer"})
      PROVE  Shows(rows, req', wire[c], lastId, list)
  <2>1. ~Load(p, c, {"sent", "answer"})
    BY <1>1, <1>8
  <2>2. ~Load(p, c, {"sent"})
    BY <2>1 DEF Load
  <2>3. \A t \in Request : t # r => ~Load(req[t], c, {"sent", "answer"})
    BY <1>1, <1>8
  <2>4. Shows(rows, req, wire[c], lastId, list)
    BY <2>2, <2>3
  <2>5. QED
    BY <1>3, <1>5, <2>4, RowStepShows
<1>9. QED
  BY <1>6, <1>7, <1>8 DEF PageFine

LEMMA ReplyKeeps ==
  ASSUME AppTyped, StoreInv, PagesInv, NEW r \in Request, Reply(r)
  PROVE  StoreInv' /\ PagesInv'
<1> DEFINE q == req[r]
           by == q.by
<1>1. PICK p \in Served : ReplyEffect(r, p)
  BY ReplyIs
<1>2. q.pc = "answer" /\ by \in Client /\ q \in Served /\ Handled(q, rows, lastId)
  BY ReplyIs DEF AppTyped, StoreInv
<1>3. /\ Set(r, p)
      /\ p.pc = "free" \/ (p.pc = "sent" /\ p.by = by /\ p.status = "ok" /\ p.op \in {"login", "load"})
      /\ behind \subseteq behind'
      /\ page' \in [Client -> Paged] /\ \A d \in Client : d # by => page'[d] = page[d]
      /\ q.heard = FALSE => page' = page /\ p.pc = "free"
      /\ q.heard /\ by \notin behind' => ShownAnswer(p, q, page[by].list, page'[by].list)
  BY <1>1 DEF ReplyEffect
<1>4. UNCHANGED <<rows, lastId, wire>>
  BY DEF Reply, server
<1>5. Begun(p) /\ Handled(p, rows, lastId)
  BY <1>2, <1>3 DEF Begun, Handled
<1>6. req' \in [Request -> Served] /\ req'[r] = p /\ \A t \in Request : t # r => req'[t] = req[t]
  BY <1>3, <1>5, SetTyped
<1>7. StoreInv'
  BY <1>3, <1>4, <1>5, SetStore
<1>8. ComingKept(req, req')
  BY <1>2, <1>3, SetKeepsComing
<1>9. ASSUME NEW c \in Client, c # by \/ q.heard = FALSE, c \notin behind'
      PROVE  PageFine(rows', req', wire'[c], lastId', page'[c].list, c)
  <2>1. c \notin behind /\ page'[c].list = page[c].list
    BY <1>3, <1>9
  <2>2. ~Load(p, c, {"sent", "answer"}) /\ ~Load(q, c, {"sent", "answer"})
    BY <1>3, <1>9 DEF Load
  <2>3. SameLoads(req, req', c)
    BY <1>3, <2>2, SetSameLoads
  <2>4. QED
    BY <1>4, <1>6, <1>8, <2>1, <2>3, QuietPage
<1>10. ASSUME q.heard, by \notin behind'
       PROVE  PageFine(rows, req', wire[by], lastId, page'[by].list, by)
  <2> DEFINE list == page[by].list
             list2 == page'[by].list
             Alone == \A t \in Request : t # r => ~Load(req[t], by, {"sent", "answer"})
  <2>1. by \notin behind /\ PageFine(rows, req, wire[by], lastId, list, by)
    BY <1>2, <1>3, <1>10 DEF PagesInv
  <2>2. ShownAnswer(p, q, list, list2)
    BY <1>3, <1>10
  <2>3. list \in Seq(Record) /\ list2 \in Seq(Record)
    BY <1>2, <1>3 DEF AppTyped, Paged
  <2>4. rows \in Seq(Record) /\ lastId \in Nat /\ Numbered(rows, lastId)
    BY DEF AppTyped, StoreInv
  <2>5. ASSUME q.op # "load", Alone
        PROVE  Shows(rows, req, wire[by], lastId, list)
    <3>1. ~Load(q, by, {"sent", "answer"})
      BY <2>5 DEF Load
    <3>2. \A t \in Request : ~Load(req[t], by, {"sent", "answer"})
      BY <2>5, <3>1
    <3>3. QED
      BY <2>1, <3>2 DEF PageFine
  <2>6. ASSUME ~Load(p, by, {"sent"}), Alone
        PROVE  Shows(rows, req, wire[by], lastId, list2)
    <3>1. CASE q.op = "load" /\ q.status = "ok" /\ list2 = q.got
      <4>1. Load(q, by, {"answer"})
        BY <1>2, <1>10, <3>1 DEF Load
      <4>2. QED
        BY <2>1, <3>1, <4>1 DEF PageFine
    <3>2. CASE q.op # "load" /\ list2 = list
      BY <2>5, <2>6, <3>2
    <3>3. CASE q.op # "load" /\ \E y \in ToSet(rows) : y \in Record /\ (list2 = Replaced(list, y) \/ list2 = <<y>> \o list)
      <4>1. PICK y \in ToSet(rows) : y \in Record /\ (list2 = Replaced(list, y) \/ list2 = <<y>> \o list)
        BY <3>3
      <4>2. Shows(rows, req, wire[by], lastId, list)
        BY <2>5, <2>6, <3>3
      <4> HIDE DEF list, list2
      <4>3. QED
        BY <2>3, <2>4, <4>1, <4>2, StoredItemShows
    <3>4. CASE q.op = "delete" /\ q.status = "ok" /\ list2 = Without(list, q.item.id)
      <4>1. q.item.id \notin Ids(rows)
        BY <1>2, <3>4 DEF Handled
      <4>2. Shows(rows, req, wire[by], lastId, list)
        BY <2>5, <2>6, <3>4
      <4> HIDE DEF list, list2
      <4>3. QED
        BY <2>3, <2>4, <3>4, <4>1, <4>2, GoneShows
    <3>5. QED
      BY <2>2, <2>6, <3>1, <3>2, <3>3, <3>4 DEF ShownAnswer
  <2>7. ~Load(p, by, {"answer"})
    BY <1>3 DEF Load
  <2> HIDE DEF list2
  <2>8. PageFine(rows, req', wire[by], lastId, list2, by)
    BY <1>2, <1>3, <1>5, <2>1, <2>3, <2>6, <2>7, ListShown
  <2>9. QED
    BY <2>8 DEF list2
<1>11. ASSUME NEW c \in Client, c \notin behind'
       PROVE  PageFine(rows', req', wire'[c], lastId', page'[c].list, c)
  <2>1. q.heard \in BOOLEAN
    BY <1>2 DEF Served
  <2>2. CASE c # by \/ q.heard = FALSE
    BY <1>9, <1>11, <2>2
  <2>3. CASE c = by /\ q.heard
    BY <1>4, <1>10, <1>11, <2>3
  <2>4. QED
    BY <2>1, <2>2, <2>3
<1>12. QED
  BY <1>7, <1>11 DEF PagesInv

LEMMA SendKeeps ==
  ASSUME AppTyped, StoreInv, PagesInv, NEW r \in Request, NEW c \in Client, NEW op \in Op \ {"load"},
         NEW item \in Record, Send(r, c, op, item), UNCHANGED <<shape, server, live, wire, page, behind>>
  PROVE  StoreInv' /\ PagesInv'
<1>1. PICK p \in Served : Set(r, p) /\ p.pc = "sent" /\ p.by = c /\ p.op = op /\ p.status = "ok"
  BY SendIs
<1>2. req[r].pc = "free"
  BY SendIs
<1>3. Begun(p) /\ Handled(p, rows, lastId)
  BY <1>1 DEF Begun, Handled
<1>4. \A d : ~Load(p, d, {"sent", "answer"}) /\ ~Load(req[r], d, {"sent", "answer"})
  BY <1>1, <1>2 DEF Load
<1>5. UNCHANGED <<rows, lastId, wire, page, behind>>
  BY DEF server
<1>6. QED
  BY <1>1, <1>2, <1>3, <1>4, <1>5, QuietSet

LEMMA WriteAccountKeeps ==
  ASSUME AppTyped, StoreInv, PagesInv, NEW r \in Request, WriteAccount(r)
  PROVE  StoreInv' /\ PagesInv'
<1>1. PICK p \in Served : Set(r, p) /\ Onward(p, req[r]) /\ p.pc = "answer"
  BY WriteAccountIs
<1>2. req[r].pc = "write" /\ req[r].op \in {"register", "login", "logout"} /\ Begun(req[r])
  BY WriteAccountIs DEF AppTyped
<1>3. Begun(p) /\ Handled(p, rows, lastId)
  BY <1>1, <1>2 DEF Begun, Handled, Onward
<1>4. \A d : ~Load(p, d, {"sent", "answer"}) /\ ~Load(req[r], d, {"sent", "answer"})
  BY <1>1, <1>2 DEF Load, Onward
<1>5. UNCHANGED <<rows, lastId, wire, page, behind>>
  BY DEF WriteAccount
<1>6. QED
  BY <1>1, <1>2, <1>3, <1>4, <1>5, QuietSet

\* A step that changes no record, no request, and neither a message nor a list of a page that
\* has missed nothing.
LEMMA QuietKeeps ==
  ASSUME StoreInv, PagesInv, UNCHANGED <<rows, lastId, req>>,
         \A c \in Client : c \notin behind' =>
           c \notin behind /\ wire'[c] = wire[c] /\ page'[c].list = page[c].list
  PROVE  StoreInv' /\ PagesInv'
<1>1. StoreInv'
  BY DEF StoreInv
<1>2. ASSUME NEW c \in Client, c \notin behind'
      PROVE  PageFine(rows', req', wire'[c], lastId', page'[c].list, c)
  <2>1. PageFine(rows, req, wire[c], lastId, page[c].list, c)
    BY <1>2 DEF PagesInv
  <2>2. QED
    BY <1>2, <2>1
<1>3. QED
  BY <1>1, <1>2 DEF PagesInv

LEMMA LiveStep == AppTyped /\ LiveInv /\ [AppNext]_appVars => LiveInv'
<1> SUFFICES ASSUME AppTyped, LiveInv, [AppNext]_appVars
             PROVE  LiveInv'
  OBVIOUS
<1>1. shape' = shape
  BY DEF AppNext, appVars, OpenPage, Save, removeItem, Account, Arrive, WriteAccount, WriteRow, ReadBack,
         Cast, Reply, Cut, StartEdit, Connect, Drop, Deliver, LocalSave, LocalRemove, Expire
<1> SUFFICES ASSUME shape.realtime
             PROVE  StoreInv' /\ PagesInv'
  BY <1>1 DEF LiveInv
<1>2. StoreInv /\ PagesInv
  BY DEF LiveInv
<1>3. shape.backend
  BY ServerAssumption DEF AppTyped
<1>4. ASSUME NEW r \in Request, NEW c \in Client, OpenPage(r, c)
      PROVE  StoreInv' /\ PagesInv'
  BY <1>2, <1>3, <1>4, OpenPageKeeps
<1>5. ASSUME NEW r \in Request, NEW c \in Client, Save(r, c)
      PROVE  StoreInv' /\ PagesInv'
  <2> DEFINE e == page[c].editing
             op == IF e = 0 THEN "create" ELSE "update"
             item == [id |-> IF e = 0 THEN 1 ELSE e, val |-> saves + 1]
  <2>1. Send(r, c, op, item) /\ UNCHANGED <<shape, server, live, wire, page, behind>>
    BY <1>5 DEF Save
  <2>2. e \in Nat /\ saves \in Nat
    BY DEF AppTyped, Paged
  <2>3. op \in Op \ {"load"} /\ item \in Record
    BY <2>2 DEF Record, Op
  <2> HIDE DEF op, item
  <2>4. QED
    BY <1>2, <2>1, <2>3, SendKeeps
<1>6. ASSUME NEW r \in Request, NEW c \in Client, removeItem(r, c)
      PROVE  StoreInv' /\ PagesInv'
  <2>1. PICK x \in ToSet(page[c].list) : Send(r, c, "delete", x)
    BY <1>6 DEF removeItem
  <2>2. x \in Record
    <3>1. page[c].list \in Seq(Record)
      BY DEF AppTyped, Paged
    <3>2. QED
      BY <3>1 DEF ToSet
  <2>3. "delete" \in Op \ {"load"} /\ UNCHANGED <<shape, server, live, wire, page, behind>>
    BY <1>6 DEF removeItem, Op
  <2>4. QED
    BY <1>2, <2>1, <2>2, <2>3, SendKeeps
<1>7. ASSUME NEW r \in Request, NEW c \in Client, NEW op \in {"register", "login", "logout"}, Account(r, c, op)
      PROVE  StoreInv' /\ PagesInv'
  <2>1. /\ Send(r, c, op, NoItem) /\ UNCHANGED <<shape, server, live, wire, page, behind>>
        /\ op \in Op \ {"load"}
    BY <1>7 DEF Account, Op
  <2>2. QED
    BY <1>2, <2>1, SendKeeps, ConstantsAre
<1>8. ASSUME NEW r \in Request, WriteRow(r)
      PROVE  StoreInv' /\ PagesInv'
  <2>1. req[r].op \in {"create", "update", "delete"}
    BY <1>8 DEF WriteRow
  <2>2. QED
    BY <1>2, <1>8, <2>1, CreateKeeps, UpdateKeeps, DeleteKeeps
<1>9. ASSUME NEW r \in Request,
             Arrive(r) \/ WriteAccount(r) \/ ReadBack(r) \/ Cast(r) \/ Reply(r) \/ Cut(r)
      PROVE  StoreInv' /\ PagesInv'
  BY <1>2, <1>9, ArriveKeeps, WriteAccountKeeps, ReadBackKeeps, CastKeeps, ReplyKeeps, CutKeeps
<1>10. ASSUME NEW c \in Client, StartEdit(c)
       PROVE  StoreInv' /\ PagesInv'
  <2>1. UNCHANGED <<rows, lastId, req, wire, behind>>
    BY <1>10 DEF StartEdit, server
  <2>2. PICK x : page' = [page EXCEPT ![c].editing = x]
    BY <1>10 DEF StartEdit
  <2>3. \A d \in Client : page'[d].list = page[d].list
    BY <2>2 DEF AppTyped, Paged
  <2>4. QED
    BY <1>2, <2>1, <2>3, QuietKeeps
<1>11. ASSUME NEW c \in Client, Connect(c)
       PROVE  StoreInv' /\ PagesInv'
  <2>1. UNCHANGED <<rows, lastId, req, wire, page, behind>>
    BY <1>11 DEF Connect, server
  <2>2. QED
    BY <1>2, <2>1, QuietKeeps
<1>12. ASSUME NEW c \in Client, Drop(c)
       PROVE  StoreInv' /\ PagesInv'
  <2>1. /\ UNCHANGED <<rows, lastId, req, page>> /\ wire' = [wire EXCEPT ![c] = <<>>]
        /\ behind' = IF wire[c] # <<>> THEN behind \cup {c} ELSE behind
    BY <1>12 DEF Drop, server
  <2>2. ASSUME NEW d \in Client, d \notin behind'
        PROVE  d \notin behind /\ wire'[d] = wire[d]
    BY <2>1, <2>2 DEF AppTyped
  <2>3. QED
    BY <1>2, <2>1, <2>2, QuietKeeps
<1>13. ASSUME NEW c \in Client, Deliver(c)
       PROVE  StoreInv' /\ PagesInv'
  BY <1>2, <1>13, DeliverKeeps
<1>14. ASSUME NEW c \in Client, LocalSave(c) \/ LocalRemove(c)
       PROVE  FALSE
  BY <1>3, <1>14 DEF LocalSave, LocalRemove
<1>15. ASSUME UNCHANGED <<rows, lastId, req, wire, page, behind>>
       PROVE  StoreInv' /\ PagesInv'
  BY <1>2, <1>15, QuietKeeps
<1>16. ASSUME NEW t \in Token, Expire(t)
       PROVE  StoreInv' /\ PagesInv'
  BY <1>15, <1>16 DEF Expire
<1>17. CASE UNCHANGED appVars
  BY <1>15, <1>17 DEF appVars
<1>18. QED
  BY <1>4, <1>5, <1>6, <1>7, <1>8, <1>9, <1>10, <1>11, <1>12, <1>13, <1>14, <1>16, <1>17 DEF AppNext

LEMMA LiveInit == AppInit => LiveInv
<1> SUFFICES ASSUME AppInit
             PROVE  StoreInv /\ PagesInv
  BY DEF LiveInv
<1>1. rows = <<>> /\ lastId = 0 /\ req = [r \in Request |-> NoRequest]
      /\ wire = [c \in Client |-> <<>>] /\ page = [c \in Client |-> NoPage]
  BY DEF AppInit
<1>2. ToSet(<<>>) = {} /\ Ids(<<>>) = {} /\ Unique(<<>>)
  BY DEF ToSet, Ids, Unique
<1>3. StoreInv
  <2>1. \A r \in Request : Handled(req[r], rows, lastId)
    BY <1>1, ConstantsAre DEF Handled
  <2>2. QED
    BY <1>1, <1>2, <2>1 DEF StoreInv, Numbered
<1>4. ASSUME NEW c \in Client
      PROVE  PageFine(rows, req, wire[c], lastId, page[c].list, c)
  <2>1. wire[c] = <<>> /\ page[c].list = <<>>
    BY <1>1, ConstantsAre
  <2>2. WireFine(rows, req, wire[c], lastId)
    BY <2>1 DEF WireFine
  <2>3. \A r \in Request : ~Load(req[r], c, {"answer"})
    BY <1>1, ConstantsAre DEF Load
  <2>4. Shows(rows, req, wire[c], lastId, page[c].list)
    BY <1>1, <1>2, <2>1 DEF Shows, AllFine, NoneMissing
  <2>5. QED
    BY <2>2, <2>3, <2>4 DEF PageFine
<1>5. QED
  BY <1>3, <1>4 DEF PagesInv

LEMMA SettledShows == AppTyped /\ LiveInv => PageShowsStore
<1> SUFFICES ASSUME AppTyped, LiveInv, NEW c \in Client, Settled(c), c \notin behind
             PROVE  ToSet(page[c].list) = ToSet(rows)
  BY DEF PageShowsStore
<1> DEFINE list == page[c].list
<1>1. wire[c] = <<>> /\ \A r \in Request : req[r].pc = "free"
  BY DEF Settled
<1>2. StoreInv /\ PagesInv
  BY DEF LiveInv, Settled
<1>3. \A r \in Request : ~Load(req[r], c, {"sent", "answer"})
  BY <1>1 DEF Load
<1>4. Shows(rows, req, wire[c], lastId, list)
  BY <1>2, <1>3 DEF PagesInv, PageFine
<1>5. \A op, x : ~Coming(req, op, x)
  BY <1>1 DEF Coming
<1>6. \A k, type, x : ~Later(wire[c], k, type, x)
  BY <1>1 DEF Later
<1> HIDE DEF list
<1>7. \A y \in ToSet(list) : y \in ToSet(rows)
  BY <1>4, <1>5, <1>6 DEF Shows, AllFine, Fine, Mended
<1>8. \A x \in Ids(rows) : x \in Ids(list)
  BY <1>4, <1>5, <1>6 DEF Shows, NoneMissing
<1>9. ASSUME NEW z \in ToSet(rows)
      PROVE  z \in ToSet(list)
  <2>1. PICK y \in ToSet(list) : y.id = z.id
    BY <1>8 DEF Ids
  <2>2. PICK i \in DOMAIN rows : rows[i] = z
    BY DEF ToSet
  <2>3. PICK j \in DOMAIN rows : rows[j] = y
    BY <1>7 DEF ToSet
  <2>4. i = j
    BY <1>2, <2>1, <2>2, <2>3 DEF StoreInv, Numbered, Unique
  <2>5. QED
    BY <2>2, <2>3, <2>4
<1>10. QED
  BY <1>7, <1>9 DEF list

\* With live updates, whatever a page that has missed nothing shows wrong is on its way to it.
THEOREM LiveInvariant == AppSpec => []LiveInv
BY LiveInit, LiveStep, AppTypeCorrect, PTL DEF AppSpec

\* Once everything has arrived such a page shows exactly what is stored (connectLive,
\* broadcastLive), for any number of clients and of requests at once.
THEOREM PageShowsStoreHolds == AppSpec => []PageShowsStore
BY LiveInvariant, AppTypeCorrect, SettledShows, PTL

-----------------------------------------------------------------------------
\* RuntimeAcceptance: the versions of the code.

CodeTyped == code \in [Project -> {s \in Seq(Versions) : Len(s) \in Versions}]

\* What the code of a project may be, and that no project has more artifacts than there have
\* been versions.
Numbers == UNION {ToSet(code[p]) : p \in Project}
EnoughVersions == \A p \in Project : \E v \in Numbers : Len(code[p]) <= v

LEMMA GreatestNumber ==
  ASSUME NEW n \in Nat, NEW S, S \subseteq 1..n, S # {}
  PROVE  Max(S) \in S /\ \A v \in S : v <= Max(S)
<1> DEFINE T == {k \in 0..n : n - k \in S}
<1>1. T \subseteq Nat /\ T # {}
  <2>1. PICK v \in S : TRUE
    OBVIOUS
  <2>2. v \in 1..n
    OBVIOUS
  <2>3. n - v \in 0..n /\ n - (n - v) = v
    BY <2>2
  <2>4. n - v \in T
    BY <2>3
  <2>5. T \subseteq Nat
    OBVIOUS
  <2> HIDE DEF T
  <2>6. QED
    BY <2>4, <2>5
<1>2. PICK k \in T : \A m \in T : k <= m
  <2> HIDE DEF T
  <2> QED BY <1>1, LeastNumber
<1>3. k \in 0..n /\ n - k \in S
  BY <1>2
<1>4. ASSUME NEW v \in S
      PROVE  v <= n - k
  <2>1. v \in 1..n
    OBVIOUS
  <2>2. n - v \in 0..n /\ n - (n - v) = v
    BY <2>1
  <2>3. n - v \in T
    BY <2>2
  <2>4. k <= n - v
    BY <1>2, <2>3
  <2>5. QED
    BY <1>3, <2>1, <2>4
<1>5. \E x \in S : \A v \in S : x >= v
  BY <1>3, <1>4
<1>6. Max(S) \in S /\ \A v \in S : Max(S) >= v
  BY <1>5 DEF Max
<1>7. QED
  BY <1>6

\* The next version is later than every one there is.
LEMMA FreshIs ==
  ASSUME CodeTyped, NEW p \in Project
  PROVE  Fresh \in Nat /\ Fresh > 0 /\ \A v \in Numbers : v \in Nat /\ v < Fresh
<1>1. Version \in Nat /\ Version > 0
  BY RunAssumption
<1>2. ASSUME NEW v \in Numbers
      PROVE  v \in 1..Version
  <2>1. PICK q \in Project : v \in ToSet(code[q])
    BY DEF Numbers
  <2>2. code[q] \in Seq(Versions)
    BY DEF CodeTyped
  <2>3. v \in Versions
    BY <2>1, <2>2 DEF ToSet
  <2>4. QED
    BY <2>3 DEF Versions
<1>3. code[p] \in Seq(Versions) /\ Len(code[p]) \in 1..Version
  BY DEF CodeTyped, Versions
<1>4. 1 \in DOMAIN code[p]
  BY <1>3
<1>5. code[p][1] \in Numbers
  BY <1>4 DEF Numbers, ToSet
<1>6. Max(Numbers) \in Numbers /\ \A v \in Numbers : v <= Max(Numbers)
  <2>1. Numbers \subseteq 1..Version
    BY <1>2
  <2>2. QED
    BY <1>1, <1>5, <2>1, GreatestNumber
<1>7. Fresh = 1 + Max(Numbers)
  BY DEF Fresh, Numbers
<1>8. Max(Numbers) \in 1..Version
  BY <1>2, <1>6
<1>9. ASSUME NEW v \in Numbers
      PROVE  v \in Nat /\ v < Fresh
  BY <1>1, <1>2, <1>6, <1>7, <1>8
<1>10. QED
  BY <1>1, <1>7, <1>8, <1>9

LEMMA AppendedCode ==
  ASSUME CodeTyped, EnoughVersions, NEW p \in Project, Regenerate(p)
  PROVE  CodeTyped' /\ EnoughVersions'
<1> DEFINE s == code[p]
           t == Append(s, Fresh)
<1>1. code' = [code EXCEPT ![p] = t] /\ Fresh <= Version
  BY DEF Regenerate
<1>2. Version \in Nat /\ Fresh \in Nat /\ Fresh > 0 /\ \A v \in Numbers : v \in Nat /\ v < Fresh
  BY FreshIs, RunAssumption
<1>3. s \in Seq(Versions) /\ Len(s) \in 1..Version /\ Fresh \in Versions
  BY <1>1, <1>2 DEF CodeTyped, Versions
<1>4. t \in Seq(Versions) /\ Len(t) = Len(s) + 1 /\ t[Len(s) + 1] = Fresh /\ \A k \in DOMAIN s : t[k] = s[k]
  BY <1>3
<1>5. \A k \in DOMAIN s : k \in DOMAIN t
  BY <1>3, <1>4
<1>6. PICK v \in Numbers : Len(s) <= v
  BY DEF EnoughVersions
<1>7. Len(t) <= Fresh
  BY <1>2, <1>3, <1>4, <1>6
<1>8. Len(t) \in Versions
  BY <1>1, <1>2, <1>3, <1>4, <1>7 DEF Versions
<1>9. Len(s) + 1 \in DOMAIN t
  BY <1>3, <1>4
<1> HIDE DEF t
<1>10. CodeTyped'
  BY <1>1, <1>4, <1>8 DEF CodeTyped
<1>11. code'[p] = t /\ \A q \in Project : q # p => code'[q] = code[q]
  BY <1>1 DEF CodeTyped
<1>12. Fresh \in Numbers'
  BY <1>4, <1>9, <1>11 DEF Numbers, ToSet
<1>13. Numbers \subseteq Numbers'
  BY <1>4, <1>5, <1>11 DEF Numbers, ToSet
<1>14. ASSUME NEW q \in Project
       PROVE  \E w \in Numbers' : Len(code'[q]) <= w
  <2>1. CASE q = p
    BY <1>7, <1>11, <1>12, <2>1
  <2>2. CASE q # p
    BY <1>11, <1>13, <2>2 DEF EnoughVersions
  <2>3. QED
    BY <2>1, <2>2
<1>15. QED
  BY <1>10, <1>14 DEF EnoughVersions

LEMMA EditedCode ==
  ASSUME CodeTyped, EnoughVersions, NEW p \in Project, Edit(p)
  PROVE  CodeTyped' /\ EnoughVersions'
<1> DEFINE s == code[p]
           t == [s EXCEPT ![Len(s)] = Fresh]
<1>1. code' = [code EXCEPT ![p] = t] /\ Fresh <= Version
  BY DEF Edit, Latest
<1>2. Version \in Nat /\ Fresh \in Nat /\ Fresh > 0 /\ \A v \in Numbers : v \in Nat /\ v < Fresh
  BY FreshIs, RunAssumption
<1>3. s \in Seq(Versions) /\ Len(s) \in 1..Version /\ Fresh \in Versions
  BY <1>1, <1>2 DEF CodeTyped, Versions
<1>4. /\ t \in Seq(Versions) /\ Len(t) = Len(s) /\ Len(s) \in DOMAIN t
      /\ t[Len(s)] = Fresh
  BY <1>3
<1> HIDE DEF t
<1>5. CodeTyped'
  BY <1>1, <1>3, <1>4 DEF CodeTyped, Versions
<1>6. code'[p] = t /\ \A q \in Project : q # p => code'[q] = code[q]
  BY <1>1 DEF CodeTyped
<1>7. Fresh \in Numbers'
  BY <1>4, <1>6 DEF Numbers, ToSet
<1>8. ASSUME NEW q \in Project
      PROVE  Len(code'[q]) <= Fresh
  <2>1. Len(code'[q]) = Len(code[q]) /\ Len(code[q]) \in Nat
    BY <1>4, <1>6 DEF CodeTyped
  <2>2. PICK v \in Numbers : Len(code[q]) <= v
    BY DEF EnoughVersions
  <2>3. QED
    BY <1>2, <2>1, <2>2
<1>9. QED
  BY <1>5, <1>7, <1>8 DEF EnoughVersions

-----------------------------------------------------------------------------
\* The records.

DepTyped == dep \in [Project -> Deployment] /\ \A p \in Project : dep[p].status = "DEPLOYED" <=> dep[p].url # NoUrl
JobTyped == job \in [Project -> [Slot -> Job]]
DeliveredTyped ==
  delivered \in [Project -> [run : Run \cup {NoRun}, url : Url \cup {NoUrl}, art : 0..Version, files : 0..Version]]

LEMMA RecordsAre ==
  /\ NotDeployed \in Deployment /\ NotDeployed.status = "NOT_DEPLOYED" /\ NotDeployed.url = NoUrl
  /\ NoJob \in Job
  /\ NoDelivery \in [run : Run \cup {NoRun}, url : Url \cup {NoUrl}, art : 0..Version, files : 0..Version]
  /\ 0 \in 0..Version /\ 1 \in Versions /\ Versions \subseteq 0..Version
<1>1. Version \in Nat /\ Version > 0
  BY RunAssumption
<1>2. 0 \in 0..Version /\ 1 \in Versions /\ Versions \subseteq 0..Version
  BY <1>1 DEF Versions
<1>3. QED
  BY <1>2 DEF NotDeployed, Deployment, Status, NoJob, Job, NoDelivery

LEMMA JobSet ==
  ASSUME JobTyped, NEW p \in Project, NEW s \in Slot, NEW j \in Job, SetJob(p, s, j)
  PROVE  JobTyped'
<1>1. [job[p] EXCEPT ![s] = j] \in [Slot -> Job]
  BY DEF JobTyped
<1>2. job' = [job EXCEPT ![p] = [job[p] EXCEPT ![s] = j]]
  BY DEF SetJob, JobTyped
<1>3. QED
  BY <1>1, <1>2 DEF JobTyped

LEMMA LatestIs ==
  ASSUME CodeTyped, NEW p \in Project
  PROVE  /\ Latest(p) \in 1..Version /\ Latest(p) \in 0..Version
         /\ \A k \in DOMAIN code[p] : k \in 0..Version /\ code[p][k] \in 0..Version
         /\ \A f \in Merged(p) : f \in 0..Version
<1>1. Version \in Nat /\ code[p] \in Seq(Versions) /\ Len(code[p]) \in 1..Version
  BY RunAssumption DEF CodeTyped, Versions
<1>2. DOMAIN code[p] = 1..Len(code[p])
  BY <1>1
<1>3. \A k \in DOMAIN code[p] : code[p][k] \in 1..Version /\ k \in 1..Version
  BY <1>1, <1>2 DEF Versions
<1>4. \A k \in 1..Version : k \in 0..Version
  BY <1>1
<1>5. QED
  BY <1>1, <1>3, <1>4 DEF Latest, Merged, ToSet

LEMMA JudgedTyped ==
  ASSUME gate \in [Project -> BOOLEAN], NEW p \in Project, NEW kind, Judged(p, kind)
  PROVE  gate' \in [Project -> BOOLEAN]
<1>1. \A d, r, c : Passed(d, r, c) \in BOOLEAN
  BY DEF Passed
<1>2. QED
  BY <1>1 DEF Judged

LEMMA DepSet ==
  ASSUME DepTyped, NEW p \in Project, NEW d \in Deployment, d.status = "DEPLOYED" <=> d.url # NoUrl,
         dep' = [dep EXCEPT ![p] = d]
  PROVE  DepTyped'
BY DEF DepTyped

LEMMA RecordTyped ==
  ASSUME DepTyped, run \in [Project -> Run \cup {NoRun}], cached \in [Project -> BOOLEAN],
         NEW p \in Project, NEW r \in Run, NEW env \in BOOLEAN, recordRuntimeAcceptance(p, r, env)
  PROVE  DepTyped' /\ run' \in [Project -> Run \cup {NoRun}] /\ cached' \in [Project -> BOOLEAN]
<1>1. dep[p] \in Deployment /\ (dep[p].status = "DEPLOYED" <=> dep[p].url # NoUrl)
  BY DEF DepTyped
<1> DEFINE d == deploymentFromRun(dep[p], r)
<1>2. d \in Deployment /\ (d.status = "DEPLOYED" <=> d.url # NoUrl)
  <2>1. CASE Http(r) /\ dep[p].url \in {NoUrl, r.url}
    <3> DEFINE art == IF r.art # 0 THEN r.art ELSE dep[p].art
    <3>1. art \in 0..Version /\ r.url \in Url \cup {NoUrl} /\ r.url # NoUrl
      BY <1>1, <2>1 DEF Run, Deployment, Http
    <3>2. d = [status |-> "DEPLOYED", url |-> r.url, art |-> art]
      BY <2>1 DEF deploymentFromRun
    <3> HIDE DEF d, art
    <3>3. QED
      BY <3>1, <3>2 DEF Deployment, Status
  <2>2. CASE ~(Http(r) /\ dep[p].url \in {NoUrl, r.url})
    BY <1>1, <2>2 DEF deploymentFromRun
  <2>3. QED
    BY <2>1, <2>2
<1>3. dep' = [dep EXCEPT ![p] = d] /\ run' = [run EXCEPT ![p] = r]
  BY DEF recordRuntimeAcceptance
<1> HIDE DEF d
<1>4. DepTyped'
  BY <1>2, <1>3, DepSet
<1>5. run' \in [Project -> Run \cup {NoRun}]
  BY <1>3
<1>6. (env /\ Passed(dep'[p], r, Latest(p))) \in BOOLEAN
  BY DEF Passed
<1>7. cached' \in [Project -> BOOLEAN]
  BY <1>6 DEF recordRuntimeAcceptance
<1>8. QED
  BY <1>4, <1>5, <1>7

AcceptInv == TypeOK /\ EnoughVersions /\ DeliveredWasRun

\* The parts of TypeOK.
LEMMA TypeOKIs ==
  TypeOK <=> /\ CodeTyped /\ works \subseteq Versions /\ site \in [Project -> 0..Version]
             /\ DepTyped /\ run \in [Project -> Run \cup {NoRun}] /\ cached \in [Project -> BOOLEAN]
             /\ JobTyped /\ gate \in [Project -> BOOLEAN] /\ DeliveredTyped /\ failures \in 0..Faults
BY DEF TypeOK, CodeTyped, DepTyped, JobTyped, DeliveredTyped

LEMMA FailuresTyped ==
  ASSUME failures \in 0..Faults, RunnerFault
  PROVE  failures' \in 0..Faults
BY RunAssumption DEF RunnerFault

-----------------------------------------------------------------------------
\* The steps of a job.

\* What the steps of a job leave alone.
Still == UNCHANGED <<code, works, delivered>>

LEMMA EnsureTyped ==
  ASSUME TypeOK, NEW p \in Project, NEW s \in Slot, NEW kind \in {"gate", "run", "deploy"}, Ensure(p, s, kind)
  PROVE  JobTyped' /\ UNCHANGED <<site, dep, run, cached, gate, failures>> /\ Still
<1>1. CodeTyped /\ JobTyped /\ DepTyped
  BY TypeOKIs
<1>2. UNCHANGED <<site, dep, run, cached, gate, failures>> /\ Still
  BY DEF Ensure, Still
<1>3. CASE NeedsDeployment(dep[p])
  <2>1. PICK files \in Merged(p) :
          SetJob(p, s, [NoJob EXCEPT !.pc = "publish", !.kind = kind, !.files = files, !.art = Latest(p)])
    BY <1>3 DEF Ensure
  <2> DEFINE j == [NoJob EXCEPT !.pc = "publish", !.kind = kind, !.files = files, !.art = Latest(p)]
  <2>2. files \in 0..Version /\ Latest(p) \in 0..Version
    BY <1>1, LatestIs
  <2>3. j \in Job
    BY <2>2, RecordsAre DEF Job
  <2> HIDE DEF j
  <2>4. SetJob(p, s, j)
    BY <2>1 DEF j
  <2>5. QED
    BY <1>1, <1>2, <2>3, <2>4, JobSet
<1>4. CASE ~NeedsDeployment(dep[p])
  <2> DEFINE j == [NoJob EXCEPT !.pc = "hit", !.kind = kind, !.to = dep[p].url]
  <2>1. SetJob(p, s, j)
    BY <1>4 DEF Ensure
  <2>2. dep[p].url \in Url \cup {NoUrl}
    BY <1>1 DEF DepTyped, Deployment
  <2>3. j \in Job
    BY <2>2, RecordsAre DEF Job
  <2> HIDE DEF j
  <2>4. QED
    BY <1>1, <1>2, <2>1, <2>3, JobSet
<1>5. QED
  BY <1>3, <1>4

LEMMA PublishTyped ==
  ASSUME TypeOK, NEW p \in Project, NEW s \in Slot, Publish(p, s)
  PROVE  JobTyped' /\ site' \in [Project -> 0..Version] /\ UNCHANGED <<dep, run, cached, gate, failures>> /\ Still
<1> DEFINE j == job[p][s]
           k == [j EXCEPT !.pc = "deploy"]
<1>1. JobTyped /\ j \in Job /\ site \in [Project -> 0..Version]
  BY TypeOKIs DEF JobTyped
<1>2. k \in Job /\ j.files \in 0..Version
  BY <1>1 DEF Job
<1>3. SetJob(p, s, k) /\ site' = [site EXCEPT ![p] = j.files]
  BY DEF Publish
<1> HIDE DEF k
<1>4. JobTyped'
  BY <1>1, <1>2, <1>3, JobSet
<1>5. QED
  BY <1>1, <1>2, <1>3, <1>4 DEF Publish, Still

LEMMA DeployedTyped ==
  ASSUME TypeOK, NEW p \in Project, NEW s \in Slot, Deployed(p, s)
  PROVE  JobTyped' /\ DepTyped' /\ UNCHANGED <<site, run, cached, gate, failures>> /\ Still
<1> DEFINE j == job[p][s]
           d == Answered(p, j)
           k == CASE j.kind = "script" -> [j EXCEPT !.pc = "aim", !.to = p, !.files = 0]
                  [] j.kind = "deploy" -> NoJob
                  [] OTHER -> [NoJob EXCEPT !.pc = "hit", !.kind = j.kind, !.to = p]
<1>1. JobTyped /\ j \in Job /\ DepTyped
  BY TypeOKIs DEF JobTyped
<1>2. p \in Url \cup {NoUrl} /\ p # NoUrl /\ 0 \in 0..Version
  BY UrlAssumption, RecordsAre DEF Url
<1>3. k \in Job
  <2>1. [j EXCEPT !.pc = "aim", !.to = p, !.files = 0] \in Job
    BY <1>1, <1>2 DEF Job
  <2>2. j.kind \in {"gate", "run", "deploy", "script"}
    BY <1>1 DEF Job
  <2>3. [NoJob EXCEPT !.pc = "hit", !.kind = j.kind, !.to = p] \in Job
    BY <1>2, <2>2, RecordsAre DEF Job
  <2>4. QED
    BY <2>1, <2>3, RecordsAre
<1>4. d \in Deployment /\ d.status = "DEPLOYED" /\ d.url # NoUrl
  BY <1>1, <1>2 DEF Answered, Deployment, Status, Job
<1>5. SetJob(p, s, k) /\ dep' = [dep EXCEPT ![p] = d]
  BY DEF Deployed
<1> HIDE DEF k, d
<1>6. JobTyped' /\ DepTyped'
  BY <1>1, <1>3, <1>4, <1>5, JobSet, DepSet
<1>7. QED
  BY <1>6 DEF Deployed, Still

LEMMA DeployFailsTyped ==
  ASSUME TypeOK, NEW p \in Project, NEW s \in Slot, DeployFails(p, s)
  PROVE  JobTyped' /\ DepTyped' /\ failures' \in 0..Faults /\ UNCHANGED <<site, run, cached, gate>> /\ Still
<1> DEFINE j == job[p][s]
           k == IF j.kind \in {"script", "deploy"} THEN NoJob ELSE [NoJob EXCEPT !.pc = "hit", !.kind = j.kind]
<1>1. JobTyped /\ j \in Job /\ DepTyped /\ failures \in 0..Faults
  BY TypeOKIs DEF JobTyped
<1>2. k \in Job
  <2>1. j.kind \in {"gate", "run", "deploy", "script"}
    BY <1>1 DEF Job
  <2>2. [NoJob EXCEPT !.pc = "hit", !.kind = j.kind] \in Job
    BY <2>1, RecordsAre DEF Job
  <2>3. QED
    BY <2>2, RecordsAre
<1>3. Failed(j.art) \in Deployment /\ Failed(j.art).status # "DEPLOYED" /\ Failed(j.art).url = NoUrl
  BY <1>1 DEF Failed, Deployment, Status, Job
<1>4. SetJob(p, s, k) /\ RunnerFault
      /\ dep' = IF j.kind = "script" THEN dep ELSE [dep EXCEPT ![p] = Failed(j.art)]
  BY DEF DeployFails
<1> HIDE DEF k
<1>5. JobTyped' /\ failures' \in 0..Faults
  BY <1>1, <1>2, <1>4, JobSet, FailuresTyped
<1>6. DepTyped'
  <2>1. CASE j.kind = "script"
    BY <1>1, <1>4, <2>1 DEF DepTyped
  <2>2. CASE j.kind # "script"
    BY <1>1, <1>3, <1>4, <2>2, DepSet
  <2>3. QED
    BY <2>1, <2>2
<1>7. QED
  BY <1>5, <1>6 DEF DeployFails, Still

LEMMA EndedTyped ==
  ASSUME TypeOK, NEW p \in Project, NEW s \in Slot, Refused(p, s) \/ NoReply(p, s)
  PROVE  JobTyped' /\ gate' \in [Project -> BOOLEAN] /\ failures' \in 0..Faults
         /\ UNCHANGED <<site, dep, run, cached>> /\ Still
<1>1. JobTyped /\ gate \in [Project -> BOOLEAN] /\ failures \in 0..Faults
  BY TypeOKIs
<1>2. SetJob(p, s, NoJob) /\ Judged(p, job[p][s].kind) /\ UNCHANGED <<site, dep, run, cached>> /\ Still
      /\ (failures' = failures \/ RunnerFault)
  BY DEF Refused, NoReply, Still
<1>3. JobTyped'
  BY <1>1, <1>2, JobSet, RecordsAre
<1>4. QED
  BY <1>1, <1>2, <1>3, JudgedTyped, FailuresTyped

LEMMA HitTyped ==
  ASSUME TypeOK, NEW p \in Project, NEW s \in Slot, Hit(p, s)
  PROVE  JobTyped' /\ UNCHANGED <<site, dep, run, cached, gate, failures>> /\ Still
<1> DEFINE j == job[p][s]
           pc == IF j.kind = "script" THEN "record" ELSE "reply"
           met == Met(j)
<1>1. JobTyped /\ j \in Job /\ site \in [Project -> 0..Version]
  BY TypeOKIs DEF JobTyped
<1>2. met \in 0..Version
  BY <1>1, RecordsAre DEF Met, Job, Url
<1>3. SetJob(p, s, [j EXCEPT !.pc = pc, !.files = 0, !.hit = met])
  BY DEF Hit
<1>4. pc \in {"record", "reply"}
  OBVIOUS
<1> HIDE DEF pc, met
<1>5. [j EXCEPT !.pc = pc, !.files = 0, !.hit = met] \in Job
  BY <1>1, <1>2, <1>4, RecordsAre DEF Job
<1>6. JobTyped'
  BY <1>1, <1>3, <1>5, JobSet
<1>7. QED
  BY <1>6 DEF Hit, Still

LEMMA ReportTyped ==
  ASSUME TypeOK, NEW p \in Project, NEW s \in Slot, ReportArrives(p, s)
  PROVE  /\ JobTyped' /\ DepTyped' /\ run' \in [Project -> Run \cup {NoRun}] /\ cached' \in [Project -> BOOLEAN]
         /\ gate' \in [Project -> BOOLEAN] /\ UNCHANGED <<site, failures>> /\ Still
<1> DEFINE j == job[p][s]
           r == [url |-> j.to, art |-> j.art, hit |-> j.hit]
           env == j.kind = "script"
<1>1. /\ JobTyped /\ j \in Job /\ DepTyped /\ run \in [Project -> Run \cup {NoRun}]
      /\ cached \in [Project -> BOOLEAN] /\ gate \in [Project -> BOOLEAN]
  BY TypeOKIs DEF JobTyped
<1>2. r \in Run /\ env \in BOOLEAN
  BY <1>1 DEF Job, Run
<1>3. recordRuntimeAcceptance(p, r, env) /\ Judged(p, j.kind) /\ SetJob(p, s, NoJob)
  BY DEF ReportArrives
<1> HIDE DEF r, env
<1>4. DepTyped' /\ run' \in [Project -> Run \cup {NoRun}] /\ cached' \in [Project -> BOOLEAN]
  BY <1>1, <1>2, <1>3, RecordTyped
<1>5. JobTyped' /\ gate' \in [Project -> BOOLEAN]
  BY <1>1, <1>3, JobSet, RecordsAre, JudgedTyped
<1>6. QED
  BY <1>4, <1>5 DEF ReportArrives, Still

LEMMA ScriptTyped ==
  ASSUME TypeOK, NEW p \in Project, NEW s \in Slot,
         ScriptDeploys(p, s) \/ \E url \in Url \cup {NoUrl} : ScriptStarts(p, s, url)
  PROVE  JobTyped' /\ UNCHANGED <<site, dep, run, cached, gate, failures>> /\ Still
<1>1. CodeTyped /\ JobTyped /\ dep[p].url \in Url \cup {NoUrl}
  BY TypeOKIs DEF DepTyped, Deployment
<1>2. ASSUME NEW j \in Job, Script(p, s, j)
      PROVE  JobTyped' /\ UNCHANGED <<site, dep, run, cached, gate, failures>> /\ Still
  <2>1. [j EXCEPT !.kind = "script", !.saw = dep[p].url] \in Job
    BY <1>1 DEF Job
  <2>2. SetJob(p, s, [j EXCEPT !.kind = "script", !.saw = dep[p].url])
    BY <1>2 DEF Script
  <2>3. JobTyped'
    BY <1>1, <2>1, <2>2, JobSet
  <2>4. QED
    BY <1>2, <2>3 DEF Script, Still
<1>3. CASE ScriptDeploys(p, s)
  <2>1. PICK files \in Merged(p) : Script(p, s, [NoJob EXCEPT !.pc = "publish", !.files = files])
    BY <1>3 DEF ScriptDeploys
  <2>2. files \in 0..Version
    BY <1>1, LatestIs
  <2>3. [NoJob EXCEPT !.pc = "publish", !.files = files] \in Job
    BY <2>2, RecordsAre DEF Job
  <2>4. QED
    BY <1>2, <2>1, <2>3
<1>4. ASSUME NEW url \in Url \cup {NoUrl}, ScriptStarts(p, s, url)
      PROVE  JobTyped' /\ UNCHANGED <<site, dep, run, cached, gate, failures>> /\ Still
  <2>1. [NoJob EXCEPT !.pc = "aim", !.to = url] \in Job
    BY RecordsAre DEF Job
  <2>2. QED
    BY <1>2, <1>4, <2>1 DEF ScriptStarts
<1>5. QED
  BY <1>3, <1>4

LEMMA ScriptAimsTyped ==
  ASSUME TypeOK, NEW p \in Project, NEW s \in Slot, ScriptAims(p, s)
  PROVE  JobTyped' /\ UNCHANGED <<site, dep, run, cached, gate, failures>> /\ Still
<1> DEFINE j == job[p][s]
<1>1. JobTyped /\ j \in Job /\ CodeTyped
  BY TypeOKIs DEF JobTyped
<1>2. UNCHANGED <<site, dep, run, cached, gate, failures>> /\ Still
  BY DEF ScriptAims, Still
<1>3. CASE SetJob(p, s, NoJob)
  BY <1>1, <1>2, <1>3, JobSet, RecordsAre
<1>4. ASSUME NEW k \in DOMAIN code[p],
             SetJob(p, s, [j EXCEPT !.pc = "hit", !.art = k, !.saw = NoUrl,
                                    !.files = IF j.to = NoUrl THEN code[p][k] ELSE 0])
      PROVE  JobTyped'
  <2> DEFINE files == IF j.to = NoUrl THEN code[p][k] ELSE 0
  <2>1. k \in 0..Version /\ files \in 0..Version
    BY <1>1, LatestIs, RecordsAre
  <2>2. SetJob(p, s, [j EXCEPT !.pc = "hit", !.art = k, !.saw = NoUrl, !.files = files])
    BY <1>4
  <2> HIDE DEF files
  <2>3. [j EXCEPT !.pc = "hit", !.art = k, !.saw = NoUrl, !.files = files] \in Job
    BY <1>1, <2>1 DEF Job
  <2>4. QED
    BY <1>1, <2>2, <2>3, JobSet
<1>5. QED
  BY <1>2, <1>3, <1>4 DEF ScriptAims

LEMMA ScriptRecordsTyped ==
  ASSUME TypeOK, NEW p \in Project, NEW s \in Slot, NEW post \in BOOLEAN, ScriptRecords(p, s, post)
  PROVE  JobTyped' /\ DepTyped' /\ UNCHANGED <<site, run, cached, gate, failures>> /\ Still
<1> DEFINE j == job[p][s]
           k == [j EXCEPT !.pc = "reply"]
           d == [status |-> "DEPLOYED", url |-> j.to, art |-> j.art]
<1>1. JobTyped /\ j \in Job /\ DepTyped
  BY TypeOKIs DEF JobTyped
<1>2. k \in Job /\ d \in Deployment
  BY <1>1 DEF Job, Deployment, Status
<1>3. SetJob(p, s, k) /\ (post => d.url # NoUrl) /\ dep' = IF post THEN [dep EXCEPT ![p] = d] ELSE dep
  BY DEF ScriptRecords
<1>4. d.status = "DEPLOYED"
  OBVIOUS
<1> HIDE DEF k, d
<1>5. JobTyped'
  BY <1>1, <1>2, <1>3, JobSet
<1>6. CASE post
  BY <1>1, <1>2, <1>3, <1>4, <1>5, <1>6, DepSet DEF ScriptRecords, Still
<1>7. CASE ~post
  BY <1>1, <1>3, <1>5, <1>7 DEF ScriptRecords, Still, DepTyped
<1>8. QED
  BY <1>6, <1>7

-----------------------------------------------------------------------------
\* The delivery.

LEMMA StillKeeps ==
  ASSUME AcceptInv, Still, site' \in [Project -> 0..Version], DepTyped',
         run' \in [Project -> Run \cup {NoRun}], cached' \in [Project -> BOOLEAN],
         JobTyped', gate' \in [Project -> BOOLEAN], failures' \in 0..Faults
  PROVE  AcceptInv'
<1>1. CodeTyped /\ works \subseteq Versions /\ DeliveredTyped
  BY TypeOKIs DEF AcceptInv
<1>2. CodeTyped' /\ works' \subseteq Versions /\ DeliveredTyped'
  BY <1>1 DEF Still, CodeTyped, DeliveredTyped
<1>3. TypeOK'
  BY <1>2 DEF TypeOK, CodeTyped, DepTyped, JobTyped, DeliveredTyped
<1>4. EnoughVersions' /\ DeliveredWasRun'
  BY DEF AcceptInv, Still, EnoughVersions, Numbers, DeliveredWasRun, Delivered
<1>5. QED
  BY <1>3, <1>4 DEF AcceptInv

LEMMA CodeKeeps ==
  ASSUME AcceptInv, NEW p \in Project, Regenerate(p) \/ Edit(p)
  PROVE  AcceptInv'
<1>1. CodeTyped /\ EnoughVersions
  BY TypeOKIs DEF AcceptInv
<1>2. CodeTyped' /\ EnoughVersions'
  BY <1>1, AppendedCode, EditedCode
<1>3. UNCHANGED <<works, site, dep, run, cached, job, gate, delivered, failures>>
  BY DEF Regenerate, Edit
<1>4. TypeOK'
  BY <1>2, <1>3 DEF AcceptInv, TypeOK, CodeTyped
<1>5. DeliveredWasRun'
  BY <1>3 DEF AcceptInv, DeliveredWasRun, Delivered
<1>6. QED
  BY <1>2, <1>4, <1>5 DEF AcceptInv

\* The delivery judges the run on record, with the URL and the artifact of that moment.
LEMMA DeliveryKeeps ==
  ASSUME AcceptInv, NEW p \in Project, buildFinalDelivery(p)
  PROVE  AcceptInv'
<1>1. PICK files \in Merged(p) :
        delivered' = [delivered EXCEPT ![p] =
          [run |-> run[p], url |-> dep[p].url, art |-> Latest(p), files |-> files]]
  BY DEF buildFinalDelivery
<1> DEFINE d == [run |-> run[p], url |-> dep[p].url, art |-> Latest(p), files |-> files]
<1>2. CodeTyped /\ DepTyped /\ DeliveredTyped /\ run \in [Project -> Run \cup {NoRun}]
  BY TypeOKIs DEF AcceptInv
<1>3. UNCHANGED <<code, works, site, dep, run, cached, job, gate, failures>>
      /\ Passed(dep[p], run[p], Latest(p))
  BY DEF buildFinalDelivery
<1>4. d \in [run : Run \cup {NoRun}, url : Url \cup {NoUrl}, art : 0..Version, files : 0..Version]
  <2>1. files \in 0..Version /\ Latest(p) \in 0..Version
    BY <1>2, LatestIs
  <2>2. dep[p].url \in Url \cup {NoUrl}
    BY <1>2 DEF DepTyped, Deployment
  <2>3. QED
    BY <1>2, <2>1, <2>2
<1>5. /\ Http(d.run) /\ d.run.url = d.url /\ d.run.hit \in works \cup {0}
      /\ d.run.art \in {0, d.art}
  BY <1>3 DEF Passed, SameProject, Http
<1> HIDE DEF d
<1>6. delivered' = [delivered EXCEPT ![p] = d]
  BY <1>1 DEF d
<1>7. DeliveredTyped'
  BY <1>2, <1>4, <1>6 DEF DeliveredTyped
<1>8. TypeOK'
  BY <1>3, <1>7 DEF AcceptInv, TypeOK, DeliveredTyped
<1>9. EnoughVersions'
  BY <1>3 DEF AcceptInv, EnoughVersions, Numbers
<1>10. delivered'[p] = d /\ \A q \in Project : q # p => delivered'[q] = delivered[q]
  BY <1>2, <1>6 DEF DeliveredTyped
<1>11. DeliveredWasRun'
  BY <1>3, <1>5, <1>10 DEF AcceptInv, DeliveredWasRun, Delivered
<1>12. QED
  BY <1>8, <1>9, <1>11 DEF AcceptInv

LEMMA AcceptStep == AcceptInv /\ [Next]_vars => AcceptInv'
<1> SUFFICES ASSUME AcceptInv, [Next]_vars
             PROVE  AcceptInv'
  OBVIOUS
<1>1. /\ TypeOK /\ site \in [Project -> 0..Version] /\ DepTyped
      /\ run \in [Project -> Run \cup {NoRun}] /\ cached \in [Project -> BOOLEAN] /\ JobTyped
      /\ gate \in [Project -> BOOLEAN] /\ failures \in 0..Faults
  BY TypeOKIs DEF AcceptInv
<1>2. ASSUME UNCHANGED <<site, run, cached, gate, failures>>, Still, JobTyped', DepTyped'
      PROVE  AcceptInv'
  BY <1>1, <1>2, StillKeeps
<1>3. ASSUME UNCHANGED <<site, dep, run, cached, gate, failures>>, Still, JobTyped'
      PROVE  AcceptInv'
  <2>1. DepTyped'
    BY <1>1, <1>3 DEF DepTyped
  <2>2. QED
    BY <1>2, <1>3, <2>1
<1>4. ASSUME NEW p \in Project, NEW s \in Slot, NEW kind \in {"gate", "run", "deploy"}, Ensure(p, s, kind)
      PROVE  AcceptInv'
  BY <1>1, <1>3, <1>4, EnsureTyped
<1>5. ASSUME NEW p \in Project, NEW s \in Slot, Publish(p, s)
      PROVE  AcceptInv'
  <2>1. JobTyped' /\ site' \in [Project -> 0..Version] /\ UNCHANGED <<dep, run, cached, gate, failures>> /\ Still
    BY <1>1, <1>5, PublishTyped
  <2>2. DepTyped'
    BY <1>1, <2>1 DEF DepTyped
  <2>3. QED
    BY <1>1, <2>1, <2>2, StillKeeps
<1>6. ASSUME NEW p \in Project, NEW s \in Slot, Deployed(p, s)
      PROVE  AcceptInv'
  BY <1>1, <1>2, <1>6, DeployedTyped
<1>7. ASSUME NEW p \in Project, NEW s \in Slot, DeployFails(p, s)
      PROVE  AcceptInv'
  BY <1>1, <1>7, DeployFailsTyped, StillKeeps
<1>8. ASSUME NEW p \in Project, NEW s \in Slot, Refused(p, s) \/ NoReply(p, s)
      PROVE  AcceptInv'
  <2>1. JobTyped' /\ gate' \in [Project -> BOOLEAN] /\ failures' \in 0..Faults
        /\ UNCHANGED <<site, dep, run, cached>> /\ Still
    BY <1>1, <1>8, EndedTyped
  <2>2. DepTyped'
    BY <1>1, <2>1 DEF DepTyped
  <2>3. QED
    BY <1>1, <2>1, <2>2, StillKeeps
<1>9. ASSUME NEW p \in Project, NEW s \in Slot, Hit(p, s)
      PROVE  AcceptInv'
  BY <1>1, <1>3, <1>9, HitTyped
<1>10. ASSUME NEW p \in Project, NEW s \in Slot, ReportArrives(p, s)
       PROVE  AcceptInv'
  BY <1>1, <1>10, ReportTyped, StillKeeps
<1>11. ASSUME NEW p \in Project, NEW s \in Slot,
              ScriptDeploys(p, s) \/ \E url \in Url \cup {NoUrl} : ScriptStarts(p, s, url)
       PROVE  AcceptInv'
  BY <1>1, <1>3, <1>11, ScriptTyped
<1>12. ASSUME NEW p \in Project, NEW s \in Slot, ScriptAims(p, s)
       PROVE  AcceptInv'
  BY <1>1, <1>3, <1>12, ScriptAimsTyped
<1>13. ASSUME NEW p \in Project, NEW s \in Slot, NEW post \in BOOLEAN, ScriptRecords(p, s, post)
       PROVE  AcceptInv'
  BY <1>1, <1>2, <1>13, ScriptRecordsTyped
<1>14. ASSUME NEW p \in Project, AlreadyRecorded(p)
       PROVE  AcceptInv'
  <2>1. UNCHANGED <<site, dep, run, cached, job, failures>> /\ Still /\ Judged(p, "gate")
    BY <1>14 DEF AlreadyRecorded, Still
  <2>2. DepTyped' /\ JobTyped' /\ gate' \in [Project -> BOOLEAN]
    BY <1>1, <2>1, JudgedTyped DEF DepTyped, JobTyped
  <2>3. QED
    BY <1>1, <2>1, <2>2, StillKeeps
<1>15. CASE UNCHANGED vars
  <2>1. UNCHANGED <<site, dep, run, cached, gate, failures>> /\ Still /\ JobTyped'
    BY <1>1, <1>15 DEF vars, Still, JobTyped
  <2>2. QED
    BY <1>3, <2>1
<1>16. ASSUME NEW p \in Project, Step(p)
       PROVE  AcceptInv'
  <2>1. CASE \E s \in Slot :
               \/ \E kind \in {"gate", "run", "deploy"} : Ensure(p, s, kind)
               \/ Work(p, s)
               \/ DeployFails(p, s) \/ NoReply(p, s)
               \/ ScriptDeploys(p, s) \/ \E url \in Url \cup {NoUrl} : ScriptStarts(p, s, url)
    BY <2>1, <1>4, <1>5, <1>6, <1>7, <1>8, <1>9, <1>10, <1>11, <1>12, <1>13 DEF Work
  <2>2. CASE Sweep(p)
    BY <2>2, <1>4 DEF Sweep
  <2>3. CASE AlreadyRecorded(p)
    BY <2>3, <1>14
  <2>4. CASE Regenerate(p) \/ Edit(p)
    BY <2>4, CodeKeeps
  <2>5. CASE buildFinalDelivery(p)
    BY <2>5, DeliveryKeeps
  <2>6. QED
    BY <1>16, <2>1, <2>2, <2>3, <2>4, <2>5 DEF Step
<1>17. QED
  BY <1>15, <1>16 DEF Next

LEMMA AcceptInit == Init => AcceptInv
<1> SUFFICES ASSUME Init
             PROVE  AcceptInv
  OBVIOUS
<1>1. <<1>> \in Seq(Versions) /\ Len(<<1>>) = 1 /\ Len(<<1>>) \in Versions /\ <<1>>[1] = 1 /\ 1 \in DOMAIN <<1>>
  BY RecordsAre
<1>2. CodeTyped
  BY <1>1 DEF Init, CodeTyped
<1>3. DepTyped /\ JobTyped /\ DeliveredTyped
  BY RecordsAre DEF Init, DepTyped, JobTyped, DeliveredTyped
<1>4. works \subseteq Versions /\ site \in [Project -> 0..Version] /\ run \in [Project -> Run \cup {NoRun}]
      /\ cached \in [Project -> BOOLEAN] /\ gate \in [Project -> BOOLEAN] /\ failures \in 0..Faults
  BY RecordsAre, RunAssumption DEF Init
<1>5. TypeOK
  BY <1>2, <1>3, <1>4, TypeOKIs
<1>6. ASSUME NEW p \in Project
      PROVE  \E v \in Numbers : Len(code[p]) <= v
  <2>1. code[p] = <<1>>
    BY DEF Init
  <2>2. 1 \in ToSet(code[p])
    BY <1>1, <2>1 DEF ToSet
  <2>3. 1 \in Numbers
    BY <2>2 DEF Numbers
  <2>4. QED
    BY <1>1, <2>1, <2>3
<1>7. DeliveredWasRun
  BY DEF Init, DeliveredWasRun, Delivered
<1>8. QED
  BY <1>5, <1>6, <1>7 DEF AcceptInv, EnoughVersions

\* The records keep their types, no project has more artifacts than there have been versions,
\* and what is delivered was run.
THEOREM AcceptanceInvariant == Spec => []AcceptInv
BY AcceptInit, AcceptStep, PTL DEF Spec

\* RuntimeAcceptance!TypeOK: a record says DEPLOYED exactly when it has a URL.
THEOREM AcceptanceTypeCorrect == Spec => []TypeOK
<1>1. AcceptInv => TypeOK
  BY DEF AcceptInv
<1>2. QED
  BY <1>1, AcceptanceInvariant, PTL

\* What is delivered has passed over the network at the URL on record, with the artifact on
\* record if the run names one (delivery.js:173, generated-deployment.js:199).
THEOREM DeliveredWasRunHolds == Spec => []DeliveredWasRun
<1>1. AcceptInv => DeliveredWasRun
  BY DEF AcceptInv
<1>2. QED
  BY <1>1, AcceptanceInvariant, PTL
=============================================================================
