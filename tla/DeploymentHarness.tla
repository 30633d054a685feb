-------------------------- MODULE DeploymentHarness --------------------------
(***************************************************************************)
(* The deployment boundary of scripts/deployment-harness.mjs: a generated  *)
(* Worker served over real HTTP and real sockets, with the in-memory D1 of *)
(* generated-runtime.mjs under it and its Durable Object (LiveConnections) *)
(* behind env.LIVE.  Beside the shim, D1 answers the same requests.        *)
(*                                                                         *)
(* A request runs through in one step: nothing in the record routes waits  *)
(* for the outside.  A socket pair is its number, in the order of creation;*)
(* the Worker keeps one half of it in the hub and returns the other.  A    *)
(* message is the number of its write, 0 the confirmation of a connection. *)
(***************************************************************************)
EXTENDS InMemoryD1, FiniteSets

CONSTANTS
  Socket,    \* TCP clients of the live channel, each connecting once
  Product,   \* products: whether a fetch handler is exported, and whom the broadcast of its hub
             \* reaches ("all", "first") or that there is none ("none"); bound: the requests that write
  MaxWrites  \* bound: the most such requests of a product

DeploymentHarnessBounds ==
  /\ MaxWrites \in Nat /\ IsFiniteSet(Socket)
  /\ Product \subseteq [handler : BOOLEAN, hub : {"all", "first", "none"},
                        writes : 0..MaxWrites]

VARIABLES
  product,
  served,   \* "new", "up", "refused" or "closed"
  stores,   \* [shim, d1]
  writes,   \* requests that wrote so far, by deletes and the others
  reused,   \* a row was inserted after one was deleted
  pairs,    \* socket pairs made
  hub,      \* this.clients of LiveConnections
  sent,     \* what was sent on each half in the hub, whether or not anyone was there to read
  conn      \* each TCP client's connection

vars == <<product, served, stores, writes, reused, pairs, hub, sent, conn>>

Half == 1..Cardinality(Socket)
Message == 0..MaxWrites
\* half: the one whose sends are written to this socket.  early: to be flushed on the next
\* tick.  owed: the writes made while it was open.  left: somebody left since.
NoSocket == [state |-> "none", half |-> 0, early |-> <<>>, got |-> <<>>, owed |-> {},
             left |-> FALSE]

TypeOK ==
  /\ product \in Product /\ served \in {"new", "up", "refused", "closed"}
  /\ writes \in [done : 0..MaxWrites, deletes : 0..MaxWrites] /\ reused \in BOOLEAN
  /\ pairs \in 0..Cardinality(Socket) /\ hub \subseteq 1..pairs
  /\ sent \in [Half -> Seq(Message)]
  /\ \A t \in Socket :
       /\ conn[t].state \in {"none", "open", "gone"} /\ conn[t].half \in 0..pairs
       /\ conn[t].early \in Seq(Message) /\ conn[t].got \in Seq(Message)
       /\ conn[t].owed \subseteq 1..MaxWrites /\ conn[t].left \in BOOLEAN

Init ==
  /\ product \in Product /\ served = "new"
  /\ stores = [shim |-> Empty("shim"), d1 |-> Empty("d1")]
  /\ writes = [done |-> 0, deletes |-> 0] /\ reused = FALSE
  /\ pairs = 0 /\ hub = {} /\ sent = [h \in Half |-> <<>>]
  /\ conn = [t \in Socket |-> NoSocket]

\* loadWorker, and the bindings of its wrangler config; then the server listens.
Start ==
  /\ served = "new"
  /\ served' = IF product.handler THEN "up" ELSE "refused"
  /\ UNCHANGED <<product, stores, writes, reused, pairs, hub, sent, conn>>

-----------------------------------------------------------------------------
\* The routes of the records, over one store.

Response(answer, status) == [db |-> answer.db, status |-> status, rows |-> answer.rows]
ReadBack(db, id, status) == Response(Execute(db, SelectById, <<id>>), status)

List(db) == Response(Execute(db, SelectAll, <<>>), 200)
Create(db, title) ==
  LET made == Execute(db, InsertRow, <<title>>) IN ReadBack(made.db, made.lastRowId, 201)
\* An update and a delete look for the record first.
Missing(db, id) == Execute(db, SelectById, <<id>>).rows = <<>>
Update(db, id, title) ==
  IF Missing(db, id) THEN ReadBack(db, id, 404)
  ELSE ReadBack(Execute(db, UpdateById, <<title, id>>).db, id, 200)
Delete(db, id) ==
  IF Missing(db, id) THEN ReadBack(db, id, 404)
  ELSE Response(Execute(db, DeleteById, <<id>>), 200)

Serve(db, op, id, title) ==
  CASE op = "list" -> List(db)
    [] op = "create" -> Create(db, title)
    [] op = "update" -> Update(db, id, title)
    [] op = "delete" -> Delete(db, id)

\* The hub sends on its halves; a patched send also writes to each socket attached to it.
First(halves) == CHOOSE h \in halves : \A g \in halves : h <= g
Reached == IF product.hub = "first" /\ hub # {} THEN {First(hub)} ELSE hub
Broadcast(m) ==
  /\ sent' = [h \in Half |-> IF h \in Reached THEN Append(sent[h], m) ELSE sent[h]]
  /\ conn' = [t \in Socket |->
       IF conn[t].state # "open" THEN conn[t]
       ELSE [conn[t] EXCEPT !.owed = @ \cup {m},
                            !.got = IF conn[t].half \in Reached THEN Append(@, m) ELSE @]]

Http(op, id) ==
  /\ served = "up"
  /\ LET n    == writes.done + 1
         shim == Serve(stores.shim, op, id, n)
         d1   == Serve(stores.d1, op, id, n)
     IN /\ n <= product.writes
        /\ stores' = [shim |-> shim.db, d1 |-> d1.db]
        /\ IF op # "list" /\ shim.status # 404
           THEN /\ writes' = [done |-> n,
                              deletes |-> writes.deletes + (IF op = "delete" THEN 1 ELSE 0)]
                /\ reused' = (reused \/ (op = "create" /\ writes.deletes > 0))
                /\ IF product.hub = "none" THEN UNCHANGED <<sent, conn>> ELSE Broadcast(n)
           ELSE UNCHANGED <<writes, reused, sent, conn>>
  /\ UNCHANGED <<product, served, pairs, hub>>

-----------------------------------------------------------------------------
\* The live channel.

\* candidates.find((s) => s !== shim): the half the Worker returns is never in the hub, so this
\* is the hub's first half, whoever connects.
Outbound(halves) == First(halves)

\* What was sent on the half before the socket was attached to it; and as if it were not kept.
NoEarly(told, half) == <<>>
Early(told, half) == told[half]

\* The upgrade: the hub keeps the new half and confirms on it, before anyone is attached.
Upgrade(t) ==
  /\ served = "up" /\ conn[t].state = "none"
  /\ IF product.hub = "none"
     THEN /\ conn' = [conn EXCEPT ![t].state = "gone"]
          /\ UNCHANGED <<pairs, hub, sent>>
     ELSE LET new  == pairs + 1
              half == Outbound(hub \cup {new})
              told == [sent EXCEPT ![new] = <<0>>]
          IN /\ pairs' = new /\ hub' = hub \cup {new}
             /\ sent' = told
             /\ conn' = [conn EXCEPT ![t] = [NoSocket EXCEPT !.state = "open", !.half = half,
                                                              !.early = Early(told, half)]]
  /\ UNCHANGED <<product, served, stores, writes, reused>>

\* The next tick.
Flush(t) ==
  /\ conn[t].early # <<>>
  /\ conn' = [conn EXCEPT ![t].early = <<>>,
                          ![t].got = IF conn[t].state = "open" THEN @ \o conn[t].early ELSE @]
  /\ UNCHANGED <<product, served, stores, writes, reused, pairs, hub, sent>>

\* dropClient: the half the socket is attached to is closed, and its handler drops it.
Leave(t) ==
  /\ conn[t].state = "open"
  /\ hub' = hub \ {conn[t].half}
  /\ conn' = [s \in Socket |-> [conn[s] EXCEPT !.state = IF s = t THEN "gone" ELSE @,
                                               !.left = TRUE]]
  /\ UNCHANGED <<product, served, stores, writes, reused, pairs, sent>>

Close ==
  /\ served = "up" /\ served' = "closed"
  /\ UNCHANGED <<product, stores, writes, reused, pairs, hub, sent, conn>>

Rest == served \in {"refused", "closed"} /\ UNCHANGED vars

Next ==
  \/ Start \/ Close \/ Rest
  \/ \E op \in {"list", "create", "update", "delete"}, id \in 1..MaxWrites : Http(op, id)
  \/ \E t \in Socket : Upgrade(t) \/ Flush(t) \/ Leave(t)

Spec == Init /\ [][Next]_vars

(***************************************************************************)
(* What the harness shows of a product is what a deployment would.         *)
(***************************************************************************)
\* Over the in-memory D1 a request is answered as over D1, but for the order of a list, and
\* leaves the same rows, as long as no row is inserted after one was deleted (execute of
\* InMemoryD1; the record routes).
SameAnswer(op, id) ==
  LET shim == Serve(stores.shim, op, id, 0)
      d1   == Serve(stores.d1, op, id, 0)
  IN shim.status = d1.status /\ ToSet(shim.rows) = ToSet(d1.rows)
ShimIsD1 ==
  ~reused =>
    /\ ToSet(stores.shim.rows) = ToSet(stores.d1.rows)
    /\ writes.deletes = 0 => SameAnswer("create", 1)
    /\ \A op \in {"list", "update", "delete"}, id \in 1..MaxWrites : SameAnswer(op, id)

\* No client is given a write twice, whoever comes and goes; and where the hub reaches all its
\* clients, each is given the confirmation and every write, from its upgrade until someone
\* leaves (the upgrade handler; broadcastLive).
EveryWriteOnce ==
  \A t \in Socket :
    /\ IsInjective(conn[t].got \o (IF conn[t].state = "open" THEN conn[t].early ELSE <<>>))
    /\ product.hub = "all" /\ conn[t].state = "open" /\ ~conn[t].left =>
         /\ conn[t].owed \subseteq ToSet(conn[t].got)
         /\ conn[t].early = <<>> => 0 \in ToSet(conn[t].got)

\* "D1 ... really inserts": refuted, the next row takes the id of one that is still there.
ShimKeepsIds == \A i, j \in DOMAIN stores.shim.rows :
                  stores.shim.rows[i].id = stores.shim.rows[j].id => i = j
\* "When the real client disconnects ... drops [its] socket": refuted, the others' half goes.
OthersStayConnected ==
  \A t \in Socket : product.hub = "all" /\ conn[t].state = "open" => conn[t].half \in hub
\* "require BOTH sockets to receive the broadcast" shows a hub that reaches both: refuted.
BothMeansAll ==
  \A s, t \in Socket :
    s # t /\ conn[s].owed \cap conn[t].owed \cap ToSet(conn[s].got) \cap ToSet(conn[t].got) # {}
      => product.hub = "all"
=============================================================================
