---------------------------- MODULE GeneratedApp ----------------------------
(***************************************************************************)
(* The product fullstack-codegen.js generates: a Worker over D1 with       *)
(* sessions and a Durable Object that pushes changes (workerSource), or a  *)
(* store on the device (frontendJs, the adapter in api), and the pages     *)
(* that show its records (frontendJs).  It is the emitted program that is  *)
(* modelled, in the shapes generateFullStackApp emits it in.               *)
(*                                                                         *)
(* A handler waits at each statement of D1, and other requests run in      *)
(* between; the check of the session and the handler's first read are one  *)
(* step here.  A record is its id and the number of the save that wrote    *)
(* it.  Each client would register the one account with its own password.  *)
(***************************************************************************)
EXTENDS Naturals, SequencesExt

CONSTANTS
  Client,
  NoOne,
  Request,  \* bound: requests under way at once
  Saves,    \* bound: creates and updates
  Sessions, \* bound: logins
  Shapes    \* the architectures a run is about; bounds: what users do in one (acts), and
            \* invocations cut, answers lost or sockets dropped (faults)

ASSUME ClientAssumption == NoOne \notin Client
ASSUME ShapeAssumption ==
  Shapes \subseteq [backend : BOOLEAN, auth : BOOLEAN, realtime : BOOLEAN,
                    noun : {"plain", "keyword"}, acts : Nat, faults : Nat]
\* selectArchitecture (architecture.js:39): accounts and live updates bring a server.
ASSUME ServerAssumption == \A s \in Shapes : s.auth \/ s.realtime => s.backend
ASSUME NatAssumption == {Saves, Sessions} \subseteq Nat

VARIABLES
  shape,
  account,    \* users: whose password the account has
  session,    \* sessions, by token
  rows,       \* the table, or the device's store, in the order of ids or of insertion
  lastId,     \* AUTOINCREMENT
  req,
  live,       \* this.clients of LiveConnections
  wire,       \* what was sent on each socket and has not arrived
  page,       \* each client's list, token, editingId, and whether it is open
  saves, acts, bad,
  admitted,   \* history: whose registration was answered with 201
  behind      \* history: the page has missed a change in a way the code does not make good

appVars == <<shape, account, session, rows, lastId, req, live, wire, page, saves, acts, bad,
             admitted, behind>>
server == <<account, session, rows, lastId, admitted>>

Token == 1..Sessions
Id == 1..Saves
Item == [id : Id, val : 0..Saves]
NoItem == [id |-> 1, val |-> 0]
Message == [type : {"created", "updated", "deleted"}, item : Item]

Op == {"load", "create", "update", "delete", "register", "login", "logout"}
\* got: what a SELECT gave it.  heard: the page that sent it still waits.
NoRequest == [pc |-> "free", by |-> NoOne, op |-> "load", item |-> NoItem,
              token |-> 0, got |-> <<>>, status |-> "ok", heard |-> TRUE]
NoPage == [open |-> FALSE, list |-> <<>>, token |-> 0, editing |-> 0]

AppTypeOK ==
  /\ shape \in Shapes
  /\ account \in Client \cup {NoOne}
  /\ session \in [Token -> {"none", "valid", "expired"}]
  /\ rows \in Seq(Item) /\ lastId \in 0..Saves
  /\ req \in [Request -> [pc : {"free", "sent", "write", "read", "cast", "answer"},
                          by : Client \cup {NoOne}, op : Op, item : Item, token : 0..Sessions, got : Seq(Item),
                          status : {"ok", "unauthorized", "refused", "error"},
                          heard : BOOLEAN]]
  /\ live \subseteq Client
  /\ wire \in [Client -> Seq(Message)]
  /\ page \in [Client -> [open : BOOLEAN, list : Seq(Item), token : 0..Sessions,
                          editing : 0..Saves]]
  /\ saves \in 0..Saves /\ acts \in 0..shape.acts /\ bad \in 0..shape.faults
  /\ admitted \subseteq Client /\ behind \subseteq Client

Fault == bad < shape.faults /\ bad' = bad + 1
Act == acts < shape.acts /\ acts' = acts + 1

-----------------------------------------------------------------------------
\* Lists of records.

\* SELECT ... WHERE id = ?: no two rows have one id.
Find(s, id) ==
  LET hits == {x \in ToSet(s) : x.id = id}
  IN  IF hits = {} THEN <<>> ELSE <<CHOOSE x \in hits : TRUE>>

\* filter, as a recursive function.
Without(s, id) ==
  LET kept[k \in 0..Len(s)] ==
        IF k = 0 THEN <<>>
        ELSE IF s[k].id = id THEN kept[k - 1] ELSE Append(kept[k - 1], s[k])
  IN  kept[Len(s)]

Replaced(s, item) == [k \in DOMAIN s |-> IF s[k].id = item.id THEN item ELSE s[k]]
Stored(item) == item \in ToSet(rows)

\* The device's store changes the first record it finds.
FirstOf(s, id) == SelectInSeq(s, LAMBDA x : x.id = id)

-----------------------------------------------------------------------------
\* The client: what the pages send.

Set(r, q) == req' = [req EXCEPT ![r] = q]
Api(c, op, item) == [NoRequest EXCEPT !.pc = "sent", !.by = c, !.op = op, !.item = item,
                                      !.token = page[c].token]
Send(r, c, op, item) ==
  /\ page[c].open /\ shape.backend
  /\ req[r].pc = "free"
  /\ Set(r, Api(c, op, item))

\* DOMContentLoaded: load(), and connectLive() below.  A reload forgets what the page
\* still waits for; the token stays in its storage.
OpenPage(r, c) ==
  /\ Act
  /\ req[r].pc = "free"
  /\ page' = [page EXCEPT ![c] = [NoPage EXCEPT !.open = TRUE, !.token = page[c].token,
                                                !.list = IF shape.backend THEN <<>> ELSE rows]]
  /\ req' = [q \in Request |->
       IF q = r /\ shape.backend THEN Api(c, "load", NoItem)
       ELSE IF req[q].by = c THEN [req[q] EXCEPT !.heard = FALSE] ELSE req[q]]
  /\ live' = live \ {c}
  /\ wire' = [wire EXCEPT ![c] = <<>>]
  /\ UNCHANGED <<shape, server, saves, bad, behind>>

\* saveItem, with editingId as it is when the form is sent.
Save(r, c) ==
  /\ Act
  /\ saves < Saves /\ saves' = saves + 1
  /\ LET e == page[c].editing
     IN  Send(r, c, IF e = 0 THEN "create" ELSE "update",
              [id |-> IF e = 0 THEN 1 ELSE e, val |-> saves + 1])
  /\ UNCHANGED <<shape, server, live, wire, page, bad, behind>>

StartEdit(c) ==
  /\ Act
  /\ page[c].open /\ page[c].editing = 0
  /\ \E x \in ToSet(page[c].list) : page' = [page EXCEPT ![c].editing = x.id]
  /\ UNCHANGED <<shape, server, req, live, wire, saves, bad, behind>>

removeItem(r, c) ==
  /\ Act
  /\ \E x \in ToSet(page[c].list) : Send(r, c, "delete", x)
  /\ UNCHANGED <<shape, server, live, wire, page, saves, bad, behind>>

\* register, login, logout.
Account(r, c, op) ==
  /\ Act
  /\ shape.auth
  /\ (op = "logout") = (page[c].token # 0)
  /\ Send(r, c, op, NoItem)
  /\ UNCHANGED <<shape, server, live, wire, page, saves, bad, behind>>

-----------------------------------------------------------------------------
\* The Worker: route.

\* ensureSchema: every request creates the tables first, and without accounts the statement
\* names the table unquoted, a syntax error if the founder's noun is a keyword.
SchemaBroken == ~shape.auth /\ shape.noun = "keyword"

SignedIn(q) == q.token # 0 /\ session[q.token] = "valid"
Open(q) == q.op \in {"register", "login"}

Answer(r, status) == Set(r, [req[r] EXCEPT !.pc = "answer", !.status = status])
Goto(r, pc) == Set(r, [req[r] EXCEPT !.pc = pc])

\* currentUser deletes a session that has expired.
Purged(q) == IF q.token # 0 /\ session[q.token] = "expired" THEN [session EXCEPT ![q.token] = "none"]
             ELSE session

\* No change is on its way to the page.
Calm(c) ==
  /\ wire[c] = <<>>
  /\ \A r \in Request : req[r].pc \notin {"read", "cast"} /\ (req[r].by = c => req[r].pc # "answer")

Arrive(r) ==
  LET q == req[r]
  IN  /\ q.pc = "sent"
      /\ session' = IF shape.auth /\ ~SchemaBroken THEN Purged(q) ELSE session
      /\ \/ SchemaBroken /\ Answer(r, "error")
         \/ ~SchemaBroken /\ shape.auth /\ ~Open(q) /\ ~SignedIn(q) /\ Answer(r, "unauthorized")
         \/ /\ ~SchemaBroken /\ (shape.auth /\ ~Open(q) => SignedIn(q))
            /\ \/ q.op = "register" /\ account # NoOne /\ Answer(r, "refused")
               \/ q.op = "register" /\ account = NoOne /\ Goto(r, "write")
               \/ q.op = "login" /\ account # q.by /\ Answer(r, "unauthorized")
               \/ q.op = "login" /\ account = q.by /\ Goto(r, "write")
               \/ q.op \in {"logout", "create"} /\ Goto(r, "write")
               \/ q.op = "load" /\ Set(r, [q EXCEPT !.pc = "answer", !.got = Reverse(rows)])
               \/ q.op \in {"update", "delete"} /\ Find(rows, q.item.id) = <<>> /\ Answer(r, "refused")
               \/ q.op \in {"update", "delete"} /\ Find(rows, q.item.id) # <<>> /\ Goto(r, "write")
      /\ behind' = IF q.op = "load" /\ q.heard /\ Calm(q.by) THEN behind \ {q.by} ELSE behind
      /\ UNCHANGED <<shape, account, rows, lastId, live, wire, page, saves, acts, bad, admitted>>

\* The column email is UNIQUE: of two registrations at once the second INSERT fails.
OrReplace(r) ==
  account' = req[r].by /\ admitted' = admitted \cup {req[r].by} /\ Answer(r, "ok")
Insert(r) ==
  IF account = NoOne
  THEN /\ account' = req[r].by /\ admitted' = admitted \cup {req[r].by}
       /\ Answer(r, "ok")
  ELSE UNCHANGED <<account, admitted>> /\ Answer(r, "error")

WriteAccount(r) ==
  LET q == req[r]
  IN  /\ q.pc = "write"
      /\ \/ q.op = "register" /\ Insert(r) /\ UNCHANGED session
         \/ /\ q.op = "login"
            /\ \E t \in Token :
                 /\ session[t] = "none" /\ \A u \in 1..(t - 1) : session[u] # "none"
                 /\ session' = [session EXCEPT ![t] = "valid"]
                 /\ Set(r, [q EXCEPT !.pc = "answer", !.token = t])
            /\ UNCHANGED <<account, admitted>>
         \/ /\ q.op = "logout"
            /\ session' = [session EXCEPT ![q.token] = "none"]
            /\ Answer(r, "ok")
            /\ UNCHANGED <<account, admitted>>
      /\ UNCHANGED <<shape, rows, lastId, live, wire, page, saves, acts, bad, behind>>

\* INSERT, UPDATE and DELETE; a row that is gone by now is updated or deleted without effect.
WriteRow(r) ==
  LET q == req[r]
  IN  /\ q.pc = "write"
      /\ \/ /\ q.op = "create"
            /\ lastId' = lastId + 1
            /\ rows' = Append(rows, [id |-> lastId + 1, val |-> q.item.val])
            /\ Set(r, [q EXCEPT !.pc = "read", !.item.id = lastId + 1])
         \/ /\ q.op = "update"
            /\ rows' = Replaced(rows, q.item)
            /\ Goto(r, "read") /\ UNCHANGED lastId
         \/ /\ q.op = "delete"
            /\ rows' = Without(rows, q.item.id)
            /\ Goto(r, IF shape.realtime THEN "cast" ELSE "answer") /\ UNCHANGED lastId
      /\ UNCHANGED <<shape, account, session, live, wire, page, saves, acts, bad, admitted, behind>>

\* The row is read again for the answer: it may have changed, or be gone.
ReadBack(r) ==
  /\ req[r].pc = "read"
  /\ Set(r, [req[r] EXCEPT !.pc = IF shape.realtime THEN "cast" ELSE "answer",
                           !.got = Find(rows, req[r].item.id)])
  /\ UNCHANGED <<shape, server, live, wire, page, saves, acts, bad, behind>>

-----------------------------------------------------------------------------
\* Changes that are pushed: broadcastLive, LiveConnections, connectLive.

Kind == [create |-> "created", update |-> "updated", delete |-> "deleted"]
CastsRows(q) == q.got # <<>>
Casts(q) == q.op = "delete" \/ q.got # <<>>
CastItem(q) == IF q.op = "delete" THEN q.item ELSE Head(q.got)
Overtaken(q) == q.op # "delete" /\ ~Stored(CastItem(q))

\* Every socket gets it, the one of the page it came from too: the Durable Object does not
\* know the sender of a call.  A socket that is not connected gets nothing later.
Sent(q) == [c \in Client |-> IF c \in live
                             THEN Append(wire[c], [type |-> Kind[q.op], item |-> CastItem(q)])
                             ELSE wire[c]]

Cast(r) ==
  LET q == req[r]
  IN  /\ q.pc = "cast"
      /\ wire' = IF Casts(q) THEN Sent(q) ELSE wire
      /\ behind' = IF Casts(q) /\ Overtaken(q) THEN Client ELSE behind \cup (Client \ live)
      /\ Goto(r, "answer")
      /\ UNCHANGED <<shape, server, live, page, saves, acts, bad>>

Connect(c) ==
  /\ page[c].open /\ shape.realtime /\ c \notin live
  /\ live' = live \cup {c}
  /\ UNCHANGED <<shape, server, req, wire, page, saves, acts, bad, behind>>

\* The list is not read again when the socket comes back.
Drop(c) ==
  /\ Fault
  /\ c \in live
  /\ live' = live \ {c}
  /\ wire' = [wire EXCEPT ![c] = <<>>]
  /\ behind' = IF wire[c] # <<>> THEN behind \cup {c} ELSE behind
  /\ UNCHANGED <<shape, server, req, page, saves, acts>>

Shown(list, m) ==
  CASE m.type = "created" -> <<m.item>> \o list
    [] m.type = "updated" -> Replaced(list, m.item)
    [] m.type = "deleted" -> Without(list, m.item.id)

Loading(c) ==
  \E r \in Request : req[r].by = c /\ req[r].heard /\ req[r].op = "load" /\ req[r].pc = "answer"

\* An answer to load() that was read before replaces what arrives meanwhile.
Deliver(c) ==
  /\ wire[c] # <<>>
  /\ wire' = [wire EXCEPT ![c] = Tail(@)]
  /\ page' = [page EXCEPT ![c].list = Shown(@, Head(wire[c]))]
  /\ behind' = IF Loading(c) THEN behind \cup {c} ELSE behind
  /\ UNCHANGED <<shape, server, req, live, saves, acts, bad>>

-----------------------------------------------------------------------------
\* The client: what it makes of an answer.

Saved(q) == IF q.got = <<>> THEN NoItem ELSE Head(q.got)

\* saveItem asks editingId again: the answer to a new record, met while another is edited,
\* is not added, the answer to an edit that was left is added once more.  An answer without
\* a row throws at the first record of the list it is held against, and changes nothing; it
\* is added to the list as the null it is (NoItem) where nothing is edited.
ShowSaved(q, p) ==
  CASE p.editing = 0 -> [p EXCEPT !.list = <<Saved(q)>> \o @]
    [] p.editing # 0 /\ q.got = <<>> /\ p.list # <<>> -> p
    [] OTHER -> [p EXCEPT !.editing = 0, !.list = Replaced(@, Saved(q))]
SameEdit(q) == page[q.by].editing = (IF q.op = "create" THEN 0 ELSE q.item.id)

Reply(r) ==
  LET q == req[r]
      c == q.by
      ok == q.status = "ok"
      Now(p) == page' = [page EXCEPT ![c] = p]
  IN  /\ q.pc = "answer"
      /\ IF ~q.heard THEN Set(r, NoRequest) /\ UNCHANGED <<page, behind>>
         ELSE \/ /\ q.op = "load"
                 /\ Now([page[c] EXCEPT !.list = IF ok THEN q.got
                                                 ELSE IF q.status = "unauthorized" THEN <<>>
                                                 ELSE @])
                 /\ behind' = IF ok THEN behind ELSE behind \cup {c}
                 /\ Set(r, NoRequest)
              \/ /\ q.op \in {"create", "update"} /\ ok
                 /\ Now(ShowSaved(q, page[c]))
                 /\ behind' = IF SameEdit(q) /\ Stored(Saved(q)) THEN behind ELSE behind \cup {c}
                 /\ Set(r, NoRequest)
              \/ /\ q.op = "delete" /\ ok
                 /\ Now([page[c] EXCEPT !.list = Without(@, q.item.id)])
                 /\ Set(r, NoRequest) /\ UNCHANGED behind
              \/ /\ q.op = "register" /\ ok
                 /\ Set(r, Api(c, "login", NoItem)) /\ UNCHANGED <<page, behind>>
              \/ /\ q.op = "login" /\ ok
                 /\ Now([page[c] EXCEPT !.token = q.token])
                 /\ Set(r, [Api(c, "load", NoItem) EXCEPT !.token = q.token])
                 /\ UNCHANGED behind
              \/ /\ q.op = "logout" /\ ok
                 /\ Now([page[c] EXCEPT !.token = 0, !.list = <<>>])
                 /\ behind' = behind \cup {c}
                 /\ Set(r, NoRequest)
              \/ /\ q.op # "load" /\ ~ok
                 /\ Set(r, NoRequest) /\ UNCHANGED <<page, behind>>
      /\ UNCHANGED <<shape, server, live, wire, saves, acts, bad>>

\* An invocation is cut, or its answer lost: the page says so and keeps what it shows.
Cut(r) ==
  /\ Fault
  /\ req[r].pc # "free"
  /\ behind' = IF req[r].pc \in {"read", "cast"} THEN Client
               ELSE IF req[r].op = "load" THEN behind \cup {req[r].by} ELSE behind
  /\ Set(r, NoRequest)
  /\ UNCHANGED <<shape, server, live, wire, page, saves, acts>>

\* Seven days.
Expire(t) ==
  /\ session[t] = "valid"
  /\ session' = [session EXCEPT ![t] = "expired"]
  /\ UNCHANGED <<shape, account, rows, lastId, req, live, wire, page, saves, acts, bad,
                 admitted, behind>>

-----------------------------------------------------------------------------
\* A product without a server: api() answers from the store of the device, which all
\* pages share, and a page changes in the same turn.

LocalSave(c) ==
  /\ Act
  /\ page[c].open /\ ~shape.backend
  /\ saves < Saves /\ saves' = saves + 1
  /\ LET new == [id |-> Len(rows) + 1, val |-> saves + 1]
         old == [id |-> page[c].editing, val |-> saves + 1]
         at == FirstOf(rows, old.id)
     IN  \/ /\ page[c].editing = 0
            /\ rows' = Append(rows, new)
            /\ page' = [page EXCEPT ![c].list = <<new>> \o @]
         \/ /\ page[c].editing # 0 /\ at # 0
            /\ rows' = [rows EXCEPT ![at] = old]
            /\ page' = [page EXCEPT ![c].list = Replaced(@, old), ![c].editing = 0]
         \/ /\ page[c].editing # 0 /\ at = 0
            /\ UNCHANGED <<rows, page>>
  /\ UNCHANGED <<shape, account, session, lastId, req, live, wire, bad, admitted, behind>>

LocalRemove(c) ==
  /\ Act
  /\ page[c].open /\ ~shape.backend
  /\ \E x \in ToSet(page[c].list) :
       LET at == FirstOf(rows, x.id)
       IN  /\ at # 0
           /\ rows' = RemoveAt(rows, at)
           /\ page' = [page EXCEPT ![c].list = Without(@, x.id)]
  /\ UNCHANGED <<shape, account, session, lastId, req, live, wire, saves, bad, admitted, behind>>

-----------------------------------------------------------------------------
AppInit ==
  /\ shape \in Shapes
  /\ account = NoOne
  /\ session = [t \in Token |-> "none"]
  /\ rows = <<>> /\ lastId = 0
  /\ req = [r \in Request |-> NoRequest]
  /\ live = {}
  /\ wire = [c \in Client |-> <<>>]
  /\ page = [c \in Client |-> NoPage]
  /\ saves = 0 /\ acts = 0 /\ bad = 0
  /\ admitted = {} /\ behind = {}

AppNext ==
  \/ \E r \in Request, c \in Client :
       \/ OpenPage(r, c) \/ Save(r, c) \/ removeItem(r, c)
       \/ \E op \in {"register", "login", "logout"} : Account(r, c, op)
  \/ \E r \in Request :
       \/ Arrive(r) \/ WriteAccount(r) \/ WriteRow(r) \/ ReadBack(r) \/ Cast(r) \/ Reply(r)
       \/ Cut(r)
  \/ \E c \in Client :
       \/ StartEdit(c) \/ Connect(c) \/ Drop(c) \/ Deliver(c)
       \/ LocalSave(c) \/ LocalRemove(c)
  \/ \E t \in Token : Expire(t)

AppSpec == AppInit /\ [][AppNext]_appVars

-----------------------------------------------------------------------------
\* Of two registrations at once one is told that it succeeded, and its password is the
\* account's ever after (register, fullstack-codegen.js:251).
RegisteredCanLogIn == \A c \in admitted : account = c

\* A page with live updates shows what is stored once everything has arrived, whoever
\* changed it, unless it missed a change in a way the code does not make good: a socket
\* that was not connected, a change overtaken by another or by an answer read before it.
Settled(c) ==
  /\ shape.realtime /\ page[c].open /\ c \in live
  /\ shape.auth => page[c].token # 0
  /\ wire[c] = <<>> /\ \A r \in Request : req[r].pc = "free"
PageShowsStore ==
  \A c \in Client : Settled(c) /\ c \notin behind => ToSet(page[c].list) = ToSet(rows)

\* A record is edited and deleted by its id.
IdsAreUnique == \A i, j \in DOMAIN rows : rows[i].id = rows[j].id => i = j

\* "every OTHER client so the origin's own optimistic update is not duplicated"
\* (fullstack-codegen.js:214).
NoRowTwice ==
  \A c \in Client : c \notin behind =>
    \A i, j \in DOMAIN page[c].list : page[c].list[i] = page[c].list[j] => i = j
=============================================================================
