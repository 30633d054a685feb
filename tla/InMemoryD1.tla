----------------------------- MODULE InMemoryD1 -----------------------------
(***************************************************************************)
(* The in-memory D1 a generated Worker is executed against (InMemoryD1 of  *)
(* generated-runtime.mjs) next to D1 itself, on the statements that Worker *)
(* sends.  A table is the sequence of its rows in the order of insertion;  *)
(* D1 also keeps the last id it gave.  A statement names the columns of    *)
(* its SET or VALUES and of its WHERE, each with a placeholder, so that    *)
(* its values are bound in the order of its text.                          *)
(***************************************************************************)
EXTENDS Naturals, SequencesExt, Subsequences

Empty(kind) == [kind |-> kind, rows |-> <<>>, last |-> 0]

Statement(verb, cols, where) == [verb |-> verb, cols |-> cols, where |-> where]
InsertRow == Statement("INSERT", <<"title">>, <<>>)
SelectAll == Statement("SELECT", <<>>, <<>>)    \* ORDER BY id DESC
SelectById == Statement("SELECT", <<>>, <<"id">>)
UpdateById == Statement("UPDATE", <<"title">>, <<"id">>)
DeleteById == Statement("DELETE", <<>>, <<"id">>)

\* parseWhere: the terms take the values from the first it is given.
Matches(st, values, row) == \A k \in DOMAIN st.where : row[st.where[k]] = values[k]
Found(db, st, values) ==
  OnlyIn(db.rows, {row \in ToSet(db.rows) : Matches(st, values, row)})

\* The row with the values of the statement's columns.
Assigned(st, values, row) ==
  [col \in DOMAIN row |->
     IF col \in ToSet(st.cols) THEN values[CHOOSE k \in DOMAIN st.cols : st.cols[k] = col]
     ELSE row[col]]
\* As if the shim's WHERE took the first values.
FromFirst(db, st, values) ==
  IF db.kind = "shim" THEN values ELSE SubSeq(values, Len(st.cols) + 1, Len(values))
\* The values of the WHERE follow those of the SET.
AfterSet(db, st, values) == SubSeq(values, Len(st.cols) + 1, Len(values))

\* The shim numbers a row by how many there are; D1 never gives an id twice.
NewId(db) == IF db.kind = "shim" THEN Len(db.rows) + 1 ELSE db.last + 1
\* The shim takes no notice of an ORDER BY.
Ordered(db, st, found) == IF db.kind = "shim" \/ st.where # <<>> THEN found ELSE Reverse(found)

Answered(db, found, id) == [db |-> db, rows |-> found, lastRowId |-> id]

Execute(db, st, values) ==
  CASE st.verb = "INSERT" ->
         LET id == NewId(db)
             row == Assigned(st, values, [id |-> id, title |-> 0])
         IN Answered([db EXCEPT !.rows = Append(@, row), !.last = id], <<>>, id)
    [] st.verb = "SELECT" ->
         Answered(db, Ordered(db, st, Found(db, st, values)), 0)
    [] st.verb = "UPDATE" ->
         Answered([db EXCEPT !.rows =
                     [i \in DOMAIN @ |-> IF Matches(st, AfterSet(db, st, values), @[i])
                                         THEN Assigned(st, values, @[i]) ELSE @[i]]], <<>>, 0)
    [] st.verb = "DELETE" ->
         Answered([db EXCEPT !.rows = OnlyIn(@, {row \in ToSet(@) : ~Matches(st, values, row)})],
                  <<>>, 0)
=============================================================================
