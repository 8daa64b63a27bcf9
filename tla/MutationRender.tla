--------------------------- MODULE MutationRender ---------------------------
(***************************************************************************)
(* How INSERT, UPDATE and DELETE statements are rendered: the Renderer's   *)
(* two counters, the three sinks a statement is written to, the expression *)
(* visitor and the statement shapes of the dialects.                       *)
(*                                                                         *)
(* An expression is the sequence of its tokens in postfix order, the order *)
(* in which the visitor is done with them: a token [op, arity, ...] takes  *)
(* the values of the arity expressions before it.  "lit" carries a value   *)
(* v, "param" a tag n the program knows it by, "col" the source src and    *)
(* name of a column handle.  Rendering gives a text, again tokens, among   *)
(* them "slot" (a placeholder and its number), "name" (an identifier and   *)
(* the alias that qualifies it, "" for none) and "const".                  *)
(***************************************************************************)
EXTENDS Integers, Sequences, SequencesExt

CONSTANTS
    Null,    \* SQL's NULL
    I64Max   \* the largest value a parameter of PostgreSQL and SQLite can carry

ASSUME I64MaxIsNat == I64Max \in Nat
ASSUME NullIsNoTruth == Null \notin BOOLEAN

Token(op, arity) == [op |-> op, arity |-> arity]
Node(op, args) == Append(FlattenSeq(args), Token(op, Len(args)))
Literal(v) == [op |-> "lit", arity |-> 0, v |-> v]
Param(n) == [op |-> "param", arity |-> 0, n |-> n]
Slot(n) == [op |-> "slot", arity |-> 0, n |-> n]
Name(alias, name) == [op |-> "name", arity |-> 0, alias |-> alias, name |-> name]
Const(b) == [op |-> "const", arity |-> 0, v |-> b]

\* The DEFAULT marker, which is all of the value it stands for.
DefaultKeyword == <<Token("default", 0)>>

\* SourceAlias::new(0, index)
Alias(src) == IF src = 0 THEN "q0_0" ELSE "q0_1"

-----------------------------------------------------------------------------
(* The dialects *)

UpdateFromStyle(d) == IF d = "mysql" THEN "join" ELSE "from"
DeleteUsingStyle(d) ==
    CASE d = "sqlite" -> "exists"
      [] UpdateFromStyle(d) = "join" -> "join"
      [] OTHER -> "using"
ReturningOmitsTargetAlias(d) == d = "sqlite"

-----------------------------------------------------------------------------
(* Sinks: what becomes of the binds.  A context x is [d, sink, bare].      *)

\* Renderer::new and an empty sink.  Counters and binds are one state: w.
Fresh == [next |-> 0, runtime |-> 0, binds |-> <<>>, error |-> FALSE, reject |-> FALSE]

\* Encode of a value that is out of range for the backend's parameter.
Encodes(d, v) == v = Null \/ d = "mysql" \/ v <= I64Max

\* encode_static and push_bind: SqlOnly drops the value; the other sinks stop at their first error.
PushBind(x, v, w) ==
    IF x.sink = "text" \/ w.error THEN w
    ELSE IF Encodes(x.d, v)
        THEN [w EXCEPT !.binds = Append(@, [k |-> "static", v |-> v])]
        ELSE [w EXCEPT !.error = TRUE]

\* next_runtime_param and push_runtime_bind: only a prepared statement keeps the index.
PushRuntime(x, w) ==
    LET counted == [w EXCEPT !.runtime = @ + 1]
    IN  IF x.sink = "prepared"
            THEN [counted EXCEPT !.binds = Append(@, [k |-> "runtime", n |-> w.runtime])]
            ELSE counted

\* write_placeholder: $1, $2, ... or the next ? of the text.
Placeholder(w, text) == [w |-> [w EXCEPT !.next = @ + 1], t |-> Append(text, Slot(w.next))]

-----------------------------------------------------------------------------
(* Expressions: RenderExpr and RenderAssignmentValueVisitor *)

\* Variant: an empty list is false, whichever way it is asked.
EmptyListIsFalse(op) == <<Token("isnotnull", 1), Const(FALSE), Token("and", 2)>>

\* visit_in of an empty list: the operand is rendered once, a constant fixes the truth.
EmptyList(op) ==
    IF op = "in"
        THEN <<Token("isnotnull", 1), Const(FALSE), Token("and", 2)>>
        ELSE <<Token("isnotnull", 1), Const(TRUE), Token("or", 2)>>

\* write_ast: visit_literal, visit_param and visit_column write a leaf, visit_in guards an empty list,
\* every other visit_* its operator around the operands, which are written already.  "s" is the
\* renderer's state w and the text t so far.
WriteToken(x, token, s) ==
    CASE token.op = "lit" -> Placeholder(PushBind(x, token.v, s.w), s.t)
      [] token.op = "param" -> Placeholder(PushRuntime(x, s.w), s.t)
      [] token.op = "col" ->
            [w |-> s.w, t |-> Append(s.t, Name(IF x.bare THEN "" ELSE Alias(token.src), token.name))]
      [] token.op \in {"in", "notin"} /\ token.arity = 1 ->
            [w |-> s.w, t |-> s.t \o EmptyList(token.op)]
      [] OTHER -> [w |-> s.w, t |-> Append(s.t, token)]

\* The operands of an expression from left to right, then its operator.
WriteExpr(x, e, w) ==
    LET at[i \in 0 .. Len(e)] ==
            IF i = 0 THEN [w |-> w, t |-> <<>>] ELSE WriteToken(x, e[i], at[i - 1])
    IN  at[Len(e)]

\* Expressions one after another: a sequence of texts.
WriteNext(x, e, s) ==
    LET one == WriteExpr(x, e, s.w)
    IN  [w |-> one.w, t |-> Append(s.t, one.t)]

WriteAll(x, es, w) ==
    LET at[i \in 0 .. Len(es)] ==
            IF i = 0 THEN [w |-> w, t |-> <<>>] ELSE WriteNext(x, es[i], at[i - 1])
    IN  at[Len(es)]

-----------------------------------------------------------------------------
(* Statements *)

\* A statement before anything is written.
Blank(verb) ==
    [verb |-> verb, style |-> "single", columns |-> <<>>, rows |-> <<>>, sets |-> <<>>,
     filters |-> <<>>, conflict |-> [k |-> "none"], select |-> <<>>, returning |-> <<>>]

Rejected(w) == [w |-> [w EXCEPT !.reject = TRUE], stmt |-> Blank("none")]

ColumnsOf(assigns) == [i \in DOMAIN assigns |-> assigns[i].col]
ValuesOf(assigns) == [i \in DOMAIN assigns |-> assigns[i].value]

\* write_upsert_set_prefix, write_excluded_column: what a replacing upsert assigns, and on which conflicts.
SetExcluded(d, target, columns) ==
    [k |-> IF d = "mysql" THEN "duplicate" ELSE "update", target |-> target,
     sets |-> [i \in DOMAIN columns |-> [col |-> columns[i], to |-> "excluded"]]]

\* write_upsert_do_nothing: MySQL assigns the first inserted column, or the first of the target, to itself.
DoNothingClause(d, target, columns) ==
    IF d = "mysql"
        THEN [k |-> "duplicate", target |-> target,
              sets |-> <<[col |-> IF columns = <<>> THEN target[1] ELSE columns[1], to |-> "self"]>>]
        ELSE [k |-> "nothing", target |-> target, sets |-> <<>>]

\* write_conflict_clause: replacing no column is doing nothing.
ConflictText(d, clause, columns) ==
    CASE clause.action = "none" -> [k |-> "none"]
      [] clause.action = "update" /\ columns # <<>> -> SetExcluded(d, clause.target, columns)
      [] OTHER -> DoNothingClause(d, clause.target, columns)

\* write_insert_rows: a row that does not have the first row's number of columns is refused.
WriteRow(x, width, row, s) ==
    IF Len(row) # width THEN [s EXCEPT !.w.reject = TRUE]
    ELSE LET values == WriteAll(x, ValuesOf(row), s.w)
         IN  [w |-> values.w, t |-> Append(s.t, values.t)]

WriteRows(x, width, rows, w) ==
    LET at[i \in 0 .. Len(rows)] ==
            IF i = 0 THEN [w |-> w, t |-> <<>>] ELSE WriteRow(x, width, rows[i], at[i - 1])
    IN  at[Len(rows)]

\* write_projection of an INSERT: its target has no alias.
WriteInsertReturning(x, projection, w) == WriteAll([x EXCEPT !.bare = TRUE], projection, w)

\* write_returning of an UPDATE or DELETE: qualified by the target's alias where the dialect resolves it.
WriteReturning(x, projection, w) ==
    WriteAll([x EXCEPT !.bare = ReturningOmitsTargetAlias(x.d)], projection, w)

\* write_insert_with_params: without columns and with one row it is the dialect's default row.
WriteInsert(x, q) ==
    LET columns   == ColumnsOf(q.rows[1])
        default   == Len(q.rows) = 1 /\ columns = <<>>
        rows      == WriteRows(x, Len(columns), q.rows, Fresh)
        returning == WriteInsertReturning(x, q.returning, rows.w)
    IN  IF rows.w.reject THEN Rejected(rows.w)
        ELSE [w |-> returning.w,
              stmt |-> [Blank("insert") EXCEPT
                          !.style = IF default THEN "default row" ELSE "single",
                          !.columns = columns, !.rows = rows.t, !.returning = returning.t,
                          !.conflict = ConflictText(x.d, q.conflict, columns)]]

\* write_insert_select_with_params: the source is written after the columns, with the same counters.
WriteInsertSelect(x, q) ==
    LET exprs   == WriteAll(x, q.source.exprs, Fresh)
        filters == WriteAll(x, q.source.filters, exprs.w)
    IN  [w |-> filters.w,
         stmt |-> [Blank("insert") EXCEPT
                     !.style = "select", !.columns = q.columns,
                     !.select = [exprs |-> exprs.t, filters |-> filters.t]]]

\* write_update_assignment_list
WriteAssignments(x, assigns, qualifier, w) ==
    LET values == WriteAll(x, ValuesOf(assigns), w)
    IN  [w |-> values.w,
         t |-> [i \in DOMAIN assigns |->
                  [alias |-> qualifier, col |-> assigns[i].col, t |-> values.t[i]]]]

\* write_update_with_params
WriteUpdate(x, q) ==
    LET sets      == WriteAssignments(x, q.assigns, "", Fresh)
        filters   == WriteAll(x, q.filters, sets.w)
        returning == WriteReturning(x, q.returning, filters.w)
    IN  [w |-> returning.w,
         stmt |-> [Blank("update") EXCEPT
                     !.sets = sets.t, !.filters = filters.t, !.returning = returning.t]]

\* write_update_from_with_params: FROM comes after the assignments, JOIN ... ON before them.
WriteUpdateFrom(x, q) ==
    IF UpdateFromStyle(x.d) = "join"
        THEN LET filters == WriteAll(x, q.filters, Fresh)
                 sets    == WriteAssignments(x, q.assigns, Alias(0), filters.w)
             IN  [w |-> sets.w,
                  stmt |-> [Blank("update") EXCEPT
                              !.style = "join", !.sets = sets.t, !.filters = filters.t]]
        ELSE LET sets    == WriteAssignments(x, q.assigns, "", Fresh)
                 filters == WriteAll(x, q.filters, sets.w)
             IN  [w |-> filters.w,
                  stmt |-> [Blank("update") EXCEPT
                              !.style = "from", !.sets = sets.t, !.filters = filters.t]]

\* write_delete_with_params
WriteDelete(x, q) ==
    LET filters   == WriteAll(x, q.filters, Fresh)
        returning == WriteReturning(x, q.returning, filters.w)
    IN  [w |-> returning.w,
         stmt |-> [Blank("delete") EXCEPT !.filters = filters.t, !.returning = returning.t]]

\* write_delete_using_with_params: USING, JOIN, or SQLite's correlated EXISTS.
WriteDeleteUsing(x, q) ==
    LET filters == WriteAll(x, q.filters, Fresh)
    IN  [w |-> filters.w,
         stmt |-> [Blank("delete") EXCEPT !.style = DeleteUsingStyle(x.d), !.filters = filters.t]]

\* to_sql, collect_params and try_rendered_sql of a query object: one walk per sink.
Render(d, sink, q) ==
    LET x == [d |-> d, sink |-> sink, bare |-> FALSE]
    IN  CASE q.kind = "insert" -> WriteInsert(x, q)
          [] q.kind = "insert_select" -> WriteInsertSelect(x, q)
          [] q.kind = "update" -> WriteUpdate(x, q)
          [] q.kind = "update_from" -> WriteUpdateFrom(x, q)
          [] q.kind = "delete" -> WriteDelete(x, q)
          [] OTHER -> WriteDeleteUsing(x, q)
=============================================================================
