----------------------------- MODULE Mutations ------------------------------
(***************************************************************************)
(* INSERT, UPDATE and DELETE from the builder to the table.  A program     *)
(* calls the methods of a mutation builder one by one; a finalizer turns   *)
(* what the builder kept into a query object; the backend renders it, once *)
(* for the text and once for the parameters, or once as a prepared         *)
(* statement that is run again and again with other arguments; the server  *)
(* executes it.                                                            *)
(*                                                                         *)
(* The calls are logged as the program made them.  Meaning reads the log   *)
(* and nothing else: it says what the table must become, without builder,  *)
(* renderer or parameters, and EffectIsMeaning compares.                   *)
(***************************************************************************)
EXTENDS MutationServer

CONSTANTS
    Dialects,          \* the backends: a subset of {"postgres", "mysql", "sqlite"}
    Schemas,           \* table types: as MutationServer's, with insertable and updateable columns
    Tables,            \* contents the table may start with
    OtherRows,         \* the rows of the second table
    OtherColumns,      \* and its columns
    ColumnLists,       \* what to::<T>().columns may list
    Assignable,        \* the expressions a value of a column may be: a function of the column
    SetExprs,          \* further expressions for the closure of set: a function of the column
    JoinedExprs,       \* further ones for the closure of from().set: a function of the column
    Predicates,        \* conditions on the target alone, by the stage of the builder
    JoinedPredicates,  \* conditions on the target and the second source
    Sources,           \* sources of INSERT ... SELECT: [columns, exprs, filters]
    Targets,           \* conflict targets: sequences of columns
    Projections,       \* what a RETURNING may list, <<>> for none
    Arguments,         \* arguments of prepared statements: as many as it has parameters are taken
    MaxRows,           \* bound on the rows of an insert
    MaxSetters,        \* bound on the setters of a write builder
    MaxCalls,          \* bound on the calls before a where_ or all, by the stage of the builder
    MaxRuns            \* bound on the runs of a prepared statement

VARIABLES
    dialect,   \* the connection's backend
    schema,    \* the table type
    table,     \* the rows of the table in the database
    builder,   \* the builder the program holds
    query,     \* the query object a finalizer built
    prepared,  \* a prepared statement: its text and its parameters
    outcome,   \* the last execution: arguments, the table before it and what came of it
    calls      \* every call the program made, in order

vars == <<dialect, schema, table, builder, query, prepared, outcome, calls>>

-----------------------------------------------------------------------------
(* What the code's types say of the constants *)

ASSUME DialectsAreKnown == Dialects \subseteq {"postgres", "mysql", "sqlite"}

\* The program writes handles, not names, and no placeholder; an expression begins with a leaf.
OfProgram(token) ==
    /\ token.op \notin {"slot", "name", "const"}
    /\ token.arity \in Nat
    /\ token.op \in {"lit", "param", "col", "default"} => token.arity = 0
    /\ token.op \in {"in", "notin"} => token.arity > 0
IsExpression(e) ==
    /\ e \in Seq(Range(e)) /\ e # <<>> /\ e[1].arity = 0
    /\ \A token \in Range(e) : OfProgram(token)

\* Its handles are of the target's columns or of those of a second source.
Reads(e, columns, others) ==
    \A token \in Range(e) :
        token.op = "col" => \/ token.src = 0 /\ token.name \in columns
                            \/ token.src = 1 /\ token.name \in others

\* A closure is handed the columns of its sources, and the values of an insert those of none.
ASSUME MenusAreOfColumns ==
    \A s \in Schemas :
        /\ s.insertable \cup s.updateable \subseteq s.columns
        /\ \A menu \in {Assignable, SetExprs, JoinedExprs} : s.columns \subseteq DOMAIN menu
        /\ \A c \in s.columns :
              /\ \A e \in Assignable[c] : IsExpression(e) /\ Reads(e, {}, {})
              /\ \A e \in SetExprs[c] : IsExpression(e) /\ Reads(e, s.columns, {})
              /\ \A e \in JoinedExprs[c] : IsExpression(e) /\ Reads(e, s.columns, OtherColumns)
        /\ \A stage \in {"set", "write", "delete"} :
              \A e \in Predicates[stage] : IsExpression(e) /\ Reads(e, s.columns, {})
        /\ \A e \in JoinedPredicates : IsExpression(e) /\ Reads(e, s.columns, OtherColumns)
        /\ \A p \in Projections : \A i \in DOMAIN p : IsExpression(p[i]) /\ Reads(p[i], s.columns, {})

ASSUME SourcesAreQueries ==
    \A s \in Sources :
        /\ s.columns \in Seq(Range(s.columns)) /\ Len(s.exprs) = Len(s.columns)
        /\ \A list \in {s.exprs, s.filters} :
              /\ list \in Seq(Range(list))
              /\ \A i \in DOMAIN list : IsExpression(list[i]) /\ Reads(list[i], OtherColumns, {})

\* Columns are listed once each, at least one; a RETURNING takes no runtime parameter (ProjectionParams).
ASSUME ListsAreOfColumns == \A list \in ColumnLists : list \in Seq(Range(list)) /\ list # <<>> /\ IsInjective(list)
ASSUME ProjectionsAreStatic ==
    \A p \in Projections : /\ p \in Seq(Range(p))
                            /\ \A i \in DOMAIN p : \A token \in Range(p[i]) : token.op # "param"

ASSUME KeysAreListed == \A s \in Schemas : s.keys \in Seq(SUBSET s.columns)

\* The table holds what its constraints allow.
ASSUME TablesAreConsistent ==
    \A s \in Schemas, t \in Tables : \A r \in t :
        /\ r \in [s.columns -> Range(r)]
        /\ Storable(s, r)
        /\ \A other \in t \ {r} : ~Clash(s, r, other)

-----------------------------------------------------------------------------
(* Backends and values *)

SupportsReturning(d) == d # "mysql"
SupportsDefaultKeyword(d) == d # "sqlite"
SupportsColumnlessUpsert(d) == d # "sqlite"

\* IntoAssignmentValue, IntoNullableAssignmentValue and their insert twins: a NULL only for a nullable
\* column, DEFAULT only where the backend has the keyword.
AssignableTo(c, v) ==
    /\ v = DefaultKeyword => SupportsDefaultKeyword(dialect)
    /\ v = <<Literal(Null)>> => c \in schema.nullable

\* A runtime parameter is known by the place it was written at: the call, which of its expressions,
\* and where in it.
PlaceParams(call, i, e) ==
    [j \in DOMAIN e |-> IF e[j].op = "param" THEN Param(<<call, i, j>>) ELSE e[j]]

Either(menu, more) == [c \in DOMAIN menu |-> menu[c] \cup more[c]]

\* The values a closure may give the listed columns, of those on the menu of each.
Assignments(columns, call, menu) ==
    {[i \in DOMAIN columns |-> [col |-> columns[i], value |-> PlaceParams(call, i, f[i])]] :
        f \in {g \in [DOMAIN columns -> UNION {menu[columns[j]] : j \in DOMAIN columns}] :
                  \A i \in DOMAIN columns : g[i] \in menu[columns[i]] /\ AssignableTo(columns[i], g[i])}}

\* RequiredInsertColumns and RequiredCovered: insertable, neither nullable nor with a default.
Required == schema.insertable \ (schema.nullable \cup DOMAIN schema.defaults)
RequiredCovered(columns) == Required \subseteq {columns[i] : i \in DOMAIN columns}

\* PredicateNodes::Params and the Params of assignments: the runtime parameters in the order of the type.
ParamsOf(es) ==
    LET tokens == FlattenSeq(es)
    IN  FlattenSeq([i \in DOMAIN tokens |-> IF tokens[i].op = "param" THEN <<tokens[i]>> ELSE <<>>])

\* WriteAssignments: into_insert keeps the setters of insertable columns, into_update of updateable ones.
OfColumns(assigns, columns) ==
    FlattenSeq([i \in DOMAIN assigns |-> IF assigns[i].col \in columns THEN <<assigns[i]>> ELSE <<>>])
IntoInsert(assigns) == OfColumns(assigns, schema.insertable)
IntoUpdate(assigns) == OfColumns(assigns, schema.updateable)

-----------------------------------------------------------------------------
(* Builders *)

Idle == [stage |-> "start", columns |-> <<>>, rows |-> <<>>, assigns |-> <<>>, filters |-> <<>>,
         filtered |-> FALSE, conflict |-> [action |-> "none", target |-> <<>>]]

NoQuery == [kind |-> "none"]
NotRun == [args |-> <<>>, before |-> {}, table |-> {}, returned |-> {}, error |-> FALSE, run |-> 0]

Init ==
    /\ dialect \in Dialects
    /\ schema \in Schemas
    /\ table \in Tables
    /\ builder = Idle
    /\ query = NoQuery
    /\ prepared = NoQuery
    /\ outcome = NotRun
    /\ calls = <<>>

Stage(stages) == builder.stage \in stages

\* The program holds the builder that the call returned.
Becomes(b, call) ==
    /\ builder' = b
    /\ calls' = Append(calls, call)
    /\ UNCHANGED <<dialect, schema, table, query, prepared, outcome>>

\* to::<T>().columns(..)
ToColumns ==
    /\ Stage({"start"})
    /\ \E columns \in ColumnLists :
        Becomes([builder EXCEPT !.stage = "columns", !.columns = columns], [call |-> "columns"])

\* ToColumns::row: Columns: InsertColumnValues.
Row ==
    /\ Stage({"columns"})
    /\ Len(builder.rows) < MaxRows
    /\ \A i \in DOMAIN builder.columns : builder.columns[i] \in schema.insertable
    /\ \E row \in Assignments(builder.columns, Len(calls), Assignable) :
        Becomes([builder EXCEPT !.rows = Append(@, row)], [call |-> "row", assigns |-> row])

\* ToColumns::set: Columns: UpdateColumnValues.  The rows stay behind.
Set ==
    /\ Stage({"columns"})
    /\ \A i \in DOMAIN builder.columns : builder.columns[i] \in schema.updateable
    /\ \E assigns \in Assignments(builder.columns, Len(calls), Either(Assignable, SetExprs)) :
        Becomes([Idle EXCEPT !.stage = "set", !.assigns = assigns], [call |-> "set", assigns |-> assigns])

\* ToColumns::from, only without rows.
From ==
    /\ Stage({"columns"})
    /\ builder.rows = <<>>
    /\ Becomes([builder EXCEPT !.stage = "from"], [call |-> "from"])

\* UpdateFromColumns::set: the closure is given both tables.
SetFrom ==
    /\ Stage({"from"})
    /\ \A i \in DOMAIN builder.columns : builder.columns[i] \in schema.updateable
    /\ \E assigns \in Assignments(builder.columns, Len(calls), Either(Assignable, JoinedExprs)) :
        Becomes([Idle EXCEPT !.stage = "set from", !.assigns = assigns],
                [call |-> "set", assigns |-> assigns])

\* to::<T>(): the generated write builder.
Write ==
    /\ Stage({"start"})
    /\ Becomes([builder EXCEPT !.stage = "write"], [call |-> "write"])

\* A generated setter: at the end of the assignments, whatever was called before.
Setter ==
    /\ Stage({"write"})
    /\ Len(builder.assigns) < MaxSetters
    /\ \E c \in schema.insertable \cup schema.updateable :
        /\ \A i \in DOMAIN builder.assigns : builder.assigns[i].col # c
        /\ \E assigns \in Assignments(<<c>>, Len(calls), Assignable) :
            Becomes([builder EXCEPT !.assigns = @ \o assigns], [call |-> "set", assigns |-> assigns])

\* from::<T>() as the source of a DELETE.
FromTable ==
    /\ Stage({"start"})
    /\ Becomes([builder EXCEPT !.stage = "delete"], [call |-> "from"])

\* From::using
Using ==
    /\ Stage({"delete"})
    /\ builder.filters = <<>> /\ ~builder.filtered
    /\ Becomes([builder EXCEPT !.stage = "using"], [call |-> "using"])

\* where_ of every builder: at the end of the filters, and the builder is filtered.
Where ==
    /\ Stage({"set", "write", "delete", "set from", "using"})
    /\ Len(calls) < MaxCalls[builder.stage]
    /\ Stage({"delete"}) /\ builder.filtered => builder.filters # <<>>
    /\ \E p \in IF Stage({"set from", "using"}) THEN JoinedPredicates ELSE Predicates[builder.stage] :
        LET filter == PlaceParams(Len(calls), 0, p)
        IN  Becomes([builder EXCEPT !.filters = Append(@, filter), !.filtered = TRUE],
                    [call |-> "where", filter |-> filter])

\* all of every builder: filtered, and the filters are kept; a DELETE's all is From's own.
All ==
    /\ Stage({"set", "write", "delete"})
    /\ Len(calls) < MaxCalls[builder.stage]
    /\ Stage({"delete"}) => ~builder.filtered
    /\ \A i \in DOMAIN calls : calls[i].call # "all"
    /\ Becomes([builder EXCEPT !.filtered = TRUE], [call |-> "all"])

\* on_conflict of a write builder: from here on it is the row to insert and a target.
OnConflict ==
    /\ Stage({"write"})
    /\ RequiredCovered(ColumnsOf(builder.assigns))
    /\ \E target \in Targets :
        Becomes([Idle EXCEPT !.stage = "on conflict", !.assigns = IntoInsert(builder.assigns),
                             !.conflict = [action |-> "none", target |-> target]],
                [call |-> "on conflict", target |-> target])

\* do_nothing, do_update: ValidUpsertColumns.
DoOnConflict ==
    /\ Stage({"on conflict"})
    /\ builder.assigns = <<>> => SupportsColumnlessUpsert(dialect)
    /\ \E action \in {"nothing", "update"} :
        Becomes([builder EXCEPT !.stage = "upsert", !.conflict.action = action],
                [call |-> "do", action |-> action])

-----------------------------------------------------------------------------
(* Finalizers: the query object *)

Builds(q, call) ==
    /\ builder' = [Idle EXCEPT !.stage = "query"]
    /\ query' = q
    /\ calls' = Append(calls, call)
    /\ UNCHANGED <<dialect, schema, table, prepared, outcome>>

Returnable(projection) == projection = <<>> \/ SupportsReturning(dialect)

\* insert, insert_returning and build of ToColumns, of a write builder and of an upsert.  Only the
\* write builder asks for the required columns; its filters stay behind.
Insert ==
    /\ \/ Stage({"columns"}) /\ builder.rows # <<>>
       \/ Stage({"write"}) /\ RequiredCovered(ColumnsOf(builder.assigns))
       \/ Stage({"upsert"})
    /\ \E projection \in Projections :
        /\ Returnable(projection)
        /\ Builds([kind |-> "insert", conflict |-> builder.conflict, returning |-> projection,
                   rows |-> IF Stage({"columns"}) THEN builder.rows ELSE <<IntoInsert(builder.assigns)>>],
                  [call |-> "insert", returning |-> projection])

\* insert_select, only on a fresh write builder; assert_distinct_insert_select_columns.
InsertSelect ==
    /\ Stage({"write"})
    /\ builder.assigns = <<>> /\ ~builder.filtered
    /\ \E source \in Sources :
        /\ RequiredCovered(source.columns)
        /\ IsInjective(source.columns)
        /\ \A i \in DOMAIN source.columns : source.columns[i] \in schema.insertable
        /\ Builds([kind |-> "insert_select", columns |-> source.columns, source |-> source],
                  [call |-> "insert select", source |-> source])

\* update and update_returning: both builders ask to be filtered, the write builder for an assignment.
Update ==
    /\ builder.filtered
    /\ \/ Stage({"set"})
       \/ Stage({"write"}) /\ IntoUpdate(builder.assigns) # <<>>
    /\ \E projection \in Projections :
        /\ Returnable(projection)
        /\ Builds([kind |-> "update", filters |-> builder.filters, returning |-> projection,
                   assigns |-> IF Stage({"write"}) THEN IntoUpdate(builder.assigns) ELSE builder.assigns],
                  [call |-> "update", returning |-> projection])

\* UpdateFromBuilder::build and update
UpdateFrom ==
    /\ Stage({"set from"}) /\ builder.filtered
    /\ Builds([kind |-> "update_from", assigns |-> builder.assigns, filters |-> builder.filters],
              [call |-> "update from"])

\* delete and delete_returning of Where and AllRows: into_delete_parts.
Delete ==
    /\ Stage({"delete"}) /\ builder.filtered
    /\ \E projection \in Projections :
        /\ Returnable(projection)
        /\ Builds([kind |-> "delete", filters |-> builder.filters, returning |-> projection],
                  [call |-> "delete", returning |-> projection])

\* DeleteUsingBuilder::build and delete
DeleteUsing ==
    /\ Stage({"using"}) /\ builder.filtered
    /\ Builds([kind |-> "delete_using", filters |-> builder.filters], [call |-> "delete using"])

-----------------------------------------------------------------------------
(* Execution *)

\* The expressions of the rows of an insert, row by row.
ExprsOfRows(rows) == FlattenSeq([i \in DOMAIN rows |-> ValuesOf(rows[i])])

\* The parts of a query that carry expressions, in the order of its type.
ExprsOf(q) ==
    CASE q.kind = "insert" -> ExprsOfRows(q.rows) \o q.returning
      [] q.kind = "insert_select" -> q.source.exprs \o q.source.filters
      [] q.kind = "update" -> ValuesOf(q.assigns) \o q.filters \o q.returning
      [] q.kind = "update_from" -> ValuesOf(q.assigns) \o q.filters
      [] q.kind = "delete" -> q.filters \o q.returning
      [] OTHER -> q.filters

\* What the program sees of an execution: an error of the client or an outcome of the server.
Reports(args, results) ==
    \E result \in results :
        /\ table' = result.table
        /\ outcome' = [args |-> args, before |-> table, table |-> result.table,
                       returned |-> result.returned, error |-> result.error, run |-> outcome.run + 1]

\* A text that cannot be rendered or a parameter that cannot be encoded never reaches the server.
Sent(text, params) ==
    IF text.w.reject \/ params.w.error THEN {Failed(table)}
    ELSE Run(dialect, schema, table, OtherRows, OtherColumns, text.stmt,
             [i \in DOMAIN params.w.binds |-> params.w.binds[i].v])

\* execute and fetch: NoRuntimeParams; the text and the parameters are rendered apart.
Execute ==
    /\ Stage({"query"})
    /\ ParamsOf(ExprsOf(query)) = <<>>
    /\ Reports(<<>>, Sent(Render(dialect, "text", query), Render(dialect, "params", query)))
    /\ builder' = [builder EXCEPT !.stage = "done"]
    /\ UNCHANGED <<dialect, schema, query, prepared, calls>>

\* into_parts gives the text and its parameters, or the error of an encoding.
IntoParts(r) ==
    IF r.w.reject \/ r.w.error
      THEN /\ Reports(<<>>, {Failed(table)})
           /\ builder' = [builder EXCEPT !.stage = "refused"]
           /\ UNCHANGED prepared
      ELSE /\ prepared' = [kind |-> "prepared", stmt |-> r.stmt, params |-> r.w.binds]
           /\ builder' = [builder EXCEPT !.stage = "prepared"]
           /\ UNCHANGED <<table, outcome>>

\* prepare, on PostgreSQL: one walk for the text and its parameters.
Prepare ==
    /\ Stage({"query"}) /\ dialect = "postgres"
    /\ query.kind \in {"insert", "update", "delete"}
    /\ IntoParts(Render(dialect, "prepared", query))
    /\ UNCHANGED <<dialect, schema, query, calls>>

\* resolve_prepared_params: a static parameter as it is, a runtime one by its index in the arguments.
Resolved(params, args) ==
    [i \in DOMAIN params |-> IF params[i].k = "static" THEN params[i].v ELSE args[params[i].n + 1]]

\* execute and fetch of a prepared statement: an argument that cannot be encoded stops it.
ExecutePrepared ==
    /\ Stage({"prepared"})
    /\ outcome.run < MaxRuns
    /\ \E given \in Arguments :
        LET args == SubSeq(given, 1, Len(ParamsOf(ExprsOf(query))))
        IN Reports(args, IF \E i \in DOMAIN args : ~Encodes(dialect, args[i])
                          THEN {Failed(table)}
                          ELSE Run(dialect, schema, table, OtherRows, OtherColumns, prepared.stmt,
                                   Resolved(prepared.params, args)))
    /\ UNCHANGED <<dialect, schema, builder, query, prepared, calls>>

Next ==
    \/ ToColumns \/ Row \/ Set \/ From \/ SetFrom
    \/ Write \/ Setter \/ OnConflict \/ DoOnConflict
    \/ FromTable \/ Using
    \/ Where \/ All
    \/ Insert \/ InsertSelect \/ Update \/ UpdateFrom \/ Delete \/ DeleteUsing
    \/ Execute \/ Prepare \/ ExecutePrepared

Spec == Init /\ [][Next]_vars

-----------------------------------------------------------------------------
(* The meaning of a sequence of calls *)

Said(name) ==
    FlattenSeq([i \in DOMAIN calls |-> IF calls[i].call = name THEN <<calls[i]>> ELSE <<>>])

\* The assignments, rows and conditions the program wrote for its last call.
SaidAll == FlattenSeq([i \in DOMAIN Said("set") |-> Said("set")[i].assigns])
SaidRows ==
    IF Said("row") # <<>> THEN [i \in DOMAIN Said("row") |-> Said("row")[i].assigns]
    ELSE <<IntoInsert(SaidAll)>>
SaidAssigns == IntoUpdate(SaidAll)
SaidFilters == [i \in DOMAIN Said("where") |-> Said("where")[i].filter]

\* The expressions of the last call, in the order in which it takes its arguments.
SaidExprs ==
    LET final == calls[Len(calls)]
    IN  CASE final.call = "insert" -> ExprsOfRows(SaidRows) \o final.returning
          [] final.call = "insert select" -> final.source.exprs \o final.source.filters
          [] final.call = "update" -> ValuesOf(SaidAssigns) \o SaidFilters \o final.returning
          [] final.call = "update from" -> ValuesOf(SaidAssigns) \o SaidFilters
          [] final.call = "delete" -> SaidFilters \o final.returning
          [] OTHER -> SaidFilters

\* The argument of each runtime parameter.
Given(args) ==
    LET places == ParamsOf(SaidExprs)
    IN  [p \in {places[i].n : i \in DOMAIN places} |->
            args[CHOOSE i \in DOMAIN places : places[i].n = p]]

Expressible(args) ==
    /\ \A token \in TokensOf(SaidExprs) : token.op = "lit" => Encodes(dialect, token.v)
    /\ \A i \in DOMAIN args : Encodes(dialect, args[i])

\* The row r, joined with o, after the assignments, which all read it as it was.
RevisedRow(r, o, given) ==
    [c \in DOMAIN r |->
        LET at == {i \in DOMAIN SaidAssigns : SaidAssigns[i].col = c}
            v  == SaidAssigns[CHOOSE i \in at : TRUE].value
        IN  IF at = {} THEN r[c]
            ELSE IF v = DefaultKeyword THEN Default(schema, c)
            ELSE Eval(v, [rows |-> <<r, o>>, params |-> given])]

\* The rows of the second table that a row is joined with.
Partners(r, given) == {o \in OtherRows : Holds(SaidFilters, [rows |-> <<r, o>>, params |-> given])}

UpsertMeaning(before, inserted, returning, given) ==
    LET target == Said("on conflict")[1].target
        named  == {target[i] : i \in DOMAIN target}
        keys   == IF dialect = "mysql" THEN schema.keys ELSE <<named>>
        listed == ColumnsOf(SaidRows[1])
        replaced == [s \in before |->
                       [c \in DOMAIN s |->
                          IF \E i \in DOMAIN listed : listed[i] = c THEN inserted[1][c] ELSE s[c]]]
        alone  == Said("do")[1].action = "nothing" \/ listed = <<>>
    IN  IF dialect # "mysql" /\ named \notin {schema.keys[i] : i \in DOMAIN schema.keys}
            THEN Failed(before)
            ELSE Upsert(schema, before, inserted[1], keys, replaced, alone, returning, given)

\* The rows that calls and arguments mean, by the kind of the last call: a set of outcomes.
Meaning(before, args) ==
    LET final    == calls[Len(calls)]
        given    == Given(args)
        matched  == {r \in before : Holds(SaidFilters, [rows |-> <<r, <<>>>>, params |-> given])}
        joined   == {r \in before : Partners(r, given) # {}}
        inserted == [i \in DOMAIN SaidRows |->
                        FillRow(schema, ColumnsOf(SaidRows[i]), ValuesOf(SaidRows[i]),
                                [rows |-> <<>>, params |-> given])]
        chosen(s) == SetToSeq({o \in OtherRows : Holds(s.filters, [rows |-> <<o>>, params |-> given])})
        selected(s) ==
            [i \in DOMAIN chosen(s) |->
                FillRow(schema, s.columns, s.exprs, [rows |-> <<chosen(s)[i]>>, params |-> given])]
    IN  IF ~Expressible(args) THEN {Failed(before)}
        ELSE CASE final.call = "insert" /\ Said("do") = <<>> ->
                    {Put(schema, before, inserted, final.returning, given)}
               [] final.call = "insert" /\ Said("do") # <<>> ->
                    {UpsertMeaning(before, inserted, final.returning, given)}
               [] final.call = "insert select" ->
                    {Put(schema, before, selected(final.source), <<>>, given)}
               [] final.call = "update" ->
                    {Replace(schema, before, [r \in matched |-> RevisedRow(r, <<>>, given)],
                             final.returning, given)}
               [] final.call = "update from" ->
                    {Replace(schema, before, [r \in joined |-> RevisedRow(r, f[r], given)], <<>>, given) :
                        f \in {g \in [joined -> OtherRows] : \A r \in joined : g[r] \in Partners(r, given)}}
               [] final.call = "delete" -> {Erase(before, matched, final.returning, given)}
               [] OTHER -> {Erase(before, joined, <<>>, given)}

\* MySQL assigns from left to right, so an assignment that reads a column assigned before it sees the
\* new value there; the others read the row as it was.
ReadsAssigned ==
    \E i \in DOMAIN SaidAssigns, j \in DOMAIN SaidAssigns :
        i < j /\ \E token \in Range(SaidAssigns[j].value) :
                    token.op = "col" /\ token.src = 0 /\ token.name = SaidAssigns[i].col

\* Whatever the order of the calls, the backend's statement forms, the numbering of placeholders and
\* the arguments of a prepared run, an execution changes the table, returns rows or fails exactly as
\* the calls mean (the builders of query.rs and table.rs, render.rs, the query objects of the backends).
EffectIsMeaning ==
    (outcome.run > 0 /\ ~(dialect = "mysql" /\ ReadsAssigned)) =>
        [table |-> outcome.table, returned |-> outcome.returned, error |-> outcome.error]
            \in Meaning(outcome.before, outcome.args)
=============================================================================
