--------------------------- MODULE MutationServer ---------------------------
(***************************************************************************)
(* The database servers as the mutation tests of the backends use them:    *)
(* what an expression is worth under SQL's three-valued logic, what rows   *)
(* INSERT, UPDATE and DELETE leave in a table with NOT NULL and unique     *)
(* columns, and how each server resolves the names of a statement.  None   *)
(* of it is in the repository.  A statement is atomic: an error leaves the *)
(* table as it was.                                                        *)
(***************************************************************************)
EXTENDS MutationRender, FiniteSets

\* A table's rows are records over schema.columns: schema.nullable are the columns that may be NULL,
\* schema.defaults gives the default of the columns that have one, schema.keys the unique keys,
\* the primary key first.

-----------------------------------------------------------------------------
(* Values *)

Not3(b) == IF b = Null THEN Null ELSE ~b
And3(bs) == IF FALSE \in bs THEN FALSE ELSE IF Null \in bs THEN Null ELSE TRUE
Or3(bs) == Not3(And3({Not3(b) : b \in bs}))

Compare(op, l, r) ==
    IF l = Null \/ r = Null THEN Null
    ELSE CASE op = "eq" -> l = r [] op = "lt" -> l < r [] OTHER -> l <= r

\* An operator applied to the values of its operands.
Apply(op, v) ==
    CASE op = "isnull" -> v[1] = Null
      [] op = "isnotnull" -> v[1] # Null
      [] op = "and" -> And3({v[1], v[2]})
      [] op = "or" -> Or3({v[1], v[2]})
      [] op = "not" -> Not3(v[1])
      [] op = "in" -> Or3({Compare("eq", v[1], v[i]) : i \in 2 .. Len(v)})
      [] op = "notin" -> And3({Not3(Compare("eq", v[1], v[i])) : i \in 2 .. Len(v)})
      [] op = "between" -> And3({Compare("le", v[2], v[1]), Compare("le", v[1], v[3])})
      [] op = "add" -> IF Null \in {v[1], v[2]} THEN Null ELSE v[1] + v[2]
      [] OTHER -> Compare(op, v[1], v[2])

\* What a token is worth on the values v of its operands; env holds the rows of the sources in scope
\* and the parameters: by the number of the placeholder, or by the tag of a runtime parameter.
Worth(token, v, env) ==
    CASE token.op \in {"lit", "const"} -> token.v
      [] token.op = "slot" -> env.params[token.n + 1]
      [] token.op = "param" -> env.params[token.n]
      [] token.op = "name" -> env.rows[IF token.alias = Alias(1) THEN 2 ELSE 1][token.name]
      [] token.op = "col" -> env.rows[token.src + 1][token.name]
      [] OTHER -> Apply(token.op, v)

\* A token takes its operands from the end of the values before it and leaves its own.
Push(token, values, env) ==
    LET rest == Len(values) - token.arity
    IN  Append(SubSeq(values, 1, rest), Worth(token, SubSeq(values, rest + 1, Len(values)), env))

Values(e, env) ==
    LET at[i \in 0 .. Len(e)] == IF i = 0 THEN <<>> ELSE Push(e[i], at[i - 1], env)
    IN  at[Len(e)]

\* The value of an expression is the one that is left.
Eval(e, env) == Values(e, env)[1]

\* WHERE and ON keep what is TRUE, not what is NULL.
Holds(filters, env) == \A i \in DOMAIN filters : Eval(filters[i], env) = TRUE

-----------------------------------------------------------------------------
(* Tables *)

Done(table, returned) == [table |-> table, returned |-> returned, error |-> FALSE]
Failed(table) == [table |-> table, returned |-> {}, error |-> TRUE]

Default(schema, c) == IF c \in DOMAIN schema.defaults THEN schema.defaults[c] ELSE Null

\* A row from the columns an INSERT lists and the expressions it gives them.
FillRow(schema, columns, exprs, env) ==
    [c \in schema.columns |->
        LET given == {i \in DOMAIN columns : columns[i] = c /\ exprs[i] # DefaultKeyword}
        IN  IF given = {} THEN Default(schema, c) ELSE Eval(exprs[CHOOSE i \in given : TRUE], env)]

Storable(schema, r) == \A c \in schema.columns \ schema.nullable : r[c] # Null
SameKey(key, r, s) == \A c \in key : r[c] = s[c]
Clash(schema, r, s) == \E i \in DOMAIN schema.keys : SameKey(schema.keys[i], r, s)

\* What RETURNING gives for a set of rows: a row's values beside the row they are of.
Projected(projection, rows, params) ==
    IF projection = <<>> THEN {}
    ELSE {<<r, [i \in DOMAIN projection |-> Eval(projection[i], [rows |-> <<r>>, params |-> params])]>> :
             r \in rows}

\* INSERT of a sequence of rows.
Put(schema, table, rows, projection, params) ==
    IF \/ \E i \in DOMAIN rows :
             \/ ~Storable(schema, rows[i])
             \/ \E s \in table : Clash(schema, rows[i], s)
             \/ \E j \in 1 .. i - 1 : Clash(schema, rows[i], rows[j])
        THEN Failed(table)
        ELSE LET new == {rows[i] : i \in DOMAIN rows}
             IN  Done(table \cup new, Projected(projection, new, params))

\* INSERT of one row with a conflict clause: the first of the keys that an existing row has decides;
\* revised[s] is that row after the clause, a row left alone is not returned.
Upsert(schema, table, row, keys, revised, alone, projection, params) ==
    LET hits == {i \in DOMAIN keys : \E s \in table : SameKey(keys[i], row, s)}
        old  == CHOOSE s \in table : SameKey(keys[CHOOSE i \in hits : \A j \in hits : i <= j], row, s)
        new  == revised[old]
    IN  IF ~Storable(schema, row) THEN Failed(table)
        ELSE IF hits = {} THEN Put(schema, table, <<row>>, projection, params)
        ELSE IF alone THEN Done(table, {})
        ELSE IF ~Storable(schema, new) \/ \E s \in table \ {old} : Clash(schema, new, s)
            THEN Failed(table)
            ELSE Done((table \ {old}) \cup {new}, Projected(projection, {new}, params))

\* UPDATE of the rows in the domain of new.
Replace(schema, table, new, projection, params) ==
    IF \E r \in DOMAIN new : ~Storable(schema, new[r])
        THEN Failed(table)
        ELSE LET rows == {new[r] : r \in DOMAIN new}
             IN  Done((table \ DOMAIN new) \cup rows, Projected(projection, rows, params))

\* DELETE
Erase(table, rows, projection, params) == Done(table \ rows, Projected(projection, rows, params))

-----------------------------------------------------------------------------
(* Names and parameters *)

TokensOf(es) == UNION {Range(es[i]) : i \in DOMAIN es}

\* Every name is a column of the source it is qualified by; a bare one is of a single source.
Resolve(texts, scope) ==
    \A token \in TokensOf(texts) :
        token.op = "name" => /\ token.alias \in DOMAIN scope
                             /\ token.name \in scope[token.alias]

\* The placeholders are numbered from zero without a gap, each bound once; IN has a list.
Bound(texts, params) ==
    /\ {token.n : token \in {t \in TokensOf(texts) : t.op = "slot"}} = 0 .. Len(params) - 1
    /\ \A token \in TokensOf(texts) : token.op \in {"in", "notin"} => token.arity > 1

BareScope(columns) == [alias \in {""} |-> columns]
SingleScope(columns) == [alias \in {"", Alias(0)} |-> columns]
JoinedScope(columns, others) ==
    [alias \in {"", Alias(0), Alias(1)} |->
        CASE alias = Alias(0) -> columns
          [] alias = Alias(1) -> others
          [] OTHER -> (columns \cup others) \ (columns \cap others)]

-----------------------------------------------------------------------------
(* Statements: Run gives the set of outcomes a server may have.            *)

SetTexts(stmt) == [i \in DOMAIN stmt.sets |-> stmt.sets[i].t]

\* The assignments of an UPDATE of r, joined with o: MySQL makes them one after another, on the row
\* as it is by now, the others all at once.
Assign(d, schema, set, r, o, params, now) ==
    [now EXCEPT ![set.col] =
        IF set.t = DefaultKeyword THEN Default(schema, set.col)
        ELSE Eval(set.t, [rows |-> <<IF d = "mysql" THEN now ELSE r, o>>, params |-> params])]

Assigned(d, schema, sets, r, o, params) ==
    LET at[i \in 0 .. Len(sets)] ==
            IF i = 0 THEN r ELSE Assign(d, schema, sets[i], r, o, params, at[i - 1])
    IN  at[Len(sets)]

\* "columns" are those of the second table, whose rows are others.
RunInsert(d, schema, table, others, columns, stmt, params) ==
    LET env(rows) == [rows |-> rows, params |-> params]
        texts   == FlattenSeq(stmt.rows) \o stmt.returning
        rows    == [i \in DOMAIN stmt.rows |-> FillRow(schema, stmt.columns, stmt.rows[i], env(<<>>))]
        target  == {stmt.conflict.target[i] : i \in DOMAIN stmt.conflict.target}
        keys    == IF stmt.conflict.k = "duplicate" THEN schema.keys ELSE <<target>>
        revised == [s \in table |->
                     [c \in DOMAIN s |->
                        IF \E i \in DOMAIN stmt.conflict.sets :
                              stmt.conflict.sets[i] = [col |-> c, to |-> "excluded"]
                            THEN rows[1][c] ELSE s[c]]]
        order   == SetToSeq({o \in others : Holds(stmt.select.filters, env(<<o>>))})
        picked  == [i \in DOMAIN order |->
                      FillRow(schema, stmt.columns, stmt.select.exprs, env(<<order[i]>>))]
    IN  CASE stmt.style = "select" ->
                IF /\ Resolve(stmt.select.exprs \o stmt.select.filters, SingleScope(columns))
                   /\ Bound(stmt.select.exprs \o stmt.select.filters, params)
                    THEN Put(schema, table, picked, <<>>, params) ELSE Failed(table)
          [] stmt.style # "select" /\ stmt.conflict.k = "none" ->
                IF Bound(texts, params) /\ Resolve(stmt.returning, BareScope(schema.columns))
                    THEN Put(schema, table, rows, stmt.returning, params) ELSE Failed(table)
          [] OTHER ->
                IF /\ Bound(texts, params) /\ Resolve(stmt.returning, BareScope(schema.columns))
                   /\ \A i \in DOMAIN keys : keys[i] \in {schema.keys[j] : j \in DOMAIN schema.keys}
                   /\ stmt.conflict.k # "nothing" => stmt.conflict.sets # <<>>
                   /\ d = "sqlite" => stmt.style # "default row"
                    THEN Upsert(schema, table, rows[1], keys, revised,
                                stmt.conflict.k = "nothing", stmt.returning, params)
                    ELSE Failed(table)

Scope(schema, columns, stmt) ==
    IF stmt.style = "single" THEN SingleScope(schema.columns) ELSE JoinedScope(schema.columns, columns)

ReturningScope(d, schema, scope) == IF d = "sqlite" THEN BareScope(schema.columns) ELSE scope

\* The rows of the second source that a row of the table is joined with; <<>> stands for none.
Joined(r, others, stmt, params) ==
    {o \in IF stmt.style = "single" THEN {<<>>} ELSE others :
        Holds(stmt.filters, [rows |-> <<r, o>>, params |-> params])}

\* An UPDATE with a second source changes a matching row once, from whichever row it was joined with.
RunUpdate(d, schema, table, others, columns, stmt, params) ==
    LET scope    == Scope(schema, columns, stmt)
        texts    == SetTexts(stmt) \o stmt.filters
        matched  == {r \in table : Joined(r, others, stmt, params) # {}}
        targets  == \A i \in DOMAIN stmt.sets :
                        \/ stmt.sets[i].alias = "" /\ (d = "mysql" => stmt.sets[i].col \in scope[""])
                        \/ stmt.sets[i].alias = Alias(0) /\ d = "mysql"
    IN  IF /\ targets /\ stmt.sets # <<>>
           /\ Resolve(texts, scope)
           /\ Resolve(stmt.returning, ReturningScope(d, schema, scope))
           /\ Bound(texts \o stmt.returning, params)
        THEN {Replace(schema, table,
                      [r \in matched |-> Assigned(d, schema, stmt.sets, r, from[r], params)],
                      stmt.returning, params) :
                from \in {f \in [matched -> UNION {Joined(r, others, stmt, params) : r \in matched}] :
                             \A r \in matched : f[r] \in Joined(r, others, stmt, params)}}
        ELSE {Failed(table)}

RunDelete(d, schema, table, others, columns, stmt, params) ==
    LET scope   == Scope(schema, columns, stmt)
        matched == {r \in table : Joined(r, others, stmt, params) # {}}
    IN  IF /\ Resolve(stmt.filters, scope)
           /\ Resolve(stmt.returning, ReturningScope(d, schema, scope))
           /\ Bound(stmt.filters \o stmt.returning, params)
            THEN Erase(table, matched, stmt.returning, params)
            ELSE Failed(table)

\* The forms of a statement that a server's grammar has.
Grammatical(d, stmt) ==
    /\ d = "mysql" => stmt.style \notin {"from", "using"} /\ stmt.returning = <<>>
    /\ stmt.style = "join" => d = "mysql"
    /\ stmt.style = "using" => d = "postgres"

Run(d, schema, table, others, columns, stmt, params) ==
    CASE ~Grammatical(d, stmt) -> {Failed(table)}
      [] Grammatical(d, stmt) /\ stmt.verb = "insert" ->
            {RunInsert(d, schema, table, others, columns, stmt, params)}
      [] Grammatical(d, stmt) /\ stmt.verb = "update" ->
            RunUpdate(d, schema, table, others, columns, stmt, params)
      [] OTHER -> {RunDelete(d, schema, table, others, columns, stmt, params)}
=============================================================================
