------------------------------ MODULE MCViews ------------------------------
(* Views for TLC: a SELECT over one or two relations with one clause term, and what can wrap it. *)
EXTENDS Views

LowerCase ==
    [n \in {"id", "ID", "total", "Total", "amount", "note", "t", "u", "x", "a", "b", "B", "w", "r"} |->
        CASE n = "ID" -> "id" [] n = "Total" -> "total" [] n = "B" -> "b" [] OTHER -> n]

Postgres ==
    [name |-> "postgres", fold |-> [n \in DOMAIN LowerCase |-> n],
     forward |-> FALSE, recursive_forward |-> TRUE,
     float_division |-> TRUE, ilike |-> TRUE, pipe |-> TRUE, substr_call |-> FALSE,
     qualify |-> TRUE, all_sets |-> TRUE, parenthesized_arms |-> TRUE, open_operand |-> "(",
     now |-> "CURRENT_TIMESTAMP", micro |-> FALSE, length |-> "CHAR_LENGTH"]
MySql ==
    [Postgres EXCEPT !.name = "mysql", !.fold = LowerCase, !.recursive_forward = FALSE,
                     !.float_division = FALSE, !.ilike = FALSE, !.pipe = FALSE,
                     !.now = "CURRENT_TIMESTAMP(6)", !.micro = TRUE]
Sqlite ==
    [Postgres EXCEPT !.name = "sqlite", !.fold = LowerCase, !.forward = TRUE,
                     !.recursive_forward = FALSE, !.ilike = FALSE, !.substr_call = TRUE,
                     !.qualify = FALSE, !.all_sets = FALSE, !.parenthesized_arms = FALSE,
                     !.open_operand = "SELECT * FROM (", !.length = "length"]
AllDialects == {Postgres, MySql, Sqlite}

Relation(schema, name) == [schema |-> schema, name |-> name]

\* "b" is a relation and the name of a CTE below; "x" is in the truth only.
KnownRelations ==
    (Relation(<<"app">>, "t") :> <<"id", "amount">>) @@ (Relation(<<>>, "u") :> <<"id", "note">>)
        @@ (Relation(<<>>, "b") :> <<"id", "total">>)
        @@ (Relation(<<"app">>, "b") :> <<"id", "amount">>)
AllRelations == KnownRelations @@ (Relation(<<>>, "x") :> <<"id", "total">>)

Plus(l, r) == Node("Binary", <<"+">>, <<l, r>>)
Like(l, r) == Node("Like", <<"i", "">>, <<l, r>>)
Sum(e) == Pinned("Aggregate", <<"SUM", "">>, <<e>>, "i64")
Cast(e) == Node("Cast", <<"text">>, <<e>>)
Equal(l, r) == Node("Compare", <<"=">>, <<l, r>>)

FromT == <<Named("From", <<"app">>, "t", "q", <<>>)>>
FromX == <<Named("From", <<>>, "x", "q", <<>>)>>
FromAppB == <<Named("From", <<"app">>, "b", "q", <<>>)>>
From(name) == <<Named("From", <<>>, name, "q", <<>>)>>
JoinOf(name) == <<Named("Inner", <<>>, name, "p", <<Equal(Column("q", "id"), Column("p", "id"))>>)>>
JoinU == JoinOf("u")

\* A join of a relation the pass is told of and one it is not.
HalfKnown == {FromX \o JoinU, FromT \o JoinOf("x")}

\* Items of a view without a column list, and of one with.
Item(name, expr) == ProjectionItem(name, <<>>, expr)
Kept(name, internal, expr) == ProjectionItem(name, <<internal>>, expr)

Column_id == Column("q", "id")
PlainItems ==
    {<<Item("id", Column_id), Item("total", Sum(Column("q", "amount")))>>,
     <<Item("total", Column_id), Item("id", Cast(Column("q", "amount")))>>,
     <<Item("Total", Plus(BareColumn("amount"), Literal("1"))), Item("id", Column_id)>>}
ListedItems ==
    {<<Item("a", Column_id), Kept("total", "total", Sum(Column("q", "amount")))>>,
     <<Kept("a", "amount", Column_id), Kept("w", "id", Like(Column("q", "amount"), Literal("z")))>>,
     <<Item("total", Column_id), Item("id", Column("q", "amount"))>>}

Subquery ==
    [EmptyQuery EXCEPT
        !.projection = <<Item("total", Sum(Column("s", "id")))>>,
        !.sources = <<Named("From", <<>>, "u", "s", <<>>)>>,
        !.order_by = <<OrderItem(BareColumn("total"), "Asc")>>]

\* A name alone, a name inside a term, and the operand of an IN subquery.
Terms ==
    {BareColumn("id"), BareColumn("total"), BareColumn("amount"), BareColumn("ID"), Raw("total"),
     Plus(BareColumn("total"), Literal("1")), Like(BareColumn("id"), BareColumn("amount")),
     Nested("InSubquery", <<"">>, <<BareColumn("total")>>, Subquery), Column("q", "id")}

Query(sources, items, clause, term) ==
    LET q == [EmptyQuery EXCEPT !.projection = items, !.sources = sources]
    IN CASE clause = "group" -> [q EXCEPT !.group_by = <<term>>]
         [] clause = "having" -> [q EXCEPT !.group_by = <<Column_id>>, !.having = <<term>>]
         [] clause = "order" -> [q EXCEPT !.order_by = <<OrderItem(term, "Desc")>>]

QueriesOf(sources, items, terms) ==
    {Query(s, i, c, t) : s \in sources, i \in items, c \in {"group", "having", "order"}, t \in terms}
Queries(sources, items) == QueriesOf(sources, items, Terms)

\* A body around a query: a derived table, a subquery of a filter or of a join, a set operation.
Outer(source, filter) ==
    [EmptyQuery EXCEPT !.projection = <<Item("total", Cast(Column("q", "id")))>>,
                       !.sources = <<source>>, !.filter = filter,
                       !.order_by = <<OrderItem(BareColumn("total"), "")>>]

Around(query) ==
    {Select(Outer(Derived("From", Select(query), "q", <<>>), <<>>)),
     Select(Outer(FromT[1], <<Nested("Exists", <<"">>, <<>>, query)>>)),
     Select([Outer(FromT[1], <<>>) EXCEPT !.sources = Append(@,
         Named("Left", <<>>, "u", "p",
               <<Equal(Column("p", "id"), Nested("ScalarSubquery", <<>>, <<>>, query))>>))]),
     Compound("UNION", TRUE, Select(query), Select(query), <<OrderItem(BareColumn("id"), "")>>)}

\* A WITH whose CTE "b" has the name of a relation, before or after a CTE that reads that name.
Prelude(recursive, order, query) ==
    LET b == Cte("b", <<>>, Select([EmptyQuery EXCEPT !.sources = FromT,
                 !.projection = <<Item("amount", Column("q", "id")), Item("note", Column("q", "id"))>>]))
        a == Cte("a", <<>>, Select(query))
    IN With(recursive, IF order = "before" THEN <<b, a>> ELSE <<a, b>>,
            Select(Outer(From("a")[1], <<>>)))

Preludes(query) == {Prelude(r, o, query) : r \in BOOLEAN, o \in {"before", "after"}}
ReadsB ==
    QueriesOf({From("b"), From("B"), FromAppB},
              {<<Item("total", Column_id), Item("w", Column("q", "amount"))>>},
              {BareColumn("total"), BareColumn("amount"), Plus(BareColumn("total"), Literal("1"))})

SomePlainBodies ==
    {Select(q) : q \in Queries({FromT, FromT \o JoinU}, PlainItems)}
        \cup {Select(q) : q \in Queries(HalfKnown, PlainItems)}
        \cup UNION {Around(q) : q \in QueriesOf({FromT}, PlainItems, Terms \ {Raw("total"), Column_id})}
        \cup UNION {Around(q) : q \in QueriesOf(HalfKnown, PlainItems, {BareColumn("id"), BareColumn("total")})}
        \cup UNION {Preludes(q) : q \in ReadsB}


-----------------------------------------------------------------------------
(* Typed queries: windows beside and inside each other, arms, tests, clauses of several calls. *)

Window(args, partitions, directions, orders) ==
    Node("Window", <<"SUM", "">>, <<List("Args", args), List("PartitionBy", partitions),
                                    Orders(directions, orders)>>)
Id == Column("q", "id")
Amount == Column("q", "amount")
Ranked == Window(<<Amount>>, <<>>, <<"Asc", "Desc">>, <<Id, Amount>>)
Grouped == Window(<<Id>>, <<Id, Amount>>, <<"Desc">>, <<Plus(Id, Amount)>>)
InOrder == Window(<<>>, <<Id>>, <<"Desc", "Asc">>, <<Amount, Ranked>>)
Choice(c, v, w) == Node("Case", <<>>, <<Arm(c, v), Arm(Equal(v, w), w), List("Else", <<w>>)>>)
Simple(o, v) == Node("SimpleCase", <<>>, <<List("Operand", <<o>>), Arm(Id, v), Arm(v, Id)>>)
Test(how, e) == Node("BoolTest", <<how>>, <<e>>)

Typing(expr, predicates) ==
    [EmptyQuery EXCEPT !.projection = <<Item("id", Id), Item("total", expr)>>,
                       !.sources = FromT \o JoinU, !.filter = predicates, !.having = predicates,
                       !.group_by = <<expr, Id>>, !.order_by = <<OrderItem(expr, "Desc")>>]

Inner == Typing(Plus(Grouped, Id), <<Equal(Id, Amount), Test("NOT", Id)>>)
TypedExprs ==
    {Node("Coalesce", <<>>, <<Plus(Id, Amount), Ranked, Id>>), Plus(Ranked, Grouped), InOrder, Choice(Equal(Id, Ranked), Grouped, Amount), Simple(Grouped, Ranked),
     Plus(Nested("ScalarSubquery", <<>>, <<>>, Inner), Ranked)}
Tests == {Equal(Id, Amount), Test("NOT", Like(Id, Amount)), Test("", Id),
               Nested("InSubquery", <<"NOT">>, <<Plus(Id, Amount)>>, Inner)}
SomeTypedQueries ==
    {Typing(e, p) : e \in TypedExprs,
                    p \in {<<>>} \cup {<<p>> : p \in Tests}
                          \cup {<<p, Test("NOT", Id), q>> : p, q \in Tests}}

-----------------------------------------------------------------------------
(* Checks: a test around a test around a comparison, over two columns that may be NULL. *)

A == BareColumn("a")
B == BareColumn("b")
Between(how, x, l, h) == Node("Between", <<how>>, <<x, l, h>>)

CheckTests(p) ==
    {Logical(op, p, Equal(A, B)) : op \in {"AND", "OR"}}
        \cup {Logical(op, Compare("<", A, B), p) : op \in {"AND", "OR"}}
        \cup {Node("Not", <<>>, <<p>>), Node("IsNull", <<"NOT">>, <<p>>),
              Between("", p, A, B), Between("NOT", A, p, Literal("1")),
              Node("Like", <<"i", "NOT">>, <<p, B>>), Node("In", <<"NOT">>, <<A, p, B>>),
              Node("Function", <<"LOWER">>, <<p>>), Node("Cast", <<"i64">>, <<p>>),
              Node("Coalesce", <<>>, <<p, A>>)}
CheckLeaves == {Between("", A, Literal("0"), B), Between("NOT", A, B, Literal("1")),
                Node("Like", <<"i", "">>, <<A, B>>)}
SomeChecks == UNION {CheckTests(p) : p \in UNION {CheckTests(l) : l \in CheckLeaves}}
SomeEnvironments == [{"a", "b"} -> {Null, 0, 1}]

-----------------------------------------------------------------------------
(* Texts: an operator around an operator, with and without a pin; clauses and set operations. *)

Expressions2(x, y) ==
    {Plus(x, y), Node("Binary", <<"/">>, <<x, y>>), Equal(x, y), Logical("AND", x, y),
     Logical("OR", x, y), Node("Not", <<>>, <<x>>), Node("IsNull", <<"NOT">>, <<x>>), Cast(x), Sum(x),
     Node("Like", <<"", "">>, <<x, y>>), Node("Like", <<"i", "NOT">>, <<x, y>>),
     Node("In", <<"">>, <<x, y>>), Node("In", <<"NOT">>, <<x>>), Between("NOT", x, y, y),
     [Simple(x, y) EXCEPT !.pin = <<"i64">>], Choice(x, y, y), Pinned("Coalesce", <<>>, <<x, y>>, "i64"),
     Node("ScalarFn", <<"CONCAT">>, <<x, y>>), Node("ScalarFn", <<"SUBSTRING">>, <<x, y, y>>),
     Pinned("Window", <<"SUM", "ROWS">>,
            <<List("Args", <<x>>), List("PartitionBy", <<y>>), Orders(<<"Asc">>, <<x>>)>>, "i64"),
     Node("Extract", <<"HOUR", "utc">>, <<x>>), Node("DateTrunc", <<"day", "">>, <<x>>)}

One == Literal("1")
Deep == {Logical("AND", x, One) : x \in Expressions2(One, Id)}
            \cup {Plus(x, One) : x \in Expressions2(Id, One)} \cup {Plus(Id, x) : x \in Expressions2(One, Id)}
            \cup UNION {Expressions2(x, Id) : x \in {Plus(Id, One), Cast(One)}}
            \cup Expressions2(One, One)

Projecting(e) == [EmptyQuery EXCEPT !.projection = <<Item("a", e), Kept("w", "w", Id)>>, !.sources = FromT]
Flat == Projecting(Id)
Clauses ==
    {Flat, [Flat EXCEPT !.filter = <<Id>>], [Flat EXCEPT !.having = <<Id>>], [Flat EXCEPT !.distinct = TRUE],
     [Flat EXCEPT !.group_by = <<Id, One>>], [Flat EXCEPT !.group_by = <<Id>>, !.order_by = <<OrderItem(One, "")>>],
     [Flat EXCEPT !.order_by = <<OrderItem(Id, "Asc"), OrderItem(Id, "Desc")>>], [Flat EXCEPT !.limit = <<"1">>],
     [Flat EXCEPT !.offset = <<"1">>], [Flat EXCEPT !.sources = From("t")], [Flat EXCEPT !.sources = From("u")],
     [Flat EXCEPT !.sources = FromT \o JoinU], [Flat EXCEPT !.sources[1].kind = "Left"],
     [Flat EXCEPT !.sources = <<Derived("From", Select(Flat), "q", <<>>)>>]}
Union(l, r) == Compound("UNION", TRUE, l, r, <<>>)
Sets == {Union(Union(Select(Flat), Select(Flat)), Select(Flat)), Union(Select(Flat), Union(Select(Flat), Select(Flat))),
         [Union(Select(Flat), Select(Flat)) EXCEPT !.limit = <<"1">>],
         Union(Select(Flat), Select([Flat EXCEPT !.limit = <<"1">>])),
         Compound("EXCEPT", FALSE, Select(Flat), Select(Flat), <<OrderItem(BareColumn("a"), "Desc")>>)}
Reading(name) == [EmptyQuery EXCEPT !.projection = <<Item("id", Id)>>, !.sources = From(name)]
Recursing(set) == With(TRUE, <<Cte("r", <<"id">>, set)>>, Select(Reading("r")))
Recursions ==
    {Recursing(Union(Select(Flat), Select([Reading("r") EXCEPT !.limit = <<"1">>]))),
     Recursing([Union(Select(Flat), Select(Reading("r"))) EXCEPT !.limit = <<"1">>])}

SomeListedBodies ==
    {Select(q) : q \in Queries({FromT, FromT \o JoinU, FromX} \cup HalfKnown, ListedItems) \cup Clauses} \cup Sets
SomeTextBodies ==
    {Select(Projecting(e)) : e \in Deep} \cup {Select(q) : q \in Clauses} \cup Sets \cup Recursions

-----------------------------------------------------------------------------
(* A recursive CTE "r": its arms plain or with a tail, under a set operation or an inner WITH. *)

Arms == {Select(Reading("r")), Select([Reading("r") EXCEPT !.limit = <<"1">>]), Select(Reading("t")),
         Select([Reading("t") EXCEPT !.sources = <<Derived("From", Select(Reading("r")), "q", <<>>)>>])}
RecursiveCteBodies ==
    {Compound(op, TRUE, Select(Flat), arm, <<>>) : op \in {"UNION", "EXCEPT"}, arm \in Arms} \cup Arms
SomeRecursiveBodies ==
    {With(recursive, <<Cte("r", <<"id">>, IF inner = <<>> THEN b ELSE With(FALSE, inner, b))>>,
          Select(Reading("r")))
        : recursive \in BOOLEAN, b \in RecursiveCteBodies,
          inner \in {<<>>, <<Cte("w", <<>>, Select(Flat))>>, <<Cte("r", <<>>, Select(Flat))>>}}

None == {}
=============================================================================
