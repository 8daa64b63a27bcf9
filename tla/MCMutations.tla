---------------------------- MODULE MCMutations -----------------------------
(* Mutations for TLC: a table with two unique keys, one of them the primary key, a column that is   *)
(* not null and one that is nullable, and a second table that shares two of its column names.       *)
EXTENDS Mutations

Col(src, name) == <<[op |-> "col", arity |-> 0, src |-> src, name |-> name]>>
Lit(v) == <<Literal(v)>>
AnyParam == <<Param(<<>>)>>
Eq(l, r) == Node("eq", <<l, r>>)

AllColumns == {"id", "k", "a", "b"}
Keys == <<{"id"}, {"k"}>>
\* Keys are written on insert only; in the second type a is written on update only.
MCSchemas ==
    {[columns |-> AllColumns, nullable |-> {"b"}, defaults |-> [id |-> 1], keys |-> Keys,
      insertable |-> AllColumns, updateable |-> {"a", "b"}],
     [columns |-> AllColumns, nullable |-> {"b"}, defaults |-> [id |-> 1, k |-> 1, a |-> 0], keys |-> Keys,
      insertable |-> {"id", "k", "b"}, updateable |-> {"a", "b"}]}

Rec(id, k, a, b) == [id |-> id, k |-> k, a |-> a, b |-> b]
MCTables == {{Rec(1, 2, 1, Null), Rec(2, 1, 0, 1)}}
MCOtherRows == {[id |-> 1, a |-> 0], [id |-> 1, a |-> 2], [id |-> 3, a |-> 1]}

MCOtherColumns == {"id", "a"}

MCColumnLists == {<<"k", "a">>, <<"id", "k">>, <<"a", "b">>, <<"b", "a">>}
MCAssignable ==
    [id |-> {AnyParam}, k |-> {Lit(1), Lit(3)}, a |-> {Lit(4), AnyParam}, b |-> {Lit(Null), DefaultKeyword}]
MCSetExprs ==
    [id |-> {}, k |-> {},
     a  |-> {Node("add", <<Col(0, "a"), Lit(1)>>), DefaultKeyword},
     b  |-> {Node("add", <<Col(0, "a"), AnyParam>>)}]
MCJoinedExprs ==
    [id |-> {}, k |-> {},
     a  |-> {Node("add", <<Col(1, "a"), Col(0, "a")>>)},
     b  |-> {Col(1, "id")}]

\* An empty IN and an empty NOT IN with a parameter in the operand, NULLs in NOT IN, OR and BETWEEN.
KeyIsParam == Eq(Col(0, "id"), AnyParam)
EmptyIn == Node("in", <<Node("add", <<Col(0, "a"), AnyParam>>)>>)
MCPredicates ==
    [write |-> {KeyIsParam, EmptyIn}] @@
    [s \in {"set", "delete"} |->
       {KeyIsParam,
        Node("notin", <<Node("add", <<Col(0, "b"), AnyParam>>)>>),
        Node("notin", <<Col(0, "b"), Lit(2), Lit(0)>>),
        Node("not", <<Node("or", <<Node("lt", <<Col(0, "a"), Lit(1)>>),
                                   Node("between", <<Col(0, "b"), Lit(0), Lit(0)>>)>>)>>)}]
MCJoinedPredicates ==
    {Eq(Col(0, "id"), Col(1, "id")),
     Node("lt", <<Col(1, "a"), Lit(2)>>),
     Node("isnotnull", <<Col(0, "b")>>)}

MCSources ==
    {[columns |-> <<"id", "k", "a">>, filters |-> <<Eq(Col(0, "id"), Lit(3))>>,
      exprs |-> <<Col(0, "id"), Node("add", <<Col(0, "id"), Lit(1)>>), Col(0, "a")>>],
     [columns |-> <<"id", "k">>, filters |-> <<>>, exprs |-> <<Lit(4), Col(0, "id")>>]}

MCTargets == {<<"id">>, <<"k">>, <<"id", "k">>, <<"b">>}
MCArguments == {<<1, 0, 2, 3>>, <<2, 4, 0, 1>>}
MCProjections == {<<>>, <<Col(0, "id"), Node("add", <<Col(0, "a"), Lit(2)>>)>>}
MCMaxCalls == [set |-> 4, write |-> 4, delete |-> 3] @@ ("set from" :> 5 @@ "using" :> 4)
=============================================================================
