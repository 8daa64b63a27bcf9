---------------------------- MODULE Expressions ----------------------------
(***************************************************************************)
(* Typed expressions and predicates (squealy-core/src/expr.rs).            *)
(*                                                                         *)
(* An expression is an AST and a kind.  What the compiler knows of the AST *)
(* are the traits it implements and their associated types; what the       *)
(* database sees is the text it renders.  The record of an AST holds both: *)
(*                                                                         *)
(*   known to the types                                                    *)
(*     term          AstProjectionClass, PredicateTerm ("none": no impl)   *)
(*     columns       ExprColumns, PredicateColumns     ("none": no impl)   *)
(*     nonAggregate  NonAggregateAst, NonAggregatePredicate                *)
(*     nonWindow     NonWindowAst, NonWindowPredicate                      *)
(*     overRef       IS_NAMED_WINDOW_REF                                   *)
(*     params        Params, the runtime parameters in order               *)
(*   seen by the database                                                  *)
(*     text          the tokens rendered                                   *)
(*     bare          a column stands outside every aggregate's argument    *)
(*     aggregate     there is an aggregate that is not a window's function *)
(*     window        there is a window function                            *)
(*     misplaced     an aggregate or a window in an aggregate's argument,  *)
(*                   or a window in a window's definition                  *)
(*     ctes          what SubqueryCteSink finds in it                      *)
(*                                                                         *)
(* An expression adds its kind, whether the kind's Value is an Option, how *)
(* its row type decodes NULL, and whether SQL can make it NULL.            *)
(*                                                                         *)
(* The constructors are the builder's functions: what their bounds demand  *)
(* is a condition of its own (Can...), and the caller honours it.          *)
(***************************************************************************)
EXTENDS Naturals, Sequences, SequencesExt

-----------------------------------------------------------------------------
(* The tokens of a rendered statement.                                     *)

Word(w) == <<"word", w>>
TableToken(table) == <<"table", table>>
ColumnToken(alias, column) == <<"column", alias, column>>
Placeholder(p) == <<"param", p>>

-----------------------------------------------------------------------------
(* The algebra of the associated types.                                    *)

\* CombineTerm, of all the operands: a constant takes the others' class; a column and an
\* aggregate do not combine.
CombineTerm(terms) ==
    IF terms \subseteq {"constant"} THEN "constant"
    ELSE IF terms \subseteq {"constant", "column"} THEN "column"
    ELSE IF terms \subseteq {"constant", "aggregate"} THEN "aggregate"
    ELSE "none"

\* CombineColumns, of all the operands: bare as soon as one is.
CombineColumns(columns) ==
    IF "none" \in columns THEN "none"
    ELSE IF "bare" \in columns THEN "bare" ELSE "free"

\* A node that only combines its operands.  "typed" lists them as `type Params` concatenates
\* them, "rendered" as `visit` writes them.
Node(op, typed, rendered) ==
    [term         |-> CombineTerm({typed[i].term : i \in DOMAIN typed}),
     columns      |-> CombineColumns({typed[i].columns : i \in DOMAIN typed}),
     nonAggregate |-> \A i \in DOMAIN typed : typed[i].nonAggregate,
     nonWindow    |-> \A i \in DOMAIN typed : typed[i].nonWindow,
     overRef      |-> \E i \in DOMAIN typed : typed[i].overRef,
     params       |-> FlattenSeq([i \in DOMAIN typed |-> typed[i].params]),
     text         |-> <<Word(op)>> \o FlattenSeq([i \in DOMAIN rendered |-> rendered[i].text]),
     bare         |-> \E i \in DOMAIN rendered : rendered[i].bare,
     aggregate    |-> \E i \in DOMAIN rendered : rendered[i].aggregate,
     window       |-> \E i \in DOMAIN rendered : rendered[i].window,
     misplaced    |-> \E i \in DOMAIN rendered : rendered[i].misplaced,
     ctes         |-> UNION {rendered[i].ctes : i \in DOMAIN rendered}]

\* The kinds.  Value is the operand type in predicates and arithmetic; only Nullable<K> and the
\* aggregates that are NULL over no rows have an Option there.
PlainKind(k) == [kind |-> k, option |-> FALSE, decodesNull |-> FALSE]
ScalarNullable(k) ==
    [kind |-> <<"ScalarNullable">> \o k.kind, option |-> k.option, decodesNull |-> TRUE]
Nullable(k) == [kind |-> <<"Nullable">> \o k.kind, option |-> TRUE, decodesNull |-> TRUE]

\* CaseNull::Result: the value type, or ScalarNullable of it.
CaseResult(type, maybeNull) ==
    IF maybeNull THEN ScalarNullable(PlainKind(type)) ELSE PlainKind(type)

\* KindNullability::Nullable: the kind of a column, an Option and a ScalarNullable may be NULL.
KindMaybeNull(k) == k.decodesNull

Expr(ast, kind, null) == [ast |-> ast, kind |-> kind, null |-> null]

AstsOf(exprs) == [i \in DOMAIN exprs |-> exprs[i].ast]

-----------------------------------------------------------------------------
(* Leaves.                                                                 *)

\* ColumnExprAst.  A source's column: "source" has the alias, the table, which columns are
\* nullable and whether an outer join made the expression Nullable; "absent" says whether SQL
\* can leave the source out of a row.
ColumnExprAst(alias, column) ==
    [Node("column", <<>>, <<>>) EXCEPT
        !.term = "column", !.columns = "bare", !.bare = TRUE,
        !.text = <<ColumnToken(alias, column)>>]

\* The kind the Table derive gives a column: its Value is the inner, non-null type, and its row
\* type is an Option if the field is.
ColumnKind(table, column, nullable) ==
    [kind |-> <<"Column", table, column>>, option |-> FALSE, decodesNull |-> nullable]

\* LiteralExprAst: an inline value.
LiteralExprAst == Node("literal", <<>>, <<>>)
Literal(type) == Expr(LiteralExprAst, PlainKind(<<type>>), FALSE)

\* ParamExprAst: one placeholder.
ParamExprAst(p) ==
    [Node("param", <<>>, <<>>) EXCEPT !.params = <<Placeholder(p)>>, !.text = <<Placeholder(p)>>]
Param(p, type) == Expr(ParamExprAst(p), PlainKind(<<"RuntimeParam", type>>), FALSE)

\* NowExprAst.
Now(type) == Expr(Node("now", <<>>, <<>>), PlainKind(<<type>>), FALSE)

-----------------------------------------------------------------------------
(* Arithmetic.                                                             *)

BinaryExprAst(left, right) == Node("binary", <<left, right>>, <<left, right>>)

\* Both operands' Value must be one SqlNumber, so an Option is no operand.
CanCompute(left, right) == ~ left.kind.option /\ ~ right.kind.option

\* AddExpr<L, R> and its like: the Value of L, never an Option.
ArithmeticKind(name, left, right) == PlainKind(<<name>> \o left.kind.kind \o right.kind.kind)

Add(left, right) ==
    Expr(BinaryExprAst(left.ast, right.ast),
         ArithmeticKind("AddExpr", left, right), left.null \/ right.null)

Subtract(left, right) ==
    Expr(BinaryExprAst(left.ast, right.ast),
         ArithmeticKind("SubtractExpr", left, right), left.null \/ right.null)

-----------------------------------------------------------------------------
(* Aggregates.                                                             *)

\* count, sum, avg, min and max: the operand is a NonAggregateAst.
CanAggregate(operand) == operand.ast.nonAggregate

\* AggregateExprAst: column-free whatever its operand, and no NonAggregateAst.
AggregateExprAst(func, operand) ==
    [Node(func, <<operand>>, <<operand>>) EXCEPT
        !.term = "aggregate", !.columns = "free",
        !.nonAggregate = FALSE, !.nonWindow = TRUE,
        !.bare = FALSE, !.aggregate = TRUE,
        !.misplaced = @ \/ operand.aggregate \/ operand.window]

\* COUNT is never NULL.
Count(operand) ==
    Expr(AggregateExprAst("count", operand.ast),
         PlainKind(<<"CountExpr">> \o operand.kind.kind), FALSE)

\* SUM, AVG, MIN and MAX are NULL over no rows.
Sum(operand) ==
    Expr(AggregateExprAst("sum", operand.ast),
         [kind |-> <<"SumExpr">> \o operand.kind.kind, option |-> TRUE, decodesNull |-> TRUE],
         TRUE)

-----------------------------------------------------------------------------
(* Functions and conditionals.                                             *)

\* lower, upper, trim and length.
UnaryFnExprAst(func, operand) == Node(func, <<operand>>, <<operand>>)
Lower(operand) ==
    Expr(UnaryFnExprAst("lower", operand.ast),
         CaseResult(<<"String">>, KindMaybeNull(operand.kind)), operand.null)

ConcatExprAst(left, right) == Node("concat", <<left, right>>, <<left, right>>)
SqlConcat(left, right) ==
    Expr(ConcatExprAst(left.ast, right.ast),
         CaseResult(<<"String">>, KindMaybeNull(left.kind) \/ KindMaybeNull(right.kind)),
         left.null \/ right.null)

SubstringExprAst(s, start, len) == Node("substring", <<s, start, len>>, <<s, start, len>>)
Substring(s, start, len) ==
    Expr(SubstringExprAst(s.ast, start.ast, len.ast),
         CaseResult(<<"String">>, \E e \in {s, start, len} : KindMaybeNull(e.kind)),
         s.null \/ start.null \/ len.null)

\* EXTRACT(field FROM ts), in the session's zone.
ExtractExprAst(operand) == Node("extract", <<operand>>, <<operand>>)
Extract(operand) ==
    Expr(ExtractExprAst(operand.ast),
         CaseResult(<<"i64">>, KindMaybeNull(operand.kind)), operand.null)

\* The field in a zone named by the caller, rendered as a literal.
ExtractAtExprAst(operand) == Node("extract_at", <<operand>>, <<operand>>)
ExtractAt(operand) ==
    Expr(ExtractAtExprAst(operand.ast),
         CaseResult(<<"i64">>, KindMaybeNull(operand.kind)), operand.null)

\* The seconds, with their fraction.
ExtractSecondExprAst(operand) == Node("extract_second", <<operand>>, <<operand>>)
ExtractSecond(operand) ==
    Expr(ExtractSecondExprAst(operand.ast),
         CaseResult(<<"f64">>, KindMaybeNull(operand.kind)), operand.null)

\* date_trunc('unit', ts) and its form with a zone.
DateTruncExprAst(operand) == Node("date_trunc", <<operand>>, <<operand>>)
DateTrunc(operand) ==
    Expr(DateTruncExprAst(operand.ast),
         CaseResult(<<"timestamp">>, KindMaybeNull(operand.kind)), operand.null)

\* A searched CASE: its arms, each a predicate and a value, and the ELSE.
CaseArms(arms) ==
    [k \in 1 .. 2 * Len(arms) |->
        IF k % 2 = 1 THEN arms[(k + 1) \div 2].when ELSE arms[k \div 2].then.ast]
CaseExprAst(arms, else) ==
    LET kids == CaseArms(arms) \o <<else>>
    IN  Node("case", kids, kids)

\* The ELSE that is not there: no parameters, no columns, a constant.
NoElse == Node("no_else", <<>>, <<>>)

\* CaseBuilder::otherwise: nullable if some branch is.
Otherwise(arms, else) ==
    Expr(CaseExprAst(arms, else.ast),
         CaseResult(<<"i32">>,
             KindMaybeNull(else.kind) \/ \E i \in DOMAIN arms : KindMaybeNull(arms[i].then.kind)),
         else.null \/ \E i \in DOMAIN arms : arms[i].then.null)

\* CaseBuilder::end: a row that matches no arm is NULL.
CaseEnd(arms) == Expr(CaseExprAst(arms, NoElse), CaseResult(<<"i32">>, TRUE), TRUE)

\* CASE operand WHEN value THEN value ... ELSE ... END.
SimpleCaseArms(arms) == CaseArms(arms)
SimpleCaseExprAst(operand, arms, else) ==
    LET kids == <<operand>> \o SimpleCaseArms(arms) \o <<else>>
    IN  Node("case_of", kids, kids)
SimpleCase(operand, arms, else) ==
    Expr(SimpleCaseExprAst(operand.ast, arms, else.ast),
         CaseResult(<<"i32">>,
             KindMaybeNull(else.kind) \/ \E i \in DOMAIN arms : KindMaybeNull(arms[i].then.kind)),
         else.null \/ \E i \in DOMAIN arms : arms[i].then.null)

\* NULLIF(a, b) is always nullable.
NullifExprAst(left, right) == Node("nullif", <<left, right>>, <<left, right>>)
Nullif(left, right) == Expr(NullifExprAst(left.ast, right.ast), CaseResult(<<"i32">>, TRUE), TRUE)

\* COALESCE: not NULL as soon as one argument is not.
CoalesceArgs(args) == Node("args", args, args)
CoalesceExprAst(args) == Node("coalesce", <<CoalesceArgs(args)>>, <<CoalesceArgs(args)>>)
Coalesce(args) ==
    Expr(CoalesceExprAst(AstsOf(args)),
         CaseResult(<<"i32">>, \A i \in DOMAIN args : KindMaybeNull(args[i].kind)),
         \A i \in DOMAIN args : args[i].null)

-----------------------------------------------------------------------------
(* Window functions.                                                       *)

\* A window's partitions and orders: each a NonAggregateAst.
CanDefineWindow(keys) == \A i \in DOMAIN keys : keys[i].ast.nonAggregate

\* PARTITION BY, then ORDER BY.
WindowList(partitions, orders) == partitions \o orders

\* WindowExprAst: func(operand) OVER (PARTITION BY ... ORDER BY ...).  It classifies as a column
\* and implements neither ExprColumns nor NonAggregateAst nor NonWindowAst.
WindowExprAst(func, operands, partitions, orders) ==
    LET kids == operands \o WindowList(partitions, orders)
    IN  [Node(func, kids, kids) EXCEPT
            !.term = "column", !.columns = "none",
            !.nonAggregate = FALSE, !.nonWindow = FALSE, !.window = TRUE,
            !.misplaced = @ \/ \E i \in DOMAIN kids : kids[i].window]

RowNumber(partitions, orders) ==
    Expr(WindowExprAst("row_number", <<>>, AstsOf(partitions), AstsOf(orders)),
         PlainKind(<<"i64">>), FALSE)

\* An aggregate call over a window keeps its kind.
SumOver(operand, partitions, orders) ==
    Expr(WindowExprAst("sum_over", <<operand.ast>>, AstsOf(partitions), AstsOf(orders)),
         Sum(operand).kind, TRUE)

\* IntoWindowNullable: an Option stays one, anything else becomes ScalarNullable.
WindowNullable(k) == IF k.option \/ k.kind[1] = "ScalarNullable" THEN k ELSE ScalarNullable(k)

\* lag(value, offset): NULL before the first row.  The value is a NonAggregateAst.
LagArgsAst(value) == Node("lag_args", <<value>>, <<value>>)
Lag(value, partitions, orders) ==
    Expr(WindowExprAst("lag", <<LagArgsAst(value.ast)>>, AstsOf(partitions), AstsOf(orders)),
         WindowNullable(value.kind), TRUE)

\* sum(operand) OVER w0, the window defined by the statement's WINDOW clause.
NamedWindowExprAst(operands) ==
    [Node("over_w0", operands, operands) EXCEPT
        !.term = "column", !.columns = "none",
        !.nonAggregate = FALSE, !.nonWindow = FALSE, !.overRef = TRUE, !.window = TRUE]
RowNumberOverRef == Expr(NamedWindowExprAst(<<>>), PlainKind(<<"i64">>), FALSE)

-----------------------------------------------------------------------------
(* Subqueries.  "sub" is a finished SubquerySelect.                        *)

\* A nested SELECT is a scope of its own: its text, its parameters and its CTEs come along, its
\* columns, aggregates and windows do not.
SubqueryAst(op, sub) ==
    [Node(op, <<>>, <<>>) EXCEPT
        !.params = sub.params, !.text = <<Word(op)>> \o sub.text, !.ctes = sub.ctes]

\* Variant: the sink does not look into a scalar subquery.
ScalarSubqueryUnseen(sub) ==
    [SubqueryAst("scalar", sub) EXCEPT !.term = "column", !.columns = "none", !.ctes = {}]

\* ScalarSubqueryExprAst: a value, classified as a column; no ExprColumns.
ScalarSubqueryExprAst(sub) ==
    [SubqueryAst("scalar", sub) EXCEPT !.term = "column", !.columns = "none"]

\* scalar_subquery: no row is NULL.
ScalarSubquery(sub) == Expr(ScalarSubqueryExprAst(sub), ScalarNullable(sub.output), TRUE)

-----------------------------------------------------------------------------
(* Predicates.                                                             *)

ComparePredicateAst(left, right) == Node("compare", <<left, right>>, <<left, right>>)
LikePredicateAst(left, right) == Node("like", <<left, right>>, <<left, right>>)
AndPredicateAst(left, right) == Node("and", <<left, right>>, <<left, right>>)
OrPredicateAst(left, right) == Node("or", <<left, right>>, <<left, right>>)
NotPredicateAst(predicate) == Node("not", <<predicate>>, <<predicate>>)
NullCheckPredicateAst(operand) == Node("is_null", <<operand>>, <<operand>>)
BetweenPredicateAst(operand, lo, hi) == Node("between", <<operand, lo, hi>>, <<operand, lo, hi>>)

\* IN (values): the values are inline.
InPredicateAst(operand) == Node("in", <<operand>>, <<operand>>)

\* operand IN (subquery).  PredicateColumns does not ask for the operand's ExprColumns.
InSubqueryPredicateAst(operand, sub) ==
    LET kids == <<operand, SubqueryAst("in_subquery", sub)>>
    IN  [Node("in", kids, kids) EXCEPT
            !.term = CombineTerm({operand.term, "column"}), !.columns = "bare"]

\* EXISTS (subquery): may reference outer columns, so it counts as one.
ExistsPredicateAst(sub) ==
    [SubqueryAst("exists", sub) EXCEPT !.term = "column", !.columns = "bare"]
=============================================================================
