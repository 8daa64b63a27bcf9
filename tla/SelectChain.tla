---------------------------- MODULE SelectChain ----------------------------
(***************************************************************************)
(* The typed SELECT builder (squealy-core/src/query.rs).                   *)
(*                                                                         *)
(* A select is a chain of links: from, then joins, where_, group_by,       *)
(* having, order_by, distinct, limit, offset and locks in any order, each  *)
(* wrapping the chain before it.  The chain's associated types (SelectAst) *)
(* summarise it for the compiler; a final select checks them against the   *)
(* projection, and the accepted statement is lowered clause by clause.     *)
(* What the types accept is compared here with what SQL allows, and what   *)
(* the types promise (parameters, NULLs) with what is rendered.            *)
(*                                                                         *)
(* A program is a sequence of builder calls with arguments drawn from a    *)
(* menu; a call the bounds refuse is one that does not compile, so it is   *)
(* not taken.  select_subquery finishes a chain as a subquery, and a new   *)
(* chain may then embed it.                                                *)
(***************************************************************************)
EXTENDS Expressions, FiniteSets

CONSTANTS
    ParamNames,         \* names for the runtime parameters, two for each call
    MaxSubCalls,        \* bound: builder calls before select_subquery
    MaxSources,         \* bound: sources of one chain
    Menus,              \* what a program may use: records [methods, sources, calls], the methods
                        \* builder calls and "case", the sources records [table, cte, columns]
                        \* with columns two records [name, nullable], calls the bound on the
                        \* builder calls after from
    ArithmeticOverNulls,\* whether the menu has arithmetic over an operand that may be NULL
    WindowInHaving      \* whether the menu has a window function left of IN (subquery)

ASSUME BoundsAreTyped ==
    /\ MaxSubCalls \in Nat /\ MaxSources \in Nat
    /\ \A m \in Menus : m.calls \in Nat
    /\ ParamNames \in Seq(STRING)
    /\ {ArithmeticOverNulls, WindowInHaving} \subseteq BOOLEAN

\* A name means one source of a program, and one column of a source.
ASSUME NamesMeanOne ==
    \A m \in Menus : \A s, t \in m.sources :
        /\ s.table = t.table => s = t
        /\ s.columns[1].name # s.columns[2].name

VARIABLES
    chain,      \* the chain being built: its links and associated types
    sub,        \* the subquery built before it, if any
    calls,      \* how many builder calls were made
    menu,       \* the methods this program uses
    statement   \* the finished statement, if any

vars == <<chain, sub, calls, menu, statement>>

NoStatement == [done |-> FALSE]
NoSub == [exists |-> FALSE]
NoAst == Node("", <<>>, <<>>)
NoKind == PlainKind(<<>>)

-----------------------------------------------------------------------------
(* The types of a chain.                                                   *)

\* One link.  "arg" is the join's kind, or the number of rows, or the lock.
Link(clause, ast, kind, arg, source) ==
    [clause |-> clause, ast |-> ast, kind |-> kind, arg |-> arg, source |-> source]
NoSource == [table |-> "", cte |-> FALSE, columns |-> <<>>]

\* A source's columns as the closures get them; its alias is its place in the chain.
SourceExpr(source, position, nullable) ==
    [source |-> source, alias |-> position, nullable |-> nullable]

\* From: one source and the types of an empty chain.
FromLink(source) ==
    [links |-> <<Link("from", NoAst, NoKind, "from", source)>>,
     exprs |-> <<SourceExpr(source, 1, FALSE)>>,
     sourceParams |-> <<>>, filterParams |-> <<>>, groupParams |-> <<>>,
     havingParams |-> <<>>, orderParams |-> <<>>,
     rows |-> {{1}}, orderClass |-> "none", grouped |-> "ungrouped", distinct |-> FALSE,
     orderKeys |-> <<>>, locked |-> FALSE, outer |-> FALSE]

Push(c, link) == [c EXCEPT !.links = Append(@, link)]

\* Where: the predicate's parameters at the end of FilterParams; every other type is the base's.
WhereLink(c, p) ==
    [Push(c, Link("where", p, NoKind, "", NoSource)) EXCEPT !.filterParams = @ \o p.params]

\* ExtendOrderClass.
ExtendOrderClass(class, term) ==
    CASE term = "constant" -> class
      [] class = "none" -> IF term = "column" THEN "scalar" ELSE "aggregate"
      [] class = "scalar" /\ term = "column" -> "scalar"
      [] class = "aggregate" /\ term = "aggregate" -> "aggregate"
      [] OTHER -> "mixed"

\* OrderBy: the term's class joins OrderClass and its kind OrderKeys, innermost last.
OrderByLink(c, e) ==
    [Push(c, Link("order", e.ast, e.kind, "", NoSource)) EXCEPT
        !.orderParams = @ \o e.ast.params,
        !.orderClass = ExtendOrderClass(@, e.ast.term),
        !.orderKeys = <<e.kind.kind>> \o @]

\* Variant: a HAVING that waits for a GROUP BY waits on.
GroupByLinkLate(c, e) ==
    [Push(c, Link("group", e.ast, e.kind, "", NoSource)) EXCEPT
        !.groupParams = @ \o e.ast.params,
        !.grouped = IF @ = "needsGroupBy" THEN @ ELSE "grouped"]

\* GroupBy: grouped from now on.
GroupByLink(c, e) ==
    [Push(c, Link("group", e.ast, e.kind, "", NoSource)) EXCEPT
        !.groupParams = @ \o e.ast.params, !.grouped = "grouped"]

\* Variant: a bare column in HAVING is as good as an aggregate.
HavingTransitionLoose(grouped, columns) ==
    IF grouped = "grouped" THEN "grouped" ELSE "aggregated"

\* HavingTransition: without GROUP BY, HAVING makes one group of the table; a bare column in it
\* then needs a GROUP BY, before or after.
HavingTransition(grouped, columns) ==
    IF grouped \in {"grouped", "needsGroupBy"} THEN grouped
    ELSE IF columns = "free" THEN "aggregated" ELSE "needsGroupBy"

\* Having.
HavingLink(c, p) ==
    [Push(c, Link("having", p, NoKind, "", NoSource)) EXCEPT
        !.havingParams = @ \o p.params,
        !.grouped = HavingTransition(@, p.columns)]

\* Limited and Offset: no type changes.
LimitLink(c, rows) == Push(c, Link("limit", NoAst, NoKind, rows, NoSource))
OffsetLink(c, rows) == Push(c, Link("offset", NoAst, NoKind, rows, NoSource))

\* Locked and Distinct.
LockLink(c, lock) ==
    [Push(c, Link("lock", NoAst, NoKind, lock, NoSource)) EXCEPT !.locked = TRUE]
DistinctLink(c) ==
    [Push(c, Link("distinct", NoAst, NoKind, "", NoSource)) EXCEPT !.distinct = TRUE]

\* IntoNullableExprs: every source so far becomes nullable; one that is already stays so.
IntoNullableExprs(exprs) == [i \in DOMAIN exprs |-> [exprs[i] EXCEPT !.nullable = TRUE]]

\* What SQL makes of the sources (external): "rows" has, for each way a row of the joined
\* relation may come about, the sources that are present in it.
JoinRows(rows, n, kind) ==
    LET matched == {row \cup {n} : row \in rows}
        unmatched == CASE kind = "left" -> rows
                       [] kind = "right" -> {{n}}
                       [] kind = "full" -> rows \cup {{n}}
                       [] OTHER -> {}
    IN  matched \cup unmatched

Joined(c, kind, source, on) ==
    [Push(c, Link("join", on, NoKind, kind, source)) EXCEPT
        !.sourceParams = @ \o on.params,
        !.rows = JoinRows(@, Len(c.exprs) + 1, kind)]

\* Join: an inner or a cross join.
JoinLink(c, kind, source, on) ==
    [Joined(c, kind, source, on) EXCEPT
        !.exprs = Append(@, SourceExpr(source, Len(@) + 1, FALSE))]

\* LeftJoin: the new source may be absent.
LeftJoinLink(c, source, on) ==
    [Joined(c, "left", source, on) EXCEPT
        !.exprs = Append(@, SourceExpr(source, Len(@) + 1, TRUE)), !.outer = TRUE]

\* Variant: a right join leaves the sources before it as they are.
OuterJoinLinkKept(c, kind, source, on) ==
    [Joined(c, kind, source, on) EXCEPT
        !.exprs = Append(@, SourceExpr(source, Len(@) + 1, kind = "full")), !.outer = TRUE]

\* OuterJoin, of a right or a full join: every source before it may be absent, and the new one
\* too if the join is full.
OuterJoinLink(c, kind, source, on) ==
    [Joined(c, kind, source, on) EXCEPT
        !.exprs = Append(IntoNullableExprs(@), SourceExpr(source, Len(@) + 1, kind = "full")),
        !.outer = TRUE]

\* Variant: the order's parameters before those of HAVING.
RenderOrderedParamsSwapped(c) ==
    c.sourceParams \o c.filterParams \o c.groupParams \o c.orderParams \o c.havingParams

\* RenderOrderedParams: the chain's Params.
RenderOrderedParams(c) ==
    c.sourceParams \o c.filterParams \o c.groupParams \o c.havingParams \o c.orderParams

-----------------------------------------------------------------------------
(* The sources in the closures' hands.                                     *)

MayBeAbsent(c, i) == \E row \in c.rows : i \notin row

\* A column as the closures get it from the chain.
Column(c, i, j) ==
    LET s == c.exprs[i]
        col == s.source.columns[j]
        kind == ColumnKind(s.source.table, col.name, col.nullable)
    IN  Expr(ColumnExprAst(s.alias, col.name),
             IF s.nullable THEN Nullable(kind) ELSE kind,
             col.nullable \/ MayBeAbsent(c, i))

Columns(c) == {Column(c, i, j) : i \in DOMAIN c.exprs, j \in 1 .. 2}

-----------------------------------------------------------------------------
(* Finishing a chain.                                                      *)

\* TermProjectionClass.
TermProjectionClass(term) ==
    CASE term \in {"constant", "column"} -> "scalar"
      [] term = "aggregate" -> "aggregate"
      [] term = "none" -> "none"

\* ProjectionClass of a tuple: all its elements are of the class.
ProjectionClass(P) ==
    CHOOSE class \in {"scalar", "aggregate", "none"} :
        IF \E k \in {"scalar", "aggregate"} :
               \A i \in DOMAIN P : TermProjectionClass(P[i].ast.term) = k
        THEN class = TermProjectionClass(P[1].ast.term)
        ELSE class = "none"

\* ProjectionColumns of a tuple: there is one only if every element is column-free.
ColumnFreeProjection(P) == \A i \in DOMAIN P : P[i].ast.columns = "free"

\* OrderCompatibleWith.
OrderCompatibleWith(orderClass, class) == orderClass \in {"none", class}

\* ValidSelect, by the chain's grouping state.
ValidSelect(c, P) ==
    \/ c.grouped = "grouped"
    \/ /\ c.grouped = "ungrouped"
       /\ ProjectionClass(P) # "none"
       /\ OrderCompatibleWith(c.orderClass, ProjectionClass(P))
    \/ /\ c.grouped = "aggregated"
       /\ ColumnFreeProjection(P)
       /\ OrderCompatibleWith(c.orderClass, "aggregate")

\* Variant: only the very kind counts.
KindContainedExactly(P, k) ==
    \E i \in DOMAIN P : \A n \in DOMAIN P : P[n].kind.kind = k <=> n = i

\* Contains: the projection has the key's kind, or its Nullable, in one place.  The compiler
\* infers the place, so a kind that is in two places is refused as ambiguous.
KindContained(P, k) ==
    \E i \in DOMAIN P : \A n \in DOMAIN P :
        P[n].kind.kind \in {k, <<"Nullable">> \o k} <=> n = i

\* DistinctOrderGate: under DISTINCT every ORDER BY key is projected.
DistinctOrderGate(c, P) ==
    c.distinct => \A k \in DOMAIN c.orderKeys : KindContained(P, c.orderKeys[k])

\* Variant: DISTINCT is not asked.
RowLockIgnoringDistinct(c, P) ==
    c.locked => /\ c.grouped = "ungrouped" /\ ~ c.outer
                /\ ProjectionClass(P) = "scalar"

\* RowLockSelectValid: a locked select is a plain one.
RowLockSelectValid(c, P) ==
    c.locked => /\ ~ c.distinct /\ c.grouped = "ungrouped" /\ ~ c.outer
                /\ ProjectionClass(P) = "scalar"

\* What select_subquery, project and select_over ask of chain and projection.
CanProject(c, P) == ValidSelect(c, P) /\ DistinctOrderGate(c, P) /\ RowLockSelectValid(c, P)

NoNamedWindow(P) == \A i \in DOMAIN P : ~ P[i].ast.overRef
ParamsOf(P) == FlattenSeq([i \in DOMAIN P |-> P[i].ast.params])

\* select and select_correlated: besides, no parameter in the projection.
CanSelect(c, P) == CanProject(c, P) /\ ParamsOf(P) = <<>> /\ NoNamedWindow(P)

-----------------------------------------------------------------------------
(* Lowering.                                                               *)

TextOf(asts) == FlattenSeq([i \in DOMAIN asts |-> asts[i].text])

\* One clause: the asts of its calls, in their order.
Clause(c, clause) ==
    FlattenSeq([i \in DOMAIN c.links |->
                   IF c.links[i].clause = clause THEN c.links[i].ast.text ELSE <<>>])

\* The sources, each with the join that brought it in.
Sources(c) ==
    FlattenSeq([i \in DOMAIN c.links |->
                   LET l == c.links[i] IN
                   IF l.clause \in {"from", "join"}
                     THEN <<Word(l.arg), TableToken(l.source.table)>> \o l.ast.text ELSE <<>>])

\* LIMIT, OFFSET and the lock: the last call wins.
LastArg(c, clause) ==
    LET made == {i \in DOMAIN c.links : c.links[i].clause = clause}
    IN  IF made = {} THEN <<>> ELSE <<Word(clause), Word(c.links[Max(made)].arg)>>

\* Selected::lower_into.
LowerInto(c, P, window) ==
    (IF c.distinct THEN <<Word("distinct")>> ELSE <<>>)
    \o TextOf(AstsOf(P))
    \o Sources(c)
    \o Clause(c, "where")
    \o Clause(c, "group")
    \o Clause(c, "having")
    \o TextOf(window)
    \o Clause(c, "order")
    \o LastArg(c, "limit") \o LastArg(c, "offset") \o LastArg(c, "lock")

\* Selected::direct_ctes: the chain's own sources, and what the sink finds in every clause.
DirectCtes(c, P, window) ==
    {l.source.table : l \in {k \in Range(c.links) : k.source.cte}}
    \cup (UNION {e.ast.ctes : e \in Range(P)})
    \cup (UNION {a.ctes : a \in Range(window)})
    \cup (UNION {l.ast.ctes : l \in Range(c.links)})

Statement(c, P, window) ==
    [done |-> TRUE, chain |-> c, projection |-> P, window |-> window,
     text |-> LowerInto(c, P, window), ctes |-> DirectCtes(c, P, window),
     params |-> RenderOrderedParams(c)]

\* SubquerySelect: its Params are the projection's, then the chain's.
SubquerySelect(c, P) ==
    [exists |-> TRUE, params |-> ParamsOf(P) \o RenderOrderedParams(c),
     text |-> LowerInto(c, P, <<>>), ctes |-> DirectCtes(c, P, <<>>),
     output |-> P[1].kind]

-----------------------------------------------------------------------------
(* The menu.  The next call may give its parameters two names.             *)

pName == ParamNames[2 * calls + 1]
qName == ParamNames[2 * calls + 2]

FirstColumn(c) == Column(c, 1, 1)
LastColumn(c) == Column(c, Len(c.exprs), 2)

NullsAllowed(e) == ArithmeticOverNulls \/ ~ KindMaybeNull(e.kind)

Sums(c) ==
    {Add(e, Param(pName, "i32")) :
        e \in {d \in {FirstColumn(c), LastColumn(c)} :
                 CanCompute(d, Param(pName, "i32")) /\ NullsAllowed(d)}}

Aggregates(c) == {Count(e) : e \in {d \in {LastColumn(c)} \cup Sums(c) : CanAggregate(d)}}

Windows(c) ==
    {RowNumber(<<FirstColumn(c)>>, <<LastColumn(c)>>),
     SumOver(LastColumn(c), <<>>, <<FirstColumn(c)>>),
     Lag(LastColumn(c), <<>>, <<FirstColumn(c)>>)}
    \cup (IF "window" \in menu.methods THEN {RowNumberOverRef} ELSE {})

Scalars == IF sub.exists THEN {ScalarSubquery(sub)} ELSE {}

\* Aggregates over what no aggregate takes: offered, and refused by CanAggregate.
Nested(c) ==
    {Sum(e) : e \in {d \in {Count(LastColumn(c))} \cup Windows(c) : CanAggregate(d)}}

Operands(c) ==
    {FirstColumn(c), LastColumn(c)} \cup Sums(c) \cup Aggregates(c) \cup Windows(c) \cup Scalars

Predicates(c) ==
    {ComparePredicateAst(e.ast, LiteralExprAst) : e \in Operands(c)}
    \cup {AndPredicateAst(ComparePredicateAst(FirstColumn(c).ast, ParamExprAst(pName)),
                          BetweenPredicateAst(LastColumn(c).ast, ParamExprAst(qName), LiteralExprAst)),
          OrPredicateAst(NotPredicateAst(NullCheckPredicateAst(LastColumn(c).ast)),
                         OrPredicateAst(InPredicateAst(FirstColumn(c).ast),
                                        LikePredicateAst(LastColumn(c).ast, ParamExprAst(pName))))}
    \cup (IF sub.exists
          THEN {ExistsPredicateAst(sub)}
               \cup {InSubqueryPredicateAst(e.ast, sub) :
                       e \in {FirstColumn(c)} \cup Aggregates(c)
                             \cup (IF WindowInHaving THEN Windows(c) ELSE {})}
          ELSE {})

\* Expressions that are about NULL.
Conditionals(c) ==
    LET x == FirstColumn(c)
        y == LastColumn(c)
        arm(e) == <<[when |-> ComparePredicateAst(x.ast, LiteralExprAst), then |-> e]>>
        lit == Literal("i32")
    IN  {Otherwise(arm(x), y), Otherwise(arm(y), lit), CaseEnd(arm(lit)),
         SimpleCase(x, arm(y), lit), Coalesce(<<y, lit>>), Coalesce(<<y, y>>), Nullif(x, lit),
         Lower(y), SqlConcat(x, y), Substring(x, lit, y), Extract(y), ExtractAt(y),
         ExtractSecond(y), DateTrunc(y), Now("timestamp")}

Singles(c) == {<<e>> : e \in Operands(c) \cup Columns(c) \cup Nested(c) \cup {Literal("i32")}}

Pairs(c) ==
    {<<FirstColumn(c), e>> : e \in Operands(c)} \cup
    {<<e, Literal("i32")>> : e \in Aggregates(c)} \cup
    {<<Sum(LastColumn(c)), e>> : e \in Aggregates(c)}

\* Arithmetic over what may be NULL: the kinds of CASE, LAG and a subquery keep a plain Value.
NullSums(c) ==
    {Subtract(FirstColumn(c), e) :
        e \in {d \in Windows(c) \cup Scalars \cup {LastColumn(c)} :
                 CanCompute(FirstColumn(c), d) /\ NullsAllowed(FirstColumn(c)) /\ NullsAllowed(d)}}

Projections(c) ==
    Singles(c) \cup Pairs(c)
    \cup (IF "case" \in menu.methods THEN {<<e>> : e \in Conditionals(c) \cup NullSums(c)} ELSE {})

-----------------------------------------------------------------------------
(* The builder's methods.                                                  *)

Call(clause) ==
    /\ clause \in menu.methods
    /\ ~ statement.done
    /\ calls < menu.calls
    /\ calls' = calls + 1
    /\ UNCHANGED <<sub, menu, statement>>

Init ==
    /\ sub = NoSub
    /\ calls = 0
    /\ menu \in Menus
    /\ \E s \in menu.sources : chain = FromLink(s)
    /\ statement = NoStatement

\* Variant: any predicate will do.
CanFilterAny(pred) == TRUE

\* where_, where_correlated and the ON of a join take a NonAggregatePredicate.
CanFilter(pred) == pred.nonAggregate

Where ==
    /\ Call("where")
    /\ \E pred \in Predicates(chain) : CanFilter(pred) /\ chain' = WhereLink(chain, pred)

\* An OrderBy link needs the term's AstProjectionClass; order_by itself asserts there is no
\* named window.
CanOrderBy(e) == e.ast.term # "none" /\ ~ e.ast.overRef

OrderBy ==
    /\ Call("order")
    /\ \E e \in Operands(chain) \cup {Literal("i32")} : CanOrderBy(e) /\ chain' = OrderByLink(chain, e)

\* A tuple of terms: one link for each, left to right.
OrderByPair ==
    /\ Call("order_pair")
    /\ \E d, e \in {FirstColumn(chain), LastColumn(chain)} \cup Sums(chain) :
         CanOrderBy(d) /\ CanOrderBy(e) /\ chain' = OrderByLink(OrderByLink(chain, d), e)

\* group_by: the key is a NonAggregateAst.
CanGroupBy(e) == e.ast.nonAggregate

GroupBy ==
    /\ Call("group")
    /\ \E e \in Operands(chain) : CanGroupBy(e) /\ chain' = GroupByLink(chain, e)

\* A Having link needs the predicate's PredicateColumns.
CanHaving(pred) == pred.columns # "none"

Having ==
    /\ Call("having")
    /\ \E pred \in Predicates(chain) : CanHaving(pred) /\ chain' = HavingLink(chain, pred)

Limit == Call("limit") /\ \E rows \in {"1", "2"} : chain' = LimitLink(chain, rows)
Offset == Call("offset") /\ chain' = OffsetLink(chain, "1")
Distinct == Call("distinct") /\ chain' = DistinctLink(chain)

\* for_update and for_share.
Lock == Call("lock") /\ \E lock \in {"update", "share"} : chain' = LockLink(chain, lock)

\* The ON closure gets the sources so far and the new one, not yet nullable.
OnPredicates(source) ==
    LET c == JoinLink(chain, "inner", source, NoAst)
    IN  {AndPredicateAst(ComparePredicateAst(FirstColumn(chain).ast, LastColumn(c).ast),
                         ComparePredicateAst(FirstColumn(chain).ast, ParamExprAst(pName))),
         ComparePredicateAst(Count(LastColumn(c)).ast, LiteralExprAst)}

\* A table may be joined with itself.
CanJoin == Len(chain.exprs) < MaxSources

InnerJoin ==
    /\ Call("join")
    /\ \E s \in menu.sources : CanJoin /\ \E on \in OnPredicates(s) :
         CanFilter(on) /\ chain' = JoinLink(chain, "inner", s, on)

LeftJoin ==
    /\ Call("join")
    /\ \E s \in menu.sources : CanJoin /\ \E on \in OnPredicates(s) :
         CanFilter(on) /\ chain' = LeftJoinLink(chain, s, on)

RightJoin ==
    /\ Call("join")
    /\ \E s \in menu.sources : CanJoin /\ \E on \in OnPredicates(s) :
         CanFilter(on) /\ chain' = OuterJoinLink(chain, "right", s, on)

FullJoin ==
    /\ Call("join")
    /\ \E s \in menu.sources : CanJoin /\ \E on \in OnPredicates(s) :
         CanFilter(on) /\ chain' = OuterJoinLink(chain, "full", s, on)

CrossJoin ==
    /\ Call("join")
    /\ \E s \in menu.sources : CanJoin /\ chain' = JoinLink(chain, "cross", s, NoAst)

\* select and select_correlated.
Select ==
    /\ ~ statement.done
    /\ \E P \in Projections(chain) :
         CanSelect(chain, P) /\ statement' = Statement(chain, P, <<>>)
    /\ UNCHANGED <<chain, sub, calls, menu>>

\* window, then select_over: the definition has no parameters; the projection may refer to it.
SelectOver ==
    /\ "window" \in menu.methods
    /\ ~ statement.done
    /\ \E key \in Operands(chain) :
         LET P == <<FirstColumn(chain), RowNumberOverRef>>
         IN  /\ CanDefineWindow(<<key>>) /\ key.ast.params = <<>>
             /\ CanProject(chain, P)
             /\ statement' = Statement(chain, P, <<key.ast>>)
    /\ UNCHANGED <<chain, sub, calls, menu>>

\* select_subquery, and a new chain for the query around it.
SelectSubquery ==
    /\ "subquery" \in menu.methods
    /\ ~ statement.done /\ ~ sub.exists /\ calls <= MaxSubCalls
    /\ \E P \in {<<FirstColumn(chain)>>} \cup {<<e>> : e \in Sums(chain)}, s \in menu.sources :
         /\ CanProject(chain, P) /\ NoNamedWindow(P)
         /\ sub' = SubquerySelect(chain, P)
         /\ chain' = FromLink(s)
    /\ UNCHANGED <<calls, menu, statement>>

Next ==
    \/ Where \/ OrderBy \/ OrderByPair \/ GroupBy \/ Having
    \/ Limit \/ Offset \/ Distinct \/ Lock
    \/ InnerJoin \/ LeftJoin \/ RightJoin \/ FullJoin \/ CrossJoin
    \/ Select \/ SelectOver \/ SelectSubquery

Spec == Init /\ [][Next]_vars

-----------------------------------------------------------------------------
(* Properties.                                                             *)

\* The links are calls of the builder, and the types are those of a SelectAst.
TypeOK ==
    /\ \A i \in DOMAIN chain.links :
         chain.links[i].clause \in {"from", "join", "where", "group", "having", "order",
                                   "limit", "offset", "distinct", "lock"}
    /\ chain.orderClass \in {"none", "scalar", "aggregate", "mixed"}
    /\ chain.grouped \in {"ungrouped", "grouped", "aggregated", "needsGroupBy"}
    /\ Len(chain.exprs) \in 1 .. MaxSources
    /\ \A i \in DOMAIN RenderOrderedParams(chain) :
         RenderOrderedParams(chain)[i] \in {Placeholder(p) : p \in Range(ParamNames)}
    /\ calls \in 0 .. menu.calls
    /\ {chain.distinct, chain.locked, chain.outer, statement.done, sub.exists} \subseteq BOOLEAN

Uses(c, clauses) == \E l \in Range(c.links) : l.clause \in clauses

\* The asts of some clauses, and those of a projection.
AstsIn(c, clauses) == {l.ast : l \in {k \in Range(c.links) : k.clause \in clauses}}
Projected(P) == {P[i].ast : i \in DOMAIN P}

\* A statement without GROUP BY is about rows or about one group, never both: if an aggregate
\* or a HAVING makes it one group, no column stands bare in its projection, HAVING or ORDER BY.
GroupingIsSound ==
    statement.done /\ ~ Uses(statement.chain, {"group"}) =>
        LET c == statement.chain
            perGroup == Projected(statement.projection) \cup AstsIn(c, {"having", "order"})
        IN  Uses(c, {"having"}) \/ (\E a \in perGroup : a.aggregate)
            => \A a \in perGroup : ~ a.bare

\* Aggregates and windows stay where SQL takes them: none in WHERE, ON or GROUP BY, no window in
\* HAVING, neither inside an aggregate, no window inside a window's definition; and a reference
\* to w0 comes with the WINDOW clause that defines it.
PlacementIsSound ==
    statement.done =>
        LET c == statement.chain
            rowwise == AstsIn(c, {"join", "where", "group"}) \cup Range(statement.window)
            all == rowwise \cup AstsIn(c, {"having", "order"}) \cup Projected(statement.projection)
        IN  /\ \A a \in rowwise : ~ a.aggregate /\ ~ a.window
            /\ \A a \in AstsIn(c, {"having"}) : ~ a.window
            /\ \A a \in all : ~ a.misplaced
            /\ statement.window = <<>> => \A a \in all : ~ a.overRef

Placeholders(text) ==
    FlattenSeq([i \in DOMAIN text |-> IF text[i][1] = "param" THEN <<text[i]>> ELSE <<>>])

\* The parameters a caller binds by type are the placeholders by position: of a statement, and
\* of the subquery it embeds.
PlaceholdersFollowParams ==
    /\ statement.done => Placeholders(statement.text) = statement.params
    /\ sub.exists => Placeholders(sub.text) = sub.params

\* A projected expression that SQL can make NULL decodes into an Option.
NullsDecoded ==
    statement.done =>
        \A i \in DOMAIN statement.projection :
            statement.projection[i].null => statement.projection[i].kind.decodesNull

IsColumn(a) == a.text[1][1] = "column"
OrderedColumns(c) == {a.text : a \in {k \in AstsIn(c, {"order"}) : IsColumn(k)}}
TextsOf(P) == {P[i].ast.text : i \in DOMAIN P}

\* A projected text that the compiler may take for a column: a kind tells a column's table and
\* name but not which source of that table it is from, and LAG of an Option keeps the kind.
PassesFor(c, text, column) ==
    LET value == IF text[1] = Word("lag") THEN text[3] ELSE text[1]
    IN  /\ value[1] = "column" /\ value[3] = column[3]
        /\ c.exprs[value[2]].source.table = c.exprs[column[2]].source.table

\* The projected elements that pass for a column.
Passing(c, P, column) == {i \in DOMAIN P : PassesFor(c, P[i].ast.text, column)}

\* Under DISTINCT a statement is sorted by columns that a projected element passes for: the
\* column itself, the same column of another source of its table, or LAG of either; never by a
\* column of which nothing is projected.  And a select whose keys are all columns it projects
\* is not refused, whatever joins came between order_by and select, unless a second projected
\* element passes for one of them.
DistinctOrdersByProjected ==
    /\ statement.done /\ statement.chain.distinct =>
         \A text \in OrderedColumns(statement.chain) :
             Passing(statement.chain, statement.projection, text[1]) # {}
    /\ chain.distinct =>
         \A P \in Singles(chain) \cup Pairs(chain) :
             (\A a \in AstsIn(chain, {"order"}) :
                 /\ IsColumn(a) /\ a.text \in TextsOf(P)
                 /\ \A h, i \in Passing(chain, P, a.text[1]) : h = i)
             => DistinctOrderGate(chain, P)

\* A statement that locks rows has rows to lock: it is not distinct, grouped or aggregated, and
\* no outer join leaves a row out, in whatever order the calls were made.
LocksIdentifyRows ==
    statement.done /\ Uses(statement.chain, {"lock"}) =>
        LET c == statement.chain
        IN  /\ ~ Uses(c, {"distinct", "group", "having"})
            /\ \A a \in Projected(statement.projection) \cup AstsIn(c, {"order"}) : ~ a.aggregate
            /\ \A i \in DOMAIN c.exprs : ~ MayBeAbsent(c, i)

CteNames == {s.table : s \in {t \in menu.sources : t.cte}}
CtesIn(text) == {name \in CteNames : TableToken(name) \in Range(text)}

\* The WITH clause is made from the CTEs that the text refers to, at any depth.
EveryCteCollected ==
    /\ statement.done => CtesIn(statement.text) = statement.ctes
    /\ sub.exists => CtesIn(sub.text) = sub.ctes

\* The call that made a link, made again on another chain.
CallAgain(c, l) ==
    LET e == Expr(l.ast, l.kind, FALSE)
    IN  CASE l.clause = "where" -> WhereLink(c, l.ast)
          [] l.clause = "group" -> GroupByLink(c, e)
          [] l.clause = "having" -> HavingLink(c, l.ast)
          [] l.clause = "order" -> OrderByLink(c, e)
          [] l.clause = "limit" -> LimitLink(c, l.arg)
          [] l.clause = "offset" -> OffsetLink(c, l.arg)
          [] l.clause = "lock" -> LockLink(c, l.arg)
          [] l.clause = "distinct" -> DistinctLink(c)
          [] l.clause = "join" /\ l.arg \in {"inner", "cross"} -> JoinLink(c, l.arg, l.source, l.ast)
          [] l.clause = "join" /\ l.arg = "left" -> LeftJoinLink(c, l.source, l.ast)
          [] l.clause = "join" /\ l.arg \in {"right", "full"} ->
               OuterJoinLink(c, l.arg, l.source, l.ast)

Replay(links) ==
    LET after[i \in DOMAIN links] ==
            IF i = 1 THEN FromLink(links[1].source) ELSE CallAgain(after[i - 1], links[i])
    IN  after[Len(links)]
TypesOf(c) == [c EXCEPT !.links = <<>>]

\* Two neighbouring calls of different clauses other than joins can be swapped: the chain has
\* the same types, so the same selects are accepted and the same parameters asked for.
CallOrderIsFree ==
    \A i \in 2 .. Len(chain.links) - 1 :
        LET l == chain.links[i]
            k == chain.links[i + 1]
        IN  l.clause # k.clause /\ "join" \notin {l.clause, k.clause} =>
                TypesOf(Replay([chain.links EXCEPT ![i] = k, ![i + 1] = l])) = TypesOf(chain)
=============================================================================
