----------------------------- MODULE ViewLower -----------------------------
(***************************************************************************)
(* The lowering of a typed query into a view body (squealy-core/src/       *)
(* view.rs): IrBuilder turns an expression into a node by visiting it with *)
(* a stack of nodes, and ModelSink gathers the clauses of one SELECT.      *)
(*                                                                         *)
(* A typed expression is written with the nodes of ViewModel, plus         *)
(* BoolTest; lists inside a node (arguments, partitions, orders, arms) are *)
(* nodes of their own, and the orders of a window carry their directions.  *)
(* A typed query is a query whose filter and having may hold several       *)
(* predicates, one per call of the builder.                                *)
(***************************************************************************)
EXTENDS ViewModel

List(tag, kids) == Node(tag, <<>>, kids)
Orders(directions, kids) == Node("OrderBy", directions, kids)
Arm(when, then) == Node("Arm", <<>>, <<when, then>>)
And(left, right) == Node("Logical", <<"AND">>, <<left, right>>)

\* The builder: the stack of nodes, and the directions of the window orders visited.
NewBuilder == [stack |-> <<>>, directions |-> <<>>]
Push(builder, node) == [builder EXCEPT !.stack = Append(@, node)]

\* Vec::split_off: what was pushed since the stack had "depth" nodes, and the stack without it.
SinceDepth(builder, depth) == SubSeq(builder.stack, depth + 1, Len(builder.stack))
BackTo(builder, depth) == [builder EXCEPT !.stack = SubSeq(@, 1, depth)]

RECURSIVE Visit(_, _), Child(_, _), VisitAll(_, _), LowerQuery(_), LowerExpr(_)

\* Visits each expression of a list, each pushing its node.
VisitAll(exprs, builder) == FoldLeft(LAMBDA acc, e : Visit(e, acc), builder, exprs)

\* IrBuilder::child: the node a visit pushed, popped.
Child(expr, builder) ==
    LET visited == Visit(expr, builder)
    IN [node |-> Last(visited.stack), builder |-> [visited EXCEPT !.stack = Front(@)]]

\* The fixed operands of a combinator, each a child of its own.
Children(exprs, builder) ==
    LET next(acc, e) ==
            LET child == Child(e, acc.builder)
            IN [nodes |-> Append(acc.nodes, child.node), builder |-> child.builder]
    IN FoldLeft(next, [nodes |-> <<>>, builder |-> builder], exprs)

\* The combinators over fixed operands, by what they combine: each pops its operands and pushes
\* one node made of them.  A leaf has no operand; the items of an IN are literals.
Leaves == {"Column", "Literal", "Now"}
Operators == {"Binary", "Nullif", "Aggregate"}
ScalarFunctions == {"ScalarFn", "Extract", "ExtractSecond", "DateTrunc"}
Predicates == {"Compare", "Logical", "Not", "IsNull", "Like", "In", "Between"}

VisitFixed(expr, builder) ==
    LET children == Children(expr.kids, builder)
    IN Push(children.builder, [expr EXCEPT !.kids = children.nodes])

\* visit_coalesce: its arguments are split off the stack, however many they are.
VisitCoalesce(expr, builder) ==
    LET depth == Len(builder.stack)
        visited == VisitAll(expr.kids, builder)
    IN Push(BackTo(visited, depth), [expr EXCEPT !.kids = SinceDepth(visited, depth)])

\* Each expression of a window's ORDER BY is followed by its direction.
VisitOrders(orders, builder) ==
    LET next(acc, i) ==
            LET visited == Visit(orders.kids[i], acc)
            IN [visited EXCEPT !.directions = Append(@, orders.attrs[i])]
    IN FoldLeft(next, builder, [i \in DOMAIN orders.kids |-> i])

\* Variant: the directions of the whole expression are paired with a window's orders.
PairedWithFirst(builder, since, exprs) == SubSeq(builder.directions, 1, Len(exprs))

\* The directions pushed since this window's orders began, one per order expression.
PairedDirections(builder, since, exprs) ==
    SubSeq(builder.directions, since + 1, since + Len(exprs))

\* visit_window: arguments, partitions and orders split off the stack one list after another.
VisitWindow(expr, builder) ==
    LET depth == Len(builder.stack)
        since == Len(builder.directions)
        args == VisitAll(expr.kids[1].kids, builder)
        partitions == VisitAll(expr.kids[2].kids, BackTo(args, depth))
        orders == VisitOrders(expr.kids[3], BackTo(partitions, depth))
        order_exprs == SinceDepth(orders, depth)
        directions == PairedDirections(orders, since, order_exprs)
        done == [BackTo(orders, depth) EXCEPT !.directions = SubSeq(@, 1, since)]
    IN Push(done, [expr EXCEPT !.kids =
           <<List("Args", SinceDepth(args, depth)), List("PartitionBy", SinceDepth(partitions, depth)),
             Orders(directions, order_exprs)>>])

\* visit_case and visit_simple_case: each arm pushes two nodes, which are paired back up.
VisitCase(expr, builder) ==
    LET arms == SelectSeq(expr.kids, LAMBDA k : k.tag = "Arm")
        other(tag) == FlattenSeq([i \in DOMAIN expr.kids |->
                          IF expr.kids[i].tag = tag THEN expr.kids[i].kids ELSE <<>>])
        operand == Children(other("Operand"), builder)
        depth == Len(operand.builder.stack)
        visited == VisitAll(FlattenSeq([i \in DOMAIN arms |-> arms[i].kids]), operand.builder)
        nodes == SinceDepth(visited, depth)
        else == Children(other("Else"), BackTo(visited, depth))
        group(tag, kids) == IF kids = <<>> THEN <<>> ELSE <<List(tag, kids)>>
    IN Push(else.builder, [expr EXCEPT !.kids =
           group("Operand", operand.nodes)
               \o [i \in DOMAIN arms |-> Arm(nodes[2 * i - 1], nodes[2 * i])]
               \o group("Else", else.nodes)])

\* A subquery is lowered by a sink of its own and pushed as one node, over its operand if it has one.
VisitSubquery(expr, builder) ==
    LET children == Children(expr.kids, builder)
    IN Push(children.builder,
            [expr EXCEPT !.kids = children.nodes, !.sub = <<LowerQuery(@[1])>>])

\* A boolean test is its operand, or NOT of it.
VisitBoolTest(expr, builder) ==
    LET child == Child(expr.kids[1], builder)
    IN Push(child.builder,
            IF expr.attrs[1] = "NOT" THEN Node("Not", <<>>, <<child.node>>) ELSE child.node)

Visit(expr, builder) ==
    CASE expr.tag = "Window" -> VisitWindow(expr, builder)
      [] expr.tag \in {"Case", "SimpleCase"} -> VisitCase(expr, builder)
      [] expr.sub # <<>> -> VisitSubquery(expr, builder)
      [] expr.tag = "BoolTest" -> VisitBoolTest(expr, builder)
      [] expr.tag = "Coalesce" -> VisitCoalesce(expr, builder)
      [] expr.tag \in Leaves \cup Operators \cup ScalarFunctions \cup Predicates ->
            VisitFixed(expr, builder)

\* build_expr, build_column, build_predicate and build_order: a fresh builder, and the top of it.
LowerExpr(expr) == Last(Visit(expr, NewBuilder).stack)

\* and_into: the predicates of a clause, joined from the left by AND.
AndInto(predicates) ==
    IF predicates = <<>> THEN <<>> ELSE <<FoldLeft(And, Head(predicates), Tail(predicates))>>

LowerAll(terms) == [i \in DOMAIN terms |-> LowerExpr(terms[i])]
LowerItems(items) == [i \in DOMAIN items |-> [items[i] EXCEPT !.expr = LowerExpr(@)]]

\* push_*_join: a source and its ON, the one predicate of the call; a FROM or CROSS JOIN has none.
LowerSource(source) == [source EXCEPT !.on = LowerAll(@)]

\* push_filter, push_group, push_having, push_order: each call adds to its clause.
LowerClauses(query) ==
    [query EXCEPT !.filter = AndInto(LowerAll(@)), !.group_by = LowerAll(@),
                  !.having = AndInto(LowerAll(@)), !.order_by = LowerItems(@)]

\* ModelSink: what the calls leave in the model, in their order.
LowerQuery(query) ==
    [LowerClauses(query) EXCEPT
        !.projection = LowerItems(@), !.sources = [i \in DOMAIN @ |-> LowerSource(@[i])]]

\* lower_view: the body a typed view definition deploys.
lower_view(query) == Select(LowerQuery(query))

(***************************************************************************)
(* What a typed query says, read off it without a stack.                   *)
(***************************************************************************)

RECURSIVE Said(_), SaidQuery(_)

Said(expr) ==
    IF expr.tag = "BoolTest"
    THEN IF expr.attrs[1] = "NOT" THEN Node("Not", <<>>, <<Said(expr.kids[1])>>)
         ELSE Said(expr.kids[1])
    ELSE [expr EXCEPT !.kids = [i \in DOMAIN @ |-> Said(@[i])],
                      !.sub = [i \in DOMAIN @ |-> SaidQuery(@[i])]]

SaidQuery(query) ==
    LET all(terms) == [i \in DOMAIN terms |-> Said(terms[i])]
        one(terms) ==
            CASE Len(terms) < 2 -> all(terms)
              [] Len(terms) = 2 -> <<And(Said(terms[1]), Said(terms[2]))>>
              [] Len(terms) = 3 -> <<And(And(Said(terms[1]), Said(terms[2])), Said(terms[3]))>>
        items(seq) == [i \in DOMAIN seq |-> [seq[i] EXCEPT !.expr = Said(@)]]
    IN [query EXCEPT
           !.projection = items(@),
           !.sources = [i \in DOMAIN @ |-> [@[i] EXCEPT !.on = all(@)]],
           !.filter = one(@), !.group_by = all(@), !.having = one(@), !.order_by = items(@)]
=============================================================================
