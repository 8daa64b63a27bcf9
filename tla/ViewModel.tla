----------------------------- MODULE ViewModel -----------------------------
(***************************************************************************)
(* The structural body of a view (squealy-core/src/ir.rs): a SELECT, a set *)
(* operation or a WITH prelude over bodies, with expression trees in its   *)
(* clauses and whole queries inside its expressions, and the walks that    *)
(* read or rewrite such a body.                                            *)
(*                                                                         *)
(* Every variant of ExprNode is one shape here: its tag, its attributes    *)
(* (operator, flag, name or type, as strings), its operands in the order   *)
(* every walk visits them, its result pin, and its subquery.  An Option    *)
(* is a sequence of length 0 or 1.                                         *)
(***************************************************************************)
EXTENDS Naturals, SequencesExt

(***************************************************************************)
(* The data.                                                               *)
(***************************************************************************)

\* An expression node without a result pin or a subquery.
Node(tag, attrs, kids) ==
    [tag |-> tag, attrs |-> attrs, kids |-> kids, pin |-> <<>>, sub |-> <<>>]

\* A node whose output the renderer casts to the declared type of the view's column.
Pinned(tag, attrs, kids, type) == [Node(tag, attrs, kids) EXCEPT !.pin = <<type>>]

\* A scalar, IN or EXISTS subquery: a scope of its own inside the expression.
Nested(tag, attrs, kids, query) == [Node(tag, attrs, kids) EXCEPT !.sub = <<query>>]

Column(alias, column) == Node("Column", <<alias, column>>, <<>>)
BareColumn(column) == Node("BareColumn", <<column>>, <<>>)
Literal(text) == Node("Literal", <<text>>, <<>>)
Raw(text) == Node("Raw", <<text>>, <<>>)

\* A projected expression: its output name and the AS a column list would suppress.
ProjectionItem(name, internal, expr) ==
    [output_name |-> name, internal_alias |-> internal, expr |-> expr]

\* A FROM or JOIN source: a named relation, or a derived table holding a body.
Named(kind, schema, name, alias, on) ==
    [kind |-> kind, schema |-> schema, name |-> name, alias |-> alias, derived |-> <<>>, on |-> on]
Derived(kind, body, alias, on) ==
    [kind |-> kind, schema |-> <<>>, name |-> "", alias |-> alias, derived |-> <<body>>, on |-> on]

OrderItem(expr, direction) == [expr |-> expr, direction |-> direction]

\* An empty SELECT; "sources" holds the FROM item and then the joins.
EmptyQuery ==
    [distinct |-> FALSE, projection |-> <<>>, sources |-> <<>>, filter |-> <<>>, group_by |-> <<>>,
     having |-> <<>>, order_by |-> <<>>, limit |-> <<>>, offset |-> <<>>, dependencies |-> <<>>]

Select(query) == [shape |-> "Select", query |-> query]
Compound(op, all, left, right, order) ==
    [shape |-> "Set", op |-> op, all |-> all, left |-> left, right |-> right, order_by |-> order,
     limit |-> <<>>, offset |-> <<>>]
With(recursive, ctes, body) ==
    [shape |-> "With", recursive |-> recursive, ctes |-> ctes, body |-> body]
Cte(name, columns, body) == [name |-> name, columns |-> columns, body |-> body]

Exprs(items) == [i \in DOMAIN items |-> items[i].expr]
JoinConditions(query) == FlattenSeq([i \in DOMAIN query.sources |-> query.sources[i].on])
ClauseTerms(query) == query.group_by \o query.having \o Exprs(query.order_by)

\* Every expression of one SELECT, in the order collect_query_sources visits them.
QueryExprs(query) ==
    JoinConditions(query) \o Exprs(query.projection) \o query.filter \o ClauseTerms(query)

(***************************************************************************)
(* The rewriting walks.  A pass says what it does to a node, to a result   *)
(* pin and to a named source; the walk takes it everywhere.                *)
(***************************************************************************)

\* The closures the walk over expressions is called with: fold LIKE's case flag, or the type of
\* a general CAST.
PassNode(pass, node) ==
    CASE pass = "like" /\ node.tag = "Like" -> [node EXCEPT !.attrs[1] = ""]
      [] pass = "cast" /\ node.tag = "Cast" -> [node EXCEPT !.attrs[1] = "folded"]
      [] OTHER -> node

\* The closure map_sources is called with suppresses a schema; a derived table is no source.
PassSource(pass, source) ==
    IF pass = "source" /\ source.derived = <<>> THEN [source EXCEPT !.schema = <<>>] ELSE source

MapPin(pin) == IF pin = <<>> THEN <<>> ELSE <<"folded">>

RECURSIVE MapExpr(_, _), MapQuery(_, _), MapBody(_, _)

\* Every walk is exhaustive over the shapes of ExprNode: all operands, and the subquery.
Under(pass, node) ==
    [node EXCEPT !.kids = [i \in DOMAIN @ |-> MapExpr(pass, @[i])],
                 !.sub = [i \in DOMAIN @ |-> MapQuery(pass, @[i])]]

\* The three walks: the node first and then what is under it, pins only, and nothing but what is
\* under the node.
map_expr_nodes(pass, node) == Under(pass, PassNode(pass, node))
map_expr_result_pins(node) == Under("pin", [node EXCEPT !.pin = MapPin(@)])
map_expr_sources(node) == Under("source", node)

MapExpr(pass, node) ==
    CASE pass \in {"like", "cast"} -> map_expr_nodes(pass, node)
      [] pass = "pin" -> map_expr_result_pins(node)
      [] pass = "source" -> map_expr_sources(node)

MapItems(pass, items) == [i \in DOMAIN items |-> [items[i] EXCEPT !.expr = MapExpr(pass, @)]]
MapTerms(pass, terms) == [i \in DOMAIN terms |-> MapExpr(pass, terms[i])]

\* Variant: a walk that takes the sources and forgets their ON conditions.
MapSourceOnly(pass, source) ==
    [PassSource(pass, source) EXCEPT !.derived = [i \in DOMAIN @ |-> MapBody(pass, @[i])]]

\* A named source is rewritten itself; a derived table has a body to walk.
MapSource(pass, source) ==
    [PassSource(pass, source) EXCEPT
        !.derived = [i \in DOMAIN @ |-> MapBody(pass, @[i])], !.on = MapTerms(pass, @)]

\* Every expression and every source of a SELECT.
map_query_exprs(pass, query) ==
    [query EXCEPT
        !.projection = MapItems(pass, @),
        !.sources = [i \in DOMAIN @ |-> MapSource(pass, @[i])],
        !.filter = MapTerms(pass, @),
        !.group_by = MapTerms(pass, @),
        !.having = MapTerms(pass, @),
        !.order_by = MapItems(pass, @)]

\* The walk over the sources takes the explicit dependencies as well.
map_query_sources(query) ==
    [map_query_exprs("source", query) EXCEPT
        !.dependencies = [i \in DOMAIN @ |-> PassSource("source", @[i])]]

MapQuery(pass, query) ==
    IF pass = "source" THEN map_query_sources(query) ELSE map_query_exprs(pass, query)

MapBody(pass, body) ==
    CASE body.shape = "Select" -> [body EXCEPT !.query = MapQuery(pass, @)]
      [] body.shape = "Set" ->
            [body EXCEPT !.left = MapBody(pass, @), !.right = MapBody(pass, @),
                         !.order_by = MapItems(pass, @)]
      [] body.shape = "With" ->
            [body EXCEPT !.ctes = [i \in DOMAIN @ |-> [@[i] EXCEPT !.body = MapBody(pass, @)]],
                         !.body = MapBody(pass, @)]

\* The walks by name, each from its own recursion over the body.
map_like(body) == MapBody("like", body)
map_cast_types(body) == MapBody("cast", body)
map_result_pins(body) == MapBody("pin", body)
map_sources(body) == MapBody("source", body)

(***************************************************************************)
(* The reading walks.                                                      *)
(***************************************************************************)

\* A SourceRef, without the alias it is bound to.
Reference(source) == [schema |-> source.schema, name |-> source.name]

RECURSIVE ScopeNodes(_), ExprSources(_), QuerySources(_), BodySources(_)

\* visit_scope_exprs: the nodes of one scope; a subquery is another scope, the operand of IN is not.
ScopeNodes(node) ==
    {node} \cup UNION {ScopeNodes(node.kids[i]) : i \in DOMAIN node.kids}

\* collect_expr_sources: every source an expression reads, through its subqueries.
ExprSources(node) ==
    UNION {ExprSources(node.kids[i]) : i \in DOMAIN node.kids}
        \cup UNION {QuerySources(node.sub[i]) : i \in DOMAIN node.sub}

\* collect_query_sources and collect_source_item: a derived table's alias is not a dependency.
QuerySources(query) ==
    LET exprs == QueryExprs(query)
        items == ToSet(query.sources \o query.dependencies)
    IN {Reference(item) : item \in {s \in items : s.derived = <<>>}}
           \cup UNION {BodySources(item.derived[1]) : item \in {s \in items : s.derived # <<>>}}
           \cup UNION {ExprSources(exprs[i]) : i \in DOMAIN exprs}

\* Variant: a WITH that drops the sources named like a CTE whatever their schema.
VisibleOutsideByName(ctes, sources) ==
    {s \in sources : s.name \notin {ctes[i].name : i \in DOMAIN ctes}}

\* What a WITH lets out: a source bound to none of its CTEs, by exact name and without a schema.
VisibleOutside(ctes, sources) ==
    {s \in sources : s.schema # <<>> \/ s.name \notin {ctes[i].name : i \in DOMAIN ctes}}

BodySources(body) ==
    CASE body.shape = "Select" -> QuerySources(body.query)
      [] body.shape = "Set" ->
            BodySources(body.left) \cup BodySources(body.right)
                \cup UNION {ExprSources(body.order_by[i].expr) : i \in DOMAIN body.order_by}
      [] body.shape = "With" ->
            VisibleOutside(body.ctes,
                BodySources(body.body)
                    \cup UNION {BodySources(body.ctes[i].body) : i \in DOMAIN body.ctes})

\* ViewModel::referenced_sources: what view creation is ordered by.
referenced_sources(body) == BodySources(body)
=============================================================================
