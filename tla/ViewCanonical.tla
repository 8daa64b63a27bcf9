--------------------------- MODULE ViewCanonical ---------------------------
(***************************************************************************)
(* The canonicalization of a view body's clause names (squealy-core/src/   *)
(* ir.rs, canonicalize_view_clause_aliases): a bare name in GROUP BY,      *)
(* HAVING or ORDER BY becomes the projected expression it is an alias of,  *)
(* or the column of the one source that exposes it, or stays.              *)
(*                                                                         *)
(* The same module says what a server makes of such a name (Denotes...),   *)
(* so that the two can be compared: a body means the same before and after.*)
(*                                                                         *)
(* A dialect is a record of how it folds identifiers and which siblings    *)
(* of a WITH a CTE's body sees.  A catalog maps a relation to its columns. *)
(***************************************************************************)
EXTENDS ViewModel

(***************************************************************************)
(* Scopes.                                                                 *)
(***************************************************************************)

\* Two identifiers the backend takes for one.
EqIdent(dialect, a, b) == dialect.fold[a] = dialect.fold[b]

Matching(dialect, name, columns) ==
    SelectSeq(columns, LAMBDA column : EqIdent(dialect, column, name))

\* A CTE scope binds names to <<columns>>, or to <<>> for a CTE that exists and is not visible here.
InsertCte(dialect, scope, name, columns) ==
    {c \in scope : ~EqIdent(dialect, c.name, name)} \cup {[name |-> name, columns |-> columns]}

RECURSIVE OutputNames(_)

\* The columns a derived table or a CTE without a column list exposes.
OutputNames(body) ==
    CASE body.shape = "Select" ->
            [i \in DOMAIN body.query.projection |-> body.query.projection[i].output_name]
      [] body.shape = "Set" -> OutputNames(body.left)
      [] body.shape = "With" -> OutputNames(body.body)

CteColumns(cte) == IF cte.columns = <<>> THEN OutputNames(cte.body) ELSE cte.columns

\* Whether the body of the i-th CTE of a WITH sees the j-th.
SeesSibling(dialect, recursive, i, j) ==
    \/ j < i
    \/ j > i /\ (dialect.forward \/ (recursive /\ dialect.recursive_forward))
    \/ j = i /\ recursive

\* The scope the i-th CTE's body is resolved in: every local CTE, visible or hidden.
BodyScope(dialect, scope, with, i) ==
    FoldLeft(LAMBDA acc, j :
                 InsertCte(dialect, acc, with.ctes[j].name,
                           IF SeesSibling(dialect, with.recursive, i, j)
                           THEN <<CteColumns(with.ctes[j])>> ELSE <<>>),
             scope, [j \in DOMAIN with.ctes |-> j])

\* The main body of a WITH sees every CTE.
MainScope(dialect, scope, with) ==
    FoldLeft(LAMBDA acc, cte : InsertCte(dialect, acc, cte.name, <<CteColumns(cte)>>),
             scope, with.ctes)

\* The columns a source exposes: <<>> when this pass cannot tell.
SourceColumns(dialect, catalog, ctes, source) ==
    LET local == {c \in ctes : source.schema = <<>> /\ EqIdent(dialect, c.name, source.name)}
    IN IF source.derived # <<>> THEN <<OutputNames(source.derived[1])>>
       ELSE IF local # {} THEN (CHOOSE c \in local : TRUE).columns
       ELSE IF Reference(source) \in DOMAIN catalog THEN <<catalog[Reference(source)]>>
       ELSE <<>>

\* One SELECT's scope: its sources as <<alias, columns>>, and whether a column list renames it.
Scope(dialect, catalog, ctes, query, listed) ==
    [dialect |-> dialect, listed |-> listed,
     sources |-> [i \in DOMAIN query.sources |->
                     [alias |-> query.sources[i].alias,
                      columns |-> SourceColumns(dialect, catalog, ctes, query.sources[i])]]]

\* The columns of resolved sources that a name denotes, as qualified columns, one per source.
Exposing(scope, name) ==
    LET exposes(source) ==
            source.columns # <<>> /\ Matching(scope.dialect, name, source.columns[1]) # <<>>
        hits == SelectSeq(scope.sources, exposes)
    IN [i \in DOMAIN hits |->
           Column(hits[i].alias, Matching(scope.dialect, name, hits[i].columns[1])[1])]

Collides(scope, name) == Exposing(scope, name) # <<>>
AllSourcesResolved(scope) == \A i \in DOMAIN scope.sources : scope.sources[i].columns # <<>>

(***************************************************************************)
(* Resolving a clause name.                                                *)
(***************************************************************************)

\* bind_source_column: the column of the one source that exposes the name; else the name stays.
BindSourceColumn(scope, name) ==
    IF Len(Exposing(scope, name)) = 1 THEN Exposing(scope, name)[1] ELSE BareColumn(name)

RECURSIVE BindBare(_, _)

\* expand_alias: the projected expression, its own bare columns bound to their sources.
BindBare(scope, node) ==
    IF node.tag = "BareColumn" THEN BindSourceColumn(scope, node.attrs[1])
    ELSE [node EXCEPT !.kids = [i \in DOMAIN @ |-> BindBare(scope, @[i])]]

\* Variant: the projected expression is spliced in as it is.
ExpandAliasUnbound(scope, expr) == expr

ExpandAlias(scope, expr) == BindBare(scope, expr)

\* A plain column projected under its own name is the source column, not an alias.
SelfNamed(dialect, item, name) ==
    \/ item.expr.tag = "Column" /\ EqIdent(dialect, item.expr.attrs[2], name)
    \/ item.expr.tag = "BareColumn" /\ EqIdent(dialect, item.expr.attrs[1], name)

\* referenceable_alias_expr: a kept AS first, then an output name no column list replaces.
AliasExprs(scope, projection, name) ==
    LET kept(item) ==
            item.internal_alias # <<>> /\ EqIdent(scope.dialect, item.internal_alias[1], name)
        named(item) ==
            /\ item.internal_alias = <<>>
            /\ EqIdent(scope.dialect, item.output_name, name)
            /\ ~SelfNamed(scope.dialect, item, name)
        hits == IF SelectSeq(projection, kept) # <<>> THEN SelectSeq(projection, kept)
                ELSE IF scope.listed THEN <<>>
                ELSE SelectSeq(projection, named)
    IN IF hits = <<>> THEN <<>> ELSE <<hits[1].expr>>

\* Variant: the alias wins a collision wherever the name stands alone.
ResolveLeafAliasFirst(scope, projection, name, is_order_by, standalone) ==
    LET alias == AliasExprs(scope, projection, name)
    IN IF standalone /\ alias # <<>> THEN ExpandAlias(scope, alias[1])
       ELSE BindSourceColumn(scope, name)

\* resolve_clause_leaf: an alias wins a collision only as a whole ORDER BY term.
ResolveLeaf(scope, projection, name, is_order_by, standalone) ==
    LET alias == AliasExprs(scope, projection, name)
    IN IF standalone /\ is_order_by
       THEN IF alias # <<>> THEN ExpandAlias(scope, alias[1]) ELSE BindSourceColumn(scope, name)
       ELSE IF Collides(scope, name) THEN BindSourceColumn(scope, name)
       ELSE IF AllSourcesResolved(scope) /\ alias # <<>> THEN ExpandAlias(scope, alias[1])
       ELSE BareColumn(name)

RECURSIVE ResolveScope(_, _, _, _, _)

\* resolve_clause_scope: every bare column of the term's own scope; a replacement is not re-entered.
ResolveScope(scope, projection, node, is_order_by, standalone) ==
    IF node.tag = "BareColumn"
    THEN ResolveLeaf(scope, projection, node.attrs[1], is_order_by, standalone)
    ELSE [node EXCEPT !.kids =
             [i \in DOMAIN @ |-> ResolveScope(scope, projection, @[i], is_order_by, FALSE)]]

ResolveTerm(scope, projection, node, is_order_by) ==
    ResolveScope(scope, projection, node, is_order_by, TRUE)

ReferencedNodes(query) ==
    UNION {ScopeNodes(ClauseTerms(query)[i]) : i \in DOMAIN ClauseTerms(query)}

\* prune_unreferenced_clause_aliases: a kept AS stays while a clause, or opaque SQL, may name it.
PruneAliases(dialect, query) ==
    LET nodes == ReferencedNodes(query)
        names == {n.attrs[1] : n \in {m \in nodes : m.tag = "BareColumn"}}
        unused(item) ==
            item.internal_alias # <<>>
                /\ ~\E name \in names : EqIdent(dialect, name, item.internal_alias[1])
    IN IF \E n \in nodes : n.tag = "Raw" THEN query
       ELSE [query EXCEPT !.projection =
                [i \in DOMAIN @ |->
                    IF unused(@[i]) THEN [@[i] EXCEPT !.internal_alias = <<>>] ELSE @[i]]]

(***************************************************************************)
(* The pass over a body.                                                   *)
(***************************************************************************)

RECURSIVE CanonicalExpr(_, _, _, _), CanonicalQuery(_, _, _, _, _), CanonicalBody(_, _, _, _, _)

\* The subqueries of an expression, each in a scope without an outer column list.
CanonicalExpr(dialect, catalog, ctes, node) ==
    [node EXCEPT
        !.sub = [i \in DOMAIN @ |-> CanonicalQuery(dialect, catalog, ctes, @[i], FALSE)],
        !.kids = [i \in DOMAIN @ |-> CanonicalExpr(dialect, catalog, ctes, @[i])]]

\* Nested scopes first, then this scope's clause terms against its sources, then the pruning.
CanonicalQuery(dialect, catalog, ctes, query, listed) ==
    LET term(node) == CanonicalExpr(dialect, catalog, ctes, node)
        terms(seq) == [i \in DOMAIN seq |-> term(seq[i])]
        items(seq) == [i \in DOMAIN seq |-> [seq[i] EXCEPT !.expr = term(@)]]
        nested ==
            [query EXCEPT
                !.sources = [i \in DOMAIN @ |->
                    [@[i] EXCEPT
                        !.derived = [j \in DOMAIN @ |->
                                        CanonicalBody(dialect, catalog, ctes, @[j], FALSE)],
                        !.on = terms(@)]],
                !.projection = items(@), !.filter = terms(@), !.group_by = terms(@),
                !.having = terms(@), !.order_by = items(@)]
        scope == Scope(dialect, catalog, ctes, nested, listed)
        resolve(node, is_order_by) == ResolveTerm(scope, nested.projection, node, is_order_by)
    IN PruneAliases(dialect,
           [nested EXCEPT
               !.group_by = [i \in DOMAIN @ |-> resolve(@[i], FALSE)],
               !.having = [i \in DOMAIN @ |-> resolve(@[i], FALSE)],
               !.order_by = [i \in DOMAIN @ |-> [@[i] EXCEPT !.expr = resolve(@, TRUE)]]])

\* canonicalize_view_body_scoped: "listed" says an outer column list renames this body's outputs.
CanonicalBody(dialect, catalog, ctes, body, listed) ==
    CASE body.shape = "Select" ->
            [body EXCEPT !.query = CanonicalQuery(dialect, catalog, ctes, @, listed)]
      [] body.shape = "Set" ->
            [body EXCEPT !.left = CanonicalBody(dialect, catalog, ctes, @, FALSE),
                         !.right = CanonicalBody(dialect, catalog, ctes, @, FALSE)]
      [] body.shape = "With" ->
            [body EXCEPT
                !.ctes = [i \in DOMAIN @ |->
                    [@[i] EXCEPT !.body =
                        CanonicalBody(dialect, catalog, BodyScope(dialect, ctes, body, i), @,
                                      body.ctes[i].columns # <<>>)]],
                !.body = CanonicalBody(dialect, catalog, MainScope(dialect, ctes, body), @, listed)]

canonicalize_view_clause_aliases(dialect, catalog, body, listed) ==
    CanonicalBody(dialect, catalog, {}, body, listed)
=============================================================================
