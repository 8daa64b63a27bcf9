------------------------------- MODULE Views -------------------------------
(***************************************************************************)
(* What a deployment does to the views and checks of a schema: a typed     *)
(* view is lowered to a body, its clause names are canonicalized and the   *)
(* distinctions the dialect cannot express are folded, in any order and    *)
(* any number of times (squealy-core/src/ir.rs), and the body is rendered  *)
(* (squealy-core/src/view_render.rs).  A CHECK's expression is normalized  *)
(* and folded by passes of its own.                                        *)
(*                                                                         *)
(* "truth" is what the server's relations expose; "catalog" is the part of *)
(* it the canonicalization is given, so a source may be unknown to it.     *)
(***************************************************************************)
EXTENDS ViewServer, ViewLower, ViewRender, ExprNormal, FiniteSets

CONSTANTS
    Dialects,        \* the backends
    PlainBodies,     \* bodies of views without a column list
    ListedBodies,    \* bodies of views with one
    TypedQueries,    \* typed queries of view definitions
    Checks,          \* expressions of constraints
    Environments,    \* rows a constraint is evaluated in
    TextBodies,      \* bodies whose texts are told apart
    RecursiveBodies, \* bodies with a WITH RECURSIVE
    Truth,           \* relation -> columns on the server
    Catalog,         \* relation -> columns as the pass is told
    MaxPasses        \* bound: passes of different kinds applied to one body

ASSUME MaxPassesAssumption == MaxPasses \in Nat

ASSUME CatalogAssumption ==
    /\ DOMAIN Catalog \subseteq DOMAIN Truth
    /\ \A r \in DOMAIN Catalog : Catalog[r] = Truth[r]

VARIABLES
    dialect,         \* the backend the schema is deployed to
    listed,          \* the view declares its output columns
    origin,          \* the typed query, body or check as it was written
    body,            \* what has become of it
    passes           \* the passes applied so far

vars == <<dialect, listed, origin, body, passes>>

Typed(query) == [shape |-> "Typed", query |-> query]
Check(expr) == [shape |-> "Check", expr |-> expr]

IsBody(b) == b.shape \in {"Select", "Set", "With"}

Init ==
    /\ dialect \in Dialects
    /\ listed \in BOOLEAN
    /\ \/ origin \in IF listed THEN ListedBodies ELSE PlainBodies
       \/ ~listed /\ origin \in {Typed(q) : q \in TypedQueries}
       \/ ~listed /\ origin \in {Check(e) : e \in Checks}
       \/ ~listed /\ origin \in TextBodies
       \/ ~listed /\ origin \in RecursiveBodies
    /\ body = origin
    /\ passes = {}

\* The definition of a typed view is lowered once, before any pass.
Lower ==
    /\ body.shape = "Typed"
    /\ body' = lower_view(body.query)
    /\ UNCHANGED <<dialect, listed, origin, passes>>

\* One more pass is taken, which may be one that was taken before.
Apply(pass, becomes) ==
    /\ Cardinality(passes \cup {pass}) <= MaxPasses
    /\ body' = becomes
    /\ passes' = passes \cup {pass}
    /\ UNCHANGED <<dialect, listed, origin>>

Canonicalize ==
    /\ IsBody(body)
    /\ Apply("canonical", canonicalize_view_clause_aliases(dialect, Catalog, body, listed))

Folded(pass, b) ==
    CASE pass = "like" -> map_like(b)
      [] pass = "cast" -> map_cast_types(b)
      [] pass = "pin" -> map_result_pins(b)
      [] pass = "source" -> map_sources(b)

\* A fold of a distinction the dialect does not have; only SQLite suppresses schemas.
Fold(pass) ==
    /\ IsBody(body)
    /\ pass = "source" => dialect.name = "sqlite"
    /\ Apply(pass, Folded(pass, body))

Normalize ==
    /\ body.shape = "Check"
    /\ Apply("normal", Check(NormalizeExpr(body.expr)))

\* Only a dialect without ILIKE loses the case flag.
FoldCheck ==
    /\ body.shape = "Check"
    /\ ~dialect.ilike
    /\ Apply("like", Check(FoldLike(body.expr)))

Folds == {"like", "cast", "pin", "source"}

Next ==
    \/ Lower
    \/ Canonicalize
    \/ \E pass \in Folds : Fold(pass)
    \/ Normalize
    \/ FoldCheck

Spec == Init /\ [][Next]_vars

-----------------------------------------------------------------------------

\* The origin as a body or check: a typed query is what it says.
Written == IF origin.shape = "Typed" THEN Select(SaidQuery(origin.query)) ELSE origin

\* A typed view deploys what its query says: every operand in its place under its operator, every
\* window with its own orders and directions, every predicate of a clause, and nothing else (the
\* stack of view.rs's IrBuilder and the clauses of its ModelSink).
LoweringFaithful == IsBody(body) /\ passes = {} => body = Written

RECURSIVE ScopesOfNode(_, _), ScopesOfQuery(_, _, _), ScopesOfBody(_, _, _)

\* Every SELECT of a body with the scope the pass has for it.
ScopesOfNode(ctes, node) ==
    UNION {ScopesOfNode(ctes, kid) : kid \in ToSet(node.kids)}
        \cup UNION {ScopesOfQuery(ctes, query, FALSE) : query \in ToSet(node.sub)}

ScopesOfQuery(ctes, query, renamed) ==
    {[query |-> query, scope |-> Scope(dialect, Catalog, ctes, query, renamed)]}
        \cup UNION {ScopesOfNode(ctes, node) : node \in ToSet(QueryExprs(query))}
        \cup UNION {ScopesOfBody(ctes, source.derived[1], FALSE) :
                        source \in {s \in ToSet(query.sources) : s.derived # <<>>}}

ScopesOfBody(ctes, b, renamed) ==
    CASE b.shape = "Select" -> ScopesOfQuery(ctes, b.query, renamed)
      [] b.shape = "Set" -> ScopesOfBody(ctes, b.left, FALSE) \cup ScopesOfBody(ctes, b.right, FALSE)
      [] b.shape = "With" ->
            ScopesOfBody(MainScope(dialect, ctes, b), b.body, renamed)
                \cup UNION {ScopesOfBody(BodyScope(dialect, ctes, b, i), b.ctes[i].body,
                                        b.ctes[i].columns # <<>>) : i \in DOMAIN b.ctes}

\* A name alone in ORDER BY that stands for a column projected plainly from a source the pass
\* does not know, while exactly one source that it knows has a column of the name.
SortsByUnknown(scope, query) ==
    \E term \in ToSet(Exprs(query.order_by)), item \in ToSet(query.projection),
       source \in ToSet(scope.sources) :
        /\ term.tag = "BareColumn" /\ SelfNamed(dialect, item, term.attrs[1])
        /\ \E name \in ItemNames(item, scope.listed) : EqIdent(dialect, name, term.attrs[1])
        /\ AliasExprs(scope, query.projection, term.attrs[1]) = <<>>
        /\ item.expr.tag = "Column" /\ item.expr.attrs[1] = source.alias /\ source.columns = <<>>
        /\ Len(Exposing(scope, term.attrs[1])) = 1

\* "Every rewrite is semantically equivalent to the original" (ir.rs:1464): the server makes of
\* every name of every clause of every scope what it made of it before, whatever the pass knew of
\* the sources, and never refuses a body it took.  One rewrite is not: where SortsByUnknown, and
\* only there, the pass takes the name for the column of the source it knows (bind_source_column,
\* ir.rs:1968 and 2035), although "an unresolved source leaves a clause name unchanged"
\* (ir.rs:1467).
MeaningKept ==
    IsBody(body) /\ passes = {"canonical"} =>
        LET before == Meaning(dialect, Truth, Written, listed)
            rebound == \E s \in ScopesOfBody({}, Written, listed) : SortsByUnknown(s.scope, s.query)
        IN Invalid \notin NodesOfBody(before) =>
               ((Meaning(dialect, Truth, body, listed) = before) <=> ~rebound)

\* Each pass may be repeated and they may be taken in any order without a trace.
PassOrderIsFree ==
    LET applied(b, pass) ==
            IF pass \notin passes THEN b
            ELSE CASE pass = "canonical" ->
                         canonicalize_view_clause_aliases(dialect, Catalog, b, listed)
                   [] pass = "normal" -> Check(NormalizeExpr(b.expr))
                   [] pass = "like" /\ b.shape = "Check" -> Check(FoldLike(b.expr))
                   [] OTHER -> Folded(pass, b)
    IN passes # {} /\ "source" \notin passes
           => body = FoldLeft(applied, Written, <<"canonical", "like", "cast", "pin", "normal">>)

\* A fold reaches every node, pin and source of the body, and a pin fold leaves the types of
\* casts written by the user.
FoldsReachEverything ==
    IsBody(body) =>
        LET nodes == NodesOfBody(body)
        IN /\ "like" \in passes => \A n \in nodes : n.tag = "Like" => n.attrs[1] = ""
           /\ "cast" \in passes => \A n \in nodes : n.tag = "Cast" => n.attrs[1] = "folded"
           /\ "cast" \notin passes => \A n \in nodes : n.tag = "Cast" => n.attrs[1] # "folded"
           /\ "pin" \in passes => \A n \in nodes : n.pin \in {<<>>, <<"folded">>}
           /\ "source" \in passes => \A r \in ReadByBody(dialect, {}, body) : r.schema = <<>>

\* The passes settle: neither their order nor a repetition leaves a trace, and what each of them
\* is to fold is folded wherever it stands, so that two deployments of one view, or of one check,
\* compare equal (the folds of ir.rs and the differ's canonical form).
PassesSettle == PassOrderIsFree /\ FoldsReachEverything

\* A check keeps its truth value, NULL included, in every row, and a normalized one holds no
\* BETWEEN and no chain grouped otherwise than from the left.
ChecksKeepMeaning ==
    body.shape = "Check" =>
        /\ \A env \in Environments :
               Value(dialect.ilike, env, body.expr) = Value(dialect.ilike, env, origin.expr)
        /\ "normal" \in passes => Settled(body.expr)

\* View creation is ordered by referenced_sources: every relation of the catalog that the server
\* reads for the view as written is among them, but for one with the name of a CTE that the body
\* does not see: it is dropped as though every body of a WITH saw every CTE, which only SQLite
\* grants.
DependenciesCompleteButHidden ==
    IsBody(origin) =>
        \A r \in ReadByBody(dialect, {}, origin) :
            \/ r \in referenced_sources(origin)
            \/ dialect.name # "sqlite" /\ r.schema = <<>> /\ r.name \in CteNames(origin)

-----------------------------------------------------------------------------

\* What is left of a body when what its text is not meant to show is taken away: a result pin is
\* the cast it renders, a case flag, a schema and a name may have no spelling here.
RECURSIVE Shown(_, _), ShownQuery(_, _, _), ShownBody(_, _, _)

CastNode(pin, node) == IF pin = <<>> THEN node ELSE Node("Cast", pin, <<node>>)

Shown(d, node) ==
    LET kids == [i \in DOMAIN node.kids |-> Shown(d, node.kids[i])]
        flags == IF node.tag = "Like" /\ ~d.ilike THEN [node.attrs EXCEPT ![1] = ""] ELSE node.attrs
        plain == [node EXCEPT !.attrs = flags, !.kids = kids, !.pin = <<>>,
                              !.sub = [i \in DOMAIN @ |-> ShownQuery(d, @[i], TRUE)]]
        branch(kid) ==
            IF kid.tag \in {"Arm", "Else"}
            THEN [kid EXCEPT !.kids[Len(kid.kids)] = CastNode(node.pin, @)] ELSE kid
    IN CASE node.tag \in {"Case", "SimpleCase"} ->
               [plain EXCEPT !.kids = [i \in DOMAIN kids |-> branch(kids[i])]]
         [] node.tag \in {"Nullif", "Coalesce"} ->
               IF AllLiterals(node.kids)
               THEN [plain EXCEPT !.kids = [i \in DOMAIN kids |-> CastNode(node.pin, kids[i])]]
               ELSE plain
         [] OTHER -> CastNode(node.pin, plain)

ShownQuery(d, query, aliased) ==
    LET all(terms) == [i \in DOMAIN terms |-> Shown(d, terms[i])]
        item(i) == [i EXCEPT !.expr = Shown(d, @),
                             !.output_name = IF aliased THEN @ ELSE "",
                             !.internal_alias = IF aliased THEN <<>> ELSE @]
        source(s) == [s EXCEPT !.schema = IF d.qualify THEN @ ELSE <<>>,
                               !.derived = [j \in DOMAIN @ |-> ShownBody(d, @[j], TRUE)],
                               !.on = all(@)]
    IN [query EXCEPT !.projection = [i \in DOMAIN @ |-> item(@[i])],
                     !.sources = [i \in DOMAIN @ |-> source(@[i])],
                     !.filter = all(@), !.group_by = all(@), !.having = all(@),
                     !.order_by = [i \in DOMAIN @ |-> [@[i] EXCEPT !.expr = Shown(d, @)]],
                     !.dependencies = <<>>]

ShownBody(d, b, aliased) ==
    CASE b.shape = "Select" -> [b EXCEPT !.query = ShownQuery(d, @, aliased)]
      [] b.shape = "Set" ->
            [b EXCEPT !.left = ShownBody(d, @, TRUE), !.right = ShownBody(d, @, TRUE)]
      [] b.shape = "With" ->
            [b EXCEPT !.ctes = [i \in DOMAIN @ |->
                                   [@[i] EXCEPT !.body = ShownBody(d, @, b.ctes[i].columns = <<>>)]],
                      !.body = ShownBody(d, @, aliased)]

\* The texts of the bodies that are told apart, and what each shows, computed once.
Texts ==
    [d \in Dialects |-> [named \in BOOLEAN |->
        {[text |-> render_view(d, b, named), shown |-> ShownBody(d, b, ~named)] : b \in TextBodies}]]

\* A view is replaced when its text differs and read back as its text says: two bodies with one
\* text differ in nothing the server could see, so that grouping, operand order, modifiers and
\* clauses are never lost between tokens.
TextIsUnambiguous ==
    passes = {} /\ IsBody(body) /\ origin \in TextBodies =>
        LET text == render_view(dialect, body, listed)
            shown == ShownBody(dialect, body, ~listed)
        IN \A rival \in Texts[dialect][listed] :
               Answered(text) /\ rival.text = text => rival.shown = shown

\* SQLite takes the arms of a recursive CTE bare only: a CTE that reads itself is refused or
\* written without the derived tables that wrap the operands of any other set operation.
RecursionIsNotHidden ==
    IsBody(body) /\ body.shape = "With" /\ ~dialect.parenthesized_arms =>
        \A cte \in ToSet(body.ctes) :
            LET text == CteDefinition(dialect, cte, body.recursive)
                reads == ReadByBody(dialect, {}, cte.body)
            IN body.recursive /\ [schema |-> <<>>, name |-> cte.name] \in reads /\ Answered(text)
                   => dialect.open_operand \notin ToSet(text)
=============================================================================
