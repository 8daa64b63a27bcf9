----------------------------- MODULE ViewServer -----------------------------
(***************************************************************************)
(* What a server makes of the names in a view body: the reference the      *)
(* canonicalization of ViewCanonical is compared with.  None of this is    *)
(* code of the repository; the rules are those the comments of ir.rs       *)
(* state as observed on the three servers, and those of their manuals.     *)
(*                                                                         *)
(* A standalone ORDER BY name is an output of the SELECT first and a       *)
(* column of a source after that.  Any other clause name is a column       *)
(* first; an output stands in for a standalone GROUP BY name everywhere,   *)
(* for a HAVING name or one inside a term only on MySQL and SQLite.        *)
(***************************************************************************)
EXTENDS ViewCanonical

Invalid == Node("Invalid", <<>>, <<>>)

\* A qualified column, spelled as the server compares it.
Spelled(dialect, column) == [column EXCEPT !.attrs[2] = dialect.fold[@]]

\* The bindings a CTE's body sees: a sibling it does not see leaves its name to what is outside.
ServerSees(dialect, recursive, i, j) ==
    CASE dialect.name = "sqlite" -> TRUE
      [] dialect.name = "postgres" -> j < i \/ recursive
      [] dialect.name = "mysql" -> j < i \/ (j = i /\ recursive)

ServerBodyScope(dialect, scope, with, i) ==
    LET seen(j) == ServerSees(dialect, with.recursive, i, j)
        circular(j) == j = i /\ ~with.recursive
        bind(acc, j) ==
            IF ~seen(j) THEN acc
            ELSE InsertCte(dialect, acc, with.ctes[j].name,
                           IF circular(j) THEN <<>> ELSE <<CteColumns(with.ctes[j])>>)
    IN FoldLeft(bind, scope, [j \in DOMAIN with.ctes |-> j])

ServerMainScope(dialect, scope, with) ==
    FoldLeft(LAMBDA acc, cte : InsertCte(dialect, acc, cte.name, <<CteColumns(cte)>>),
             scope, with.ctes)

\* The CTE an unqualified source names, if any.
ServerBinding(dialect, ctes, source) ==
    {c \in ctes : source.schema = <<>> /\ EqIdent(dialect, c.name, source.name)}

ServerColumns(dialect, truth, ctes, source) ==
    LET bound == ServerBinding(dialect, ctes, source)
    IN IF source.derived # <<>> THEN <<OutputNames(source.derived[1])>>
       ELSE IF bound # {} THEN (CHOOSE c \in bound : TRUE).columns
       ELSE IF Reference(source) \in DOMAIN truth THEN <<truth[Reference(source)]>>
       ELSE <<>>

\* The columns of the sources that a name denotes, one per source that has it.
ServerExposing(dialect, sources, name) ==
    {Column(s.alias, dialect.fold[name]) :
        s \in {t \in ToSet(sources) :
                  t.columns # <<>> /\ Matching(dialect, name, t.columns[1]) # <<>>}}

ServerColumn(dialect, sources, name) ==
    IF Cardinality(ServerExposing(dialect, sources, name)) = 1
    THEN CHOOSE c \in ServerExposing(dialect, sources, name) : TRUE ELSE Invalid

\* The name a SELECT item has in its own scope once rendered: its AS, or a plain column's name.
ItemNames(item, listed) ==
    IF ~listed THEN {item.output_name}
    ELSE IF item.internal_alias # <<>> THEN {item.internal_alias[1]}
    ELSE IF item.expr.tag = "Column" THEN {item.expr.attrs[2]}
    ELSE IF item.expr.tag = "BareColumn" THEN {item.expr.attrs[1]} ELSE {}

RECURSIVE Bound(_, _, _)

\* An expression that sees sources only.
Bound(dialect, sources, node) ==
    CASE node.tag = "BareColumn" -> ServerColumn(dialect, sources, node.attrs[1])
      [] node.tag = "Column" -> Spelled(dialect, node)
      [] OTHER -> [node EXCEPT !.kids = [i \in DOMAIN @ |-> Bound(dialect, sources, @[i])]]

\* The outputs of the SELECT that a clause name denotes.
OutputsNamed(dialect, sources, query, listed, name) ==
    {Bound(dialect, sources, item.expr) :
        item \in {i \in ToSet(query.projection) :
                     \E n \in ItemNames(i, listed) : EqIdent(dialect, n, name)}}

ServerName(dialect, sources, query, listed, name, clause, standalone) ==
    LET outputs == OutputsNamed(dialect, sources, query, listed, name)
        columns == ServerExposing(dialect, sources, name)
        output == IF Cardinality(outputs) = 1 THEN CHOOSE o \in outputs : TRUE ELSE Invalid
    IN IF standalone /\ clause = "order"
       THEN IF outputs # {} THEN output ELSE ServerColumn(dialect, sources, name)
       ELSE IF columns # {} THEN ServerColumn(dialect, sources, name)
       ELSE IF (standalone /\ clause = "group") \/ dialect.name # "postgres" THEN output
       ELSE Invalid

RECURSIVE ServerTerm(_, _, _, _, _, _, _)
ServerTerm(dialect, sources, query, listed, node, clause, standalone) ==
    CASE node.tag = "BareColumn" ->
            ServerName(dialect, sources, query, listed, node.attrs[1], clause, standalone)
      [] node.tag = "Column" -> Spelled(dialect, node)
      [] OTHER ->
            [node EXCEPT !.kids = [i \in DOMAIN @ |->
                ServerTerm(dialect, sources, query, listed, @[i], clause, FALSE)]]

RECURSIVE MeaningExpr(_, _, _, _), MeaningQuery(_, _, _, _, _), MeaningBody(_, _, _, _, _)

MeaningExpr(dialect, truth, ctes, node) ==
    [node EXCEPT
        !.sub = [i \in DOMAIN @ |-> MeaningQuery(dialect, truth, ctes, @[i], FALSE)],
        !.kids = [i \in DOMAIN @ |-> MeaningExpr(dialect, truth, ctes, @[i])]]

\* A SELECT with every name replaced by what it denotes and the aliases of its items forgotten.
MeaningQuery(dialect, truth, ctes, query, listed) ==
    LET sources ==
            [i \in DOMAIN query.sources |->
                [alias |-> query.sources[i].alias,
                 columns |-> ServerColumns(dialect, truth, ctes, query.sources[i])]]
        inner(node) == MeaningExpr(dialect, truth, ctes, node)
        bound(terms) == [i \in DOMAIN terms |-> Bound(dialect, sources, inner(terms[i]))]
        named(terms, clause) ==
            [i \in DOMAIN terms |->
                inner(ServerTerm(dialect, sources, query, listed, terms[i], clause, TRUE))]
        order == named(Exprs(query.order_by), "order")
    IN [query EXCEPT
           !.sources = [i \in DOMAIN @ |->
               [@[i] EXCEPT
                   !.derived = [j \in DOMAIN @ |-> MeaningBody(dialect, truth, ctes, @[j], FALSE)],
                   !.on = bound(@)]],
           !.projection = [i \in DOMAIN @ |->
               [@[i] EXCEPT !.internal_alias = <<>>,
                            !.expr = Bound(dialect, sources, inner(@))]],
           !.filter = bound(@),
           !.group_by = named(@, "group"),
           !.having = named(@, "having"),
           !.order_by = [i \in DOMAIN @ |-> [@[i] EXCEPT !.expr = order[i]]]]

MeaningBody(dialect, truth, ctes, body, listed) ==
    CASE body.shape = "Select" ->
            [body EXCEPT !.query = MeaningQuery(dialect, truth, ctes, @, listed)]
      [] body.shape = "Set" ->
            [body EXCEPT !.left = MeaningBody(dialect, truth, ctes, @, FALSE),
                         !.right = MeaningBody(dialect, truth, ctes, @, FALSE)]
      [] body.shape = "With" ->
            [body EXCEPT
                !.ctes = [i \in DOMAIN @ |->
                    [@[i] EXCEPT !.body =
                        MeaningBody(dialect, truth, ServerBodyScope(dialect, ctes, body, i), @,
                                    body.ctes[i].columns # <<>>)]],
                !.body = MeaningBody(dialect, truth, ServerMainScope(dialect, ctes, body), @,
                                     listed)]

\* What the server stores for a body: its names resolved, or Invalid where it refuses one.
Meaning(dialect, truth, body, listed) == MeaningBody(dialect, truth, {}, body, listed)

(***************************************************************************)
(* Everything in a body, found without the walks of ViewModel.             *)
(***************************************************************************)

RECURSIVE NodesUnder(_), NodesOfQuery(_), NodesOfBody(_)

NodesUnder(node) ==
    {node} \cup UNION {NodesUnder(kid) : kid \in ToSet(node.kids)}
           \cup UNION {NodesOfQuery(query) : query \in ToSet(node.sub)}

NodesOfQuery(query) ==
    UNION {NodesUnder(node) :
              node \in ToSet(Exprs(query.projection)) \cup ToSet(query.filter)
                       \cup ToSet(query.group_by) \cup ToSet(query.having)
                       \cup ToSet(Exprs(query.order_by))
                       \cup UNION {ToSet(s.on) : s \in ToSet(query.sources)}}
        \cup UNION {NodesOfBody(body) : body \in UNION {ToSet(s.derived) : s \in ToSet(query.sources)}}

NodesOfBody(body) ==
    CASE body.shape = "Select" -> NodesOfQuery(body.query)
      [] body.shape = "Set" ->
            NodesOfBody(body.left) \cup NodesOfBody(body.right)
                \cup UNION {NodesUnder(item.expr) : item \in ToSet(body.order_by)}
      [] body.shape = "With" ->
            NodesOfBody(body.body) \cup UNION {NodesOfBody(cte.body) : cte \in ToSet(body.ctes)}

RECURSIVE ReadByNode(_, _, _), ReadByQuery(_, _, _), ReadByBody(_, _, _)

ReadByNode(dialect, ctes, node) ==
    UNION {ReadByNode(dialect, ctes, kid) : kid \in ToSet(node.kids)}
        \cup UNION {ReadByQuery(dialect, ctes, query) : query \in ToSet(node.sub)}

\* The relations of the catalog a query reads: its named sources that no visible CTE binds.
ReadByQuery(dialect, ctes, query) ==
    LET named == {s \in ToSet(query.sources) : s.derived = <<>>}
        exprs == ToSet(Exprs(query.projection) \o query.filter \o ClauseTerms(query))
                     \cup UNION {ToSet(s.on) : s \in ToSet(query.sources)}
    IN {Reference(s) : s \in {t \in named : ServerBinding(dialect, ctes, t) = {}}}
           \cup UNION {ReadByBody(dialect, ctes, s.derived[1]) : s \in ToSet(query.sources) \ named}
           \cup UNION {ReadByNode(dialect, ctes, node) : node \in exprs}

ReadByBody(dialect, ctes, body) ==
    CASE body.shape = "Select" -> ReadByQuery(dialect, ctes, body.query)
      [] body.shape = "Set" ->
            ReadByBody(dialect, ctes, body.left) \cup ReadByBody(dialect, ctes, body.right)
      [] body.shape = "With" ->
            ReadByBody(dialect, ServerMainScope(dialect, ctes, body), body.body)
                \cup UNION {ReadByBody(dialect, ServerBodyScope(dialect, ctes, body, i),
                                       body.ctes[i].body) : i \in DOMAIN body.ctes}

RECURSIVE CteNames(_)

\* The names the WITH preludes at the top of a body bind.
CteNames(body) ==
    IF body.shape = "With" THEN {cte.name : cte \in ToSet(body.ctes)} \cup CteNames(body.body)
    ELSE {}
=============================================================================
