----------------------------- MODULE ViewRender -----------------------------
(***************************************************************************)
(* The SQL text of a view body (squealy-core/src/view_render.rs): a        *)
(* sequence of tokens, with a refusal in it where the dialect has none.    *)
(*                                                                         *)
(* A dialect's record says, beside what ViewCanonical needs: whether it    *)
(* divides integers fractionally, has ILIKE, concatenates with a pipe,     *)
(* calls substr, qualifies with a schema, takes ALL with every set         *)
(* operator, takes a parenthesized arm of a recursive CTE, what opens an   *)
(* operand of a set operation, and its names of a few functions.           *)
(***************************************************************************)
EXTENDS ViewModel

\* What a rendering without an answer holds.
Refused == <<"refused">>
Answered(text) == "refused" \notin ToSet(text)
Cat(parts) == FlattenSeq(parts)

\* Parts with a token between any two of them.
Joined(separator, parts) ==
    Cat(FlattenSeq([i \in DOMAIN parts |->
                       IF i = 1 THEN <<parts[i]>> ELSE << <<separator>>, parts[i]>>]))

Parens(part) == Cat(<< <<"(">>, part, <<")">> >>)
Call(name, part) == Cat(<< <<name>>, Parens(part)>>)
CastTo(type, part) == Call("CAST", Cat(<<part, <<"AS", type>> >>))

\* render_case_value, and the cast around a node with a result pin.
PinTo(pin, part) == IF pin = <<>> THEN part ELSE CastTo(pin[1], part)

\* Variant: an operator leaves its grouping to precedence.
InfixBare(left, tokens, right) == Cat(<<left, tokens, right>>)

\* Every operator carries its own parentheses.
Infix(left, tokens, right) == Parens(Cat(<<left, tokens, right>>))

AllLiterals(nodes) == \A i \in DOMAIN nodes : nodes[i].tag = "Literal"

FunctionName(dialect, func) ==
    IF func = "CHAR_LENGTH" THEN dialect.length ELSE func

RECURSIVE RenderExpr(_, _), RenderSelect(_, _, _), RenderBody(_, _, _), RenderSet(_, _, _),
          WithPrefix(_, _, _)

RenderAll(dialect, nodes) == [i \in DOMAIN nodes |-> RenderExpr(dialect, nodes[i])]

\* Arithmetic, comparison and the logical operators; integer division is made fractional.
RenderInfix(dialect, node) ==
    LET l == RenderExpr(dialect, node.kids[1])
        r == RenderExpr(dialect, node.kids[2])
    IN IF node.attrs[1] = "/" /\ dialect.float_division
       THEN Infix(CastTo("f64", l), <<"/">>, CastTo("f64", r))
       ELSE Infix(l, node.attrs, r)

\* LIKE, with the dialect's operator for the case-insensitive form.
RenderLike(dialect, node) ==
    LET like == IF node.attrs[1] = "i" /\ dialect.ilike THEN "ILIKE" ELSE "LIKE"
    IN Infix(RenderExpr(dialect, node.kids[1]), <<node.attrs[2], like>>,
             RenderExpr(dialect, node.kids[2]))

\* IN a list; there is no IN (), so an empty one becomes a constant truth value.
RenderIn(dialect, node) ==
    LET parts == RenderAll(dialect, node.kids)
    IN IF Len(parts) = 1
       THEN Parens(Cat(<<parts[1],
                         IF node.attrs[1] = "NOT" THEN <<"IS NOT NULL OR 1 = 1">>
                         ELSE <<"IS NOT NULL AND 1 = 0">> >>))
       ELSE Infix(parts[1], <<node.attrs[1], "IN">>, Parens(Joined(",", Tail(parts))))

RenderBetween(dialect, node) ==
    LET parts == RenderAll(dialect, node.kids)
    IN Infix(parts[1], <<node.attrs[1], "BETWEEN">>,
             Cat(<<parts[2], <<"AND">>, parts[3]>>))

\* A subquery always names its outputs.
RenderSubquery(dialect, node) ==
    LET query == Parens(RenderSelect(dialect, node.sub[1], TRUE))
    IN CASE node.tag = "ScalarSubquery" -> query
         [] node.tag = "Exists" -> Parens(Cat(<< <<node.attrs[1], "EXISTS">>, query>>))
         [] node.tag = "InSubquery" ->
                Infix(RenderExpr(dialect, node.kids[1]), <<node.attrs[1], "IN">>, query)

\* ORDER BY terms with their directions; a term without one writes none.
RenderOrders(dialect, nodes, directions) ==
    Joined(",", [i \in DOMAIN nodes |->
        Cat(<<RenderExpr(dialect, nodes[i]),
              IF directions[i] = "" THEN <<>> ELSE <<directions[i]>>>>)])

Clause(keyword, parts) == IF parts = <<>> THEN <<>>
                          ELSE Cat(<< <<keyword>>, Joined(",", parts)>>)

\* Attributes: the function and the frame; operands: arguments, partitions, orders.
RenderWindow(dialect, node) ==
    LET orders == node.kids[3]
        over == Cat(<<Clause("PARTITION BY", RenderAll(dialect, node.kids[2].kids)),
                      IF orders.kids = <<>> THEN <<>>
                      ELSE Cat(<< <<"ORDER BY">>,
                                 RenderOrders(dialect, orders.kids, orders.attrs)>>),
                      <<node.attrs[2]>> >>)
    IN PinTo(node.pin,
             Cat(<<Call(node.attrs[1], Joined(",", RenderAll(dialect, node.kids[1].kids))),
                   <<"OVER">>, Parens(over)>>))

\* Both forms of CASE: each branch value is cast on its own, an operand or a condition never.
RenderCase(dialect, node) ==
    LET part(kid) ==
            CASE kid.tag = "Operand" -> RenderExpr(dialect, kid.kids[1])
              [] kid.tag = "Arm" ->
                    Cat(<< <<"WHEN">>, RenderExpr(dialect, kid.kids[1]), <<"THEN">>,
                          PinTo(node.pin, RenderExpr(dialect, kid.kids[2]))>>)
              [] kid.tag = "Else" ->
                    Cat(<< <<"ELSE">>, PinTo(node.pin, RenderExpr(dialect, kid.kids[1]))>>)
    IN Cat(<< <<"CASE">>, Cat([i \in DOMAIN node.kids |-> part(node.kids[i])]),
             <<"END">> >>)

\* NULLIF and COALESCE cast their operands when no column among them anchors the type.
RenderAnchored(dialect, name, node) ==
    LET pin == IF AllLiterals(node.kids) THEN node.pin ELSE <<>>
    IN Call(name, Joined(",", [i \in DOMAIN node.kids |->
                                  PinTo(pin, RenderExpr(dialect, node.kids[i]))]))

\* Attributes: the function.  A concatenation propagates NULL, so it is a pipe where CONCAT does not.
RenderScalarFn(dialect, node) ==
    LET parts == RenderAll(dialect, node.kids)
    IN CASE node.attrs[1] = "CONCAT" /\ dialect.pipe -> Parens(Joined("||", parts))
         [] node.attrs[1] = "SUBSTRING" /\ Len(parts) = 3 /\ dialect.substr_call ->
                Call("substr", Joined(",", parts))
         [] node.attrs[1] = "SUBSTRING" /\ Len(parts) = 3 ->
                Call("SUBSTRING", Cat(<<parts[1], <<"FROM">>, parts[2], <<"FOR">>,
                                        parts[3]>>))
         [] OTHER -> Call(FunctionName(dialect, node.attrs[1]), Joined(",", parts))

\* EXTRACT and the fractional seconds; attributes: the field and the zone, or "".  The seconds of
\* EXTRACT are floored, the fractional ones are counted in microseconds where the dialect says so.
RenderExtract(dialect, node) ==
    LET e == RenderExpr(dialect, node.kids[1])
        zoned == IF node.attrs[2] = "" THEN e ELSE Infix(e, <<"AT TIME ZONE">>, <<node.attrs[2]>>)
        from(field, operand) == Call("EXTRACT", Cat(<< <<field, "FROM">>, operand>>))
    IN PinTo(node.pin,
           CASE node.tag = "ExtractSecond" /\ dialect.micro ->
                    Cat(<<from("SECOND_MICROSECOND", e), <<"/ 1000000.0">> >>)
             [] node.tag = "ExtractSecond" -> from("SECOND", e)
             [] node.attrs[1] = "SECOND" -> Call("FLOOR", from("SECOND", zoned))
             [] OTHER -> from(node.attrs[1], zoned))

RenderDateTrunc(dialect, node) ==
    Call("date_trunc", Joined(",", << <<node.attrs[1]>>, RenderExpr(dialect, node.kids[1])>>
                                      \o IF node.attrs[2] = "" THEN <<>>
                                         ELSE << <<node.attrs[2]>> >>))

RenderExpr(dialect, node) ==
    CASE node.tag = "Column" -> <<node.attrs[1], ".", node.attrs[2]>>
      [] node.tag \in {"BareColumn", "Literal", "Raw"} -> node.attrs
      [] node.tag = "DomainValue" -> <<"VALUE">>
      [] node.tag = "Now" -> <<dialect.now>>
      [] node.tag \in {"Binary", "Compare", "Logical"} -> RenderInfix(dialect, node)
      [] node.tag = "Not" -> Parens(Cat(<< <<"NOT">>, RenderExpr(dialect, node.kids[1])>>))
      [] node.tag = "IsNull" ->
            Parens(Cat(<<RenderExpr(dialect, node.kids[1]), <<"IS", node.attrs[1], "NULL">> >>))
      [] node.tag = "Cast" -> CastTo(node.attrs[1], RenderExpr(dialect, node.kids[1]))
      [] node.tag = "Aggregate" ->
            PinTo(node.pin, Call(node.attrs[1], Cat(<< <<node.attrs[2]>>,
                                                      RenderExpr(dialect, node.kids[1])>>)))
      [] node.tag = "Like" -> RenderLike(dialect, node)
      [] node.tag = "In" -> RenderIn(dialect, node)
      [] node.tag = "Between" -> RenderBetween(dialect, node)
      [] node.sub # <<>> -> RenderSubquery(dialect, node)
      [] node.tag = "Window" -> RenderWindow(dialect, node)
      [] node.tag \in {"Case", "SimpleCase"} -> RenderCase(dialect, node)
      [] node.tag = "Nullif" -> RenderAnchored(dialect, "NULLIF", node)
      [] node.tag = "Coalesce" -> RenderAnchored(dialect, "COALESCE", node)
      [] node.tag = "ScalarFn" -> RenderScalarFn(dialect, node)
      [] node.tag = "Function" -> Call(node.attrs[1], Joined(",", RenderAll(dialect, node.kids)))
      [] node.tag \in {"Extract", "ExtractSecond"} -> RenderExtract(dialect, node)
      [] node.tag = "DateTrunc" -> RenderDateTrunc(dialect, node)

-----------------------------------------------------------------------------

\* render_source and render_qualified: a schema only where the dialect has them.
RenderSource(dialect, source) ==
    Cat(<<IF source.derived # <<>> THEN Parens(RenderBody(dialect, source.derived[1], TRUE))
          ELSE IF source.schema # <<>> /\ dialect.qualify
          THEN <<source.schema[1], ".", source.name>>
          ELSE <<source.name>>,
          <<"AS", source.alias>> >>)

OrderLimit(dialect, order_by, limit, offset) ==
    Cat(<<IF order_by = <<>> THEN <<>>
          ELSE Cat(<< <<"ORDER BY">>,
                     RenderOrders(dialect, Exprs(order_by),
                                  [i \in DOMAIN order_by |-> order_by[i].direction])>>),
          IF limit = <<>> THEN <<>> ELSE <<"LIMIT", limit[1]>>,
          IF offset = <<>> THEN <<>> ELSE <<"OFFSET", offset[1]>> >>)

\* render_select: "aliased" names every output; otherwise a column list does, and a kept AS stays.
RenderSelect(dialect, query, aliased) ==
    LET item(i) ==
            Cat(<<RenderExpr(dialect, i.expr),
                  IF aliased THEN <<"AS", i.output_name>>
                  ELSE IF i.internal_alias # <<>> THEN <<"AS", i.internal_alias[1]>>
                  ELSE <<>> >>)
        source(s) ==
            Cat(<< <<s.kind>>, RenderSource(dialect, s),
                  IF s.on = <<>> THEN <<>>
                  ELSE Cat(<< <<"ON">>, RenderExpr(dialect, s.on[1])>>)>>)
    IN Cat(<<IF query.distinct THEN <<"SELECT", "DISTINCT">> ELSE <<"SELECT">>,
             Joined(",", [i \in DOMAIN query.projection |-> item(query.projection[i])]),
             Cat([i \in DOMAIN query.sources |-> source(query.sources[i])]),
             Clause("WHERE", RenderAll(dialect, query.filter)),
             Clause("GROUP BY", RenderAll(dialect, query.group_by)),
             Clause("HAVING", RenderAll(dialect, query.having)),
             OrderLimit(dialect, query.order_by, query.limit, query.offset)>>)

RECURSIVE LeftmostSelect(_), References(_, _)

LeftmostSelect(body) ==
    CASE body.shape = "Select" -> body.query
      [] body.shape = "Set" -> LeftmostSelect(body.left)
      [] body.shape = "With" -> LeftmostSelect(body.body)

\* What a compound's ORDER BY may name: an output of its leftmost SELECT, or its ordinal.
NamesOutput(set, node) ==
    LET outputs == LeftmostSelect(set.left).projection
    IN \/ node.tag = "BareColumn"
              /\ node.attrs[1] \in {outputs[i].output_name : i \in DOMAIN outputs}
       \/ node.tag = "Literal" /\ node.attrs[1] \in {ToString(i) : i \in DOMAIN outputs}

Tailless(body) ==
    /\ body.shape = "Select"
    /\ body.query.order_by = <<>> /\ body.query.limit = <<>> /\ body.query.offset = <<>>

\* render_recursive_arm: bare when it has no tail of its own, parenthesized or refused when it has.
RecursiveArm(dialect, arm) ==
    IF Tailless(arm) THEN RenderBody(dialect, arm, TRUE)
    ELSE IF dialect.parenthesized_arms THEN Parens(RenderBody(dialect, arm, TRUE))
    ELSE Refused

\* render_set_operand: one operand, wrapped as the dialect wraps one or as an arm of a recursion.
Operand(dialect, body, recursive) ==
    IF recursive THEN RecursiveArm(dialect, body)
    ELSE Cat(<< <<dialect.open_operand>>, RenderBody(dialect, body, TRUE), <<")">> >>)

\* render_set: refused for an operator the dialect lacks and for an ORDER BY of no output.
RenderSet(dialect, set, recursive) ==
    IF \/ set.all /\ set.op # "UNION" /\ ~dialect.all_sets
       \/ \E i \in DOMAIN set.order_by : ~NamesOutput(set, set.order_by[i].expr)
    THEN Refused
    ELSE Cat(<<Operand(dialect, set.left, recursive),
               IF set.all THEN <<set.op, "ALL">> ELSE <<set.op>>,
               Operand(dialect, set.right, recursive),
               OrderLimit(dialect, set.order_by, set.limit, set.offset)>>)

RenderBody(dialect, body, aliased) ==
    CASE body.shape = "Select" -> RenderSelect(dialect, body.query, aliased)
      [] body.shape = "Set" -> RenderSet(dialect, body, FALSE)
      [] body.shape = "With" ->
            Cat(<<WithPrefix(dialect, body.recursive, body.ctes),
                  RenderBody(dialect, body.body, aliased)>>)

\* body_references: a source of the very name, without a schema, where no inner WITH rebinds it.
References(body, name) ==
    CASE body.shape = "Select" ->
            \E i \in DOMAIN body.query.sources :
                LET s == body.query.sources[i]
                IN IF s.derived # <<>> THEN References(s.derived[1], name)
                   ELSE s.schema = <<>> /\ s.name = name
      [] body.shape = "Set" -> References(body.left, name) \/ References(body.right, name)
      [] body.shape = "With" ->
            /\ \A i \in DOMAIN body.ctes : body.ctes[i].name # name
            /\ \/ \E i \in DOMAIN body.ctes : References(body.ctes[i].body, name)
               \/ References(body.body, name)

\* Variant: a CTE is recursive only if its body is the set operation itself.
SelfReferentialSet(cte) == cte.body.shape = "Set" /\ References(cte.body, cte.name)

SelfReferential(cte) == References(cte.body, cte.name)

RECURSIVE RecursiveSetBody(_, _)

\* render_recursive_cte_set_body: the UNION behind any inner WITH; nothing else can recurse.
RecursiveSetBody(dialect, body) ==
    CASE body.shape = "With" ->
            Cat(<<WithPrefix(dialect, body.recursive, body.ctes),
                  RecursiveSetBody(dialect, body.body)>>)
      [] body.shape = "Set" ->
            IF body.op = "UNION" THEN RenderSet(dialect, body, TRUE) ELSE Refused
      [] body.shape = "Select" -> Refused

\* render_cte_definition_body: the arms of a recursion are not wrapped like other operands.
CteDefinition(dialect, cte, recursive) ==
    IF recursive /\ SelfReferential(cte) THEN RecursiveSetBody(dialect, cte.body)
    ELSE RenderBody(dialect, cte.body, cte.columns = <<>>)

\* render_with_prefix.
WithPrefix(dialect, recursive, ctes) ==
    LET columns(cte) == IF cte.columns = <<>> THEN <<>>
                        ELSE Parens(Joined(",", [i \in DOMAIN cte.columns |-> <<cte.columns[i]>>]))
    IN IF ctes = <<>> THEN <<>>
       ELSE Cat(<<IF recursive THEN <<"WITH", "RECURSIVE">> ELSE <<"WITH">>,
                  Joined(",", [i \in DOMAIN ctes |->
                      Cat(<< <<ctes[i].name>>, columns(ctes[i]), <<"AS">>,
                            Parens(CteDefinition(dialect, ctes[i], recursive))>>)])>>)

\* The statement body of CREATE VIEW: a column list names the outputs when there is one.
render_view(dialect, body, listed) == RenderBody(dialect, body, ~listed)
=============================================================================
