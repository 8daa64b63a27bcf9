---------------------------- MODULE ExprNormal ----------------------------
(***************************************************************************)
(* The normal form of a CHECK's or a partial index's expression            *)
(* (squealy-core/src/ir.rs, normalize_expr and                             *)
(* fold_like_case_insensitivity), by which two spellings of one constraint *)
(* compare equal, and what such an expression evaluates to.                *)
(***************************************************************************)
EXTENDS ViewModel, Integers

Compare(op, left, right) == Node("Compare", <<op>>, <<left, right>>)
Logical(op, left, right) == Node("Logical", <<op>>, <<left, right>>)

\* The shapes both passes recurse into; any other is left as it is, its operands included.
Recursed == {"Binary", "Compare", "Not", "IsNull", "Like", "In", "ScalarFn", "Function", "Cast"}

\* Variant: the bounds of a NOT BETWEEN are both asked for.
ExpandBetweenAnd(negated, operand, low, high) ==
    IF negated THEN Logical("AND", Compare("<", operand, low), Compare(">", operand, high))
    ELSE Logical("AND", Compare(">=", operand, low), Compare("<=", operand, high))

\* BETWEEN is its pair of comparisons, over the operands already normalized.
ExpandBetween(negated, operand, low, high) ==
    IF negated THEN Logical("OR", Compare("<", operand, low), Compare(">", operand, high))
    ELSE Logical("AND", Compare(">=", operand, low), Compare("<=", operand, high))

RECURSIVE SpliceSameOp(_, _), NormalizeExpr(_), FoldLike(_)

\* splice_same_op: the terms of a chain of one operator, in order.
SpliceSameOp(op, node) ==
    IF node.tag = "Logical" /\ node.attrs[1] = op
    THEN SpliceSameOp(op, node.kids[1]) \o SpliceSameOp(op, node.kids[2]) ELSE <<node>>

\* normalize_expr: operands first, chains of one operator folded from the left, names in lower case.
NormalizeExpr(node) ==
    LET kids == [i \in DOMAIN node.kids |-> NormalizeExpr(node.kids[i])]
        terms == SpliceSameOp(node.attrs[1], kids[1]) \o SpliceSameOp(node.attrs[1], kids[2])
        lower == IF node.attrs = <<"LOWER">> THEN <<"lower">> ELSE node.attrs
    IN CASE node.tag = "Between" ->
               ExpandBetween(node.attrs[1] = "NOT", kids[1], kids[2], kids[3])
         [] node.tag = "Logical" ->
               FoldLeft(LAMBDA acc, term : Logical(node.attrs[1], acc, term), Head(terms), Tail(terms))
         [] node.tag = "Function" -> [node EXCEPT !.attrs = lower, !.kids = kids]
         [] node.tag \in Recursed \ {"Function"} -> [node EXCEPT !.kids = kids]
         [] OTHER -> node

\* fold_like_case_insensitivity, for a dialect with one LIKE only.
FoldLike(node) ==
    LET kids == [i \in DOMAIN node.kids |-> FoldLike(node.kids[i])]
    IN CASE node.tag = "Like" -> [node EXCEPT !.attrs[1] = "", !.kids = kids]
         [] node.tag \in Recursed \cup {"Between", "Logical"} -> [node EXCEPT !.kids = kids]
         [] OTHER -> node

(***************************************************************************)
(* What a server evaluates: three-valued logic over small numbers.         *)
(***************************************************************************)

Null == -1
Truth3(b) == IF b THEN 1 ELSE 0
Not3(a) == IF a = Null THEN Null ELSE 1 - a
And3(a, b) == IF a = 0 \/ b = 0 THEN 0 ELSE IF a = Null \/ b = Null THEN Null ELSE 1
Or3(a, b) == Not3(And3(Not3(a), Not3(b)))
Compare3(op, a, b) ==
    IF a = Null \/ b = Null THEN Null
    ELSE Truth3(CASE op = "=" -> a = b [] op = "<" -> a < b [] op = ">" -> a > b
                  [] op = "<=" -> a <= b [] op = ">=" -> a >= b)
Negated3(node, a) == IF node.attrs[Len(node.attrs)] = "NOT" THEN Not3(a) ELSE a

RECURSIVE Value(_, _, _)

\* A function, a cast and a concatenation stand for any strict function: their first operand.
Value(ilike, env, node) ==
    LET v == [i \in DOMAIN node.kids |-> Value(ilike, env, node.kids[i])]
    IN CASE node.tag = "BareColumn" -> env[node.attrs[1]]
         [] node.tag = "Literal" -> IF node.attrs[1] = "0" THEN 0 ELSE 1
         [] node.tag = "Compare" -> Compare3(node.attrs[1], v[1], v[2])
         [] node.tag = "Logical" /\ node.attrs[1] = "AND" -> And3(v[1], v[2])
         [] node.tag = "Logical" /\ node.attrs[1] = "OR" -> Or3(v[1], v[2])
         [] node.tag = "Not" -> Not3(v[1])
         [] node.tag = "IsNull" -> Negated3(node, Truth3(v[1] = Null))
         [] node.tag = "Between" ->
               Negated3(node, And3(Compare3(">=", v[1], v[2]), Compare3("<=", v[1], v[3])))
         [] node.tag = "In" ->
               Negated3(node, FoldLeft(LAMBDA acc, item : Or3(acc, Compare3("=", v[1], item)),
                                       0, Tail(v)))
         [] node.tag = "Like" ->
               Negated3(node, Compare3(IF ilike /\ node.attrs[1] = "i" THEN "<=" ELSE "=", v[1], v[2]))
         [] node.tag = "Coalesce" -> IF v[1] = Null THEN v[2] ELSE v[1]
         [] OTHER -> v[1]

\* Nothing a pass still has to do where it reaches.
RECURSIVE Settled(_)
Settled(node) ==
    CASE node.tag = "Between" -> FALSE
      [] node.tag = "Logical" ->
            /\ Settled(node.kids[1]) /\ Settled(node.kids[2])
            /\ ~(node.kids[2].tag = "Logical" /\ node.kids[2].attrs = node.attrs)
      [] node.tag \in Recursed -> \A i \in DOMAIN node.kids : Settled(node.kids[i])
      [] OTHER -> TRUE
=============================================================================
