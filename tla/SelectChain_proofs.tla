------------------------- MODULE SelectChain_proofs -------------------------
(***************************************************************************)
(* What the types of the SELECT builder promise about its statements, for  *)
(* any tables, any menus of methods and any number of calls.               *)
(*                                                                         *)
(* What the traits say of an expression is true of its text (Sound), and   *)
(* every constructor keeps that, whatever its operands.  What the          *)
(* associated types of a chain say of its links is true (SummaryInv,       *)
(* RowsInv), and every call keeps that, in any order.  The final select    *)
(* compares the two.                                                       *)
(*                                                                         *)
(* Then comes the order of calls: each call changes each type by           *)
(* itself (After), so that two calls of different clauses commute, and a   *)
(* chain's types are those of the replay of its calls.                     *)
(***************************************************************************)
EXTENDS SelectChain, Flattening_proofs, TLAPS

-----------------------------------------------------------------------------
(* What the traits say of an expression.                                   *)

\* A constant has neither columns nor aggregates, a "column" has no aggregate, an "aggregate" no
\* bare column, and a free one neither; what counts as no aggregate has no window either; a window
\* has no ExprColumns, except left of IN (subquery).
Sound(a) ==
    /\ a.term \in {"constant", "column", "aggregate", "none"}
    /\ a.columns \in {"free", "bare", "none"}
    /\ a.term \in {"constant", "column"} => ~ a.aggregate
    /\ a.term \in {"constant", "aggregate"} => ~ a.bare
    /\ a.columns = "free" => ~ a.bare
    /\ a.columns # "none" /\ ~ WindowInHaving => ~ a.window
    /\ a.nonAggregate => ~ a.aggregate /\ ~ a.window
    /\ a.overRef => a.window
    /\ ~ a.misplaced

\* An expression also decodes NULL where SQL can make it NULL.
Decodes(e) == e.null => e.kind.decodesNull

LEMMA NodeIs ==
    ASSUME NEW op, NEW kids
    PROVE  /\ Node(op, kids, kids).term = CombineTerm({kids[i].term : i \in DOMAIN kids})
           /\ Node(op, kids, kids).columns = CombineColumns({kids[i].columns : i \in DOMAIN kids})
           /\ Node(op, kids, kids).nonAggregate <=> \A i \in DOMAIN kids : kids[i].nonAggregate
           /\ Node(op, kids, kids).overRef <=> \E i \in DOMAIN kids : kids[i].overRef
           /\ Node(op, kids, kids).bare <=> \E i \in DOMAIN kids : kids[i].bare
           /\ Node(op, kids, kids).aggregate <=> \E i \in DOMAIN kids : kids[i].aggregate
           /\ Node(op, kids, kids).window <=> \E i \in DOMAIN kids : kids[i].window
           /\ Node(op, kids, kids).misplaced <=> \E i \in DOMAIN kids : kids[i].misplaced
BY DEF Node

\* A node that only combines its operands says what is true if they do.
LEMMA NodeSound ==
    ASSUME NEW op, NEW kids, \A i \in DOMAIN kids : Sound(kids[i])
    PROVE  Sound(Node(op, kids, kids))
<1> DEFINE n == Node(op, kids, kids)
           terms == {kids[i].term : i \in DOMAIN kids}
           columns == {kids[i].columns : i \in DOMAIN kids}
<1>1. n.term = CombineTerm(terms) /\ n.columns = CombineColumns(columns)
  BY NodeIs
<1>2. n.term \in {"constant", "column", "aggregate", "none"} /\ n.columns \in {"free", "bare", "none"}
  BY <1>1 DEF CombineTerm, CombineColumns
<1>3. n.term \in {"constant", "column"} => ~ n.aggregate
  <2>1. n.term \in {"constant", "column"} => terms \subseteq {"constant", "column"}
    BY <1>1 DEF CombineTerm
  <2>2. \A i \in DOMAIN kids : kids[i].term \in {"constant", "column"} => ~ kids[i].aggregate
    BY DEF Sound
  <2> QED BY <2>1, <2>2, NodeIs
<1>4. n.term \in {"constant", "aggregate"} => ~ n.bare
  <2>1. n.term \in {"constant", "aggregate"} => terms \subseteq {"constant", "aggregate"}
    BY <1>1 DEF CombineTerm
  <2>2. \A i \in DOMAIN kids : kids[i].term \in {"constant", "aggregate"} => ~ kids[i].bare
    BY DEF Sound
  <2> QED BY <2>1, <2>2, NodeIs
<1>5. n.columns = "free" => ~ n.bare
  <2>1. n.columns = "free" => \A i \in DOMAIN kids : kids[i].columns \notin {"none", "bare"}
    BY <1>1 DEF CombineColumns
  <2>2. \A i \in DOMAIN kids : kids[i].columns \notin {"none", "bare"} => ~ kids[i].bare
    BY DEF Sound
  <2> QED BY <2>1, <2>2, NodeIs
<1>6. n.columns # "none" /\ ~ WindowInHaving => ~ n.window
  <2>1. n.columns # "none" => \A i \in DOMAIN kids : kids[i].columns # "none"
    BY <1>1 DEF CombineColumns
  <2>2. \A i \in DOMAIN kids : kids[i].columns # "none" /\ ~ WindowInHaving => ~ kids[i].window
    BY DEF Sound
  <2> QED BY <2>1, <2>2, NodeIs
<1>7. n.nonAggregate => ~ n.aggregate /\ ~ n.window
  <2>1. \A i \in DOMAIN kids : kids[i].nonAggregate => ~ kids[i].aggregate /\ ~ kids[i].window
    BY DEF Sound
  <2> QED BY <2>1, NodeIs
<1>8. n.overRef => n.window
  <2>1. \A i \in DOMAIN kids : kids[i].overRef => kids[i].window
    BY DEF Sound
  <2> QED BY <2>1, NodeIs
<1>9. ~ n.misplaced
  <2>1. \A i \in DOMAIN kids : ~ kids[i].misplaced
    BY DEF Sound
  <2> QED BY <2>1, NodeIs
<1> QED BY <1>2, <1>3, <1>4, <1>5, <1>6, <1>7, <1>8, <1>9 DEF Sound

LEMMA NodeOf0 ==
    ASSUME NEW op
    PROVE  /\ Sound(Node(op, <<>>, <<>>))
           /\ Node(op, <<>>, <<>>).nonAggregate
           /\ ~ Node(op, <<>>, <<>>).bare
           /\ ~ Node(op, <<>>, <<>>).aggregate
           /\ ~ Node(op, <<>>, <<>>).window
           /\ Node(op, <<>>, <<>>).term = "constant"
<1>1. DOMAIN << >> = {}
  OBVIOUS
<1>2. Sound(Node(op, <<>>, <<>>))
  BY <1>1, NodeSound
<1>3. Node(op, <<>>, <<>>).term = "constant"
  BY <1>1, NodeIs DEF CombineTerm
<1> QED BY <1>1, <1>2, <1>3, NodeIs

LEMMA NodeOf1 ==
    ASSUME NEW op, NEW a, Sound(a)
    PROVE  /\ Sound(Node(op, <<a>>, <<a>>))
           /\ Node(op, <<a>>, <<a>>).nonAggregate <=> a.nonAggregate
<1>1. DOMAIN <<a>> = {1} /\ <<a>>[1] = a
  OBVIOUS
<1>2. Sound(Node(op, <<a>>, <<a>>))
  BY <1>1, NodeSound
<1>3. Node(op, <<a>>, <<a>>).nonAggregate <=> \A i \in DOMAIN <<a>> : <<a>>[i].nonAggregate
  BY NodeIs
<1> QED BY <1>1, <1>2, <1>3

LEMMA NodeOf2 ==
    ASSUME NEW op, NEW a, NEW b, Sound(a), Sound(b)
    PROVE  /\ Sound(Node(op, <<a, b>>, <<a, b>>))
           /\ Node(op, <<a, b>>, <<a, b>>).nonAggregate <=> a.nonAggregate /\ b.nonAggregate
<1>1. DOMAIN <<a, b>> = {1, 2} /\ <<a, b>>[1] = a /\ <<a, b>>[2] = b
  OBVIOUS
<1>2. Sound(Node(op, <<a, b>>, <<a, b>>))
  BY <1>1, NodeSound
<1>3. Node(op, <<a, b>>, <<a, b>>).nonAggregate
        <=> \A i \in DOMAIN <<a, b>> : <<a, b>>[i].nonAggregate
  BY NodeIs
<1> QED BY <1>1, <1>2, <1>3

LEMMA NodeOf3 ==
    ASSUME NEW op, NEW a, NEW b, NEW c, Sound(a), Sound(b), Sound(c)
    PROVE  Sound(Node(op, <<a, b, c>>, <<a, b, c>>))
<1>1. DOMAIN <<a, b, c>> = {1, 2, 3}
  OBVIOUS
<1> QED BY <1>1, NodeSound

\* A node over a list of operands and a last one.
LEMMA NodeOfList ==
    ASSUME NEW op, NEW K, NEW kids \in Seq(K), \A a \in K : Sound(a)
    PROVE  Sound(Node(op, kids, kids))
<1>1. \A i \in DOMAIN kids : kids[i] \in K
  OBVIOUS
<1> QED BY <1>1, NodeSound

-----------------------------------------------------------------------------
(* The constructors, one lemma for each way an AST's impls deviate from    *)
(* those of Node.  What a constructor's bounds demand is its assumption.   *)

LEMMA ColumnSound ==
    ASSUME NEW alias, NEW column
    PROVE  /\ Sound(ColumnExprAst(alias, column))
           /\ ColumnExprAst(alias, column).nonAggregate
           /\ ColumnExprAst(alias, column).columns = "bare"
<1> DEFINE a == ColumnExprAst(alias, column)
<1> HIDE DEF a
<1>1. DOMAIN << >> = {}
  OBVIOUS
<1>2. a.term = "column" /\ a.columns = "bare" /\ a.nonAggregate
  BY <1>1 DEF a, ColumnExprAst, Node
<1>3. ~ a.aggregate /\ ~ a.window /\ ~ a.overRef /\ ~ a.misplaced
  BY <1>1 DEF a, ColumnExprAst, Node
<1>4. Sound(a)
  BY <1>2, <1>3 DEF Sound
<1> QED BY <1>2, <1>4 DEF a

LEMMA ParamSound ==
    ASSUME NEW p
    PROVE  /\ Sound(ParamExprAst(p))
           /\ ParamExprAst(p).nonAggregate
<1> DEFINE a == ParamExprAst(p)
           n == Node("param", <<>>, <<>>)
<1> HIDE DEF a
<1>1. /\ a.term = n.term /\ a.columns = n.columns
      /\ a.nonAggregate = n.nonAggregate /\ a.overRef = n.overRef
      /\ a.bare = n.bare /\ a.aggregate = n.aggregate /\ a.window = n.window
      /\ a.misplaced = n.misplaced
  BY DEF a, ParamExprAst, Node
<1>2. Sound(n) /\ n.nonAggregate
  BY NodeOf0
<1> QED BY <1>1, <1>2 DEF a, Sound

\* The operand of an aggregate is a NonAggregateAst: neither an aggregate nor a window.
LEMMA AggregateSound ==
    ASSUME NEW func, NEW operand, Sound(operand), operand.nonAggregate
    PROVE  /\ Sound(AggregateExprAst(func, operand))
           /\ ~ AggregateExprAst(func, operand).window
<1> DEFINE a == AggregateExprAst(func, operand)
<1> HIDE DEF a
<1>1. DOMAIN <<operand>> = {1} /\ <<operand>>[1] = operand
  OBVIOUS
<1>2. ~ operand.aggregate /\ ~ operand.window /\ ~ operand.overRef /\ ~ operand.misplaced
  BY DEF Sound
<1>3. a.term = "aggregate" /\ a.columns = "free"
  BY DEF a, AggregateExprAst, Node
<1>4. ~ a.nonAggregate /\ ~ a.bare
  BY DEF a, AggregateExprAst, Node
<1>5. ~ a.window /\ ~ a.overRef
  BY <1>1, <1>2 DEF a, AggregateExprAst, Node
<1>6. ~ a.misplaced
  <2> DEFINE n == Node(func, <<operand>>, <<operand>>)
  <2>1. ~ n.misplaced
    BY <1>1, <1>2, NodeIs
  <2>2. "misplaced" \in DOMAIN n
    BY DEF Node
  <2> HIDE DEF n
  <2>3. a.misplaced = (n.misplaced \/ operand.aggregate \/ operand.window)
    BY <2>2 DEF a, n, AggregateExprAst
  <2> QED BY <1>2, <2>1, <2>3
<1>7. Sound(a)
  BY <1>3, <1>4, <1>5, <1>6 DEF Sound
<1> QED BY <1>5, <1>7 DEF a

\* Operand, partitions and orders of a window are NonAggregateAsts.
LEMMA WindowSound ==
    ASSUME NEW func, NEW K, NEW operands \in Seq(K), NEW partitions \in Seq(K), NEW orders \in Seq(K),
           \A a \in K : Sound(a) /\ a.nonAggregate
    PROVE  Sound(WindowExprAst(func, operands, partitions, orders))
<1> DEFINE kids == operands \o WindowList(partitions, orders)
           w == WindowExprAst(func, operands, partitions, orders)
<1>1. kids \in Seq(K)
  BY DEF WindowList
<1>2. \A i \in DOMAIN kids : kids[i] \in K
  BY <1>1
<1>3. \A i \in DOMAIN kids : Sound(kids[i]) /\ kids[i].nonAggregate
  BY <1>2
<1>4. \A i \in DOMAIN kids :
        ~ kids[i].aggregate /\ ~ kids[i].window /\ ~ kids[i].misplaced
  BY <1>3 DEF Sound
<1>5. /\ w.term = "column" /\ w.columns = "none" /\ w.window
      /\ ~ w.nonAggregate
  BY DEF WindowExprAst, Node
<1>6. ~ w.aggregate
  BY <1>4 DEF WindowExprAst, Node
<1>7. ~ w.misplaced
  BY <1>4 DEF WindowExprAst, Node
<1> HIDE DEF w
<1>8. Sound(w)
  BY <1>5, <1>6, <1>7 DEF Sound
<1> QED BY <1>8 DEF w

LEMMA NamedWindowSound == Sound(RowNumberOverRef.ast)
<1> DEFINE w == RowNumberOverRef.ast
<1>1. DOMAIN << >> = {}
  OBVIOUS
<1>2. /\ w.term = "column" /\ w.columns = "none" /\ w.window
      /\ ~ w.nonAggregate
  BY DEF RowNumberOverRef, Expr, NamedWindowExprAst, Node
<1>3. ~ w.aggregate /\ ~ w.misplaced
  BY <1>1 DEF RowNumberOverRef, Expr, NamedWindowExprAst, Node
<1> HIDE DEF w
<1>4. Sound(w)
  BY <1>2, <1>3 DEF Sound
<1> QED BY <1>4 DEF w

\* A subquery is a scope of its own: nothing of what is in it shows outside.
LEMMA SubquerySound ==
    ASSUME NEW op, NEW s
    PROVE  /\ Sound(SubqueryAst(op, s))
           /\ ~ SubqueryAst(op, s).bare /\ ~ SubqueryAst(op, s).aggregate
           /\ ~ SubqueryAst(op, s).window /\ ~ SubqueryAst(op, s).overRef
           /\ ~ SubqueryAst(op, s).misplaced
<1> DEFINE a == SubqueryAst(op, s)
           n == Node(op, <<>>, <<>>)
<1> HIDE DEF a
<1>1. /\ a.term = n.term /\ a.columns = n.columns
      /\ a.nonAggregate = n.nonAggregate /\ a.overRef = n.overRef
      /\ a.bare = n.bare /\ a.aggregate = n.aggregate /\ a.window = n.window
      /\ a.misplaced = n.misplaced
  BY DEF a, SubqueryAst, Node
<1>2. Sound(n) /\ ~ n.bare /\ ~ n.aggregate /\ ~ n.window
  BY NodeOf0
<1>3. ~ n.overRef /\ ~ n.misplaced
  BY <1>2 DEF Sound
<1> QED BY <1>1, <1>2, <1>3 DEF a, Sound

\* What an AST says when it is classified as a column and shows no aggregate or window.
LEMMA ScopedSound ==
    ASSUME NEW op, NEW s
    PROVE  Sound(ScalarSubqueryExprAst(s)) /\ Sound(ExistsPredicateAst(s))
<1>1. Sound(ScalarSubqueryExprAst(s))
  <2> DEFINE a == ScalarSubqueryExprAst(s)
             n == SubqueryAst("scalar", s)
  <2> HIDE DEF a
  <2>1. /\ a.term = "column" /\ a.columns = "none" /\ a.overRef = n.overRef
        /\ a.bare = n.bare /\ a.aggregate = n.aggregate /\ a.window = n.window
        /\ a.misplaced = n.misplaced
    BY DEF a, ScalarSubqueryExprAst, SubqueryAst, Node
  <2> QED BY <2>1, SubquerySound DEF a, Sound
<1>2. Sound(ExistsPredicateAst(s))
  <2> DEFINE a == ExistsPredicateAst(s)
             n == SubqueryAst("exists", s)
  <2> HIDE DEF a
  <2>1. /\ a.term = "column" /\ a.columns = "bare" /\ a.overRef = n.overRef
        /\ a.bare = n.bare /\ a.aggregate = n.aggregate /\ a.window = n.window
        /\ a.misplaced = n.misplaced
    BY DEF a, ExistsPredicateAst, SubqueryAst, Node
  <2> QED BY <2>1, SubquerySound DEF a, Sound
<1> QED BY <1>1, <1>2

\* operand IN (subquery): PredicateColumns does not ask for the operand's ExprColumns, so here
\* alone a window may hide.
LEMMA InSubquerySound ==
    ASSUME NEW operand, NEW s, Sound(operand), WindowInHaving \/ ~ operand.window
    PROVE  Sound(InSubqueryPredicateAst(operand, s))
<1> DEFINE right == SubqueryAst("in_subquery", s)
           kids == <<operand, right>>
           n == Node("in", kids, kids)
           a == InSubqueryPredicateAst(operand, s)
<1>1. Sound(right) /\ ~ right.bare /\ ~ right.aggregate /\ ~ right.window
  BY SubquerySound
<1>2. Sound(n)
  BY <1>1, NodeOf2
<1>3. DOMAIN kids = {1, 2} /\ kids[1] = operand /\ kids[2] = right
  OBVIOUS
<1>4. /\ n.bare <=> operand.bare
      /\ n.aggregate <=> operand.aggregate
      /\ n.window <=> operand.window
  <2>1. /\ n.bare <=> \E i \in DOMAIN kids : kids[i].bare
        /\ n.aggregate <=> \E i \in DOMAIN kids : kids[i].aggregate
        /\ n.window <=> \E i \in DOMAIN kids : kids[i].window
    BY NodeIs
  <2> QED BY <1>1, <1>3, <2>1
<1>5. /\ a.term = CombineTerm({operand.term, "column"}) /\ a.columns = "bare"
      /\ a.nonAggregate = n.nonAggregate /\ a.overRef = n.overRef
      /\ a.bare = n.bare /\ a.aggregate = n.aggregate /\ a.window = n.window
      /\ a.misplaced = n.misplaced
  BY DEF InSubqueryPredicateAst, Node
<1> HIDE DEF n, a
<1>6. /\ a.term \in {"column", "none"}
      /\ a.term = "column" => operand.term \in {"constant", "column"}
  BY <1>5 DEF CombineTerm
<1>7. a.term = "column" => ~ a.aggregate
  BY <1>4, <1>5, <1>6 DEF Sound
<1>8. ~ WindowInHaving => ~ a.window
  BY <1>4, <1>5
<1>9. Sound(a)
  BY <1>2, <1>5, <1>6, <1>7, <1>8 DEF Sound
<1> QED BY <1>9 DEF a

LEMMA ArmsAreAsts ==
    ASSUME NEW arms, Len(arms) \in Nat, NEW K,
           \A i \in 1 .. Len(arms) : arms[i].when \in K /\ arms[i].then.ast \in K
    PROVE  CaseArms(arms) \in Seq(K)
<1>1. \A k \in 1 .. 2 * Len(arms) :
        IF k % 2 = 1 THEN (k + 1) \div 2 \in 1 .. Len(arms) ELSE k \div 2 \in 1 .. Len(arms)
  OBVIOUS
<1>2. \A k \in 1 .. 2 * Len(arms) :
        (IF k % 2 = 1 THEN arms[(k + 1) \div 2].when ELSE arms[k \div 2].then.ast) \in K
  BY <1>1
<1>3. CaseArms(arms) \in [1 .. 2 * Len(arms) -> K]
  BY <1>2 DEF CaseArms
<1>4. 2 * Len(arms) \in Nat
  OBVIOUS
<1> QED BY <1>3, <1>4

\* CASE: its arms, each a predicate and a value, and the ELSE.
LEMMA CaseSound ==
    ASSUME NEW arms, NEW else, Len(arms) \in Nat, Sound(else),
           \A i \in 1 .. Len(arms) : Sound(arms[i].when) /\ Sound(arms[i].then.ast)
    PROVE  Sound(CaseExprAst(arms, else))
<1> DEFINE K == {arms[i].when : i \in 1 .. Len(arms)} \cup {arms[i].then.ast : i \in 1 .. Len(arms)}
                \cup {else}
           kids == CaseArms(arms) \o <<else>>
<1>1. \A a \in K : Sound(a)
  OBVIOUS
<1>2. CaseArms(arms) \in Seq(K)
  BY ArmsAreAsts
<1>3. kids \in Seq(K)
  BY <1>2
<1>4. Sound(Node("case", kids, kids))
  BY <1>1, <1>3, NodeOfList
<1> QED BY <1>4 DEF CaseExprAst

\* The simple CASE has an operand before its arms.
LEMMA SimpleCaseSound ==
    ASSUME NEW operand, NEW arms, NEW else, Len(arms) \in Nat, Sound(operand), Sound(else),
           \A i \in 1 .. Len(arms) : Sound(arms[i].when) /\ Sound(arms[i].then.ast)
    PROVE  Sound(SimpleCaseExprAst(operand, arms, else))
<1> DEFINE K == {arms[i].when : i \in 1 .. Len(arms)} \cup {arms[i].then.ast : i \in 1 .. Len(arms)}
                \cup {else, operand}
           kids == <<operand>> \o SimpleCaseArms(arms) \o <<else>>
<1>1. \A a \in K : Sound(a)
  OBVIOUS
<1>2. SimpleCaseArms(arms) \in Seq(K)
  BY ArmsAreAsts DEF SimpleCaseArms
<1>3. kids \in Seq(K)
  BY <1>2
<1>4. Sound(Node("case_of", kids, kids))
  BY <1>1, <1>3, NodeOfList
<1> QED BY <1>4 DEF SimpleCaseExprAst

-----------------------------------------------------------------------------
(* The expressions of the closures.                                        *)

\* The sources' expressions are nullable where SQL may leave the source out, and without an
\* outer join it leaves none out.
RowsInv(c) ==
    /\ c.exprs \in Seq(Range(c.exprs))
    /\ Len(c.exprs) # 0
    /\ \A i \in DOMAIN c.exprs : "nullable" \in DOMAIN c.exprs[i]
    /\ \A i \in DOMAIN c.exprs : MayBeAbsent(c, i) => c.exprs[i].nullable
    /\ ~ c.outer => \A row \in c.rows : DOMAIN c.exprs \subseteq row

\* What an expression of the menu is known to be, of any chain.
Good(c, e) == Sound(e.ast) /\ (RowsInv(c) /\ ~ ArithmeticOverNulls => Decodes(e))

LEMMA NullableDecodes ==
    ASSUME NEW k
    PROVE  Nullable(k).decodesNull /\ ScalarNullable(k).decodesNull
BY DEF Nullable, ScalarNullable

LEMMA ColumnGood ==
    ASSUME NEW c, NEW i, NEW j, i \in DOMAIN c.exprs \/ ~ RowsInv(c)
    PROVE  /\ Good(c, Column(c, i, j))
           /\ Column(c, i, j).ast.nonAggregate
           /\ Column(c, i, j).ast.columns = "bare"
           /\ LET k == Column(c, i, j).kind
              IN  k.option \/ k.kind[1] = "ScalarNullable" => k.decodesNull
<1> DEFINE s == c.exprs[i]
           col == s.source.columns[j]
           kind == ColumnKind(s.source.table, col.name, col.nullable)
           e == Column(c, i, j)
<1>1. e.ast = ColumnExprAst(s.alias, col.name)
  BY DEF Column, Expr
<1>2. Sound(e.ast) /\ e.ast.nonAggregate /\ e.ast.columns = "bare"
  BY <1>1, ColumnSound
<1>3. e.null <=> col.nullable \/ MayBeAbsent(c, i)
  BY DEF Column, Expr
<1> HIDE DEF e
<1>4. CASE s.nullable
  <2>1. e.kind = Nullable(kind)
    BY <1>4 DEF e, Column, Expr
  <2>2. e.kind.decodesNull
    BY <2>1, NullableDecodes
  <2>3. Decodes(e)
    BY <2>2 DEF Decodes
  <2> QED BY <1>2, <2>2, <2>3 DEF e, Good
<1>5. CASE ~ s.nullable
  <2>1. e.kind = kind
    BY <1>5 DEF e, Column, Expr
  <2>2. /\ e.kind.decodesNull = col.nullable /\ ~ e.kind.option
        /\ e.kind.kind[1] = "Column"
    BY <2>1 DEF ColumnKind
  <2>3. RowsInv(c) => ~ MayBeAbsent(c, i)
    BY <1>5 DEF RowsInv
  <2>4. RowsInv(c) => Decodes(e)
    BY <1>3, <2>2, <2>3 DEF Decodes
  <2> QED BY <1>2, <2>2, <2>4 DEF e, Good
<1> QED BY <1>4, <1>5

LEMMA EndsThere ==
    ASSUME NEW c, RowsInv(c)
    PROVE  /\ DOMAIN c.exprs = 1 .. Len(c.exprs)
           /\ 1 \in DOMAIN c.exprs /\ Len(c.exprs) \in DOMAIN c.exprs
BY DEF RowsInv

LEMMA EndsGood ==
    ASSUME NEW c
    PROVE  \A e \in {FirstColumn(c), LastColumn(c)} :
             /\ Good(c, e) /\ e.ast.nonAggregate /\ e.ast.columns = "bare"
             /\ e.kind.option \/ e.kind.kind[1] = "ScalarNullable" => e.kind.decodesNull
<1>1. RowsInv(c) => 1 \in DOMAIN c.exprs /\ Len(c.exprs) \in DOMAIN c.exprs
  BY EndsThere
<1>2. 1 \in DOMAIN c.exprs \/ ~ RowsInv(c)
  BY <1>1
<1>3. Len(c.exprs) \in DOMAIN c.exprs \/ ~ RowsInv(c)
  BY <1>1
<1> QED BY <1>2, <1>3, ColumnGood DEF FirstColumn, LastColumn

\* Arithmetic: a Value that is no Option, on both sides.
LEMMA BinaryGood ==
    ASSUME NEW c, NEW l, NEW r, Good(c, l), Good(c, r), NullsAllowed(l), NullsAllowed(r)
    PROVE  Good(c, Add(l, r)) /\ Good(c, Subtract(l, r))
<1>1. Sound(BinaryExprAst(l.ast, r.ast))
  BY NodeOf2 DEF BinaryExprAst, Good
<1>2. RowsInv(c) /\ ~ ArithmeticOverNulls => ~ l.null /\ ~ r.null
  BY DEF Good, Decodes, NullsAllowed, KindMaybeNull
<1>3. /\ Add(l, r).ast = BinaryExprAst(l.ast, r.ast)
      /\ Add(l, r).null <=> l.null \/ r.null
  BY DEF Add, Expr
<1>4. /\ Subtract(l, r).ast = BinaryExprAst(l.ast, r.ast)
      /\ Subtract(l, r).null <=> l.null \/ r.null
  BY DEF Subtract, Expr
<1>5. Good(c, Add(l, r))
  BY <1>1, <1>2, <1>3 DEF Good, Decodes
<1>6. Good(c, Subtract(l, r))
  BY <1>1, <1>2, <1>4 DEF Good, Decodes
<1> QED BY <1>5, <1>6

LEMMA ParamGood ==
    ASSUME NEW c, NEW p, NEW type
    PROVE  /\ Good(c, Param(p, type)) /\ NullsAllowed(Param(p, type))
           /\ Param(p, type).ast.nonAggregate
<1>1. /\ Param(p, type).ast = ParamExprAst(p) /\ ~ Param(p, type).null
      /\ ~ Param(p, type).kind.decodesNull
  BY DEF Param, Expr, PlainKind
<1> QED BY <1>1, ParamSound DEF Good, Decodes, NullsAllowed, KindMaybeNull

LEMMA SumsGood ==
    ASSUME NEW c, NEW e \in Sums(c)
    PROVE  Good(c, e) /\ e.ast.nonAggregate
<1> DEFINE p == Param(pName, "i32")
<1>1. PICK d \in {FirstColumn(c), LastColumn(c)} : NullsAllowed(d) /\ e = Add(d, p)
  BY DEF Sums
<1>2. Good(c, d) /\ d.ast.nonAggregate
  BY EndsGood
<1>3. Good(c, p) /\ NullsAllowed(p) /\ p.ast.nonAggregate
  BY ParamGood
<1> HIDE DEF p
<1>4. Good(c, e)
  BY <1>1, <1>2, <1>3, BinaryGood
<1>5. e.ast = Node("binary", <<d.ast, p.ast>>, <<d.ast, p.ast>>)
  BY <1>1 DEF Add, Expr, BinaryExprAst
<1>6. e.ast.nonAggregate
  BY <1>2, <1>3, <1>5, NodeOf2 DEF Good
<1> QED BY <1>4, <1>6

\* COUNT is never NULL, and the other aggregates decode NULL.
LEMMA CountGood ==
    ASSUME NEW c, NEW d, Sound(d.ast), d.ast.nonAggregate
    PROVE  /\ Good(c, Count(d)) /\ Good(c, Sum(d))
           /\ ~ Count(d).ast.window
<1>1. /\ Count(d).ast = AggregateExprAst("count", d.ast) /\ ~ Count(d).null
  BY DEF Count, Expr
<1>2. /\ Sum(d).ast = AggregateExprAst("sum", d.ast) /\ Sum(d).kind.decodesNull
  BY DEF Sum, Expr
<1>3. Decodes(Count(d)) /\ Decodes(Sum(d))
  BY <1>1, <1>2 DEF Decodes
<1>4. /\ Sound(Count(d).ast) /\ Sound(Sum(d).ast) /\ ~ Count(d).ast.window
  BY <1>1, <1>2, AggregateSound
<1> QED BY <1>3, <1>4 DEF Good

LEMMA AggregatesGood ==
    ASSUME NEW c, NEW e \in Aggregates(c)
    PROVE  Good(c, e) /\ ~ e.ast.window
<1>1. PICK d \in {LastColumn(c)} \cup Sums(c) : e = Count(d)
  BY DEF Aggregates
<1>2. Sound(d.ast) /\ d.ast.nonAggregate
  BY EndsGood, SumsGood DEF Good
<1> QED BY <1>1, <1>2, CountGood

LEMMA WindowsGood ==
    ASSUME NEW c, NEW e \in Windows(c)
    PROVE  Good(c, e)
<1> DEFINE x == FirstColumn(c)
           y == LastColumn(c)
           K == {x.ast, y.ast, LagArgsAst(y.ast)}
<1>1. /\ Good(c, x) /\ x.ast.nonAggregate /\ Good(c, y) /\ y.ast.nonAggregate
      /\ y.kind.option \/ y.kind.kind[1] = "ScalarNullable" => y.kind.decodesNull
  BY EndsGood
<1> HIDE DEF x, y
<1>2. \A a \in K : Sound(a) /\ a.nonAggregate
  BY <1>1, NodeOf1 DEF Good, LagArgsAst
<1>3. AstsOf(<<x>>) \in Seq(K) /\ AstsOf(<<y>>) \in Seq(K) /\ AstsOf(<<>>) \in Seq(K)
  <2>1. AstsOf(<<x>>) = <<x.ast>> /\ AstsOf(<<y>>) = <<y.ast>>
    BY DEF AstsOf
  <2>2. AstsOf(<<>>) = <<>>
    BY DEF AstsOf
  <2>3. <<x.ast>> \in Seq(K) /\ <<y.ast>> \in Seq(K) /\ <<>> \in Seq(K)
    OBVIOUS
  <2> QED BY <2>1, <2>2, <2>3
<1>4. <<>> \in Seq(K) /\ <<y.ast>> \in Seq(K) /\ <<LagArgsAst(y.ast)>> \in Seq(K)
  OBVIOUS
<1> HIDE DEF K
<1>5. CASE e = RowNumber(<<x>>, <<y>>)
  <2>1. e.ast = WindowExprAst("row_number", <<>>, AstsOf(<<x>>), AstsOf(<<y>>)) /\ ~ e.null
    BY <1>5 DEF RowNumber, Expr
  <2> QED BY <1>2, <1>3, <1>4, <2>1, WindowSound DEF Good, Decodes
<1>6. CASE e = SumOver(y, <<>>, <<x>>)
  <2>1. /\ e.ast = WindowExprAst("sum_over", <<y.ast>>, AstsOf(<<>>), AstsOf(<<x>>))
        /\ e.kind = Sum(y).kind
    BY <1>6 DEF SumOver, Expr
  <2>2. e.kind.decodesNull
    BY <2>1 DEF Sum, Expr
  <2> QED BY <1>2, <1>3, <1>4, <2>1, <2>2, WindowSound DEF Good, Decodes
<1>7. CASE e = Lag(y, <<>>, <<x>>)
  <2>1. /\ e.ast = WindowExprAst("lag", <<LagArgsAst(y.ast)>>, AstsOf(<<>>), AstsOf(<<x>>))
        /\ e.kind = WindowNullable(y.kind)
    BY <1>7 DEF Lag, Expr
  <2>2. CASE y.kind.option \/ y.kind.kind[1] = "ScalarNullable"
    <3>1. e.kind = y.kind
      BY <2>1, <2>2 DEF WindowNullable
    <3>2. e.kind.decodesNull
      BY <1>1, <2>2, <3>1
    <3> QED BY <1>2, <1>3, <1>4, <2>1, <3>2, WindowSound DEF Good, Decodes
  <2>3. CASE ~ (y.kind.option \/ y.kind.kind[1] = "ScalarNullable")
    <3>1. e.kind = ScalarNullable(y.kind)
      BY <2>1, <2>3 DEF WindowNullable
    <3>2. e.kind.decodesNull
      BY <3>1, NullableDecodes
    <3> QED BY <1>2, <1>3, <1>4, <2>1, <3>2, WindowSound DEF Good, Decodes
  <2> QED BY <2>2, <2>3
<1>8. CASE e = RowNumberOverRef
  <2>1. ~ e.null
    BY <1>8 DEF RowNumberOverRef, Expr
  <2> QED BY <1>8, <2>1, NamedWindowSound DEF Good, Decodes
<1> QED BY <1>5, <1>6, <1>7, <1>8 DEF Windows, x, y

LEMMA ScalarsGood ==
    ASSUME NEW c, NEW e \in Scalars
    PROVE  Good(c, e)
<1>1. /\ e.ast = ScalarSubqueryExprAst(sub) /\ e.kind = ScalarNullable(sub.output)
  BY DEF Scalars, ScalarSubquery, Expr
<1>2. e.kind.decodesNull
  BY <1>1, NullableDecodes
<1> QED BY <1>1, <1>2, ScopedSound DEF Good, Decodes

LEMMA OperandsGood ==
    ASSUME NEW c, NEW e \in Operands(c)
    PROVE  Good(c, e)
BY EndsGood, SumsGood, AggregatesGood, WindowsGood, ScalarsGood DEF Operands

LEMMA NestedGood ==
    ASSUME NEW c, NEW e \in Nested(c)
    PROVE  Good(c, e)
<1>1. PICK d \in {Count(LastColumn(c))} \cup Windows(c) : CanAggregate(d) /\ e = Sum(d)
  BY DEF Nested
<1>2. Sound(d.ast)
  <2>1. Good(c, Count(LastColumn(c)))
    BY EndsGood, CountGood DEF Good
  <2> QED BY <2>1, WindowsGood DEF Good
<1> QED BY <1>1, <1>2, CountGood DEF CanAggregate

LEMMA LiteralGood ==
    ASSUME NEW c, NEW type
    PROVE  Good(c, Literal(type)) /\ Sound(LiteralExprAst)
<1>1. /\ Literal(type).ast = LiteralExprAst /\ ~ Literal(type).null
  BY DEF Literal, Expr
<1> QED BY <1>1, NodeOf0 DEF LiteralExprAst, Good, Decodes

\* Every predicate of the menu says what is true of it.
LEMMA PredicatesSound ==
    ASSUME NEW c, NEW p \in Predicates(c)
    PROVE  Sound(p)
<1> DEFINE x == FirstColumn(c).ast
           y == LastColumn(c).ast
           pp == ParamExprAst(pName)
           qq == ParamExprAst(qName)
           lit == LiteralExprAst
<1>1. Sound(x) /\ Sound(y) /\ x.columns = "bare"
  BY EndsGood DEF Good
<1>2. Sound(pp) /\ Sound(qq) /\ Sound(lit)
  BY ParamSound, LiteralGood
<1> HIDE DEF x, y, pp, qq, lit
<1>3. CASE p \in {ComparePredicateAst(e.ast, lit) : e \in Operands(c)}
  BY <1>2, <1>3, OperandsGood, NodeOf2 DEF ComparePredicateAst, Good
<1>4. CASE p = AndPredicateAst(ComparePredicateAst(x, pp), BetweenPredicateAst(y, qq, lit))
  <2>1. Sound(ComparePredicateAst(x, pp))
    BY <1>1, <1>2, NodeOf2 DEF ComparePredicateAst
  <2>2. Sound(BetweenPredicateAst(y, qq, lit))
    BY <1>1, <1>2, NodeOf3 DEF BetweenPredicateAst
  <2> QED BY <1>4, <2>1, <2>2, NodeOf2 DEF AndPredicateAst
<1>5. CASE p = OrPredicateAst(NotPredicateAst(NullCheckPredicateAst(y)),
                              OrPredicateAst(InPredicateAst(x), LikePredicateAst(y, pp)))
  <2>1. Sound(NullCheckPredicateAst(y))
    BY <1>1, NodeOf1 DEF NullCheckPredicateAst
  <2>2. Sound(NotPredicateAst(NullCheckPredicateAst(y)))
    BY <2>1, NodeOf1 DEF NotPredicateAst
  <2>3. Sound(InPredicateAst(x))
    BY <1>1, NodeOf1 DEF InPredicateAst
  <2>4. Sound(LikePredicateAst(y, pp))
    BY <1>1, <1>2, NodeOf2 DEF LikePredicateAst
  <2>5. Sound(OrPredicateAst(InPredicateAst(x), LikePredicateAst(y, pp)))
    BY <2>3, <2>4, NodeOf2 DEF OrPredicateAst
  <2> QED BY <1>5, <2>2, <2>5, NodeOf2 DEF OrPredicateAst
<1>6. CASE p = ExistsPredicateAst(sub)
  BY <1>6, ScopedSound
<1>7. CASE \E e \in {FirstColumn(c)} \cup Aggregates(c)
                    \cup (IF WindowInHaving THEN Windows(c) ELSE {}) :
             p = InSubqueryPredicateAst(e.ast, sub)
  <2>1. PICK e \in {FirstColumn(c)} \cup Aggregates(c)
                    \cup (IF WindowInHaving THEN Windows(c) ELSE {}) :
               p = InSubqueryPredicateAst(e.ast, sub)
    BY <1>7
  <2>2. Sound(e.ast)
    BY EndsGood, AggregatesGood, WindowsGood DEF Good
  <2>3. WindowInHaving \/ ~ e.ast.window
    <3>1. e = FirstColumn(c) => WindowInHaving \/ ~ e.ast.window
      BY <1>1 DEF x, Sound
    <3>2. e \in Aggregates(c) => ~ e.ast.window
      BY AggregatesGood
    <3> QED BY <3>1, <3>2
  <2> QED BY <2>1, <2>2, <2>3, InSubquerySound
<1> QED BY <1>3, <1>4, <1>5, <1>6, <1>7 DEF Predicates, x, y, pp, qq, lit

\* CaseNull: the kind of a function or a CASE decodes NULL if an operand's does.
LEMMA CaseResultDecodes ==
    ASSUME NEW type, NEW maybeNull
    PROVE  maybeNull => CaseResult(type, maybeNull).decodesNull
BY NullableDecodes DEF CaseResult

\* Functions: over any operands, those whose operands decode NULL do.
LEMMA FunctionsGood ==
    ASSUME NEW c, NEW x, NEW y, NEW z, Good(c, x), Good(c, y), Good(c, z)
    PROVE  /\ Good(c, Lower(y)) /\ Good(c, SqlConcat(x, y)) /\ Good(c, Substring(x, z, y))
           /\ Good(c, Extract(y)) /\ Good(c, ExtractAt(y)) /\ Good(c, ExtractSecond(y))
           /\ Good(c, DateTrunc(y)) /\ Good(c, Now("timestamp")) /\ Good(c, Nullif(x, z))
<1> DEFINE H == RowsInv(c) /\ ~ ArithmeticOverNulls
<1>1. Sound(x.ast) /\ Sound(y.ast) /\ Sound(z.ast)
  BY DEF Good
<1>2. H => /\ x.null => KindMaybeNull(x.kind)
           /\ y.null => KindMaybeNull(y.kind)
           /\ z.null => KindMaybeNull(z.kind)
  BY DEF Good, Decodes, KindMaybeNull
<1> HIDE DEF H
<1>3. \A e : Sound(e.ast) /\ (H => Decodes(e)) => Good(c, e)
  BY DEF Good, H
<1>4. Good(c, Lower(y))
  <2>1. /\ Lower(y).ast = Node("lower", <<y.ast>>, <<y.ast>>)
        /\ Lower(y).null <=> y.null
        /\ Lower(y).kind = CaseResult(<<"String">>, KindMaybeNull(y.kind))
    BY DEF Lower, UnaryFnExprAst, Expr
  <2>2. H => Decodes(Lower(y))
    BY <1>2, <2>1, CaseResultDecodes DEF Decodes
  <2>3. Sound(Lower(y).ast)
    BY <1>1, <2>1, NodeOf1
  <2> QED BY <1>3, <2>2, <2>3
<1>5. Good(c, SqlConcat(x, y))
  <2>1. /\ SqlConcat(x, y).ast = Node("concat", <<x.ast, y.ast>>, <<x.ast, y.ast>>)
        /\ SqlConcat(x, y).null <=> x.null \/ y.null
        /\ SqlConcat(x, y).kind = CaseResult(<<"String">>, KindMaybeNull(x.kind) \/ KindMaybeNull(y.kind))
    BY DEF SqlConcat, ConcatExprAst, Expr
  <2>2. H => Decodes(SqlConcat(x, y))
    BY <1>2, <2>1, CaseResultDecodes DEF Decodes
  <2>3. Sound(SqlConcat(x, y).ast)
    BY <1>1, <2>1, NodeOf2
  <2> QED BY <1>3, <2>2, <2>3
<1>6. Good(c, Substring(x, z, y))
  <2>1. /\ Substring(x, z, y).ast = Node("substring", <<x.ast, z.ast, y.ast>>, <<x.ast, z.ast, y.ast>>)
        /\ Substring(x, z, y).null <=> x.null \/ z.null \/ y.null
        /\ Substring(x, z, y).kind = CaseResult(<<"String">>, \E e \in {x, z, y} : KindMaybeNull(e.kind))
    BY DEF Substring, SubstringExprAst, Expr
  <2>2. H => Decodes(Substring(x, z, y))
    BY <1>2, <2>1, CaseResultDecodes DEF Decodes
  <2>3. Sound(Substring(x, z, y).ast)
    BY <1>1, <2>1, NodeOf3
  <2> QED BY <1>3, <2>2, <2>3
<1>7. Good(c, Extract(y))
  <2>1. /\ Extract(y).ast = Node("extract", <<y.ast>>, <<y.ast>>)
        /\ Extract(y).null <=> y.null
        /\ Extract(y).kind = CaseResult(<<"i64">>, KindMaybeNull(y.kind))
    BY DEF Extract, ExtractExprAst, Expr
  <2>2. H => Decodes(Extract(y))
    BY <1>2, <2>1, CaseResultDecodes DEF Decodes
  <2>3. Sound(Extract(y).ast)
    BY <1>1, <2>1, NodeOf1
  <2> QED BY <1>3, <2>2, <2>3
<1>8. Good(c, ExtractAt(y))
  <2>1. /\ ExtractAt(y).ast = Node("extract_at", <<y.ast>>, <<y.ast>>)
        /\ ExtractAt(y).null <=> y.null
        /\ ExtractAt(y).kind = CaseResult(<<"i64">>, KindMaybeNull(y.kind))
    BY DEF ExtractAt, ExtractAtExprAst, Expr
  <2>2. H => Decodes(ExtractAt(y))
    BY <1>2, <2>1, CaseResultDecodes DEF Decodes
  <2>3. Sound(ExtractAt(y).ast)
    BY <1>1, <2>1, NodeOf1
  <2> QED BY <1>3, <2>2, <2>3
<1>9. Good(c, ExtractSecond(y))
  <2>1. /\ ExtractSecond(y).ast = Node("extract_second", <<y.ast>>, <<y.ast>>)
        /\ ExtractSecond(y).null <=> y.null
        /\ ExtractSecond(y).kind = CaseResult(<<"f64">>, KindMaybeNull(y.kind))
    BY DEF ExtractSecond, ExtractSecondExprAst, Expr
  <2>2. H => Decodes(ExtractSecond(y))
    BY <1>2, <2>1, CaseResultDecodes DEF Decodes
  <2>3. Sound(ExtractSecond(y).ast)
    BY <1>1, <2>1, NodeOf1
  <2> QED BY <1>3, <2>2, <2>3
<1>10. Good(c, DateTrunc(y))
  <2>1. /\ DateTrunc(y).ast = Node("date_trunc", <<y.ast>>, <<y.ast>>)
        /\ DateTrunc(y).null <=> y.null
        /\ DateTrunc(y).kind = CaseResult(<<"timestamp">>, KindMaybeNull(y.kind))
    BY DEF DateTrunc, DateTruncExprAst, Expr
  <2>2. H => Decodes(DateTrunc(y))
    BY <1>2, <2>1, CaseResultDecodes DEF Decodes
  <2>3. Sound(DateTrunc(y).ast)
    BY <1>1, <2>1, NodeOf1
  <2> QED BY <1>3, <2>2, <2>3
<1>11. Good(c, Now("timestamp"))
  <2>1. Now("timestamp").ast = Node("now", <<>>, <<>>) /\ ~ Now("timestamp").null
    BY DEF Now, Expr
  <2> QED BY <1>3, <2>1, NodeOf0 DEF Decodes
<1>12. Good(c, Nullif(x, z))
  <2>1. /\ Nullif(x, z).ast = Node("nullif", <<x.ast, z.ast>>, <<x.ast, z.ast>>)
        /\ Nullif(x, z).kind = CaseResult(<<"i32">>, TRUE)
    BY DEF Nullif, NullifExprAst, Expr
  <2>2. Decodes(Nullif(x, z))
    BY <2>1, CaseResultDecodes DEF Decodes
  <2>3. Sound(Nullif(x, z).ast)
    BY <1>1, <2>1, NodeOf2
  <2> QED BY <1>3, <2>2, <2>3
<1> QED BY <1>4, <1>5, <1>6, <1>7, <1>8, <1>9, <1>10, <1>11, <1>12

\* CASE: NULL if a branch is, or if no arm matches.
LEMMA CasesGood ==
    ASSUME NEW c, NEW arms, NEW x, NEW e, Good(c, x), Good(c, e),
           Len(arms) \in Nat, DOMAIN arms = 1 .. Len(arms),
           \A i \in DOMAIN arms : Sound(arms[i].when) /\ Good(c, arms[i].then)
    PROVE  Good(c, Otherwise(arms, e)) /\ Good(c, CaseEnd(arms)) /\ Good(c, SimpleCase(x, arms, e))
<1> DEFINE H == RowsInv(c) /\ ~ ArithmeticOverNulls
           maybeNull == KindMaybeNull(e.kind) \/ \E i \in DOMAIN arms : KindMaybeNull(arms[i].then.kind)
           null == e.null \/ \E i \in DOMAIN arms : arms[i].then.null
<1>1. Sound(x.ast) /\ Sound(e.ast) /\ \A i \in DOMAIN arms : Sound(arms[i].then.ast)
  BY DEF Good
<1>2. H => /\ e.null => KindMaybeNull(e.kind)
           /\ \A i \in DOMAIN arms : arms[i].then.null => KindMaybeNull(arms[i].then.kind)
  BY DEF Good, Decodes, KindMaybeNull
<1>3. H => (null => maybeNull)
  BY <1>2
<1>4. \A d : Sound(d.ast) /\ (H => Decodes(d)) => Good(c, d)
  BY DEF Good
<1> HIDE DEF H
<1>5. Good(c, Otherwise(arms, e))
  <2>1. /\ Otherwise(arms, e).ast = CaseExprAst(arms, e.ast)
        /\ Otherwise(arms, e).null <=> null
        /\ Otherwise(arms, e).kind = CaseResult(<<"i32">>, maybeNull)
    BY DEF Otherwise, Expr
  <2>2. H => Decodes(Otherwise(arms, e))
    BY <1>3, <2>1, CaseResultDecodes DEF Decodes
  <2>3. Sound(Otherwise(arms, e).ast)
    BY <1>1, <2>1, CaseSound
  <2> QED BY <1>4, <2>2, <2>3
<1>6. Good(c, CaseEnd(arms))
  <2>1. /\ CaseEnd(arms).ast = CaseExprAst(arms, NoElse)
        /\ CaseEnd(arms).kind = CaseResult(<<"i32">>, TRUE)
    BY DEF CaseEnd, Expr
  <2>2. Decodes(CaseEnd(arms))
    BY <2>1, CaseResultDecodes DEF Decodes
  <2>3. Sound(NoElse)
    BY NodeOf0 DEF NoElse
  <2>4. Sound(CaseEnd(arms).ast)
    BY <1>1, <2>1, <2>3, CaseSound
  <2> QED BY <1>4, <2>2, <2>4
<1>7. Good(c, SimpleCase(x, arms, e))
  <2>1. /\ SimpleCase(x, arms, e).ast = SimpleCaseExprAst(x.ast, arms, e.ast)
        /\ SimpleCase(x, arms, e).null <=> null
        /\ SimpleCase(x, arms, e).kind = CaseResult(<<"i32">>, maybeNull)
    BY DEF SimpleCase, Expr
  <2>2. H => Decodes(SimpleCase(x, arms, e))
    BY <1>3, <2>1, CaseResultDecodes DEF Decodes
  <2>3. Sound(SimpleCase(x, arms, e).ast)
    BY <1>1, <2>1, SimpleCaseSound
  <2> QED BY <1>4, <2>2, <2>3
<1> QED BY <1>5, <1>6, <1>7

\* COALESCE: NULL only if every argument is.
LEMMA CoalesceGood ==
    ASSUME NEW c, NEW args, \A i \in DOMAIN args : Good(c, args[i])
    PROVE  Good(c, Coalesce(args))
<1> DEFINE H == RowsInv(c) /\ ~ ArithmeticOverNulls
           asts == AstsOf(args)
           e == Coalesce(args)
<1>1. /\ e.ast = CoalesceExprAst(asts)
      /\ e.null <=> \A i \in DOMAIN args : args[i].null
      /\ e.kind = CaseResult(<<"i32">>, \A i \in DOMAIN args : KindMaybeNull(args[i].kind))
  BY DEF Coalesce, Expr
<1>2. H => \A i \in DOMAIN args : args[i].null => KindMaybeNull(args[i].kind)
  BY DEF Good, Decodes, KindMaybeNull
<1>3. H => Decodes(e)
  BY <1>1, <1>2, CaseResultDecodes DEF Decodes
<1>4. \A i \in DOMAIN asts : Sound(asts[i])
  BY DEF AstsOf, Good
<1> HIDE DEF asts, H
<1>5. Sound(Node("args", asts, asts))
  BY <1>4, NodeSound
<1>6. Sound(e.ast)
  BY <1>1, <1>5, NodeOf1 DEF CoalesceExprAst, CoalesceArgs
<1> QED BY <1>3, <1>6 DEF Good, H

LEMMA ConditionalsGood ==
    ASSUME NEW c, NEW e \in Conditionals(c)
    PROVE  Good(c, e)
<1> DEFINE x == FirstColumn(c)
           y == LastColumn(c)
           lit == Literal("i32")
           arm(d) == <<[when |-> ComparePredicateAst(x.ast, LiteralExprAst), then |-> d]>>
<1>1. Good(c, x) /\ Good(c, y) /\ Good(c, lit)
  BY EndsGood, LiteralGood
<1>2. Sound(ComparePredicateAst(x.ast, LiteralExprAst))
  BY <1>1, LiteralGood, NodeOf2 DEF ComparePredicateAst, Good
<1> HIDE DEF x, y, lit
<1>3. ASSUME NEW d, Good(c, d)
      PROVE  /\ Len(arm(d)) \in Nat /\ DOMAIN arm(d) = 1 .. Len(arm(d))
             /\ \A i \in DOMAIN arm(d) : Sound(arm(d)[i].when) /\ Good(c, arm(d)[i].then)
  BY <1>2, <1>3
<1> HIDE DEF arm
<1>4. Good(c, Otherwise(arm(x), y)) /\ Good(c, Otherwise(arm(y), lit))
  BY <1>1, <1>3, CasesGood
<1>5. Good(c, CaseEnd(arm(lit))) /\ Good(c, SimpleCase(x, arm(y), lit))
  BY <1>1, <1>3, CasesGood
<1>6. Good(c, Coalesce(<<y, lit>>)) /\ Good(c, Coalesce(<<y, y>>))
  <2>1. /\ \A i \in DOMAIN <<y, lit>> : Good(c, <<y, lit>>[i])
        /\ \A i \in DOMAIN <<y, y>> : Good(c, <<y, y>>[i])
    BY <1>1
  <2> QED BY <2>1, CoalesceGood
<1>7. /\ Good(c, Lower(y)) /\ Good(c, SqlConcat(x, y)) /\ Good(c, Substring(x, lit, y))
      /\ Good(c, Extract(y)) /\ Good(c, ExtractAt(y)) /\ Good(c, ExtractSecond(y))
      /\ Good(c, DateTrunc(y)) /\ Good(c, Now("timestamp")) /\ Good(c, Nullif(x, lit))
  BY <1>1, FunctionsGood
<1> QED BY <1>4, <1>5, <1>6, <1>7 DEF Conditionals, x, y, lit, arm

\* Every element of every projection of the menu.
LEMMA ProjectionsGood ==
    ASSUME NEW c, NEW P \in Projections(c)
    PROVE  /\ \A i \in DOMAIN P : Good(c, P[i])
           /\ 1 \in DOMAIN P
<1> DEFINE Known == Operands(c) \cup Columns(c) \cup Nested(c) \cup {Literal("i32")}
                    \cup Conditionals(c) \cup NullSums(c) \cup {Sum(LastColumn(c)), FirstColumn(c)}
<1>1. ASSUME NEW e \in Known PROVE Good(c, e)
  <2>1. e \in Columns(c) => Good(c, e)
    BY ColumnGood DEF Columns
  <2>2. e = Sum(LastColumn(c)) => Good(c, e)
    BY EndsGood, CountGood DEF Good
  <2>3. e \in NullSums(c) => Good(c, e)
    <3> SUFFICES ASSUME e \in NullSums(c) PROVE Good(c, e)
      OBVIOUS
    <3>1. PICK d \in Windows(c) \cup Scalars \cup {LastColumn(c)} :
            NullsAllowed(FirstColumn(c)) /\ NullsAllowed(d) /\ e = Subtract(FirstColumn(c), d)
      BY DEF NullSums
    <3>2. Good(c, d) /\ Good(c, FirstColumn(c))
      BY EndsGood, WindowsGood, ScalarsGood
    <3> QED BY <3>1, <3>2, BinaryGood
  <2>4. e = FirstColumn(c) => Good(c, e)
    BY EndsGood
  <2> QED BY <2>1, <2>2, <2>3, <2>4, OperandsGood, NestedGood, LiteralGood, ConditionalsGood
<1>2. \/ \E e \in Known : P = <<e>>
      \/ \E d, e \in Known : P = <<d, e>>
  <2>1. Aggregates(c) \subseteq Operands(c)
    BY DEF Operands
  <2> QED BY <2>1 DEF Projections, Singles, Pairs
<1> HIDE DEF Known
<1>3. CASE \E e \in Known : P = <<e>>
  BY <1>1, <1>3
<1>4. CASE \E d, e \in Known : P = <<d, e>>
  BY <1>1, <1>4
<1> QED BY <1>2, <1>3, <1>4

-----------------------------------------------------------------------------
(* What the associated types of a chain say of its links.                  *)

\* What each method's bounds demanded of its argument.
LinksInv(c) ==
    /\ c.links \in Seq(Range(c.links))
    /\ \A l \in Range(c.links) :
         /\ Sound(l.ast)
         /\ l.clause \in {"join", "where", "group"} => l.ast.nonAggregate
         /\ l.clause = "having" => l.ast.columns # "none"
         /\ l.clause = "order" => l.ast.term # "none" /\ ~ l.ast.overRef

\* OrderClass joins the classes of all ORDER BY terms.
OrderInv(c) ==
    \A l \in Range(c.links) :
        l.clause = "order" =>
            /\ c.orderClass = "none" => l.ast.term = "constant"
            /\ c.orderClass = "scalar" => l.ast.term \in {"constant", "column"}
            /\ c.orderClass = "aggregate" => l.ast.term \in {"constant", "aggregate"}

\* The grouping state knows of every GROUP BY and HAVING, wherever they stand in the chain.
GroupInv(c) ==
    /\ c.grouped \in {"ungrouped", "grouped", "aggregated", "needsGroupBy"}
    /\ c.grouped = "grouped" => Uses(c, {"group"})
    /\ c.grouped = "ungrouped" => ~ Uses(c, {"group", "having"})
    /\ c.grouped = "aggregated" =>
         \A l \in Range(c.links) : l.clause = "having" => l.ast.columns = "free"

FlagsInv(c) ==
    /\ Uses(c, {"lock"}) => c.locked
    /\ Uses(c, {"distinct"}) => c.distinct

Fields == {"links", "exprs", "sourceParams", "filterParams", "groupParams", "havingParams",
           "orderParams", "rows", "orderClass", "grouped", "distinct", "orderKeys", "locked",
           "outer"}

ChainInv(c) ==
    /\ Fields \subseteq DOMAIN c
    /\ LinksInv(c) /\ OrderInv(c) /\ GroupInv(c) /\ FlagsInv(c) /\ RowsInv(c)

\* A statement is a chain that keeps what its types say and a projection they accepted; a
\* reference to w0 in it comes with a WINDOW clause.
StatementInv ==
    statement.done =>
        LET P == statement.projection
        IN  /\ ChainInv(statement.chain)
            /\ CanProject(statement.chain, P)
            /\ 1 \in DOMAIN P
            /\ \A i \in DOMAIN P : Good(statement.chain, P[i])
            /\ \A a \in Range(statement.window) : Sound(a) /\ a.nonAggregate
            /\ statement.window = <<>> => NoNamedWindow(P)

IInv == ChainInv(chain) /\ StatementInv

-----------------------------------------------------------------------------
(* Every method keeps them.                                                *)

LEMMA PushIs ==
    ASSUME NEW s, NEW e, s \in Seq(Range(s))
    PROVE  /\ Range(Append(s, e)) = Range(s) \cup {e}
           /\ Append(s, e) \in Seq(Range(Append(s, e)))
           /\ Len(Append(s, e)) = Len(s) + 1
<1> DEFINE S == Range(s) \cup {e}
<1>1. s \in Seq(S) /\ Append(s, e) \in Seq(S)
  OBVIOUS
<1>2. /\ DOMAIN s = 1 .. Len(s) /\ Len(s) \in Nat
      /\ DOMAIN Append(s, e) = 1 .. Len(s) + 1 /\ Len(Append(s, e)) = Len(s) + 1
      /\ \A i \in 1 .. Len(s) : Append(s, e)[i] = s[i]
      /\ Append(s, e)[Len(s) + 1] = e
  BY <1>1
<1>3. Range(Append(s, e)) = S
  <2>1. \A i \in 1 .. Len(s) + 1 : Append(s, e)[i] \in S
    BY <1>1, <1>2
  <2>2. Range(Append(s, e)) \subseteq S
    BY <1>2, <2>1 DEF Range
  <2>3. e \in Range(Append(s, e))
    <3>1. Len(s) + 1 \in DOMAIN Append(s, e)
      BY <1>2
    <3> QED BY <1>2, <3>1 DEF Range
  <2>4. Range(s) \subseteq Range(Append(s, e))
    <3>1. \A i \in DOMAIN s : i \in DOMAIN Append(s, e) /\ s[i] = Append(s, e)[i]
      BY <1>2
    <3> QED BY <3>1 DEF Range
  <2> QED BY <2>2, <2>3, <2>4
<1> QED BY <1>1, <1>2, <1>3

\* A chain with one more link.
Extends(c, d, l) == d.links = Append(c.links, l)

LEMMA ExtendsIs ==
    ASSUME NEW c, NEW d, NEW l, LinksInv(c), Extends(c, d, l)
    PROVE  /\ Range(d.links) = Range(c.links) \cup {l}
           /\ d.links \in Seq(Range(d.links))
           /\ \A S : Uses(d, S) <=> Uses(c, S) \/ l.clause \in S
<1>1. Range(d.links) = Range(c.links) \cup {l} /\ d.links \in Seq(Range(d.links))
  BY PushIs DEF Extends, LinksInv
<1> QED BY <1>1 DEF Uses

\* What a link must be for LinksInv.
Linked(l) ==
    /\ Sound(l.ast)
    /\ l.clause \in {"join", "where", "group"} => l.ast.nonAggregate
    /\ l.clause = "having" => l.ast.columns # "none"
    /\ l.clause = "order" => l.ast.term # "none" /\ ~ l.ast.overRef

LEMMA LinksKept ==
    ASSUME NEW c, NEW d, NEW l, LinksInv(c), Extends(c, d, l), Linked(l)
    PROVE  LinksInv(d)
<1>1. Range(d.links) = Range(c.links) \cup {l} /\ d.links \in Seq(Range(d.links))
  BY ExtendsIs
<1> QED BY <1>1 DEF LinksInv, Linked

\* A link of another clause leaves the summaries true as they are.
LEMMA OrderKept ==
    ASSUME NEW c, NEW d, NEW l, LinksInv(c), Extends(c, d, l), OrderInv(c),
           l.clause # "order", d.orderClass = c.orderClass
    PROVE  OrderInv(d)
<1>1. Range(d.links) = Range(c.links) \cup {l}
  BY ExtendsIs
<1> QED BY <1>1 DEF OrderInv

LEMMA GroupKept ==
    ASSUME NEW c, NEW d, NEW l, LinksInv(c), Extends(c, d, l), GroupInv(c),
           l.clause \notin {"group", "having"}, d.grouped = c.grouped
    PROVE  GroupInv(d)
<1>1. /\ Range(d.links) = Range(c.links) \cup {l}
      /\ Uses(d, {"group"}) <=> Uses(c, {"group"})
      /\ Uses(d, {"group", "having"}) <=> Uses(c, {"group", "having"})
  BY ExtendsIs
<1> QED BY <1>1 DEF GroupInv

LEMMA FlagsKept ==
    ASSUME NEW c, NEW d, NEW l, LinksInv(c), Extends(c, d, l), FlagsInv(c),
           l.clause = "lock" \/ d.locked = c.locked, l.clause = "lock" => d.locked,
           l.clause = "distinct" \/ d.distinct = c.distinct, l.clause = "distinct" => d.distinct
    PROVE  FlagsInv(d)
<1>1. /\ Uses(d, {"lock"}) <=> Uses(c, {"lock"}) \/ l.clause = "lock"
      /\ Uses(d, {"distinct"}) <=> Uses(c, {"distinct"}) \/ l.clause = "distinct"
  BY ExtendsIs
<1> QED BY <1>1 DEF FlagsInv

LEMMA RowsKept ==
    ASSUME NEW c, NEW d, RowsInv(c), d.exprs = c.exprs, d.rows = c.rows, d.outer = c.outer
    PROVE  RowsInv(d)
BY DEF RowsInv, MayBeAbsent

\* ORDER BY: ExtendOrderClass.
LEMMA OrderJoins ==
    ASSUME NEW c, NEW d, NEW l, LinksInv(c), Extends(c, d, l), OrderInv(c),
           l.ast.term \in {"constant", "column", "aggregate"},
           d.orderClass = ExtendOrderClass(c.orderClass, l.ast.term)
    PROVE  OrderInv(d)
<1>1. Range(d.links) = Range(c.links) \cup {l}
  BY ExtendsIs
<1>2. /\ d.orderClass = "none" => c.orderClass = "none" /\ l.ast.term = "constant"
      /\ d.orderClass = "scalar" => /\ c.orderClass \in {"none", "scalar"}
                                    /\ l.ast.term \in {"constant", "column"}
      /\ d.orderClass = "aggregate" => /\ c.orderClass \in {"none", "aggregate"}
                                       /\ l.ast.term \in {"constant", "aggregate"}
  BY DEF ExtendOrderClass
<1>3. \A k \in Range(c.links) :
        k.clause = "order" =>
          /\ d.orderClass = "none" => k.ast.term = "constant"
          /\ d.orderClass = "scalar" => k.ast.term \in {"constant", "column"}
          /\ d.orderClass = "aggregate" => k.ast.term \in {"constant", "aggregate"}
  BY <1>2 DEF OrderInv
<1> QED BY <1>1, <1>2, <1>3 DEF OrderInv

LEMMA WhereKeeps ==
    ASSUME NEW c, NEW p, ChainInv(c), Sound(p), p.nonAggregate
    PROVE  ChainInv(WhereLink(c, p))
<1> DEFINE l == Link("where", p, NoKind, "", NoSource)
           d == WhereLink(c, p)
<1>1. l.clause = "where" /\ l.ast = p
  BY DEF Link
<1>2. /\ Extends(c, d, l) /\ DOMAIN d = DOMAIN c
      /\ d.orderClass = c.orderClass /\ d.grouped = c.grouped
      /\ d.locked = c.locked /\ d.distinct = c.distinct
      /\ d.exprs = c.exprs /\ d.rows = c.rows /\ d.outer = c.outer
  BY DEF ChainInv, Fields, WhereLink, Push, Extends
<1> HIDE DEF l, d
<1>3. LinksInv(d)
  BY <1>1, <1>2, LinksKept DEF ChainInv, Linked
<1>4. OrderInv(d) /\ GroupInv(d) /\ FlagsInv(d) /\ RowsInv(d)
  BY <1>1, <1>2, OrderKept, GroupKept, FlagsKept, RowsKept DEF ChainInv
<1>5. ChainInv(d)
  BY <1>2, <1>3, <1>4 DEF ChainInv
<1> QED BY <1>5 DEF d

LEMMA OrderByKeeps ==
    ASSUME NEW c, NEW e, ChainInv(c), Sound(e.ast), CanOrderBy(e)
    PROVE  ChainInv(OrderByLink(c, e))
<1> DEFINE l == Link("order", e.ast, e.kind, "", NoSource)
           d == OrderByLink(c, e)
<1>1. l.clause = "order" /\ l.ast = e.ast
  BY DEF Link
<1>2. /\ Extends(c, d, l) /\ DOMAIN d = DOMAIN c
      /\ d.orderClass = ExtendOrderClass(c.orderClass, e.ast.term) /\ d.grouped = c.grouped
      /\ d.locked = c.locked /\ d.distinct = c.distinct
      /\ d.exprs = c.exprs /\ d.rows = c.rows /\ d.outer = c.outer
  BY DEF ChainInv, Fields, OrderByLink, Push, Extends
<1> HIDE DEF l, d
<1>3. LinksInv(d)
  BY <1>1, <1>2, LinksKept DEF ChainInv, Linked, CanOrderBy
<1>4. l.ast.term \in {"constant", "column", "aggregate"}
  BY <1>1 DEF Sound, CanOrderBy
<1>5. OrderInv(d)
  BY <1>1, <1>2, <1>4, OrderJoins DEF ChainInv
<1>6. GroupInv(d) /\ FlagsInv(d) /\ RowsInv(d)
  BY <1>1, <1>2, GroupKept, FlagsKept, RowsKept DEF ChainInv
<1>7. ChainInv(d)
  BY <1>2, <1>3, <1>5, <1>6 DEF ChainInv
<1> QED BY <1>7 DEF d

LEMMA GroupByKeeps ==
    ASSUME NEW c, NEW e, ChainInv(c), Sound(e.ast), e.ast.nonAggregate
    PROVE  ChainInv(GroupByLink(c, e))
<1> DEFINE l == Link("group", e.ast, e.kind, "", NoSource)
           d == GroupByLink(c, e)
<1>1. l.clause = "group" /\ l.ast = e.ast
  BY DEF Link
<1>2. /\ Extends(c, d, l) /\ DOMAIN d = DOMAIN c
      /\ d.orderClass = c.orderClass /\ d.grouped = "grouped"
      /\ d.locked = c.locked /\ d.distinct = c.distinct
      /\ d.exprs = c.exprs /\ d.rows = c.rows /\ d.outer = c.outer
  BY DEF ChainInv, Fields, GroupByLink, Push, Extends
<1> HIDE DEF l, d
<1>3. LinksInv(d)
  BY <1>1, <1>2, LinksKept DEF ChainInv, Linked
<1>4. Uses(d, {"group"})
  BY <1>1, <1>2, ExtendsIs DEF ChainInv
<1>5. GroupInv(d)
  BY <1>2, <1>4 DEF GroupInv
<1>6. OrderInv(d) /\ FlagsInv(d) /\ RowsInv(d)
  BY <1>1, <1>2, OrderKept, FlagsKept, RowsKept DEF ChainInv
<1>7. ChainInv(d)
  BY <1>2, <1>3, <1>5, <1>6 DEF ChainInv
<1> QED BY <1>7 DEF d

\* HAVING: a bare column in it is remembered until a GROUP BY comes, if none came before.
LEMMA HavingKeeps ==
    ASSUME NEW c, NEW p, ChainInv(c), Sound(p), CanHaving(p)
    PROVE  ChainInv(HavingLink(c, p))
<1> DEFINE l == Link("having", p, NoKind, "", NoSource)
           d == HavingLink(c, p)
<1>1. l.clause = "having" /\ l.ast = p
  BY DEF Link
<1>2. /\ Extends(c, d, l) /\ DOMAIN d = DOMAIN c
      /\ d.orderClass = c.orderClass /\ d.grouped = HavingTransition(c.grouped, p.columns)
      /\ d.locked = c.locked /\ d.distinct = c.distinct
      /\ d.exprs = c.exprs /\ d.rows = c.rows /\ d.outer = c.outer
  BY DEF ChainInv, Fields, HavingLink, Push, Extends
<1> HIDE DEF l, d
<1>3. LinksInv(d)
  BY <1>1, <1>2, LinksKept DEF ChainInv, Linked, CanHaving
<1>4. /\ Range(d.links) = Range(c.links) \cup {l}
      /\ Uses(d, {"group"}) <=> Uses(c, {"group"})
  BY <1>1, <1>2, ExtendsIs DEF ChainInv
<1>5. GroupInv(d)
  <2>1. GroupInv(c)
    BY DEF ChainInv
  <2>2. /\ d.grouped \in {"grouped", "aggregated", "needsGroupBy"}
        /\ d.grouped = "grouped" => c.grouped = "grouped"
    BY <1>2, <2>1 DEF GroupInv, HavingTransition
  <2>3. d.grouped = "aggregated" =>
          /\ p.columns = "free"
          /\ \A k \in Range(c.links) : k.clause = "having" => k.ast.columns = "free"
    <3>1. d.grouped = "aggregated" => p.columns = "free" /\ c.grouped \in {"ungrouped", "aggregated"}
      BY <1>2, <2>1 DEF GroupInv, HavingTransition
    <3>2. c.grouped = "ungrouped" => \A k \in Range(c.links) : k.clause # "having"
      BY <2>1 DEF GroupInv, Uses
    <3>3. c.grouped = "aggregated" =>
            \A k \in Range(c.links) : k.clause = "having" => k.ast.columns = "free"
      BY <2>1 DEF GroupInv
    <3> QED BY <3>1, <3>2, <3>3
  <2>4. d.grouped = "grouped" => Uses(d, {"group"})
    BY <1>4, <2>1, <2>2 DEF GroupInv
  <2> QED BY <1>1, <1>4, <2>2, <2>3, <2>4 DEF GroupInv
<1>6. OrderInv(d) /\ FlagsInv(d) /\ RowsInv(d)
  BY <1>1, <1>2, OrderKept, FlagsKept, RowsKept DEF ChainInv
<1>7. ChainInv(d)
  BY <1>2, <1>3, <1>5, <1>6 DEF ChainInv
<1> QED BY <1>7 DEF d

\* LIMIT, OFFSET, DISTINCT and the locks have no expression.
LEMMA NoAstSound == Sound(NoAst) /\ NoAst.nonAggregate
BY NodeOf0 DEF NoAst

LEMMA BareKeeps ==
    ASSUME NEW c, ChainInv(c), NEW rows
    PROVE  /\ ChainInv(LimitLink(c, rows)) /\ ChainInv(OffsetLink(c, rows))
           /\ ChainInv(LockLink(c, rows)) /\ ChainInv(DistinctLink(c))
<1>1. ASSUME NEW d, NEW l, Extends(c, d, l), l.ast = NoAst,
             l.clause \in {"limit", "offset", "lock", "distinct"}, DOMAIN d = DOMAIN c,
             d.orderClass = c.orderClass, d.grouped = c.grouped,
             l.clause = "lock" \/ d.locked = c.locked, l.clause = "lock" => d.locked,
             l.clause = "distinct" \/ d.distinct = c.distinct, l.clause = "distinct" => d.distinct,
             d.exprs = c.exprs, d.rows = c.rows, d.outer = c.outer
      PROVE  ChainInv(d)
  <2>1. LinksInv(d)
    BY <1>1, LinksKept, NoAstSound DEF ChainInv, Linked
  <2>2. OrderInv(d) /\ GroupInv(d) /\ FlagsInv(d) /\ RowsInv(d)
    BY <1>1, OrderKept, GroupKept, FlagsKept, RowsKept DEF ChainInv
  <2> QED BY <1>1, <2>1, <2>2 DEF ChainInv
<1>2. ChainInv(LimitLink(c, rows))
  <2> DEFINE l == Link("limit", NoAst, NoKind, rows, NoSource)
             d == LimitLink(c, rows)
  <2>1. l.clause = "limit" /\ l.ast = NoAst
    BY DEF Link
  <2>2. /\ Extends(c, d, l) /\ DOMAIN d = DOMAIN c
        /\ d.orderClass = c.orderClass /\ d.grouped = c.grouped
        /\ d.locked = c.locked /\ d.distinct = c.distinct
        /\ d.exprs = c.exprs /\ d.rows = c.rows /\ d.outer = c.outer
    BY DEF ChainInv, Fields, LimitLink, Push, Extends
  <2> HIDE DEF l, d
  <2>3. ChainInv(d)
    BY <1>1, <2>1, <2>2
  <2> QED BY <2>3 DEF d
<1>3. ChainInv(OffsetLink(c, rows))
  <2> DEFINE l == Link("offset", NoAst, NoKind, rows, NoSource)
             d == OffsetLink(c, rows)
  <2>1. l.clause = "offset" /\ l.ast = NoAst
    BY DEF Link
  <2>2. /\ Extends(c, d, l) /\ DOMAIN d = DOMAIN c
        /\ d.orderClass = c.orderClass /\ d.grouped = c.grouped
        /\ d.locked = c.locked /\ d.distinct = c.distinct
        /\ d.exprs = c.exprs /\ d.rows = c.rows /\ d.outer = c.outer
    BY DEF ChainInv, Fields, OffsetLink, Push, Extends
  <2> HIDE DEF l, d
  <2>3. ChainInv(d)
    BY <1>1, <2>1, <2>2
  <2> QED BY <2>3 DEF d
<1>4. ChainInv(LockLink(c, rows))
  <2> DEFINE l == Link("lock", NoAst, NoKind, rows, NoSource)
             d == LockLink(c, rows)
  <2>1. l.clause = "lock" /\ l.ast = NoAst
    BY DEF Link
  <2>2. /\ Extends(c, d, l) /\ DOMAIN d = DOMAIN c
        /\ d.orderClass = c.orderClass /\ d.grouped = c.grouped
        /\ d.locked = TRUE /\ d.distinct = c.distinct
        /\ d.exprs = c.exprs /\ d.rows = c.rows /\ d.outer = c.outer
    BY DEF ChainInv, Fields, LockLink, Push, Extends
  <2> HIDE DEF l, d
  <2>3. ChainInv(d)
    BY <1>1, <2>1, <2>2
  <2> QED BY <2>3 DEF d
<1>5. ChainInv(DistinctLink(c))
  <2> DEFINE l == Link("distinct", NoAst, NoKind, "", NoSource)
             d == DistinctLink(c)
  <2>1. l.clause = "distinct" /\ l.ast = NoAst
    BY DEF Link
  <2>2. /\ Extends(c, d, l) /\ DOMAIN d = DOMAIN c
        /\ d.orderClass = c.orderClass /\ d.grouped = c.grouped
        /\ d.locked = c.locked /\ d.distinct = TRUE
        /\ d.exprs = c.exprs /\ d.rows = c.rows /\ d.outer = c.outer
    BY DEF ChainInv, Fields, DistinctLink, Push, Extends
  <2> HIDE DEF l, d
  <2>3. ChainInv(d)
    BY <1>1, <2>1, <2>2
  <2> QED BY <2>3 DEF d
<1> QED BY <1>2, <1>3, <1>4, <1>5

\* A join: the new source is nullable if the join may leave it out, and the ones before it if
\* it may leave them out.
LEMMA RowsJoined ==
    ASSUME NEW c, NEW d, NEW kind, NEW base, NEW new, RowsInv(c),
           base \in Seq(Range(base)), Len(base) = Len(c.exprs),
           \A i \in 1 .. Len(c.exprs) :
             "nullable" \in DOMAIN base[i] /\ (c.exprs[i].nullable => base[i].nullable),
           kind \in {"right", "full"} => \A i \in 1 .. Len(c.exprs) : base[i].nullable,
           "nullable" \in DOMAIN new, kind \in {"left", "full"} => new.nullable,
           d.exprs = Append(base, new), d.rows = JoinRows(c.rows, Len(c.exprs) + 1, kind),
           IF kind \in {"left", "right", "full"} THEN d.outer ELSE d.outer = c.outer
    PROVE  RowsInv(d)
<1> DEFINE n == Len(c.exprs) + 1
<1>1. /\ d.exprs \in Seq(Range(d.exprs)) /\ Len(d.exprs) = n
  BY PushIs
<1>2. /\ Len(c.exprs) \in Nat /\ DOMAIN c.exprs = 1 .. Len(c.exprs)
      /\ DOMAIN base = 1 .. Len(c.exprs)
  BY DEF RowsInv
<1>3. /\ DOMAIN d.exprs = 1 .. n
      /\ \A i \in 1 .. Len(c.exprs) : d.exprs[i] = base[i]
      /\ d.exprs[n] = new
  BY <1>2
<1>4. \A i \in DOMAIN d.exprs : "nullable" \in DOMAIN d.exprs[i]
  BY <1>2, <1>3
<1>5. d.rows = {row \cup {n} : row \in c.rows}
               \cup (IF kind = "left" THEN c.rows
                     ELSE IF kind = "right" THEN {{n}}
                     ELSE IF kind = "full" THEN c.rows \cup {{n}} ELSE {})
  BY DEF JoinRows
<1> HIDE DEF n
<1>6. ASSUME NEW i \in DOMAIN d.exprs, NEW row \in d.rows, i \notin row
      PROVE  d.exprs[i].nullable
  <2>1. CASE i = n
    <3>1. kind \in {"left", "full"}
      BY <1>5, <1>6, <2>1
    <3> QED BY <1>3, <2>1, <3>1
  <2>2. CASE i # n
    <3>1. i \in 1 .. Len(c.exprs) /\ d.exprs[i] = base[i]
      BY <1>2, <1>3, <2>2 DEF n
    <3>2. CASE kind \in {"right", "full"}
      BY <3>1, <3>2
    <3>3. CASE kind \notin {"right", "full"}
      <4>1. PICK r \in c.rows : row = r \cup {n} \/ row = r
        BY <1>5, <3>3
      <4>2. i \notin r
        BY <1>6, <4>1
      <4>3. c.exprs[i].nullable
        BY <1>2, <3>1, <4>2 DEF RowsInv, MayBeAbsent
      <4> QED BY <3>1, <4>3
    <3> QED BY <3>2, <3>3
  <2> QED BY <2>1, <2>2
<1>7. ASSUME ~ d.outer, NEW row \in d.rows
      PROVE  DOMAIN d.exprs \subseteq row
  <2>1. kind \notin {"left", "right", "full"} /\ ~ c.outer
    BY <1>7
  <2>2. PICK r \in c.rows : row = r \cup {n}
    BY <1>5, <2>1
  <2>3. DOMAIN c.exprs \subseteq r
    BY <2>1 DEF RowsInv
  <2> QED BY <1>2, <1>3, <2>2, <2>3 DEF n
<1>8. Len(d.exprs) # 0
  BY <1>1, <1>2 DEF n
<1> QED BY <1>1, <1>4, <1>6, <1>7, <1>8 DEF RowsInv, MayBeAbsent

LEMMA JoinKeeps ==
    ASSUME NEW c, NEW kind, NEW source, NEW on, ChainInv(c), Sound(on), on.nonAggregate
    PROVE  /\ kind \notin {"left", "right", "full"} => ChainInv(JoinLink(c, kind, source, on))
           /\ ChainInv(LeftJoinLink(c, source, on))
           /\ kind \in {"right", "full"} => ChainInv(OuterJoinLink(c, kind, source, on))
<1>1. ASSUME NEW d, NEW l, Extends(c, d, l), l.ast = on, l.clause = "join", DOMAIN d = DOMAIN c,
             d.orderClass = c.orderClass, d.grouped = c.grouped,
             d.locked = c.locked, d.distinct = c.distinct, RowsInv(d)
      PROVE  ChainInv(d)
  <2>1. LinksInv(d)
    BY <1>1, LinksKept DEF ChainInv, Linked
  <2>2. OrderInv(d) /\ GroupInv(d) /\ FlagsInv(d)
    BY <1>1, OrderKept, GroupKept, FlagsKept DEF ChainInv
  <2> QED BY <1>1, <2>1, <2>2 DEF ChainInv
<1>2. /\ RowsInv(c) /\ c.exprs \in Seq(Range(c.exprs)) /\ DOMAIN c.exprs = 1 .. Len(c.exprs)
      /\ Len(c.exprs) \in Nat
      /\ \A i \in 1 .. Len(c.exprs) : "nullable" \in DOMAIN c.exprs[i]
  BY DEF ChainInv, RowsInv
<1>3. kind \notin {"left", "right", "full"} => ChainInv(JoinLink(c, kind, source, on))
  <2> SUFFICES ASSUME kind \notin {"left", "right", "full"}
               PROVE  ChainInv(JoinLink(c, kind, source, on))
    OBVIOUS
  <2> DEFINE l == Link("join", on, NoKind, kind, source)
             d == JoinLink(c, kind, source, on)
             new == SourceExpr(source, Len(c.exprs) + 1, FALSE)
  <2>1. l.clause = "join" /\ l.ast = on
    BY DEF Link
  <2>2. /\ Extends(c, d, l) /\ DOMAIN d = DOMAIN c
        /\ d.orderClass = c.orderClass /\ d.grouped = c.grouped
        /\ d.locked = c.locked /\ d.distinct = c.distinct /\ d.outer = c.outer
        /\ d.exprs = Append(c.exprs, new)
        /\ d.rows = JoinRows(c.rows, Len(c.exprs) + 1, kind)
    BY DEF ChainInv, Fields, JoinLink, Joined, Push, Extends
  <2>3. "nullable" \in DOMAIN new
    BY DEF SourceExpr
  <2> HIDE DEF l, d, new
  <2>4. RowsInv(d)
    BY <1>2, <2>2, <2>3, RowsJoined
  <2>5. ChainInv(d)
    BY <1>1, <2>1, <2>2, <2>4
  <2> QED BY <2>5 DEF d
<1>4. ChainInv(LeftJoinLink(c, source, on))
  <2> DEFINE l == Link("join", on, NoKind, "left", source)
             d == LeftJoinLink(c, source, on)
             new == SourceExpr(source, Len(c.exprs) + 1, TRUE)
  <2>1. l.clause = "join" /\ l.ast = on
    BY DEF Link
  <2>2. /\ Extends(c, d, l) /\ DOMAIN d = DOMAIN c
        /\ d.orderClass = c.orderClass /\ d.grouped = c.grouped
        /\ d.locked = c.locked /\ d.distinct = c.distinct /\ d.outer = TRUE
        /\ d.exprs = Append(c.exprs, new)
        /\ d.rows = JoinRows(c.rows, Len(c.exprs) + 1, "left")
    BY DEF ChainInv, Fields, LeftJoinLink, Joined, Push, Extends
  <2>3. "nullable" \in DOMAIN new /\ new.nullable
    BY DEF SourceExpr
  <2> HIDE DEF l, d, new
  <2>4. RowsInv(d)
    <3>1. PICK left : left = "left"
      OBVIOUS
    <3>2. d.rows = JoinRows(c.rows, Len(c.exprs) + 1, left)
      BY <2>2, <3>1
    <3>3. left \notin {"right", "full"} /\ left \in {"left", "right", "full"} /\ d.outer
      BY <2>2, <3>1
    <3> QED BY <1>2, <2>2, <2>3, <3>2, <3>3, RowsJoined
  <2>5. ChainInv(d)
    BY <1>1, <2>1, <2>2, <2>4
  <2> QED BY <2>5 DEF d
<1>5. kind \in {"right", "full"} => ChainInv(OuterJoinLink(c, kind, source, on))
  <2> SUFFICES ASSUME kind \in {"right", "full"}
               PROVE  ChainInv(OuterJoinLink(c, kind, source, on))
    OBVIOUS
  <2> DEFINE l == Link("join", on, NoKind, kind, source)
             d == OuterJoinLink(c, kind, source, on)
             base == IntoNullableExprs(c.exprs)
             new == SourceExpr(source, Len(c.exprs) + 1, kind = "full")
  <2>1. l.clause = "join" /\ l.ast = on
    BY DEF Link
  <2>2. /\ Extends(c, d, l) /\ DOMAIN d = DOMAIN c
        /\ d.orderClass = c.orderClass /\ d.grouped = c.grouped
        /\ d.locked = c.locked /\ d.distinct = c.distinct /\ d.outer = TRUE
        /\ d.exprs = Append(base, new)
        /\ d.rows = JoinRows(c.rows, Len(c.exprs) + 1, kind)
    BY DEF ChainInv, Fields, OuterJoinLink, Joined, Push, Extends
  <2>3. "nullable" \in DOMAIN new /\ (kind = "full" => new.nullable)
    BY DEF SourceExpr
  <2>4. /\ base \in Seq(Range(base)) /\ Len(base) = Len(c.exprs)
        /\ \A i \in 1 .. Len(c.exprs) : "nullable" \in DOMAIN base[i] /\ base[i].nullable
    <3>1. DOMAIN base = 1 .. Len(c.exprs)
      BY <1>2 DEF IntoNullableExprs
    <3>2. \A i \in 1 .. Len(c.exprs) : base[i] = [c.exprs[i] EXCEPT !.nullable = TRUE]
      BY <1>2 DEF IntoNullableExprs
    <3>3. \A i \in 1 .. Len(c.exprs) : "nullable" \in DOMAIN base[i] /\ base[i].nullable
      BY <1>2, <3>2
    <3>4. base \in [1 .. Len(c.exprs) -> Range(base)]
      BY <1>2, <3>1 DEF IntoNullableExprs, Range
    <3>5. base \in Seq(Range(base)) /\ Len(base) = Len(c.exprs)
      BY <1>2, <3>4
    <3> QED BY <3>3, <3>5
  <2> HIDE DEF l, d, new, base
  <2>5. RowsInv(d)
    BY <1>2, <2>2, <2>3, <2>4, RowsJoined
  <2>6. ChainInv(d)
    BY <1>1, <2>1, <2>2, <2>5
  <2> QED BY <2>6 DEF d
<1> QED BY <1>3, <1>4, <1>5

-----------------------------------------------------------------------------
(* The invariant of the specification.                                     *)

LEMMA FromKeeps ==
    ASSUME NEW s
    PROVE  ChainInv(FromLink(s))
<1> DEFINE c == FromLink(s)
           l == Link("from", NoAst, NoKind, "from", s)
           x == SourceExpr(s, 1, FALSE)
<1>1. /\ c.links = <<l>> /\ c.exprs = <<x>> /\ c.rows = {{1}}
      /\ c.grouped = "ungrouped" /\ c.outer = FALSE
      /\ Fields \subseteq DOMAIN c
  BY DEF FromLink, Fields
<1>2. l.clause = "from" /\ l.ast = NoAst /\ "nullable" \in DOMAIN x
  BY DEF Link, SourceExpr
<1> HIDE DEF c, l, x
<1>3. Range(c.links) = {l} /\ c.links \in Seq(Range(c.links))
  BY <1>1 DEF Range
<1>4. LinksInv(c)
  BY <1>2, <1>3, NoAstSound DEF LinksInv
<1>5. OrderInv(c) /\ GroupInv(c) /\ FlagsInv(c)
  BY <1>1, <1>2, <1>3 DEF OrderInv, GroupInv, FlagsInv, Uses
<1>6. RowsInv(c)
  <2>1. Range(c.exprs) = {x} /\ c.exprs \in Seq(Range(c.exprs)) /\ Len(c.exprs) # 0
    BY <1>1 DEF Range
  <2>2. DOMAIN c.exprs = {1} /\ c.exprs[1] = x
    BY <1>1
  <2>3. \A row \in c.rows : row = {1}
    BY <1>1
  <2> QED BY <1>2, <2>1, <2>2, <2>3 DEF RowsInv, MayBeAbsent
<1>7. ChainInv(c)
  BY <1>1, <1>4, <1>5, <1>6 DEF ChainInv
<1> QED BY <1>7 DEF c

LEMMA InvInit == Init => IInv
<1> SUFFICES ASSUME Init PROVE IInv
  OBVIOUS
<1>1. ChainInv(chain)
  BY FromKeeps DEF Init
<1>2. StatementInv
  BY DEF Init, NoStatement, StatementInv
<1> QED BY <1>1, <1>2 DEF IInv

LEMMA OnSound ==
    ASSUME NEW source, NEW p \in OnPredicates(source)
    PROVE  Sound(p)
<1> DEFINE c == JoinLink(chain, "inner", source, NoAst)
           x == FirstColumn(chain)
           y == LastColumn(c)
<1>1. Sound(x.ast) /\ Sound(y.ast) /\ y.ast.nonAggregate
  BY EndsGood DEF Good
<1>2. Sound(ParamExprAst(pName)) /\ Sound(LiteralExprAst)
  BY ParamSound, LiteralGood
<1>3. Sound(Count(y).ast)
  BY <1>1, CountGood DEF Good
<1> HIDE DEF x, y
<1>4. Sound(AndPredicateAst(ComparePredicateAst(x.ast, y.ast),
                            ComparePredicateAst(x.ast, ParamExprAst(pName))))
  <2>1. /\ Sound(ComparePredicateAst(x.ast, y.ast))
        /\ Sound(ComparePredicateAst(x.ast, ParamExprAst(pName)))
    BY <1>1, <1>2, NodeOf2 DEF ComparePredicateAst
  <2> QED BY <2>1, NodeOf2 DEF AndPredicateAst
<1>5. Sound(ComparePredicateAst(Count(y).ast, LiteralExprAst))
  BY <1>2, <1>3, NodeOf2 DEF ComparePredicateAst
<1> QED BY <1>4, <1>5 DEF OnPredicates, x, y

\* A method that does not finish the chain.
LEMMA MethodStep ==
    ASSUME IInv, ChainInv(chain'), UNCHANGED statement
    PROVE  IInv'
<1>1. StatementInv'
  BY DEF IInv, StatementInv
<1> QED BY <1>1 DEF IInv

LEMMA ClauseStep ==
    ASSUME IInv, Where \/ OrderBy \/ OrderByPair \/ GroupBy \/ Having
    PROVE  IInv'
<1>1. ChainInv(chain)
  BY DEF IInv
<1>2. UNCHANGED statement
  BY DEF Where, OrderBy, OrderByPair, GroupBy, Having, Call
<1>3. CASE Where
  <2>1. PICK p \in Predicates(chain) : CanFilter(p) /\ chain' = WhereLink(chain, p)
    BY <1>3 DEF Where
  <2>2. Sound(p) /\ p.nonAggregate
    BY <2>1, PredicatesSound DEF CanFilter
  <2>3. ChainInv(chain')
    BY <1>1, <2>1, <2>2, WhereKeeps
  <2> QED BY <1>2, <2>3, MethodStep
<1>4. CASE OrderBy
  <2>1. PICK e \in Operands(chain) \cup {Literal("i32")} :
          CanOrderBy(e) /\ chain' = OrderByLink(chain, e)
    BY <1>4 DEF OrderBy
  <2>2. Sound(e.ast)
    BY OperandsGood, LiteralGood DEF Good
  <2>3. ChainInv(chain')
    BY <1>1, <2>1, <2>2, OrderByKeeps
  <2> QED BY <1>2, <2>3, MethodStep
<1>5. CASE OrderByPair
  <2>1. PICK d, e \in {FirstColumn(chain), LastColumn(chain)} \cup Sums(chain) :
          /\ CanOrderBy(d) /\ CanOrderBy(e)
          /\ chain' = OrderByLink(OrderByLink(chain, d), e)
    BY <1>5 DEF OrderByPair
  <2>2. Sound(d.ast) /\ Sound(e.ast)
    BY EndsGood, SumsGood DEF Good
  <2>3. ChainInv(OrderByLink(chain, d))
    BY <1>1, <2>1, <2>2, OrderByKeeps
  <2>4. ChainInv(chain')
    BY <2>1, <2>2, <2>3, OrderByKeeps
  <2> QED BY <1>2, <2>4, MethodStep
<1>6. CASE GroupBy
  <2>1. PICK e \in Operands(chain) : CanGroupBy(e) /\ chain' = GroupByLink(chain, e)
    BY <1>6 DEF GroupBy
  <2>2. Sound(e.ast) /\ e.ast.nonAggregate
    BY <2>1, OperandsGood DEF Good, CanGroupBy
  <2>3. ChainInv(chain')
    BY <1>1, <2>1, <2>2, GroupByKeeps
  <2> QED BY <1>2, <2>3, MethodStep
<1>7. CASE Having
  <2>1. PICK p \in Predicates(chain) : CanHaving(p) /\ chain' = HavingLink(chain, p)
    BY <1>7 DEF Having
  <2>2. Sound(p)
    BY PredicatesSound
  <2>3. ChainInv(chain')
    BY <1>1, <2>1, <2>2, HavingKeeps
  <2> QED BY <1>2, <2>3, MethodStep
<1> QED BY <1>3, <1>4, <1>5, <1>6, <1>7

LEMMA FlagStep ==
    ASSUME IInv, Limit \/ Offset \/ Distinct \/ Lock
    PROVE  IInv'
<1>1. ChainInv(chain)
  BY DEF IInv
<1>2. UNCHANGED statement
  BY DEF Limit, Offset, Distinct, Lock, Call
<1>3. ChainInv(chain')
  BY <1>1, BareKeeps DEF Limit, Offset, Distinct, Lock
<1> QED BY <1>2, <1>3, MethodStep

LEMMA JoinStep ==
    ASSUME IInv, InnerJoin \/ LeftJoin \/ RightJoin \/ FullJoin \/ CrossJoin
    PROVE  IInv'
<1>1. ChainInv(chain)
  BY DEF IInv
<1>2. UNCHANGED statement
  BY DEF InnerJoin, LeftJoin, RightJoin, FullJoin, CrossJoin, Call
<1>3. CASE InnerJoin \/ LeftJoin \/ RightJoin \/ FullJoin
  <2>1. PICK s, on :
          /\ on \in OnPredicates(s) /\ CanFilter(on)
          /\ \/ chain' = JoinLink(chain, "inner", s, on)
             \/ chain' = LeftJoinLink(chain, s, on)
             \/ \E kind \in {"right", "full"} : chain' = OuterJoinLink(chain, kind, s, on)
    BY <1>3 DEF InnerJoin, LeftJoin, RightJoin, FullJoin
  <2>2. Sound(on) /\ on.nonAggregate
    BY <2>1, OnSound DEF CanFilter
  <2>3. ChainInv(chain')
    BY <1>1, <2>1, <2>2, JoinKeeps
  <2> QED BY <1>2, <2>3, MethodStep
<1>4. CASE CrossJoin
  <2>1. PICK s : chain' = JoinLink(chain, "cross", s, NoAst)
    BY <1>4 DEF CrossJoin
  <2>2. ChainInv(chain')
    BY <1>1, <2>1, JoinKeeps, NoAstSound
  <2> QED BY <1>2, <2>2, MethodStep
<1> QED BY <1>3, <1>4

LEMMA FinishStep ==
    ASSUME IInv, Select \/ SelectOver
    PROVE  IInv'
<1>1. ChainInv(chain) /\ UNCHANGED chain
  BY DEF IInv, Select, SelectOver
<1>2. ASSUME NEW P, NEW window, statement' = Statement(chain, P, window), CanProject(chain, P),
             1 \in DOMAIN P, \A i \in DOMAIN P : Good(chain, P[i]),
             \A a \in Range(window) : Sound(a) /\ a.nonAggregate,
             window = <<>> => NoNamedWindow(P)
      PROVE  IInv'
  <2>1. /\ statement'.chain = chain /\ statement'.projection = P
        /\ statement'.window = window
    BY <1>2 DEF Statement
  <2>2. StatementInv'
    BY <1>1, <1>2, <2>1 DEF StatementInv
  <2> QED BY <1>1, <2>2 DEF IInv
<1>3. CASE Select
  <2>1. PICK P \in Projections(chain) :
          CanSelect(chain, P) /\ statement' = Statement(chain, P, <<>>)
    BY <1>3 DEF Select
  <2>2. Range(<<>>) = {}
    BY DEF Range
  <2> QED BY <1>2, <2>1, <2>2, ProjectionsGood DEF CanSelect
<1>4. CASE SelectOver
  <2> DEFINE P == <<FirstColumn(chain), RowNumberOverRef>>
  <2>1. PICK key \in Operands(chain) :
          /\ CanDefineWindow(<<key>>) /\ CanProject(chain, P)
          /\ statement' = Statement(chain, P, <<key.ast>>)
    BY <1>4 DEF SelectOver
  <2>2. Sound(key.ast) /\ key.ast.nonAggregate
    BY <2>1, OperandsGood DEF Good, CanDefineWindow
  <2>3. Good(chain, FirstColumn(chain)) /\ Good(chain, RowNumberOverRef)
    BY EndsGood, WindowsGood, NamedWindowSound DEF Good, Decodes, RowNumberOverRef, Expr
  <2>4. 1 \in DOMAIN P /\ \A i \in DOMAIN P : Good(chain, P[i])
    BY <2>3
  <2>5. Range(<<key.ast>>) = {key.ast} /\ <<key.ast>> # <<>>
    BY DEF Range
  <2> HIDE DEF P
  <2> QED BY <1>2, <2>1, <2>2, <2>4, <2>5
<1> QED BY <1>3, <1>4

LEMMA InvStep == IInv /\ [Next]_vars => IInv'
<1> SUFFICES ASSUME IInv, [Next]_vars PROVE IInv'
  OBVIOUS
<1>1. CASE SelectSubquery
  <2>1. UNCHANGED statement /\ ChainInv(chain')
    BY <1>1, FromKeeps DEF SelectSubquery
  <2> QED BY <2>1, MethodStep
<1>2. CASE UNCHANGED vars
  BY <1>2, MethodStep DEF vars, IInv
<1> QED BY <1>1, <1>2, ClauseStep, FlagStep, JoinStep, FinishStep DEF Next

LEMMA Invariance == Spec => []IInv
BY InvInit, InvStep, PTL DEF Spec

-----------------------------------------------------------------------------
(* The theorems.                                                           *)

LEMMA ProjectionClassIs ==
    ASSUME NEW P, 1 \in DOMAIN P,
           \A i \in DOMAIN P : P[i].ast.term \in {"constant", "column", "aggregate", "none"}
    PROVE  /\ ProjectionClass(P) \in {"scalar", "aggregate", "none"}
           /\ ProjectionClass(P) = "scalar" =>
                \A i \in DOMAIN P : P[i].ast.term \in {"constant", "column"}
           /\ ProjectionClass(P) = "aggregate" => \A i \in DOMAIN P : P[i].ast.term = "aggregate"
<1> DEFINE class(i) == TermProjectionClass(P[i].ast.term)
           Same(k) == \A i \in DOMAIN P : class(i) = k
           Is(v) == IF \E k \in {"scalar", "aggregate"} : Same(k) THEN v = class(1) ELSE v = "none"
<1>1. ProjectionClass(P) = CHOOSE v \in {"scalar", "aggregate", "none"} : Is(v)
  BY DEF ProjectionClass
<1>2. \A i \in DOMAIN P :
        /\ class(i) = "scalar" => P[i].ast.term \in {"constant", "column"}
        /\ class(i) = "aggregate" => P[i].ast.term = "aggregate"
  BY DEF TermProjectionClass
<1>3. \E v \in {"scalar", "aggregate", "none"} : Is(v)
  <2>1. CASE \E k \in {"scalar", "aggregate"} : Same(k)
    <3>1. PICK k \in {"scalar", "aggregate"} : Same(k)
      BY <2>1
    <3>2. k = class(1)
      BY <3>1
    <3> HIDE DEF class
    <3> QED BY <2>1, <3>2
  <2>2. CASE ~ \E k \in {"scalar", "aggregate"} : Same(k)
    <3> HIDE DEF Same
    <3> QED BY <2>2
  <2> QED BY <2>1, <2>2
<1> HIDE DEF Is
<1>4. /\ ProjectionClass(P) \in {"scalar", "aggregate", "none"}
      /\ Is(ProjectionClass(P))
  BY <1>1, <1>3
<1> USE DEF Is
<1> HIDE DEF class
<1>5. ASSUME NEW k \in {"scalar", "aggregate"}, ProjectionClass(P) = k
      PROVE  \A i \in DOMAIN P : class(i) = k
  BY <1>4, <1>5
<1> QED BY <1>2, <1>4, <1>5

\* What is known of a finished statement: its asts are sound, and the links are those of the
\* methods.
LEMMA StatementIs ==
    ASSUME StatementInv, statement.done
    PROVE  /\ ChainInv(statement.chain) /\ CanProject(statement.chain, statement.projection)
           /\ \A a \in Projected(statement.projection) : Sound(a)
           /\ ProjectionClass(statement.projection) \in {"scalar", "aggregate", "none"}
           /\ ProjectionClass(statement.projection) = "scalar" =>
                \A a \in Projected(statement.projection) : a.term \in {"constant", "column"}
           /\ ProjectionClass(statement.projection) = "aggregate" =>
                \A a \in Projected(statement.projection) : a.term = "aggregate"
           /\ \A S : \A a \in AstsIn(statement.chain, S) :
                \E l \in Range(statement.chain.links) : l.clause \in S /\ l.ast = a
<1> DEFINE P == statement.projection
<1>1. /\ ChainInv(statement.chain) /\ CanProject(statement.chain, P) /\ 1 \in DOMAIN P
      /\ \A i \in DOMAIN P : Sound(P[i].ast)
  BY DEF StatementInv, Good
<1>2. \A i \in DOMAIN P : P[i].ast.term \in {"constant", "column", "aggregate", "none"}
  BY <1>1 DEF Sound
<1>3. /\ ProjectionClass(P) \in {"scalar", "aggregate", "none"}
      /\ ProjectionClass(P) = "scalar" =>
           \A i \in DOMAIN P : P[i].ast.term \in {"constant", "column"}
      /\ ProjectionClass(P) = "aggregate" => \A i \in DOMAIN P : P[i].ast.term = "aggregate"
  BY <1>1, <1>2, ProjectionClassIs
<1> HIDE DEF P
<1>4. \A a \in Projected(P) : \E i \in DOMAIN P : a = P[i].ast
  BY DEF Projected
<1>5. \A S : \A a \in AstsIn(statement.chain, S) :
        \E l \in Range(statement.chain.links) : l.clause \in S /\ l.ast = a
  BY DEF AstsIn
<1> QED BY <1>1, <1>3, <1>4, <1>5 DEF P

LEMMA GroupingHolds ==
    ASSUME StatementInv
    PROVE  GroupingIsSound
<1> DEFINE c == statement.chain
           P == statement.projection
           perGroup == Projected(P) \cup AstsIn(c, {"having", "order"})
<1> SUFFICES ASSUME statement.done, ~ Uses(c, {"group"}),
                    Uses(c, {"having"}) \/ \E a \in perGroup : a.aggregate
             PROVE  \A a \in perGroup : ~ a.bare
  BY DEF GroupingIsSound
<1>1. /\ ChainInv(c) /\ ValidSelect(c, P)
      /\ \A a \in Projected(P) : Sound(a)
      /\ ProjectionClass(P) = "scalar" => \A a \in Projected(P) : a.term \in {"constant", "column"}
      /\ ProjectionClass(P) = "aggregate" => \A a \in Projected(P) : a.term = "aggregate"
      /\ ProjectionClass(P) \in {"scalar", "aggregate", "none"}
  BY StatementIs DEF CanProject
<1>2. \A a \in AstsIn(c, {"having", "order"}) :
        \E l \in Range(c.links) : l.clause \in {"having", "order"} /\ l.ast = a
  BY StatementIs
<1>3. /\ GroupInv(c) /\ OrderInv(c)
      /\ \A l \in Range(c.links) : Sound(l.ast)
  BY <1>1 DEF ChainInv, LinksInv
<1> HIDE DEF c, P
<1>4. c.grouped # "grouped"
  BY <1>3 DEF GroupInv, c
<1>5. CASE c.grouped = "ungrouped"
  <2>1. /\ ProjectionClass(P) \in {"scalar", "aggregate"}
        /\ c.orderClass \in {"none", ProjectionClass(P)}
    BY <1>1, <1>5 DEF ValidSelect, OrderCompatibleWith
  <2>2. ~ Uses(c, {"having"}) /\ \A l \in Range(c.links) : l.clause # "having"
    BY <1>3, <1>5 DEF GroupInv, Uses
  <2>3. CASE ProjectionClass(P) = "scalar"
    <3>1. \A a \in Projected(P) : ~ a.aggregate
      BY <1>1, <2>3 DEF Sound
    <3>2. \A l \in Range(c.links) : l.clause = "order" => ~ l.ast.aggregate
      BY <1>3, <2>1, <2>3 DEF OrderInv, Sound
    <3>3. \A a \in perGroup : ~ a.aggregate
      BY <1>2, <2>2, <3>1, <3>2
    <3> QED BY <2>2, <3>3 DEF c, P
  <2>4. CASE ProjectionClass(P) = "aggregate"
    <3>1. \A a \in Projected(P) : ~ a.bare
      BY <1>1, <2>4 DEF Sound
    <3>2. \A l \in Range(c.links) : l.clause = "order" => ~ l.ast.bare
      BY <1>3, <2>1, <2>4 DEF OrderInv, Sound
    <3> QED BY <1>2, <2>2, <3>1, <3>2 DEF c, P
  <2> QED BY <2>1, <2>3, <2>4
<1>6. CASE c.grouped = "aggregated"
  <2>1. ColumnFreeProjection(P) /\ c.orderClass \in {"none", "aggregate"}
    BY <1>1, <1>6 DEF ValidSelect, OrderCompatibleWith
  <2>2. \A a \in Projected(P) : ~ a.bare
    BY <1>1, <2>1 DEF ColumnFreeProjection, Projected, Sound
  <2>3. \A l \in Range(c.links) : l.clause = "order" => ~ l.ast.bare
    BY <1>3, <2>1 DEF OrderInv, Sound
  <2>4. \A l \in Range(c.links) : l.clause = "having" => ~ l.ast.bare
    BY <1>3, <1>6 DEF GroupInv, Sound
  <2> QED BY <1>2, <2>2, <2>3, <2>4 DEF c, P
<1> QED BY <1>1, <1>4, <1>5, <1>6 DEF ValidSelect

LEMMA PlacementHolds ==
    ASSUME StatementInv, ~ WindowInHaving
    PROVE  PlacementIsSound
<1> DEFINE c == statement.chain
           P == statement.projection
           rowwise == AstsIn(c, {"join", "where", "group"}) \cup Range(statement.window)
           all == rowwise \cup AstsIn(c, {"having", "order"}) \cup Projected(P)
<1> SUFFICES ASSUME statement.done
             PROVE  /\ \A a \in rowwise : ~ a.aggregate /\ ~ a.window
                    /\ \A a \in AstsIn(c, {"having"}) : ~ a.window
                    /\ \A a \in all : ~ a.misplaced
                    /\ statement.window = <<>> => \A a \in all : ~ a.overRef
  BY DEF PlacementIsSound
<1>1. /\ ChainInv(c) /\ \A a \in Projected(P) : Sound(a)
  BY StatementIs
<1>2. \A S : \A a \in AstsIn(c, S) : \E l \in Range(c.links) : l.clause \in S /\ l.ast = a
  BY StatementIs
<1>3. \A a \in Range(statement.window) : Sound(a) /\ a.nonAggregate
  BY DEF StatementInv
<1>4. statement.window = <<>> => \A a \in Projected(P) : ~ a.overRef
  <2>1. statement.window = <<>> => NoNamedWindow(P)
    BY DEF StatementInv
  <2> QED BY <2>1 DEF NoNamedWindow, Projected
<1> HIDE DEF c, P
<1>5. \A l \in Range(c.links) :
        /\ Sound(l.ast)
        /\ l.clause \in {"join", "where", "group"} => l.ast.nonAggregate
        /\ l.clause = "having" => l.ast.columns # "none"
        /\ l.clause = "order" => ~ l.ast.overRef
  BY <1>1 DEF ChainInv, LinksInv
<1>6. \A a \in rowwise : Sound(a) /\ a.nonAggregate
  BY <1>2, <1>3, <1>5
<1>7. \A a \in rowwise : ~ a.aggregate /\ ~ a.window /\ ~ a.overRef
  BY <1>6 DEF Sound
<1>8. \A a \in AstsIn(c, {"having"}) : ~ a.window
  BY <1>2, <1>5 DEF Sound
<1>9. \A a \in AstsIn(c, {"having", "order"}) : Sound(a) /\ ~ a.overRef
  <2>1. ASSUME NEW a \in AstsIn(c, {"having", "order"}) PROVE Sound(a) /\ ~ a.overRef
    <3>1. PICK l \in Range(c.links) : l.clause \in {"having", "order"} /\ l.ast = a
      BY <1>2
    <3> QED BY <1>5, <3>1 DEF Sound
  <2> QED BY <2>1
<1>10. \A a \in all : ~ a.misplaced
  BY <1>1, <1>6, <1>9 DEF Sound
<1> QED BY <1>4, <1>7, <1>8, <1>9, <1>10 DEF c, P

LEMMA NullsHold ==
    ASSUME StatementInv, ~ ArithmeticOverNulls
    PROVE  NullsDecoded
BY DEF StatementInv, NullsDecoded, ChainInv, Good, Decodes

LEMMA LocksHold ==
    ASSUME StatementInv
    PROVE  LocksIdentifyRows
<1> DEFINE c == statement.chain
           P == statement.projection
<1> SUFFICES ASSUME statement.done, Uses(c, {"lock"})
             PROVE  /\ ~ Uses(c, {"distinct", "group", "having"})
                    /\ \A a \in Projected(P) \cup AstsIn(c, {"order"}) : ~ a.aggregate
                    /\ \A i \in DOMAIN c.exprs : ~ MayBeAbsent(c, i)
  BY DEF LocksIdentifyRows
<1>1. /\ ChainInv(c) /\ ValidSelect(c, P) /\ RowLockSelectValid(c, P)
      /\ \A a \in Projected(P) : Sound(a)
      /\ ProjectionClass(P) = "scalar" => \A a \in Projected(P) : a.term \in {"constant", "column"}
      /\ \A S : \A a \in AstsIn(c, S) : \E l \in Range(c.links) : l.clause \in S /\ l.ast = a
  BY StatementIs DEF CanProject
<1> HIDE DEF P
<1>2. c.locked /\ (Uses(c, {"distinct"}) => c.distinct)
  BY <1>1 DEF ChainInv, FlagsInv
<1>3. ~ c.distinct /\ c.grouped = "ungrouped" /\ ~ c.outer /\ ProjectionClass(P) = "scalar"
  BY <1>1, <1>2 DEF RowLockSelectValid
<1>4. c.orderClass \in {"none", "scalar"}
  BY <1>1, <1>3 DEF ValidSelect, OrderCompatibleWith
<1>5. ~ Uses(c, {"distinct", "group", "having"})
  BY <1>1, <1>2, <1>3 DEF ChainInv, GroupInv, Uses
<1>6. \A a \in Projected(P) \cup AstsIn(c, {"order"}) : ~ a.aggregate
  <2>1. \A l \in Range(c.links) : l.clause = "order" => ~ l.ast.aggregate
    BY <1>1, <1>4 DEF ChainInv, LinksInv, OrderInv, Sound
  <2>2. \A a \in Projected(P) : ~ a.aggregate
    BY <1>1, <1>3 DEF Sound
  <2> QED BY <1>1, <2>1, <2>2
<1>7. \A i \in DOMAIN c.exprs : ~ MayBeAbsent(c, i)
  BY <1>1, <1>3 DEF ChainInv, RowsInv, MayBeAbsent
<1> QED BY <1>5, <1>6, <1>7 DEF P

\* A statement without GROUP BY is about rows or about one group, for any tables, any number
\* of calls in any order, and any nesting of the menu's expressions.
THEOREM Grouping == Spec => []GroupingIsSound
BY Invariance, GroupingHolds, PTL DEF IInv

\* Aggregates and windows stay where SQL takes them, unless a window stands left of
\* IN (subquery) in a HAVING, where the traits do not look.
THEOREM Placement == ASSUME ~ WindowInHaving PROVE Spec => []PlacementIsSound
BY Invariance, PlacementHolds, PTL DEF IInv

\* A projected expression that SQL can make NULL decodes into an Option, whatever outer joins
\* made its sources nullable; unless there is arithmetic over an operand that may be NULL,
\* whose kind forgets it.
THEOREM Nulls == ASSUME ~ ArithmeticOverNulls PROVE Spec => []NullsDecoded
BY Invariance, NullsHold, PTL DEF IInv

\* A statement that locks rows has rows to lock, in whatever order the calls were made.
THEOREM Locks == Spec => []LocksIdentifyRows
BY Invariance, LocksHold, PTL DEF IInv

-----------------------------------------------------------------------------
(* The order of calls.                                                     *)

\* The associated types of a chain, and a record that is a chain.
Types == Fields \ {"links"}
IsChain(c) == c = [f \in Fields |-> c[f]]
SameTypes(c, d) == \A f \in Types : c[f] = d[f]

LEMMA TypesAre ==
    ASSUME NEW c, IsChain(c), NEW d, IsChain(d)
    PROVE  TypesOf(c) = TypesOf(d) <=> SameTypes(c, d)
<1>1. \A b : IsChain(b) => TypesOf(b) = [f \in Fields |-> IF f = "links" THEN <<>> ELSE b[f]]
  BY DEF IsChain, TypesOf, Fields
<1>2. /\ TypesOf(c) = [f \in Fields |-> IF f = "links" THEN <<>> ELSE c[f]]
      /\ TypesOf(d) = [f \in Fields |-> IF f = "links" THEN <<>> ELSE d[f]]
  BY <1>1
<1>3. ASSUME TypesOf(c) = TypesOf(d), NEW f \in Types PROVE c[f] = d[f]
  <2>1. TypesOf(c)[f] = c[f] /\ TypesOf(d)[f] = d[f]
    BY <1>2 DEF Types
  <2> QED BY <1>3, <2>1
<1>4. ASSUME SameTypes(c, d) PROVE TypesOf(c) = TypesOf(d)
  <2>1. \A f \in Fields : (IF f = "links" THEN <<>> ELSE c[f]) = (IF f = "links" THEN <<>> ELSE d[f])
    BY <1>4 DEF SameTypes, Types
  <2> QED BY <1>2, <2>1
<1> QED BY <1>3, <1>4 DEF SameTypes

\* A call other than a join changes each type by itself, whatever the others are.
After(v, l, f) ==
    CASE f = "filterParams" /\ l.clause = "where" -> v \o l.ast.params
      [] f = "groupParams" /\ l.clause = "group" -> v \o l.ast.params
      [] f = "havingParams" /\ l.clause = "having" -> v \o l.ast.params
      [] f = "orderParams" /\ l.clause = "order" -> v \o l.ast.params
      [] f = "orderClass" /\ l.clause = "order" -> ExtendOrderClass(v, l.ast.term)
      [] f = "orderKeys" /\ l.clause = "order" -> <<l.kind.kind>> \o v
      [] f = "grouped" /\ l.clause = "group" -> "grouped"
      [] f = "grouped" /\ l.clause = "having" -> HavingTransition(v, l.ast.columns)
      [] f = "locked" /\ l.clause = "lock" -> TRUE
      [] f = "distinct" /\ l.clause = "distinct" -> TRUE
      [] OTHER -> v

OwnClauses == {"where", "group", "having", "order", "limit", "offset", "lock", "distinct"}
JoinKinds == {"inner", "cross", "left", "right", "full"}

\* A link some method makes.
Callable(l) == l.clause \in OwnClauses \/ (l.clause = "join" /\ l.arg \in JoinKinds)

LEMMA PushedIs ==
    ASSUME NEW c, IsChain(c), NEW l
    PROVE  IsChain(Push(c, l)) /\ SameTypes(Push(c, l), c)
BY DEF IsChain, Push, SameTypes, Types, Fields

LEMMA AgainIs ==
    ASSUME NEW c, IsChain(c), NEW l, l.clause \in OwnClauses
    PROVE  /\ IsChain(CallAgain(c, l))
           /\ \A f \in Types : CallAgain(c, l)[f] = After(c[f], l, f)
<1> DEFINE e == Expr(l.ast, l.kind, FALSE)
<1>0. e.ast = l.ast /\ e.kind = l.kind
  BY DEF Expr
<1> HIDE DEF e
<1>1. CASE l.clause = "where"
  <2>1. CallAgain(c, l) = WhereLink(c, l.ast)
    BY <1>1 DEF CallAgain
  <2> DEFINE b == Push(c, Link("where", l.ast, NoKind, "", NoSource))
  <2>2. IsChain(b) /\ SameTypes(b, c)
    BY PushedIs
  <2>3. WhereLink(c, l.ast) = [b EXCEPT !.filterParams = @ \o l.ast.params]
    BY DEF WhereLink
  <2> HIDE DEF b
  <2>4. IsChain(WhereLink(c, l.ast))
    BY <2>2, <2>3 DEF IsChain, Fields
  <2>5. \A f \in Types : WhereLink(c, l.ast)[f] = After(c[f], l, f)
    BY <1>1, <2>2, <2>3 DEF IsChain, Fields, Types, After, SameTypes
  <2> QED BY <2>1, <2>4, <2>5
<1>2. CASE l.clause = "group"
  <2>1. CallAgain(c, l) = GroupByLink(c, e)
    BY <1>2 DEF CallAgain, e
  <2> DEFINE b == Push(c, Link("group", l.ast, l.kind, "", NoSource))
  <2>2. IsChain(b) /\ SameTypes(b, c)
    BY PushedIs
  <2>3. GroupByLink(c, e) = [b EXCEPT !.groupParams = @ \o l.ast.params, !.grouped = "grouped"]
    BY <1>0 DEF GroupByLink
  <2> HIDE DEF b
  <2>4. IsChain(GroupByLink(c, e))
    BY <2>2, <2>3 DEF IsChain, Fields
  <2>5. \A f \in Types : GroupByLink(c, e)[f] = After(c[f], l, f)
    <3>1. \A f \in Types : GroupByLink(c, e)[f] =
            IF f = "groupParams" THEN b[f] \o l.ast.params
            ELSE IF f = "grouped" THEN "grouped" ELSE b[f]
      BY <2>2, <2>3 DEF IsChain, Fields, Types
    <3>2. \A f \in Types : b[f] = c[f]
      BY <2>2 DEF SameTypes
    <3> QED BY <1>2, <3>1, <3>2 DEF After
  <2> QED BY <2>1, <2>4, <2>5
<1>3. CASE l.clause = "having"
  <2>1. CallAgain(c, l) = HavingLink(c, l.ast)
    BY <1>3 DEF CallAgain
  <2> DEFINE b == Push(c, Link("having", l.ast, NoKind, "", NoSource))
  <2>2. IsChain(b) /\ SameTypes(b, c)
    BY PushedIs
  <2>3. HavingLink(c, l.ast) = [b EXCEPT !.havingParams = @ \o l.ast.params,
                                         !.grouped = HavingTransition(@, l.ast.columns)]
    BY DEF HavingLink
  <2> HIDE DEF b
  <2>4. IsChain(HavingLink(c, l.ast))
    BY <2>2, <2>3 DEF IsChain, Fields
  <2>5. \A f \in Types : HavingLink(c, l.ast)[f] = After(c[f], l, f)
    <3>1. \A f \in Types : HavingLink(c, l.ast)[f] =
            IF f = "havingParams" THEN b[f] \o l.ast.params
            ELSE IF f = "grouped" THEN HavingTransition(b[f], l.ast.columns) ELSE b[f]
      BY <2>2, <2>3 DEF IsChain, Fields, Types
    <3>2. \A f \in Types : b[f] = c[f]
      BY <2>2 DEF SameTypes
    <3> QED BY <1>3, <3>1, <3>2 DEF After
  <2> QED BY <2>1, <2>4, <2>5
<1>4. CASE l.clause = "order"
  <2>1. CallAgain(c, l) = OrderByLink(c, e)
    BY <1>4 DEF CallAgain, e
  <2> DEFINE b == Push(c, Link("order", l.ast, l.kind, "", NoSource))
  <2>2. IsChain(b) /\ SameTypes(b, c)
    BY PushedIs
  <2>3. OrderByLink(c, e) = [b EXCEPT !.orderParams = @ \o l.ast.params,
                                      !.orderClass = ExtendOrderClass(@, l.ast.term),
                                      !.orderKeys = <<l.kind.kind>> \o @]
    BY <1>0 DEF OrderByLink
  <2> HIDE DEF b
  <2>4. IsChain(OrderByLink(c, e))
    BY <2>2, <2>3 DEF IsChain, Fields
  <2>5. \A f \in Types : OrderByLink(c, e)[f] = After(c[f], l, f)
    <3>1. \A f \in Types : OrderByLink(c, e)[f] =
            IF f = "orderParams" THEN b[f] \o l.ast.params
            ELSE IF f = "orderClass" THEN ExtendOrderClass(b[f], l.ast.term)
            ELSE IF f = "orderKeys" THEN <<l.kind.kind>> \o b[f] ELSE b[f]
      BY <2>2, <2>3 DEF IsChain, Fields, Types
    <3>2. \A f \in Types : b[f] = c[f]
      BY <2>2 DEF SameTypes
    <3> QED BY <1>4, <3>1, <3>2 DEF After
  <2> QED BY <2>1, <2>4, <2>5
<1>5. CASE l.clause \in {"limit", "offset"}
  <2>1. \E k : CallAgain(c, l) = Push(c, k)
    BY <1>5 DEF CallAgain, LimitLink, OffsetLink
  <2>2. IsChain(CallAgain(c, l)) /\ SameTypes(CallAgain(c, l), c)
    BY <2>1, PushedIs
  <2> QED BY <1>5, <2>2 DEF SameTypes, After
<1>6. CASE l.clause = "lock"
  <2>1. CallAgain(c, l) = LockLink(c, l.arg)
    BY <1>6 DEF CallAgain
  <2> DEFINE b == Push(c, Link("lock", NoAst, NoKind, l.arg, NoSource))
  <2>2. IsChain(b) /\ SameTypes(b, c)
    BY PushedIs
  <2>3. LockLink(c, l.arg) = [b EXCEPT !.locked = TRUE]
    BY DEF LockLink
  <2> HIDE DEF b
  <2>4. IsChain(LockLink(c, l.arg))
    BY <2>2, <2>3 DEF IsChain, Fields
  <2>5. \A f \in Types : LockLink(c, l.arg)[f] = After(c[f], l, f)
    BY <1>6, <2>2, <2>3 DEF IsChain, Fields, Types, After, SameTypes
  <2> QED BY <2>1, <2>4, <2>5
<1>7. CASE l.clause = "distinct"
  <2>1. CallAgain(c, l) = DistinctLink(c)
    BY <1>7 DEF CallAgain
  <2> DEFINE b == Push(c, Link("distinct", NoAst, NoKind, "", NoSource))
  <2>2. IsChain(b) /\ SameTypes(b, c)
    BY PushedIs
  <2>3. DistinctLink(c) = [b EXCEPT !.distinct = TRUE]
    BY DEF DistinctLink
  <2> HIDE DEF b
  <2>4. IsChain(DistinctLink(c))
    BY <2>2, <2>3 DEF IsChain, Fields
  <2>5. \A f \in Types : DistinctLink(c)[f] = After(c[f], l, f)
    BY <1>7, <2>2, <2>3 DEF IsChain, Fields, Types, After, SameTypes
  <2> QED BY <2>1, <2>4, <2>5
<1> QED BY <1>1, <1>2, <1>3, <1>4, <1>5, <1>6, <1>7 DEF OwnClauses

LEMMA JoinedIs ==
    ASSUME NEW c, IsChain(c), NEW kind, NEW source, NEW on
    PROVE  LET j == Joined(c, kind, source, on)
           IN  /\ IsChain(j)
               /\ \A f \in Types : j[f] = IF f = "sourceParams" THEN c[f] \o on.params
                                         ELSE IF f = "rows" THEN JoinRows(c[f], Len(c.exprs) + 1, kind)
                                         ELSE c[f]
<1> DEFINE j == Joined(c, kind, source, on)
           b == Push(c, Link("join", on, NoKind, kind, source))
<1>1. IsChain(b) /\ SameTypes(b, c)
  BY PushedIs
<1>2. j = [b EXCEPT !.sourceParams = @ \o on.params, !.rows = JoinRows(@, Len(c.exprs) + 1, kind)]
  BY DEF Joined
<1> HIDE DEF b, j
<1>3. IsChain(j)
  BY <1>1, <1>2 DEF IsChain, Fields
<1>4. \A f \in Types : j[f] = IF f = "sourceParams" THEN b[f] \o on.params
                             ELSE IF f = "rows" THEN JoinRows(b[f], Len(c.exprs) + 1, kind)
                             ELSE b[f]
  BY <1>1, <1>2 DEF IsChain, Fields, Types
<1>5. \A f \in Types : b[f] = c[f]
  BY <1>1 DEF SameTypes
<1> QED BY <1>3, <1>4, <1>5 DEF j

\* A join changes the types by the types, whatever the links are.
LEMMA JoinsAgree ==
    ASSUME NEW c, IsChain(c), NEW d, IsChain(d), SameTypes(c, d), NEW kind, NEW source, NEW on
    PROVE  /\ IsChain(JoinLink(c, kind, source, on))
           /\ SameTypes(JoinLink(c, kind, source, on), JoinLink(d, kind, source, on))
           /\ IsChain(LeftJoinLink(c, source, on))
           /\ SameTypes(LeftJoinLink(c, source, on), LeftJoinLink(d, source, on))
           /\ IsChain(OuterJoinLink(c, kind, source, on))
           /\ SameTypes(OuterJoinLink(c, kind, source, on), OuterJoinLink(d, kind, source, on))
<1>1. ASSUME NEW k
      PROVE  /\ IsChain(Joined(c, k, source, on)) /\ IsChain(Joined(d, k, source, on))
             /\ SameTypes(Joined(c, k, source, on), Joined(d, k, source, on))
  <2>1. c.exprs = d.exprs /\ \A f \in Types : c[f] = d[f]
    BY DEF SameTypes, Types, Fields
  <2>2. /\ IsChain(Joined(c, k, source, on)) /\ IsChain(Joined(d, k, source, on))
        /\ \A f \in Types : Joined(c, k, source, on)[f]
             = IF f = "sourceParams" THEN c[f] \o on.params
               ELSE IF f = "rows" THEN JoinRows(c[f], Len(c.exprs) + 1, k) ELSE c[f]
        /\ \A f \in Types : Joined(d, k, source, on)[f]
             = IF f = "sourceParams" THEN d[f] \o on.params
               ELSE IF f = "rows" THEN JoinRows(d[f], Len(d.exprs) + 1, k) ELSE d[f]
    BY JoinedIs
  <2> QED BY <2>1, <2>2 DEF SameTypes
<1>2. ASSUME NEW a, IsChain(a), NEW b, IsChain(b), SameTypes(a, b), NEW exprs
      PROVE  /\ IsChain([a EXCEPT !.exprs = exprs])
             /\ SameTypes([a EXCEPT !.exprs = exprs], [b EXCEPT !.exprs = exprs])
  BY <1>2 DEF IsChain, SameTypes, Types, Fields
<1>3. ASSUME NEW k PROVE Joined(c, k, source, on).exprs = Joined(d, k, source, on).exprs
  BY <1>1 DEF SameTypes, Types, Fields
<1>4. /\ IsChain(JoinLink(c, kind, source, on))
      /\ SameTypes(JoinLink(c, kind, source, on), JoinLink(d, kind, source, on))
  BY <1>1, <1>2, <1>3 DEF JoinLink
<1>5. /\ IsChain(LeftJoinLink(c, source, on))
      /\ SameTypes(LeftJoinLink(c, source, on), LeftJoinLink(d, source, on))
  <2> DEFINE a == Joined(c, "left", source, on)
             b == Joined(d, "left", source, on)
             exprs == Append(a.exprs, SourceExpr(source, Len(a.exprs) + 1, TRUE))
  <2>1. /\ LeftJoinLink(c, source, on) = [a EXCEPT !.exprs = exprs, !.outer = TRUE]
        /\ LeftJoinLink(d, source, on) = [b EXCEPT !.exprs = exprs, !.outer = TRUE]
    BY <1>3 DEF LeftJoinLink
  <2>2. IsChain(a) /\ IsChain(b) /\ SameTypes(a, b)
    BY <1>1
  <2> HIDE DEF a, b, exprs
  <2>3. /\ IsChain([a EXCEPT !.exprs = exprs, !.outer = TRUE])
        /\ SameTypes([a EXCEPT !.exprs = exprs, !.outer = TRUE],
                     [b EXCEPT !.exprs = exprs, !.outer = TRUE])
    BY <2>2 DEF IsChain, SameTypes, Types, Fields
  <2> QED BY <2>1, <2>3
<1>6. /\ IsChain(OuterJoinLink(c, kind, source, on))
      /\ SameTypes(OuterJoinLink(c, kind, source, on), OuterJoinLink(d, kind, source, on))
  <2> DEFINE a == Joined(c, kind, source, on)
             b == Joined(d, kind, source, on)
             exprs == Append(IntoNullableExprs(a.exprs),
                             SourceExpr(source, Len(a.exprs) + 1, kind = "full"))
  <2>1. /\ OuterJoinLink(c, kind, source, on) = [a EXCEPT !.exprs = exprs, !.outer = TRUE]
        /\ OuterJoinLink(d, kind, source, on) = [b EXCEPT !.exprs = exprs, !.outer = TRUE]
    BY <1>3 DEF OuterJoinLink
  <2>2. IsChain(a) /\ IsChain(b) /\ SameTypes(a, b)
    BY <1>1
  <2> HIDE DEF a, b, exprs
  <2>3. /\ IsChain([a EXCEPT !.exprs = exprs, !.outer = TRUE])
        /\ SameTypes([a EXCEPT !.exprs = exprs, !.outer = TRUE],
                     [b EXCEPT !.exprs = exprs, !.outer = TRUE])
    BY <2>2 DEF IsChain, SameTypes, Types, Fields
  <2> QED BY <2>1, <2>3
<1> QED BY <1>4, <1>5, <1>6

LEMMA AgainAgrees ==
    ASSUME NEW c, IsChain(c), NEW d, IsChain(d), SameTypes(c, d), NEW l, Callable(l)
    PROVE  IsChain(CallAgain(c, l)) /\ SameTypes(CallAgain(c, l), CallAgain(d, l))
<1>1. CASE l.clause \in OwnClauses
  <2>1. /\ IsChain(CallAgain(c, l))
        /\ \A f \in Types : CallAgain(c, l)[f] = After(c[f], l, f)
        /\ \A f \in Types : CallAgain(d, l)[f] = After(d[f], l, f)
    BY <1>1, AgainIs
  <2> QED BY <2>1 DEF SameTypes
<1>2. CASE l.clause = "join" /\ l.arg \in {"inner", "cross"}
  <2>1. \A b : CallAgain(b, l) = JoinLink(b, l.arg, l.source, l.ast)
    BY <1>2 DEF CallAgain
  <2> QED BY <2>1, JoinsAgree
<1>3. CASE l.clause = "join" /\ l.arg = "left"
  <2>1. \A b : CallAgain(b, l) = LeftJoinLink(b, l.source, l.ast)
    BY <1>3 DEF CallAgain
  <2> QED BY <2>1, JoinsAgree
<1>4. CASE l.clause = "join" /\ l.arg \in {"right", "full"}
  <2>1. \A b : CallAgain(b, l) = OuterJoinLink(b, l.arg, l.source, l.ast)
    BY <1>4 DEF CallAgain
  <2> QED BY <2>1, JoinsAgree
<1> QED BY <1>1, <1>2, <1>3, <1>4 DEF Callable, JoinKinds

\* Two calls of different clauses.  Only GROUP BY and HAVING touch the same type: grouped is
\* grouped, whether HAVING came before or after.
LEMMA CallsCommute ==
    ASSUME NEW c, IsChain(c), NEW l, l.clause \in OwnClauses, NEW k, k.clause \in OwnClauses,
           l.clause # k.clause
    PROVE  SameTypes(CallAgain(CallAgain(c, k), l), CallAgain(CallAgain(c, l), k))
<1>1. \A v, f : After(After(v, k, f), l, f) = After(After(v, l, f), k, f)
  <2> SUFFICES ASSUME NEW v, NEW f PROVE After(After(v, k, f), l, f) = After(After(v, l, f), k, f)
    OBVIOUS
  <2>1. CASE f = "grouped"
    <3>1. \A v1, l1 : After(v1, l1, f) = IF l1.clause = "group" THEN "grouped"
                                       ELSE IF l1.clause = "having" THEN HavingTransition(v1, l1.ast.columns)
                                       ELSE v1
      BY <2>1 DEF After
    <3>2. \A columns : HavingTransition("grouped", columns) = "grouped"
      BY DEF HavingTransition
    <3> QED BY <3>1, <3>2
  <2>2. CASE f # "grouped"
    <3> DEFINE clause == CASE f = "filterParams" -> "where"
                           [] f = "groupParams" -> "group"
                           [] f = "havingParams" -> "having"
                           [] f \in {"orderParams", "orderClass", "orderKeys"} -> "order"
                           [] f = "locked" -> "lock"
                           [] f = "distinct" -> "distinct"
                           [] OTHER -> "none"
    <3>1. \A v1, l1 : l1.clause # clause => After(v1, l1, f) = v1
      BY <2>2 DEF After
    <3> HIDE DEF clause
    <3> QED BY <3>1
  <2> QED BY <2>1, <2>2
<1>2. /\ IsChain(CallAgain(c, k)) /\ IsChain(CallAgain(c, l))
      /\ \A f \in Types : CallAgain(c, k)[f] = After(c[f], k, f)
      /\ \A f \in Types : CallAgain(c, l)[f] = After(c[f], l, f)
  BY AgainIs
<1>3. /\ \A f \in Types : CallAgain(CallAgain(c, k), l)[f] = After(CallAgain(c, k)[f], l, f)
      /\ \A f \in Types : CallAgain(CallAgain(c, l), k)[f] = After(CallAgain(c, l)[f], k, f)
  BY <1>2, AgainIs
<1> QED BY <1>1, <1>2, <1>3 DEF SameTypes

-----------------------------------------------------------------------------
(* Replaying the calls of a chain.                                         *)

IsReplay(after, links, n) ==
    after = [i \in 1 .. n |-> IF i = 1 THEN FromLink(links[1].source)
                              ELSE CallAgain(after[i - 1], links[i])]

LEMMA ReplaySteps ==
    ASSUME NEW links, NEW n \in Nat, NEW after, IsReplay(after, links, n)
    PROVE  /\ n >= 1 => after[1] = FromLink(links[1].source)
           /\ \A i \in 2 .. n : after[i] = CallAgain(after[i - 1], links[i])
<1> DEFINE next(i) == IF i = 1 THEN FromLink(links[1].source) ELSE CallAgain(after[i - 1], links[i])
<1>1. after = [i \in 1 .. n |-> next(i)]
  BY DEF IsReplay
<1> HIDE DEF next
<1>2. \A i \in 1 .. n : after[i] = next(i)
  BY <1>1
<1>3. n >= 1 => after[1] = next(1)
  BY <1>2
<1>4. \A i \in 2 .. n : after[i] = next(i)
  BY <1>2
<1> QED BY <1>3, <1>4 DEF next

LEMMA ReplayExists ==
    ASSUME NEW links, NEW n \in Nat
    PROVE  \E after : IsReplay(after, links, n)
<1> DEFINE T == {m \in Nat : \E after : IsReplay(after, links, m)}
<1>1. 0 \in T
  <2> DEFINE none == [i \in 1 .. 0 |-> i]
  <2>1. IsReplay(none, links, 0)
    BY DEF IsReplay
  <2> QED BY <2>1
<1>2. ASSUME NEW m \in Nat, m \in T PROVE m + 1 \in T
  <2>1. PICK g : IsReplay(g, links, m)
    BY <1>2
  <2> DEFINE next(h, i) == IF i = 1 THEN FromLink(links[1].source) ELSE CallAgain(h[i - 1], links[i])
             h == [i \in 1 .. m + 1 |-> IF i <= m THEN g[i] ELSE next(g, i)]
  <2>2. \A i \in 1 .. m : g[i] = next(g, i)
    <3>1. m >= 1 => g[1] = next(g, 1)
      BY <2>1, ReplaySteps
    <3>2. \A i \in 2 .. m : g[i] = next(g, i)
      BY <2>1, ReplaySteps
    <3> HIDE DEF next
    <3>3. \A i \in 1 .. m : m >= 1 /\ (i = 1 \/ i \in 2 .. m)
      OBVIOUS
    <3> QED BY <3>1, <3>2, <3>3
  <2>3. \A i \in 1 .. m + 1 : h[i] = next(g, i)
    BY <2>2
  <2>4. \A i \in 2 .. m + 1 : h[i - 1] = g[i - 1]
    OBVIOUS
  <2>5. h = [i \in 1 .. m + 1 |-> h[i]]
    OBVIOUS
  <2> HIDE DEF h
  <2>6. \A i \in 1 .. m + 1 : h[i] = next(h, i)
    <3> SUFFICES ASSUME NEW i \in 1 .. m + 1 PROVE h[i] = next(h, i)
      OBVIOUS
    <3>1. i = 1 \/ i \in 2 .. m + 1
      OBVIOUS
    <3> QED BY <2>3, <2>4, <3>1
  <2>7. IsReplay(h, links, m + 1)
    BY <2>5, <2>6 DEF IsReplay
  <2> QED BY <2>7
<1> HIDE DEF T
<1>3. n \in T
  BY <1>1, <1>2, Induction
<1> QED BY <1>3 DEF T

\* The same first calls lead to the same chains.
LEMMA ReplaysAgree ==
    ASSUME NEW L, NEW M, NEW f, NEW g, NEW m \in Nat, NEW n \in Nat, NEW p \in Nat,
           IsReplay(f, L, m), IsReplay(g, M, n), p <= m, p <= n,
           SameUpTo(p, L, M)
    PROVE  SameUpTo(p, f, g)
<1> DEFINE T == {i \in 1 .. p : f[i] = g[i]}
<1>1. /\ m >= 1 => f[1] = FromLink(L[1].source)
      /\ \A i \in 2 .. m : f[i] = CallAgain(f[i - 1], L[i])
      /\ n >= 1 => g[1] = FromLink(M[1].source)
      /\ \A i \in 2 .. n : g[i] = CallAgain(g[i - 1], M[i])
  BY ReplaySteps
<1>2. p >= 1 => 1 \in T
  <2>1. p >= 1 => 1 \in 1 .. p /\ m >= 1 /\ n >= 1
    OBVIOUS
  <2> QED BY <1>1, <2>1 DEF SameUpTo
<1>3. ASSUME NEW i \in 1 .. p, i \in T, i < p PROVE i + 1 \in T
  <2>1. i + 1 \in 2 .. m /\ i + 1 \in 2 .. n /\ i + 1 \in 1 .. p /\ (i + 1) - 1 = i
    BY <1>3
  <2>2. f[i + 1] = CallAgain(f[i], L[i + 1]) /\ g[i + 1] = CallAgain(g[i], M[i + 1])
    BY <1>1, <2>1
  <2>3. L[i + 1] = M[i + 1] /\ f[i] = g[i]
    BY <1>3, <2>1 DEF SameUpTo
  <2> QED BY <2>1, <2>2, <2>3
<1> HIDE DEF T
<1>4. 1 .. p \subseteq T
  BY <1>2, <1>3, InductionUpTo
<1> QED BY <1>4 DEF T, SameUpTo

LEMMA ReplayIs ==
    ASSUME NEW S, NEW links \in Seq(S)
    PROVE  \E after : IsReplay(after, links, Len(links)) /\ Replay(links) = after[Len(links)]
<1>1. DOMAIN links = 1 .. Len(links) /\ Len(links) \in Nat
  BY LenProperties
<1>2. \E after : IsReplay(after, links, Len(links))
  BY <1>1, ReplayExists
<1> QED BY <1>1, <1>2 DEF Replay, IsReplay

LEMMA ReplayAppend ==
    ASSUME NEW S, NEW links \in Seq(S), links # <<>>, NEW l \in S
    PROVE  Replay(Append(links, l)) = CallAgain(Replay(links), l)
<1> DEFINE n == Len(links)
           M == Append(links, l)
<1>1. n \in Nat /\ n >= 1 /\ M \in Seq(S) /\ Len(M) = n + 1
  BY AppendProperties, EmptySeq, LenProperties
<1>2. M[n + 1] = l /\ \A i \in 1 .. n : M[i] = links[i]
  BY AppendProperties
<1>3. PICK f : IsReplay(f, links, n) /\ Replay(links) = f[n]
  BY ReplayIs
<1>4. PICK g : IsReplay(g, M, n + 1) /\ Replay(M) = g[n + 1]
  BY <1>1, ReplayIs
<1> HIDE DEF n, M
<1>5. SameUpTo(n, f, g)
  <2>1. n <= n /\ n <= n + 1 /\ n + 1 \in Nat
    BY <1>1
  <2>2. SameUpTo(n, links, M)
    BY <1>2 DEF SameUpTo
  <2> QED BY <1>1, <1>3, <1>4, <2>1, <2>2, ReplaysAgree
<1>6. n + 1 \in 2 .. n + 1 /\ (n + 1) - 1 = n /\ n \in 1 .. n
  BY <1>1
<1>7. g[n + 1] = CallAgain(g[n], M[n + 1])
  BY <1>1, <1>4, <1>6, ReplaySteps
<1>8. f[n] = g[n]
  BY <1>5, <1>6 DEF SameUpTo
<1> QED BY <1>2, <1>3, <1>4, <1>7, <1>8 DEF M

\* A chain is what its calls make of it.
ReplayInv(c) ==
    /\ IsChain(c)
    /\ c.links \in Seq(Range(c.links)) /\ c.links # <<>>
    /\ \A i \in 2 .. Len(c.links) : Callable(c.links[i])
    /\ Replay(c.links) = c

LEMMA ReplayGrows ==
    ASSUME NEW c, ReplayInv(c), NEW l, Callable(l),
           NEW d, d = CallAgain(c, l), Extends(c, d, l)
    PROVE  ReplayInv(d)
<1> DEFINE S == Range(c.links) \cup {l}
           n == Len(c.links)
<1>1. IsChain(d)
  BY AgainAgrees DEF ReplayInv, SameTypes
<1>2. /\ d.links \in Seq(Range(d.links)) /\ Range(d.links) = S /\ Len(d.links) = n + 1
      /\ d.links = Append(c.links, l)
  BY PushIs DEF ReplayInv, Extends
<1>3. c.links \in Seq(S) /\ n \in Nat
  BY LenProperties DEF ReplayInv
<1>4. d.links # <<>>
  BY <1>2, <1>3
<1>5. \A i \in 2 .. Len(d.links) : Callable(d.links[i])
  <2>1. d.links[n + 1] = l /\ \A i \in 1 .. n : d.links[i] = c.links[i]
    BY <1>2, <1>3, AppendProperties
  <2>2. \A i \in 2 .. n + 1 : i = n + 1 \/ i \in 2 .. n
    BY <1>3
  <2>3. \A i \in 2 .. n : i \in 1 .. n /\ Callable(c.links[i])
    BY <1>3 DEF ReplayInv
  <2> QED BY <1>2, <2>1, <2>2, <2>3
<1>6. Replay(d.links) = d
  <2>1. Replay(Append(c.links, l)) = CallAgain(Replay(c.links), l)
    BY <1>3, ReplayAppend DEF ReplayInv
  <2> QED BY <1>2, <2>1 DEF ReplayInv
<1> QED BY <1>1, <1>2, <1>4, <1>5, <1>6 DEF ReplayInv

LEMMA ReplayBegins ==
    ASSUME NEW s
    PROVE  ReplayInv(FromLink(s))
<1> DEFINE c == FromLink(s)
           l == Link("from", NoAst, NoKind, "from", s)
<1>1. c.links = <<l>> /\ l.source = s
  BY DEF FromLink, Link
<1>2. IsChain(c)
  BY DEF IsChain, FromLink, Fields
<1> HIDE DEF l
<1>3. Range(c.links) = {l} /\ c.links \in Seq({l}) /\ Len(c.links) = 1 /\ c.links # <<>>
  BY <1>1 DEF Range
<1>4. Replay(c.links) = c
  <2>1. PICK f : IsReplay(f, c.links, Len(c.links)) /\ Replay(c.links) = f[Len(c.links)]
    BY <1>3, ReplayIs
  <2>2. f[1] = FromLink(c.links[1].source)
    BY <1>3, <2>1, ReplaySteps
  <2> QED BY <1>1, <1>3, <2>1, <2>2
<1> QED BY <1>2, <1>3, <1>4 DEF ReplayInv

\* Every method of the builder is one of the calls.
LEMMA ClausesReplay ==
    ASSUME NEW c, ReplayInv(c), NEW p, NEW e, NEW arg
    PROVE  /\ ReplayInv(WhereLink(c, p)) /\ ReplayInv(HavingLink(c, p))
           /\ ReplayInv(GroupByLink(c, e)) /\ ReplayInv(OrderByLink(c, e))
           /\ ReplayInv(LimitLink(c, arg)) /\ ReplayInv(OffsetLink(c, arg))
           /\ ReplayInv(LockLink(c, arg)) /\ ReplayInv(DistinctLink(c))
<1>0. IsChain(c)
  BY DEF ReplayInv
<1>1. ReplayInv(WhereLink(c, p))
  <2> DEFINE l == Link("where", p, NoKind, "", NoSource)
             d == WhereLink(c, p)
  <2>1. Callable(l)
    BY DEF Link, Callable, OwnClauses
  <2>2. d = CallAgain(c, l)
    BY DEF Link, CallAgain
  <2>3. Extends(c, d, l)
    BY <1>0 DEF Extends, WhereLink, Push, IsChain, Fields
  <2> HIDE DEF l, d
  <2>4. ReplayInv(d)
    BY <2>1, <2>2, <2>3, ReplayGrows
  <2> QED BY <2>4 DEF d
<1>2. ReplayInv(HavingLink(c, p))
  <2> DEFINE l == Link("having", p, NoKind, "", NoSource)
             d == HavingLink(c, p)
  <2>1. Callable(l)
    BY DEF Link, Callable, OwnClauses
  <2>2. d = CallAgain(c, l)
    BY DEF Link, CallAgain
  <2>3. Extends(c, d, l)
    BY <1>0 DEF Extends, HavingLink, Push, IsChain, Fields
  <2> HIDE DEF l, d
  <2>4. ReplayInv(d)
    BY <2>1, <2>2, <2>3, ReplayGrows
  <2> QED BY <2>4 DEF d
<1>3. ReplayInv(GroupByLink(c, e))
  <2> DEFINE l == Link("group", e.ast, e.kind, "", NoSource)
             d == GroupByLink(c, e)
  <2>1. Callable(l)
    BY DEF Link, Callable, OwnClauses
  <2>2. d = CallAgain(c, l)
    BY DEF Link, CallAgain, GroupByLink, Expr
  <2>3. Extends(c, d, l)
    BY <1>0 DEF Extends, GroupByLink, Push, IsChain, Fields
  <2> HIDE DEF l, d
  <2>4. ReplayInv(d)
    BY <2>1, <2>2, <2>3, ReplayGrows
  <2> QED BY <2>4 DEF d
<1>4. ReplayInv(OrderByLink(c, e))
  <2> DEFINE l == Link("order", e.ast, e.kind, "", NoSource)
             d == OrderByLink(c, e)
  <2>1. Callable(l)
    BY DEF Link, Callable, OwnClauses
  <2>2. d = CallAgain(c, l)
    BY DEF Link, CallAgain, OrderByLink, Expr
  <2>3. Extends(c, d, l)
    BY <1>0 DEF Extends, OrderByLink, Push, IsChain, Fields
  <2> HIDE DEF l, d
  <2>4. ReplayInv(d)
    BY <2>1, <2>2, <2>3, ReplayGrows
  <2> QED BY <2>4 DEF d
<1>5. ReplayInv(LimitLink(c, arg))
  <2> DEFINE l == Link("limit", NoAst, NoKind, arg, NoSource)
             d == LimitLink(c, arg)
  <2>1. Callable(l)
    BY DEF Link, Callable, OwnClauses
  <2>2. d = CallAgain(c, l)
    BY DEF Link, CallAgain
  <2>3. Extends(c, d, l)
    BY <1>0 DEF Extends, LimitLink, Push, IsChain, Fields
  <2> HIDE DEF l, d
  <2>4. ReplayInv(d)
    BY <2>1, <2>2, <2>3, ReplayGrows
  <2> QED BY <2>4 DEF d
<1>6. ReplayInv(OffsetLink(c, arg))
  <2> DEFINE l == Link("offset", NoAst, NoKind, arg, NoSource)
             d == OffsetLink(c, arg)
  <2>1. Callable(l)
    BY DEF Link, Callable, OwnClauses
  <2>2. d = CallAgain(c, l)
    BY DEF Link, CallAgain
  <2>3. Extends(c, d, l)
    BY <1>0 DEF Extends, OffsetLink, Push, IsChain, Fields
  <2> HIDE DEF l, d
  <2>4. ReplayInv(d)
    BY <2>1, <2>2, <2>3, ReplayGrows
  <2> QED BY <2>4 DEF d
<1>7. ReplayInv(LockLink(c, arg))
  <2> DEFINE l == Link("lock", NoAst, NoKind, arg, NoSource)
             d == LockLink(c, arg)
  <2>1. Callable(l)
    BY DEF Link, Callable, OwnClauses
  <2>2. d = CallAgain(c, l)
    BY DEF Link, CallAgain
  <2>3. Extends(c, d, l)
    BY <1>0 DEF Extends, LockLink, Push, IsChain, Fields
  <2> HIDE DEF l, d
  <2>4. ReplayInv(d)
    BY <2>1, <2>2, <2>3, ReplayGrows
  <2> QED BY <2>4 DEF d
<1>8. ReplayInv(DistinctLink(c))
  <2> DEFINE l == Link("distinct", NoAst, NoKind, "", NoSource)
             d == DistinctLink(c)
  <2>1. Callable(l)
    BY DEF Link, Callable, OwnClauses
  <2>2. d = CallAgain(c, l)
    BY DEF Link, CallAgain
  <2>3. Extends(c, d, l)
    BY <1>0 DEF Extends, DistinctLink, Push, IsChain, Fields
  <2> HIDE DEF l, d
  <2>4. ReplayInv(d)
    BY <2>1, <2>2, <2>3, ReplayGrows
  <2> QED BY <2>4 DEF d
<1> QED BY <1>1, <1>2, <1>3, <1>4, <1>5, <1>6, <1>7, <1>8

LEMMA JoinsReplay ==
    ASSUME NEW c, ReplayInv(c), NEW kind, NEW source, NEW on
    PROVE  /\ kind \in {"inner", "cross"} => ReplayInv(JoinLink(c, kind, source, on))
           /\ ReplayInv(LeftJoinLink(c, source, on))
           /\ kind \in {"right", "full"} => ReplayInv(OuterJoinLink(c, kind, source, on))
<1>0. IsChain(c)
  BY DEF ReplayInv
<1>1. ASSUME kind \in {"inner", "cross"} PROVE ReplayInv(JoinLink(c, kind, source, on))
  <2> DEFINE l == Link("join", on, NoKind, kind, source)
             d == JoinLink(c, kind, source, on)
  <2>1. Callable(l)
    BY <1>1 DEF Link, Callable, JoinKinds
  <2>2. d = CallAgain(c, l)
    BY <1>1 DEF Link, CallAgain
  <2>3. Extends(c, d, l)
    BY <1>0 DEF Extends, JoinLink, Joined, Push, IsChain, Fields
  <2> HIDE DEF l, d
  <2>4. ReplayInv(d)
    BY <2>1, <2>2, <2>3, ReplayGrows
  <2> QED BY <2>4 DEF d
<1>2. ReplayInv(LeftJoinLink(c, source, on))
  <2> DEFINE l == Link("join", on, NoKind, "left", source)
             d == LeftJoinLink(c, source, on)
  <2>1. Callable(l)
    BY DEF Link, Callable, JoinKinds
  <2>2. d = CallAgain(c, l)
    BY DEF Link, CallAgain
  <2>3. Extends(c, d, l)
    BY <1>0 DEF Extends, LeftJoinLink, Joined, Push, IsChain, Fields
  <2> HIDE DEF l, d
  <2>4. ReplayInv(d)
    BY <2>1, <2>2, <2>3, ReplayGrows
  <2> QED BY <2>4 DEF d
<1>3. ASSUME kind \in {"right", "full"} PROVE ReplayInv(OuterJoinLink(c, kind, source, on))
  <2> DEFINE l == Link("join", on, NoKind, kind, source)
             d == OuterJoinLink(c, kind, source, on)
  <2>1. Callable(l)
    BY <1>3 DEF Link, Callable, JoinKinds
  <2>2. d = CallAgain(c, l)
    BY <1>3 DEF Link, CallAgain
  <2>3. Extends(c, d, l)
    BY <1>0 DEF Extends, OuterJoinLink, Joined, Push, IsChain, Fields
  <2> HIDE DEF l, d
  <2>4. ReplayInv(d)
    BY <2>1, <2>2, <2>3, ReplayGrows
  <2> QED BY <2>4 DEF d
<1> QED BY <1>1, <1>2, <1>3

LEMMA ReplayStep == ReplayInv(chain) /\ [Next]_vars => ReplayInv(chain)'
<1> SUFFICES ASSUME ReplayInv(chain), [Next]_vars PROVE ReplayInv(chain')
  OBVIOUS
<1>1. CASE Where \/ Having
  <2>1. \E p : chain' = WhereLink(chain, p) \/ chain' = HavingLink(chain, p)
    BY <1>1 DEF Where, Having
  <2> QED BY <2>1, ClausesReplay
<1>2. CASE GroupBy \/ OrderBy
  <2>1. \E e : chain' = GroupByLink(chain, e) \/ chain' = OrderByLink(chain, e)
    BY <1>2 DEF GroupBy, OrderBy
  <2> QED BY <2>1, ClausesReplay
<1>3. CASE OrderByPair
  <2>1. PICK d, e : chain' = OrderByLink(OrderByLink(chain, d), e)
    BY <1>3 DEF OrderByPair
  <2>2. ReplayInv(OrderByLink(chain, d))
    BY ClausesReplay
  <2> QED BY <2>1, <2>2, ClausesReplay
<1>4. CASE Limit \/ Offset \/ Distinct \/ Lock
  <2>1. \E arg : \/ chain' = LimitLink(chain, arg) \/ chain' = OffsetLink(chain, arg)
                 \/ chain' = LockLink(chain, arg) \/ chain' = DistinctLink(chain)
    BY <1>4 DEF Limit, Offset, Distinct, Lock
  <2> QED BY <2>1, ClausesReplay
<1>5. CASE InnerJoin \/ CrossJoin
  <2>1. \E s, on : chain' = JoinLink(chain, "inner", s, on) \/ chain' = JoinLink(chain, "cross", s, on)
    BY <1>5 DEF InnerJoin, CrossJoin
  <2> QED BY <2>1, JoinsReplay
<1>8. CASE LeftJoin
  <2>1. \E s, on : chain' = LeftJoinLink(chain, s, on)
    BY <1>8 DEF LeftJoin
  <2> QED BY <2>1, JoinsReplay
<1>9. CASE RightJoin \/ FullJoin
  <2>1. \E s, on : \/ chain' = OuterJoinLink(chain, "right", s, on)
                   \/ chain' = OuterJoinLink(chain, "full", s, on)
    BY <1>9 DEF RightJoin, FullJoin
  <2> QED BY <2>1, JoinsReplay
<1>6. CASE SelectSubquery
  <2>1. PICK s : chain' = FromLink(s)
    BY <1>6 DEF SelectSubquery
  <2> QED BY <2>1, ReplayBegins
<1>7. CASE Select \/ SelectOver \/ UNCHANGED vars
  <2>1. UNCHANGED chain
    BY <1>7 DEF Select, SelectOver, vars
  <2> QED BY <2>1
<1> QED BY <1>1, <1>2, <1>3, <1>4, <1>5, <1>6, <1>7, <1>8, <1>9 DEF Next

LEMMA ReplayInvariance == Spec => []ReplayInv(chain)
<1>1. Init => ReplayInv(chain)
  BY ReplayBegins DEF Init
<1> QED BY <1>1, ReplayStep, PTL DEF Spec

\* Every chain a replay passes through is one.
LEMMA ReplaysAreChains ==
    ASSUME NEW links, NEW n \in Nat, NEW f, IsReplay(f, links, n),
           \A i \in 2 .. n : Callable(links[i])
    PROVE  \A i \in 1 .. n : IsChain(f[i])
<1> DEFINE T == {i \in 1 .. n : IsChain(f[i])}
<1>1. /\ n >= 1 => f[1] = FromLink(links[1].source)
      /\ \A i \in 2 .. n : f[i] = CallAgain(f[i - 1], links[i])
  BY ReplaySteps
<1>2. n >= 1 => 1 \in T
  <2>1. n >= 1 => 1 \in 1 .. n
    OBVIOUS
  <2> QED BY <1>1, <2>1, ReplayBegins DEF ReplayInv
<1>3. ASSUME NEW i \in 1 .. n, i \in T, i < n PROVE i + 1 \in T
  <2>1. i + 1 \in 2 .. n /\ i + 1 \in 1 .. n /\ (i + 1) - 1 = i
    BY <1>3
  <2>2. f[i + 1] = CallAgain(f[i], links[i + 1]) /\ Callable(links[i + 1]) /\ IsChain(f[i])
    BY <1>1, <1>3, <2>1
  <2>3. IsChain(f[i + 1])
    BY <2>2, AgainAgrees DEF SameTypes
  <2> QED BY <2>1, <2>3
<1> HIDE DEF T
<1>4. 1 .. n \subseteq T
  BY <1>2, <1>3, InductionUpTo
<1> QED BY <1>4 DEF T

\* Once two replays have the same types, the same calls keep it so.
LEMMA SameTypesOn ==
    ASSUME NEW L, NEW M, NEW n \in Nat, NEW f, NEW g, NEW m \in 1 .. n,
           IsReplay(f, L, n), IsReplay(g, M, n),
           \A i \in 2 .. n : Callable(L[i]) /\ Callable(M[i]),
           SameTypes(f[m], g[m]), \A i \in m + 1 .. n : L[i] = M[i]
    PROVE  SameTypes(f[n], g[n])
<1> DEFINE T == {i \in 1 .. n : i >= m => SameTypes(f[i], g[i])}
<1>1. /\ \A i \in 2 .. n : f[i] = CallAgain(f[i - 1], L[i])
      /\ \A i \in 2 .. n : g[i] = CallAgain(g[i - 1], M[i])
      /\ \A i \in 1 .. n : IsChain(f[i]) /\ IsChain(g[i])
  BY ReplaySteps, ReplaysAreChains
<1>2. 1 \in T
  BY DEF T
<1>3. ASSUME NEW i \in 1 .. n, i \in T, i < n PROVE i + 1 \in T
  <2>1. i + 1 \in 2 .. n /\ i + 1 \in 1 .. n /\ (i + 1) - 1 = i
    BY <1>3
  <2>2. CASE i + 1 < m
    BY <2>1, <2>2
  <2>3. CASE i + 1 = m
    BY <2>1, <2>3
  <2>4. CASE i >= m
    <3>1. SameTypes(f[i], g[i]) /\ L[i + 1] = M[i + 1]
      BY <1>3, <2>1, <2>4
    <3>2. /\ f[i + 1] = CallAgain(f[i], L[i + 1]) /\ g[i + 1] = CallAgain(g[i], L[i + 1])
          /\ IsChain(f[i]) /\ IsChain(g[i]) /\ Callable(L[i + 1])
      BY <1>1, <2>1, <3>1
    <3>3. SameTypes(f[i + 1], g[i + 1])
      BY <3>1, <3>2, AgainAgrees
    <3> QED BY <2>1, <3>3
  <2> QED BY <2>2, <2>3, <2>4
<1> HIDE DEF T
<1>4. 1 .. n \subseteq T
  BY <1>2, <1>3, InductionUpTo
<1>5. n \in T /\ n >= m
  BY <1>4
<1> QED BY <1>5 DEF T

LEMMA SwapKeepsTypes ==
    ASSUME NEW c, ReplayInv(c), NEW i \in 2 .. Len(c.links) - 1,
           c.links[i].clause # c.links[i + 1].clause,
           c.links[i].clause # "join", c.links[i + 1].clause # "join"
    PROVE  TypesOf(Replay([c.links EXCEPT ![i] = c.links[i + 1], ![i + 1] = c.links[i]]))
             = TypesOf(c)
<1> DEFINE L == c.links
           n == Len(L)
           l == L[i]
           k == L[i + 1]
           M == [L EXCEPT ![i] = k, ![i + 1] = l]
           S == Range(L)
<1>1. L \in Seq(S) /\ n \in Nat /\ DOMAIN L = 1 .. n
  BY LenProperties DEF ReplayInv
<1>2. i \in 2 .. n /\ i + 1 \in 2 .. n /\ i - 1 \in 1 .. n /\ i - 1 \in Nat /\ i - 1 <= n
      /\ i + 1 \in 1 .. n /\ i \in 1 .. n /\ (i + 1) - 1 = i /\ i # i + 1
  BY <1>1
<1>3. l \in S /\ k \in S
  BY <1>1, <1>2, ElementOfSeq
<1>4. M \in Seq(S) /\ Len(M) = n
  BY <1>1, <1>2, <1>3, ExceptSeq
<1>5. M[i] = k /\ M[i + 1] = l /\ \A j \in 1 .. n : j \notin {i, i + 1} => M[j] = L[j]
  BY <1>1, <1>2
<1>6. \A j \in 2 .. n : Callable(L[j])
  BY DEF ReplayInv
<1>7. \A j \in 2 .. n : Callable(L[j]) /\ Callable(M[j])
  <2>1. \A j \in 2 .. n : j = i \/ j = i + 1 \/ (j \in 1 .. n /\ j \notin {i, i + 1})
    OBVIOUS
  <2>2. Callable(l) /\ Callable(k)
    BY <1>2, <1>6
  <2> HIDE DEF M
  <2> QED BY <1>5, <1>6, <2>1, <2>2
<1>8. l.clause \in OwnClauses /\ k.clause \in OwnClauses /\ l.clause # k.clause
  BY <1>2, <1>6 DEF Callable
<1> HIDE DEF M, S, n
<1>9. PICK f : IsReplay(f, L, n) /\ Replay(L) = f[n]
  BY <1>1, ReplayIs DEF n
<1>10. PICK g : IsReplay(g, M, n) /\ Replay(M) = g[n]
  BY <1>4, ReplayIs
<1>11. /\ \A j \in 1 .. n : IsChain(f[j]) /\ IsChain(g[j])
       /\ \A j \in 2 .. n : f[j] = CallAgain(f[j - 1], L[j])
       /\ \A j \in 2 .. n : g[j] = CallAgain(g[j - 1], M[j])
  BY <1>1, <1>7, <1>9, <1>10, ReplaySteps, ReplaysAreChains
<1>12. f[i - 1] = g[i - 1]
  <2>1. SameUpTo(i - 1, L, M)
    <3>1. \A j \in 1 .. i - 1 : j \in 1 .. n /\ j \notin {i, i + 1}
      BY <1>1, <1>2
    <3> QED BY <1>5, <3>1 DEF SameUpTo
  <2>2. SameUpTo(i - 1, f, g)
    BY <1>1, <1>2, <1>9, <1>10, <2>1, ReplaysAgree
  <2>3. i - 1 \in 1 .. i - 1
    BY <1>2
  <2> QED BY <2>2, <2>3 DEF SameUpTo
<1>13. /\ f[i + 1] = CallAgain(CallAgain(f[i - 1], l), k)
       /\ g[i + 1] = CallAgain(CallAgain(f[i - 1], k), l)
  BY <1>2, <1>5, <1>11, <1>12
<1>14. SameTypes(f[i + 1], g[i + 1])
  <2>1. IsChain(f[i - 1])
    BY <1>2, <1>11
  <2> QED BY <1>8, <1>13, <2>1, CallsCommute
<1>15. SameTypes(f[n], g[n])
  <2>1. \A j \in (i + 1) + 1 .. n : L[j] = M[j]
    <3>1. \A j \in (i + 1) + 1 .. n : j \in 1 .. n /\ j \notin {i, i + 1}
      BY <1>1, <1>2
    <3> QED BY <1>5, <3>1
  <2> QED BY <1>1, <1>2, <1>7, <1>9, <1>10, <1>14, <2>1, SameTypesOn
<1>16. IsChain(f[n]) /\ IsChain(g[n])
  <2>1. n \in 1 .. n
    BY <1>1, <1>2
  <2> QED BY <1>11, <2>1
<1>17. TypesOf(Replay(M)) = TypesOf(Replay(L))
  BY <1>9, <1>10, <1>15, <1>16, TypesAre DEF SameTypes
<1> QED BY <1>17 DEF ReplayInv, M

\* Calls of different clauses commute: whatever was called before, between and after, swapping
\* two neighbours that are no joins leaves the types as they are, so the same selects compile.
THEOREM CallOrder == Spec => []CallOrderIsFree
<1>1. ReplayInv(chain) => CallOrderIsFree
  BY SwapKeepsTypes DEF CallOrderIsFree
<1> QED BY <1>1, ReplayInvariance, PTL

(***************************************************************************)
(* What the SELECT builder writes: the parameters of its types are the     *)
(* placeholders of its text, in order, and the CTEs it collects are those  *)
(* the text refers to, for any tables, menus and number of calls; under    *)
(* DISTINCT it sorts by columns it projects.                               *)
(*                                                                         *)
(* The first two are facts about a text, and a text is put together from   *)
(* texts.  Rendered says them of any record with a text, parameters and    *)
(* CTEs: an expression, a subquery, a statement.  Every constructor keeps  *)
(* it, and every clause of a chain has it (TextInv).                       *)
(***************************************************************************)

-----------------------------------------------------------------------------
(* Tokens and placeholders.                                                *)

LEMMA TokenKinds ==
    /\ \A w : Word(w)[1] = "word" /\ TableToken(w)[1] = "table" /\ Placeholder(w)[1] = "param"
    /\ \A n, w : ColumnToken(n, w)[1] = "column"
    /\ \A v, w : TableToken(v) = TableToken(w) <=> v = w
BY DEF Word, TableToken, Placeholder, ColumnToken

Marks(text) == [i \in DOMAIN text |-> IF text[i][1] = "param" THEN <<text[i]>> ELSE <<>>]

LEMMA PlaceholdersIs ==
    ASSUME NEW text
    PROVE  Placeholders(text) = FlattenSeq(Marks(text))
BY DEF Placeholders, Marks

LEMMA MarksAre ==
    ASSUME NEW S, NEW text \in Seq(S)
    PROVE  /\ Marks(text) \in Seq(Seq(S)) /\ Len(Marks(text)) = Len(text)
           /\ \A i \in 1 .. Len(text) :
                Marks(text)[i] = IF text[i][1] = "param" THEN <<text[i]>> ELSE <<>>
<1>1. \A i \in 1 .. Len(text) : text[i] \in S
  OBVIOUS
<1>2. \A i \in 1 .. Len(text) :
        (IF text[i][1] = "param" THEN <<text[i]>> ELSE <<>>) \in Seq(S)
  <2> SUFFICES ASSUME NEW i \in 1 .. Len(text)
               PROVE  (IF text[i][1] = "param" THEN <<text[i]>> ELSE <<>>) \in Seq(S)
    OBVIOUS
  <2>1. <<text[i]>> \in Seq(S)
    BY <1>1
  <2>2. <<>> \in Seq(S)
    BY EmptySeq
  <2> QED BY <2>1, <2>2
<1>3. DOMAIN text = 1 .. Len(text) /\ Len(text) \in Nat
  BY LenProperties
<1>4. Marks(text) \in [1 .. Len(text) -> Seq(S)]
  BY <1>2, <1>3 DEF Marks
<1>5. Marks(text) \in Seq(Seq(S)) /\ Len(Marks(text)) = Len(text)
  BY <1>3, <1>4
<1> QED BY <1>3, <1>5 DEF Marks

LEMMA PlaceholdersOfConcat ==
    ASSUME NEW S, NEW s \in Seq(S), NEW t \in Seq(S)
    PROVE  Placeholders(s \o t) = Placeholders(s) \o Placeholders(t)
<1>1. s \o t \in Seq(S) /\ Len(s \o t) = Len(s) + Len(t)
  BY ConcatProperties
<1>2. /\ Marks(s) \in Seq(Seq(S)) /\ Len(Marks(s)) = Len(s)
      /\ Marks(t) \in Seq(Seq(S)) /\ Len(Marks(t)) = Len(t)
      /\ Marks(s \o t) \in Seq(Seq(S)) /\ Len(Marks(s \o t)) = Len(s) + Len(t)
  BY <1>1, MarksAre
<1>3. Marks(s \o t) = Marks(s) \o Marks(t)
  <2>1. /\ Marks(s) \o Marks(t) \in Seq(Seq(S))
        /\ Len(Marks(s) \o Marks(t)) = Len(s) + Len(t)
    BY <1>2, ConcatProperties
  <2>2. ASSUME NEW i \in 1 .. Len(s) + Len(t)
        PROVE  Marks(s \o t)[i] = (Marks(s) \o Marks(t))[i]
    <3>0. Len(s) \in Nat /\ Len(t) \in Nat
      BY LenProperties
    <3>1. Marks(s \o t)[i] = IF (s \o t)[i][1] = "param" THEN <<(s \o t)[i]>> ELSE <<>>
      BY <1>1, MarksAre
    <3>2. (s \o t)[i] = IF i <= Len(s) THEN s[i] ELSE t[i - Len(s)]
      BY ConcatProperties
    <3>3. (Marks(s) \o Marks(t))[i] = IF i <= Len(s) THEN Marks(s)[i] ELSE Marks(t)[i - Len(s)]
      BY <1>2, ConcatProperties
    <3>4. CASE i <= Len(s)
      <4>1. i \in 1 .. Len(s)
        BY <3>0, <3>4
      <4>2. Marks(s)[i] = IF s[i][1] = "param" THEN <<s[i]>> ELSE <<>>
        BY <4>1, MarksAre
      <4> QED BY <3>1, <3>2, <3>3, <3>4, <4>2
    <3>5. CASE ~ (i <= Len(s))
      <4>1. i - Len(s) \in 1 .. Len(t)
        BY <3>0, <3>5
      <4>2. Marks(t)[i - Len(s)] = IF t[i - Len(s)][1] = "param" THEN <<t[i - Len(s)]>> ELSE <<>>
        BY <4>1, MarksAre
      <4> QED BY <3>1, <3>2, <3>3, <3>5, <4>2
    <3> QED BY <3>4, <3>5
  <2> QED BY <1>2, <2>1, <2>2, SeqEqual
<1>4. FlattenSeq(Marks(s) \o Marks(t)) = FlattenSeq(Marks(s)) \o FlattenSeq(Marks(t))
  BY <1>2, FlattenConcat
<1> QED BY <1>3, <1>4, PlaceholdersIs

LEMMA PlaceholdersAre ==
    ASSUME NEW S, NEW text \in Seq(S)
    PROVE  Placeholders(text) \in Seq(S)
BY MarksAre, FlattenIsSequence, PlaceholdersIs

\* One token is its own placeholder, if it is one.
LEMMA PlaceholdersOfOne ==
    ASSUME NEW token
    PROVE  Placeholders(<<token>>) = IF token[1] = "param" THEN <<token>> ELSE <<>>
<1> DEFINE s == IF token[1] = "param" THEN <<token>> ELSE <<>>
<1>1. Marks(<<token>>) = <<s>>
  BY DEF Marks
<1>2. s \in Seq({token})
  <2>1. <<token>> \in Seq({token}) /\ <<>> \in Seq({token})
    BY EmptySeq
  <2> QED BY <2>1
<1> HIDE DEF s
<1>3. Placeholders(<<token>>) = s
  BY <1>1, <1>2, FlattenSingle, PlaceholdersIs
<1> QED BY <1>3 DEF s

LEMMA PlaceholdersOfNone == Placeholders(<<>>) = <<>>
<1>1. Marks(<<>>) = <<>>
  BY DEF Marks
<1> QED BY <1>1, FlattenEmpty, PlaceholdersIs

LEMMA PlaceholdersOfFlatten ==
    ASSUME NEW S, NEW ss \in Seq(Seq(S))
    PROVE  Placeholders(FlattenSeq(ss)) = FlattenSeq([i \in DOMAIN ss |-> Placeholders(ss[i])])
<1> DEFINE each(tt) == [i \in DOMAIN tt |-> Placeholders(tt[i])]
           T == {tt \in Seq(Seq(S)) : Placeholders(FlattenSeq(tt)) = FlattenSeq(each(tt))}
<1>1. <<>> \in T
  <2>1. <<>> \in Seq(Seq(S)) /\ each(<<>>) = <<>>
    BY EmptySeq
  <2> HIDE DEF each
  <2>2. Placeholders(FlattenSeq(<<>>)) = FlattenSeq(each(<<>>))
    BY <2>1, FlattenEmpty, PlaceholdersOfNone
  <2> QED BY <2>1, <2>2
<1>2. ASSUME NEW tt \in Seq(Seq(S)), tt \in T, NEW s \in Seq(S) PROVE Append(tt, s) \in T
  <2>1. /\ FlattenSeq(tt) \in Seq(S) /\ FlattenSeq(Append(tt, s)) = FlattenSeq(tt) \o s
        /\ Append(tt, s) \in Seq(Seq(S))
    BY FlattenAppend, FlattenIsSequence
  <2>2. Placeholders(FlattenSeq(tt) \o s) = Placeholders(FlattenSeq(tt)) \o Placeholders(s)
    BY <2>1, PlaceholdersOfConcat
  <2>3. \A uu \in Seq(Seq(S)) :
           /\ each(uu) \in Seq(Seq(S)) /\ Len(each(uu)) = Len(uu)
           /\ \A i \in 1 .. Len(uu) : each(uu)[i] = Placeholders(uu[i])
    <3> SUFFICES ASSUME NEW uu \in Seq(Seq(S))
                 PROVE  /\ each(uu) \in Seq(Seq(S)) /\ Len(each(uu)) = Len(uu)
                        /\ \A i \in 1 .. Len(uu) : each(uu)[i] = Placeholders(uu[i])
      OBVIOUS
    <3>1. DOMAIN uu = 1 .. Len(uu) /\ Len(uu) \in Nat
      BY LenProperties
    <3>2. \A i \in 1 .. Len(uu) : Placeholders(uu[i]) \in Seq(S)
      BY PlaceholdersAre
    <3>3. each(uu) \in [1 .. Len(uu) -> Seq(S)]
      BY <3>1, <3>2
    <3> QED BY <3>1, <3>3
  <2> HIDE DEF each
  <2>4. each(Append(tt, s)) = Append(each(tt), Placeholders(s))
    <3>1. /\ Len(Append(tt, s)) = Len(tt) + 1 /\ Append(tt, s)[Len(tt) + 1] = s
          /\ Len(tt) \in Nat
      OBVIOUS
    <3>2. \A i \in 1 .. Len(tt) : Append(tt, s)[i] = tt[i]
      OBVIOUS
    <3>3. /\ each(tt) \in Seq(Seq(S)) /\ Len(each(tt)) = Len(tt)
          /\ each(Append(tt, s)) \in Seq(Seq(S))
          /\ Len(each(Append(tt, s))) = Len(tt) + 1
          /\ Placeholders(s) \in Seq(S)
      BY <2>1, <2>3, <3>1, PlaceholdersAre
    <3>6. \A i \in 1 .. Len(tt) + 1 : each(Append(tt, s))[i] = Placeholders(Append(tt, s)[i])
      BY <2>1, <2>3, <3>1
    <3>7. \A i \in 1 .. Len(tt) : each(tt)[i] = Placeholders(tt[i])
      BY <2>3
    <3>8. Len(tt) + 1 \in 1 .. Len(tt) + 1 /\ 1 .. Len(tt) \subseteq 1 .. Len(tt) + 1
      BY <3>1
    <3>4. \A i \in 1 .. Len(tt) : each(Append(tt, s))[i] = each(tt)[i]
      BY <3>2, <3>6, <3>7, <3>8
    <3>5. each(Append(tt, s))[Len(tt) + 1] = Placeholders(s)
      BY <3>1, <3>6, <3>8
    <3> QED BY <3>3, <3>4, <3>5, AppendIs
  <2>5. FlattenSeq(Append(each(tt), Placeholders(s))) = FlattenSeq(each(tt)) \o Placeholders(s)
    BY <2>3, FlattenAppend, PlaceholdersAre
  <2>6. Placeholders(FlattenSeq(tt)) = FlattenSeq(each(tt))
    BY <1>2
  <2>7. Placeholders(FlattenSeq(Append(tt, s))) = FlattenSeq(each(Append(tt, s)))
    BY <2>1, <2>2, <2>4, <2>5, <2>6
  <2> QED BY <2>1, <2>7
<1>3. Seq(Seq(S)) \subseteq T
  <2> HIDE DEF T
  <2> QED BY <1>1, <1>2, SequenceInduction
<1> QED BY <1>3

\* A text needs no type for its tokens.
IsText(s) == s \in Seq(Range(s))

LEMMA SequenceIsText ==
    ASSUME NEW S, NEW s \in Seq(S)
    PROVE  IsText(s) /\ Range(s) \subseteq S
<1>1. DOMAIN s = 1 .. Len(s) /\ Len(s) \in Nat /\ \A i \in 1 .. Len(s) : s[i] \in S
  BY LenProperties
<1>2. Range(s) \subseteq S /\ \A i \in 1 .. Len(s) : s[i] \in Range(s)
  BY <1>1 DEF Range
<1>3. s \in [1 .. Len(s) -> Range(s)]
  BY <1>1, <1>2
<1>4. s \in Seq(Range(s))
  BY <1>1, <1>3
<1> QED BY <1>2, <1>4 DEF IsText

\* A set that has the tokens of two texts.
LEMMA CommonTokens ==
    ASSUME NEW s, NEW t, IsText(s), IsText(t)
    PROVE  \E S : s \in Seq(S) /\ t \in Seq(S)
<1>1. Range(s) \subseteq Range(s) \cup Range(t) /\ Range(t) \subseteq Range(s) \cup Range(t)
  OBVIOUS
<1>2. s \in Seq(Range(s) \cup Range(t)) /\ t \in Seq(Range(s) \cup Range(t))
  BY <1>1, SeqMonotonic DEF IsText
<1> QED BY <1>2

LEMMA TextConcat ==
    ASSUME NEW s, NEW t, IsText(s), IsText(t)
    PROVE  /\ IsText(s \o t)
           /\ Placeholders(s \o t) = Placeholders(s) \o Placeholders(t)
           /\ \A x : x \in Range(s \o t) <=> x \in Range(s) \/ x \in Range(t)
<1>1. PICK S : s \in Seq(S) /\ t \in Seq(S)
  BY CommonTokens
<1>2. s \o t \in Seq(S)
  BY <1>1, ConcatProperties
<1>3. IsText(s \o t)
  BY <1>2, SequenceIsText
<1>4. Placeholders(s \o t) = Placeholders(s) \o Placeholders(t)
  BY <1>1, PlaceholdersOfConcat
<1>5. Range(s \o t) = Range(s) \cup Range(t)
  BY <1>1, RangeOfConcat
<1> QED BY <1>3, <1>4, <1>5

LEMMA TextOfOne ==
    ASSUME NEW token
    PROVE  /\ IsText(<<token>>) /\ \A x : x \in Range(<<token>>) <=> x = token
           /\ Placeholders(<<token>>) = IF token[1] = "param" THEN <<token>> ELSE <<>>
<1>1. <<token>> \in Seq({token})
  OBVIOUS
<1>2. IsText(<<token>>)
  BY <1>1, SequenceIsText
<1>3. Range(<<token>>) = {token}
  BY DEF Range
<1> QED BY <1>2, <1>3, PlaceholdersOfOne

LEMMA TextOfNone == IsText(<<>>) /\ Placeholders(<<>>) = <<>> /\ \A x : x \notin Range(<<>>)
<1>1. <<>> \in Seq(Range(<<>>)) /\ \A x : x \notin Range(<<>>)
  BY EmptySeq DEF Range
<1> QED BY <1>1, PlaceholdersOfNone DEF IsText

LEMMA PlaceholdersAreText ==
    ASSUME NEW s, IsText(s)
    PROVE  IsText(Placeholders(s)) /\ <<>> \o Placeholders(s) = Placeholders(s)
           /\ Placeholders(s) \o <<>> = Placeholders(s)
<1> DEFINE S == Range(s)
<1>1. Placeholders(s) \in Seq(S)
  BY PlaceholdersAre DEF IsText
<1> QED BY <1>1, SequenceIsText, ConcatEmptySeq

-----------------------------------------------------------------------------
(* What is rendered.                                                       *)

\* The parameters are the placeholders, and the CTEs are those among the names N that the
\* text refers to.
Rendered(a, N) ==
    /\ IsText(a.text)
    /\ a.params = Placeholders(a.text)
    /\ \A n : n \in a.ctes <=> n \in N /\ TableToken(n) \in Range(a.text)

AllRendered(A, N) == \A a \in A : Rendered(a, N)

\* A word before a text changes neither.
LEMMA WordBefore ==
    ASSUME NEW w, NEW text, IsText(text)
    PROVE  /\ IsText(<<Word(w)>> \o text)
           /\ Placeholders(<<Word(w)>> \o text) = Placeholders(text)
           /\ \A n : TableToken(n) \in Range(<<Word(w)>> \o text) <=> TableToken(n) \in Range(text)
<1>1. Word(w)[1] # "param" /\ \A n : TableToken(n) # Word(w)
  <2>1. Word(w)[1] = "word" /\ \A n : TableToken(n)[1] = "table"
    BY TokenKinds
  <2> QED BY <2>1
<1> DEFINE s == <<Word(w)>>
<1>2. IsText(s) /\ Placeholders(s) = <<>> /\ \A x : x \in Range(s) <=> x = Word(w)
  BY <1>1, TextOfOne
<1> HIDE DEF s
<1>3. /\ IsText(s \o text) /\ Placeholders(s \o text) = <<>> \o Placeholders(text)
      /\ \A x : x \in Range(s \o text) <=> x \in Range(s) \/ x \in Range(text)
  BY <1>2, TextConcat
<1>4. <<>> \o Placeholders(text) = Placeholders(text)
  BY PlaceholdersAreText
<1> QED BY <1>1, <1>2, <1>3, <1>4 DEF s

ParamsFrom(asts) == FlattenSeq([i \in DOMAIN asts |-> asts[i].params])

\* Texts one after the other.
LEMMA TextsTogether ==
    ASSUME NEW N, NEW A, NEW kids \in Seq(A), AllRendered(A, N)
    PROVE  /\ IsText(TextOf(kids))
           /\ ParamsFrom(kids) = Placeholders(TextOf(kids))
           /\ \A n : (\E i \in DOMAIN kids : n \in kids[i].ctes)
                       <=> n \in N /\ TableToken(n) \in Range(TextOf(kids))
<1> DEFINE texts == [i \in DOMAIN kids |-> kids[i].text]
           S == UNION {Range(kids[i].text) : i \in DOMAIN kids}
<1>1. /\ DOMAIN kids = 1 .. Len(kids) /\ Len(kids) \in Nat
      /\ \A i \in DOMAIN kids : Rendered(kids[i], N)
  BY LenProperties, ElementOfSeq DEF AllRendered
<1>2. texts \in Seq(Seq(S)) /\ DOMAIN texts = DOMAIN kids
  <2>1. \A i \in DOMAIN kids : kids[i].text \in Seq(Range(kids[i].text)) /\ Range(kids[i].text) \subseteq S
    BY <1>1 DEF Rendered, IsText
  <2> HIDE DEF S
  <2>2. \A i \in DOMAIN kids : kids[i].text \in Seq(S)
    BY <2>1, SeqMonotonic
  <2>3. texts \in [1 .. Len(kids) -> Seq(S)]
    BY <1>1, <2>2
  <2> QED BY <1>1, <2>3
<1>3. IsText(FlattenSeq(texts))
  <2> HIDE DEF S, texts
  <2> QED BY <1>2, FlattenIsSequence, SequenceIsText
<1>4. [i \in DOMAIN kids |-> kids[i].params] = [i \in DOMAIN texts |-> Placeholders(texts[i])]
  BY <1>1 DEF Rendered
<1>5. \A i \in DOMAIN kids : texts[i] = kids[i].text
  OBVIOUS
<1> HIDE DEF texts, S
<1>6. FlattenSeq([i \in DOMAIN kids |-> kids[i].params]) = Placeholders(FlattenSeq(texts))
  BY <1>2, <1>4, PlaceholdersOfFlatten
<1>7. ASSUME NEW n
      PROVE  (\E i \in DOMAIN kids : n \in kids[i].ctes)
               <=> n \in N /\ TableToken(n) \in Range(FlattenSeq(texts))
  <2>1. TableToken(n) \in Range(FlattenSeq(texts)) <=> \E s \in Range(texts) : TableToken(n) \in Range(s)
    BY <1>2, RangeOfFlatten
  <2>4. \A s : s \in Range(texts) <=> \E i \in DOMAIN kids : s = kids[i].text
    BY <1>2, <1>5 DEF Range
  <2>2. TableToken(n) \in Range(FlattenSeq(texts))
          <=> \E i \in DOMAIN kids : TableToken(n) \in Range(kids[i].text)
    BY <2>1, <2>4
  <2>3. \A i \in DOMAIN kids : n \in kids[i].ctes <=> n \in N /\ TableToken(n) \in Range(kids[i].text)
    BY <1>1 DEF Rendered
  <2> QED BY <2>2, <2>3
<1> QED BY <1>3, <1>6, <1>7 DEF texts, TextOf, ParamsFrom

LEMMA NodeText ==
    ASSUME NEW op, NEW kids
    PROVE  /\ Node(op, kids, kids).params = ParamsFrom(kids)
           /\ Node(op, kids, kids).text = <<Word(op)>> \o TextOf(kids)
           /\ \A n : n \in Node(op, kids, kids).ctes <=> \E i \in DOMAIN kids : n \in kids[i].ctes
BY DEF Node, ParamsFrom, TextOf

LEMMA NodeRendered ==
    ASSUME NEW N, NEW A, NEW op, NEW kids \in Seq(A), AllRendered(A, N)
    PROVE  Rendered(Node(op, kids, kids), N)
<1> DEFINE a == Node(op, kids, kids)
<1>1. /\ IsText(TextOf(kids)) /\ ParamsFrom(kids) = Placeholders(TextOf(kids))
      /\ \A n : (\E i \in DOMAIN kids : n \in kids[i].ctes)
                  <=> n \in N /\ TableToken(n) \in Range(TextOf(kids))
  BY TextsTogether
<1>2. /\ a.params = ParamsFrom(kids) /\ a.text = <<Word(op)>> \o TextOf(kids)
      /\ \A n : n \in a.ctes <=> \E i \in DOMAIN kids : n \in kids[i].ctes
  BY NodeText
<1> HIDE DEF a
<1>3. /\ IsText(<<Word(op)>> \o TextOf(kids))
      /\ Placeholders(<<Word(op)>> \o TextOf(kids)) = Placeholders(TextOf(kids))
      /\ \A n : TableToken(n) \in Range(<<Word(op)>> \o TextOf(kids))
                  <=> TableToken(n) \in Range(TextOf(kids))
  BY <1>1, WordBefore
<1>4. Rendered(a, N)
  BY <1>1, <1>2, <1>3 DEF Rendered
<1> QED BY <1>4 DEF a

LEMMA NodeRendered0 ==
    ASSUME NEW N, NEW op
    PROVE  Rendered(Node(op, <<>>, <<>>), N)
<1>1. <<>> \in Seq({}) /\ AllRendered({}, N)
  BY EmptySeq DEF AllRendered
<1> QED BY <1>1, NodeRendered

LEMMA NodeRendered1 ==
    ASSUME NEW N, NEW op, NEW a, Rendered(a, N)
    PROVE  Rendered(Node(op, <<a>>, <<a>>), N)
<1>1. <<a>> \in Seq({a}) /\ AllRendered({a}, N)
  BY DEF AllRendered
<1> QED BY <1>1, NodeRendered

LEMMA NodeRendered2 ==
    ASSUME NEW N, NEW op, NEW a, NEW b, Rendered(a, N), Rendered(b, N)
    PROVE  Rendered(Node(op, <<a, b>>, <<a, b>>), N)
<1>1. <<a, b>> \in Seq({a, b}) /\ AllRendered({a, b}, N)
  BY DEF AllRendered
<1> QED BY <1>1, NodeRendered

LEMMA NodeRendered3 ==
    ASSUME NEW N, NEW op, NEW a, NEW b, NEW d,
           Rendered(a, N), Rendered(b, N), Rendered(d, N)
    PROVE  Rendered(Node(op, <<a, b, d>>, <<a, b, d>>), N)
<1>1. <<a, b, d>> \in Seq({a, b, d}) /\ AllRendered({a, b, d}, N)
  BY DEF AllRendered
<1> QED BY <1>1, NodeRendered

LEMMA NoKidsNoParams ==
    ASSUME NEW op
    PROVE  Node(op, <<>>, <<>>).params = <<>>
<1>1. Node(op, <<>>, <<>>).params = FlattenSeq([i \in DOMAIN <<>> |-> <<>>[i].params])
  BY DEF Node
<1>2. [i \in DOMAIN <<>> |-> <<>>[i].params] = <<>>
  OBVIOUS
<1> QED BY <1>1, <1>2, FlattenEmpty

\* Other fields do not matter.
LEMMA SameRendered ==
    ASSUME NEW N, NEW a, NEW b, Rendered(a, N),
           b.text = a.text, b.params = a.params, b.ctes = a.ctes
    PROVE  Rendered(b, N)
BY DEF Rendered

-----------------------------------------------------------------------------
(* The constructors of expressions.                                        *)

LEMMA ColumnRendered ==
    ASSUME NEW N, NEW n, NEW w
    PROVE  /\ Rendered(ColumnExprAst(n, w), N)
           /\ ColumnExprAst(n, w).params = <<>>
<1> DEFINE a == ColumnExprAst(n, w)
           t == ColumnToken(n, w)
<1>1. a.text = <<t>> /\ a.params = Node("column", <<>>, <<>>).params /\ a.ctes = {}
  BY DEF ColumnExprAst, Node
<1>2. a.params = <<>>
  BY <1>1, NoKidsNoParams
<1>3. t[1] = "column" /\ \A m : TableToken(m)[1] = "table"
  BY TokenKinds
<1> HIDE DEF a, t
<1>4. IsText(<<t>>) /\ (\A x : x \in Range(<<t>>) <=> x = t) /\ Placeholders(<<t>>) = <<>>
  BY <1>3, TextOfOne
<1>5. Rendered(a, N)
  BY <1>1, <1>2, <1>3, <1>4 DEF Rendered
<1> QED BY <1>2, <1>5 DEF a

LEMMA ParamRendered ==
    ASSUME NEW N, NEW p
    PROVE  Rendered(ParamExprAst(p), N)
<1> DEFINE a == ParamExprAst(p)
           t == Placeholder(p)
<1>1. a.text = <<t>> /\ a.params = <<t>> /\ a.ctes = {}
  BY DEF ParamExprAst, Node
<1>3. t[1] = "param" /\ \A m : TableToken(m)[1] = "table"
  BY TokenKinds
<1> HIDE DEF a, t
<1>4. IsText(<<t>>) /\ (\A x : x \in Range(<<t>>) <=> x = t) /\ Placeholders(<<t>>) = <<t>>
  BY <1>3, TextOfOne
<1>5. Rendered(a, N)
  BY <1>1, <1>3, <1>4 DEF Rendered
<1> QED BY <1>5 DEF a

LEMMA LiteralRendered ==
    ASSUME NEW N
    PROVE  /\ Rendered(LiteralExprAst, N) /\ Rendered(NoElse, N) /\ Rendered(NoAst, N)
           /\ \A type : Rendered(Literal(type).ast, N) /\ Rendered(Now(type).ast, N)
<1>1. \A op \in {"literal", "no_else", "", "now"} : Rendered(Node(op, <<>>, <<>>), N)
  BY NodeRendered0
<1>2. \A type : Literal(type).ast = LiteralExprAst /\ Now(type).ast = Node("now", <<>>, <<>>)
  BY DEF Literal, Now, Expr
<1> QED BY <1>1, <1>2 DEF LiteralExprAst, NoElse, NoAst

LEMMA AggregateRendered ==
    ASSUME NEW N, NEW e, Rendered(e.ast, N)
    PROVE  /\ Rendered(Count(e).ast, N) /\ Rendered(Sum(e).ast, N)
           /\ Count(e).ast.params = e.ast.params
<1>1. ASSUME NEW op
      PROVE  /\ Rendered(AggregateExprAst(op, e.ast), N)
             /\ AggregateExprAst(op, e.ast).params = ParamsFrom(<<e.ast>>)
  <2> DEFINE n == Node(op, <<e.ast>>, <<e.ast>>)
             a == AggregateExprAst(op, e.ast)
  <2>1. Rendered(n, N) /\ n.params = ParamsFrom(<<e.ast>>)
    BY NodeRendered1, NodeText
  <2>2. a.text = n.text /\ a.params = n.params /\ a.ctes = n.ctes
    BY DEF AggregateExprAst, Node
  <2> HIDE DEF a, n
  <2>3. Rendered(a, N)
    BY <2>1, <2>2, SameRendered
  <2> QED BY <2>1, <2>2, <2>3 DEF a
<1>2. ParamsFrom(<<e.ast>>) = e.ast.params
  <2>1. e.ast.params \in Seq(Range(e.ast.params))
    BY PlaceholdersAreText DEF Rendered, IsText
  <2>2. FlattenSeq(<<e.ast.params>>) = e.ast.params
    BY <2>1, FlattenSingle
  <2> QED BY <2>2 DEF ParamsFrom
<1>3. /\ Count(e).ast = AggregateExprAst("count", e.ast)
      /\ Sum(e).ast = AggregateExprAst("sum", e.ast)
  BY DEF Count, Sum, Expr
<1>4. \A op \in {"count", "sum"} :
        /\ Rendered(AggregateExprAst(op, e.ast), N)
        /\ AggregateExprAst(op, e.ast).params = e.ast.params
  BY <1>1, <1>2
<1> QED BY <1>3, <1>4

LEMMA WindowRendered ==
    ASSUME NEW N, NEW A, NEW op, NEW operands \in Seq(A), NEW partitions \in Seq(A),
           NEW orders \in Seq(A), AllRendered(A, N)
    PROVE  Rendered(WindowExprAst(op, operands, partitions, orders), N)
<1> DEFINE kids == operands \o WindowList(partitions, orders)
           n == Node(op, kids, kids)
           w == WindowExprAst(op, operands, partitions, orders)
<1>1. kids \in Seq(A)
  BY DEF WindowList
<1>2. w.text = n.text /\ w.params = n.params /\ w.ctes = n.ctes
  BY DEF WindowExprAst, Node
<1> HIDE DEF kids, w
<1>3. Rendered(n, N)
  BY <1>1, NodeRendered
<1> HIDE DEF n
<1>4. Rendered(w, N)
  BY <1>2, <1>3, SameRendered
<1> QED BY <1>4 DEF w

LEMMA NamedWindowRendered ==
    ASSUME NEW N
    PROVE  Rendered(RowNumberOverRef.ast, N) /\ RowNumberOverRef.ast.params = <<>>
<1> DEFINE n == Node("over_w0", <<>>, <<>>)
           w == NamedWindowExprAst(<<>>)
<1>1. w.text = n.text /\ w.params = n.params /\ w.ctes = n.ctes
  BY DEF NamedWindowExprAst, Node
<1>2. n.params = <<>> /\ Rendered(n, N)
  <2>1. \A op \in {"over_w0"} : Rendered(Node(op, <<>>, <<>>), N)
    BY NodeRendered0
  <2> QED BY <2>1, NoKidsNoParams
<1> HIDE DEF n, w
<1>3. Rendered(w, N) /\ w.params = <<>>
  BY <1>1, <1>2, SameRendered
<1> QED BY <1>3 DEF w, RowNumberOverRef, Expr

\* A subquery in an expression.
LEMMA SubqueryRendered ==
    ASSUME NEW N, NEW s, Rendered(s, N)
    PROVE  /\ Rendered(ScalarSubqueryExprAst(s), N) /\ Rendered(ExistsPredicateAst(s), N)
           /\ Rendered(SubqueryAst("in_subquery", s), N)
<1>1. ASSUME NEW op PROVE Rendered(SubqueryAst(op, s), N)
  <2> DEFINE a == SubqueryAst(op, s)
  <2>1. a.params = s.params /\ a.text = <<Word(op)>> \o s.text /\ a.ctes = s.ctes
    BY DEF SubqueryAst, Node
  <2>2. IsText(s.text)
    BY DEF Rendered
  <2> HIDE DEF a
  <2>3. /\ IsText(<<Word(op)>> \o s.text)
        /\ Placeholders(<<Word(op)>> \o s.text) = Placeholders(s.text)
        /\ \A n : TableToken(n) \in Range(<<Word(op)>> \o s.text) <=> TableToken(n) \in Range(s.text)
    BY <2>2, WordBefore
  <2>4. Rendered(a, N)
    BY <2>1, <2>3 DEF Rendered
  <2> QED BY <2>4 DEF a
<1>2. \A op \in {"scalar", "exists", "in_subquery"} : Rendered(SubqueryAst(op, s), N)
  BY <1>1
<1>3. /\ ScalarSubqueryExprAst(s).text = SubqueryAst("scalar", s).text
      /\ ScalarSubqueryExprAst(s).params = SubqueryAst("scalar", s).params
      /\ ScalarSubqueryExprAst(s).ctes = SubqueryAst("scalar", s).ctes
  BY DEF ScalarSubqueryExprAst, SubqueryAst, Node
<1>4. /\ ExistsPredicateAst(s).text = SubqueryAst("exists", s).text
      /\ ExistsPredicateAst(s).params = SubqueryAst("exists", s).params
      /\ ExistsPredicateAst(s).ctes = SubqueryAst("exists", s).ctes
  BY DEF ExistsPredicateAst, SubqueryAst, Node
<1> QED BY <1>2, <1>3, <1>4, SameRendered

LEMMA InSubqueryRendered ==
    ASSUME NEW N, NEW operand, NEW s, Rendered(operand, N), Rendered(s, N)
    PROVE  Rendered(InSubqueryPredicateAst(operand, s), N)
<1> DEFINE q == SubqueryAst("in_subquery", s)
           n == Node("in", <<operand, q>>, <<operand, q>>)
           a == InSubqueryPredicateAst(operand, s)
<1>1. a.text = n.text /\ a.params = n.params /\ a.ctes = n.ctes
  BY DEF InSubqueryPredicateAst, Node
<1>2. Rendered(q, N)
  BY SubqueryRendered
<1> HIDE DEF q, a
<1>3. Rendered(n, N)
  <2>1. \A op \in {"in"} : Rendered(Node(op, <<operand, q>>, <<operand, q>>), N)
    BY <1>2, NodeRendered2
  <2> QED BY <2>1
<1> HIDE DEF n
<1>4. Rendered(a, N)
  BY <1>1, <1>3, SameRendered
<1> QED BY <1>4 DEF a

\* Arithmetic, functions and predicates only put their operands in a row.
LEMMA FunctionsRendered ==
    ASSUME NEW N, NEW x, NEW y, NEW z,
           Rendered(x.ast, N), Rendered(y.ast, N), Rendered(z.ast, N)
    PROVE  /\ Rendered(Add(x, y).ast, N) /\ Rendered(Subtract(x, y).ast, N)
           /\ Rendered(Lower(y).ast, N) /\ Rendered(SqlConcat(x, y).ast, N)
           /\ Rendered(Substring(x, z, y).ast, N) /\ Rendered(Extract(y).ast, N)
           /\ Rendered(ExtractAt(y).ast, N) /\ Rendered(ExtractSecond(y).ast, N)
           /\ Rendered(DateTrunc(y).ast, N) /\ Rendered(Nullif(x, z).ast, N)
<1>1. \A op \in {"lower", "extract", "extract_at", "extract_second", "date_trunc"} :
        Rendered(Node(op, <<y.ast>>, <<y.ast>>), N)
  BY NodeRendered1
<1>2. \A op \in {"binary", "concat"} : Rendered(Node(op, <<x.ast, y.ast>>, <<x.ast, y.ast>>), N)
  BY NodeRendered2
<1>3. \A op \in {"nullif"} : Rendered(Node(op, <<x.ast, z.ast>>, <<x.ast, z.ast>>), N)
  BY NodeRendered2
<1>4. \A op \in {"substring"} :
        Rendered(Node(op, <<x.ast, z.ast, y.ast>>, <<x.ast, z.ast, y.ast>>), N)
  BY NodeRendered3
<1>5. /\ Add(x, y).ast = Node("binary", <<x.ast, y.ast>>, <<x.ast, y.ast>>)
      /\ Subtract(x, y).ast = Node("binary", <<x.ast, y.ast>>, <<x.ast, y.ast>>)
      /\ SqlConcat(x, y).ast = Node("concat", <<x.ast, y.ast>>, <<x.ast, y.ast>>)
      /\ Nullif(x, z).ast = Node("nullif", <<x.ast, z.ast>>, <<x.ast, z.ast>>)
      /\ Substring(x, z, y).ast = Node("substring", <<x.ast, z.ast, y.ast>>, <<x.ast, z.ast, y.ast>>)
  BY DEF Add, Subtract, BinaryExprAst, SqlConcat, ConcatExprAst, Nullif, NullifExprAst,
         Substring, SubstringExprAst, Expr
<1>6. /\ Lower(y).ast = Node("lower", <<y.ast>>, <<y.ast>>)
      /\ Extract(y).ast = Node("extract", <<y.ast>>, <<y.ast>>)
      /\ ExtractAt(y).ast = Node("extract_at", <<y.ast>>, <<y.ast>>)
      /\ ExtractSecond(y).ast = Node("extract_second", <<y.ast>>, <<y.ast>>)
      /\ DateTrunc(y).ast = Node("date_trunc", <<y.ast>>, <<y.ast>>)
  BY DEF Lower, UnaryFnExprAst, Extract, ExtractExprAst, ExtractAt, ExtractAtExprAst,
         ExtractSecond, ExtractSecondExprAst, DateTrunc, DateTruncExprAst, Expr
<1> QED BY <1>1, <1>2, <1>3, <1>4, <1>5, <1>6

LEMMA PredicateNodesRendered ==
    ASSUME NEW N, NEW a, NEW b, NEW d, Rendered(a, N), Rendered(b, N), Rendered(d, N)
    PROVE  /\ Rendered(ComparePredicateAst(a, b), N) /\ Rendered(LikePredicateAst(a, b), N)
           /\ Rendered(AndPredicateAst(a, b), N) /\ Rendered(OrPredicateAst(a, b), N)
           /\ Rendered(NotPredicateAst(a), N) /\ Rendered(NullCheckPredicateAst(a), N)
           /\ Rendered(InPredicateAst(a), N) /\ Rendered(BetweenPredicateAst(a, b, d), N)
<1>1. \A op \in {"not", "is_null", "in"} : Rendered(Node(op, <<a>>, <<a>>), N)
  BY NodeRendered1
<1>2. \A op \in {"compare", "like", "and", "or"} : Rendered(Node(op, <<a, b>>, <<a, b>>), N)
  BY NodeRendered2
<1>3. \A op \in {"between"} : Rendered(Node(op, <<a, b, d>>, <<a, b, d>>), N)
  BY NodeRendered3
<1> QED BY <1>1, <1>2, <1>3
       DEF ComparePredicateAst, LikePredicateAst, AndPredicateAst, OrPredicateAst,
           NotPredicateAst, NullCheckPredicateAst, InPredicateAst, BetweenPredicateAst

\* CASE: the arms, each a predicate and a value, and the ELSE.
LEMMA CasesRendered ==
    ASSUME NEW N, NEW when, NEW then, NEW x, NEW e,
           Rendered(when, N), Rendered(then.ast, N), Rendered(x.ast, N), Rendered(e.ast, N)
    PROVE  LET arms == <<[when |-> when, then |-> then]>>
           IN  /\ Rendered(Otherwise(arms, e).ast, N) /\ Rendered(CaseEnd(arms).ast, N)
               /\ Rendered(SimpleCase(x, arms, e).ast, N)
<1> DEFINE arms == <<[when |-> when, then |-> then]>>
           K == {when, then.ast, x.ast, e.ast, NoElse}
           list == CaseArms(arms)
<1>1. AllRendered(K, N)
  BY LiteralRendered DEF AllRendered
<1>2. list \in Seq(K)
  <2>1. /\ Len(arms) \in Nat
        /\ \A i \in 1 .. Len(arms) : arms[i].when \in K /\ arms[i].then.ast \in K
    OBVIOUS
  <2> HIDE DEF K, arms
  <2> QED BY <2>1, ArmsAreAsts
<1>3. e.ast \in K /\ NoElse \in K /\ x.ast \in K
  OBVIOUS
<1> HIDE DEF K, list
<1>4. /\ list \o <<e.ast>> \in Seq(K) /\ list \o <<NoElse>> \in Seq(K)
      /\ <<x.ast>> \o list \o <<e.ast>> \in Seq(K)
  BY <1>2, <1>3
<1>5. \A op \in {"case", "case_of"} :
        /\ Rendered(Node(op, list \o <<e.ast>>, list \o <<e.ast>>), N)
        /\ Rendered(Node(op, list \o <<NoElse>>, list \o <<NoElse>>), N)
        /\ Rendered(Node(op, <<x.ast>> \o list \o <<e.ast>>, <<x.ast>> \o list \o <<e.ast>>), N)
  BY <1>1, <1>4, NodeRendered
<1>6. /\ Otherwise(arms, e).ast = Node("case", list \o <<e.ast>>, list \o <<e.ast>>)
      /\ CaseEnd(arms).ast = Node("case", list \o <<NoElse>>, list \o <<NoElse>>)
  BY DEF Otherwise, CaseEnd, CaseExprAst, Expr, list
<1>7. SimpleCase(x, arms, e).ast
        = Node("case_of", <<x.ast>> \o list \o <<e.ast>>, <<x.ast>> \o list \o <<e.ast>>)
  BY DEF SimpleCase, SimpleCaseExprAst, SimpleCaseArms, Expr, list
<1> HIDE DEF arms
<1>8. /\ Rendered(Otherwise(arms, e).ast, N) /\ Rendered(CaseEnd(arms).ast, N)
      /\ Rendered(SimpleCase(x, arms, e).ast, N)
  BY <1>5, <1>6, <1>7
<1> QED BY <1>8 DEF arms

LEMMA CoalesceRendered ==
    ASSUME NEW N, NEW x, NEW y, Rendered(x.ast, N), Rendered(y.ast, N)
    PROVE  Rendered(Coalesce(<<x, y>>).ast, N)
<1> DEFINE n == Node("args", <<x.ast, y.ast>>, <<x.ast, y.ast>>)
<1>1. AstsOf(<<x, y>>) = <<x.ast, y.ast>>
  BY DEF AstsOf
<1>2. Coalesce(<<x, y>>).ast = Node("coalesce", <<n>>, <<n>>)
  BY <1>1 DEF Coalesce, CoalesceExprAst, CoalesceArgs, Expr
<1>3. \A op \in {"args"} : Rendered(Node(op, <<x.ast, y.ast>>, <<x.ast, y.ast>>), N)
  BY NodeRendered2
<1>4. Rendered(n, N)
  BY <1>3
<1> HIDE DEF n
<1>5. \A op \in {"coalesce"} : Rendered(Node(op, <<n>>, <<n>>), N)
  BY <1>4, NodeRendered1
<1> QED BY <1>2, <1>5

-----------------------------------------------------------------------------
(* The menu, with a subquery that is rendered.                             *)

SubRendered(N) == sub.exists => Rendered(sub, N)

LEMMA EndsRendered ==
    ASSUME NEW N, NEW c
    PROVE  /\ \A i, j : Rendered(Column(c, i, j).ast, N) /\ Column(c, i, j).ast.params = <<>>
           /\ Rendered(FirstColumn(c).ast, N) /\ Rendered(LastColumn(c).ast, N)
           /\ FirstColumn(c).ast.params = <<>> /\ LastColumn(c).ast.params = <<>>
<1>1. ASSUME NEW i, NEW j
      PROVE  Rendered(Column(c, i, j).ast, N) /\ Column(c, i, j).ast.params = <<>>
  <2>1. PICK n, w : Column(c, i, j).ast = ColumnExprAst(n, w)
    BY DEF Column, Expr
  <2> QED BY <2>1, ColumnRendered
<1> QED BY <1>1 DEF FirstColumn, LastColumn

LEMMA SumsRendered ==
    ASSUME NEW N, NEW c, NEW e \in Sums(c)
    PROVE  Rendered(e.ast, N)
<1> DEFINE p == Param(pName, "i32")
<1>1. PICK d \in {FirstColumn(c), LastColumn(c)} : e = Add(d, p)
  BY DEF Sums
<1>2. p.ast = ParamExprAst(pName)
  BY DEF Param, Expr
<1>3. Rendered(p.ast, N)
  BY <1>2, ParamRendered
<1> HIDE DEF p
<1>4. Rendered(d.ast, N)
  BY EndsRendered
<1> QED BY <1>1, <1>3, <1>4, FunctionsRendered

LEMMA AggregatesRendered ==
    ASSUME NEW N, NEW c, NEW e \in Aggregates(c)
    PROVE  Rendered(e.ast, N)
<1>1. PICK d \in {LastColumn(c)} \cup Sums(c) : e = Count(d)
  BY DEF Aggregates
<1>2. Rendered(d.ast, N)
  BY EndsRendered, SumsRendered
<1> QED BY <1>1, <1>2, AggregateRendered

LEMMA WindowsRendered ==
    ASSUME NEW N, NEW c, NEW e \in Windows(c)
    PROVE  Rendered(e.ast, N)
<1> DEFINE x == FirstColumn(c)
           y == LastColumn(c)
           K == {x.ast, y.ast, LagArgsAst(y.ast)}
<1>1. Rendered(x.ast, N) /\ Rendered(y.ast, N)
  BY EndsRendered
<1> HIDE DEF x, y
<1>2. AllRendered(K, N)
  <2>1. \A op \in {"lag_args"} : Rendered(Node(op, <<y.ast>>, <<y.ast>>), N)
    BY <1>1, NodeRendered1
  <2> QED BY <1>1, <2>1 DEF AllRendered, LagArgsAst
<1>3. AstsOf(<<x>>) \in Seq(K) /\ AstsOf(<<y>>) \in Seq(K) /\ AstsOf(<<>>) \in Seq(K)
  <2>1. AstsOf(<<x>>) = <<x.ast>> /\ AstsOf(<<y>>) = <<y.ast>>
    BY DEF AstsOf
  <2>2. AstsOf(<<>>) = <<>>
    BY DEF AstsOf
  <2>3. <<x.ast>> \in Seq(K) /\ <<y.ast>> \in Seq(K) /\ <<>> \in Seq(K)
    OBVIOUS
  <2> QED BY <2>1, <2>2, <2>3
<1>4. <<>> \in Seq(K) /\ <<y.ast>> \in Seq(K) /\ <<LagArgsAst(y.ast)>> \in Seq(K)
  OBVIOUS
<1> HIDE DEF K
<1>5. \A op \in {"row_number", "sum_over", "lag"} : \A s, t, u \in Seq(K) :
        Rendered(WindowExprAst(op, s, t, u), N)
  BY <1>2, WindowRendered
<1>6. RowNumber(<<x>>, <<y>>).ast = WindowExprAst("row_number", <<>>, AstsOf(<<x>>), AstsOf(<<y>>))
  BY DEF RowNumber, Expr
<1>7. SumOver(y, <<>>, <<x>>).ast
        = WindowExprAst("sum_over", <<y.ast>>, AstsOf(<<>>), AstsOf(<<x>>))
  BY DEF SumOver, Expr
<1>8. Lag(y, <<>>, <<x>>).ast
        = WindowExprAst("lag", <<LagArgsAst(y.ast)>>, AstsOf(<<>>), AstsOf(<<x>>))
  BY DEF Lag, Expr
<1>9. e \in {RowNumber(<<x>>, <<y>>), SumOver(y, <<>>, <<x>>), Lag(y, <<>>, <<x>>), RowNumberOverRef}
  BY DEF Windows, x, y
<1>10. /\ Rendered(RowNumber(<<x>>, <<y>>).ast, N) /\ Rendered(SumOver(y, <<>>, <<x>>).ast, N)
       /\ Rendered(Lag(y, <<>>, <<x>>).ast, N) /\ Rendered(RowNumberOverRef.ast, N)
  BY <1>3, <1>4, <1>5, <1>6, <1>7, <1>8, NamedWindowRendered
<1> QED BY <1>9, <1>10

LEMMA ScalarsRendered ==
    ASSUME NEW N, SubRendered(N), NEW e \in Scalars
    PROVE  Rendered(e.ast, N)
<1>1. e.ast = ScalarSubqueryExprAst(sub) /\ sub.exists
  BY DEF Scalars, ScalarSubquery, Expr
<1> QED BY <1>1, SubqueryRendered DEF SubRendered

LEMMA OperandsRendered ==
    ASSUME NEW N, SubRendered(N), NEW c, NEW e \in Operands(c)
    PROVE  Rendered(e.ast, N)
BY EndsRendered, SumsRendered, AggregatesRendered, WindowsRendered, ScalarsRendered DEF Operands

LEMMA NestedRendered ==
    ASSUME NEW N, NEW c, NEW e \in Nested(c)
    PROVE  Rendered(e.ast, N)
<1>1. PICK d \in {Count(LastColumn(c))} \cup Windows(c) : e = Sum(d)
  BY DEF Nested
<1>2. Rendered(d.ast, N)
  BY EndsRendered, AggregateRendered, WindowsRendered
<1> QED BY <1>1, <1>2, AggregateRendered

LEMMA PredicatesRendered ==
    ASSUME NEW N, SubRendered(N), NEW c, NEW p \in Predicates(c)
    PROVE  Rendered(p, N)
<1> DEFINE x == FirstColumn(c).ast
           y == LastColumn(c).ast
           pp == ParamExprAst(pName)
           qq == ParamExprAst(qName)
           lit == LiteralExprAst
<1>1. Rendered(x, N) /\ Rendered(y, N)
  BY EndsRendered
<1>2. Rendered(pp, N) /\ Rendered(qq, N) /\ Rendered(lit, N)
  BY ParamRendered, LiteralRendered
<1> HIDE DEF x, y, pp, qq, lit
<1>3. CASE p \in {ComparePredicateAst(e.ast, lit) : e \in Operands(c)}
  <2>1. PICK e \in Operands(c) : p = ComparePredicateAst(e.ast, lit)
    BY <1>3
  <2>2. Rendered(e.ast, N)
    BY OperandsRendered
  <2> QED BY <1>2, <2>1, <2>2, PredicateNodesRendered
<1>4. CASE p = AndPredicateAst(ComparePredicateAst(x, pp), BetweenPredicateAst(y, qq, lit))
  <2>1. Rendered(ComparePredicateAst(x, pp), N) /\ Rendered(BetweenPredicateAst(y, qq, lit), N)
    BY <1>1, <1>2, PredicateNodesRendered
  <2> QED BY <1>4, <2>1, PredicateNodesRendered
<1>5. CASE p = OrPredicateAst(NotPredicateAst(NullCheckPredicateAst(y)),
                              OrPredicateAst(InPredicateAst(x), LikePredicateAst(y, pp)))
  <2>1. /\ Rendered(NullCheckPredicateAst(y), N) /\ Rendered(InPredicateAst(x), N)
        /\ Rendered(LikePredicateAst(y, pp), N)
    BY <1>1, <1>2, PredicateNodesRendered
  <2>2. /\ Rendered(NotPredicateAst(NullCheckPredicateAst(y)), N)
        /\ Rendered(OrPredicateAst(InPredicateAst(x), LikePredicateAst(y, pp)), N)
    BY <2>1, PredicateNodesRendered
  <2> QED BY <1>5, <2>2, PredicateNodesRendered
<1>6. CASE sub.exists /\ p = ExistsPredicateAst(sub)
  BY <1>6, SubqueryRendered DEF SubRendered
<1>7. CASE /\ sub.exists
           /\ \E e \in {FirstColumn(c)} \cup Aggregates(c)
                       \cup (IF WindowInHaving THEN Windows(c) ELSE {}) :
                p = InSubqueryPredicateAst(e.ast, sub)
  <2>1. PICK e \in {FirstColumn(c)} \cup Aggregates(c)
                    \cup (IF WindowInHaving THEN Windows(c) ELSE {}) :
               p = InSubqueryPredicateAst(e.ast, sub)
    BY <1>7
  <2>2. Rendered(e.ast, N)
    BY EndsRendered, AggregatesRendered, WindowsRendered
  <2>3. Rendered(sub, N)
    BY <1>7 DEF SubRendered
  <2> QED BY <2>1, <2>2, <2>3, InSubqueryRendered
<1> QED BY <1>3, <1>4, <1>5, <1>6, <1>7 DEF Predicates, x, y, pp, qq, lit

LEMMA ConditionalsRendered ==
    ASSUME NEW N, NEW c, NEW e \in Conditionals(c)
    PROVE  Rendered(e.ast, N)
<1> DEFINE x == FirstColumn(c)
           y == LastColumn(c)
           lit == Literal("i32")
           when == ComparePredicateAst(x.ast, LiteralExprAst)
           arm(d) == <<[when |-> when, then |-> d]>>
<1>1. Rendered(x.ast, N) /\ Rendered(y.ast, N) /\ Rendered(lit.ast, N)
  BY EndsRendered, LiteralRendered
<1>2. Rendered(when, N)
  BY <1>1, LiteralRendered, PredicateNodesRendered
<1>3. e \in {Otherwise(arm(x), y), Otherwise(arm(y), lit), CaseEnd(arm(lit)),
             SimpleCase(x, arm(y), lit), Coalesce(<<y, lit>>), Coalesce(<<y, y>>), Nullif(x, lit),
             Lower(y), SqlConcat(x, y), Substring(x, lit, y), Extract(y), ExtractAt(y),
             ExtractSecond(y), DateTrunc(y), Now("timestamp")}
  BY DEF Conditionals
<1> HIDE DEF x, y, lit, when
<1>4. /\ Rendered(Otherwise(arm(x), y).ast, N) /\ Rendered(Otherwise(arm(y), lit).ast, N)
      /\ Rendered(CaseEnd(arm(lit)).ast, N) /\ Rendered(SimpleCase(x, arm(y), lit).ast, N)
  BY <1>1, <1>2, CasesRendered
<1> HIDE DEF arm
<1>5. Rendered(Coalesce(<<y, lit>>).ast, N) /\ Rendered(Coalesce(<<y, y>>).ast, N)
  BY <1>1, CoalesceRendered
<1>6. /\ Rendered(Lower(y).ast, N) /\ Rendered(SqlConcat(x, y).ast, N)
      /\ Rendered(Substring(x, lit, y).ast, N) /\ Rendered(Extract(y).ast, N)
      /\ Rendered(ExtractAt(y).ast, N) /\ Rendered(ExtractSecond(y).ast, N)
      /\ Rendered(DateTrunc(y).ast, N) /\ Rendered(Nullif(x, lit).ast, N)
  BY <1>1, FunctionsRendered
<1>7. Rendered(Now("timestamp").ast, N)
  BY LiteralRendered
<1> QED BY <1>3, <1>4, <1>5, <1>6, <1>7

LEMMA ProjectionsRendered ==
    ASSUME NEW N, SubRendered(N), NEW c, NEW P \in Projections(c)
    PROVE  \E K : AstsOf(P) \in Seq(K) /\ AllRendered(K, N)
<1> DEFINE Known == Operands(c) \cup Columns(c) \cup Nested(c) \cup {Literal("i32")}
                    \cup Conditionals(c) \cup NullSums(c) \cup {Sum(LastColumn(c)), FirstColumn(c)}
           K == {e.ast : e \in Known}
<1>1. ASSUME NEW e \in Known PROVE Rendered(e.ast, N)
  <2>1. e \in Columns(c) => Rendered(e.ast, N)
    <3>1. \A i, j : Rendered(Column(c, i, j).ast, N)
      BY EndsRendered
    <3> QED BY <3>1 DEF Columns
  <2>2. e = Sum(LastColumn(c)) => Rendered(e.ast, N)
    BY EndsRendered, AggregateRendered
  <2>3. e \in NullSums(c) => Rendered(e.ast, N)
    <3> SUFFICES ASSUME e \in NullSums(c) PROVE Rendered(e.ast, N)
      OBVIOUS
    <3>1. PICK d \in Windows(c) \cup Scalars \cup {LastColumn(c)} :
            e = Subtract(FirstColumn(c), d)
      BY DEF NullSums
    <3>2. Rendered(d.ast, N) /\ Rendered(FirstColumn(c).ast, N)
      BY EndsRendered, WindowsRendered, ScalarsRendered
    <3> QED BY <3>1, <3>2, FunctionsRendered
  <2>4. e = FirstColumn(c) => Rendered(e.ast, N)
    BY EndsRendered
  <2>5. e = Literal("i32") => Rendered(e.ast, N)
    BY LiteralRendered
  <2> QED BY <2>1, <2>2, <2>3, <2>4, <2>5, OperandsRendered, NestedRendered, ConditionalsRendered
<1>2. \/ \E e \in Known : P = <<e>>
      \/ \E d, e \in Known : P = <<d, e>>
  <2>1. Aggregates(c) \subseteq Operands(c)
    BY DEF Operands
  <2> QED BY <2>1 DEF Projections, Singles, Pairs
<1>3. AllRendered(K, N)
  <2> HIDE DEF Known
  <2> QED BY <1>1 DEF AllRendered
<1> HIDE DEF Known
<1>4. CASE \E e \in Known : P = <<e>>
  <2>1. PICK e \in Known : P = <<e>>
    BY <1>4
  <2>2. AstsOf(P) = <<e.ast>> /\ e.ast \in K
    BY <2>1 DEF AstsOf
  <2> QED BY <1>3, <2>2
<1>5. CASE \E d, e \in Known : P = <<d, e>>
  <2>1. PICK d, e \in Known : P = <<d, e>>
    BY <1>5
  <2>2. AstsOf(P) = <<d.ast, e.ast>> /\ d.ast \in K /\ e.ast \in K
    BY <2>1 DEF AstsOf
  <2> QED BY <1>3, <2>2
<1> QED BY <1>2, <1>4, <1>5

LEMMA OnRendered ==
    ASSUME NEW N, NEW s, NEW on \in OnPredicates(s)
    PROVE  Rendered(on, N)
<1> DEFINE c == JoinLink(chain, "inner", s, NoAst)
           x == FirstColumn(chain).ast
           y == LastColumn(c)
           p == ParamExprAst(pName)
<1>1. on \in {AndPredicateAst(ComparePredicateAst(x, y.ast), ComparePredicateAst(x, p)),
              ComparePredicateAst(Count(y).ast, LiteralExprAst)}
  BY DEF OnPredicates
<1>2. Rendered(x, N) /\ Rendered(y.ast, N) /\ Rendered(p, N)
  BY EndsRendered, ParamRendered
<1> HIDE DEF c, x, y, p
<1>3. Rendered(Count(y).ast, N) /\ Rendered(LiteralExprAst, N)
  BY <1>2, AggregateRendered, LiteralRendered
<1>4. Rendered(ComparePredicateAst(x, y.ast), N) /\ Rendered(ComparePredicateAst(x, p), N)
  BY <1>2, PredicateNodesRendered
<1>5. /\ Rendered(AndPredicateAst(ComparePredicateAst(x, y.ast), ComparePredicateAst(x, p)), N)
      /\ Rendered(ComparePredicateAst(Count(y).ast, LiteralExprAst), N)
  BY <1>3, <1>4, PredicateNodesRendered
<1> QED BY <1>1, <1>5

-----------------------------------------------------------------------------
(* A clause is the texts of its links, one after the other.                *)

Mapped(F, s) == [i \in DOMAIN s |-> F[s[i]]]

AllTexts(F) == \A l \in DOMAIN F : IsText(F[l])

TokensOf(F) == UNION {Range(F[l]) : l \in DOMAIN F}

LEMMA MappedIs ==
    ASSUME NEW F, AllTexts(F), NEW s \in Seq(DOMAIN F)
    PROVE  /\ Mapped(F, s) \in Seq(Seq(TokensOf(F))) /\ Len(Mapped(F, s)) = Len(s)
           /\ \A i \in 1 .. Len(s) : Mapped(F, s)[i] = F[s[i]]
           /\ \A l \in DOMAIN F : F[l] \in Seq(TokensOf(F))
<1>1. \A l \in DOMAIN F : F[l] \in Seq(Range(F[l])) /\ Range(F[l]) \subseteq TokensOf(F)
  BY DEF AllTexts, IsText, TokensOf
<1>2. \A l \in DOMAIN F : F[l] \in Seq(TokensOf(F))
  BY <1>1, SeqMonotonic
<1>3. DOMAIN s = 1 .. Len(s) /\ Len(s) \in Nat /\ \A i \in 1 .. Len(s) : s[i] \in DOMAIN F
  BY LenProperties
<1>4. \A i \in 1 .. Len(s) : Mapped(F, s)[i] = F[s[i]]
  BY <1>3 DEF Mapped
<1>5. \A i \in 1 .. Len(s) : F[s[i]] \in Seq(TokensOf(F))
  BY <1>2, <1>3
<1>6. Mapped(F, s) \in [1 .. Len(s) -> Seq(TokensOf(F))]
  BY <1>3, <1>5 DEF Mapped
<1>7. Mapped(F, s) \in Seq(Seq(TokensOf(F))) /\ Len(Mapped(F, s)) = Len(s)
  BY <1>3, <1>6
<1> QED BY <1>2, <1>4, <1>7

LEMMA MappedText ==
    ASSUME NEW F, AllTexts(F), NEW s \in Seq(DOMAIN F)
    PROVE  /\ IsText(FlattenSeq(Mapped(F, s)))
           /\ \A x : x \in Range(FlattenSeq(Mapped(F, s))) <=> \E l \in Range(s) : x \in Range(F[l])
<1> DEFINE t == Mapped(F, s)
<1>1. t \in Seq(Seq(TokensOf(F)))
  BY MappedIs
<1>2. \A u : u \in Range(t) <=> \E l \in Range(s) : u = F[l]
  <2>1. DOMAIN t = DOMAIN s /\ \A i \in DOMAIN s : t[i] = F[s[i]]
    BY DEF Mapped
  <2> HIDE DEF t
  <2> QED BY <2>1 DEF Range
<1> HIDE DEF t
<1>3. IsText(FlattenSeq(t))
  BY <1>1, FlattenIsSequence, SequenceIsText
<1>4. \A x : x \in Range(FlattenSeq(t)) <=> \E u \in Range(t) : x \in Range(u)
  BY <1>1, RangeOfFlatten
<1> QED BY <1>2, <1>3, <1>4 DEF t

LEMMA MappedAppend ==
    ASSUME NEW F, AllTexts(F), NEW s \in Seq(DOMAIN F), NEW l \in DOMAIN F
    PROVE  FlattenSeq(Mapped(F, Append(s, l))) = FlattenSeq(Mapped(F, s)) \o F[l]
<1> DEFINE S == Seq(TokensOf(F))
<1>1. /\ Append(s, l) \in Seq(DOMAIN F) /\ Len(Append(s, l)) = Len(s) + 1
      /\ Append(s, l)[Len(s) + 1] = l /\ Len(s) \in Nat
  OBVIOUS
<1>2. \A i \in 1 .. Len(s) : Append(s, l)[i] = s[i]
  OBVIOUS
<1>3. /\ Mapped(F, s) \in Seq(S) /\ Len(Mapped(F, s)) = Len(s) /\ F[l] \in S
      /\ \A i \in 1 .. Len(s) : Mapped(F, s)[i] = F[s[i]]
  BY MappedIs
<1>4. /\ Mapped(F, Append(s, l)) \in Seq(S)
      /\ Len(Mapped(F, Append(s, l))) = Len(s) + 1
      /\ \A i \in 1 .. Len(s) + 1 : Mapped(F, Append(s, l))[i] = F[Append(s, l)[i]]
  <2> DEFINE t == Append(s, l)
  <2>1. t \in Seq(DOMAIN F) /\ Len(t) = Len(s) + 1
    BY <1>1
  <2> HIDE DEF t
  <2>2. /\ Mapped(F, t) \in Seq(S) /\ Len(Mapped(F, t)) = Len(t)
        /\ \A i \in 1 .. Len(t) : Mapped(F, t)[i] = F[t[i]]
    BY <2>1, MappedIs
  <2> QED BY <2>1, <2>2 DEF t
<1> HIDE DEF S
<1>5. Len(s) + 1 \in 1 .. Len(s) + 1 /\ 1 .. Len(s) \subseteq 1 .. Len(s) + 1
  BY <1>1
<1>6. \A i \in 1 .. Len(s) : Mapped(F, Append(s, l))[i] = Mapped(F, s)[i]
  <2> SUFFICES ASSUME NEW i \in 1 .. Len(s)
               PROVE  Mapped(F, Append(s, l))[i] = Mapped(F, s)[i]
    OBVIOUS
  <2>1. i \in 1 .. Len(s) + 1
    BY <1>5
  <2>2. Mapped(F, Append(s, l))[i] = F[Append(s, l)[i]]
    BY <1>4, <2>1
  <2>3. Append(s, l)[i] = s[i] /\ Mapped(F, s)[i] = F[s[i]]
    BY <1>2, <1>3
  <2> QED BY <2>2, <2>3
<1>7. Mapped(F, Append(s, l))[Len(s) + 1] = F[l]
  BY <1>1, <1>4, <1>5
<1>8. Mapped(F, Append(s, l)) = Append(Mapped(F, s), F[l])
  BY <1>3, <1>4, <1>6, <1>7, AppendIs
<1>9. FlattenSeq(Append(Mapped(F, s), F[l])) = FlattenSeq(Mapped(F, s)) \o F[l]
  BY <1>3, FlattenAppend DEF S
<1> QED BY <1>8, <1>9

\* What one link adds to a clause, and to the sources.
InClause(l, clause) == IF l.clause = clause THEN l.ast.text ELSE <<>>
InSources(l) ==
    IF l.clause \in {"from", "join"}
    THEN <<Word(l.arg), TableToken(l.source.table)>> \o l.ast.text ELSE <<>>

LEMMA TwoWords ==
    ASSUME NEW v, NEW w
    PROVE  /\ IsText(<<Word(v), Word(w)>>) /\ Placeholders(<<Word(v), Word(w)>>) = <<>>
           /\ \A n : TableToken(n) \notin Range(<<Word(v), Word(w)>>)
<1>1. /\ IsText(<<Word(v)>> \o <<>>) /\ Placeholders(<<Word(v)>> \o <<>>) = <<>>
      /\ \A n : TableToken(n) \in Range(<<Word(v)>> \o <<>>) <=> TableToken(n) \in Range(<<>>)
  BY TextOfNone, WordBefore
<1>2. \A x : x \notin Range(<<>>)
  BY TextOfNone
<1>3. <<Word(w)>> \o <<>> = <<Word(w)>>
  <2>1. <<Word(w)>> \in Seq({Word(w)})
    OBVIOUS
  <2> QED BY <2>1, ConcatEmptySeq
<1>4. /\ IsText(<<Word(w)>> \o <<>>) /\ Placeholders(<<Word(w)>> \o <<>>) = <<>>
      /\ \A n : TableToken(n) \in Range(<<Word(w)>> \o <<>>) <=> TableToken(n) \in Range(<<>>)
  BY TextOfNone, WordBefore
<1>5. /\ IsText(<<Word(w)>>) /\ Placeholders(<<Word(w)>>) = <<>>
      /\ \A n : TableToken(n) \notin Range(<<Word(w)>>)
  BY <1>2, <1>3, <1>4
<1>6. <<Word(v)>> \o <<Word(w)>> = <<Word(v), Word(w)>>
  BY PairIs
<1>7. /\ IsText(<<Word(v)>> \o <<Word(w)>>) /\ Placeholders(<<Word(v)>> \o <<Word(w)>>) = <<>>
      /\ \A n : TableToken(n) \in Range(<<Word(v)>> \o <<Word(w)>>)
                  <=> TableToken(n) \in Range(<<Word(w)>>)
  BY <1>5, WordBefore
<1> QED BY <1>5, <1>6, <1>7

\* A source and the join that brought it in.
LEMMA SourceTextIs ==
    ASSUME NEW w, NEW t, NEW text, IsText(text)
    PROVE  LET s == <<Word(w), TableToken(t)>> \o text
           IN  /\ IsText(s) /\ Placeholders(s) = Placeholders(text)
               /\ \A n : TableToken(n) \in Range(s) <=> n = t \/ TableToken(n) \in Range(text)
<1> DEFINE head == <<Word(w), TableToken(t)>>
           token == TableToken(t)
<1>1. token[1] = "table" /\ \A n : TableToken(n) = token <=> n = t
  BY TokenKinds
<1> HIDE DEF token
<1>2. /\ IsText(<<token>>) /\ Placeholders(<<token>>) = <<>>
      /\ \A x : x \in Range(<<token>>) <=> x = token
  BY <1>1, TextOfOne
<1>3. <<Word(w)>> \o <<token>> = <<Word(w), token>>
  BY PairIs
<1>4. /\ IsText(<<Word(w)>> \o <<token>>) /\ Placeholders(<<Word(w)>> \o <<token>>) = <<>>
      /\ \A n : TableToken(n) \in Range(<<Word(w)>> \o <<token>>) <=> TableToken(n) \in Range(<<token>>)
  BY <1>2, WordBefore
<1>5. /\ IsText(head) /\ Placeholders(head) = <<>>
      /\ \A n : TableToken(n) \in Range(head) <=> n = t
  BY <1>1, <1>2, <1>3, <1>4 DEF token
<1> HIDE DEF head
<1>6. /\ IsText(head \o text) /\ Placeholders(head \o text) = <<>> \o Placeholders(text)
      /\ \A x : x \in Range(head \o text) <=> x \in Range(head) \/ x \in Range(text)
  BY <1>5, TextConcat
<1>7. <<>> \o Placeholders(text) = Placeholders(text)
  BY PlaceholdersAreText
<1>8. \A n : TableToken(n) \in Range(head \o text) <=> n = t \/ TableToken(n) \in Range(text)
  BY <1>5, <1>6
<1> QED BY <1>6, <1>7, <1>8 DEF head

-----------------------------------------------------------------------------
(* What the types of a chain say of its text.                              *)

\* A link of a chain of the menu: only a FROM and a JOIN have a source, and N has the names of
\* the sources that are CTEs.
LinkRendered(l, N) ==
    /\ Rendered(l.ast, N)
    /\ l.clause \in {"from", "join"} => (l.source.cte <=> l.source.table \in N)
    /\ l.clause \notin {"from", "join"} => ~ l.source.cte
    /\ l.clause \notin {"from", "join", "where", "group", "having", "order"} => l.ast = NoAst

LinksRendered(c, N) ==
    /\ c.links \in Seq(Range(c.links))
    /\ \A l \in Range(c.links) : LinkRendered(l, N)

\* The parameters of each clause are the placeholders of its text.
TextInv(c, N) ==
    /\ Fields \subseteq DOMAIN c
    /\ LinksRendered(c, N)
    /\ c.sourceParams = Placeholders(Sources(c))
    /\ c.filterParams = Placeholders(Clause(c, "where"))
    /\ c.groupParams = Placeholders(Clause(c, "group"))
    /\ c.havingParams = Placeholders(Clause(c, "having"))
    /\ c.orderParams = Placeholders(Clause(c, "order"))

ClausesOf(D, clause) == [l \in D |-> InClause(l, clause)]
SourcesOf(D) == [l \in D |-> InSources(l)]

LEMMA ClauseIs ==
    ASSUME NEW c, NEW D, c.links \in Seq(D)
    PROVE  /\ \A clause : Clause(c, clause) = FlattenSeq(Mapped(ClausesOf(D, clause), c.links))
           /\ Sources(c) = FlattenSeq(Mapped(SourcesOf(D), c.links))
<1>1. \A i \in DOMAIN c.links : c.links[i] \in D
  BY LenProperties, ElementOfSeq
<1>2. ASSUME NEW clause
      PROVE  [i \in DOMAIN c.links |->
                IF c.links[i].clause = clause THEN c.links[i].ast.text ELSE <<>>]
               = Mapped(ClausesOf(D, clause), c.links)
  BY <1>1 DEF Mapped, ClausesOf, InClause
<1>3. [i \in DOMAIN c.links |->
         LET l == c.links[i] IN
         IF l.clause \in {"from", "join"}
           THEN <<Word(l.arg), TableToken(l.source.table)>> \o l.ast.text ELSE <<>>]
        = Mapped(SourcesOf(D), c.links)
  BY <1>1 DEF Mapped, SourcesOf, InSources
<1>4. ASSUME NEW clause
      PROVE  Clause(c, clause) = FlattenSeq(Mapped(ClausesOf(D, clause), c.links))
  BY <1>2 DEF Clause
<1>5. Sources(c) = FlattenSeq(Mapped(SourcesOf(D), c.links))
  BY <1>3 DEF Sources
<1> QED BY <1>4, <1>5

LEMMA LinkTexts ==
    ASSUME NEW N, NEW D, \A l \in D : LinkRendered(l, N)
    PROVE  /\ \A clause : AllTexts(ClausesOf(D, clause)) /\ DOMAIN ClausesOf(D, clause) = D
           /\ AllTexts(SourcesOf(D)) /\ DOMAIN SourcesOf(D) = D
<1>1. ASSUME NEW l \in D
      PROVE  IsText(InSources(l)) /\ \A clause : IsText(InClause(l, clause))
  <2>1. IsText(l.ast.text)
    BY DEF LinkRendered, Rendered
  <2>2. IsText(<<Word(l.arg), TableToken(l.source.table)>> \o l.ast.text)
    BY <2>1, SourceTextIs
  <2>3. IsText(<<>>)
    BY TextOfNone
  <2> QED BY <2>1, <2>2, <2>3 DEF InSources, InClause
<1>2. \A clause : DOMAIN ClausesOf(D, clause) = D /\ \A l \in D : ClausesOf(D, clause)[l] = InClause(l, clause)
  BY DEF ClausesOf
<1>3. DOMAIN SourcesOf(D) = D /\ \A l \in D : SourcesOf(D)[l] = InSources(l)
  BY DEF SourcesOf
<1> QED BY <1>1, <1>2, <1>3 DEF AllTexts

\* What a chain's clauses are, and which tables they name.
LEMMA ChainText ==
    ASSUME NEW N, NEW c, LinksRendered(c, N)
    PROVE  /\ IsText(Sources(c))
           /\ \A n : TableToken(n) \in Range(Sources(c))
                       <=> \E l \in Range(c.links) :
                             /\ l.clause \in {"from", "join"}
                             /\ l.source.table = n \/ TableToken(n) \in Range(l.ast.text)
           /\ \A clause :
                /\ IsText(Clause(c, clause))
                /\ \A n : TableToken(n) \in Range(Clause(c, clause))
                            <=> \E l \in Range(c.links) :
                                  l.clause = clause /\ TableToken(n) \in Range(l.ast.text)
<1> DEFINE D == Range(c.links)
<1>1. c.links \in Seq(D) /\ \A l \in D : LinkRendered(l, N)
  BY DEF LinksRendered
<1> HIDE DEF D
<1>2. AllTexts(SourcesOf(D)) /\ DOMAIN SourcesOf(D) = D /\ \A l \in D : SourcesOf(D)[l] = InSources(l)
  BY <1>1, LinkTexts DEF SourcesOf
<1>3. /\ IsText(Sources(c))
      /\ \A x : x \in Range(Sources(c)) <=> \E l \in Range(c.links) : x \in Range(SourcesOf(D)[l])
  BY <1>1, <1>2, ClauseIs, MappedText
<1>4. \A l \in D : IsText(l.ast.text)
  BY <1>1 DEF LinkRendered, Rendered
<1>5. \A x : x \notin Range(<<>>)
  BY TextOfNone
<1>6. ASSUME NEW n, NEW l \in D
      PROVE  TableToken(n) \in Range(InSources(l))
               <=> /\ l.clause \in {"from", "join"}
                   /\ l.source.table = n \/ TableToken(n) \in Range(l.ast.text)
  <2>1. TableToken(n) \in Range(<<Word(l.arg), TableToken(l.source.table)>> \o l.ast.text)
          <=> n = l.source.table \/ TableToken(n) \in Range(l.ast.text)
    BY <1>4, SourceTextIs
  <2> QED BY <1>5, <2>1 DEF InSources
<1>7. ASSUME NEW n
      PROVE  TableToken(n) \in Range(Sources(c))
               <=> \E l \in Range(c.links) :
                     /\ l.clause \in {"from", "join"}
                     /\ l.source.table = n \/ TableToken(n) \in Range(l.ast.text)
  BY <1>2, <1>3, <1>6 DEF D
<1>8. ASSUME NEW clause
      PROVE  /\ IsText(Clause(c, clause))
             /\ \A n : TableToken(n) \in Range(Clause(c, clause))
                         <=> \E l \in Range(c.links) :
                               l.clause = clause /\ TableToken(n) \in Range(l.ast.text)
  <2>1. /\ AllTexts(ClausesOf(D, clause)) /\ DOMAIN ClausesOf(D, clause) = D
        /\ \A l \in D : ClausesOf(D, clause)[l] = InClause(l, clause)
    BY <1>1, LinkTexts DEF ClausesOf
  <2>2. Clause(c, clause) = FlattenSeq(Mapped(ClausesOf(D, clause), c.links))
    BY <1>1, ClauseIs
  <2>3. /\ IsText(Clause(c, clause))
        /\ \A x : x \in Range(Clause(c, clause))
                    <=> \E l \in Range(c.links) : x \in Range(ClausesOf(D, clause)[l])
    BY <1>1, <2>1, <2>2, MappedText
  <2>4. \A n : \A l \in D : TableToken(n) \in Range(InClause(l, clause))
                              <=> l.clause = clause /\ TableToken(n) \in Range(l.ast.text)
    BY <1>5 DEF InClause
  <2> QED BY <2>1, <2>3, <2>4 DEF D
<1> QED BY <1>3, <1>7, <1>8

\* One more link.
LEMMA OneMoreLink ==
    ASSUME NEW N, NEW c, LinksRendered(c, N), NEW l, LinkRendered(l, N), NEW d, Extends(c, d, l)
    PROVE  /\ LinksRendered(d, N)
           /\ Placeholders(Sources(d))
                = IF l.clause \in {"from", "join"}
                  THEN Placeholders(Sources(c)) \o l.ast.params ELSE Placeholders(Sources(c))
           /\ \A clause :
                Placeholders(Clause(d, clause))
                  = IF l.clause = clause
                    THEN Placeholders(Clause(c, clause)) \o l.ast.params
                    ELSE Placeholders(Clause(c, clause))
<1> DEFINE D == Range(d.links)
<1>1. /\ c.links \in Seq(Range(c.links)) /\ D = Range(c.links) \cup {l}
      /\ d.links \in Seq(D) /\ d.links = Append(c.links, l)
  BY PushIs DEF LinksRendered, Extends
<1>2. \A k \in D : LinkRendered(k, N)
  BY <1>1 DEF LinksRendered
<1>3. c.links \in Seq(D) /\ l \in D
  <2>1. Range(c.links) \subseteq D /\ l \in D
    BY <1>1
  <2> HIDE DEF D
  <2> QED BY <1>1, <2>1, SeqMonotonic
<1>4. LinksRendered(d, N)
  BY <1>1, <1>2 DEF LinksRendered
<1> HIDE DEF D
<1>5. \A s : IsText(s) => IsText(Placeholders(s)) /\ Placeholders(s) \o <<>> = Placeholders(s)
  BY PlaceholdersAreText
<1>6. IsText(l.ast.text) /\ l.ast.params = Placeholders(l.ast.text)
  BY DEF LinkRendered, Rendered
<1>7. IsText(<<>>) /\ Placeholders(<<>>) = <<>>
  BY TextOfNone
<1>8. Placeholders(Sources(d))
        = IF l.clause \in {"from", "join"}
          THEN Placeholders(Sources(c)) \o l.ast.params ELSE Placeholders(Sources(c))
  <2> DEFINE F == SourcesOf(D)
  <2>1. AllTexts(F) /\ DOMAIN F = D /\ F[l] = InSources(l)
    BY <1>2, <1>3, LinkTexts DEF SourcesOf
  <2>2. /\ Sources(c) = FlattenSeq(Mapped(F, c.links))
        /\ Sources(d) = FlattenSeq(Mapped(F, d.links))
    BY <1>1, <1>3, ClauseIs
  <2> HIDE DEF F
  <2>3. Sources(d) = Sources(c) \o InSources(l)
    BY <1>1, <1>3, <2>1, <2>2, MappedAppend
  <2>4. IsText(Sources(c))
    BY ChainText
  <2>5. IsText(InSources(l))
    BY <1>3, <2>1 DEF AllTexts
  <2>6. Placeholders(Sources(d)) = Placeholders(Sources(c)) \o Placeholders(InSources(l))
    BY <2>3, <2>4, <2>5, TextConcat
  <2>7. Placeholders(<<Word(l.arg), TableToken(l.source.table)>> \o l.ast.text) = l.ast.params
    BY <1>6, SourceTextIs
  <2>8. Placeholders(InSources(l)) = IF l.clause \in {"from", "join"} THEN l.ast.params ELSE <<>>
    BY <1>7, <2>7 DEF InSources
  <2> QED BY <1>5, <2>4, <2>6, <2>8
<1>9. ASSUME NEW clause
      PROVE  Placeholders(Clause(d, clause))
               = IF l.clause = clause
                 THEN Placeholders(Clause(c, clause)) \o l.ast.params
                 ELSE Placeholders(Clause(c, clause))
  <2> DEFINE F == ClausesOf(D, clause)
  <2>1. AllTexts(F) /\ DOMAIN F = D /\ F[l] = InClause(l, clause)
    BY <1>2, <1>3, LinkTexts DEF ClausesOf
  <2>2. /\ Clause(c, clause) = FlattenSeq(Mapped(F, c.links))
        /\ Clause(d, clause) = FlattenSeq(Mapped(F, d.links))
    BY <1>1, <1>3, ClauseIs
  <2> HIDE DEF F
  <2>3. Clause(d, clause) = Clause(c, clause) \o InClause(l, clause)
    BY <1>1, <1>3, <2>1, <2>2, MappedAppend
  <2>4. IsText(Clause(c, clause))
    BY ChainText
  <2>5. IsText(InClause(l, clause))
    BY <1>6, <1>7 DEF InClause
  <2>6. Placeholders(Clause(d, clause)) = Placeholders(Clause(c, clause)) \o Placeholders(InClause(l, clause))
    BY <2>3, <2>4, <2>5, TextConcat
  <2>7. Placeholders(InClause(l, clause)) = IF l.clause = clause THEN l.ast.params ELSE <<>>
    BY <1>6, <1>7 DEF InClause
  <2> QED BY <1>5, <2>4, <2>6, <2>7
<1> QED BY <1>4, <1>8, <1>9

\* A method appends its argument's parameters to those of its clause.
ParamsGrow(c, d, l) ==
    /\ Fields \subseteq DOMAIN d
    /\ d.sourceParams = IF l.clause \in {"from", "join"} THEN c.sourceParams \o l.ast.params
                        ELSE c.sourceParams
    /\ d.filterParams = IF l.clause = "where" THEN c.filterParams \o l.ast.params
                        ELSE c.filterParams
    /\ d.groupParams = IF l.clause = "group" THEN c.groupParams \o l.ast.params
                       ELSE c.groupParams
    /\ d.havingParams = IF l.clause = "having" THEN c.havingParams \o l.ast.params
                        ELSE c.havingParams
    /\ d.orderParams = IF l.clause = "order" THEN c.orderParams \o l.ast.params
                       ELSE c.orderParams

LEMMA TextKept ==
    ASSUME NEW N, NEW c, TextInv(c, N), NEW l, LinkRendered(l, N), NEW d, Extends(c, d, l),
           ParamsGrow(c, d, l)
    PROVE  TextInv(d, N)
<1>1. /\ LinksRendered(d, N)
      /\ Placeholders(Sources(d))
           = IF l.clause \in {"from", "join"}
             THEN Placeholders(Sources(c)) \o l.ast.params ELSE Placeholders(Sources(c))
      /\ \A clause :
           Placeholders(Clause(d, clause))
             = IF l.clause = clause
               THEN Placeholders(Clause(c, clause)) \o l.ast.params
               ELSE Placeholders(Clause(c, clause))
  BY OneMoreLink DEF TextInv
<1>2. d.sourceParams = Placeholders(Sources(d))
  BY <1>1 DEF TextInv, ParamsGrow
<1>3. d.filterParams = Placeholders(Clause(d, "where"))
  BY <1>1 DEF TextInv, ParamsGrow
<1>4. d.groupParams = Placeholders(Clause(d, "group"))
  BY <1>1 DEF TextInv, ParamsGrow
<1>5. d.havingParams = Placeholders(Clause(d, "having"))
  BY <1>1 DEF TextInv, ParamsGrow
<1>6. d.orderParams = Placeholders(Clause(d, "order"))
  BY <1>1 DEF TextInv, ParamsGrow
<1> QED BY <1>1, <1>2, <1>3, <1>4, <1>5, <1>6 DEF TextInv, ParamsGrow

LEMMA NoSourceIs == ~ NoSource.cte
BY DEF NoSource

\* The methods with an argument to render.
LEMMA ClauseMethods ==
    ASSUME NEW N, NEW c, TextInv(c, N), NEW e, Rendered(e.ast, N), NEW p, Rendered(p, N)
    PROVE  /\ TextInv(WhereLink(c, p), N) /\ TextInv(HavingLink(c, p), N)
           /\ TextInv(GroupByLink(c, e), N) /\ TextInv(OrderByLink(c, e), N)
<1>1. TextInv(WhereLink(c, p), N)
  <2> DEFINE l == Link("where", p, NoKind, "", NoSource)
             d == WhereLink(c, p)
  <2>1. Extends(c, d, l) /\ l.clause = "where" /\ l.ast = p /\ l.source = NoSource
    BY DEF TextInv, Fields, WhereLink, Push, Extends, Link
  <2>2. ParamsGrow(c, d, l)
    BY DEF TextInv, Fields, WhereLink, Push, Link, ParamsGrow
  <2> HIDE DEF l, d
  <2>3. LinkRendered(l, N)
    BY <2>1, NoSourceIs DEF LinkRendered
  <2>4. TextInv(d, N)
    BY <2>1, <2>2, <2>3, TextKept
  <2> QED BY <2>4 DEF d
<1>2. TextInv(HavingLink(c, p), N)
  <2> DEFINE l == Link("having", p, NoKind, "", NoSource)
             d == HavingLink(c, p)
  <2>1. Extends(c, d, l) /\ l.clause = "having" /\ l.ast = p /\ l.source = NoSource
    BY DEF TextInv, Fields, HavingLink, Push, Extends, Link
  <2>2. ParamsGrow(c, d, l)
    BY DEF TextInv, Fields, HavingLink, Push, Link, ParamsGrow
  <2> HIDE DEF l, d
  <2>3. LinkRendered(l, N)
    BY <2>1, NoSourceIs DEF LinkRendered
  <2>4. TextInv(d, N)
    BY <2>1, <2>2, <2>3, TextKept
  <2> QED BY <2>4 DEF d
<1>3. TextInv(GroupByLink(c, e), N)
  <2> DEFINE l == Link("group", e.ast, e.kind, "", NoSource)
             d == GroupByLink(c, e)
  <2>1. Extends(c, d, l) /\ l.clause = "group" /\ l.ast = e.ast /\ l.source = NoSource
    BY DEF TextInv, Fields, GroupByLink, Push, Extends, Link
  <2>2. ParamsGrow(c, d, l)
    BY DEF TextInv, Fields, GroupByLink, Push, Link, ParamsGrow
  <2> HIDE DEF l, d
  <2>3. LinkRendered(l, N)
    BY <2>1, NoSourceIs DEF LinkRendered
  <2>4. TextInv(d, N)
    BY <2>1, <2>2, <2>3, TextKept
  <2> QED BY <2>4 DEF d
<1>4. TextInv(OrderByLink(c, e), N)
  <2> DEFINE l == Link("order", e.ast, e.kind, "", NoSource)
             d == OrderByLink(c, e)
  <2>1. Extends(c, d, l) /\ l.clause = "order" /\ l.ast = e.ast /\ l.source = NoSource
    BY DEF TextInv, Fields, OrderByLink, Push, Extends, Link
  <2>2. ParamsGrow(c, d, l)
    BY DEF TextInv, Fields, OrderByLink, Push, Link, ParamsGrow
  <2> HIDE DEF l, d
  <2>3. LinkRendered(l, N)
    BY <2>1, NoSourceIs DEF LinkRendered
  <2>4. TextInv(d, N)
    BY <2>1, <2>2, <2>3, TextKept
  <2> QED BY <2>4 DEF d
<1> QED BY <1>1, <1>2, <1>3, <1>4

\* Those without.
LEMMA BareMethods ==
    ASSUME NEW N, NEW c, TextInv(c, N), NEW rows
    PROVE  /\ TextInv(LimitLink(c, rows), N) /\ TextInv(OffsetLink(c, rows), N)
           /\ TextInv(LockLink(c, rows), N) /\ TextInv(DistinctLink(c), N)
<1>1. ASSUME NEW d, NEW l, Extends(c, d, l), ParamsGrow(c, d, l), l.ast = NoAst,
             l.source = NoSource, l.clause \in {"limit", "offset", "lock", "distinct"}
      PROVE  TextInv(d, N)
  <2>1. LinkRendered(l, N)
    BY <1>1, NoSourceIs, LiteralRendered DEF LinkRendered
  <2> QED BY <1>1, <2>1, TextKept
<1>2. TextInv(LimitLink(c, rows), N)
  <2> DEFINE l == Link("limit", NoAst, NoKind, rows, NoSource)
             d == LimitLink(c, rows)
  <2>1. Extends(c, d, l) /\ l.clause = "limit" /\ l.ast = NoAst /\ l.source = NoSource
    BY DEF TextInv, Fields, LimitLink, Push, Extends, Link
  <2>2. ParamsGrow(c, d, l)
    BY DEF TextInv, Fields, LimitLink, Push, Link, ParamsGrow
  <2> HIDE DEF l, d
  <2>3. TextInv(d, N)
    BY <1>1, <2>1, <2>2
  <2> QED BY <2>3 DEF d
<1>3. TextInv(OffsetLink(c, rows), N)
  <2> DEFINE l == Link("offset", NoAst, NoKind, rows, NoSource)
             d == OffsetLink(c, rows)
  <2>1. Extends(c, d, l) /\ l.clause = "offset" /\ l.ast = NoAst /\ l.source = NoSource
    BY DEF TextInv, Fields, OffsetLink, Push, Extends, Link
  <2>2. ParamsGrow(c, d, l)
    BY DEF TextInv, Fields, OffsetLink, Push, Link, ParamsGrow
  <2> HIDE DEF l, d
  <2>3. TextInv(d, N)
    BY <1>1, <2>1, <2>2
  <2> QED BY <2>3 DEF d
<1>4. TextInv(LockLink(c, rows), N)
  <2> DEFINE l == Link("lock", NoAst, NoKind, rows, NoSource)
             d == LockLink(c, rows)
  <2>1. Extends(c, d, l) /\ l.clause = "lock" /\ l.ast = NoAst /\ l.source = NoSource
    BY DEF TextInv, Fields, LockLink, Push, Extends, Link
  <2>2. ParamsGrow(c, d, l)
    BY DEF TextInv, Fields, LockLink, Push, Link, ParamsGrow
  <2> HIDE DEF l, d
  <2>3. TextInv(d, N)
    BY <1>1, <2>1, <2>2
  <2> QED BY <2>3 DEF d
<1>5. TextInv(DistinctLink(c), N)
  <2> DEFINE l == Link("distinct", NoAst, NoKind, "", NoSource)
             d == DistinctLink(c)
  <2>1. Extends(c, d, l) /\ l.clause = "distinct" /\ l.ast = NoAst /\ l.source = NoSource
    BY DEF TextInv, Fields, DistinctLink, Push, Extends, Link
  <2>2. ParamsGrow(c, d, l)
    BY DEF TextInv, Fields, DistinctLink, Push, Link, ParamsGrow
  <2> HIDE DEF l, d
  <2>3. TextInv(d, N)
    BY <1>1, <2>1, <2>2
  <2> QED BY <2>3 DEF d
<1> QED BY <1>2, <1>3, <1>4, <1>5

\* The joins, of a source that is a CTE if N has its name.
LEMMA JoinMethods ==
    ASSUME NEW N, NEW c, TextInv(c, N), NEW on, Rendered(on, N), NEW source, NEW kind,
           source.cte <=> source.table \in N
    PROVE  /\ TextInv(JoinLink(c, kind, source, on), N)
           /\ TextInv(LeftJoinLink(c, source, on), N)
           /\ TextInv(OuterJoinLink(c, kind, source, on), N)
<1>1. ASSUME NEW k, NEW l, l = Link("join", on, NoKind, k, source),
             NEW d, Extends(c, d, l), ParamsGrow(c, d, l)
      PROVE  TextInv(d, N)
  <2>1. l.clause = "join" /\ l.ast = on /\ l.source = source
    BY <1>1 DEF Link
  <2>2. LinkRendered(l, N)
    BY <2>1 DEF LinkRendered
  <2> QED BY <1>1, <2>2, TextKept
<1>2. TextInv(JoinLink(c, kind, source, on), N)
  <2> DEFINE l == Link("join", on, NoKind, kind, source)
             d == JoinLink(c, kind, source, on)
  <2>1. Extends(c, d, l)
    BY DEF TextInv, Fields, JoinLink, Joined, Push, Extends
  <2>2. ParamsGrow(c, d, l)
    BY DEF TextInv, Fields, JoinLink, Joined, Push, Link, ParamsGrow
  <2>4. l = Link("join", on, NoKind, kind, source)
    OBVIOUS
  <2> HIDE DEF l, d
  <2>3. TextInv(d, N)
    BY <1>1, <2>1, <2>2, <2>4
  <2> QED BY <2>3 DEF d
<1>3. TextInv(LeftJoinLink(c, source, on), N)
  <2> DEFINE l == Link("join", on, NoKind, "left", source)
             d == LeftJoinLink(c, source, on)
  <2>1. Extends(c, d, l)
    BY DEF TextInv, Fields, LeftJoinLink, Joined, Push, Extends
  <2>2. ParamsGrow(c, d, l)
    BY DEF TextInv, Fields, LeftJoinLink, Joined, Push, Link, ParamsGrow
  <2>4. l = Link("join", on, NoKind, "left", source)
    OBVIOUS
  <2> HIDE DEF l, d
  <2>3. TextInv(d, N)
    BY <1>1, <2>1, <2>2, <2>4
  <2> QED BY <2>3 DEF d
<1>4. TextInv(OuterJoinLink(c, kind, source, on), N)
  <2> DEFINE l == Link("join", on, NoKind, kind, source)
             d == OuterJoinLink(c, kind, source, on)
  <2>1. Extends(c, d, l)
    BY DEF TextInv, Fields, OuterJoinLink, Joined, Push, Extends
  <2>2. ParamsGrow(c, d, l)
    BY DEF TextInv, Fields, OuterJoinLink, Joined, Push, Link, ParamsGrow
  <2>4. l = Link("join", on, NoKind, kind, source)
    OBVIOUS
  <2> HIDE DEF l, d
  <2>3. TextInv(d, N)
    BY <1>1, <2>1, <2>2, <2>4
  <2> QED BY <2>3 DEF d
<1> QED BY <1>2, <1>3, <1>4

\* FROM alone.
LEMMA FromMethod ==
    ASSUME NEW N, NEW s, s.cte <=> s.table \in N
    PROVE  TextInv(FromLink(s), N)
<1> DEFINE l == Link("from", NoAst, NoKind, "from", s)
           c == FromLink(s)
<1>1. /\ c.links = <<l>> /\ Fields \subseteq DOMAIN c
      /\ c.sourceParams = <<>> /\ c.filterParams = <<>> /\ c.groupParams = <<>>
      /\ c.havingParams = <<>> /\ c.orderParams = <<>>
  BY DEF FromLink, Fields
<1>2. l.clause = "from" /\ l.ast = NoAst /\ l.source = s
  BY DEF Link
<1> HIDE DEF l, c
<1>3. Rendered(NoAst, N) /\ NoAst.params = <<>>
  BY LiteralRendered, NoKidsNoParams DEF NoAst
<1>4. LinksRendered(c, N)
  <2>1. LinkRendered(l, N)
    BY <1>2, <1>3 DEF LinkRendered
  <2>2. Range(c.links) = {l} /\ c.links \in Seq({l})
    BY <1>1 DEF Range
  <2> QED BY <2>1, <2>2 DEF LinksRendered
<1>5. Placeholders(Sources(c)) = <<>>
  <2> DEFINE text == <<Word(l.arg), TableToken(l.source.table)>> \o l.ast.text
  <2>1. IsText(l.ast.text) /\ Placeholders(l.ast.text) = <<>>
    BY <1>2, <1>3 DEF Rendered
  <2>2. IsText(text) /\ Placeholders(text) = <<>>
    BY <2>1, SourceTextIs
  <2>3. Sources(c) = FlattenSeq(Mapped(SourcesOf({l}), <<l>>))
    <3>1. c.links \in Seq({l})
      BY <1>1
    <3> QED BY <1>1, <3>1, ClauseIs
  <2>4. Mapped(SourcesOf({l}), <<l>>) = <<text>>
    <3>1. SourcesOf({l})[l] = text
      BY <1>2 DEF SourcesOf, InSources
    <3> HIDE DEF text
    <3> QED BY <3>1 DEF Mapped
  <2> HIDE DEF text
  <2>5. FlattenSeq(<<text>>) = text
    BY <2>2, FlattenSingle DEF IsText
  <2> QED BY <2>2, <2>3, <2>4, <2>5
<1>6. \A clause \in {"where", "group", "having", "order"} : Placeholders(Clause(c, clause)) = <<>>
  <2> SUFFICES ASSUME NEW clause \in {"where", "group", "having", "order"}
               PROVE  Placeholders(Clause(c, clause)) = <<>>
    OBVIOUS
  <2>1. [i \in DOMAIN c.links |->
           IF c.links[i].clause = clause THEN c.links[i].ast.text ELSE <<>>] = << <<>> >>
    BY <1>1, <1>2
  <2>2. <<>> \in Seq({})
    BY EmptySeq
  <2>3. FlattenSeq(<< <<>> >>) = <<>>
    BY <2>2, FlattenSingle
  <2> QED BY <2>1, <2>3, TextOfNone DEF Clause
<1>7. TextInv(c, N)
  BY <1>1, <1>4, <1>5, <1>6 DEF TextInv
<1> QED BY <1>7 DEF c

-----------------------------------------------------------------------------
(* The finished text.                                                      *)

LEMMA LastArgIs ==
    ASSUME NEW c, NEW clause
    PROVE  /\ IsText(LastArg(c, clause)) /\ Placeholders(LastArg(c, clause)) = <<>>
           /\ \A n : TableToken(n) \notin Range(LastArg(c, clause))
<1>1. \A x : /\ IsText(<<Word(clause), Word(x)>>) /\ Placeholders(<<Word(clause), Word(x)>>) = <<>>
             /\ \A n : TableToken(n) \notin Range(<<Word(clause), Word(x)>>)
  BY TwoWords
<1>2. LastArg(c, clause) = <<>> \/ \E x : LastArg(c, clause) = <<Word(clause), Word(x)>>
  BY DEF LastArg
<1> QED BY <1>1, <1>2, TextOfNone

LEMMA ParamsOfIs ==
    ASSUME NEW P
    PROVE  /\ ParamsOf(P) = ParamsFrom(AstsOf(P))
           /\ DOMAIN AstsOf(P) = DOMAIN P /\ \A i \in DOMAIN P : AstsOf(P)[i] = P[i].ast
<1>1. DOMAIN AstsOf(P) = DOMAIN P /\ \A i \in DOMAIN P : AstsOf(P)[i] = P[i].ast
  BY DEF AstsOf
<1>2. [i \in DOMAIN P |-> P[i].ast.params] = [i \in DOMAIN AstsOf(P) |-> AstsOf(P)[i].params]
  BY <1>1
<1> QED BY <1>1, <1>2 DEF ParamsOf, ParamsFrom

LEMMA TextAssociative ==
    ASSUME NEW s, NEW t, NEW u, IsText(s), IsText(t), IsText(u)
    PROVE  /\ (s \o t) \o u = s \o (t \o u)
           /\ IsText(s \o t)
<1> DEFINE S == Range(s) \cup Range(t) \cup Range(u)
<1>1. Range(s) \subseteq S /\ Range(t) \subseteq S /\ Range(u) \subseteq S
  OBVIOUS
<1> HIDE DEF S
<1>2. s \in Seq(S) /\ t \in Seq(S) /\ u \in Seq(S)
  BY <1>1, SeqMonotonic DEF IsText
<1> QED BY <1>2, ConcatAssociative, TextConcat

\* The text of a select, clause by clause.
LEMMA LoweredText ==
    ASSUME NEW N, NEW c, LinksRendered(c, N), NEW K, AllRendered(K, N),
           NEW P, AstsOf(P) \in Seq(K), NEW window \in Seq(K)
    PROVE  LET text == LowerInto(c, P, window)
           IN  /\ IsText(text)
               /\ Placeholders(text)
                    = ParamsOf(P) \o Placeholders(Sources(c)) \o Placeholders(Clause(c, "where"))
                      \o Placeholders(Clause(c, "group")) \o Placeholders(Clause(c, "having"))
                      \o ParamsFrom(window) \o Placeholders(Clause(c, "order"))
               /\ \A n : TableToken(n) \in Range(text)
                           <=> \/ TableToken(n) \in Range(TextOf(AstsOf(P)))
                               \/ TableToken(n) \in Range(Sources(c))
                               \/ \E clause \in {"where", "group", "having", "order"} :
                                    TableToken(n) \in Range(Clause(c, clause))
                               \/ TableToken(n) \in Range(TextOf(window))
<1> DEFINE t0 == IF c.distinct THEN <<Word("distinct")>> ELSE <<>>
           t1 == t0 \o TextOf(AstsOf(P))
           t2 == t1 \o Sources(c)
           t3 == t2 \o Clause(c, "where")
           t4 == t3 \o Clause(c, "group")
           t5 == t4 \o Clause(c, "having")
           t6 == t5 \o TextOf(window)
           t7 == t6 \o Clause(c, "order")
           t8 == t7 \o LastArg(c, "limit")
           t9 == t8 \o LastArg(c, "offset")
           t10 == t9 \o LastArg(c, "lock")
<1>0. LowerInto(c, P, window) = t10
  BY DEF LowerInto
<1>1. /\ IsText(t0) /\ Placeholders(t0) = <<>> /\ \A n : TableToken(n) \notin Range(t0)
  <2>1. Word("distinct")[1] # "param" /\ \A n : TableToken(n) # Word("distinct")
    <3>1. Word("distinct")[1] = "word" /\ \A n : TableToken(n)[1] = "table"
      BY TokenKinds
    <3> QED BY <3>1
  <2>2. /\ IsText(<<Word("distinct")>>) /\ Placeholders(<<Word("distinct")>>) = <<>>
        /\ \A n : TableToken(n) \notin Range(<<Word("distinct")>>)
    BY <2>1, TextOfOne
  <2> QED BY <2>2, TextOfNone
<1>2. /\ IsText(TextOf(AstsOf(P))) /\ ParamsOf(P) = Placeholders(TextOf(AstsOf(P)))
      /\ IsText(TextOf(window)) /\ ParamsFrom(window) = Placeholders(TextOf(window))
  BY TextsTogether, ParamsOfIs
<1>3. /\ IsText(Sources(c)) /\ \A clause : IsText(Clause(c, clause))
  BY ChainText
<1>4. \A clause : /\ IsText(LastArg(c, clause)) /\ Placeholders(LastArg(c, clause)) = <<>>
                  /\ \A n : TableToken(n) \notin Range(LastArg(c, clause))
  BY LastArgIs
<1> HIDE DEF t0, t1, t2, t3, t4, t5, t6, t7, t8, t9, t10
<1>5. /\ IsText(t1) /\ Placeholders(t1) = ParamsOf(P)
      /\ \A n : TableToken(n) \in Range(t1) <=> TableToken(n) \in Range(TextOf(AstsOf(P)))
  <2>1. /\ IsText(t1) /\ Placeholders(t1) = <<>> \o ParamsOf(P)
        /\ \A x : x \in Range(t1) <=> x \in Range(t0) \/ x \in Range(TextOf(AstsOf(P)))
    <3>1. IsText(t0) /\ IsText(TextOf(AstsOf(P)))
      BY <1>1, <1>2
    <3>2. /\ IsText(t1) /\ Placeholders(t1) = Placeholders(t0) \o Placeholders(TextOf(AstsOf(P)))
          /\ \A x : x \in Range(t1) <=> x \in Range(t0) \/ x \in Range(TextOf(AstsOf(P)))
      BY <3>1, TextConcat DEF t1
    <3> QED BY <1>1, <1>2, <3>2
  <2> QED BY <1>1, <1>2, <2>1, PlaceholdersAreText
<1>6. /\ IsText(t2) /\ Placeholders(t2) = Placeholders(t1) \o Placeholders(Sources(c))
      /\ \A x : x \in Range(t2) <=> x \in Range(t1) \/ x \in Range(Sources(c))
  BY <1>3, <1>5, TextConcat DEF t2
<1>7. /\ IsText(t3) /\ Placeholders(t3) = Placeholders(t2) \o Placeholders(Clause(c, "where"))
      /\ \A x : x \in Range(t3) <=> x \in Range(t2) \/ x \in Range(Clause(c, "where"))
  <2>1. IsText(t2) /\ IsText(Clause(c, "where"))
    BY <1>3, <1>6
  <2> QED BY <2>1, TextConcat DEF t3
<1>8. /\ IsText(t4) /\ Placeholders(t4) = Placeholders(t3) \o Placeholders(Clause(c, "group"))
      /\ \A x : x \in Range(t4) <=> x \in Range(t3) \/ x \in Range(Clause(c, "group"))
  <2>1. IsText(t3) /\ IsText(Clause(c, "group"))
    BY <1>3, <1>7
  <2> QED BY <2>1, TextConcat DEF t4
<1>9. /\ IsText(t5) /\ Placeholders(t5) = Placeholders(t4) \o Placeholders(Clause(c, "having"))
      /\ \A x : x \in Range(t5) <=> x \in Range(t4) \/ x \in Range(Clause(c, "having"))
  <2>1. IsText(t4) /\ IsText(Clause(c, "having"))
    BY <1>3, <1>8
  <2> QED BY <2>1, TextConcat DEF t5
<1>10. /\ IsText(t6) /\ Placeholders(t6) = Placeholders(t5) \o ParamsFrom(window)
       /\ \A x : x \in Range(t6) <=> x \in Range(t5) \/ x \in Range(TextOf(window))
  <2>1. IsText(t5) /\ IsText(TextOf(window))
    BY <1>2, <1>9
  <2>2. /\ IsText(t6) /\ Placeholders(t6) = Placeholders(t5) \o Placeholders(TextOf(window))
        /\ \A x : x \in Range(t6) <=> x \in Range(t5) \/ x \in Range(TextOf(window))
    BY <2>1, TextConcat DEF t6
  <2> QED BY <1>2, <2>2
<1>11. /\ IsText(t7) /\ Placeholders(t7) = Placeholders(t6) \o Placeholders(Clause(c, "order"))
       /\ \A x : x \in Range(t7) <=> x \in Range(t6) \/ x \in Range(Clause(c, "order"))
  <2>1. IsText(t6) /\ IsText(Clause(c, "order"))
    BY <1>3, <1>10
  <2> QED BY <2>1, TextConcat DEF t7
<1>12. /\ IsText(t8) /\ Placeholders(t8) = Placeholders(t7)
       /\ \A n : TableToken(n) \in Range(t8) <=> TableToken(n) \in Range(t7)
  <2>1. /\ IsText(t8) /\ Placeholders(t8) = Placeholders(t7) \o <<>>
        /\ \A x : x \in Range(t8) <=> x \in Range(t7) \/ x \in Range(LastArg(c, "limit"))
    <3>1. IsText(t7) /\ IsText(LastArg(c, "limit")) /\ Placeholders(LastArg(c, "limit")) = <<>>
      BY <1>4, <1>11
    <3> QED BY <3>1, TextConcat DEF t8
  <2> QED BY <1>4, <1>11, <2>1, PlaceholdersAreText
<1>13. /\ IsText(t9) /\ Placeholders(t9) = Placeholders(t8)
       /\ \A n : TableToken(n) \in Range(t9) <=> TableToken(n) \in Range(t8)
  <2>1. /\ IsText(t9) /\ Placeholders(t9) = Placeholders(t8) \o <<>>
        /\ \A x : x \in Range(t9) <=> x \in Range(t8) \/ x \in Range(LastArg(c, "offset"))
    <3>1. IsText(t8) /\ IsText(LastArg(c, "offset")) /\ Placeholders(LastArg(c, "offset")) = <<>>
      BY <1>4, <1>12
    <3> QED BY <3>1, TextConcat DEF t9
  <2> QED BY <1>4, <1>12, <2>1, PlaceholdersAreText
<1>14. /\ IsText(t10) /\ Placeholders(t10) = Placeholders(t9)
       /\ \A n : TableToken(n) \in Range(t10) <=> TableToken(n) \in Range(t9)
  <2>1. /\ IsText(t10) /\ Placeholders(t10) = Placeholders(t9) \o <<>>
        /\ \A x : x \in Range(t10) <=> x \in Range(t9) \/ x \in Range(LastArg(c, "lock"))
    <3>1. IsText(t9) /\ IsText(LastArg(c, "lock")) /\ Placeholders(LastArg(c, "lock")) = <<>>
      BY <1>4, <1>13
    <3> QED BY <3>1, TextConcat DEF t10
  <2> QED BY <1>4, <1>13, <2>1, PlaceholdersAreText
<1>15. Placeholders(t10)
         = ParamsOf(P) \o Placeholders(Sources(c)) \o Placeholders(Clause(c, "where"))
           \o Placeholders(Clause(c, "group")) \o Placeholders(Clause(c, "having"))
           \o ParamsFrom(window) \o Placeholders(Clause(c, "order"))
  BY <1>5, <1>6, <1>7, <1>8, <1>9, <1>10, <1>11, <1>12, <1>13, <1>14
<1>16. ASSUME NEW n
       PROVE  TableToken(n) \in Range(t10)
                <=> \/ TableToken(n) \in Range(TextOf(AstsOf(P)))
                    \/ TableToken(n) \in Range(Sources(c))
                    \/ \E clause \in {"where", "group", "having", "order"} :
                         TableToken(n) \in Range(Clause(c, clause))
                    \/ TableToken(n) \in Range(TextOf(window))
  <2>1. /\ TableToken(n) \in Range(t10) <=> TableToken(n) \in Range(t7)
        /\ TableToken(n) \in Range(t7)
             <=> TableToken(n) \in Range(t6) \/ TableToken(n) \in Range(Clause(c, "order"))
        /\ TableToken(n) \in Range(t6)
             <=> TableToken(n) \in Range(t5) \/ TableToken(n) \in Range(TextOf(window))
    BY <1>10, <1>11, <1>12, <1>13, <1>14
  <2>2. /\ TableToken(n) \in Range(t5)
             <=> TableToken(n) \in Range(t4) \/ TableToken(n) \in Range(Clause(c, "having"))
        /\ TableToken(n) \in Range(t4)
             <=> TableToken(n) \in Range(t3) \/ TableToken(n) \in Range(Clause(c, "group"))
        /\ TableToken(n) \in Range(t3)
             <=> TableToken(n) \in Range(t2) \/ TableToken(n) \in Range(Clause(c, "where"))
        /\ TableToken(n) \in Range(t2)
             <=> TableToken(n) \in Range(TextOf(AstsOf(P))) \/ TableToken(n) \in Range(Sources(c))
    BY <1>5, <1>6, <1>7, <1>8, <1>9
  <2> QED BY <2>1, <2>2
<1> QED BY <1>0, <1>14, <1>15, <1>16

\* The CTEs collected are those the text refers to.
LEMMA CtesCollected ==
    ASSUME NEW N, NEW c, LinksRendered(c, N), NEW K, AllRendered(K, N),
           NEW P, AstsOf(P) \in Seq(K), NEW window \in Seq(K)
    PROVE  \A n : n \in DirectCtes(c, P, window)
                    <=> n \in N /\ TableToken(n) \in Range(LowerInto(c, P, window))
<1> SUFFICES ASSUME NEW n
             PROVE  n \in DirectCtes(c, P, window)
                      <=> n \in N /\ TableToken(n) \in Range(LowerInto(c, P, window))
  OBVIOUS
<1> DEFINE L == Range(c.links)
           token == TableToken(n)
           inLinks == \E l \in L : l.clause \in {"from", "join"} /\ l.source.table = n
           inAsts == \E l \in L : token \in Range(l.ast.text)
           inP == token \in Range(TextOf(AstsOf(P)))
           inW == token \in Range(TextOf(window))
<1>1. \A l \in L : LinkRendered(l, N)
  BY DEF LinksRendered
<1>2. n \in {l.source.table : l \in {k \in L : k.source.cte}} <=> n \in N /\ inLinks
  <2>1. \A l \in L : l.source.cte <=> l.clause \in {"from", "join"} /\ l.source.table \in N
    BY <1>1 DEF LinkRendered
  <2> HIDE DEF L
  <2> QED BY <2>1
<1>3. n \in UNION {e.ast.ctes : e \in Range(P)} <=> n \in N /\ inP
  <2>1. (\E i \in DOMAIN AstsOf(P) : n \in AstsOf(P)[i].ctes) <=> n \in N /\ inP
    BY TextsTogether
  <2>2. (\E i \in DOMAIN AstsOf(P) : n \in AstsOf(P)[i].ctes) <=> \E i \in DOMAIN P : n \in P[i].ast.ctes
    BY ParamsOfIs
  <2>3. (\E i \in DOMAIN P : n \in P[i].ast.ctes) <=> \E e \in Range(P) : n \in e.ast.ctes
    BY DEF Range
  <2> QED BY <2>1, <2>2, <2>3
<1>4. n \in UNION {a.ctes : a \in Range(window)} <=> n \in N /\ inW
  <2>1. (\E i \in DOMAIN window : n \in window[i].ctes) <=> n \in N /\ inW
    BY TextsTogether
  <2>2. (\E i \in DOMAIN window : n \in window[i].ctes) <=> \E a \in Range(window) : n \in a.ctes
    BY DEF Range
  <2> QED BY <2>1, <2>2
<1>5. n \in UNION {l.ast.ctes : l \in L} <=> n \in N /\ inAsts
  <2>1. \A l \in L : n \in l.ast.ctes <=> n \in N /\ token \in Range(l.ast.text)
    BY <1>1 DEF LinkRendered, Rendered
  <2> HIDE DEF L, token
  <2> QED BY <2>1
<1>6. n \in DirectCtes(c, P, window) <=> n \in N /\ (inLinks \/ inP \/ inW \/ inAsts)
  <2> DEFINE A == {l.source.table : l \in {k \in L : k.source.cte}}
             B == UNION {e.ast.ctes : e \in Range(P)}
             C == UNION {a.ctes : a \in Range(window)}
             D == UNION {l.ast.ctes : l \in L}
  <2>1. DirectCtes(c, P, window) = A \cup B \cup C \cup D
    BY DEF DirectCtes
  <2> HIDE DEF A, B, C, D
  <2>2. n \in A <=> n \in N /\ inLinks
    BY <1>2 DEF A
  <2>3. n \in B <=> n \in N /\ inP
    BY <1>3 DEF B
  <2>4. n \in C <=> n \in N /\ inW
    BY <1>4 DEF C
  <2>5. n \in D <=> n \in N /\ inAsts
    BY <1>5 DEF D
  <2> HIDE DEF inLinks, inP, inW, inAsts
  <2> QED BY <2>1, <2>2, <2>3, <2>4, <2>5
<1>7. n \in N =>
        (inAsts <=> \E l \in L : /\ token \in Range(l.ast.text)
                                 /\ l.clause \in {"from", "join", "where", "group", "having", "order"})
  <2>1. n \in N => token \notin Range(NoAst.text)
    <3>1. NoAst.ctes = {}
      BY DEF NoAst, Node
    <3>2. Rendered(NoAst, N)
      BY LiteralRendered
    <3> QED BY <3>1, <3>2 DEF Rendered
  <2>2. \A l \in L : l.clause \notin {"from", "join", "where", "group", "having", "order"} => l.ast = NoAst
    BY <1>1 DEF LinkRendered
  <2> HIDE DEF L, token
  <2> QED BY <2>1, <2>2
<1>8. token \in Range(LowerInto(c, P, window))
        <=> \/ inP \/ inW
            \/ token \in Range(Sources(c))
            \/ \E clause \in {"where", "group", "having", "order"} : token \in Range(Clause(c, clause))
  BY LoweredText
<1>9. /\ token \in Range(Sources(c))
           <=> \E l \in L : /\ l.clause \in {"from", "join"}
                            /\ l.source.table = n \/ token \in Range(l.ast.text)
      /\ \A clause : token \in Range(Clause(c, clause))
                       <=> \E l \in L : l.clause = clause /\ token \in Range(l.ast.text)
  BY ChainText
<1> HIDE DEF L, token, inP, inW
<1>10. token \in Range(LowerInto(c, P, window))
         <=> \/ inP \/ inW \/ inLinks
             \/ \E l \in L : /\ token \in Range(l.ast.text)
                             /\ l.clause \in {"from", "join", "where", "group", "having", "order"}
  BY <1>8, <1>9
<1> QED BY <1>6, <1>7, <1>10 DEF token

-----------------------------------------------------------------------------
(* The text of every finished select.                                      *)

TextsInv ==
    /\ menu \in Menus
    /\ TextInv(chain, CteNames)
    /\ SubRendered(CteNames)
    /\ statement.done => Rendered(statement, CteNames)

\* A source of the menu is a CTE if its name is one's.
LEMMA SourceIs ==
    ASSUME menu \in Menus, NEW s \in menu.sources
    PROVE  s.cte <=> s.table \in CteNames
BY NamesMeanOne DEF CteNames

LEMMA ParamsTogether ==
    ASSUME NEW N, NEW c, TextInv(c, N), NEW P, IsText(ParamsOf(P))
    PROVE  /\ ParamsOf(P) \o c.sourceParams \o c.filterParams \o c.groupParams \o c.havingParams
                \o c.orderParams
              = ParamsOf(P) \o RenderOrderedParams(c)
           /\ IsText(RenderOrderedParams(c))
<1> DEFINE p == ParamsOf(P)
           s == c.sourceParams
           f == c.filterParams
           g == c.groupParams
           h == c.havingParams
           o == c.orderParams
<1>1. /\ IsText(Placeholders(Sources(c))) /\ IsText(Placeholders(Clause(c, "where")))
      /\ IsText(Placeholders(Clause(c, "group"))) /\ IsText(Placeholders(Clause(c, "having")))
      /\ IsText(Placeholders(Clause(c, "order")))
  <2>1. IsText(Sources(c)) /\ \A clause : IsText(Clause(c, clause))
    BY ChainText DEF TextInv
  <2> QED BY <2>1, PlaceholdersAreText
<1>2. IsText(p) /\ IsText(s) /\ IsText(f) /\ IsText(g) /\ IsText(h) /\ IsText(o)
  BY <1>1 DEF TextInv
<1>3. RenderOrderedParams(c) = s \o f \o g \o h \o o
  BY DEF RenderOrderedParams
<1> DEFINE sf == s \o f
           sfg == sf \o g
           sfgh == sfg \o h
           all == sfgh \o o
<1>9. RenderOrderedParams(c) = all
  BY <1>3
<1> HIDE DEF p, s, f, g, h, o
<1>4. IsText(sf) /\ p \o s \o f = p \o sf
  BY <1>2, TextConcat, TextAssociative
<1> HIDE DEF sf
<1>5. IsText(sfg) /\ p \o sf \o g = p \o sfg
  BY <1>2, <1>4, TextConcat, TextAssociative
<1> HIDE DEF sfg
<1>6. IsText(sfgh) /\ p \o sfg \o h = p \o sfgh
  BY <1>2, <1>5, TextConcat, TextAssociative
<1> HIDE DEF sfgh
<1>7. IsText(all) /\ p \o sfgh \o o = p \o all
  BY <1>2, <1>6, TextConcat, TextAssociative
<1> HIDE DEF all
<1>8. p \o s \o f \o g \o h \o o = p \o all
  BY <1>4, <1>5, <1>6, <1>7
<1> QED BY <1>7, <1>8, <1>9 DEF p, s, f, g, h, o

\* The text's placeholders, when the window's definition has none.
LEMMA LoweredParams ==
    ASSUME NEW N, NEW c, TextInv(c, N), NEW K, AllRendered(K, N),
           NEW P, AstsOf(P) \in Seq(K), NEW window \in Seq(K), ParamsFrom(window) = <<>>
    PROVE  /\ Placeholders(LowerInto(c, P, window)) = ParamsOf(P) \o RenderOrderedParams(c)
           /\ IsText(LowerInto(c, P, window)) /\ IsText(RenderOrderedParams(c))
<1>1. LinksRendered(c, N)
  BY DEF TextInv
<1>2. /\ IsText(LowerInto(c, P, window))
      /\ Placeholders(LowerInto(c, P, window))
           = ParamsOf(P) \o c.sourceParams \o c.filterParams \o c.groupParams \o c.havingParams
             \o <<>> \o c.orderParams
  BY <1>1, LoweredText DEF TextInv
<1>3. IsText(ParamsOf(P))
  <2>1. IsText(TextOf(AstsOf(P))) /\ ParamsOf(P) = Placeholders(TextOf(AstsOf(P)))
    BY TextsTogether, ParamsOfIs
  <2> QED BY <2>1, PlaceholdersAreText
<1>4. /\ ParamsOf(P) \o c.sourceParams \o c.filterParams \o c.groupParams \o c.havingParams
           \o c.orderParams
         = ParamsOf(P) \o RenderOrderedParams(c)
      /\ IsText(RenderOrderedParams(c))
  BY <1>3, ParamsTogether
<1>5. ParamsOf(P) \o c.sourceParams \o c.filterParams \o c.groupParams \o c.havingParams \o <<>>
        = ParamsOf(P) \o c.sourceParams \o c.filterParams \o c.groupParams \o c.havingParams
  <2> DEFINE t == ParamsOf(P) \o c.sourceParams \o c.filterParams \o c.groupParams \o c.havingParams
  <2>1. IsText(t)
    <3>1. /\ IsText(Placeholders(Sources(c))) /\ IsText(Placeholders(Clause(c, "where")))
          /\ IsText(Placeholders(Clause(c, "group"))) /\ IsText(Placeholders(Clause(c, "having")))
      <4>1. IsText(Sources(c)) /\ \A clause : IsText(Clause(c, clause))
        BY <1>1, ChainText
      <4> QED BY <4>1, PlaceholdersAreText
    <3>2. /\ IsText(c.sourceParams) /\ IsText(c.filterParams) /\ IsText(c.groupParams)
          /\ IsText(c.havingParams)
      BY <3>1 DEF TextInv
    <3>3. IsText(ParamsOf(P) \o c.sourceParams)
      BY <1>3, <3>2, TextConcat
    <3>4. IsText(ParamsOf(P) \o c.sourceParams \o c.filterParams)
      BY <3>2, <3>3, TextConcat
    <3>5. IsText(ParamsOf(P) \o c.sourceParams \o c.filterParams \o c.groupParams)
      BY <3>2, <3>4, TextConcat
    <3> QED BY <3>2, <3>5, TextConcat
  <2> HIDE DEF t
  <2>2. t \o <<>> = t
    BY <2>1, ConcatEmptySeq DEF IsText
  <2> QED BY <2>2 DEF t
<1> QED BY <1>2, <1>4, <1>5

LEMMA StatementRendered ==
    ASSUME NEW N, NEW c, TextInv(c, N), NEW K, AllRendered(K, N),
           NEW P, AstsOf(P) \in Seq(K), ParamsOf(P) = <<>>,
           NEW window \in Seq(K), ParamsFrom(window) = <<>>
    PROVE  Rendered(Statement(c, P, window), N)
<1> DEFINE s == Statement(c, P, window)
           text == LowerInto(c, P, window)
<1>1. /\ s.text = text /\ s.params = RenderOrderedParams(c)
      /\ s.ctes = DirectCtes(c, P, window)
  BY DEF Statement
<1>2. /\ Placeholders(text) = <<>> \o RenderOrderedParams(c)
      /\ IsText(text) /\ IsText(RenderOrderedParams(c))
  BY LoweredParams
<1>3. \A n : n \in DirectCtes(c, P, window) <=> n \in N /\ TableToken(n) \in Range(text)
  BY CtesCollected DEF TextInv
<1> HIDE DEF s, text
<1>4. <<>> \o RenderOrderedParams(c) = RenderOrderedParams(c)
  BY <1>2, ConcatEmptySeq DEF IsText
<1>5. Rendered(s, N)
  BY <1>1, <1>2, <1>3, <1>4 DEF Rendered
<1> QED BY <1>5 DEF s

LEMMA SubqueryIsRendered ==
    ASSUME NEW N, NEW c, TextInv(c, N), NEW K, AllRendered(K, N),
           NEW P, AstsOf(P) \in Seq(K)
    PROVE  Rendered(SubquerySelect(c, P), N)
<1> DEFINE s == SubquerySelect(c, P)
           text == LowerInto(c, P, <<>>)
<1>1. /\ s.text = text /\ s.params = ParamsOf(P) \o RenderOrderedParams(c)
      /\ s.ctes = DirectCtes(c, P, <<>>)
  BY DEF SubquerySelect
<1>2. <<>> \in Seq(K) /\ ParamsFrom(<<>>) = <<>>
  <2>1. [i \in DOMAIN <<>> |-> <<>>[i].params] = <<>>
    OBVIOUS
  <2> QED BY <2>1, EmptySeq, FlattenEmpty DEF ParamsFrom
<1>3. /\ Placeholders(text) = ParamsOf(P) \o RenderOrderedParams(c) /\ IsText(text)
  BY <1>2, LoweredParams
<1>4. \A n : n \in DirectCtes(c, P, <<>>) <=> n \in N /\ TableToken(n) \in Range(text)
  BY <1>2, CtesCollected DEF TextInv
<1> HIDE DEF s, text
<1>5. Rendered(s, N)
  BY <1>1, <1>3, <1>4 DEF Rendered
<1> QED BY <1>5 DEF s

LEMMA NamesKept ==
    ASSUME UNCHANGED menu
    PROVE  CteNames' = CteNames
BY DEF CteNames

\* A method that leaves the rest alone.
LEMMA TextStep ==
    ASSUME TextsInv, UNCHANGED <<menu, sub, statement>>, TextInv(chain', CteNames)
    PROVE  TextsInv'
<1>1. CteNames' = CteNames
  BY NamesKept
<1>2. SubRendered(CteNames)'
  BY <1>1 DEF TextsInv, SubRendered
<1> QED BY <1>1, <1>2 DEF TextsInv

LEMMA TextsInit == Init => TextsInv
<1> SUFFICES ASSUME Init PROVE TextsInv
  OBVIOUS
<1>1. PICK s \in menu.sources : chain = FromLink(s)
  BY DEF Init
<1>2. menu \in Menus
  BY DEF Init
<1>3. s.cte <=> s.table \in CteNames
  BY <1>2, SourceIs
<1>4. TextInv(chain, CteNames)
  BY <1>1, <1>3, FromMethod
<1>5. ~ sub.exists /\ ~ statement.done
  BY DEF Init, NoSub, NoStatement
<1> QED BY <1>2, <1>4, <1>5 DEF TextsInv, SubRendered

LEMMA TextsStep == TextsInv /\ [Next]_vars => TextsInv'
<1> SUFFICES ASSUME TextsInv, [Next]_vars PROVE TextsInv'
  OBVIOUS
<1> DEFINE N == CteNames
<1>1. menu \in Menus /\ TextInv(chain, N) /\ SubRendered(N)
  BY DEF TextsInv
<1>2. \A s \in menu.sources : s.cte <=> s.table \in N
  BY <1>1, SourceIs
<1> HIDE DEF N
<1>3. CASE Where
  <2>1. PICK p \in Predicates(chain) : chain' = WhereLink(chain, p)
    BY <1>3 DEF Where
  <2>2. Rendered(p, N)
    BY <1>1, PredicatesRendered
  <2>3. TextInv(chain', N)
    <3>1. Rendered(Literal("i32").ast, N)
      BY LiteralRendered
    <3> QED BY <1>1, <2>1, <2>2, <3>1, ClauseMethods
  <2> QED BY <1>3, <2>3, TextStep DEF Where, Call, N
<1>4. CASE Having
  <2>1. PICK p \in Predicates(chain) : chain' = HavingLink(chain, p)
    BY <1>4 DEF Having
  <2>2. Rendered(p, N)
    BY <1>1, PredicatesRendered
  <2>3. TextInv(chain', N)
    <3>1. Rendered(Literal("i32").ast, N)
      BY LiteralRendered
    <3> QED BY <1>1, <2>1, <2>2, <3>1, ClauseMethods
  <2> QED BY <1>4, <2>3, TextStep DEF Having, Call, N
<1>5. CASE GroupBy
  <2>1. PICK e \in Operands(chain) : chain' = GroupByLink(chain, e)
    BY <1>5 DEF GroupBy
  <2>2. Rendered(e.ast, N)
    BY <1>1, OperandsRendered
  <2>3. TextInv(chain', N)
    BY <1>1, <2>1, <2>2, ClauseMethods
  <2> QED BY <1>5, <2>3, TextStep DEF GroupBy, Call, N
<1>6. CASE OrderBy
  <2>1. PICK e \in Operands(chain) \cup {Literal("i32")} : chain' = OrderByLink(chain, e)
    BY <1>6 DEF OrderBy
  <2>2. Rendered(e.ast, N)
    BY <1>1, OperandsRendered, LiteralRendered
  <2>3. TextInv(chain', N)
    BY <1>1, <2>1, <2>2, ClauseMethods
  <2> QED BY <1>6, <2>3, TextStep DEF OrderBy, Call, N
<1>7. CASE OrderByPair
  <2>1. PICK d, e \in {FirstColumn(chain), LastColumn(chain)} \cup Sums(chain) :
          chain' = OrderByLink(OrderByLink(chain, d), e)
    BY <1>7 DEF OrderByPair
  <2>2. Rendered(d.ast, N) /\ Rendered(e.ast, N)
    BY EndsRendered, SumsRendered
  <2>3. TextInv(OrderByLink(chain, d), N)
    BY <1>1, <2>2, ClauseMethods
  <2>4. TextInv(chain', N)
    BY <2>1, <2>2, <2>3, ClauseMethods
  <2> QED BY <1>7, <2>4, TextStep DEF OrderByPair, Call, N
<1>8. CASE Limit \/ Offset \/ Distinct \/ Lock
  <2>1. TextInv(chain', N)
    BY <1>1, <1>8, BareMethods DEF Limit, Offset, Distinct, Lock
  <2> QED BY <1>8, <2>1, TextStep DEF Limit, Offset, Distinct, Lock, Call, N
<1>9. CASE InnerJoin \/ LeftJoin \/ RightJoin \/ FullJoin \/ CrossJoin
  <2>1. PICK s \in menu.sources : \E on \in OnPredicates(s) \cup {NoAst} :
          \/ \E kind \in {"inner", "cross"} : chain' = JoinLink(chain, kind, s, on)
          \/ chain' = LeftJoinLink(chain, s, on)
          \/ \E kind \in {"right", "full"} : chain' = OuterJoinLink(chain, kind, s, on)
    BY <1>9 DEF InnerJoin, LeftJoin, RightJoin, FullJoin, CrossJoin
  <2> PICK on \in OnPredicates(s) \cup {NoAst} :
          \/ \E kind \in {"inner", "cross"} : chain' = JoinLink(chain, kind, s, on)
          \/ chain' = LeftJoinLink(chain, s, on)
          \/ \E kind \in {"right", "full"} : chain' = OuterJoinLink(chain, kind, s, on)
    BY <2>1
  <2>2. Rendered(on, N)
    BY <2>1, OnRendered, LiteralRendered
  <2>3. TextInv(chain', N)
    BY <1>1, <1>2, <2>1, <2>2, JoinMethods
  <2> QED BY <1>9, <2>3, TextStep
      DEF InnerJoin, LeftJoin, RightJoin, FullJoin, CrossJoin, Call, N
<1>10. CASE Select
  <2>1. PICK P \in Projections(chain) : CanSelect(chain, P) /\ statement' = Statement(chain, P, <<>>)
    BY <1>10 DEF Select
  <2>2. PICK K : AstsOf(P) \in Seq(K) /\ AllRendered(K, N)
    BY <1>1, ProjectionsRendered
  <2>3. <<>> \in Seq(K) /\ ParamsFrom(<<>>) = <<>>
    <3>1. [i \in DOMAIN <<>> |-> <<>>[i].params] = <<>>
      OBVIOUS
    <3> QED BY <3>1, EmptySeq, FlattenEmpty DEF ParamsFrom
  <2>4. Rendered(statement', N)
    BY <1>1, <2>1, <2>2, <2>3, StatementRendered DEF CanSelect
  <2>5. UNCHANGED <<chain, sub, menu>> /\ N' = N
    BY <1>10, NamesKept DEF Select, N
  <2> QED BY <1>1, <2>4, <2>5 DEF TextsInv, SubRendered, N
<1>11. CASE SelectOver
  <2> DEFINE x == FirstColumn(chain)
             P == <<x, RowNumberOverRef>>
  <2>1. PICK key \in Operands(chain) :
          key.ast.params = <<>> /\ statement' = Statement(chain, P, <<key.ast>>)
    BY <1>11 DEF SelectOver
  <2> DEFINE K == {x.ast, RowNumberOverRef.ast, key.ast}
  <2>2. /\ Rendered(x.ast, N) /\ x.ast.params = <<>>
        /\ Rendered(RowNumberOverRef.ast, N) /\ RowNumberOverRef.ast.params = <<>>
        /\ Rendered(key.ast, N)
    BY <1>1, EndsRendered, NamedWindowRendered, OperandsRendered
  <2> HIDE DEF x
  <2>3. AllRendered(K, N)
    BY <2>2 DEF AllRendered
  <2>4. AstsOf(P) = <<x.ast, RowNumberOverRef.ast>>
    BY DEF AstsOf
  <2>5. AstsOf(P) \in Seq(K) /\ <<key.ast>> \in Seq(K)
    <3>1. x.ast \in K /\ RowNumberOverRef.ast \in K /\ key.ast \in K
      OBVIOUS
    <3> HIDE DEF K, P
    <3>2. <<x.ast, RowNumberOverRef.ast>> \in Seq(K) /\ <<key.ast>> \in Seq(K)
      BY <3>1
    <3> QED BY <2>4, <3>2
  <2>6. ParamsFrom(<<key.ast>>) = <<>>
    <3>1. [i \in DOMAIN <<key.ast>> |-> <<key.ast>>[i].params] = << <<>> >>
      BY <2>1
    <3>2. <<>> \in Seq({})
      BY EmptySeq
    <3> QED BY <3>1, <3>2, FlattenSingle DEF ParamsFrom
  <2>7. ParamsOf(P) = <<>>
    <3>1. [i \in DOMAIN P |-> P[i].ast.params] = << <<>>, <<>> >>
      BY <2>2
    <3>2. << <<>>, <<>> >> = Append(<< <<>> >>, <<>>)
      OBVIOUS
    <3>3. << <<>> >> \in Seq(Seq({})) /\ <<>> \in Seq({})
      BY EmptySeq
    <3>4. FlattenSeq(<< <<>> >>) = <<>>
      BY <3>3, FlattenSingle
    <3>5. FlattenSeq(Append(<< <<>> >>, <<>>)) = FlattenSeq(<< <<>> >>) \o <<>>
      BY <3>3, FlattenAppend
    <3>6. <<>> \o <<>> = <<>>
      BY <3>3, ConcatEmptySeq
    <3> QED BY <3>1, <3>2, <3>4, <3>5, <3>6 DEF ParamsOf
  <2> HIDE DEF P, K
  <2>8. Rendered(statement', N)
    BY <1>1, <2>1, <2>3, <2>5, <2>6, <2>7, StatementRendered
  <2>9. UNCHANGED <<chain, sub, menu>> /\ N' = N
    BY <1>11, NamesKept DEF SelectOver, N
  <2> QED BY <1>1, <2>8, <2>9 DEF TextsInv, SubRendered, N
<1>12. CASE SelectSubquery
  <2>1. PICK P \in {<<FirstColumn(chain)>>} \cup {<<e>> : e \in Sums(chain)}, s \in menu.sources :
          sub' = SubquerySelect(chain, P) /\ chain' = FromLink(s)
    BY <1>12 DEF SelectSubquery
  <2>2. PICK e \in {FirstColumn(chain)} \cup Sums(chain) : P = <<e>>
    OBVIOUS
  <2>3. Rendered(e.ast, N)
    BY EndsRendered, SumsRendered
  <2>4. AstsOf(P) \in Seq({e.ast}) /\ AllRendered({e.ast}, N)
    BY <2>2, <2>3 DEF AstsOf, AllRendered
  <2>5. Rendered(sub', N)
    BY <1>1, <2>1, <2>4, SubqueryIsRendered
  <2>6. TextInv(chain', N)
    BY <1>2, <2>1, FromMethod
  <2>7. UNCHANGED <<menu, statement>> /\ N' = N
    BY <1>12, NamesKept DEF SelectSubquery, N
  <2>8. ~ statement.done
    BY <1>12 DEF SelectSubquery
  <2> QED BY <1>1, <2>5, <2>6, <2>7, <2>8 DEF TextsInv, SubRendered, N
<1>13. CASE UNCHANGED vars
  BY <1>1, <1>13, TextStep DEF vars, N
<1> QED BY <1>3, <1>4, <1>5, <1>6, <1>7, <1>8, <1>9, <1>10, <1>11, <1>12, <1>13 DEF Next

LEMMA TextsInvariance == Spec => []TextsInv
BY TextsInit, TextsStep, PTL DEF Spec

-----------------------------------------------------------------------------
(* The theorems.                                                           *)

\* The parameters a caller binds by type are the placeholders of the text, in order, in every
\* statement and in the subquery it embeds, whatever the calls and their order.
THEOREM Parameters == Spec => []PlaceholdersFollowParams
<1>1. TextsInv => PlaceholdersFollowParams
  BY DEF TextsInv, SubRendered, Rendered, PlaceholdersFollowParams
<1> QED BY <1>1, TextsInvariance, PTL

\* The WITH clause is made from the CTEs that the text refers to, at any depth: a name of a CTE
\* stands in the text exactly if the CTE was collected.
THEOREM CtesAreCollected == Spec => []EveryCteCollected
<1>1. TextsInv => EveryCteCollected
  <2> SUFFICES ASSUME TextsInv PROVE EveryCteCollected
    OBVIOUS
  <2>1. \A a : Rendered(a, CteNames) => CtesIn(a.text) = a.ctes
    BY DEF Rendered, CtesIn
  <2> QED BY <2>1 DEF TextsInv, SubRendered, EveryCteCollected
<1> QED BY <1>1, TextsInvariance, PTL

-----------------------------------------------------------------------------
(***************************************************************************)
(* ORDER BY under DISTINCT.  The gate compares kinds (the Rust types of    *)
(* the keys), the property texts.  A kind is a column's, a LAG's over a    *)
(* column that is an Option, or no column's (KindTells); a text is that of *)
(* a column or begins with a word (TextTells).  So an element whose kind   *)
(* is a column's, or its Nullable, passes for the column (KindPasses): the *)
(* gate finds one for every sorted column (GateFinds), and it holds when   *)
(* the column is there and nothing else passes for it (GateHolds).         *)
(* SortInv says of every clause, source and subquery what these need.      *)
(***************************************************************************)

(* Columns and what else may stand in a projection or an ORDER BY.         *)

\* The kind and the text of a column of a source.
KindAt(c, i, j) ==
    <<"Column", c.exprs[i].source.table, c.exprs[i].source.columns[j].name>>
TextAt(c, i, j) == <<ColumnToken(c.exprs[i].alias, c.exprs[i].source.columns[j].name)>>

IsColumnOf(c, e) == \E i \in DOMAIN c.exprs, j \in 1 .. 2 : e = Column(c, i, j)

\* A kind that no column has, nullable or not.
OwnKind(k) == IsText(k) /\ k[1] \notin {"Column", "Nullable"}

\* LAG of a column that is an Option: it keeps the kind.
IsLagOf(c, e) ==
    \E i \in DOMAIN c.exprs, j \in 1 .. 2 :
        /\ e.ast.text[1] = Word("lag") /\ e.ast.text[3] = TextAt(c, i, j)[1]
        /\ e.kind.kind = Column(c, i, j).kind.kind

\* By its kind, and by its text, an expression is told from a column.
KindTells(c, e) == IsColumnOf(c, e) \/ IsLagOf(c, e) \/ OwnKind(e.kind.kind)
TextTells(c, e) == IsColumnOf(c, e) \/ e.ast.text[1][1] = "word"

LEMMA WordsBefore ==
    ASSUME NEW s, IsText(s), NEW w
    PROVE  /\ IsText(<<w>> \o s) /\ (<<w>> \o s)[1] = w
           /\ \A t : IsText(t) => IsText((<<w>> \o s) \o t) /\ ((<<w>> \o s) \o t)[1] = w
<1>1. ASSUME NEW u, NEW t, IsText(u), IsText(t), Len(u) # 0
      PROVE  IsText(u \o t) /\ (u \o t)[1] = u[1] /\ Len(u \o t) # 0
  <2>1. PICK S : u \in Seq(S) /\ t \in Seq(S)
    BY <1>1, CommonTokens
  <2>2. Len(u) \in Nat /\ Len(t) \in Nat
    BY <2>1, LenProperties
  <2>3. 1 \in 1 .. Len(u) + Len(t) /\ 1 <= Len(u)
    BY <1>1, <2>2
  <2>4. /\ Len(u \o t) = Len(u) + Len(t)
        /\ \A i \in 1 .. Len(u) + Len(t) : (u \o t)[i] = IF i <= Len(u) THEN u[i] ELSE t[i - Len(u)]
    BY <2>1, ConcatProperties
  <2>5. IsText(u \o t)
    BY <1>1, TextConcat
  <2> QED BY <1>1, <2>2, <2>3, <2>4, <2>5
<1>2. IsText(<<w>>) /\ Len(<<w>>) = 1 /\ <<w>>[1] = w
  BY TextOfOne
<1>3. IsText(<<w>> \o s) /\ (<<w>> \o s)[1] = w /\ Len(<<w>> \o s) # 0
  BY <1>1, <1>2
<1>4. ASSUME NEW t, IsText(t)
      PROVE  IsText((<<w>> \o s) \o t) /\ ((<<w>> \o s) \o t)[1] = w
  BY <1>1, <1>3, <1>4
<1> QED BY <1>3, <1>4

\* The kinds that combine others, and those that stand alone.
Combining == {"AddExpr", "SubtractExpr", "CountExpr", "SumExpr", "ScalarNullable"}
Alone == {"i32", "i64", "f64", "String", "timestamp"}

LEMMA CombiningIsOwn ==
    ASSUME NEW w \in Combining, NEW s, IsText(s)
    PROVE  /\ OwnKind(<<w>> \o s)
           /\ \A t : IsText(t) => OwnKind((<<w>> \o s) \o t)
<1>1. w \notin {"Column", "Nullable"}
  BY DEF Combining
<1> QED BY <1>1, WordsBefore DEF OwnKind

LEMMA AloneIsOwn ==
    ASSUME NEW w \in Alone
    PROVE  OwnKind(<<w>>)
<1>1. w \notin {"Column", "Nullable"} /\ <<w>>[1] = w
  BY DEF Alone
<1> QED BY <1>1, TextOfOne DEF OwnKind

LEMMA ColumnIs ==
    ASSUME NEW c, NEW i, NEW j
    PROVE  /\ Column(c, i, j).ast.text = TextAt(c, i, j)
           /\ Column(c, i, j).kind.kind
                = IF c.exprs[i].nullable THEN <<"Nullable">> \o KindAt(c, i, j) ELSE KindAt(c, i, j)
           /\ Column(c, i, j).kind.option <=> c.exprs[i].nullable
           /\ IsText(Column(c, i, j).kind.kind)
           /\ IsText(KindAt(c, i, j))
<1> DEFINE s == c.exprs[i]
           col == s.source.columns[j]
           kind == ColumnKind(s.source.table, col.name, col.nullable)
           e == Column(c, i, j)
<1>1. /\ e.ast = ColumnExprAst(s.alias, col.name)
      /\ e.kind = IF s.nullable THEN Nullable(kind) ELSE kind
  BY DEF Column, Expr
<1>2. e.ast.text = TextAt(c, i, j)
  BY <1>1 DEF ColumnExprAst, TextAt, Node
<1>3. kind.kind = KindAt(c, i, j) /\ ~ kind.option
  BY DEF ColumnKind, KindAt
<1>4. IsText(KindAt(c, i, j))
  <2> DEFINE t == s.source.table
             n == col.name
  <2>1. KindAt(c, i, j) = <<"Column", t, n>>
    BY DEF KindAt
  <2> HIDE DEF t, n
  <2>2. <<"Column", t, n>> \in Seq({"Column", t, n})
    OBVIOUS
  <2> QED BY <2>1, <2>2, SequenceIsText
<1>5. IsText(<<"Nullable">> \o KindAt(c, i, j))
  BY <1>4, WordsBefore
<1> HIDE DEF kind, e
<1>6. /\ e.kind.kind = IF s.nullable THEN <<"Nullable">> \o KindAt(c, i, j) ELSE KindAt(c, i, j)
      /\ e.kind.option <=> s.nullable
  BY <1>1, <1>3 DEF Nullable
<1> QED BY <1>2, <1>4, <1>5, <1>6 DEF e

LEMMA EndsAreColumns ==
    ASSUME NEW c, RowsInv(c)
    PROVE  /\ IsColumnOf(c, FirstColumn(c)) /\ IsColumnOf(c, LastColumn(c))
           /\ IsText(FirstColumn(c).kind.kind) /\ IsText(LastColumn(c).kind.kind)
<1>1. 1 \in DOMAIN c.exprs /\ Len(c.exprs) \in DOMAIN c.exprs
  BY EndsThere
<1>2. 1 \in 1 .. 2 /\ 2 \in 1 .. 2
  OBVIOUS
<1> QED BY <1>1, <1>2, ColumnIs DEF FirstColumn, LastColumn, IsColumnOf

-----------------------------------------------------------------------------
(* The kinds of the menu.                                                  *)

LEMMA SumsKinds ==
    ASSUME NEW c, RowsInv(c), NEW e \in Sums(c)
    PROVE  OwnKind(e.kind.kind)
<1> DEFINE p == Param(pName, "i32")
<1>1. PICK d \in {FirstColumn(c), LastColumn(c)} : e = Add(d, p)
  BY DEF Sums
<1>2. IsText(p.kind.kind)
  <2>1. p.kind.kind = <<"RuntimeParam", "i32">>
    BY DEF Param, Expr, PlainKind
  <2>2. <<"RuntimeParam", "i32">> \in Seq({"RuntimeParam", "i32"})
    OBVIOUS
  <2> QED BY <2>1, <2>2, SequenceIsText
<1> HIDE DEF p
<1>3. e.kind.kind = <<"AddExpr">> \o d.kind.kind \o p.kind.kind
  BY <1>1 DEF Add, Expr, ArithmeticKind, PlainKind
<1>4. IsText(d.kind.kind)
  BY EndsAreColumns
<1>5. "AddExpr" \in Combining
  BY DEF Combining
<1> QED BY <1>2, <1>3, <1>4, <1>5, CombiningIsOwn

LEMMA CountKind ==
    ASSUME NEW d, IsText(d.kind.kind)
    PROVE  OwnKind(Count(d).kind.kind) /\ OwnKind(Sum(d).kind.kind)
<1>1. Count(d).kind.kind = <<"CountExpr">> \o d.kind.kind
  BY DEF Count, Expr, PlainKind
<1>2. Sum(d).kind.kind = <<"SumExpr">> \o d.kind.kind
  BY DEF Sum, Expr
<1>3. "CountExpr" \in Combining /\ "SumExpr" \in Combining
  BY DEF Combining
<1> QED BY <1>1, <1>2, <1>3, CombiningIsOwn

LEMMA AggregatesKinds ==
    ASSUME NEW c, RowsInv(c), NEW e \in Aggregates(c)
    PROVE  OwnKind(e.kind.kind)
<1>1. PICK d \in {LastColumn(c)} \cup Sums(c) : e = Count(d)
  BY DEF Aggregates
<1>2. IsText(d.kind.kind)
  BY EndsAreColumns, SumsKinds DEF OwnKind
<1> QED BY <1>1, <1>2, CountKind

\* The text of LAG: the word, its arguments, the window's key.
LEMMA LagText ==
    ASSUME NEW x, NEW y, NEW a, NEW b, x.ast.text = <<b>>, y.ast.text = <<a>>
    PROVE  /\ Lag(y, <<>>, <<x>>).ast.text[1] = Word("lag")
           /\ Lag(y, <<>>, <<x>>).ast.text[3] = a
<1> DEFINE args == LagArgsAst(y.ast)
           w == Word("lag_args")
           S == {a, b, w}
           text == Lag(y, <<>>, <<x>>).ast.text
<1>1. args.text = <<w, a>>
  <2>1. args.text = <<w>> \o TextOf(<<y.ast>>)
    BY NodeText DEF LagArgsAst
  <2>2. TextOf(<<y.ast>>) = FlattenSeq(<<y.ast.text>>)
    BY DEF TextOf
  <2>3. <<a>> \in Seq({a})
    OBVIOUS
  <2>4. FlattenSeq(<<<<a>>>>) = <<a>>
    BY <2>3, FlattenSingle
  <2> HIDE DEF args, w
  <2> QED BY <2>1, <2>2, <2>4, PairIs
<1>2. text = <<Word("lag")>> \o TextOf(<<args, x.ast>>)
  <2>1. AstsOf(<<x>>) = <<x.ast>> /\ AstsOf(<<>>) = <<>>
    BY DEF AstsOf
  <2>2. Lag(y, <<>>, <<x>>).ast = WindowExprAst("lag", <<args>>, <<>>, <<x.ast>>)
    BY <2>1 DEF Lag, Expr
  <2>3. <<args>> \o WindowList(<<>>, <<x.ast>>) = <<args, x.ast>>
    <3> HIDE DEF args
    <3>1. <<x.ast>> \in Seq({x.ast})
      OBVIOUS
    <3>2. <<>> \o <<x.ast>> = <<x.ast>>
      BY <3>1, ConcatEmptySeq
    <3> QED BY <3>2, PairIs DEF WindowList
  <2>4. WindowExprAst("lag", <<args>>, <<>>, <<x.ast>>).text
          = Node("lag", <<args, x.ast>>, <<args, x.ast>>).text
    <3> DEFINE kids == <<args>> \o WindowList(<<>>, <<x.ast>>)
    <3>1. WindowExprAst("lag", <<args>>, <<>>, <<x.ast>>).text = Node("lag", kids, kids).text
      BY DEF WindowExprAst, Node
    <3>2. kids = <<args, x.ast>>
      BY <2>3
    <3> HIDE DEF kids, args
    <3> QED BY <3>1, <3>2
  <2> HIDE DEF args
  <2> QED BY <2>2, <2>4, NodeText
<1> HIDE DEF args, text
<1>3. TextOf(<<args, x.ast>>) = <<w, a>> \o <<b>>
  <2>1. TextOf(<<args, x.ast>>) = FlattenSeq(<<args.text, x.ast.text>>)
    BY DEF TextOf
  <2>2. <<w, a>> \in Seq(S) /\ <<b>> \in Seq(S)
    OBVIOUS
  <2> HIDE DEF S, w
  <2>3. <<<<w, a>>, <<b>>>> = Append(<<<<w, a>>>>, <<b>>) /\ <<<<w, a>>>> \in Seq(Seq(S))
    BY <2>2
  <2>4. FlattenSeq(<<<<w, a>>, <<b>>>>) = FlattenSeq(<<<<w, a>>>>) \o <<b>>
    BY <2>2, <2>3, FlattenAppend
  <2>5. FlattenSeq(<<<<w, a>>>>) = <<w, a>>
    BY <2>2, FlattenSingle
  <2> QED BY <1>1, <2>1, <2>4, <2>5
<1> HIDE DEF w
<1>4. ASSUME NEW v
      PROVE  LET s == <<v>> \o (<<w, a>> \o <<b>>) IN s[1] = v /\ s[3] = a
  <2> DEFINE T == {v, w, a, b}
             t == <<w, a>>
             u == <<b>>
             s == <<v>>
  <2>1. /\ s \in Seq(T) /\ t \in Seq(T) /\ u \in Seq(T)
        /\ Len(s) = 1 /\ Len(t) = 2 /\ Len(u) = 1 /\ s[1] = v /\ t[2] = a
    OBVIOUS
  <2> HIDE DEF T, s, t, u
  <2>2. /\ t \o u \in Seq(T) /\ Len(t \o u) = Len(t) + Len(u)
        /\ \A i \in 1 .. Len(t) + Len(u) :
             (t \o u)[i] = IF i <= Len(t) THEN t[i] ELSE u[i - Len(t)]
    BY <2>1, ConcatProperties
  <2>3. Len(t \o u) = 3 /\ (t \o u)[2] = t[2]
    <3>1. Len(t) + Len(u) = 3 /\ 2 \in 1 .. Len(t) + Len(u) /\ 2 <= Len(t)
      BY <2>1
    <3> QED BY <2>2, <3>1
  <2> DEFINE r == t \o u
  <2> HIDE DEF r
  <2>4. r \in Seq(T) /\ Len(r) = 3 /\ r[2] = a
    BY <2>1, <2>2, <2>3 DEF r
  <2>5. \A i \in 1 .. Len(s) + Len(r) : (s \o r)[i] = IF i <= Len(s) THEN s[i] ELSE r[i - Len(s)]
    BY <2>1, <2>4, ConcatProperties
  <2>6. /\ 1 \in 1 .. Len(s) + Len(r) /\ 1 <= Len(s)
        /\ 3 \in 1 .. Len(s) + Len(r) /\ ~ 3 <= Len(s) /\ 3 - Len(s) = 2
    BY <2>1, <2>4
  <2>7. (s \o r)[1] = s[1] /\ (s \o r)[3] = r[3 - Len(s)]
    BY <2>5, <2>6
  <2> QED BY <2>1, <2>4, <2>6, <2>7 DEF s, t, u, r
<1> QED BY <1>2, <1>3, <1>4 DEF text

LEMMA LagKind ==
    ASSUME NEW c, RowsInv(c)
    PROVE  LET lag == Lag(LastColumn(c), <<>>, <<FirstColumn(c)>>)
           IN  IsText(lag.kind.kind) /\ KindTells(c, lag)
<1> DEFINE x == FirstColumn(c)
           y == LastColumn(c)
           lag == Lag(y, <<>>, <<x>>)
           n == Len(c.exprs)
<1>1. lag.kind = WindowNullable(y.kind)
  BY DEF Lag, Expr
<1>2. n \in DOMAIN c.exprs /\ y = Column(c, n, 2) /\ x = Column(c, 1, 1)
  BY EndsThere DEF FirstColumn, LastColumn
<1>3. x.ast.text = TextAt(c, 1, 1) /\ y.ast.text = TextAt(c, n, 2) /\ IsText(y.kind.kind)
  BY <1>2, ColumnIs
<1>4. lag.ast.text[1] = Word("lag") /\ lag.ast.text[3] = TextAt(c, n, 2)[1]
  <2> HIDE DEF x, y, n
  <2> QED BY <1>3, LagText DEF TextAt
<1> HIDE DEF x, y, lag
<1>5. CASE lag.kind = y.kind
  <2>1. IsLagOf(c, lag)
    <3>1. 2 \in 1 .. 2
      OBVIOUS
    <3> HIDE DEF n
    <3> QED BY <1>2, <1>4, <1>5, <3>1 DEF IsLagOf
  <2> QED BY <1>3, <1>5, <2>1 DEF KindTells, lag, x, y
<1>6. CASE lag.kind # y.kind
  <2>1. lag.kind.kind = <<"ScalarNullable">> \o y.kind.kind
    BY <1>1, <1>6 DEF WindowNullable, ScalarNullable
  <2>2. "ScalarNullable" \in Combining
    BY DEF Combining
  <2>3. OwnKind(lag.kind.kind)
    BY <1>3, <2>1, <2>2, CombiningIsOwn
  <2> QED BY <2>3 DEF KindTells, OwnKind, lag, x, y
<1> QED BY <1>5, <1>6

LEMMA WindowsKinds ==
    ASSUME NEW c, RowsInv(c), NEW e \in Windows(c)
    PROVE  IsText(e.kind.kind) /\ KindTells(c, e)
<1> DEFINE x == FirstColumn(c)
           y == LastColumn(c)
           lag == Lag(y, <<>>, <<x>>)
<1>1. \/ e = RowNumber(<<x>>, <<y>>) \/ e = SumOver(y, <<>>, <<x>>) \/ e = RowNumberOverRef
      \/ e = lag
  BY DEF Windows
<1>2. IsText(y.kind.kind)
  BY EndsAreColumns
<1>3. /\ RowNumber(<<x>>, <<y>>).kind.kind = <<"i64">> /\ RowNumberOverRef.kind.kind = <<"i64">>
      /\ SumOver(y, <<>>, <<x>>).kind.kind = Sum(y).kind.kind
  BY DEF RowNumber, RowNumberOverRef, SumOver, Expr, PlainKind
<1>4. IsText(lag.kind.kind) /\ KindTells(c, lag)
  BY LagKind
<1> HIDE DEF x, y, lag
<1>5. OwnKind(<<"i64">>)
  BY AloneIsOwn DEF Alone
<1>6. OwnKind(Sum(y).kind.kind)
  BY <1>2, CountKind
<1>7. e = lag \/ OwnKind(e.kind.kind)
  BY <1>1, <1>3, <1>5, <1>6
<1> QED BY <1>4, <1>7 DEF KindTells, OwnKind

\* The subquery's kind, of which a scalar subquery's is made.
SubKind == sub.exists => IsText(sub.output.kind)

LEMMA ScalarsKinds ==
    ASSUME SubKind, NEW e \in Scalars
    PROVE  OwnKind(e.kind.kind)
<1>1. e = ScalarSubquery(sub) /\ sub.exists
  BY DEF Scalars
<1>2. e.kind.kind = <<"ScalarNullable">> \o sub.output.kind
  BY <1>1 DEF ScalarSubquery, Expr, ScalarNullable
<1>3. "ScalarNullable" \in Combining
  BY DEF Combining
<1> QED BY <1>1, <1>2, <1>3, CombiningIsOwn DEF SubKind

LEMMA OperandsKinds ==
    ASSUME SubKind, NEW c, RowsInv(c), NEW e \in Operands(c)
    PROVE  KindTells(c, e)
BY EndsAreColumns, SumsKinds, AggregatesKinds, WindowsKinds, ScalarsKinds DEF Operands, KindTells

LEMMA NestedKinds ==
    ASSUME NEW c, RowsInv(c), NEW e \in Nested(c)
    PROVE  OwnKind(e.kind.kind)
<1>1. PICK d \in {Count(LastColumn(c))} \cup Windows(c) : e = Sum(d)
  BY DEF Nested
<1>2. IsText(d.kind.kind)
  BY EndsAreColumns, CountKind, WindowsKinds DEF OwnKind
<1> QED BY <1>1, <1>2, CountKind

LEMMA CaseResultKind ==
    ASSUME NEW w \in Alone, NEW maybeNull
    PROVE  OwnKind(CaseResult(<<w>>, maybeNull).kind)
<1>1. OwnKind(<<w>>)
  BY AloneIsOwn
<1>2. "ScalarNullable" \in Combining
  BY DEF Combining
<1>3. OwnKind(<<"ScalarNullable">> \o <<w>>)
  BY <1>1, <1>2, CombiningIsOwn DEF OwnKind
<1>4. \/ CaseResult(<<w>>, maybeNull).kind = <<w>>
      \/ CaseResult(<<w>>, maybeNull).kind = <<"ScalarNullable">> \o <<w>>
  BY DEF CaseResult, ScalarNullable, PlainKind
<1> QED BY <1>1, <1>3, <1>4

LEMMA ConditionalsKinds ==
    ASSUME NEW c, NEW e \in Conditionals(c)
    PROVE  OwnKind(e.kind.kind)
<1>1. "i32" \in Alone /\ "i64" \in Alone /\ "f64" \in Alone /\ "String" \in Alone /\ "timestamp" \in Alone
  BY DEF Alone
<1>2. \/ \E w \in Alone : \E b : e.kind = CaseResult(<<w>>, b)
      \/ e.kind = PlainKind(<<"timestamp">>)
  <2>1. /\ \A arms, d : \E b : Otherwise(arms, d).kind = CaseResult(<<"i32">>, b)
        /\ \A arms : \E b : CaseEnd(arms).kind = CaseResult(<<"i32">>, b)
        /\ \A x, arms, d : \E b : SimpleCase(x, arms, d).kind = CaseResult(<<"i32">>, b)
    BY DEF Otherwise, CaseEnd, SimpleCase, Expr
  <2>2. /\ \A args : \E b : Coalesce(args).kind = CaseResult(<<"i32">>, b)
        /\ \A x, y : \E b : Nullif(x, y).kind = CaseResult(<<"i32">>, b)
    BY DEF Coalesce, Nullif, Expr
  <2>3. /\ \A x : \E b : Lower(x).kind = CaseResult(<<"String">>, b)
        /\ \A x, y : \E b : SqlConcat(x, y).kind = CaseResult(<<"String">>, b)
        /\ \A x, y, z : \E b : Substring(x, y, z).kind = CaseResult(<<"String">>, b)
    BY DEF Lower, SqlConcat, Substring, Expr
  <2>4. /\ \A x : \E b : Extract(x).kind = CaseResult(<<"i64">>, b)
        /\ \A x : \E b : ExtractAt(x).kind = CaseResult(<<"i64">>, b)
        /\ \A x : \E b : ExtractSecond(x).kind = CaseResult(<<"f64">>, b)
        /\ \A x : \E b : DateTrunc(x).kind = CaseResult(<<"timestamp">>, b)
        /\ \A x : Now(x).kind = PlainKind(<<x>>)
    BY DEF Extract, ExtractAt, ExtractSecond, DateTrunc, Now, Expr
  <2> DEFINE x == FirstColumn(c)
             y == LastColumn(c)
             arm(d) == <<[when |-> ComparePredicateAst(x.ast, LiteralExprAst), then |-> d]>>
             lit == Literal("i32")
  <2>5. e \in {Otherwise(arm(x), y), Otherwise(arm(y), lit), CaseEnd(arm(lit)),
               SimpleCase(x, arm(y), lit), Coalesce(<<y, lit>>), Coalesce(<<y, y>>), Nullif(x, lit),
               Lower(y), SqlConcat(x, y), Substring(x, lit, y), Extract(y), ExtractAt(y),
               ExtractSecond(y), DateTrunc(y), Now("timestamp")}
    BY DEF Conditionals
  <2> HIDE DEF x, y, arm, lit
  <2> DEFINE Result(d) == \E w \in Alone : \E b : d.kind = CaseResult(<<w>>, b)
  <2>6. /\ Result(Otherwise(arm(x), y)) /\ Result(Otherwise(arm(y), lit))
        /\ Result(CaseEnd(arm(lit))) /\ Result(SimpleCase(x, arm(y), lit))
    <3>1. Result(Otherwise(arm(x), y)) /\ Result(Otherwise(arm(y), lit))
      BY ONLY <1>1, <2>1
    <3>2. Result(CaseEnd(arm(lit)))
      BY ONLY <1>1, <2>1
    <3>3. Result(SimpleCase(x, arm(y), lit))
      BY ONLY <1>1, <2>1
    <3> QED BY ONLY <3>1, <3>2, <3>3
  <2>7. /\ Result(Coalesce(<<y, lit>>)) /\ Result(Coalesce(<<y, y>>)) /\ Result(Nullif(x, lit))
    BY <1>1, <2>2
  <2>8. Result(Lower(y)) /\ Result(SqlConcat(x, y)) /\ Result(Substring(x, lit, y))
    BY <1>1, <2>3
  <2>9. /\ Result(Extract(y)) /\ Result(ExtractAt(y)) /\ Result(ExtractSecond(y))
        /\ Result(DateTrunc(y)) /\ Now("timestamp").kind = PlainKind(<<"timestamp">>)
    BY <1>1, <2>4
  <2> HIDE DEF Result
  <2>10. Result(e) \/ e.kind = PlainKind(<<"timestamp">>)
    BY <2>5, <2>6, <2>7, <2>8, <2>9
  <2> QED BY <2>10 DEF Result
<1>3. OwnKind(PlainKind(<<"timestamp">>).kind)
  BY <1>1, AloneIsOwn DEF PlainKind
<1> QED BY <1>2, <1>3, CaseResultKind

LEMMA NullSumsKinds ==
    ASSUME SubKind, NEW c, RowsInv(c), NEW e \in NullSums(c)
    PROVE  OwnKind(e.kind.kind)
<1>1. PICK d \in Windows(c) \cup Scalars \cup {LastColumn(c)} : e = Subtract(FirstColumn(c), d)
  BY DEF NullSums
<1>2. IsText(d.kind.kind) /\ IsText(FirstColumn(c).kind.kind)
  BY EndsAreColumns, WindowsKinds, ScalarsKinds DEF OwnKind
<1>3. e.kind.kind = <<"SubtractExpr">> \o FirstColumn(c).kind.kind \o d.kind.kind
  BY <1>1 DEF Subtract, Expr, ArithmeticKind, PlainKind
<1>4. "SubtractExpr" \in Combining
  BY DEF Combining
<1> QED BY <1>2, <1>3, <1>4, CombiningIsOwn

LEMMA LiteralKind == OwnKind(Literal("i32").kind.kind)
<1>1. Literal("i32").kind.kind = <<"i32">> /\ "i32" \in Alone
  BY DEF Literal, Expr, PlainKind, Alone
<1> QED BY <1>1, AloneIsOwn

\* Every element of every projection.
LEMMA ProjectionsKinds ==
    ASSUME SubKind, NEW c, RowsInv(c), NEW P \in Projections(c)
    PROVE  \A i \in DOMAIN P : KindTells(c, P[i])
<1> DEFINE Known == Operands(c) \cup Columns(c) \cup Nested(c) \cup {Literal("i32")}
                    \cup Conditionals(c) \cup NullSums(c) \cup {Sum(LastColumn(c)), FirstColumn(c)}
<1>1. ASSUME NEW e \in Known PROVE KindTells(c, e)
  <2>1. e \in Columns(c) => KindTells(c, e)
    BY DEF Columns, KindTells, IsColumnOf
  <2>2. OwnKind(Sum(LastColumn(c)).kind.kind)
    BY EndsAreColumns, CountKind
  <2>3. KindTells(c, FirstColumn(c))
    BY EndsAreColumns DEF KindTells
  <2>4. e \in Nested(c) \cup Conditionals(c) \cup NullSums(c) => OwnKind(e.kind.kind)
    BY NestedKinds, ConditionalsKinds, NullSumsKinds
  <2>5. e \in Operands(c) => KindTells(c, e)
    BY OperandsKinds
  <2>6. e = Literal("i32") \/ e = Sum(LastColumn(c)) => OwnKind(e.kind.kind)
    BY <2>2, LiteralKind
  <2>7. OwnKind(e.kind.kind) => KindTells(c, e)
    BY DEF KindTells
  <2> QED BY <2>1, <2>3, <2>4, <2>5, <2>6, <2>7
<1>2. \/ \E e \in Known : P = <<e>>
      \/ \E d, e \in Known : P = <<d, e>>
  <2>1. Aggregates(c) \subseteq Operands(c)
    BY DEF Operands
  <2> QED BY <2>1 DEF Projections, Singles, Pairs
<1> HIDE DEF Known
<1>3. CASE \E e \in Known : P = <<e>>
  BY <1>1, <1>3
<1>4. CASE \E d, e \in Known : P = <<d, e>>
  BY <1>1, <1>4
<1> QED BY <1>2, <1>3, <1>4

-----------------------------------------------------------------------------
(* The texts of the menu: only a column's begins with a column.            *)

LEMMA NodeBegins ==
    ASSUME NEW N, NEW A, NEW op, NEW kids \in Seq(A), AllRendered(A, N)
    PROVE  Node(op, kids, kids).text[1][1] = "word"
<1>1. IsText(TextOf(kids)) /\ Node(op, kids, kids).text = <<Word(op)>> \o TextOf(kids)
  BY TextsTogether, NodeText
<1>2. Node(op, kids, kids).text[1] = Word(op)
  BY <1>1, WordsBefore
<1> QED BY <1>2, TokenKinds

LEMMA AggregateBegins ==
    ASSUME NEW N, NEW d, Rendered(d.ast, N)
    PROVE  Count(d).ast.text[1][1] = "word" /\ Sum(d).ast.text[1][1] = "word"
<1>1. AllRendered({d.ast}, N) /\ <<d.ast>> \in Seq({d.ast})
  BY DEF AllRendered
<1>2. \A op \in {"count", "sum"} : Node(op, <<d.ast>>, <<d.ast>>).text[1][1] = "word"
  BY <1>1, NodeBegins
<1>3. \A op \in {"count", "sum"} :
        AggregateExprAst(op, d.ast).text = Node(op, <<d.ast>>, <<d.ast>>).text
  BY DEF AggregateExprAst, Node
<1>4. Count(d).ast = AggregateExprAst("count", d.ast) /\ Sum(d).ast = AggregateExprAst("sum", d.ast)
  BY DEF Count, Sum, Expr
<1> QED BY <1>2, <1>3, <1>4

LEMMA WindowBegins ==
    ASSUME NEW N, NEW A, AllRendered(A, N), NEW op, NEW operands \in Seq(A),
           NEW partitions \in Seq(A), NEW orders \in Seq(A)
    PROVE  WindowExprAst(op, operands, partitions, orders).text[1][1] = "word"
<1> DEFINE kids == operands \o WindowList(partitions, orders)
           w == WindowExprAst(op, operands, partitions, orders)
<1>1. kids \in Seq(A)
  BY DEF WindowList
<1>2. w.text = Node(op, kids, kids).text
  BY DEF WindowExprAst, Node
<1> HIDE DEF kids, w
<1>3. w.text[1][1] = "word"
  BY <1>1, <1>2, NodeBegins
<1> QED BY <1>3 DEF w

LEMMA WindowsBegin ==
    ASSUME NEW N, NEW c, NEW e \in Windows(c)
    PROVE  e.ast.text[1][1] = "word"
<1> DEFINE x == FirstColumn(c)
           y == LastColumn(c)
           K == {x.ast, y.ast, LagArgsAst(y.ast)}
<1>1. Rendered(x.ast, N) /\ Rendered(y.ast, N)
  BY EndsRendered
<1> HIDE DEF x, y
<1>2. AllRendered(K, N)
  <2>1. \A op \in {"lag_args"} : Rendered(Node(op, <<y.ast>>, <<y.ast>>), N)
    BY <1>1, NodeRendered1
  <2> QED BY <1>1, <2>1 DEF AllRendered, LagArgsAst
<1>3. AstsOf(<<x>>) \in Seq(K) /\ AstsOf(<<y>>) \in Seq(K) /\ AstsOf(<<>>) \in Seq(K)
  <2>1. AstsOf(<<x>>) = <<x.ast>> /\ AstsOf(<<y>>) = <<y.ast>>
    BY DEF AstsOf
  <2>2. AstsOf(<<>>) = <<>>
    BY DEF AstsOf
  <2>3. <<x.ast>> \in Seq(K) /\ <<y.ast>> \in Seq(K) /\ <<>> \in Seq(K)
    OBVIOUS
  <2> QED BY <2>1, <2>2, <2>3
<1>4. <<>> \in Seq(K) /\ <<y.ast>> \in Seq(K) /\ <<LagArgsAst(y.ast)>> \in Seq(K)
  OBVIOUS
<1> HIDE DEF K
<1>5. \A op \in {"row_number", "sum_over", "lag"} : \A s, t, u \in Seq(K) :
        WindowExprAst(op, s, t, u).text[1][1] = "word"
  BY <1>2, WindowBegins
<1>6. RowNumber(<<x>>, <<y>>).ast = WindowExprAst("row_number", <<>>, AstsOf(<<x>>), AstsOf(<<y>>))
  BY DEF RowNumber, Expr
<1>7. SumOver(y, <<>>, <<x>>).ast
        = WindowExprAst("sum_over", <<y.ast>>, AstsOf(<<>>), AstsOf(<<x>>))
  BY DEF SumOver, Expr
<1>8. Lag(y, <<>>, <<x>>).ast
        = WindowExprAst("lag", <<LagArgsAst(y.ast)>>, AstsOf(<<>>), AstsOf(<<x>>))
  BY DEF Lag, Expr
<1>9. RowNumberOverRef.ast.text[1][1] = "word"
  <2>1. RowNumberOverRef.ast.text = Node("over_w0", <<>>, <<>>).text
    BY DEF RowNumberOverRef, NamedWindowExprAst, Expr, Node
  <2>2. <<>> \in Seq({}) /\ AllRendered({}, N)
    BY EmptySeq DEF AllRendered
  <2>3. \A op \in {"over_w0"} : Node(op, <<>>, <<>>).text[1][1] = "word"
    BY <2>2, NodeBegins
  <2> QED BY <2>1, <2>3
<1>10. \/ e = RowNumber(<<x>>, <<y>>) \/ e = SumOver(y, <<>>, <<x>>)
       \/ e = Lag(y, <<>>, <<x>>) \/ e = RowNumberOverRef
  BY DEF Windows, x, y
<1>11. /\ RowNumber(<<x>>, <<y>>).ast.text[1][1] = "word"
       /\ SumOver(y, <<>>, <<x>>).ast.text[1][1] = "word"
       /\ Lag(y, <<>>, <<x>>).ast.text[1][1] = "word"
  <2> DEFINE begins(a) == a.text[1][1] = "word"
  <2>1. \A op \in {"row_number", "sum_over", "lag"} : \A s, t, u \in Seq(K) :
          begins(WindowExprAst(op, s, t, u))
    BY <1>5
  <2> HIDE DEF begins
  <2>2. /\ begins(WindowExprAst("row_number", <<>>, AstsOf(<<x>>), AstsOf(<<y>>)))
        /\ begins(WindowExprAst("sum_over", <<y.ast>>, AstsOf(<<>>), AstsOf(<<x>>)))
        /\ begins(WindowExprAst("lag", <<LagArgsAst(y.ast)>>, AstsOf(<<>>), AstsOf(<<x>>)))
    BY <1>3, <1>4, <2>1
  <2>3. /\ begins(RowNumber(<<x>>, <<y>>).ast) /\ begins(SumOver(y, <<>>, <<x>>).ast)
        /\ begins(Lag(y, <<>>, <<x>>).ast)
    BY <1>6, <1>7, <1>8, <2>2
  <2> QED BY <2>3 DEF begins
<1> DEFINE Begins(d) == d.ast.text[1][1] = "word"
<1>12. /\ Begins(RowNumber(<<x>>, <<y>>)) /\ Begins(SumOver(y, <<>>, <<x>>))
       /\ Begins(Lag(y, <<>>, <<x>>)) /\ Begins(RowNumberOverRef)
  BY <1>9, <1>11
<1> HIDE DEF Begins
<1>13. Begins(e)
  BY <1>10, <1>12
<1> QED BY <1>13 DEF Begins

LEMMA ScalarsBegin ==
    ASSUME NEW N, SubRendered(N), NEW e \in Scalars
    PROVE  e.ast.text[1][1] = "word"
<1>1. e.ast = ScalarSubqueryExprAst(sub) /\ sub.exists
  BY DEF Scalars, ScalarSubquery, Expr
<1>2. e.ast.text = <<Word("scalar")>> \o sub.text
  BY <1>1 DEF ScalarSubqueryExprAst, SubqueryAst, Node
<1>3. IsText(sub.text)
  BY <1>1 DEF SubRendered, Rendered
<1>4. e.ast.text[1] = Word("scalar")
  BY <1>2, <1>3, WordsBefore
<1> QED BY <1>4, TokenKinds

LEMMA OperandsTexts ==
    ASSUME NEW N, SubRendered(N), NEW c, RowsInv(c), NEW e \in Operands(c)
    PROVE  TextTells(c, e)
<1>1. \A d \in {FirstColumn(c), LastColumn(c)} : TextTells(c, d)
  BY EndsAreColumns DEF TextTells
<1>2. ASSUME e \in Sums(c) PROVE e.ast.text[1][1] = "word"
  <2> DEFINE p == Param(pName, "i32")
  <2>1. PICK d \in {FirstColumn(c), LastColumn(c)} : e = Add(d, p)
    BY <1>2 DEF Sums
  <2>2. p.ast = ParamExprAst(pName)
    BY DEF Param, Expr
  <2>3. Rendered(p.ast, N)
    BY <2>2, ParamRendered
  <2> HIDE DEF p
  <2>4. Rendered(d.ast, N)
    BY EndsRendered
  <2> DEFINE K == {d.ast, p.ast}
  <2>5. AllRendered(K, N) /\ <<d.ast, p.ast>> \in Seq(K)
    BY <2>3, <2>4 DEF AllRendered
  <2>6. e.ast = Node("binary", <<d.ast, p.ast>>, <<d.ast, p.ast>>)
    BY <2>1 DEF Add, Expr, BinaryExprAst
  <2> HIDE DEF K
  <2> QED BY <2>5, <2>6, NodeBegins
<1>3. ASSUME e \in Aggregates(c) PROVE e.ast.text[1][1] = "word"
  <2>1. PICK d \in {LastColumn(c)} \cup Sums(c) : e = Count(d)
    BY <1>3 DEF Aggregates
  <2>2. Rendered(d.ast, N)
    BY EndsRendered, SumsRendered
  <2> QED BY <2>1, <2>2, AggregateBegins
<1> QED BY <1>1, <1>2, <1>3, WindowsBegin, ScalarsBegin DEF Operands, TextTells

LEMMA LiteralBegins == Literal("i32").ast.text[1][1] = "word"
<1>1. Literal("i32").ast.text = Node("literal", <<>>, <<>>).text
  BY DEF Literal, LiteralExprAst, Expr
<1>2. <<>> \in Seq({}) /\ AllRendered({}, {})
  BY EmptySeq DEF AllRendered
<1>3. \A op \in {"literal"} : Node(op, <<>>, <<>>).text[1][1] = "word"
  BY <1>2, NodeBegins
<1> QED BY <1>1, <1>3

\* The projections of the second promise.
LEMMA PlainProjectionsTexts ==
    ASSUME NEW N, SubRendered(N), NEW c, RowsInv(c), NEW P \in Singles(c) \cup Pairs(c)
    PROVE  \A i \in DOMAIN P : TextTells(c, P[i])
<1> DEFINE Known == Operands(c) \cup Columns(c) \cup Nested(c) \cup {Literal("i32")}
                    \cup {Sum(LastColumn(c)), FirstColumn(c)}
<1>1. ASSUME NEW e \in Known PROVE TextTells(c, e)
  <2>1. e \in Columns(c) => TextTells(c, e)
    BY DEF Columns, TextTells, IsColumnOf
  <2>2. Sum(LastColumn(c)).ast.text[1][1] = "word"
    BY EndsRendered, AggregateBegins
  <2>3. TextTells(c, FirstColumn(c))
    BY EndsAreColumns DEF TextTells
  <2>4. ASSUME e \in Nested(c) PROVE e.ast.text[1][1] = "word"
    <3>1. PICK d \in {Count(LastColumn(c))} \cup Windows(c) : e = Sum(d)
      BY <2>4 DEF Nested
    <3>2. Rendered(d.ast, N)
      BY EndsRendered, AggregateRendered, WindowsRendered
    <3> QED BY <3>1, <3>2, AggregateBegins
  <2>5. e \in Operands(c) => TextTells(c, e)
    BY OperandsTexts
  <2>6. e.ast.text[1][1] = "word" => TextTells(c, e)
    BY DEF TextTells
  <2> QED BY <2>1, <2>2, <2>3, <2>4, <2>5, <2>6, LiteralBegins
<1>2. \/ \E e \in Known : P = <<e>>
      \/ \E d, e \in Known : P = <<d, e>>
  <2>1. Aggregates(c) \subseteq Operands(c)
    BY DEF Operands
  <2> QED BY <2>1 DEF Singles, Pairs
<1> HIDE DEF Known
<1>3. CASE \E e \in Known : P = <<e>>
  BY <1>1, <1>3
<1>4. CASE \E d, e \in Known : P = <<d, e>>
  BY <1>1, <1>4
<1> QED BY <1>2, <1>3, <1>4

-----------------------------------------------------------------------------
(* The ORDER BY keys.                                                      *)

\* Every source has its place in the chain as its alias.
ExprsInv(c) ==
    /\ IsText(c.exprs)
    /\ \A i \in DOMAIN c.exprs :
         /\ {"source", "alias", "nullable"} \subseteq DOMAIN c.exprs[i]
         /\ c.exprs[i].alias = i /\ c.exprs[i].source \in menu.sources

\* A sorted column is one of the chain's; since it was sorted by, joins can only have made it
\* Nullable.
ColumnKnown(c, l) ==
    l.ast.text[1][1] = "column" =>
        \E i \in DOMAIN c.exprs, j \in 1 .. 2 :
            /\ l.ast.text = TextAt(c, i, j)
            /\ \/ l.kind.kind = KindAt(c, i, j)
               \/ c.exprs[i].nullable /\ l.kind.kind = <<"Nullable">> \o KindAt(c, i, j)

Sorted(c) == {l \in Range(c.links) : l.clause = "order"}

\* OrderKeys has the kinds of the ORDER BY terms.
KeysInv(c) ==
    /\ Fields \subseteq DOMAIN c
    /\ IsText(c.links)
    /\ IsText(c.orderKeys)
    /\ \A k : k \in Range(c.orderKeys) <=> \E l \in Sorted(c) : k = l.kind.kind
    /\ \A l \in Sorted(c) : ColumnKnown(c, l)

\* A statement's projection met its gate.
GateInv ==
    statement.done =>
        /\ statement.chain = chain
        /\ DistinctOrderGate(chain, statement.projection)
        /\ \A i \in DOMAIN statement.projection : KindTells(chain, statement.projection[i])

SortInv ==
    /\ menu \in Menus
    /\ ExprsInv(chain) /\ KeysInv(chain)
    /\ SubKind /\ GateInv

\* Kinds of columns are equal only if the columns' tables and names are.
LEMMA ColumnsDiffer ==
    ASSUME NEW t, NEW n, NEW u, NEW m
    PROVE  LET k == <<"Column", t, n>>
               l == <<"Column", u, m>>
           IN  /\ k = l => t = u /\ n = m
               /\ <<"Nullable">> \o k = <<"Nullable">> \o l => t = u /\ n = m
               /\ k # <<"Nullable">> \o l
               /\ <<"Nullable">> \o (<<"Nullable">> \o k) # l
               /\ <<"Nullable">> \o (<<"Nullable">> \o k) # <<"Nullable">> \o l
               /\ k[1] = "Column" /\ (<<"Nullable">> \o k)[1] = "Nullable"
<1> DEFINE k == <<"Column", t, n>>
           l == <<"Column", u, m>>
           S == {"Nullable", "Column", t, n, u, m}
           null(s) == <<"Nullable">> \o s
<1>1. k \in Seq(S) /\ l \in Seq(S) /\ <<"Nullable">> \in Seq(S)
  OBVIOUS
<1>2. /\ Len(k) = 3 /\ Len(l) = 3 /\ Len(<<"Nullable">>) = 1 /\ <<"Nullable">>[1] = "Nullable"
      /\ k[1] = "Column" /\ k[2] = t /\ k[3] = n
      /\ l[1] = "Column" /\ l[2] = u /\ l[3] = m
  OBVIOUS
<1> HIDE DEF S, k, l
<1>3. ASSUME NEW s \in Seq(S)
      PROVE  /\ null(s) \in Seq(S) /\ Len(null(s)) = Len(s) + 1
             /\ null(s)[1] = "Nullable"
             /\ \A i \in 1 .. Len(s) : null(s)[i + 1] = s[i]
  <2>1. Len(s) \in Nat
    BY LenProperties
  <2>2. /\ null(s) \in Seq(S) /\ Len(null(s)) = 1 + Len(s)
        /\ \A i \in 1 .. 1 + Len(s) :
             null(s)[i] = IF i <= 1 THEN <<"Nullable">>[i] ELSE s[i - 1]
    BY <1>1, <1>2, ConcatProperties
  <2> HIDE DEF null
  <2>3. null(s)[1] = "Nullable"
    BY <1>2, <2>1, <2>2
  <2>4. \A i \in 1 .. Len(s) : null(s)[i + 1] = s[i]
    BY <2>1, <2>2
  <2> QED BY <2>1, <2>2, <2>3, <2>4
<1> HIDE DEF null
<1>4. /\ null(k) \in Seq(S) /\ Len(null(k)) = 4
      /\ null(k)[1] = "Nullable" /\ null(k)[2] = "Column" /\ null(k)[3] = t /\ null(k)[4] = n
  <2>1. \A i \in 1 .. 3 : null(k)[i + 1] = k[i]
    BY <1>1, <1>2, <1>3
  <2>2. null(k)[1 + 1] = k[1] /\ null(k)[2 + 1] = k[2] /\ null(k)[3 + 1] = k[3]
    BY <2>1
  <2>3. null(k) \in Seq(S) /\ Len(null(k)) = Len(k) + 1 /\ null(k)[1] = "Nullable"
    BY <1>1, <1>3
  <2>4. Len(k) + 1 = 4 /\ 1 + 1 = 2 /\ 2 + 1 = 3 /\ 3 + 1 = 4
    BY <1>2
  <2> QED BY <1>2, <2>2, <2>3, <2>4
<1>5. /\ null(l) \in Seq(S) /\ Len(null(l)) = 4
      /\ null(l)[1] = "Nullable" /\ null(l)[2] = "Column" /\ null(l)[3] = u /\ null(l)[4] = m
  <2>1. \A i \in 1 .. 3 : null(l)[i + 1] = l[i]
    BY <1>1, <1>2, <1>3
  <2>2. null(l)[1 + 1] = l[1] /\ null(l)[2 + 1] = l[2] /\ null(l)[3 + 1] = l[3]
    BY <2>1
  <2>3. null(l) \in Seq(S) /\ Len(null(l)) = Len(l) + 1 /\ null(l)[1] = "Nullable"
    BY <1>1, <1>3
  <2>4. Len(l) + 1 = 4 /\ 1 + 1 = 2 /\ 2 + 1 = 3 /\ 3 + 1 = 4
    BY <1>2
  <2> QED BY <1>2, <2>2, <2>3, <2>4
<1>6. null(null(k))[1] = "Nullable" /\ null(null(k))[2] = "Nullable"
  <2>1. \A i \in 1 .. 4 : null(null(k))[i + 1] = null(k)[i]
    BY <1>3, <1>4
  <2>2. null(null(k))[1 + 1] = null(k)[1]
    BY <2>1
  <2> QED BY <1>3, <1>4, <2>2
<1>7. /\ k = l => t = u /\ n = m
      /\ null(k) = null(l) => t = u /\ n = m
      /\ k # null(l) /\ null(null(k)) # l /\ null(null(k)) # null(l)
      /\ k[1] = "Column" /\ null(k)[1] = "Nullable"
  BY <1>2, <1>4, <1>5, <1>6
<1> QED BY <1>7 DEF k, l, null

\* Of a column, the kind tells the table and the name, the text the place and the name.
LEMMA ColumnsMeet ==
    ASSUME NEW c, ExprsInv(c), NEW i \in DOMAIN c.exprs, NEW h \in DOMAIN c.exprs, NEW j, NEW g
    PROVE  /\ KindAt(c, i, j) = KindAt(c, h, g) =>
                /\ c.exprs[h].source.table = c.exprs[i].source.table
                /\ c.exprs[h].source.columns[g].name = c.exprs[i].source.columns[j].name
           /\ TextAt(c, i, j) = TextAt(c, h, g) => i = h /\ KindAt(c, i, j) = KindAt(c, h, g)
           /\ TextAt(c, i, j)[1] = <<"column", i, c.exprs[i].source.columns[j].name>>
<1> DEFINE t == c.exprs[i].source.table
           u == c.exprs[h].source.table
           n == c.exprs[i].source.columns[j].name
           m == c.exprs[h].source.columns[g].name
<1>1. /\ KindAt(c, i, j) = <<"Column", t, n>> /\ KindAt(c, h, g) = <<"Column", u, m>>
      /\ TextAt(c, i, j) = <<<<"column", i, n>>>> /\ TextAt(c, h, g) = <<<<"column", h, m>>>>
  BY DEF KindAt, TextAt, ExprsInv, ColumnToken
<1>2. i = h => t = u
  OBVIOUS
<1> HIDE DEF t, u, n, m
<1>3. <<"Column", t, n>> = <<"Column", u, m>> => t = u /\ n = m
  BY ColumnsDiffer
<1>4. <<<<"column", i, n>>>> = <<<<"column", h, m>>>> => i = h /\ n = m
  OBVIOUS
<1>5. <<<<"column", i, n>>>>[1] = <<"column", i, n>>
  OBVIOUS
<1> QED BY <1>1, <1>2, <1>3, <1>4, <1>5 DEF t, u, n, m

\* What has a column's text, or that of LAG of it, passes for the columns of that table and name.
LEMMA TextPasses ==
    ASSUME NEW c, ExprsInv(c), NEW i \in DOMAIN c.exprs, NEW h \in DOMAIN c.exprs, NEW j, NEW g,
           KindAt(c, i, j) = KindAt(c, h, g), NEW text,
           \/ text = TextAt(c, h, g)
           \/ text[1] = Word("lag") /\ text[3] = TextAt(c, h, g)[1]
    PROVE  PassesFor(c, text, TextAt(c, i, j)[1])
<1> DEFINE n == c.exprs[i].source.columns[j].name
           m == c.exprs[h].source.columns[g].name
           value == IF text[1] = Word("lag") THEN text[3] ELSE text[1]
           column == TextAt(c, i, j)[1]
<1>1. /\ c.exprs[h].source.table = c.exprs[i].source.table /\ m = n
      /\ column = <<"column", i, n>> /\ TextAt(c, h, g)[1] = <<"column", h, m>>
  BY ColumnsMeet
<1> HIDE DEF m, n
<1>2. Word("lag") # <<"column", h, m>>
  BY DEF Word
<1>3. value = <<"column", h, m>>
  BY <1>1, <1>2
<1> HIDE DEF value, column
<1>4. /\ value[1] = "column" /\ value[2] = h /\ value[3] = m
      /\ column[2] = i /\ column[3] = n
  BY <1>1, <1>3
<1> QED BY <1>1, <1>4 DEF PassesFor, value, column

\* What has a column's kind, or its Nullable, passes for the column.
LEMMA KindPasses ==
    ASSUME NEW c, ExprsInv(c), NEW i \in DOMAIN c.exprs, NEW j \in 1 .. 2,
           NEW k, k = KindAt(c, i, j) \/ k = <<"Nullable">> \o KindAt(c, i, j),
           NEW e, KindTells(c, e), e.kind.kind \in {k, <<"Nullable">> \o k}
    PROVE  PassesFor(c, e.ast.text, TextAt(c, i, j)[1])
<1> DEFINE null(s) == <<"Nullable">> \o s
<1>1. k = KindAt(c, i, j) \/ k = null(KindAt(c, i, j))
  OBVIOUS
<1>2. e.kind.kind = k \/ e.kind.kind = null(k)
  OBVIOUS
<1>3. IsText(KindAt(c, i, j)) /\ KindAt(c, i, j)[1] = "Column"
  BY ColumnIs DEF KindAt
<1>4. IsText(k) /\ k[1] \in {"Column", "Nullable"} /\ null(k)[1] = "Nullable"
  <2>1. /\ IsText(null(KindAt(c, i, j))) /\ null(KindAt(c, i, j))[1] = "Nullable"
    BY <1>3, WordsBefore
  <2>2. IsText(k) /\ k[1] \in {"Column", "Nullable"}
    BY <1>1, <1>3, <2>1
  <2> QED BY <2>2, WordsBefore
<1> HIDE DEF null
<1>5. ~ OwnKind(e.kind.kind)
  BY <1>2, <1>4 DEF OwnKind
<1>6. PICK h \in DOMAIN c.exprs, g \in 1 .. 2 :
        /\ \/ e = Column(c, h, g)
           \/ e.ast.text[1] = Word("lag") /\ e.ast.text[3] = TextAt(c, h, g)[1]
        /\ e.kind.kind = Column(c, h, g).kind.kind
  BY <1>5 DEF KindTells, IsColumnOf, IsLagOf
<1>7. e.kind.kind = KindAt(c, h, g) \/ e.kind.kind = null(KindAt(c, h, g))
  BY <1>6, ColumnIs DEF null
<1>8. /\ KindAt(c, i, j) # null(KindAt(c, h, g)) /\ null(KindAt(c, i, j)) # KindAt(c, h, g)
      /\ null(null(KindAt(c, i, j))) # KindAt(c, h, g)
      /\ null(null(KindAt(c, i, j))) # null(KindAt(c, h, g))
      /\ null(KindAt(c, i, j)) = null(KindAt(c, h, g)) => KindAt(c, i, j) = KindAt(c, h, g)
  <2> DEFINE t == c.exprs[i].source.table
             u == c.exprs[h].source.table
             n == c.exprs[i].source.columns[j].name
             w == c.exprs[h].source.columns[g].name
  <2>1. KindAt(c, i, j) = <<"Column", t, n>> /\ KindAt(c, h, g) = <<"Column", u, w>>
    BY DEF KindAt
  <2> HIDE DEF t, u, n, w
  <2>2. /\ <<"Column", t, n>> # null(<<"Column", u, w>>)
        /\ <<"Column", u, w>> # null(<<"Column", t, n>>)
        /\ null(null(<<"Column", t, n>>)) # <<"Column", u, w>>
        /\ null(null(<<"Column", t, n>>)) # null(<<"Column", u, w>>)
        /\ null(<<"Column", t, n>>) = null(<<"Column", u, w>>) => t = u /\ n = w
    BY ColumnsDiffer DEF null
  <2> QED BY <2>1, <2>2
<1>9. KindAt(c, i, j) = KindAt(c, h, g)
  BY <1>1, <1>2, <1>7, <1>8
<1>10. \/ e.ast.text = TextAt(c, h, g)
       \/ e.ast.text[1] = Word("lag") /\ e.ast.text[3] = TextAt(c, h, g)[1]
  BY <1>6, ColumnIs
<1> QED BY <1>9, <1>10, TextPasses

\* What the gate compares are kinds; what it lets through sorts by columns with a passing element.
LEMMA GateFinds ==
    ASSUME NEW c, ExprsInv(c), KeysInv(c), c.distinct,
           NEW P, DistinctOrderGate(c, P), \A m \in DOMAIN P : KindTells(c, P[m]),
           NEW l \in Sorted(c), l.ast.text[1][1] = "column"
    PROVE  Passing(c, P, l.ast.text[1]) # {}
<1> DEFINE k == l.kind.kind
<1>1. PICK i \in DOMAIN c.exprs, j \in 1 .. 2 :
        /\ l.ast.text = TextAt(c, i, j)
        /\ k = KindAt(c, i, j) \/ k = <<"Nullable">> \o KindAt(c, i, j)
  BY DEF KeysInv, ColumnKnown
<1>2. \E n \in DOMAIN c.orderKeys : c.orderKeys[n] = k
  <2>1. k \in Range(c.orderKeys)
    BY DEF KeysInv
  <2> QED BY <2>1 DEF Range
<1>3. KindContained(P, k)
  BY <1>2 DEF DistinctOrderGate
<1> HIDE DEF k
<1>4. PICK m \in DOMAIN P : P[m].kind.kind \in {k, <<"Nullable">> \o k}
  BY <1>3 DEF KindContained
<1>5. PassesFor(c, P[m].ast.text, TextAt(c, i, j)[1])
  BY <1>1, <1>4, KindPasses
<1> QED BY <1>1, <1>5 DEF Passing

\* And what sorts by projected columns, nothing else passing for them, is let through.
LEMMA GateHolds ==
    ASSUME NEW c, ExprsInv(c), KeysInv(c),
           NEW P, \A m \in DOMAIN P : TextTells(c, P[m]) /\ KindTells(c, P[m]),
           \A a \in AstsIn(c, {"order"}) :
               /\ IsColumn(a) /\ a.text \in TextsOf(P)
               /\ \A h, i \in Passing(c, P, a.text[1]) : h = i
    PROVE  DistinctOrderGate(c, P)
<1> SUFFICES ASSUME NEW n \in DOMAIN c.orderKeys PROVE KindContained(P, c.orderKeys[n])
  BY DEF DistinctOrderGate
<1> DEFINE k == c.orderKeys[n]
<1>1. PICK l \in Sorted(c) : k = l.kind.kind
  <2>1. k \in Range(c.orderKeys)
    BY DEF Range
  <2> QED BY <2>1 DEF KeysInv
<1>2. l.ast \in AstsIn(c, {"order"})
  BY DEF Sorted, AstsIn
<1>3. /\ l.ast.text[1][1] = "column" /\ l.ast.text \in TextsOf(P)
      /\ \A h, i \in Passing(c, P, l.ast.text[1]) : h = i
  BY <1>2 DEF IsColumn
<1>4. PICK m \in DOMAIN P : P[m].ast.text = l.ast.text
  BY <1>3 DEF TextsOf
<1>5. PICK i \in DOMAIN c.exprs, j \in 1 .. 2 :
        /\ l.ast.text = TextAt(c, i, j)
        /\ \/ k = KindAt(c, i, j)
           \/ c.exprs[i].nullable /\ k = <<"Nullable">> \o KindAt(c, i, j)
  BY <1>1, <1>3 DEF KeysInv, ColumnKnown
<1>6. PICK h \in DOMAIN c.exprs, g \in 1 .. 2 : P[m] = Column(c, h, g)
  <2>1. P[m].ast.text[1][1] # "word"
    BY <1>3, <1>4
  <2> QED BY <2>1 DEF TextTells, IsColumnOf
<1>7. /\ TextAt(c, i, j) = TextAt(c, h, g)
      /\ P[m].kind.kind = IF c.exprs[h].nullable THEN <<"Nullable">> \o KindAt(c, h, g)
                          ELSE KindAt(c, h, g)
  BY <1>4, <1>5, <1>6, ColumnIs
<1>8. i = h /\ KindAt(c, i, j) = KindAt(c, h, g)
  BY <1>7, ColumnsMeet
<1>9. P[m].kind.kind \in {k, <<"Nullable">> \o k}
  BY <1>5, <1>7, <1>8
<1> HIDE DEF k
<1>10. ASSUME NEW e \in DOMAIN P, P[e].kind.kind \in {k, <<"Nullable">> \o k}
       PROVE  e \in Passing(c, P, l.ast.text[1])
  <2>1. PassesFor(c, P[e].ast.text, TextAt(c, i, j)[1])
    BY <1>5, <1>10, KindPasses
  <2> QED BY <1>5, <2>1 DEF Passing
<1>11. \A e \in DOMAIN P : P[e].kind.kind \in {k, <<"Nullable">> \o k} <=> e = m
  BY <1>3, <1>9, <1>10
<1>12. KindContained(P, k)
  BY <1>11 DEF KindContained
<1> QED BY <1>12 DEF k

-----------------------------------------------------------------------------
(* Every method keeps that.                                                *)

\* The sources stay where they are; a join can make them Nullable.
SourcesKept(c, d) ==
    /\ DOMAIN c.exprs \subseteq DOMAIN d.exprs
    /\ \A i \in DOMAIN c.exprs :
         /\ d.exprs[i].source = c.exprs[i].source /\ d.exprs[i].alias = c.exprs[i].alias
         /\ c.exprs[i].nullable => d.exprs[i].nullable

LEMMA ColumnsStay ==
    ASSUME NEW c, NEW d, SourcesKept(c, d), NEW l, ColumnKnown(c, l)
    PROVE  ColumnKnown(d, l)
<1> SUFFICES ASSUME l.ast.text[1][1] = "column" PROVE ColumnKnown(d, l)
  BY DEF ColumnKnown
<1>1. PICK i \in DOMAIN c.exprs, j \in 1 .. 2 :
        /\ l.ast.text = TextAt(c, i, j)
        /\ \/ l.kind.kind = KindAt(c, i, j)
           \/ c.exprs[i].nullable /\ l.kind.kind = <<"Nullable">> \o KindAt(c, i, j)
  BY DEF ColumnKnown
<1>2. i \in DOMAIN d.exprs /\ TextAt(d, i, j) = TextAt(c, i, j) /\ KindAt(d, i, j) = KindAt(c, i, j)
  BY DEF SourcesKept, TextAt, KindAt
<1>3. c.exprs[i].nullable => d.exprs[i].nullable
  BY DEF SourcesKept
<1> QED BY <1>1, <1>2, <1>3 DEF ColumnKnown

LEMMA SortedKept ==
    ASSUME NEW c, KeysInv(c), NEW d, NEW l, Extends(c, d, l), l.clause # "order",
           Fields \subseteq DOMAIN d, d.orderKeys = c.orderKeys, SourcesKept(c, d)
    PROVE  KeysInv(d)
<1>1. Range(d.links) = Range(c.links) \cup {l} /\ IsText(d.links)
  BY PushIs DEF KeysInv, IsText, Extends
<1>2. Sorted(d) = Sorted(c)
  BY <1>1 DEF Sorted
<1> QED BY <1>1, <1>2, ColumnsStay DEF KeysInv

LEMMA SortedGrows ==
    ASSUME NEW c, KeysInv(c), NEW d, NEW l, Extends(c, d, l), l.clause = "order",
           Fields \subseteq DOMAIN d, d.orderKeys = <<l.kind.kind>> \o c.orderKeys,
           d.exprs = c.exprs, ColumnKnown(c, l)
    PROVE  KeysInv(d)
<1>1. Range(d.links) = Range(c.links) \cup {l} /\ IsText(d.links)
  BY PushIs DEF KeysInv, IsText, Extends
<1>2. Sorted(d) = Sorted(c) \cup {l}
  BY <1>1 DEF Sorted
<1>3. /\ IsText(d.orderKeys)
      /\ \A k : k \in Range(d.orderKeys) <=> k = l.kind.kind \/ k \in Range(c.orderKeys)
  <2> DEFINE head == <<l.kind.kind>>
  <2>1. IsText(head) /\ \A k : k \in Range(head) <=> k = l.kind.kind
    BY TextOfOne
  <2> HIDE DEF head
  <2>2. /\ IsText(head \o c.orderKeys)
        /\ \A k : k \in Range(head \o c.orderKeys) <=> k \in Range(head) \/ k \in Range(c.orderKeys)
    BY <2>1, TextConcat DEF KeysInv
  <2>3. d.orderKeys = head \o c.orderKeys
    BY DEF head
  <2> QED BY <2>1, <2>2, <2>3
<1>4. \A k \in Sorted(d) : ColumnKnown(d, k)
  <2>1. SourcesKept(c, d)
    BY DEF SourcesKept
  <2> QED BY <1>2, <2>1, ColumnsStay DEF KeysInv
<1>5. \A k : k \in Range(d.orderKeys) <=> \E m \in Sorted(d) : k = m.kind.kind
  BY <1>2, <1>3 DEF KeysInv
<1> QED BY <1>1, <1>3, <1>4, <1>5 DEF KeysInv

\* A chain that keeps both.
ChainSorts(c) == ExprsInv(c) /\ KeysInv(c)

\* The methods that are neither a join nor an ORDER BY.
LEMMA OthersSort ==
    ASSUME NEW c, ChainSorts(c), NEW e, NEW p, NEW rows
    PROVE  /\ ChainSorts(WhereLink(c, p)) /\ ChainSorts(HavingLink(c, p))
           /\ ChainSorts(GroupByLink(c, e))
           /\ ChainSorts(LimitLink(c, rows)) /\ ChainSorts(OffsetLink(c, rows))
           /\ ChainSorts(LockLink(c, rows)) /\ ChainSorts(DistinctLink(c))
<1>1. Fields \subseteq DOMAIN c
  BY DEF ChainSorts, KeysInv
<1>2. ASSUME NEW d, NEW l, Extends(c, d, l), l.clause # "order", Fields \subseteq DOMAIN d,
             d.orderKeys = c.orderKeys, d.exprs = c.exprs
      PROVE  ChainSorts(d)
  <2>1. SourcesKept(c, d)
    BY <1>2 DEF SourcesKept
  <2>2. ExprsInv(d)
    BY <1>2 DEF ChainSorts, ExprsInv
  <2> QED BY <1>2, <2>1, <2>2, SortedKept DEF ChainSorts
<1>3. ChainSorts(WhereLink(c, p))
  <2> DEFINE d == WhereLink(c, p)
             l == Link("where", p, NoKind, "", NoSource)
  <2>1. /\ Extends(c, d, l) /\ l.clause # "order" /\ Fields \subseteq DOMAIN d
        /\ d.orderKeys = c.orderKeys /\ d.exprs = c.exprs
    BY <1>1 DEF Fields, WhereLink, Push, Extends, Link
  <2> HIDE DEF d, l
  <2> QED BY <1>2, <2>1 DEF d
<1>4. ChainSorts(HavingLink(c, p))
  <2> DEFINE d == HavingLink(c, p)
             l == Link("having", p, NoKind, "", NoSource)
  <2>1. /\ Extends(c, d, l) /\ l.clause # "order" /\ Fields \subseteq DOMAIN d
        /\ d.orderKeys = c.orderKeys /\ d.exprs = c.exprs
    BY <1>1 DEF Fields, HavingLink, Push, Extends, Link
  <2> HIDE DEF d, l
  <2> QED BY <1>2, <2>1 DEF d
<1>5. ChainSorts(GroupByLink(c, e))
  <2> DEFINE d == GroupByLink(c, e)
             l == Link("group", e.ast, e.kind, "", NoSource)
  <2>1. /\ Extends(c, d, l) /\ l.clause # "order" /\ Fields \subseteq DOMAIN d
        /\ d.orderKeys = c.orderKeys /\ d.exprs = c.exprs
    BY <1>1 DEF Fields, GroupByLink, Push, Extends, Link
  <2> HIDE DEF d, l
  <2> QED BY <1>2, <2>1 DEF d
<1>6. ChainSorts(LimitLink(c, rows)) /\ ChainSorts(OffsetLink(c, rows))
  <2>1. \A clause \in {"limit", "offset"} :
          ChainSorts(Push(c, Link(clause, NoAst, NoKind, rows, NoSource)))
    <3> TAKE clause \in {"limit", "offset"}
    <3> DEFINE l == Link(clause, NoAst, NoKind, rows, NoSource)
               d == Push(c, l)
    <3>1. /\ Extends(c, d, l) /\ l.clause # "order" /\ Fields \subseteq DOMAIN d
          /\ d.orderKeys = c.orderKeys /\ d.exprs = c.exprs
      BY <1>1 DEF Fields, Push, Extends, Link
    <3> HIDE DEF d, l
    <3> QED BY <1>2, <3>1 DEF d, l
  <2> QED BY <2>1 DEF LimitLink, OffsetLink
<1>7. ChainSorts(LockLink(c, rows))
  <2> DEFINE d == LockLink(c, rows)
             l == Link("lock", NoAst, NoKind, rows, NoSource)
  <2>1. /\ Extends(c, d, l) /\ l.clause # "order" /\ Fields \subseteq DOMAIN d
        /\ d.orderKeys = c.orderKeys /\ d.exprs = c.exprs
    BY <1>1 DEF Fields, LockLink, Push, Extends, Link
  <2> HIDE DEF d, l
  <2> QED BY <1>2, <2>1 DEF d
<1>8. ChainSorts(DistinctLink(c))
  <2> DEFINE d == DistinctLink(c)
             l == Link("distinct", NoAst, NoKind, "", NoSource)
  <2>1. /\ Extends(c, d, l) /\ l.clause # "order" /\ Fields \subseteq DOMAIN d
        /\ d.orderKeys = c.orderKeys /\ d.exprs = c.exprs
    BY <1>1 DEF Fields, DistinctLink, Push, Extends, Link
  <2> HIDE DEF d, l
  <2> QED BY <1>2, <2>1 DEF d
<1> QED BY <1>3, <1>4, <1>5, <1>6, <1>7, <1>8

LEMMA OrderBySorts ==
    ASSUME NEW c, ChainSorts(c), NEW b, SourcesKept(b, c), NEW e, TextTells(b, e)
    PROVE  ChainSorts(OrderByLink(c, e))
<1> DEFINE l == Link("order", e.ast, e.kind, "", NoSource)
           d == OrderByLink(c, e)
<1>1. Fields \subseteq DOMAIN c
  BY DEF ChainSorts, KeysInv
<1>2. /\ Extends(c, d, l) /\ Fields \subseteq DOMAIN d
      /\ d.orderKeys = <<e.kind.kind>> \o c.orderKeys /\ d.exprs = c.exprs
  BY <1>1 DEF Fields, OrderByLink, Push, Extends
<1>3. l.clause = "order" /\ l.ast = e.ast /\ l.kind = e.kind
  BY DEF Link
<1> HIDE DEF l, d
<1>4. ColumnKnown(b, l)
  <2> SUFFICES ASSUME e.ast.text[1][1] = "column" PROVE ColumnKnown(b, l)
    BY <1>3 DEF ColumnKnown
  <2>1. PICK i \in DOMAIN b.exprs, j \in 1 .. 2 : e = Column(b, i, j)
    BY DEF TextTells, IsColumnOf
  <2>2. /\ e.ast.text = TextAt(b, i, j)
        /\ e.kind.kind = IF b.exprs[i].nullable THEN <<"Nullable">> \o KindAt(b, i, j)
                         ELSE KindAt(b, i, j)
    BY <2>1, ColumnIs
  <2>3. \/ l.kind.kind = KindAt(b, i, j)
        \/ b.exprs[i].nullable /\ l.kind.kind = <<"Nullable">> \o KindAt(b, i, j)
    BY <1>3, <2>2
  <2> QED BY <1>3, <2>2, <2>3 DEF ColumnKnown
<1>5. ColumnKnown(c, l)
  BY <1>4, ColumnsStay
<1>6. KeysInv(d)
  BY <1>2, <1>3, <1>5, SortedGrows DEF ChainSorts
<1>7. ExprsInv(d)
  BY <1>2 DEF ChainSorts, ExprsInv
<1> QED BY <1>6, <1>7 DEF ChainSorts, d

LEMMA JoinsSort ==
    ASSUME NEW c, ChainSorts(c), NEW on, NEW kind, NEW s \in menu.sources
    PROVE  /\ ChainSorts(JoinLink(c, kind, s, on)) /\ ChainSorts(LeftJoinLink(c, s, on))
           /\ ChainSorts(OuterJoinLink(c, kind, s, on))
<1> DEFINE n == Len(c.exprs)
           S == Range(c.exprs)
<1>1. /\ Fields \subseteq DOMAIN c /\ c.exprs \in Seq(S)
      /\ DOMAIN c.exprs = 1 .. n /\ n \in Nat
      /\ \A i \in 1 .. n : c.exprs[i] \in S /\ {"source", "alias", "nullable"} \subseteq DOMAIN c.exprs[i]
  <2>1. Fields \subseteq DOMAIN c /\ c.exprs \in Seq(S)
    BY DEF ChainSorts, KeysInv, ExprsInv, IsText
  <2>2. DOMAIN c.exprs = 1 .. n /\ n \in Nat /\ \A i \in 1 .. n : c.exprs[i] \in S
    BY <2>1, LenProperties, ElementOfSeq
  <2> QED BY <2>1, <2>2 DEF ChainSorts, ExprsInv
<1>3. ASSUME NEW d, NEW l, Extends(c, d, l), l.clause # "order", Fields \subseteq DOMAIN d,
             d.orderKeys = c.orderKeys,
             NEW before, IsText(before), Len(before) = n,
             \A i \in 1 .. n :
               /\ {"source", "alias", "nullable"} \subseteq DOMAIN before[i]
               /\ before[i].source = c.exprs[i].source /\ before[i].alias = c.exprs[i].alias
               /\ c.exprs[i].nullable => before[i].nullable,
             NEW nullable, d.exprs = Append(before, SourceExpr(s, n + 1, nullable))
      PROVE  ChainSorts(d)
  <2> DEFINE new == SourceExpr(s, n + 1, nullable)
  <2>1. /\ new.source = s /\ new.alias = n + 1 /\ {"source", "alias", "nullable"} \subseteq DOMAIN new
    BY DEF SourceExpr
  <2> HIDE DEF new
  <2>2. /\ IsText(d.exprs) /\ DOMAIN d.exprs = 1 .. n + 1
        /\ \A i \in 1 .. n : d.exprs[i] = before[i]
        /\ d.exprs[n + 1] = new
    <3>1. IsText(Append(before, new)) /\ Len(Append(before, new)) = n + 1
      BY <1>3, PushIs DEF IsText
    <3>2. before \in Seq(Range(before)) \/ FALSE
      BY <1>3 DEF IsText
    <3>3. /\ \A i \in 1 .. Len(before) : Append(before, new)[i] = before[i]
          /\ Append(before, new)[Len(before) + 1] = new
      BY <3>2, AppendProperties
    <3>4. DOMAIN Append(before, new) = 1 .. n + 1
      BY <3>1, LenProperties DEF IsText
    <3> QED BY <1>3, <3>1, <3>3, <3>4 DEF new
  <2>3. SourcesKept(c, d)
    BY <1>1, <1>3, <2>2 DEF SourcesKept
  <2>4. KeysInv(d)
    BY <1>3, <2>3, SortedKept DEF ChainSorts
  <2>5. \A i \in DOMAIN d.exprs :
          /\ {"source", "alias", "nullable"} \subseteq DOMAIN d.exprs[i]
          /\ d.exprs[i].alias = i /\ d.exprs[i].source \in menu.sources
    <3>1. \A i \in 1 .. n : c.exprs[i].alias = i /\ c.exprs[i].source \in menu.sources
      BY <1>1 DEF ChainSorts, ExprsInv
    <3>2. \A i \in 1 .. n + 1 : i \in 1 .. n \/ i = n + 1
      BY <1>1
    <3> QED BY <1>3, <2>1, <2>2, <3>1, <3>2
  <2>7. ExprsInv(d)
    BY <2>2, <2>5 DEF ExprsInv
  <2> QED BY <2>4, <2>7 DEF ChainSorts
<1>4. /\ IsText(c.exprs)
      /\ \A i \in 1 .. n : {"source", "alias", "nullable"} \subseteq DOMAIN c.exprs[i]
  BY <1>1 DEF ChainSorts, ExprsInv
<1>5. LET made == IntoNullableExprs(c.exprs)
      IN  /\ IsText(made) /\ Len(made) = n
          /\ \A i \in 1 .. n :
               /\ {"source", "alias", "nullable"} \subseteq DOMAIN made[i]
               /\ made[i].source = c.exprs[i].source /\ made[i].alias = c.exprs[i].alias
               /\ made[i].nullable
  <2> DEFINE made == IntoNullableExprs(c.exprs)
  <2>1. /\ DOMAIN made = 1 .. n
        /\ \A i \in 1 .. n : made[i] = [c.exprs[i] EXCEPT !.nullable = TRUE]
        /\ made = [i \in 1 .. n |-> made[i]]
    BY <1>1 DEF IntoNullableExprs
  <2>2. \A i \in 1 .. n :
          /\ {"source", "alias", "nullable"} \subseteq DOMAIN made[i]
          /\ made[i].source = c.exprs[i].source /\ made[i].alias = c.exprs[i].alias
          /\ made[i].nullable
    BY <1>4, <2>1
  <2> HIDE DEF made
  <2>3. made \in Seq({made[i] : i \in 1 .. n}) /\ Len(made) = n
    <3> DEFINE T == {made[i] : i \in 1 .. n}
    <3>1. \A i \in 1 .. n : made[i] \in T
      OBVIOUS
    <3> HIDE DEF T
    <3>2. made \in [1 .. n -> T]
      BY <2>1, <3>1
    <3>3. n \in Nat
      BY <1>1
    <3> HIDE DEF n
    <3>4. made \in Seq(T) /\ Len(made) = n
      BY <3>2, <3>3
    <3> QED BY <3>4 DEF T
  <2>4. IsText(made)
    BY <2>3, SequenceIsText
  <2> QED BY <2>2, <2>3, <2>4 DEF made
<1>6. ChainSorts(JoinLink(c, kind, s, on))
  <2> DEFINE d == JoinLink(c, kind, s, on)
             l == Link("join", on, NoKind, kind, s)
  <2>1. /\ Extends(c, d, l) /\ l.clause # "order" /\ Fields \subseteq DOMAIN d
        /\ d.orderKeys = c.orderKeys
        /\ d.exprs = Append(c.exprs, SourceExpr(s, n + 1, FALSE))
    BY <1>1 DEF Fields, JoinLink, Joined, Push, Extends, Link
  <2> HIDE DEF d, l, n
  <2> QED BY <1>3, <1>4, <2>1 DEF d, n
<1>7. ChainSorts(LeftJoinLink(c, s, on))
  <2> DEFINE d == LeftJoinLink(c, s, on)
             l == Link("join", on, NoKind, "left", s)
  <2>1. /\ Extends(c, d, l) /\ l.clause # "order" /\ Fields \subseteq DOMAIN d
        /\ d.orderKeys = c.orderKeys
        /\ d.exprs = Append(c.exprs, SourceExpr(s, n + 1, TRUE))
    BY <1>1 DEF Fields, LeftJoinLink, Joined, Push, Extends, Link
  <2> HIDE DEF d, l, n
  <2> QED BY <1>3, <1>4, <2>1 DEF d, n
<1>8. ChainSorts(OuterJoinLink(c, kind, s, on))
  <2> DEFINE d == OuterJoinLink(c, kind, s, on)
             l == Link("join", on, NoKind, kind, s)
             made == IntoNullableExprs(c.exprs)
  <2>1. /\ Extends(c, d, l) /\ l.clause # "order" /\ Fields \subseteq DOMAIN d
        /\ d.orderKeys = c.orderKeys
        /\ d.exprs = Append(made, SourceExpr(s, n + 1, kind = "full"))
    BY <1>1 DEF Fields, OuterJoinLink, Joined, Push, Extends, Link
  <2>2. /\ IsText(made) /\ Len(made) = n
        /\ \A i \in 1 .. n :
             /\ {"source", "alias", "nullable"} \subseteq DOMAIN made[i]
             /\ made[i].source = c.exprs[i].source /\ made[i].alias = c.exprs[i].alias
             /\ c.exprs[i].nullable => made[i].nullable
    BY <1>5
  <2> HIDE DEF d, l, n, made
  <2> QED BY <1>3, <2>1, <2>2 DEF d, n
<1> QED BY <1>6, <1>7, <1>8

LEMMA FromSorts ==
    ASSUME NEW s \in menu.sources
    PROVE  ChainSorts(FromLink(s))
<1> DEFINE c == FromLink(s)
           l == Link("from", NoAst, NoKind, "from", s)
           e == SourceExpr(s, 1, FALSE)
<1>1. /\ c.links = <<l>> /\ c.exprs = <<e>> /\ c.orderKeys = <<>> /\ Fields \subseteq DOMAIN c
  BY DEF FromLink, Fields
<1>2. e.source = s /\ e.alias = 1 /\ {"source", "alias", "nullable"} \subseteq DOMAIN e
  BY DEF SourceExpr
<1>3. l.clause = "from"
  BY DEF Link
<1> HIDE DEF c, l, e
<1>4. IsText(<<l>>) /\ IsText(<<e>>) /\ DOMAIN <<e>> = {1} /\ <<e>>[1] = e
  BY TextOfOne
<1>5. Range(c.links) = {l}
  BY <1>1 DEF Range
<1>6. ExprsInv(c)
  BY <1>1, <1>2, <1>4 DEF ExprsInv
<1>7. Sorted(c) = {}
  BY <1>3, <1>5 DEF Sorted
<1>8. KeysInv(c)
  BY <1>1, <1>4, <1>7, TextOfNone DEF KeysInv
<1> QED BY <1>6, <1>8 DEF ChainSorts, c

-----------------------------------------------------------------------------
(* Every step.                                                             *)

\* Neither what a chain is nor what its sources are depends on anything but the menu.
LEMMA SortStep ==
    ASSUME SortInv, UNCHANGED <<menu, sub, statement>>, ~ statement.done, ChainSorts(chain')
    PROVE  SortInv'
<1>1. ChainSorts(chain)'
  BY DEF ChainSorts, ExprsInv
<1>2. ~ statement'.done /\ SubKind'
  BY DEF SortInv, SubKind
<1> QED BY <1>1, <1>2 DEF SortInv, ChainSorts, GateInv

LEMMA SortInit == Init => SortInv
<1> SUFFICES ASSUME Init PROVE SortInv
  OBVIOUS
<1>1. PICK s \in menu.sources : chain = FromLink(s)
  BY DEF Init
<1>2. ChainSorts(chain)
  BY <1>1, FromSorts
<1>3. menu \in Menus /\ ~ sub.exists /\ ~ statement.done
  BY DEF Init, NoSub, NoStatement
<1> QED BY <1>2, <1>3 DEF SortInv, ChainSorts, SubKind, GateInv

LEMMA SortsStep == IInv /\ TextsInv /\ SortInv /\ [Next]_vars => SortInv'
<1> SUFFICES ASSUME IInv, TextsInv, SortInv, [Next]_vars PROVE SortInv'
  OBVIOUS
<1>1. menu \in Menus /\ ChainSorts(chain) /\ SubKind /\ GateInv /\ RowsInv(chain)
  BY DEF SortInv, ChainSorts, IInv, ChainInv
<1>2. SubRendered(CteNames)
  BY DEF TextsInv
<1>3. CASE Where \/ GroupBy \/ Having \/ Limit \/ Offset \/ Distinct \/ Lock
  <2>1. ChainSorts(chain')
    BY <1>1, <1>3, OthersSort DEF Where, GroupBy, Having, Limit, Offset, Distinct, Lock
  <2> QED BY <1>3, <2>1, SortStep DEF Where, GroupBy, Having, Limit, Offset, Distinct, Lock, Call
<1>4. \A c : SourcesKept(c, c)
  BY DEF SourcesKept
<1>5. CASE OrderBy
  <2>1. PICK e \in Operands(chain) \cup {Literal("i32")} : chain' = OrderByLink(chain, e)
    BY <1>5 DEF OrderBy
  <2>2. TextTells(chain, e)
    BY <1>1, <1>2, OperandsTexts, LiteralBegins DEF TextTells
  <2>3. ChainSorts(chain')
    BY <1>1, <1>4, <2>1, <2>2, OrderBySorts
  <2> QED BY <1>5, <2>3, SortStep DEF OrderBy, Call
<1>6. CASE OrderByPair
  <2>1. PICK d, e \in {FirstColumn(chain), LastColumn(chain)} \cup Sums(chain) :
          chain' = OrderByLink(OrderByLink(chain, d), e)
    BY <1>6 DEF OrderByPair
  <2>2. TextTells(chain, d) /\ TextTells(chain, e)
    BY <1>1, <1>2, OperandsTexts DEF Operands
  <2>3. ChainSorts(OrderByLink(chain, d))
    BY <1>1, <1>4, <2>2, OrderBySorts
  <2>4. SourcesKept(chain, OrderByLink(chain, d))
    <3>1. OrderByLink(chain, d).exprs = chain.exprs
      BY <1>1 DEF OrderByLink, Push, ChainSorts, KeysInv, Fields
    <3> QED BY <3>1 DEF SourcesKept
  <2>5. ChainSorts(chain')
    BY <2>1, <2>2, <2>3, <2>4, OrderBySorts
  <2> QED BY <1>6, <2>5, SortStep DEF OrderByPair, Call
<1>7. CASE InnerJoin \/ LeftJoin \/ RightJoin \/ FullJoin \/ CrossJoin
  <2>1. PICK s \in menu.sources : \E on \in OnPredicates(s) \cup {NoAst} :
          \/ \E kind \in {"inner", "cross"} : chain' = JoinLink(chain, kind, s, on)
          \/ chain' = LeftJoinLink(chain, s, on)
          \/ \E kind \in {"right", "full"} : chain' = OuterJoinLink(chain, kind, s, on)
    BY <1>7 DEF InnerJoin, LeftJoin, RightJoin, FullJoin, CrossJoin
  <2> PICK on \in OnPredicates(s) \cup {NoAst} :
          \/ \E kind \in {"inner", "cross"} : chain' = JoinLink(chain, kind, s, on)
          \/ chain' = LeftJoinLink(chain, s, on)
          \/ \E kind \in {"right", "full"} : chain' = OuterJoinLink(chain, kind, s, on)
    BY <2>1
  <2>3. ChainSorts(chain')
    BY <1>1, <2>1, JoinsSort
  <2> QED BY <1>7, <2>3, SortStep
      DEF InnerJoin, LeftJoin, RightJoin, FullJoin, CrossJoin, Call
<1>8. ASSUME NEW P, NEW window, CanProject(chain, P), \A i \in DOMAIN P : KindTells(chain, P[i]),
             statement' = Statement(chain, P, window), UNCHANGED <<chain, sub, menu>>
      PROVE  SortInv'
  <2>1. statement'.chain = chain /\ statement'.projection = P
    BY <1>8 DEF Statement
  <2>2. GateInv'
    BY <1>8, <2>1 DEF GateInv, CanProject
  <2>3. ExprsInv(chain)' /\ KeysInv(chain)' /\ SubKind'
    BY <1>1, <1>8 DEF ChainSorts, ExprsInv, KeysInv, SubKind
  <2> QED BY <1>1, <1>8, <2>2, <2>3 DEF SortInv
<1>9. CASE Select
  <2>1. PICK P \in Projections(chain) : CanSelect(chain, P) /\ statement' = Statement(chain, P, <<>>)
    BY <1>9 DEF Select
  <2>2. \A i \in DOMAIN P : KindTells(chain, P[i])
    BY <1>1, ProjectionsKinds
  <2> QED BY <1>8, <1>9, <2>1, <2>2 DEF Select, CanSelect
<1>10. CASE SelectOver
  <2> DEFINE P == <<FirstColumn(chain), RowNumberOverRef>>
  <2>1. PICK key \in Operands(chain) :
          CanProject(chain, P) /\ statement' = Statement(chain, P, <<key.ast>>)
    BY <1>10 DEF SelectOver
  <2>2. KindTells(chain, FirstColumn(chain))
    BY <1>1, EndsAreColumns DEF KindTells
  <2>3. KindTells(chain, RowNumberOverRef)
    <3>1. RowNumberOverRef.kind.kind = <<"i64">> /\ "i64" \in Alone
      BY DEF RowNumberOverRef, Expr, PlainKind, Alone
    <3> QED BY <3>1, AloneIsOwn DEF KindTells
  <2>4. \A i \in DOMAIN P : KindTells(chain, P[i])
    BY <2>2, <2>3
  <2> HIDE DEF P
  <2> QED BY <1>8, <1>10, <2>1, <2>4 DEF SelectOver
<1>11. CASE SelectSubquery
  <2>1. PICK P \in {<<FirstColumn(chain)>>} \cup {<<e>> : e \in Sums(chain)}, s \in menu.sources :
          sub' = SubquerySelect(chain, P) /\ chain' = FromLink(s)
    BY <1>11 DEF SelectSubquery
  <2>2. PICK e \in {FirstColumn(chain)} \cup Sums(chain) : P = <<e>>
    OBVIOUS
  <2>3. sub'.output = e.kind
    BY <2>1, <2>2 DEF SubquerySelect
  <2>4. IsText(e.kind.kind)
    BY <1>1, EndsAreColumns, SumsKinds DEF OwnKind
  <2>5. SubKind'
    BY <2>3, <2>4 DEF SubKind
  <2>6. UNCHANGED <<menu, statement>> /\ ~ statement.done
    BY <1>11 DEF SelectSubquery
  <2>7. ChainSorts(chain)'
    BY <2>1, <2>6, FromSorts DEF ChainSorts, ExprsInv
  <2> QED BY <1>1, <2>5, <2>6, <2>7 DEF SortInv, ChainSorts, GateInv
<1>12. CASE UNCHANGED vars
  BY <1>1, <1>12 DEF vars, SortInv, ChainSorts, ExprsInv, KeysInv, SubKind, GateInv
<1> QED BY <1>3, <1>5, <1>6, <1>7, <1>9, <1>10, <1>11, <1>12 DEF Next

LEMMA SortInvariance == Spec => []SortInv
BY SortInit, SortsStep, Invariance, TextsInvariance, PTL DEF Spec

\* Under DISTINCT a statement is sorted by columns that a projected element passes for, and a
\* select whose keys are all columns it projects is not refused unless a second element passes
\* for one of them, whatever joins came between order_by and select, self-joins included.
THEOREM DistinctOrder == Spec => []DistinctOrdersByProjected
<1>1. IInv /\ TextsInv /\ SortInv => DistinctOrdersByProjected
  <2> SUFFICES ASSUME IInv, TextsInv, SortInv PROVE DistinctOrdersByProjected
    OBVIOUS
  <2>1. /\ ExprsInv(chain) /\ KeysInv(chain) /\ GateInv /\ SubKind /\ RowsInv(chain)
        /\ SubRendered(CteNames)
    BY DEF SortInv, IInv, ChainInv, TextsInv
  <2>2. ASSUME statement.done, statement.chain.distinct
        PROVE  \A text \in OrderedColumns(statement.chain) :
                   Passing(statement.chain, statement.projection, text[1]) # {}
    <3> DEFINE P == statement.projection
    <3>1. /\ statement.chain = chain /\ DistinctOrderGate(chain, P)
          /\ \A i \in DOMAIN P : KindTells(chain, P[i])
      BY <2>1, <2>2 DEF GateInv
    <3> SUFFICES ASSUME NEW a \in AstsIn(chain, {"order"}), IsColumn(a)
                 PROVE  Passing(chain, P, a.text[1]) # {}
      BY <3>1 DEF OrderedColumns
    <3> HIDE DEF P
    <3>2. PICK l \in Sorted(chain) : a = l.ast
      BY DEF AstsIn, Sorted
    <3>3. Passing(chain, P, l.ast.text[1]) # {}
      BY <2>1, <2>2, <3>1, <3>2, GateFinds DEF IsColumn
    <3> QED BY <3>2, <3>3
  <2>3. ASSUME NEW P \in Singles(chain) \cup Pairs(chain),
               \A a \in AstsIn(chain, {"order"}) :
                   /\ IsColumn(a) /\ a.text \in TextsOf(P)
                   /\ \A h, i \in Passing(chain, P, a.text[1]) : h = i
        PROVE  DistinctOrderGate(chain, P)
    <3>1. \A m \in DOMAIN P : TextTells(chain, P[m])
      BY <2>1, PlainProjectionsTexts
    <3>2. P \in Projections(chain)
      BY DEF Projections
    <3>3. \A m \in DOMAIN P : KindTells(chain, P[m])
      BY <2>1, <3>2, ProjectionsKinds
    <3> QED BY <2>1, <2>3, <3>1, <3>3, GateHolds
  <2> QED BY <2>2, <2>3 DEF DistinctOrdersByProjected
<1> QED BY <1>1, SortInvariance, Invariance, TextsInvariance, PTL
=============================================================================
