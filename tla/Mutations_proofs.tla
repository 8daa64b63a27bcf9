-------------------------- MODULE Mutations_proofs --------------------------
(***************************************************************************)
(* What an INSERT, UPDATE or DELETE does to the table is what the calls    *)
(* that built it mean: for any tables, menus of expressions, sources and   *)
(* projections that meet the assumptions of Mutations, any bounds, and     *)
(* however often a prepared statement is executed.                         *)
(*                                                                         *)
(* The argument goes from the calls to the table.                          *)
(*                                                                         *)
(* Calls and builder.  At every stage the builder holds what the log of    *)
(* its calls says (BuilderIs), and the places of the runtime parameters    *)
(* are all different (Apart).  A finalizer builds the query that the log   *)
(* says (QueryIs).                                                         *)
(*                                                                         *)
(* Query and text.  The renderer numbers its placeholders with no gap and  *)
(* keeps a bind for each, in order (Carries).  Given parameters that fit   *)
(* the binds, the text of an expression is worth what the expression is    *)
(* (Means): a placeholder stands for its literal or argument, a name for   *)
(* its handle, and the tokens that spell out an empty list have the        *)
(* list's value.  So the lists of a statement's text stand for those of    *)
(* the query (Stands), in all six kinds of statement (IsWritten).          *)
(*                                                                         *)
(* Text and table.  The server resolves every name and finds every         *)
(* parameter, so it takes the statement (UpdateIsTaken, DeleteIsTaken,     *)
(* InsertTextsAreTaken, ConflictTaken), and what it does is said by lists  *)
(* that the text stands for (QueryRuns).                                   *)
(*                                                                         *)
(* The invariant IInv puts them together; EffectIsMeant takes what the     *)
(* query does to what the calls mean.                                      *)
(***************************************************************************)
EXTENDS Mutations, Flattening_proofs

-----------------------------------------------------------------------------
(* The recursive functions of the renderer and the server, by their runs.  *)

\* "f" holds what WriteExpr has after each of the first n tokens.
WriteExprRun(x, e, w, n, f) ==
    f = [i \in 0 .. n |-> IF i = 0 THEN [w |-> w, t |-> <<>>] ELSE WriteToken(x, e[i], f[i - 1])]

\* There is such a run, whatever the length.
LEMMA WriteExprRunExists ==
    ASSUME NEW x, NEW e, NEW w
    PROVE  \A n \in Nat : \E f : WriteExprRun(x, e, w, n, f)
<1> DEFINE T == {n \in Nat : \E f : WriteExprRun(x, e, w, n, f)}
<1>1. 0 \in T
  <2> DEFINE f == [i \in 0 .. 0 |-> [w |-> w, t |-> <<>>]]
  <2>1. f = [i \in 0 .. 0 |-> IF i = 0 THEN [w |-> w, t |-> <<>>] ELSE WriteToken(x, e[i], f[i - 1])]
    OBVIOUS
  <2> HIDE DEF f
  <2> QED BY <2>1 DEF WriteExprRun
<1>2. ASSUME NEW n \in Nat, n \in T PROVE n + 1 \in T
  <2>1. PICK h : WriteExprRun(x, e, w, n, h)
    BY <1>2
  <2> DEFINE next(f, i) == WriteToken(x, e[i], f[i - 1])
             f == [i \in 0 .. n + 1 |-> IF i <= n THEN h[i] ELSE next(h, i)]
  <2>2. ASSUME NEW i \in 0 .. n + 1
        PROVE  f[i] = IF i = 0 THEN [w |-> w, t |-> <<>>] ELSE next(f, i)
    BY <2>1 DEF WriteExprRun
  <2>3. f = [i \in 0 .. n + 1 |-> f[i]]
    OBVIOUS
  <2> HIDE DEF f
  <2>4. WriteExprRun(x, e, w, n + 1, f)
    BY <2>2, <2>3 DEF WriteExprRun
  <2> QED BY <2>4
<1> HIDE DEF T
<1>3. Nat \subseteq T
  BY <1>1, <1>2, Induction
<1> QED BY <1>3 DEF T

\* Two runs over tokens that are the same so far give the same.
LEMMA WriteExprRunAgree ==
    ASSUME NEW x, NEW w, NEW e1, NEW e2,
           NEW n \in Nat, NEW m \in Nat, n <= m,
           NEW f, WriteExprRun(x, e1, w, n, f),
           NEW g, WriteExprRun(x, e2, w, m, g),
           SameUpTo(n, e1, e2)
    PROVE  f[n] = g[n]
<1> DEFINE T == {i \in Nat : i <= n => f[i] = g[i]}
<1>1. 0 \in T
  BY DEF WriteExprRun
<1>2. ASSUME NEW i \in Nat, i \in T PROVE i + 1 \in T
  <2> SUFFICES ASSUME i + 1 <= n PROVE f[i + 1] = g[i + 1]
    OBVIOUS
  <2>1. /\ i + 1 \in 0 .. n /\ i + 1 \in 0 .. m /\ i + 1 # 0 /\ i + 1 \in 1 .. n /\ i <= n
        /\ (i + 1) - 1 = i
    OBVIOUS
  <2>2. f[i] = g[i] /\ e1[i + 1] = e2[i + 1]
    BY <1>2, <2>1 DEF SameUpTo
  <2> DEFINE next(s, h, k) == WriteToken(x, s[k], h[k - 1])
  <2>3. f[i + 1] = next(e1, f, i + 1) /\ g[i + 1] = next(e2, g, i + 1)
    BY <2>1 DEF WriteExprRun
  <2>4. next(e1, f, i + 1) = next(e2, g, i + 1)
    BY <2>1, <2>2
  <2> HIDE DEF next
  <2> QED BY <2>3, <2>4
<1> HIDE DEF T
<1>3. Nat \subseteq T
  BY <1>1, <1>2, Induction
<1> QED BY <1>3 DEF T

\* WriteExpr is what its run gives last.
LEMMA WriteExprIsLast ==
    ASSUME NEW x, NEW e, NEW w, NEW S, e \in Seq(S)
    PROVE  \E f : /\ WriteExprRun(x, e, w, Len(e), f)
                /\ WriteExpr(x, e, w) = f[Len(e)]
<1> DEFINE g == CHOOSE f : f = [i \in 0 .. Len(e) |->
                                IF i = 0 THEN [w |-> w, t |-> <<>>] ELSE WriteToken(x, e[i], f[i - 1])]
<1>1. WriteExprRun(x, e, w, Len(e), g)
  BY WriteExprRunExists, LenProperties DEF WriteExprRun
<1>2. WriteExpr(x, e, w) = g[Len(e)]
  BY DEF WriteExpr
<1> HIDE DEF g
<1> QED BY <1>1, <1>2

\* Without tokens nothing is written.
LEMMA WriteExprEmpty ==
    ASSUME NEW x, NEW w
    PROVE  WriteExpr(x, <<>>, w) = [w |-> w, t |-> <<>>]
<1> DEFINE none == <<>>
           S == {}
<1>1. none \in Seq(S)
  OBVIOUS
<1>4. Len(none) = 0
  OBVIOUS
<1> HIDE DEF none, S
<1>2. PICK f : /\ WriteExprRun(x, none, w, Len(none), f)
               /\ WriteExpr(x, none, w) = f[Len(none)]
  BY <1>1, WriteExprIsLast
<1>3. f[0] = [w |-> w, t |-> <<>>]
  BY <1>2, <1>4 DEF WriteExprRun
<1> QED BY <1>2, <1>3, <1>4 DEF none

\* One more token is written after the others: write_node walks the operands first.
LEMMA WriteExprAppend ==
    ASSUME NEW x, NEW w, NEW S, NEW e \in Seq(S), NEW one \in S
    PROVE  WriteExpr(x, Append(e, one), w) =
              WriteToken(x, one, WriteExpr(x, e, w))
<1> DEFINE n == Len(e)
           longer == Append(e, one)
<1>1. n \in Nat /\ longer \in Seq(S) /\ Len(longer) = n + 1 /\ longer[n + 1] = one
      /\ SameUpTo(n, e, longer)
  BY DEF SameUpTo
<1>2. PICK f : WriteExprRun(x, e, w, n, f) /\ WriteExpr(x, e, w) = f[n]
  BY WriteExprIsLast
<1>3. PICK g : /\ WriteExprRun(x, longer, w, n + 1, g)
               /\ WriteExpr(x, longer, w) = g[n + 1]
  <2> HIDE DEF longer
  <2> QED BY <1>1, WriteExprIsLast
<1>4. f[n] = g[n]
  <2>1. n + 1 \in Nat /\ n <= n + 1
    BY <1>1
  <2> HIDE DEF n, longer
  <2> QED BY <1>1, <1>2, <1>3, <2>1, WriteExprRunAgree
<1>5. g[n + 1] = WriteToken(x, one, g[n])
  <2>1. n + 1 \in 0 .. n + 1 /\ n + 1 # 0 /\ (n + 1) - 1 = n
    BY <1>1
  <2> HIDE DEF n, longer
  <2> QED BY <1>1, <1>3, <2>1 DEF WriteExprRun
<1> HIDE DEF n
<1> QED BY <1>2, <1>3, <1>4, <1>5

\* "f" holds what WriteAll has after each of the first n expressions.
WriteAllRun(x, es, w, n, f) ==
    f = [i \in 0 .. n |-> IF i = 0 THEN [w |-> w, t |-> <<>>] ELSE WriteNext(x, es[i], f[i - 1])]

LEMMA WriteAllRunExists ==
    ASSUME NEW x, NEW es, NEW w
    PROVE  \A n \in Nat : \E f : WriteAllRun(x, es, w, n, f)
<1> DEFINE T == {n \in Nat : \E f : WriteAllRun(x, es, w, n, f)}
<1>1. 0 \in T
  <2> DEFINE f == [i \in 0 .. 0 |-> [w |-> w, t |-> <<>>]]
  <2>1. f = [i \in 0 .. 0 |-> IF i = 0 THEN [w |-> w, t |-> <<>>] ELSE WriteNext(x, es[i], f[i - 1])]
    OBVIOUS
  <2> HIDE DEF f
  <2> QED BY <2>1 DEF WriteAllRun
<1>2. ASSUME NEW n \in Nat, n \in T PROVE n + 1 \in T
  <2>1. PICK h : WriteAllRun(x, es, w, n, h)
    BY <1>2
  <2> DEFINE next(f, i) == WriteNext(x, es[i], f[i - 1])
             f == [i \in 0 .. n + 1 |-> IF i <= n THEN h[i] ELSE next(h, i)]
  <2>2. ASSUME NEW i \in 0 .. n + 1
        PROVE  f[i] = IF i = 0 THEN [w |-> w, t |-> <<>>] ELSE next(f, i)
    BY <2>1 DEF WriteAllRun
  <2>3. f = [i \in 0 .. n + 1 |-> f[i]]
    OBVIOUS
  <2> HIDE DEF f
  <2>4. WriteAllRun(x, es, w, n + 1, f)
    BY <2>2, <2>3 DEF WriteAllRun
  <2> QED BY <2>4
<1> HIDE DEF T
<1>3. Nat \subseteq T
  BY <1>1, <1>2, Induction
<1> QED BY <1>3 DEF T

LEMMA WriteAllRunAgree ==
    ASSUME NEW x, NEW w, NEW es1, NEW es2,
           NEW n \in Nat, NEW m \in Nat, n <= m,
           NEW f, WriteAllRun(x, es1, w, n, f),
           NEW g, WriteAllRun(x, es2, w, m, g),
           SameUpTo(n, es1, es2)
    PROVE  f[n] = g[n]
<1> DEFINE T == {i \in Nat : i <= n => f[i] = g[i]}
<1>1. 0 \in T
  BY DEF WriteAllRun
<1>2. ASSUME NEW i \in Nat, i \in T PROVE i + 1 \in T
  <2> SUFFICES ASSUME i + 1 <= n PROVE f[i + 1] = g[i + 1]
    OBVIOUS
  <2>1. /\ i + 1 \in 0 .. n /\ i + 1 \in 0 .. m /\ i + 1 # 0 /\ i + 1 \in 1 .. n /\ i <= n
        /\ (i + 1) - 1 = i
    OBVIOUS
  <2>2. f[i] = g[i] /\ es1[i + 1] = es2[i + 1]
    BY <1>2, <2>1 DEF SameUpTo
  <2> DEFINE next(s, h, k) == WriteNext(x, s[k], h[k - 1])
  <2>3. f[i + 1] = next(es1, f, i + 1) /\ g[i + 1] = next(es2, g, i + 1)
    BY <2>1 DEF WriteAllRun
  <2>4. next(es1, f, i + 1) = next(es2, g, i + 1)
    BY <2>1, <2>2
  <2> HIDE DEF next
  <2> QED BY <2>3, <2>4
<1> HIDE DEF T
<1>3. Nat \subseteq T
  BY <1>1, <1>2, Induction
<1> QED BY <1>3 DEF T

\* WriteAll is what its run gives last.
LEMMA WriteAllIsLast ==
    ASSUME NEW x, NEW es, NEW w, NEW S, es \in Seq(S)
    PROVE  \E f : /\ WriteAllRun(x, es, w, Len(es), f)
                /\ WriteAll(x, es, w) = f[Len(es)]
<1> DEFINE g == CHOOSE f : f = [i \in 0 .. Len(es) |->
                                IF i = 0 THEN [w |-> w, t |-> <<>>] ELSE WriteNext(x, es[i], f[i - 1])]
<1>1. WriteAllRun(x, es, w, Len(es), g)
  BY WriteAllRunExists, LenProperties DEF WriteAllRun
<1>2. WriteAll(x, es, w) = g[Len(es)]
  BY DEF WriteAll
<1> HIDE DEF g
<1> QED BY <1>1, <1>2

LEMMA WriteAllEmpty ==
    ASSUME NEW x, NEW w
    PROVE  WriteAll(x, <<>>, w) = [w |-> w, t |-> <<>>]
<1> DEFINE none == <<>>
           S == {}
<1>1. none \in Seq(S)
  OBVIOUS
<1>4. Len(none) = 0
  OBVIOUS
<1> HIDE DEF none, S
<1>2. PICK f : /\ WriteAllRun(x, none, w, Len(none), f)
               /\ WriteAll(x, none, w) = f[Len(none)]
  BY <1>1, WriteAllIsLast
<1>3. f[0] = [w |-> w, t |-> <<>>]
  BY <1>2, <1>4 DEF WriteAllRun
<1> QED BY <1>2, <1>3, <1>4 DEF none

\* One more expression of a list is written after the others.
LEMMA WriteAllAppend ==
    ASSUME NEW x, NEW w, NEW S, NEW es \in Seq(S), NEW one \in S
    PROVE  WriteAll(x, Append(es, one), w) =
              WriteNext(x, one, WriteAll(x, es, w))
<1> DEFINE n == Len(es)
           longer == Append(es, one)
<1>1. n \in Nat /\ longer \in Seq(S) /\ Len(longer) = n + 1 /\ longer[n + 1] = one
      /\ SameUpTo(n, es, longer)
  BY DEF SameUpTo
<1>2. PICK f : WriteAllRun(x, es, w, n, f) /\ WriteAll(x, es, w) = f[n]
  BY WriteAllIsLast
<1>3. PICK g : /\ WriteAllRun(x, longer, w, n + 1, g)
               /\ WriteAll(x, longer, w) = g[n + 1]
  <2> HIDE DEF longer
  <2> QED BY <1>1, WriteAllIsLast
<1>4. f[n] = g[n]
  <2>1. n + 1 \in Nat /\ n <= n + 1
    BY <1>1
  <2> HIDE DEF n, longer
  <2> QED BY <1>1, <1>2, <1>3, <2>1, WriteAllRunAgree
<1>5. g[n + 1] = WriteNext(x, one, g[n])
  <2>1. n + 1 \in 0 .. n + 1 /\ n + 1 # 0 /\ (n + 1) - 1 = n
    BY <1>1
  <2> HIDE DEF n, longer
  <2> QED BY <1>1, <1>3, <2>1 DEF WriteAllRun
<1> HIDE DEF n
<1> QED BY <1>2, <1>3, <1>4, <1>5

\* "f" holds what Values has after each of the first n tokens.
ValuesRun(e, env, n, f) ==
    f = [i \in 0 .. n |-> IF i = 0 THEN <<>> ELSE Push(e[i], f[i - 1], env)]

LEMMA ValuesRunExists ==
    ASSUME NEW e, NEW env
    PROVE  \A n \in Nat : \E f : ValuesRun(e, env, n, f)
<1> DEFINE T == {n \in Nat : \E f : ValuesRun(e, env, n, f)}
<1>1. 0 \in T
  <2> DEFINE f == [i \in 0 .. 0 |-> <<>>]
  <2>1. f = [i \in 0 .. 0 |-> IF i = 0 THEN <<>> ELSE Push(e[i], f[i - 1], env)]
    OBVIOUS
  <2> HIDE DEF f
  <2> QED BY <2>1 DEF ValuesRun
<1>2. ASSUME NEW n \in Nat, n \in T PROVE n + 1 \in T
  <2>1. PICK h : ValuesRun(e, env, n, h)
    BY <1>2
  <2> DEFINE next(f, i) == Push(e[i], f[i - 1], env)
             f == [i \in 0 .. n + 1 |-> IF i <= n THEN h[i] ELSE next(h, i)]
  <2>2. ASSUME NEW i \in 0 .. n + 1
        PROVE  f[i] = IF i = 0 THEN <<>> ELSE next(f, i)
    BY <2>1 DEF ValuesRun
  <2>3. f = [i \in 0 .. n + 1 |-> f[i]]
    OBVIOUS
  <2> HIDE DEF f
  <2>4. ValuesRun(e, env, n + 1, f)
    BY <2>2, <2>3 DEF ValuesRun
  <2> QED BY <2>4
<1> HIDE DEF T
<1>3. Nat \subseteq T
  BY <1>1, <1>2, Induction
<1> QED BY <1>3 DEF T

LEMMA ValuesRunAgree ==
    ASSUME NEW env, NEW e1, NEW e2,
           NEW n \in Nat, NEW m \in Nat, n <= m,
           NEW f, ValuesRun(e1, env, n, f),
           NEW g, ValuesRun(e2, env, m, g),
           SameUpTo(n, e1, e2)
    PROVE  f[n] = g[n]
<1> DEFINE T == {i \in Nat : i <= n => f[i] = g[i]}
<1>1. 0 \in T
  BY DEF ValuesRun
<1>2. ASSUME NEW i \in Nat, i \in T PROVE i + 1 \in T
  <2> SUFFICES ASSUME i + 1 <= n PROVE f[i + 1] = g[i + 1]
    OBVIOUS
  <2>1. /\ i + 1 \in 0 .. n /\ i + 1 \in 0 .. m /\ i + 1 # 0 /\ i + 1 \in 1 .. n /\ i <= n
        /\ (i + 1) - 1 = i
    OBVIOUS
  <2>2. f[i] = g[i] /\ e1[i + 1] = e2[i + 1]
    BY <1>2, <2>1 DEF SameUpTo
  <2> DEFINE next(s, h, k) == Push(s[k], h[k - 1], env)
  <2>3. f[i + 1] = next(e1, f, i + 1) /\ g[i + 1] = next(e2, g, i + 1)
    BY <2>1 DEF ValuesRun
  <2>4. next(e1, f, i + 1) = next(e2, g, i + 1)
    BY <2>1, <2>2
  <2> HIDE DEF next
  <2> QED BY <2>3, <2>4
<1> HIDE DEF T
<1>3. Nat \subseteq T
  BY <1>1, <1>2, Induction
<1> QED BY <1>3 DEF T

\* The stack of values is what its run gives last.
LEMMA ValuesIsLast ==
    ASSUME NEW e, NEW env, NEW S, e \in Seq(S)
    PROVE  \E f : /\ ValuesRun(e, env, Len(e), f)
                /\ Values(e, env) = f[Len(e)]
<1> DEFINE g == CHOOSE f : f = [i \in 0 .. Len(e) |->
                                IF i = 0 THEN <<>> ELSE Push(e[i], f[i - 1], env)]
<1>1. ValuesRun(e, env, Len(e), g)
  BY ValuesRunExists, LenProperties DEF ValuesRun
<1>2. Values(e, env) = g[Len(e)]
  BY DEF Values
<1> HIDE DEF g
<1> QED BY <1>1, <1>2

LEMMA ValuesEmpty ==
    ASSUME NEW env
    PROVE  Values(<<>>, env) = <<>>
<1> DEFINE none == <<>>
           S == {}
<1>1. none \in Seq(S)
  OBVIOUS
<1>4. Len(none) = 0
  OBVIOUS
<1> HIDE DEF none, S
<1>2. PICK f : /\ ValuesRun(none, env, Len(none), f)
               /\ Values(none, env) = f[Len(none)]
  BY <1>1, ValuesIsLast
<1>3. f[0] = <<>>
  BY <1>2, <1>4 DEF ValuesRun
<1> QED BY <1>2, <1>3, <1>4 DEF none

\* One more token pops its operands and pushes what it is worth.
LEMMA ValuesAppend ==
    ASSUME NEW env, NEW S, NEW e \in Seq(S), NEW one \in S
    PROVE  Values(Append(e, one), env) =
              Push(one, Values(e, env), env)
<1> DEFINE n == Len(e)
           longer == Append(e, one)
<1>1. n \in Nat /\ longer \in Seq(S) /\ Len(longer) = n + 1 /\ longer[n + 1] = one
      /\ SameUpTo(n, e, longer)
  BY DEF SameUpTo
<1>2. PICK f : ValuesRun(e, env, n, f) /\ Values(e, env) = f[n]
  BY ValuesIsLast
<1>3. PICK g : /\ ValuesRun(longer, env, n + 1, g)
               /\ Values(longer, env) = g[n + 1]
  <2> HIDE DEF longer
  <2> QED BY <1>1, ValuesIsLast
<1>4. f[n] = g[n]
  <2>1. n + 1 \in Nat /\ n <= n + 1
    BY <1>1
  <2> HIDE DEF n, longer
  <2> QED BY <1>1, <1>2, <1>3, <2>1, ValuesRunAgree
<1>5. g[n + 1] = Push(one, g[n], env)
  <2>1. n + 1 \in 0 .. n + 1 /\ n + 1 # 0 /\ (n + 1) - 1 = n
    BY <1>1
  <2> HIDE DEF n, longer
  <2> QED BY <1>1, <1>3, <2>1 DEF ValuesRun
<1> HIDE DEF n
<1> QED BY <1>2, <1>3, <1>4, <1>5

\* "f" holds what Assigned has after each of the first n assignments.
AssignedRun(d, type, sets, r, o, params, n, f) ==
    f = [i \in 0 .. n |-> IF i = 0 THEN r ELSE Assign(d, type, sets[i], r, o, params, f[i - 1])]

LEMMA AssignedRunExists ==
    ASSUME NEW d, NEW type, NEW sets, NEW r, NEW o, NEW params
    PROVE  \A n \in Nat : \E f : AssignedRun(d, type, sets, r, o, params, n, f)
<1> DEFINE T == {n \in Nat : \E f : AssignedRun(d, type, sets, r, o, params, n, f)}
<1>1. 0 \in T
  <2> DEFINE f == [i \in 0 .. 0 |-> r]
  <2>1. f = [i \in 0 .. 0 |-> IF i = 0 THEN r ELSE Assign(d, type, sets[i], r, o, params, f[i - 1])]
    OBVIOUS
  <2> HIDE DEF f
  <2> QED BY <2>1 DEF AssignedRun
<1>2. ASSUME NEW n \in Nat, n \in T PROVE n + 1 \in T
  <2>1. PICK h : AssignedRun(d, type, sets, r, o, params, n, h)
    BY <1>2
  <2> DEFINE next(f, i) == Assign(d, type, sets[i], r, o, params, f[i - 1])
             f == [i \in 0 .. n + 1 |-> IF i <= n THEN h[i] ELSE next(h, i)]
  <2>2. ASSUME NEW i \in 0 .. n + 1
        PROVE  f[i] = IF i = 0 THEN r ELSE next(f, i)
    BY <2>1 DEF AssignedRun
  <2>3. f = [i \in 0 .. n + 1 |-> f[i]]
    OBVIOUS
  <2> HIDE DEF f
  <2>4. AssignedRun(d, type, sets, r, o, params, n + 1, f)
    BY <2>2, <2>3 DEF AssignedRun
  <2> QED BY <2>4
<1> HIDE DEF T
<1>3. Nat \subseteq T
  BY <1>1, <1>2, Induction
<1> QED BY <1>3 DEF T

\* The assignments of a SET list are done one after the other.
LEMMA AssignedIsLast ==
    ASSUME NEW d, NEW type, NEW sets, NEW r, NEW o, NEW params, NEW S, sets \in Seq(S)
    PROVE  \E f : /\ AssignedRun(d, type, sets, r, o, params, Len(sets), f)
                /\ Assigned(d, type, sets, r, o, params) = f[Len(sets)]
<1> DEFINE g == CHOOSE f : f = [i \in 0 .. Len(sets) |->
                                IF i = 0 THEN r ELSE Assign(d, type, sets[i], r, o, params, f[i - 1])]
<1>1. AssignedRun(d, type, sets, r, o, params, Len(sets), g)
  <2>1. \A n \in Nat : \E f : AssignedRun(d, type, sets, r, o, params, n, f)
    BY AssignedRunExists
  <2>2. \E f : AssignedRun(d, type, sets, r, o, params, Len(sets), f)
    BY <2>1, LenProperties
  <2> QED BY <2>2 DEF AssignedRun
<1>2. Assigned(d, type, sets, r, o, params) = g[Len(sets)]
  BY DEF Assigned
<1> HIDE DEF g
<1> QED BY <1>1, <1>2

\* "f" holds what WriteRows has after each of the first n rows.
WriteRowsRun(x, width, rows, w, n, f) ==
    f = [i \in 0 .. n |-> IF i = 0 THEN [w |-> w, t |-> <<>>] ELSE WriteRow(x, width, rows[i], f[i - 1])]

LEMMA WriteRowsRunExists ==
    ASSUME NEW x, NEW width, NEW rows, NEW w
    PROVE  \A n \in Nat : \E f : WriteRowsRun(x, width, rows, w, n, f)
<1> DEFINE T == {n \in Nat : \E f : WriteRowsRun(x, width, rows, w, n, f)}
<1>1. 0 \in T
  <2> DEFINE f == [i \in 0 .. 0 |-> [w |-> w, t |-> <<>>]]
  <2>1. f = [i \in 0 .. 0 |-> IF i = 0 THEN [w |-> w, t |-> <<>>] ELSE WriteRow(x, width, rows[i], f[i - 1])]
    OBVIOUS
  <2> HIDE DEF f
  <2> QED BY <2>1 DEF WriteRowsRun
<1>2. ASSUME NEW n \in Nat, n \in T PROVE n + 1 \in T
  <2>1. PICK h : WriteRowsRun(x, width, rows, w, n, h)
    BY <1>2
  <2> DEFINE next(f, i) == WriteRow(x, width, rows[i], f[i - 1])
             f == [i \in 0 .. n + 1 |-> IF i <= n THEN h[i] ELSE next(h, i)]
  <2>2. ASSUME NEW i \in 0 .. n + 1
        PROVE  f[i] = IF i = 0 THEN [w |-> w, t |-> <<>>] ELSE next(f, i)
    BY <2>1 DEF WriteRowsRun
  <2>3. f = [i \in 0 .. n + 1 |-> f[i]]
    OBVIOUS
  <2> HIDE DEF f
  <2>4. WriteRowsRun(x, width, rows, w, n + 1, f)
    BY <2>2, <2>3 DEF WriteRowsRun
  <2> QED BY <2>4
<1> HIDE DEF T
<1>3. Nat \subseteq T
  BY <1>1, <1>2, Induction
<1> QED BY <1>3 DEF T

LEMMA WriteRowsRunAgree ==
    ASSUME NEW x, NEW width, NEW w, NEW rows1, NEW rows2,
           NEW n \in Nat, NEW m \in Nat, n <= m,
           NEW f, WriteRowsRun(x, width, rows1, w, n, f),
           NEW g, WriteRowsRun(x, width, rows2, w, m, g),
           SameUpTo(n, rows1, rows2)
    PROVE  f[n] = g[n]
<1> DEFINE T == {i \in Nat : i <= n => f[i] = g[i]}
<1>1. 0 \in T
  BY DEF WriteRowsRun
<1>2. ASSUME NEW i \in Nat, i \in T PROVE i + 1 \in T
  <2> SUFFICES ASSUME i + 1 <= n PROVE f[i + 1] = g[i + 1]
    OBVIOUS
  <2>1. /\ i + 1 \in 0 .. n /\ i + 1 \in 0 .. m /\ i + 1 # 0 /\ i + 1 \in 1 .. n /\ i <= n
        /\ (i + 1) - 1 = i
    OBVIOUS
  <2>2. f[i] = g[i] /\ rows1[i + 1] = rows2[i + 1]
    BY <1>2, <2>1 DEF SameUpTo
  <2> DEFINE next(s, h, k) == WriteRow(x, width, s[k], h[k - 1])
  <2>3. f[i + 1] = next(rows1, f, i + 1) /\ g[i + 1] = next(rows2, g, i + 1)
    BY <2>1 DEF WriteRowsRun
  <2>4. next(rows1, f, i + 1) = next(rows2, g, i + 1)
    BY <2>1, <2>2
  <2> HIDE DEF next
  <2> QED BY <2>3, <2>4
<1> HIDE DEF T
<1>3. Nat \subseteq T
  BY <1>1, <1>2, Induction
<1> QED BY <1>3 DEF T

\* WriteRows is what its run gives last.
LEMMA WriteRowsIsLast ==
    ASSUME NEW x, NEW width, NEW rows, NEW w, NEW S, rows \in Seq(S)
    PROVE  \E f : /\ WriteRowsRun(x, width, rows, w, Len(rows), f)
                /\ WriteRows(x, width, rows, w) = f[Len(rows)]
<1> DEFINE g == CHOOSE f : f = [i \in 0 .. Len(rows) |->
                                IF i = 0 THEN [w |-> w, t |-> <<>>] ELSE WriteRow(x, width, rows[i], f[i - 1])]
<1>1. WriteRowsRun(x, width, rows, w, Len(rows), g)
  BY WriteRowsRunExists, LenProperties DEF WriteRowsRun
<1>2. WriteRows(x, width, rows, w) = g[Len(rows)]
  BY DEF WriteRows
<1> HIDE DEF g
<1> QED BY <1>1, <1>2

LEMMA WriteRowsEmpty ==
    ASSUME NEW x, NEW width, NEW w
    PROVE  WriteRows(x, width, <<>>, w) = [w |-> w, t |-> <<>>]
<1> DEFINE none == <<>>
           S == {}
<1>1. none \in Seq(S)
  OBVIOUS
<1>4. Len(none) = 0
  OBVIOUS
<1> HIDE DEF none, S
<1>2. PICK f : /\ WriteRowsRun(x, width, none, w, Len(none), f)
               /\ WriteRows(x, width, none, w) = f[Len(none)]
  BY <1>1, WriteRowsIsLast
<1>3. f[0] = [w |-> w, t |-> <<>>]
  BY <1>2, <1>4 DEF WriteRowsRun
<1> QED BY <1>2, <1>3, <1>4 DEF none

\* One more row of VALUES is written after the others.
LEMMA WriteRowsAppend ==
    ASSUME NEW x, NEW width, NEW w, NEW S, NEW rows \in Seq(S), NEW one \in S
    PROVE  WriteRows(x, width, Append(rows, one), w) =
              WriteRow(x, width, one, WriteRows(x, width, rows, w))
<1> DEFINE n == Len(rows)
           longer == Append(rows, one)
<1>1. n \in Nat /\ longer \in Seq(S) /\ Len(longer) = n + 1 /\ longer[n + 1] = one
      /\ SameUpTo(n, rows, longer)
  BY DEF SameUpTo
<1>2. PICK f : WriteRowsRun(x, width, rows, w, n, f) /\ WriteRows(x, width, rows, w) = f[n]
  BY WriteRowsIsLast
<1>3. PICK g : /\ WriteRowsRun(x, width, longer, w, n + 1, g)
               /\ WriteRows(x, width, longer, w) = g[n + 1]
  <2> HIDE DEF longer
  <2> QED BY <1>1, WriteRowsIsLast
<1>4. f[n] = g[n]
  <2>1. n + 1 \in Nat /\ n <= n + 1
    BY <1>1
  <2> HIDE DEF n, longer
  <2> QED BY <1>1, <1>2, <1>3, <2>1, WriteRowsRunAgree
<1>5. g[n + 1] = WriteRow(x, width, one, g[n])
  <2>1. n + 1 \in 0 .. n + 1 /\ n + 1 # 0 /\ (n + 1) - 1 = n
    BY <1>1
  <2> HIDE DEF n, longer
  <2> QED BY <1>1, <1>3, <2>1 DEF WriteRowsRun
<1> HIDE DEF n
<1> QED BY <1>2, <1>3, <1>4, <1>5

-----------------------------------------------------------------------------
(* Tokens, and those among them that bind a parameter.                     *)

\* The expressions that closures, sources and projections may give.
MenuExprs ==
    (UNION {UNION {Assignable[c] \cup SetExprs[c] \cup JoinedExprs[c] : c \in s.columns} : s \in Schemas})
    \cup (UNION {Predicates[stage] : stage \in {"set", "write", "delete"}}) \cup JoinedPredicates
    \cup (UNION {Range(s.exprs) \cup Range(s.filters) : s \in Sources})
    \cup (UNION {Range(p) : p \in Projections})
\* Where a runtime parameter is written: the call, the expression of it, the token.
Places == Nat \X Nat \X Nat
\* The tokens of the program: those of its expressions, and its runtime parameters.
Tokens ==
    {token \in UNION {Range(e) : e \in MenuExprs} : OfProgram(token)} \cup {Param(place) : place \in Places}

\* What the program writes: see IsExpression.
Exprs == {e \in Seq(Tokens) : e # <<>> /\ e[1].arity = 0}

\* None of them is a token that only a renderer writes.
LEMMA TokensAreOfProgram == \A token \in Tokens : OfProgram(token)
BY DEF Param, OfProgram, Tokens

\* What a menu offers is written in tokens of the program.
LEMMA MenuIsOfExprs ==
    ASSUME NEW e \in MenuExprs, IsExpression(e)
    PROVE  e \in Exprs
BY FunctionIsSequence DEF IsExpression, Tokens, Range, Exprs

\* The tokens that a renderer writes as a placeholder.
IsBinder(token) == token.op \in {"lit", "param"}
Binding == {token \in Tokens : IsBinder(token)}
Runtime == {token \in Tokens : token.op = "param"}
\* The tokens of e that are bound, and the runtime parameters among them, in order.
Binders(e) == Among(e, Binding)
ParamsIn(e) == Among(e, Runtime)

\* One more token is bound or not.
LEMMA BindersAppend ==
    ASSUME NEW e \in Seq(Tokens), NEW token \in Tokens
    PROVE  /\ IsBinder(token) => Binders(Append(e, token)) = Append(Binders(e), token)
           /\ ~ IsBinder(token) => Binders(Append(e, token)) = Binders(e)
           /\ token.op = "param" => ParamsIn(Append(e, token)) = Append(ParamsIn(e), token)
           /\ token.op # "param" => ParamsIn(Append(e, token)) = ParamsIn(e)
           /\ Binders(e) \in Seq(Tokens) /\ ParamsIn(e) \in Seq(Tokens)
BY AmongOneMore DEF Binders, ParamsIn, Binding, Runtime

\* The parameters of a list are those of its expressions, one after the other.
LEMMA ParamsOfIs ==
    ASSUME NEW es \in Seq(Seq(Tokens))
    PROVE  ParamsOf(es) = ParamsIn(FlattenSeq(es))
<1> DEFINE s == FlattenSeq(es)
<1>1. s \in Seq(Tokens)
  BY FlattenIsSequence
<1>2. ParamsOf(es) = FlattenSeq([i \in DOMAIN s |-> IF s[i].op = "param" THEN <<s[i]>> ELSE <<>>])
  BY DEF ParamsOf
<1> HIDE DEF s
<1>3. \A i \in DOMAIN s : s[i] \in Runtime <=> s[i].op = "param"
  BY <1>1 DEF Runtime
<1>4. [i \in DOMAIN s |-> IF s[i].op = "param" THEN <<s[i]>> ELSE <<>>] =
      [i \in DOMAIN s |-> IF s[i] \in Runtime THEN <<s[i]>> ELSE <<>>]
  BY <1>3
<1> QED BY <1>2, <1>4 DEF s, ParamsIn, Among

-----------------------------------------------------------------------------
(* The renderer's state after the tokens e were written: the counters, and *)
(* a bind for every placeholder, in order.                                 *)

Binds ==
    {[k |-> "static", v |-> token.v] : token \in Tokens} \cup {[k |-> "runtime", n |-> i] : i \in Nat}
\* The counters and binds of a Renderer, and its two ways to fail.
RendererStates == [next : Nat, runtime : Nat, binds : Seq(Binds), error : BOOLEAN, reject : BOOLEAN]

\* Neither has failed unless the other has.
Alike(v, w) == (v.error <=> w.error) /\ (v.reject <=> w.reject)

\* What each change of the renderer leaves of its state.
LEMMA StateNext ==
    ASSUME NEW w \in RendererStates
    PROVE  LET v == [w EXCEPT !.next = @ + 1]
           IN  /\ v \in RendererStates /\ v.next = w.next + 1 /\ v.runtime = w.runtime
               /\ v.binds = w.binds /\ Alike(v, w)
BY DEF RendererStates, Alike

LEMMA StateError ==
    ASSUME NEW w \in RendererStates
    PROVE  LET v == [w EXCEPT !.error = TRUE]
           IN  /\ v \in RendererStates /\ v.next = w.next /\ v.runtime = w.runtime
               /\ v.error /\ (v.reject <=> w.reject)
BY DEF RendererStates

LEMMA StateBind ==
    ASSUME NEW w \in RendererStates, NEW b \in Binds
    PROVE  LET v == [w EXCEPT !.binds = Append(@, b)]
           IN  /\ v \in RendererStates /\ v.next = w.next /\ v.runtime = w.runtime
               /\ v.binds = Append(w.binds, b) /\ Alike(v, w)
BY DEF RendererStates, Alike

LEMMA StateRuntime ==
    ASSUME NEW w \in RendererStates
    PROVE  LET v == [w EXCEPT !.runtime = @ + 1]
           IN  /\ v \in RendererStates /\ v.next = w.next /\ v.runtime = w.runtime + 1
               /\ v.binds = w.binds /\ Alike(v, w)
BY DEF RendererStates, Alike

\* The bind of a literal is its value, that of a runtime parameter its index among them.
BindOf(bind, token, params) ==
    \/ token.op = "lit" /\ bind.k = "static" /\ bind.v = token.v
    \/ /\ token.op = "param" /\ bind.k = "runtime"
       /\ bind.n + 1 \in 1 .. Len(params) /\ params[bind.n + 1] = token

\* There is a bind for every token that is bound, in the order of the tokens.
KeepsBinds(binds, e) ==
    /\ Len(binds) = Len(Binders(e))
    /\ \A j \in 1 .. Len(Binders(e)) : BindOf(binds[j], Binders(e)[j], ParamsIn(e))

\* A literal that the backend cannot encode.
Unencodable(d, e) == \E token \in Range(e) : token.op = "lit" /\ ~ Encodes(d, token.v)

\* The sinks that collect binds: those of prepare, and of a statement without parameters.
Collects(x, e) == x.sink = "prepared" \/ (x.sink = "params" /\ ParamsIn(e) = <<>>)

\* The renderer after e: a placeholder for every token that is bound, in order, numbered with no
\* gap; an error exactly for a literal that does not encode; otherwise the binds.
Carries(x, e, w) ==
    /\ w \in RendererStates
    /\ ~ w.reject
    /\ w.next = Len(Binders(e))
    /\ w.runtime = Len(ParamsIn(e))
    /\ x.sink = "text" => ~ w.error
    /\ x.sink # "text" => (w.error <=> Unencodable(x.d, e))
    /\ Collects(x, e) /\ ~ w.error => KeepsBinds(w.binds, e)

\* One more literal that it cannot encode is one too many.
LEMMA UnencodableAppend ==
    ASSUME NEW d, NEW e \in Seq(Tokens), NEW token \in Tokens
    PROVE  Unencodable(d, Append(e, token)) <=>
              Unencodable(d, e) \/ (token.op = "lit" /\ ~ Encodes(d, token.v))
BY RangeOfAppend DEF Unencodable

\* A fresh renderer has written nothing.
LEMMA CarriesNothing ==
    ASSUME NEW x, x.sink \in {"text", "params", "prepared"}
    PROVE  Carries(x, <<>>, Fresh)
BY AmongNothing DEF Binders, ParamsIn, Fresh, RendererStates, Unencodable, Range, KeepsBinds, Carries

\* One more token, and its bind.
LEMMA KeepsBindsAppend ==
    ASSUME NEW e \in Seq(Tokens), NEW token \in Tokens, NEW binds \in Seq(Binds), NEW bind \in Binds,
           KeepsBinds(binds, e), IsBinder(token),
           BindOf(bind, token, ParamsIn(Append(e, token)))
    PROVE  KeepsBinds(Append(binds, bind), Append(e, token))
<1> DEFINE longer == Append(e, token)
           more == Append(binds, bind)
<1>1. Binders(longer) = Append(Binders(e), token) /\ Binders(e) \in Seq(Tokens) /\ ParamsIn(e) \in Seq(Tokens)
  BY BindersAppend
<1>2. ParamsIn(longer) = ParamsIn(e) \/ ParamsIn(longer) = Append(ParamsIn(e), token)
  BY BindersAppend
<1>3. Len(binds) = Len(Binders(e))
  BY DEF KeepsBinds
<1>4. ASSUME NEW j \in 1 .. Len(Binders(e))
      PROVE  BindOf(more[j], Binders(longer)[j], ParamsIn(longer))
  <2>1. BindOf(binds[j], Binders(e)[j], ParamsIn(e))
    BY DEF KeepsBinds
  <2>2. more[j] = binds[j] /\ Binders(longer)[j] = Binders(e)[j]
    BY <1>1, <1>3
  <2>3. \A i \in 1 .. Len(ParamsIn(e)) : i \in 1 .. Len(ParamsIn(longer)) /\ ParamsIn(longer)[i] = ParamsIn(e)[i]
    <3>1. ParamsIn(e) \in Seq(Tokens)
      BY <1>1
    <3>2. ASSUME ParamsIn(longer) = ParamsIn(e)
          PROVE  \A i \in 1 .. Len(ParamsIn(e)) :
                    i \in 1 .. Len(ParamsIn(longer)) /\ ParamsIn(longer)[i] = ParamsIn(e)[i]
      BY <3>1, <3>2
    <3>3. ASSUME ParamsIn(longer) = Append(ParamsIn(e), token)
          PROVE  \A i \in 1 .. Len(ParamsIn(e)) :
                    i \in 1 .. Len(ParamsIn(longer)) /\ ParamsIn(longer)[i] = ParamsIn(e)[i]
      BY <3>1, <3>3
    <3> QED BY <1>2, <3>2, <3>3
  <2> HIDE DEF more, longer
  <2> QED BY <2>1, <2>2, <2>3 DEF BindOf
<1>5. /\ more[Len(binds) + 1] = bind
      /\ Binders(longer)[Len(binds) + 1] = token
      /\ Len(more) = Len(binds) + 1 /\ Len(Binders(longer)) = Len(binds) + 1
  BY <1>1, <1>3
<1>6. \A j \in 1 .. Len(binds) + 1 : j \in 1 .. Len(binds) \/ j = Len(binds) + 1
  OBVIOUS
<1> HIDE DEF more
<1>7. BindOf(bind, token, ParamsIn(longer))
  OBVIOUS
<1> HIDE DEF longer
<1>8. \A j \in 1 .. Len(Binders(longer)) : BindOf(more[j], Binders(longer)[j], ParamsIn(longer))
  BY <1>3, <1>4, <1>5, <1>6, <1>7
<1> QED BY <1>5, <1>8 DEF KeepsBinds, more, longer

\* Whatever the next token is and whichever the sink, the renderer keeps up with it.
LEMMA CarriesToken ==
    ASSUME NEW x, x.sink \in {"text", "params", "prepared"},
           NEW e \in Seq(Tokens), NEW token \in Tokens, NEW s, Carries(x, e, s.w)
    PROVE  Carries(x, Append(e, token), WriteToken(x, token, s).w)
<1> DEFINE longer == Append(e, token)
           w == s.w
           v == WriteToken(x, token, s).w
<1>1. w \in RendererStates /\ Carries(x, e, w)
  BY DEF Carries
<1>2. longer \in Seq(Tokens) /\ Binders(e) \in Seq(Tokens) /\ ParamsIn(e) \in Seq(Tokens)
  BY BindersAppend
<1>3. CASE token.op = "lit"
  <2>1. Binders(longer) = Append(Binders(e), token) /\ ParamsIn(longer) = ParamsIn(e)
    BY <1>3, BindersAppend DEF IsBinder
  <2>2. v = [PushBind(x, token.v, w) EXCEPT !.next = @ + 1]
    BY <1>3 DEF WriteToken, Placeholder
  <2>3. Unencodable(x.d, longer) <=> Unencodable(x.d, e) \/ ~ Encodes(x.d, token.v)
    BY <1>3, UnencodableAppend
  <2>4. Collects(x, longer) <=> Collects(x, e)
    BY <2>1 DEF Collects
  <2> HIDE DEF v, w
  <2>5. CASE x.sink = "text" \/ w.error
    <3>1. v = [w EXCEPT !.next = @ + 1]
      BY <2>2, <2>5 DEF PushBind
    <3>2. /\ v \in RendererStates /\ v.next = w.next + 1 /\ v.runtime = w.runtime
          /\ Alike(v, w)
      BY <1>1, <3>1, StateNext
    <3> HIDE DEF longer
    <3>3. x.sink = "text" => ~ Collects(x, longer)
      BY DEF Collects
    <3> QED BY <1>1, <1>2, <2>1, <2>3, <2>5, <3>2, <3>3 DEF Carries, Alike, longer, v
  <2>6. CASE x.sink # "text" /\ ~ w.error /\ ~ Encodes(x.d, token.v)
    <3> DEFINE u == [w EXCEPT !.error = TRUE]
    <3>1. v = [u EXCEPT !.next = @ + 1]
      BY <2>2, <2>6 DEF PushBind
    <3>2. u \in RendererStates /\ u.next = w.next /\ u.runtime = w.runtime /\ u.error /\ (u.reject <=> w.reject)
      BY <1>1, StateError
    <3> HIDE DEF u
    <3>3. v \in RendererStates /\ v.next = u.next + 1 /\ v.runtime = u.runtime /\ Alike(v, u)
      BY <3>1, <3>2, StateNext
    <3> HIDE DEF longer
    <3> QED BY <1>1, <1>2, <2>1, <2>3, <2>6, <3>2, <3>3 DEF Carries, Alike, longer, v
  <2>7. CASE x.sink # "text" /\ ~ w.error /\ Encodes(x.d, token.v)
    <3> DEFINE bind == [k |-> "static", v |-> token.v]
               u == [w EXCEPT !.binds = Append(@, bind)]
    <3>1. v = [u EXCEPT !.next = @ + 1]
      BY <2>2, <2>7 DEF PushBind
    <3>2. bind \in Binds /\ w.binds \in Seq(Binds)
      BY <1>1 DEF Binds, RendererStates
    <3>3. BindOf(bind, token, ParamsIn(longer))
      BY <1>3 DEF BindOf
    <3> HIDE DEF bind
    <3>4. /\ u \in RendererStates /\ u.next = w.next /\ u.runtime = w.runtime
          /\ u.binds = Append(w.binds, bind) /\ Alike(u, w)
      BY <1>1, <3>2, StateBind
    <3> HIDE DEF u
    <3>5. /\ v \in RendererStates /\ v.next = u.next + 1 /\ v.runtime = u.runtime /\ v.binds = u.binds
          /\ Alike(v, u)
      BY <3>1, <3>4, StateNext
    <3>6. KeepsBinds(w.binds, e) => KeepsBinds(v.binds, longer)
      BY <1>3, <3>2, <3>3, <3>4, <3>5, KeepsBindsAppend DEF IsBinder
    <3> HIDE DEF longer
    <3> QED BY <1>1, <1>2, <2>1, <2>3, <2>4, <2>7, <3>4, <3>5, <3>6 DEF Carries, Alike, longer, v
  <2> QED BY <2>5, <2>6, <2>7
<1>4. CASE token.op = "param"
  <2>1. Binders(longer) = Append(Binders(e), token) /\ ParamsIn(longer) = Append(ParamsIn(e), token)
    BY <1>4, BindersAppend DEF IsBinder
  <2>2. v = [PushRuntime(x, w) EXCEPT !.next = @ + 1]
    BY <1>4 DEF WriteToken, Placeholder
  <2>3. Unencodable(x.d, longer) <=> Unencodable(x.d, e)
    BY <1>4, UnencodableAppend
  <2>4. Collects(x, longer) => x.sink = "prepared"
    BY <1>2, <2>1 DEF Collects
  <2> DEFINE bind == [k |-> "runtime", n |-> w.runtime]
  <2>5. bind \in Binds /\ w.binds \in Seq(Binds) /\ w.runtime \in Nat
    BY <1>1 DEF Binds, RendererStates
  <2> HIDE DEF v, w
  <2>6. /\ v \in RendererStates /\ v.next = w.next + 1 /\ v.runtime = w.runtime + 1 /\ Alike(v, w)
        /\ x.sink = "prepared" => v.binds = Append(w.binds, bind)
    <3> DEFINE u == [w EXCEPT !.runtime = @ + 1]
               y == [u EXCEPT !.binds = Append(@, bind)]
    <3>1. x.sink = "prepared" => v = [y EXCEPT !.next = @ + 1]
      BY <2>2 DEF PushRuntime
    <3>2. x.sink # "prepared" => v = [u EXCEPT !.next = @ + 1]
      BY <2>2 DEF PushRuntime
    <3> HIDE DEF bind
    <3>3. /\ u \in RendererStates /\ u.next = w.next /\ u.runtime = w.runtime + 1
          /\ u.binds = w.binds /\ Alike(u, w)
      BY <1>1, StateRuntime
    <3> HIDE DEF u
    <3>4. /\ y \in RendererStates /\ y.next = u.next /\ y.runtime = u.runtime
          /\ y.binds = Append(u.binds, bind) /\ Alike(y, u)
      BY <2>5, <3>3, StateBind
    <3> HIDE DEF y
    <3>5. CASE x.sink = "prepared"
      <4>1. v \in RendererStates /\ v.next = y.next + 1 /\ v.runtime = y.runtime /\ v.binds = y.binds /\ Alike(v, y)
        BY <3>1, <3>4, <3>5, StateNext
      <4> QED BY <3>3, <3>4, <4>1 DEF Alike
    <3>6. CASE x.sink # "prepared"
      <4>1. v \in RendererStates /\ v.next = u.next + 1 /\ v.runtime = u.runtime /\ v.binds = u.binds /\ Alike(v, u)
        BY <3>2, <3>3, <3>6, StateNext
      <4> QED BY <3>3, <3>6, <4>1 DEF Alike
    <3> QED BY <3>5, <3>6
  <2>7. w.runtime = Len(ParamsIn(e))
    BY <1>1 DEF Carries
  <2>8. BindOf(bind, token, ParamsIn(longer))
    BY <1>2, <2>7, <1>4, <2>1 DEF BindOf
  <2> HIDE DEF bind
  <2>9. x.sink = "prepared" /\ KeepsBinds(w.binds, e) => KeepsBinds(v.binds, longer)
    BY <1>4, <2>5, <2>6, <2>8, KeepsBindsAppend DEF IsBinder
  <2>10. x.sink = "prepared" => Collects(x, e)
    BY DEF Collects
  <2> HIDE DEF longer
  <2> QED BY <1>1, <1>2, <2>1, <2>3, <2>4, <2>6, <2>7, <2>9, <2>10 DEF Carries, Alike, longer, v
<1>5. CASE ~ IsBinder(token)
  <2>1. Binders(longer) = Binders(e) /\ ParamsIn(longer) = ParamsIn(e)
    BY <1>5, BindersAppend DEF IsBinder
  <2>2. v = w
    BY <1>5 DEF WriteToken, IsBinder
  <2>3. Unencodable(x.d, longer) <=> Unencodable(x.d, e)
    BY <1>5, UnencodableAppend DEF IsBinder
  <2>4. Collects(x, longer) <=> Collects(x, e)
    BY <2>1 DEF Collects
  <2>5. KeepsBinds(w.binds, e) => KeepsBinds(w.binds, longer)
    BY <2>1 DEF KeepsBinds
  <2> HIDE DEF v, w, longer
  <2> QED BY <1>1, <2>1, <2>2, <2>3, <2>4, <2>5 DEF Carries, longer, v
<1> QED BY <1>3, <1>4, <1>5 DEF IsBinder

-----------------------------------------------------------------------------
(* What tokens are worth.                                                  *)

\* A stack of values.
IsStack(v) == \E S : v \in Seq(S)

LEMMA StackStart ==
    ASSUME NEW S, NEW v \in Seq(S), NEW k \in Int, k <= Len(v)
    PROVE  /\ SubSeq(v, 1, k) \in Seq(S)
           /\ Len(SubSeq(v, 1, k)) = IF k >= 0 THEN k ELSE 0
           /\ \A i \in 1 .. k : SubSeq(v, 1, k)[i] = v[i]
<1>1. Len(v) \in Nat /\ DOMAIN v = 1 .. Len(v)
  BY LenProperties
<1>2. \A i \in 1 .. k : v[i] \in S /\ 1 + i - 1 = i
  BY <1>1, ElementOfSeq
<1>3. 1 \in Int
  OBVIOUS
<1>4. /\ SubSeq(v, 1, k) \in Seq(S)
      /\ Len(SubSeq(v, 1, k)) = IF 1 <= k THEN k - 1 + 1 ELSE 0
      /\ \A i \in 1 .. k - 1 + 1 : SubSeq(v, 1, k)[i] = v[1 + i - 1]
  BY <1>2, <1>3, SubSeqProperties
<1> HIDE DEF IsStack
<1>5. k - 1 + 1 = k /\ (~ (1 <= k) => k <= 0)
  OBVIOUS
<1> QED BY <1>2, <1>4, <1>5

\* A token leaves a stack: short by its operands, longer by its value.
LEMMA PushIsStack ==
    ASSUME NEW token, token.arity \in Nat, NEW v, IsStack(v), NEW env
    PROVE  /\ IsStack(Push(token, v, env))
           /\ Len(Push(token, v, env)) =
                 IF token.arity <= Len(v) THEN Len(v) - token.arity + 1 ELSE 1
<1>1. PICK S : v \in Seq(S)
  BY DEF IsStack
<1> DEFINE rest == Len(v) - token.arity
           one == Worth(token, SubSeq(v, rest + 1, Len(v)), env)
           U == S \cup {one}
<1>2. Len(v) \in Nat /\ v \in Seq(U) /\ one \in U
  BY <1>1, LenProperties
<1>3. rest \in Int /\ rest <= Len(v)
  BY <1>2
<1>4. Push(token, v, env) = Append(SubSeq(v, 1, rest), one)
  BY DEF Push
<1> HIDE DEF one, U
<1>5. SubSeq(v, 1, rest) \in Seq(U) /\ Len(SubSeq(v, 1, rest)) = IF rest >= 0 THEN rest ELSE 0
  BY <1>2, <1>3, StackStart
<1> DEFINE start == SubSeq(v, 1, rest)
<1> HIDE DEF start
<1>6. Append(start, one) \in Seq(U) /\ Len(Append(start, one)) = Len(start) + 1
  BY <1>2, <1>5, AppendProperties DEF start
<1>7. Len(start) = IF rest >= 0 THEN rest ELSE 0
  BY <1>5 DEF start
<1>8. IF token.arity <= Len(v) THEN rest >= 0 ELSE ~ (rest >= 0)
  BY <1>2
<1>9. Push(token, v, env) = Append(start, one)
  BY <1>4 DEF start
<1> HIDE DEF rest
<1>10. Len(Push(token, v, env)) = IF token.arity <= Len(v) THEN rest + 1 ELSE 1
  BY <1>6, <1>7, <1>8, <1>9
<1>11. IsStack(Push(token, v, env))
  BY <1>6, <1>9 DEF IsStack
<1> QED BY <1>10, <1>11 DEF rest

\* Operands and operator of the three tokens that stand for an empty list.
LEMMA LeafIsPushed ==
    ASSUME NEW S, NEW v \in Seq(S), NEW token, token.arity = 0, NEW env
    PROVE  Push(token, v, env) = Append(v, Worth(token, <<>>, env))
<1>1. Len(v) \in Nat /\ Len(v) - 0 = Len(v)
  BY LenProperties
<1>2. SubSeq(v, 1, Len(v)) = v
  BY SubSeqFull
<1>3. SubSeq(v, Len(v) + 1, Len(v)) = <<>>
  BY <1>1, SubSeqEmpty
<1> QED BY <1>1, <1>2, <1>3 DEF Push

\* What one operand, and what two operands of a connective, leave.
LEMMA UnaryIsPushed ==
    ASSUME NEW S, NEW v \in Seq(S), Len(v) >= 1, NEW env, NEW token, token.arity = 1
    PROVE  Push(token, v, env) =
              Append(SubSeq(v, 1, Len(v) - 1), Worth(token, SubSeq(v, Len(v), Len(v)), env))
BY LenProperties DEF Push

LEMMA BinaryIsPushed ==
    ASSUME NEW S, NEW v \in Seq(S), NEW a \in S, NEW b \in S, NEW env, NEW token, token.arity = 2,
           token.op \in {"and", "or"}
    PROVE  Push(token, Append(Append(v, a), b), env) = Append(v, Apply(token.op, <<a, b>>))
<1> DEFINE u == Append(Append(v, a), b)
           n == Len(v)
<1>1. /\ u \in Seq(S) /\ n \in Nat /\ Len(u) = n + 2 /\ u[n + 1] = a /\ u[n + 2] = b
      /\ \A i \in 1 .. n : u[i] = v[i]
  OBVIOUS
<1> HIDE DEF u, n
<1>2. SubSeq(u, 1, n) = v
  BY <1>1, StackStart, SeqEqual DEF n
<1>3. SubSeq(u, n + 1, n + 2) = <<a, b>>
  <2>1. n + 1 \in Int /\ n + 2 \in Int /\ n + 1 <= n + 2 /\ (n + 2) - (n + 1) + 1 = 2
        /\ \A i \in n + 1 .. n + 2 : u[i] \in S
    BY <1>1
  <2> DEFINE t == SubSeq(u, n + 1, n + 2)
             pair == <<a, b>>
  <2>2. /\ t \in Seq(S) /\ Len(t) = 2
        /\ \A i \in 1 .. 2 : t[i] = u[(n + 1) + i - 1]
    <3> DEFINE first == n + 1
               last == n + 2
    <3>1. first \in Int /\ last \in Int /\ first <= last /\ last - first + 1 = 2
          /\ \A i \in first .. last : u[i] \in S
      BY <2>1
    <3> HIDE DEF first, last
    <3>2. /\ SubSeq(u, first, last) \in Seq(S) /\ Len(SubSeq(u, first, last)) = 2
          /\ \A i \in 1 .. 2 : SubSeq(u, first, last)[i] = u[first + i - 1]
      BY <3>1, SubSeqProperties
    <3> QED BY <3>2 DEF first, last
  <2> HIDE DEF t
  <2>3. t[1] = a /\ t[2] = b
    BY <1>1, <2>2
  <2>4. pair \in Seq(S) /\ Len(pair) = 2 /\ pair[1] = a /\ pair[2] = b
    OBVIOUS
  <2> HIDE DEF pair
  <2>5. \A i \in 1 .. Len(pair) : t[i] = pair[i]
    BY <2>3, <2>4
  <2>6. t = pair
    BY <2>2, <2>4, <2>5, SeqEqual
  <2> QED BY <2>6 DEF t, pair
<1>4. Worth(token, <<a, b>>, env) = Apply(token.op, <<a, b>>)
  BY DEF Worth
<1>5. Len(u) - token.arity = n
  BY <1>1
<1>6. Push(token, u, env) = Append(SubSeq(u, 1, n), Worth(token, SubSeq(u, n + 1, n + 2), env))
  BY <1>1, <1>5 DEF Push
<1> QED BY <1>2, <1>3, <1>4, <1>6 DEF u

\* Whether the last value is null, then a constant, then a connective of both.
LEMMA GuardIsPushed ==
    ASSUME NEW S, NEW v \in Seq(S), v # <<>>, NEW env, NEW truth, truth.arity = 0,
           NEW both, both.arity = 2, both.op \in {"and", "or"}
    PROVE  \E asked \in BOOLEAN :
              Push(both, Push(truth, Push(Token("isnotnull", 1), v, env), env), env) =
                 Append(SubSeq(v, 1, Len(v) - 1), Apply(both.op, <<asked, Worth(truth, <<>>, env)>>))
<1> DEFINE ask == Token("isnotnull", 1)
           start == SubSeq(v, 1, Len(v) - 1)
           operand == SubSeq(v, Len(v), Len(v))
           asked == Worth(ask, operand, env)
           b == Worth(truth, <<>>, env)
           U == S \cup {asked, b}
<1>0. Len(v) >= 1
  BY EmptySeq, LenProperties
<1>1. ask.arity = 1 /\ ask.op = "isnotnull"
  BY DEF Token
<1>2. asked \in BOOLEAN
  BY <1>1 DEF Worth, Apply
<1>3. start \in Seq(U)
  <2>1. v \in Seq(U) /\ Len(v) \in Nat
    BY LenProperties
  <2>2. Len(v) - 1 \in Int /\ Len(v) - 1 <= Len(v)
    BY <2>1
  <2> HIDE DEF U
  <2> QED BY <2>1, <2>2, StackStart
<1>4. Push(ask, v, env) = Append(start, asked)
  BY <1>0, <1>1, UnaryIsPushed
<1>5. asked \in U /\ b \in U
  OBVIOUS
<1>6. Push(truth, Append(start, asked), env) = Append(Append(start, asked), b)
  <2> DEFINE t == Append(start, asked)
  <2> HIDE DEF start, asked, U, b, ask
  <2>1. t \in Seq(U)
    BY <1>3, <1>5
  <2> HIDE DEF t
  <2>2. Push(truth, t, env) = Append(t, b)
    BY <2>1, LeafIsPushed DEF b
  <2> QED BY <2>2 DEF t
<1> HIDE DEF start, asked, U, b, ask
<1>7. Push(both, Append(Append(start, asked), b), env) = Append(start, Apply(both.op, <<asked, b>>))
  BY <1>3, <1>5, BinaryIsPushed
<1>8. Push(both, Push(truth, Push(ask, v, env), env), env) = Append(start, Apply(both.op, <<asked, b>>))
  BY <1>4, <1>6, <1>7
<1> QED BY <1>2, <1>8 DEF ask, start, b

\* What IN and NOT IN leave without a list.
LEMMA LastIsPushed ==
    ASSUME NEW S, NEW v \in Seq(S), v # <<>>, NEW env, NEW token, token.op \in {"in", "notin"}, token.arity = 1
    PROVE  Push(token, v, env) =
              Append(SubSeq(v, 1, Len(v) - 1), IF token.op = "in" THEN Or3({}) ELSE And3({}))
<1> DEFINE operand == SubSeq(v, Len(v), Len(v))
<1>0. Len(v) >= 1
  BY EmptySeq, LenProperties
<1>1. Len(operand) = 1 /\ 2 .. 1 = {}
  BY LenProperties, <1>0, ElementOfSeq, SubSeqProperties
<1>2. Push(token, v, env) = Append(SubSeq(v, 1, Len(v) - 1), Worth(token, operand, env))
  BY <1>0, UnaryIsPushed
<1> HIDE DEF operand
<1>3. Worth(token, operand, env) = Apply(token.op, operand)
  BY DEF Worth
<1>4. Apply(token.op, operand) = IF token.op = "in" THEN Or3({}) ELSE And3({})
  BY <1>1 DEF Apply
<1> QED BY <1>2, <1>3, <1>4

\* The two ways that render.rs writes an empty list have the values of the list's: IN is the
\* operand's nullness and FALSE, NOT IN its nullness or TRUE.
LEMMA EmptyInIsPushed ==
    ASSUME NEW S, NEW v \in Seq(S), v # <<>>, NEW env, NEW token, token.op = "in", token.arity = 1
    PROVE  Push(Token("and", 2), Push(Const(FALSE), Push(Token("isnotnull", 1), v, env), env), env) =
              Push(token, v, env)
<1> DEFINE both == Token("and", 2)
           truth == Const(FALSE)
<1>1. both.arity = 2 /\ both.op = "and" /\ truth.arity = 0 /\ truth.op = "const" /\ truth.v = FALSE
  BY DEF Token, Const
<1> HIDE DEF both, truth
<1>2. Worth(truth, <<>>, env) = FALSE
  BY <1>1 DEF Worth
<1>3. PICK asked \in BOOLEAN :
         Push(both, Push(truth, Push(Token("isnotnull", 1), v, env), env), env) =
            Append(SubSeq(v, 1, Len(v) - 1), Apply(both.op, <<asked, Worth(truth, <<>>, env)>>))
  BY <1>1, GuardIsPushed
<1>4. Apply("and", <<asked, FALSE>>) = FALSE
  BY DEF Apply, And3
<1>5. Or3({}) = FALSE
  BY NullIsNoTruth DEF And3, Or3, Not3
<1>6. Push(token, v, env) = Append(SubSeq(v, 1, Len(v) - 1), Or3({}))
  BY LastIsPushed
<1> QED BY <1>1, <1>2, <1>3, <1>4, <1>5, <1>6 DEF both, truth

LEMMA EmptyNotInIsPushed ==
    ASSUME NEW S, NEW v \in Seq(S), v # <<>>, NEW env, NEW token, token.op = "notin", token.arity = 1
    PROVE  Push(Token("or", 2), Push(Const(TRUE), Push(Token("isnotnull", 1), v, env), env), env) =
              Push(token, v, env)
<1> DEFINE both == Token("or", 2)
           truth == Const(TRUE)
<1>1. both.arity = 2 /\ both.op = "or" /\ truth.arity = 0 /\ truth.op = "const" /\ truth.v = TRUE
  BY DEF Token, Const
<1> HIDE DEF both, truth
<1>2. Worth(truth, <<>>, env) = TRUE
  BY <1>1 DEF Worth
<1>3. PICK asked \in BOOLEAN :
         Push(both, Push(truth, Push(Token("isnotnull", 1), v, env), env), env) =
            Append(SubSeq(v, 1, Len(v) - 1), Apply(both.op, <<asked, Worth(truth, <<>>, env)>>))
  BY <1>1, GuardIsPushed
<1>4. Apply("or", <<asked, TRUE>>) = TRUE
  BY NullIsNoTruth DEF Apply, Not3, And3, Or3
<1>5. And3({}) = TRUE
  BY DEF And3
<1>6. Push(token, v, env) = Append(SubSeq(v, 1, Len(v) - 1), And3({}))
  BY LastIsPushed
<1> QED BY <1>1, <1>2, <1>3, <1>4, <1>5, <1>6 DEF both, truth

\* Tokens always leave a stack, and one that is not empty.
LEMMA ValuesAreStack ==
    ASSUME NEW S, \A token \in S : token.arity \in Nat, NEW env, NEW e \in Seq(S)
    PROVE  IsStack(Values(e, env)) /\ (e # <<>> => Values(e, env) # <<>>)
<1> DEFINE Good(u) == IsStack(Values(u, env)) /\ (u # <<>> => Len(Values(u, env)) >= 1)
           T == {u \in Seq(S) : Good(u)}
<1>1. <<>> \in T
  <2>1. Values(<<>>, env) = <<>>
    BY ValuesEmpty
  <2>2. IsStack(<<>>)
    BY DEF IsStack
  <2> QED BY <2>1, <2>2
<1>2. ASSUME NEW u \in Seq(S), u \in T, NEW one \in S PROVE Append(u, one) \in T
  <2> DEFINE v == Values(u, env)
  <2>1. Values(Append(u, one), env) = Push(one, v, env)
    BY ValuesAppend
  <2>2. IsStack(v) /\ one.arity \in Nat
    BY <1>2
  <2>3. Len(v) \in Nat
    BY <2>2, LenProperties DEF IsStack
  <2> HIDE DEF v
  <2>4. /\ IsStack(Push(one, v, env))
        /\ Len(Push(one, v, env)) = IF one.arity <= Len(v) THEN Len(v) - one.arity + 1 ELSE 1
    BY <2>2, PushIsStack
  <2> DEFINE n == one.arity
  <2>6. n \in Nat
    BY <2>2
  <2> HIDE DEF n
  <2>7. (IF n <= Len(v) THEN Len(v) - n + 1 ELSE 1) >= 1
    BY <2>3, <2>6
  <2>5. Len(Push(one, v, env)) >= 1
    BY <2>4, <2>7 DEF n
  <2>8. Good(Append(u, one))
    BY <2>1, <2>4, <2>5
  <2> HIDE DEF Good
  <2> QED BY <2>8
<1> HIDE DEF T
<1>3. Seq(S) \subseteq T
  BY <1>1, <1>2, SequenceInduction
<1>4. Good(e)
  BY <1>3 DEF T
<1>5. Len(Values(e, env)) >= 1 => Values(e, env) # <<>>
  BY EmptySeq
<1> QED BY <1>4, <1>5

-----------------------------------------------------------------------------
(* The text of an expression.                                              *)

\* The tokens of a text: the program's, placeholders, names, and those of an empty list.
SlotTokens == {Slot(n) : n \in Nat}
NameTokens ==
    UNION {{Name("", token.name), Name(Alias(0), token.name), Name(Alias(1), token.name)} : token \in Tokens}
ListTokens == {Token("isnotnull", 1), Token("and", 2), Token("or", 2), Const(TRUE), Const(FALSE)}
TextTokens == Tokens \cup SlotTokens \cup NameTokens \cup ListTokens

LEMMA TextTokensAre ==
    /\ Tokens \subseteq TextTokens
    /\ \A n \in Nat : Slot(n) \in TextTokens
    /\ ListTokens \subseteq TextTokens
    /\ \A token \in Tokens : \A bare :
          Name(IF bare THEN "" ELSE Alias(token.src), token.name) \in TextTokens
<1>1. \A n \in Nat : Slot(n) \in SlotTokens
  BY DEF SlotTokens
<1>2. ASSUME NEW token \in Tokens, NEW bare
      PROVE  Name(IF bare THEN "" ELSE Alias(token.src), token.name) \in NameTokens
  <2>1. \A src : Alias(src) = Alias(0) \/ Alias(src) = Alias(1)
    BY DEF Alias
  <2>2. /\ Name("", token.name) \in NameTokens
        /\ Name(Alias(0), token.name) \in NameTokens
        /\ Name(Alias(1), token.name) \in NameTokens
    BY DEF NameTokens
  <2>3. CASE bare
    BY <2>2, <2>3
  <2>4. CASE ~ bare
    BY <2>2, <2>4, <2>1
  <2> QED BY <2>3, <2>4
<1> QED BY <1>1, <1>2 DEF TextTokens

\* The slots of a text are numbered from a up to b, and no list is empty.
SlotsOf(tokens) == {token.n : token \in {t \in tokens : t.op = "slot"}}
Numbered(a, b, tokens) ==
    /\ SlotsOf(tokens) = a .. b - 1
    /\ \A token \in tokens : token.op \in {"in", "notin"} => token.arity > 1

\* Every name of a text is that of a handle of the expression.
Named(bare, tokens, written) ==
    \A token \in tokens :
        token.op = "name" =>
            \E c \in written : /\ c.op = "col" /\ token.name = c.name
                               /\ token.alias = IF bare THEN "" ELSE Alias(c.src)

\* A handle is of one of two sources, and of the first where it is written without an alias.
Sourced(bare, token) == token.op = "col" => token.src \in {0, 1} /\ (bare => token.src = 0)

\* The parameters of a text that binds what e binds: the literal, or what is given for the parameter.
Fits(params, given, e) ==
    \A j \in 1 .. Len(Binders(e)) :
        params[j] = IF Binders(e)[j].op = "lit" THEN Binders(e)[j].v ELSE given[Binders(e)[j].n]

\* The text is worth what the expression is, given the parameters that fit.
Means(e0, t, e) ==
    \A params, given, rows :
        Fits(params, given, e0) =>
            Values(t, [rows |-> rows, params |-> params]) = Values(e, [rows |-> rows, params |-> given])

\* Parameters that fit a statement fit its beginning, and a text means the same in a longer one.
LEMMA FitsPrefix ==
    ASSUME NEW a \in Seq(Tokens), NEW b \in Seq(Tokens), NEW params, NEW given, Fits(params, given, a \o b)
    PROVE  Fits(params, given, a)
<1>1. Binders(a \o b) = Binders(a) \o Binders(b) /\ Binders(a) \in Seq(Tokens) /\ Binders(b) \in Seq(Tokens)
  BY AmongTwo, AmongIsSequence DEF Binders
<1> DEFINE s == Binders(a)
           t == Binders(b)
           u == Binders(a \o b)
<1> HIDE DEF s, t, u
<1>2. Len(s) <= Len(u) /\ Len(s) \in Nat /\ Len(u) \in Nat /\ \A j \in 1 .. Len(s) : u[j] = s[j]
  BY <1>1 DEF s, t, u
<1>3. \A j \in 1 .. Len(s) : j \in 1 .. Len(u)
  BY <1>2
<1> QED BY <1>2, <1>3 DEF Fits, s, u

LEMMA MeansLonger ==
    ASSUME NEW a \in Seq(Tokens), NEW b \in Seq(Tokens), NEW t, NEW e, Means(a, t, e)
    PROVE  Means(a \o b, t, e)
BY FitsPrefix DEF Means

\* Pushing a bind leaves the counter alone.
LEMMA PushKeepsNext ==
    ASSUME NEW x, NEW w \in RendererStates, NEW token \in Tokens
    PROVE  /\ token.op = "lit" => PushBind(x, token.v, w).next = w.next
           /\ PushRuntime(x, w).next = w.next
<1>1. ASSUME token.op = "lit" PROVE PushBind(x, token.v, w).next = w.next
  BY StateError, StateBind DEF PushBind, Binds
<1>2. PushRuntime(x, w).next = w.next
  <2> DEFINE u == [w EXCEPT !.runtime = @ + 1]
             bind == [k |-> "runtime", n |-> w.runtime]
  <2>1. u \in RendererStates /\ u.next = w.next
    BY StateRuntime
  <2>2. bind \in Binds
    BY DEF RendererStates, Binds
  <2>3. PushRuntime(x, w) = u \/ PushRuntime(x, w) = [u EXCEPT !.binds = Append(@, bind)]
    BY DEF PushRuntime
  <2> HIDE DEF u, bind
  <2>4. [u EXCEPT !.binds = Append(@, bind)].next = u.next
    BY <2>1, <2>2, StateBind
  <2> QED BY <2>1, <2>3, <2>4
<1> QED BY <1>1, <1>2

\* IN or NOT IN with nothing in its list.
IsEmptyList(token) == token.op \in {"in", "notin"} /\ token.arity = 1

\* The text of one token: a placeholder, a name, an empty list spelled out, or itself.
LEMMA WriteTokenIs ==
    ASSUME NEW x, NEW token \in Tokens, NEW s, s.w \in RendererStates
    PROVE  LET t == WriteToken(x, token, s).t
           IN  /\ IsBinder(token) => t = Append(s.t, Slot(s.w.next))
               /\ token.op = "col" =>
                     t = Append(s.t, Name(IF x.bare THEN "" ELSE Alias(token.src), token.name))
               /\ IsEmptyList(token) => t = s.t \o EmptyList(token.op)
               /\ ~ (IsBinder(token) \/ token.op = "col" \/ IsEmptyList(token)) => t = Append(s.t, token)
BY PushKeepsNext DEF WriteToken, Placeholder, IsBinder, IsEmptyList

\* What a token adds to the text.
Added(x, token, next) ==
    IF IsBinder(token) THEN <<Slot(next)>>
    ELSE IF token.op = "col" THEN <<Name(IF x.bare THEN "" ELSE Alias(token.src), token.name)>>
    ELSE IF IsEmptyList(token) THEN EmptyList(token.op)
    ELSE <<token>>

LEMMA AddedIsText ==
    ASSUME NEW x, NEW token \in Tokens, NEW next \in Nat
    PROVE  Added(x, token, next) \in Seq(TextTokens) /\ Len(Added(x, token, next)) >= 1
<1>1. \A u \in TextTokens : <<u>> \in Seq(TextTokens) /\ Len(<<u>>) >= 1
  OBVIOUS
<1>2. Slot(next) \in TextTokens /\ token \in TextTokens
  BY TextTokensAre
<1>3. \A bare : Name(IF bare THEN "" ELSE Alias(token.src), token.name) \in TextTokens
  BY TextTokensAre
<1>4. \A op : EmptyList(op) \in Seq(TextTokens) /\ Len(EmptyList(op)) >= 1
  <2>1. /\ Token("isnotnull", 1) \in TextTokens /\ Token("and", 2) \in TextTokens /\ Token("or", 2) \in TextTokens
        /\ Const(TRUE) \in TextTokens /\ Const(FALSE) \in TextTokens
    BY TextTokensAre DEF ListTokens
  <2>2. \A a, b, c \in TextTokens : <<a, b, c>> \in Seq(TextTokens) /\ Len(<<a, b, c>>) >= 1
    OBVIOUS
  <2> QED BY <2>1, <2>2 DEF EmptyList
<1>5. CASE IsBinder(token)
  BY <1>1, <1>2, <1>5 DEF Added
<1>6. CASE ~ IsBinder(token) /\ token.op = "col"
  BY <1>1, <1>3, <1>6 DEF Added
<1>7. CASE ~ IsBinder(token) /\ token.op # "col" /\ IsEmptyList(token)
  BY <1>4, <1>7 DEF Added
<1>8. CASE ~ IsBinder(token) /\ token.op # "col" /\ ~ IsEmptyList(token)
  BY <1>1, <1>2, <1>8 DEF Added
<1> QED BY <1>5, <1>6, <1>7, <1>8

\* A token is added after the text so far.
LEMMA TextIsAdded ==
    ASSUME NEW x, NEW token \in Tokens, NEW s, s.w \in RendererStates, s.t \in Seq(TextTokens)
    PROVE  LET t == WriteToken(x, token, s).t
               more == Added(x, token, s.w.next)
           IN  /\ t = s.t \o more
               /\ t \in Seq(TextTokens) /\ Len(t) >= Len(s.t) + 1
               /\ Range(t) = Range(s.t) \cup Range(more)
<1> DEFINE t == WriteToken(x, token, s).t
           more == Added(x, token, s.w.next)
<1>1. s.w.next \in Nat
  BY DEF RendererStates
<1>2. more \in Seq(TextTokens) /\ Len(more) >= 1
  BY <1>1, AddedIsText
<1>3. t = s.t \o more
  <2> DEFINE slot == Slot(s.w.next)
             name == Name(IF x.bare THEN "" ELSE Alias(token.src), token.name)
  <2>1. \A u \in TextTokens : Append(s.t, u) = s.t \o <<u>>
    OBVIOUS
  <2>2. slot \in TextTokens /\ token \in TextTokens /\ name \in TextTokens
    BY <1>1, TextTokensAre
  <2>3. /\ IsBinder(token) => t = Append(s.t, slot)
        /\ token.op = "col" => t = Append(s.t, name)
        /\ IsEmptyList(token) => t = s.t \o EmptyList(token.op)
        /\ ~ (IsBinder(token) \/ token.op = "col" \/ IsEmptyList(token)) => t = Append(s.t, token)
    BY WriteTokenIs
  <2>4. more = IF IsBinder(token) THEN <<slot>>
               ELSE IF token.op = "col" THEN <<name>>
               ELSE IF IsEmptyList(token) THEN EmptyList(token.op)
               ELSE <<token>>
    BY DEF Added
  <2> HIDE DEF t, more, slot, name
  <2>5. /\ Append(s.t, slot) = s.t \o <<slot>> /\ Append(s.t, name) = s.t \o <<name>>
        /\ Append(s.t, token) = s.t \o <<token>>
    BY <2>1, <2>2
  <2> QED BY <2>3, <2>4, <2>5
<1> HIDE DEF t, more
<1>4. t \in Seq(TextTokens) /\ Len(t) >= Len(s.t) + 1
  BY <1>2, <1>3
<1>5. Range(t) = Range(s.t) \cup Range(more)
  BY <1>2, <1>3, RangeOfConcat
<1> QED BY <1>3, <1>4, <1>5 DEF t, more

LEMMA RangeOfEmptyList == \A op : Range(EmptyList(op)) \subseteq ListTokens
<1>1. ASSUME NEW a \in ListTokens, NEW b \in ListTokens, NEW c \in ListTokens
      PROVE  Range(<<a, b, c>>) \subseteq ListTokens
  BY LenProperties, ElementOfSeq DEF Range
<1>2. /\ Token("isnotnull", 1) \in ListTokens /\ Token("and", 2) \in ListTokens /\ Token("or", 2) \in ListTokens
      /\ Const(TRUE) \in ListTokens /\ Const(FALSE) \in ListTokens
  BY DEF ListTokens
<1> QED BY <1>1, <1>2 DEF EmptyList

\* A token adds a slot if it binds, a name if it is a handle, and never an empty list.
LEMMA AddedIs ==
    ASSUME NEW x, NEW token \in Tokens, NEW next \in Nat
    PROVE  /\ SlotsOf(Range(Added(x, token, next))) = IF IsBinder(token) THEN {next} ELSE {}
           /\ \A u \in Range(Added(x, token, next)) : u.op \in {"in", "notin"} => u.arity > 1
           /\ Named(x.bare, Range(Added(x, token, next)), {token})
<1> DEFINE more == Range(Added(x, token, next))
           fixed == ListTokens
<1>1. CASE IsBinder(token)
  <2>1. more = {Slot(next)}
    BY <1>1, RangeOfOne DEF Added
  <2>2. Slot(next).op = "slot" /\ Slot(next).n = next
    BY DEF Slot
  <2> HIDE DEF more
  <2>3. SlotsOf(more) = {next}
    BY <2>1, <2>2 DEF SlotsOf
  <2>4. \A u \in more : u.op \notin {"in", "notin", "name"}
    BY <2>1, <2>2
  <2> QED BY <1>1, <2>3, <2>4 DEF Named, more
<1>2. CASE ~ IsBinder(token) /\ token.op = "col"
  <2> DEFINE alias == IF x.bare THEN "" ELSE Alias(token.src)
  <2>1. more = {Name(alias, token.name)}
    BY <1>2, RangeOfOne DEF Added
  <2>2. /\ Name(alias, token.name).op = "name" /\ Name(alias, token.name).alias = alias
        /\ Name(alias, token.name).name = token.name
    BY DEF Name
  <2> HIDE DEF more
  <2>3. SlotsOf(more) = {}
    BY <2>1, <2>2 DEF SlotsOf
  <2>4. \A u \in more : u.op \notin {"in", "notin"}
    BY <2>1, <2>2
  <2>5. Named(x.bare, more, {token})
    BY <1>2, <2>1, <2>2 DEF Named
  <2> QED BY <1>2, <2>3, <2>4, <2>5 DEF more
<1>3. CASE ~ IsBinder(token) /\ token.op # "col" /\ IsEmptyList(token)
  <2>1. more \subseteq fixed
    BY <1>3, RangeOfEmptyList DEF Added
  <2>2. \A u \in fixed : u.op \in {"isnotnull", "and", "or", "const"}
    BY DEF Token, Const, ListTokens
  <2> HIDE DEF more, fixed
  <2>3. SlotsOf(more) = {}
    BY <2>1, <2>2 DEF SlotsOf
  <2>4. \A u \in more : u.op \notin {"in", "notin", "name"}
    BY <2>1, <2>2
  <2> QED BY <1>3, <2>3, <2>4 DEF Named, more
<1>4. CASE ~ IsBinder(token) /\ token.op # "col" /\ ~ IsEmptyList(token)
  <2>1. more = {token}
    BY <1>4, RangeOfOne DEF Added
  <2>2. /\ token.op \notin {"slot", "name"} /\ token.arity \in Nat
        /\ token.op \in {"in", "notin"} => token.arity > 0
    BY TokensAreOfProgram DEF OfProgram
  <2> HIDE DEF more
  <2>3. SlotsOf(more) = {}
    BY <2>1, <2>2 DEF SlotsOf
  <2>4. \A u \in more : u.op \in {"in", "notin"} => u.arity > 1
    BY <1>4, <2>1, <2>2 DEF IsEmptyList
  <2>5. Named(x.bare, more, {token})
    BY <2>1, <2>2 DEF Named
  <2> QED BY <1>4, <2>3, <2>4, <2>5 DEF more
<1> QED BY <1>1, <1>2, <1>3, <1>4

\* Tokens of one arity that are worth the same push the same.
LEMMA SamePush ==
    ASSUME NEW a, NEW b, NEW v, NEW e1, NEW e2, a.arity = b.arity,
           \A u : Worth(a, u, e1) = Worth(b, u, e2)
    PROVE  Push(a, v, e1) = Push(b, v, e2)
BY DEF Push

\* The parameter of a text that is numbered next.
LEMMA LastFits ==
    ASSUME NEW e \in Seq(Tokens), NEW token \in Tokens, IsBinder(token), NEW params, NEW given,
           Fits(params, given, Append(e, token))
    PROVE  params[Len(Binders(e)) + 1] = IF token.op = "lit" THEN token.v ELSE given[token.n]
<1> DEFINE s == Binders(e)
           t == Binders(Append(e, token))
           n == Len(s)
<1>1. s \in Seq(Tokens) /\ t = Append(s, token)
  BY BindersAppend
<1> HIDE DEF s, t
<1>2. n + 1 \in 1 .. Len(t) /\ t[n + 1] = token
  BY <1>1
<1>3. \A j \in 1 .. Len(t) : params[j] = IF t[j].op = "lit" THEN t[j].v ELSE given[t[j].n]
  BY DEF Fits, t
<1> HIDE DEF n
<1>4. params[n + 1] = IF token.op = "lit" THEN token.v ELSE given[token.n]
  BY <1>2, <1>3
<1> QED BY <1>4 DEF n, s

\* A token added to a text that means the expression so far means the longer expression:
\* placeholders get what they stand for, names read what handles read.
LEMMA TokenMeans ==
    ASSUME NEW x, NEW e0 \in Seq(Tokens), NEW e \in Seq(Tokens), NEW token \in Tokens, NEW s,
           s.w \in RendererStates, s.t \in Seq(TextTokens), s.w.next = Len(Binders(e0 \o e)),
           Means(e0 \o e, s.t, e), e = <<>> => token.arity = 0, Sourced(x.bare, token)
    PROVE  Means(e0 \o Append(e, token), WriteToken(x, token, s).t, Append(e, token))
<1> DEFINE all == e0 \o e
           longer == Append(all, token)
           t == WriteToken(x, token, s).t
           next == s.w.next
<1>1. all \in Seq(Tokens) /\ longer \in Seq(Tokens) /\ e0 \o Append(e, token) = longer
  BY AppendLast
<1> HIDE DEF longer, all
<1>2. /\ OfProgram(token) /\ token.arity \in Nat
      /\ IsBinder(token) \/ token.op = "col" => token.arity = 0
      /\ token.op \notin {"slot", "name", "const"}
  BY TokensAreOfProgram DEF OfProgram, IsBinder
<1>3. next \in Nat /\ next = Len(Binders(all))
  BY DEF RendererStates, all
<1>4. ASSUME NEW params, NEW given, NEW rows, Fits(params, given, longer)
      PROVE  Values(t, [rows |-> rows, params |-> params]) =
                Values(Append(e, token), [rows |-> rows, params |-> given])
  <2> DEFINE env1 == [rows |-> rows, params |-> params]
             env2 == [rows |-> rows, params |-> given]
             v == Values(e, env2)
             slot == Slot(next)
             name == Name(IF x.bare THEN "" ELSE Alias(token.src), token.name)
  <2>1. Values(Append(e, token), env2) = Push(token, v, env2)
    BY ValuesAppend
  <2>2. Fits(params, given, all)
    <3>1. longer = all \o <<token>> /\ <<token>> \in Seq(Tokens)
      BY <1>1 DEF longer
    <3> QED BY <1>1, <1>4, <3>1, FitsPrefix
  <2>3. Values(s.t, env1) = v
    BY <2>2 DEF Means, all
  <2>4. \A u \in TextTokens : Values(Append(s.t, u), env1) = Push(u, Values(s.t, env1), env1)
    BY ValuesAppend
  <2>5. slot \in TextTokens /\ token \in TextTokens /\ name \in TextTokens
    BY <1>3, TextTokensAre
  <2>6. /\ IsBinder(token) => t = Append(s.t, slot)
        /\ token.op = "col" => t = Append(s.t, name)
        /\ IsEmptyList(token) => t = s.t \o EmptyList(token.op)
        /\ ~ (IsBinder(token) \/ token.op = "col" \/ IsEmptyList(token)) => t = Append(s.t, token)
    BY WriteTokenIs
  <2>7. env1.rows = rows /\ env2.rows = rows /\ env1.params = params /\ env2.params = given
    OBVIOUS
  <2> HIDE DEF v, t, env1, env2
  <2> SUFFICES Values(t, env1) = Values(Append(e, token), env2)
    BY DEF env1, env2
  <2>8. CASE IsBinder(token)
    <3>1. slot.arity = token.arity /\ slot.op = "slot" /\ slot.n = next
      BY <1>2, <2>8 DEF Slot
    <3>2. params[next + 1] = IF token.op = "lit" THEN token.v ELSE given[token.n]
      BY <1>1, <1>3, <1>4, <2>8, LastFits DEF longer
    <3> HIDE DEF slot
    <3>3. \A u : Worth(slot, u, env1) = params[next + 1]
      BY <2>7, <3>1 DEF Worth
    <3>4. \A u : Worth(token, u, env2) = IF token.op = "lit" THEN token.v ELSE given[token.n]
      BY <2>7, <2>8 DEF Worth, IsBinder
    <3>5. Push(slot, v, env1) = Push(token, v, env2)
      BY <3>1, <3>2, <3>3, <3>4, SamePush
    <3> QED BY <2>1, <2>3, <2>4, <2>5, <2>6, <2>8, <3>5
  <2>9. CASE token.op = "col"
    <3> DEFINE alias == IF x.bare THEN "" ELSE Alias(token.src)
    <3>1. name.arity = token.arity /\ name.op = "name" /\ name.alias = alias /\ name.name = token.name
      BY <1>2, <2>9 DEF Name
    <3>2. token.src \in {0, 1} /\ (x.bare => token.src = 0)
      BY <2>9 DEF Sourced
    <3>3. (IF alias = Alias(1) THEN 2 ELSE 1) = token.src + 1
      <4> DEFINE first == Alias(0)
                 second == Alias(1)
                 own == Alias(token.src)
                 src == token.src
      <4>1. first # second /\ "" # second
        BY DEF Alias
      <4>2. src = 0 => own = first
        BY Zenon
      <4>3. src = 1 => own = second
        BY Zenon
      <4>4. alias = IF x.bare THEN "" ELSE own
        OBVIOUS
      <4> HIDE DEF first, second, own, alias, src
      <4>5. src = 0 => alias # second
        BY <4>1, <4>2, <4>4
      <4>9. x.bare => src = 0
        BY <3>2 DEF src
      <4>6. src = 1 => alias = second
        <5>1. src = 1 => ~ (src = 0)
          OBVIOUS
        <5> QED BY <4>3, <4>4, <4>9, <5>1, Zenon
      <4>7. src \in {0, 1}
        BY <3>2 DEF src
      <4>8. (IF alias = second THEN 2 ELSE 1) = src + 1
        BY <4>5, <4>6, <4>7
      <4> QED BY <4>8 DEF second, src
    <3> HIDE DEF name, alias
    <3>4. \A u : Worth(name, u, env1) = rows[token.src + 1][token.name]
      BY <2>7, <3>1, <3>3 DEF Worth
    <3>5. \A u : Worth(token, u, env2) = rows[token.src + 1][token.name]
      BY <2>7, <2>9 DEF Worth
    <3>6. Push(name, v, env1) = Push(token, v, env2)
      BY <3>1, <3>4, <3>5, SamePush
    <3> QED BY <2>1, <2>3, <2>4, <2>5, <2>6, <2>9, <3>6
  <2>10. CASE ~ IsBinder(token) /\ token.op # "col"
    <3>1. \A u : Worth(token, u, env1) = Worth(token, u, env2)
      BY <1>2, <2>10 DEF Worth, IsBinder
    <3>2. Push(token, v, env1) = Push(token, v, env2)
      BY <3>1, SamePush
    <3>3. CASE ~ IsEmptyList(token)
      BY <2>1, <2>3, <2>4, <2>5, <2>6, <2>10, <3>2, <3>3
    <3>4. CASE IsEmptyList(token)
      <4> DEFINE ask == Token("isnotnull", 1)
                 truth == Const(token.op = "notin")
                 both == Token(IF token.op = "in" THEN "and" ELSE "or", 2)
      <4>1. token.op \in {"in", "notin"} /\ token.arity = 1 /\ e # <<>>
        BY <3>4 DEF IsEmptyList
      <4>2. EmptyList(token.op) = <<ask, truth, both>>
        BY <4>1 DEF EmptyList
      <4>3. ask \in TextTokens /\ truth \in TextTokens /\ both \in TextTokens
        <5>1. truth = Const(TRUE) \/ truth = Const(FALSE)
          OBVIOUS
        <5>2. both = Token("and", 2) \/ both = Token("or", 2)
          OBVIOUS
        <5> HIDE DEF truth, both
        <5> QED BY <5>1, <5>2, TextTokensAre DEF ListTokens
      <4>4. t = s.t \o <<ask, truth, both>>
        BY <2>6, <3>4, <4>2
      <4> HIDE DEF ask, truth, both
      <4> DEFINE t1 == Append(s.t, ask)
                 t2 == Append(t1, truth)
                 t3 == Append(t2, both)
      <4>5. t1 \in Seq(TextTokens) /\ t2 \in Seq(TextTokens) /\ t3 \in Seq(TextTokens) /\ t = t3
        <5> DEFINE one == <<ask>>
                   two == Append(one, truth)
                   three == Append(two, both)
        <5>1. /\ one \in Seq(TextTokens) /\ two \in Seq(TextTokens) /\ three \in Seq(TextTokens)
              /\ <<ask, truth, both>> = three
          BY <4>3
        <5>2. s.t \o one = t1 /\ t1 \in Seq(TextTokens)
          BY <4>3
        <5>7. two = Append(one, truth) /\ three = Append(two, both)
              /\ t1 = Append(s.t, ask) /\ t2 = Append(t1, truth) /\ t3 = Append(t2, both)
          OBVIOUS
        <5> HIDE DEF one, two, three, t1, t2, t3
        <5> DEFINE text == s.t
        <5>8. text \in Seq(TextTokens)
          OBVIOUS
        <5> HIDE DEF text
        <5>10. one \in Seq(TextTokens) /\ two \in Seq(TextTokens)
          BY <5>1
        <5>11. text \o Append(one, truth) = Append(text \o one, truth)
          BY ONLY <4>3, <5>8, <5>10, AppendLast
        <5>12. text \o Append(two, both) = Append(text \o two, both)
          BY ONLY <4>3, <5>8, <5>10, AppendLast
        <5>9. /\ text \o Append(one, truth) = Append(text \o one, truth)
              /\ text \o Append(two, both) = Append(text \o two, both)
          BY <5>11, <5>12
        <5>3. s.t \o two = Append(s.t \o one, truth)
          BY <5>7, <5>9, Zenon DEF text
        <5>4. s.t \o two = t2 /\ t2 \in Seq(TextTokens)
          BY <4>3, <5>2, <5>3, <5>7, AppendProperties
        <5>5. s.t \o three = Append(s.t \o two, both)
          BY <5>7, <5>9, Zenon DEF text
        <5>6. s.t \o three = t3 /\ t3 \in Seq(TextTokens)
          BY <4>3, <5>4, <5>5, <5>7, AppendProperties
        <5> QED BY <4>4, <5>1, <5>2, <5>4, <5>6
      <4>6. Values(t1, env1) = Push(ask, v, env1)
        BY <2>3, <2>4, <4>3
      <4> HIDE DEF t1
      <4>7. Values(t2, env1) = Push(truth, Values(t1, env1), env1)
        BY <4>3, <4>5, ValuesAppend
      <4> HIDE DEF t2
      <4>8. Values(t3, env1) = Push(both, Values(t2, env1), env1)
        BY <4>3, <4>5, ValuesAppend
      <4>9. IsStack(v) /\ v # <<>>
        BY TokensAreOfProgram, <4>1, ValuesAreStack DEF OfProgram, v
      <4>10. Push(both, Push(truth, Push(ask, v, env1), env1), env1) = Push(token, v, env1)
        <5>1. PICK S : v \in Seq(S)
          BY <4>9 DEF IsStack
        <5>2. ask = Token("isnotnull", 1)
          BY DEF ask
        <5>3. CASE token.op = "in"
          BY <5>3, <4>1, <4>9, <5>1, <5>2, EmptyInIsPushed DEF both, truth
        <5>4. CASE token.op = "notin"
          BY <5>4, <4>1, <4>9, <5>1, <5>2, EmptyNotInIsPushed DEF both, truth
        <5> QED BY <4>1, <5>3, <5>4
      <4> HIDE DEF t3
      <4> QED BY <2>1, <3>2, <4>5, <4>6, <4>7, <4>8, <4>10
    <3> QED BY <3>3, <3>4
  <2> QED BY <2>8, <2>9, <2>10
<1> QED BY <1>1, <1>4 DEF Means

-----------------------------------------------------------------------------
(* An expression that is written after e0.                                 *)

\* The expression e, written after e0: the state, the text, its placeholders and names, and what
\* it means.
Written(x, e0, e, s) ==
    /\ Carries(x, e0 \o e, s.w)
    /\ s.t \in Seq(TextTokens)
    /\ Len(s.t) >= Len(e)
    /\ Numbered(Len(Binders(e0)), Len(Binders(e0 \o e)), Range(s.t))
    /\ Named(x.bare, Range(s.t), Range(e))
    /\ Means(e0 \o e, s.t, e)

\* The sinks a statement is rendered to.
IsSink(x) == x.sink \in {"text", "params", "prepared"}

\* Slots and names of two parts of a text.
LEMMA SlotsOfUnion == \A A, B : SlotsOf(A \cup B) = SlotsOf(A) \cup SlotsOf(B)
BY DEF SlotsOf

\* Two parts of a text that are numbered one after the other are numbered as a whole.
LEMMA NumberedUnion ==
    ASSUME NEW a \in Nat, NEW b \in Nat, NEW c \in Nat, a <= b, b <= c, NEW A, NEW B,
           Numbered(a, b, A), Numbered(b, c, B)
    PROVE  Numbered(a, c, A \cup B)
<1>1. (a .. b - 1) \cup (b .. c - 1) = a .. c - 1
  OBVIOUS
<1>2. SlotsOf(A \cup B) = a .. c - 1
  <2>1. SlotsOf(A) = a .. b - 1 /\ SlotsOf(B) = b .. c - 1
    BY DEF Numbered
  <2>2. SlotsOf(A \cup B) = SlotsOf(A) \cup SlotsOf(B)
    BY SlotsOfUnion
  <2> QED BY <1>1, <2>1, <2>2
<1> QED BY <1>2 DEF Numbered

LEMMA NamedUnion ==
    ASSUME NEW bare, NEW A, NEW B, NEW C, NEW D, Named(bare, A, C), Named(bare, B, D)
    PROVE  Named(bare, A \cup B, C \cup D)
BY DEF Named

\* A longer expression binds no less.
LEMMA BindersGrow ==
    ASSUME NEW a \in Seq(Tokens), NEW b \in Seq(Tokens)
    PROVE  /\ Len(Binders(a)) \in Nat /\ Len(Binders(a \o b)) \in Nat
           /\ Len(Binders(a)) <= Len(Binders(a \o b))
<1>1. Binders(a \o b) = Binders(a) \o Binders(b) /\ Binders(a) \in Seq(Tokens) /\ Binders(b) \in Seq(Tokens)
  BY AmongTwo, AmongIsSequence DEF Binders
<1> DEFINE s == Binders(a)
           t == Binders(b)
<1> HIDE DEF s, t
<1>2. \A u, v \in Seq(Tokens) : Len(u) \in Nat /\ Len(u \o v) \in Nat /\ Len(u) <= Len(u \o v)
  OBVIOUS
<1> QED BY <1>1, <1>2

\* Nothing is written by nothing.
LEMMA WrittenNothing ==
    ASSUME NEW x, NEW e0 \in Seq(Tokens), NEW w, Carries(x, e0, w)
    PROVE  Written(x, e0, <<>>, [w |-> w, t |-> <<>>])
<1>1. e0 \o <<>> = e0
  OBVIOUS
<1>2. Range(<<>>) = {} /\ Len(<<>>) = 0
  BY DEF Range
<1>3. <<>> \in Seq(TextTokens)
  OBVIOUS
<1> DEFINE n == Len(Binders(e0))
           none == <<>>
           s == [w |-> w, t |-> none]
<1>4. n \in Nat
  BY BindersGrow
<1>5. Numbered(n, n, {})
  BY <1>4 DEF SlotsOf, Numbered
<1>6. Named(x.bare, {}, {})
  BY DEF Named
<1>7. Means(e0, none, none)
  BY ValuesEmpty DEF Means
<1>8. s.w = w /\ s.t = none
  OBVIOUS
<1> HIDE DEF n, none, s
<1>9. none = <<>>
  BY DEF none
<1>10. e0 \o none = e0 /\ Range(none) = {} /\ Len(none) = 0 /\ none \in Seq(TextTokens)
  BY <1>1, <1>2, <1>3 DEF none
<1>11. Numbered(Len(Binders(e0)), Len(Binders(e0 \o none)), Range(s.t))
  BY <1>5, <1>8, <1>10 DEF n
<1>12. Len(s.t) >= Len(none)
  BY <1>8, <1>10
<1>13. Written(x, e0, none, s)
  BY <1>6, <1>7, <1>8, <1>10, <1>11, <1>12 DEF Written
<1> QED BY <1>13 DEF none, s

\* One more token.
LEMMA WrittenToken ==
    ASSUME NEW x, IsSink(x), NEW e0 \in Seq(Tokens), NEW e \in Seq(Tokens), NEW token \in Tokens, NEW s,
           Written(x, e0, e, s), e = <<>> => token.arity = 0, Sourced(x.bare, token)
    PROVE  Written(x, e0, Append(e, token), WriteToken(x, token, s))
<1> DEFINE all == e0 \o e
           longer == Append(all, token)
           next == s.w.next
           more == Added(x, token, next)
           v == WriteToken(x, token, s)
           a == Len(Binders(e0))
           b == Len(Binders(all))
           c == Len(Binders(longer))
<1>1. all \in Seq(Tokens) /\ e0 \o Append(e, token) = longer /\ Append(e, token) \in Seq(Tokens)
  BY AppendLast
<1>2. s.w \in RendererStates /\ next = b /\ next \in Nat /\ s.t \in Seq(TextTokens)
  <2>1. Carries(x, all, s.w) /\ s.t \in Seq(TextTokens)
    BY DEF Written
  <2> HIDE DEF all
  <2> QED BY <2>1 DEF Carries, RendererStates
<1>3. Carries(x, longer, v.w)
  <2>1. Carries(x, all, s.w)
    BY DEF Written
  <2> HIDE DEF all
  <2> QED BY <1>1, <2>1, CarriesToken DEF IsSink
<1>4. v.t \in Seq(TextTokens) /\ Len(v.t) >= Len(s.t) + 1 /\ Range(v.t) = Range(s.t) \cup Range(more)
  BY <1>2, TextIsAdded
<1>5. Len(v.t) >= Len(Append(e, token))
  <2>1. Len(s.t) >= Len(e)
    BY DEF Written
  <2>2. Len(Append(e, token)) = Len(e) + 1 /\ Len(e) \in Nat
    OBVIOUS
  <2>3. Len(s.t) \in Nat /\ Len(v.t) \in Nat
    BY <1>2, <1>4, LenProperties
  <2> HIDE DEF v
  <2> QED BY <1>4, <2>1, <2>2, <2>3
<1>6. /\ SlotsOf(Range(more)) = IF IsBinder(token) THEN {next} ELSE {}
      /\ \A u \in Range(more) : u.op \in {"in", "notin"} => u.arity > 1
      /\ Named(x.bare, Range(more), {token})
  BY <1>2, AddedIs
<1>7. a \in Nat /\ b \in Nat /\ a <= b /\ c = IF IsBinder(token) THEN b + 1 ELSE b
  <2>1. a \in Nat /\ b \in Nat /\ a <= b
    BY BindersGrow
  <2> HIDE DEF all
  <2>2. IsBinder(token) => Binders(longer) = Append(Binders(all), token)
    BY <1>1, BindersAppend
  <2>3. ~ IsBinder(token) => Binders(longer) = Binders(all)
    BY <1>1, BindersAppend
  <2>4. Binders(all) \in Seq(Tokens)
    BY <1>1, BindersAppend
  <2>5. Len(Append(Binders(all), token)) = b + 1
    BY <2>4
  <2> QED BY <2>1, <2>2, <2>3, <2>5
<1>8. Numbered(a, b, Range(s.t)) /\ Named(x.bare, Range(s.t), Range(e)) /\ Means(all, s.t, e)
  BY DEF Written
<1>9. Means(longer, v.t, Append(e, token))
  BY <1>1, <1>2, <1>8, TokenMeans
<1>10. Range(Append(e, token)) = Range(e) \cup {token}
  BY RangeOfAppend
<1> HIDE DEF a, b, c, all, longer, v, more, next
<1>11. Numbered(b, c, Range(more))
  <2>1. SlotsOf(Range(more)) = b .. c - 1
    <3>1. CASE IsBinder(token)
      BY <1>7, <3>1, <1>2, <1>6
    <3>2. CASE ~ IsBinder(token)
      BY <1>7, <3>2, <1>6
    <3> QED BY <3>1, <3>2
  <2> QED BY <1>6, <2>1 DEF Numbered
<1>12. Numbered(a, c, Range(v.t))
  BY <1>7, <1>8, <1>11, NumberedUnion, <1>4
<1>13. Named(x.bare, Range(v.t), Range(Append(e, token)))
  BY <1>4, <1>6, <1>8, <1>10, NamedUnion
<1> DEFINE f == Append(e, token)
<1> HIDE DEF f
<1>14. Carries(x, e0 \o f, v.w)
  BY <1>1, <1>3 DEF f
<1>15. Numbered(Len(Binders(e0)), Len(Binders(e0 \o f)), Range(v.t))
  BY <1>1, <1>12 DEF f, a, c
<1>16. Means(e0 \o f, v.t, f) /\ Named(x.bare, Range(v.t), Range(f)) /\ Len(v.t) >= Len(f)
  BY <1>1, <1>5, <1>9, <1>13 DEF f
<1>17. Written(x, e0, f, v)
  BY <1>4, <1>14, <1>15, <1>16 DEF Written
<1> QED BY <1>17 DEF f, v

\* The tokens of an expression are written as a whole.
LEMMA WrittenExpr ==
    ASSUME NEW x, IsSink(x), NEW e0 \in Seq(Tokens), NEW w, Carries(x, e0, w), NEW e \in Exprs,
           \A token \in Range(e) : Sourced(x.bare, token)
    PROVE  Written(x, e0, e, WriteExpr(x, e, w))
<1> DEFINE Starts(u) == u # <<>> => u[1].arity = 0
           From0(u) == \A token \in Range(u) : Sourced(x.bare, token)
           T == {u \in Seq(Tokens) : Starts(u) /\ From0(u) => Written(x, e0, u, WriteExpr(x, u, w))}
<1>1. <<>> \in T
  BY WriteExprEmpty, WrittenNothing
<1>2. ASSUME NEW u \in Seq(Tokens), u \in T, NEW one \in Tokens PROVE Append(u, one) \in T
  <2> DEFINE f == Append(u, one)
  <2>0. f \in Seq(Tokens)
    OBVIOUS
  <2> SUFFICES ASSUME Starts(f), From0(f)
               PROVE  Written(x, e0, f, WriteExpr(x, f, w))
    <3> HIDE DEF Starts, From0, f
    <3> QED BY <2>0 DEF f
  <2>1. Range(Append(u, one)) = Range(u) \cup {one}
    BY RangeOfAppend
  <2>2. From0(u) /\ Sourced(x.bare, one)
    BY <2>1
  <2>3. Starts(u) /\ (u = <<>> => one.arity = 0)
    <3>1. Append(u, one) # <<>> /\ Append(u, one)[1].arity = 0
      OBVIOUS
    <3>2. CASE u = <<>>
      BY <3>1, <3>2
    <3>3. CASE u # <<>>
      BY <3>3, <3>1
    <3> QED BY <3>2, <3>3
  <2>4. Written(x, e0, u, WriteExpr(x, u, w))
    BY <1>2, <2>2, <2>3
  <2>5. WriteExpr(x, Append(u, one), w) = WriteToken(x, one, WriteExpr(x, u, w))
    BY WriteExprAppend
  <2>6. Written(x, e0, Append(u, one), WriteToken(x, one, WriteExpr(x, u, w)))
    BY <2>2, <2>3, <2>4, WrittenToken
  <2> QED BY <2>5, <2>6
<1> HIDE DEF T
<1>3. Seq(Tokens) \subseteq T
  BY <1>1, <1>2, SequenceInduction
<1>4. e \in Seq(Tokens) /\ Starts(e) /\ From0(e)
  BY DEF Exprs
<1> QED BY <1>3, <1>4 DEF T

-----------------------------------------------------------------------------
(* Lists of expressions.                                                   *)

LEMMA TokensOfEmpty == TokensOf(<<>>) = {}
BY DEF TokensOf

\* The tokens of a list are those of its members.
LEMMA TokensOfIs ==
    ASSUME NEW S, NEW es \in Seq(S)
    PROVE  TokensOf(es) = UNION {Range(e) : e \in Range(es)}
BY DEF TokensOf, Range

LEMMA TokensOfAppend ==
    ASSUME NEW S, NEW es \in Seq(S), NEW e \in S
    PROVE  TokensOf(Append(es, e)) = TokensOf(es) \cup Range(e)
<1> DEFINE longer == Append(es, e)
<1>1. longer \in Seq(S) /\ Range(longer) = Range(es) \cup {e}
  BY RangeOfAppend
<1> HIDE DEF longer
<1>2. TokensOf(longer) = UNION {Range(u) : u \in Range(longer)} /\ TokensOf(es) = UNION {Range(u) : u \in Range(es)}
  BY <1>1, TokensOfIs
<1>3. UNION {Range(u) : u \in Range(longer)} = (UNION {Range(u) : u \in Range(es)}) \cup Range(e)
  BY <1>1
<1> QED BY <1>2, <1>3 DEF longer

LEMMA TokensOfConcat ==
    ASSUME NEW S, NEW es \in Seq(S), NEW fs \in Seq(S)
    PROVE  TokensOf(es \o fs) = TokensOf(es) \cup TokensOf(fs)
<1> DEFINE both == es \o fs
<1>1. both \in Seq(S) /\ Range(both) = Range(es) \cup Range(fs)
  BY RangeOfConcat, ConcatProperties
<1> HIDE DEF both
<1>2. /\ TokensOf(both) = UNION {Range(u) : u \in Range(both)}
      /\ TokensOf(es) = UNION {Range(u) : u \in Range(es)}
      /\ TokensOf(fs) = UNION {Range(u) : u \in Range(fs)}
  BY <1>1, TokensOfIs
<1> QED BY <1>1, <1>2 DEF both

LEMMA TokensOfFlatten ==
    ASSUME NEW S, NEW es \in Seq(Seq(S))
    PROVE  Range(FlattenSeq(es)) = TokensOf(es)
<1>1. \A x : x \in Range(FlattenSeq(es)) <=> \E s \in Range(es) : x \in Range(s)
  BY RangeOfFlatten
<1> DEFINE SS == Seq(S)
<1>2. es \in Seq(SS)
  OBVIOUS
<1> HIDE DEF SS
<1>3. TokensOf(es) = UNION {Range(e) : e \in Range(es)}
  BY <1>2, TokensOfIs
<1> QED BY <1>1, <1>3

\* A text is the DEFAULT marker exactly where the expression is.
LEMMA DefaultIsKept ==
    ASSUME NEW x, IsSink(x), NEW e0 \in Seq(Tokens), NEW w, Carries(x, e0, w), NEW e \in Exprs,
           \A token \in Range(e) : Sourced(x.bare, token)
    PROVE  WriteExpr(x, e, w).t = DefaultKeyword <=> e = DefaultKeyword
<1> DEFINE t == WriteExpr(x, e, w).t
           keyword == Token("default", 0)
<1>1. t \in Seq(TextTokens) /\ Len(t) >= Len(e)
  BY WrittenExpr DEF Written
<1>2. e \in Seq(Tokens) /\ e # <<>> /\ e[1].arity = 0 /\ Len(e) \in Nat /\ Len(e) >= 1
  BY EmptySeq, LenProperties DEF Exprs
<1>3. DefaultKeyword = <<keyword>> /\ Len(<<keyword>>) = 1
  BY DEF DefaultKeyword
<1>4. CASE Len(e) = 1
  <2> DEFINE token == e[1]
             none == <<>>
             s == [w |-> w, t |-> none]
             more == Added(x, token, w.next)
  <2>1. token \in Tokens /\ e = <<token>> /\ e = Append(none, token) /\ token.arity = 0
    <3>1. token \in Tokens
      BY <1>2, <1>4, ElementOfSeq
    <3> HIDE DEF token
    <3>2. <<token>> \in Seq(Tokens) /\ Len(<<token>>) = 1 /\ <<token>>[1] = token /\ <<token>> = Append(none, token)
      BY <3>1
    <3>3. e = <<token>>
      BY <1>4, <3>2, <1>2, SeqEqual DEF token
    <3> QED BY <1>2, <3>1, <3>2, <3>3 DEF token
  <2>2. WriteExpr(x, none, w) = s
    BY WriteExprEmpty
  <2>3. none \in Seq(Tokens) /\ none \in Seq(TextTokens)
    OBVIOUS
  <2>4. s.w = w /\ s.t = none /\ w \in RendererStates /\ w.next \in Nat
    BY DEF Carries, RendererStates
  <2> HIDE DEF token, none, s
  <2>5. WriteExpr(x, e, w) = WriteToken(x, token, s)
    BY <2>1, <2>2, <2>3, WriteExprAppend
  <2>6. t = none \o more
    BY <2>1, <2>3, <2>4, <2>5, TextIsAdded
  <2>7. t = more
    <3>1. more \in Seq(TextTokens)
      BY <2>1, <2>4, AddedIsText
    <3> HIDE DEF more, t
    <3>2. <<>> \o more = more
      BY <3>1, ConcatNothing
    <3> QED BY <2>6, <3>2 DEF none
  <2>8. more = <<keyword>> <=> token = keyword
    <3>1. keyword.op = "default" /\ keyword.arity = 0
      BY DEF Token
    <3>2. \A u, v : <<u>> = <<v>> <=> u = v
      OBVIOUS
    <3> HIDE DEF keyword
    <3>3. CASE IsBinder(token)
      BY <3>3, <3>1, <3>2 DEF Added, Slot, IsBinder
    <3>4. CASE ~ IsBinder(token) /\ token.op = "col"
      <4> DEFINE name == Name(IF x.bare THEN "" ELSE Alias(token.src), token.name)
      <4>1. more = <<name>> /\ name.op = "name"
        BY <3>4 DEF Added, Name
      <4>2. token # keyword
        BY <3>1, <3>4
      <4> HIDE DEF name
      <4> QED BY <3>1, <3>2, <4>1, <4>2
    <3>5. CASE ~ IsBinder(token) /\ token.op # "col"
      BY <2>1, <3>5, <3>2 DEF IsEmptyList, Added
    <3> QED BY <3>3, <3>4, <3>5
  <2>9. <<token>> = <<keyword>> <=> token = keyword
    OBVIOUS
  <2> HIDE DEF keyword, t, more
  <2> QED BY <1>3, <2>1, <2>7, <2>8, <2>9 DEF t
<1>5. CASE Len(e) # 1
  <2>1. Len(t) # 1
    <3>1. Len(t) \in Nat
      BY <1>1, LenProperties
    <3> HIDE DEF t
    <3> QED BY <1>1, <1>2, <1>5, <3>1
  <2> QED BY <1>3, <1>5, <2>1
<1> QED BY <1>4, <1>5

\* Texts that are worth what the expressions are, one by one.
AllMean(e0, ts, es) ==
    /\ Len(ts) = Len(es)
    /\ \A i \in 1 .. Len(es) :
          Means(e0, ts[i], es[i]) /\ (ts[i] = DefaultKeyword <=> es[i] = DefaultKeyword)

\* Texts mean in a longer statement what they mean in this one.
LEMMA AllMeanLonger ==
    ASSUME NEW a \in Seq(Tokens), NEW b \in Seq(Tokens), NEW ts, NEW es, AllMean(a, ts, es)
    PROVE  AllMean(a \o b, ts, es)
<1>1. \A t, e : Means(a, t, e) => Means(a \o b, t, e)
  BY MeansLonger
<1> HIDE DEF Means
<1> QED BY <1>1 DEF AllMean

\* One more text and expression.
LEMMA AllMeanAppend ==
    ASSUME NEW S, NEW T, NEW ts \in Seq(S), NEW es \in Seq(T), NEW t \in S, NEW e \in T, NEW all,
           AllMean(all, ts, es), Means(all, t, e), t = DefaultKeyword <=> e = DefaultKeyword
    PROVE  AllMean(all, Append(ts, t), Append(es, e))
<1> DEFINE us == Append(ts, t)
           fs == Append(es, e)
<1>1. /\ Len(us) = Len(ts) + 1 /\ Len(fs) = Len(es) + 1 /\ Len(es) \in Nat /\ Len(ts) = Len(es)
      /\ \A i \in 1 .. Len(es) : us[i] = ts[i] /\ fs[i] = es[i]
      /\ us[Len(es) + 1] = t /\ fs[Len(es) + 1] = e
  BY DEF AllMean
<1> HIDE DEF us, fs
<1>2. \A i \in 1 .. Len(es) + 1 : i \in 1 .. Len(es) \/ i = Len(es) + 1
  BY <1>1
<1>3. ASSUME NEW i \in 1 .. Len(fs)
      PROVE  Means(all, us[i], fs[i]) /\ (us[i] = DefaultKeyword <=> fs[i] = DefaultKeyword)
  BY <1>1, <1>2 DEF AllMean
<1> QED BY <1>1, <1>3 DEF AllMean, us, fs

\* The expressions es are written after e0.
WrittenAll(x, e0, es, s) ==
    /\ Carries(x, e0 \o FlattenSeq(es), s.w)
    /\ s.t \in Seq(Seq(TextTokens))
    /\ Numbered(Len(Binders(e0)), Len(Binders(e0 \o FlattenSeq(es))), TokensOf(s.t))
    /\ Named(x.bare, TokensOf(s.t), TokensOf(es))
    /\ AllMean(e0 \o FlattenSeq(es), s.t, es)

\* Expressions are sequences of tokens.
LEMMA ExprsAre == Seq(Exprs) \subseteq Seq(Seq(Tokens)) /\ \A e \in Exprs : e \in Seq(Tokens)
<1>1. Exprs \subseteq Seq(Tokens)
  BY DEF Exprs
<1> HIDE DEF Exprs
<1> DEFINE SS == Seq(Tokens)
<1>2. Exprs \subseteq SS
  BY <1>1
<1> HIDE DEF SS
<1>3. Seq(Exprs) \subseteq Seq(SS)
  BY <1>2
<1> QED BY <1>1, <1>3 DEF SS

LEMMA WrittenAllNothing ==
    ASSUME NEW x, NEW e0 \in Seq(Tokens), NEW w, Carries(x, e0, w)
    PROVE  WrittenAll(x, e0, <<>>, [w |-> w, t |-> <<>>])
<1> DEFINE none == <<>>
           s == [w |-> w, t |-> none]
           n == Len(Binders(e0))
<1>1. /\ FlattenSeq(none) = none /\ e0 \o none = e0 /\ TokensOf(none) = {}
      /\ none \in Seq(Seq(TextTokens)) /\ Len(none) = 0
  BY FlattenEmpty, TokensOfEmpty
<1>2. s.w = w /\ s.t = none
  OBVIOUS
<1>3. Numbered(n, n, {})
  BY BindersGrow DEF SlotsOf, Numbered
<1>4. Named(x.bare, {}, {})
  BY DEF Named
<1>5. AllMean(e0, none, none)
  <2> HIDE DEF none
  <2> QED BY <1>1 DEF AllMean
<1> HIDE DEF none, s
<1>6. Numbered(Len(Binders(e0)), Len(Binders(e0 \o FlattenSeq(none))), TokensOf(s.t))
  BY <1>1, <1>2, <1>3
<1>7. WrittenAll(x, e0, none, s)
  BY <1>1, <1>2, <1>4, <1>5, <1>6 DEF WrittenAll
<1> QED BY <1>7 DEF none, s

\* One more expression is written after the list.
LEMMA WrittenNext ==
    ASSUME NEW x, IsSink(x), NEW e0 \in Seq(Tokens), NEW es \in Seq(Exprs), NEW e \in Exprs, NEW s,
           WrittenAll(x, e0, es, s), \A token \in Range(e) : Sourced(x.bare, token)
    PROVE  WrittenAll(x, e0, Append(es, e), WriteNext(x, e, s))
<1> DEFINE fs == Append(es, e)
           written == FlattenSeq(es)
           before == e0 \o written
           after == before \o e
           one == WriteExpr(x, e, s.w)
           v == WriteNext(x, e, s)
           a == Len(Binders(e0))
           b == Len(Binders(before))
           c == Len(Binders(after))
<1>1. /\ es \in Seq(Seq(Tokens)) /\ e \in Seq(Tokens) /\ written \in Seq(Tokens)
      /\ before \in Seq(Tokens) /\ after \in Seq(Tokens)
  <2>1. es \in Seq(Seq(Tokens)) /\ e \in Seq(Tokens)
    BY ExprsAre
  <2>2. written \in Seq(Tokens)
    BY <2>1, FlattenIsSequence
  <2> HIDE DEF written
  <2> QED BY <2>1, <2>2
<1>2. e0 \o FlattenSeq(fs) = after
  <2>1. FlattenSeq(fs) = written \o e
    BY <1>1, FlattenAppend
  <2> HIDE DEF written
  <2>2. e0 \o (written \o e) = (e0 \o written) \o e
    BY ONLY <1>1, e0 \in Seq(Tokens), ConcatAssociative
  <2> QED BY <2>1, <2>2
<1>3. /\ Carries(x, before, s.w) /\ s.t \in Seq(Seq(TextTokens)) /\ Numbered(a, b, TokensOf(s.t))
      /\ Named(x.bare, TokensOf(s.t), TokensOf(es)) /\ AllMean(before, s.t, es)
  BY DEF WrittenAll
<1> HIDE DEF before
<1>4. Written(x, before, e, one)
  BY <1>1, <1>3, WrittenExpr
<1>5. one.t = DefaultKeyword <=> e = DefaultKeyword
  BY <1>1, <1>3, DefaultIsKept
<1>6. v.w = one.w /\ v.t = Append(s.t, one.t)
  BY DEF WriteNext
<1>7. /\ Carries(x, after, one.w) /\ one.t \in Seq(TextTokens) /\ Numbered(b, c, Range(one.t))
      /\ Named(x.bare, Range(one.t), Range(e)) /\ Means(after, one.t, e)
  BY <1>4 DEF Written
<1> HIDE DEF fs, written, after, one, v, a, b, c
<1> DEFINE SS == Seq(TextTokens)
<1>8. s.t \in Seq(SS) /\ one.t \in SS
  BY <1>3, <1>7
<1> HIDE DEF SS
<1>9. v.t \in Seq(SS)
  BY <1>6, <1>8, AppendProperties
<1>10. TokensOf(v.t) = TokensOf(s.t) \cup Range(one.t)
  BY <1>6, <1>8, TokensOfAppend
<1>11. TokensOf(fs) = TokensOf(es) \cup Range(e)
  BY TokensOfAppend DEF fs
<1>12. Numbered(a, c, TokensOf(v.t))
  <2>1. a \in Nat /\ b \in Nat /\ c \in Nat /\ a <= b /\ b <= c
    BY <1>1, BindersGrow DEF a, b, before, c, after
  <2> QED BY <1>3, <1>7, <1>10, <2>1, NumberedUnion
<1>13. Named(x.bare, TokensOf(v.t), TokensOf(fs))
  <2>1. Named(x.bare, TokensOf(s.t) \cup Range(one.t), TokensOf(es) \cup Range(e))
    BY <1>3, <1>7, NamedUnion
  <2> QED BY <1>10, <1>11, <2>1
<1>14. AllMean(after, v.t, fs)
  BY <1>1, <1>3, AllMeanLonger, <1>5, <1>7, <1>8, AllMeanAppend, <1>6 DEF after, fs
<1>15. Carries(x, e0 \o FlattenSeq(fs), v.w) /\ AllMean(e0 \o FlattenSeq(fs), v.t, fs)
  BY <1>2, <1>6, <1>7, <1>14
<1>16. Numbered(Len(Binders(e0)), Len(Binders(e0 \o FlattenSeq(fs))), TokensOf(v.t))
  BY <1>2, <1>12 DEF a, c
<1>17. v.t \in Seq(Seq(TextTokens))
  BY <1>9 DEF SS
<1>18. WrittenAll(x, e0, fs, v)
  BY <1>13, <1>15, <1>16, <1>17 DEF WrittenAll
<1> QED BY <1>18 DEF fs, v

\* A list is written as a whole, its expressions one after another.
LEMMA WrittenList ==
    ASSUME NEW x, IsSink(x), NEW e0 \in Seq(Tokens), NEW w, Carries(x, e0, w), NEW es \in Seq(Exprs),
           \A token \in TokensOf(es) : Sourced(x.bare, token)
    PROVE  WrittenAll(x, e0, es, WriteAll(x, es, w))
<1> DEFINE From0(us) == \A token \in TokensOf(us) : Sourced(x.bare, token)
           T == {us \in Seq(Exprs) : From0(us) => WrittenAll(x, e0, us, WriteAll(x, us, w))}
<1>1. <<>> \in T
  BY WriteAllEmpty, WrittenAllNothing
<1>2. ASSUME NEW us \in Seq(Exprs), us \in T, NEW one \in Exprs PROVE Append(us, one) \in T
  <2> DEFINE f == Append(us, one)
  <2>0. f \in Seq(Exprs)
    OBVIOUS
  <2> SUFFICES ASSUME From0(f)
               PROVE  WrittenAll(x, e0, f, WriteAll(x, f, w))
    <3> HIDE DEF From0, f
    <3> QED BY <2>0 DEF f
  <2>1. TokensOf(f) = TokensOf(us) \cup Range(one)
    BY TokensOfAppend
  <2> HIDE DEF f
  <2>2. From0(us) /\ \A token \in Range(one) : Sourced(x.bare, token)
    BY <2>1
  <2>3. WrittenAll(x, e0, us, WriteAll(x, us, w))
    BY <1>2, <2>2
  <2>4. WriteAll(x, f, w) = WriteNext(x, one, WriteAll(x, us, w))
    BY WriteAllAppend DEF f
  <2>5. WrittenAll(x, e0, f, WriteNext(x, one, WriteAll(x, us, w)))
    BY <2>2, <2>3, WrittenNext DEF f
  <2> QED BY <2>4, <2>5
<1> HIDE DEF T
<1>3. Seq(Exprs) \subseteq T
  BY <1>1, <1>2, SequenceInduction
<1> QED BY <1>3 DEF T

-----------------------------------------------------------------------------
(* Rows of an INSERT.                                                      *)

\* The columns of the tables, and the assignments of them.
Columns == UNION {type.columns : type \in Schemas}
Settings == [col : Columns, value : Exprs]

\* An assignment has a column and a value.
LEMMA ValuesOfIs ==
    ASSUME NEW assigns \in Seq(Settings)
    PROVE  ValuesOf(assigns) \in Seq(Exprs) /\ Len(ValuesOf(assigns)) = Len(assigns)
           /\ ColumnsOf(assigns) \in Seq(Columns) /\ Len(ColumnsOf(assigns)) = Len(assigns)
<1>1. /\ Len(assigns) \in Nat /\ DOMAIN assigns = 1 .. Len(assigns)
      /\ \A i \in 1 .. Len(assigns) : assigns[i].value \in Exprs /\ assigns[i].col \in Columns
  <2>1. Len(assigns) \in Nat /\ DOMAIN assigns = 1 .. Len(assigns)
    BY LenProperties
  <2>2. \A i \in 1 .. Len(assigns) : assigns[i] \in Settings
    BY ElementOfSeq
  <2>3. \A a \in Settings : a.value \in Exprs /\ a.col \in Columns
    BY DEF Settings
  <2> QED BY <2>1, <2>2, <2>3
<1>2. ValuesOf(assigns) \in [1 .. Len(assigns) -> Exprs]
  BY <1>1 DEF ValuesOf
<1>3. ColumnsOf(assigns) \in [1 .. Len(assigns) -> Columns]
  BY <1>1 DEF ColumnsOf
<1>4. ValuesOf(assigns) \in Seq(Exprs) /\ Len(ValuesOf(assigns)) = Len(assigns)
  BY <1>1, <1>2, FunctionIsSequence
<1>5. ColumnsOf(assigns) \in Seq(Columns) /\ Len(ColumnsOf(assigns)) = Len(assigns)
  BY <1>1, <1>3, FunctionIsSequence
<1> QED BY <1>4, <1>5

\* The expressions of rows are those of each row, in order.
LEMMA ExprsOfRowsAppend ==
    ASSUME NEW rows \in Seq(Seq(Settings)), NEW row \in Seq(Settings)
    PROVE  /\ ExprsOfRows(rows) \in Seq(Exprs)
           /\ ExprsOfRows(Append(rows, row)) = ExprsOfRows(rows) \o ValuesOf(row)
<1> DEFINE SS == Seq(Settings)
           EE == Seq(Exprs)
           longer == Append(rows, row)
           lists == [i \in DOMAIN rows |-> ValuesOf(rows[i])]
           more == [i \in DOMAIN longer |-> ValuesOf(longer[i])]
<1>1. \A r \in SS : ValuesOf(r) \in EE
  BY ValuesOfIs
<1>2. rows \in Seq(SS) /\ row \in SS
  OBVIOUS
<1> HIDE DEF SS, EE
<1>3. /\ Len(rows) \in Nat /\ DOMAIN rows = 1 .. Len(rows) /\ longer \in Seq(SS) /\ DOMAIN longer = 1 .. Len(rows) + 1
      /\ \A i \in 1 .. Len(rows) : longer[i] = rows[i] /\ rows[i] \in SS
      /\ longer[Len(rows) + 1] = row
  BY <1>2
<1> HIDE DEF longer
<1>4. lists \in [1 .. Len(rows) -> EE]
  BY <1>1, <1>3
<1>5. more \in [1 .. Len(rows) + 1 -> EE]
  BY <1>3, <1>1
<1>6. \A i \in 1 .. Len(rows) : more[i] = lists[i]
  BY <1>3
<1>7. more[Len(rows) + 1] = ValuesOf(row)
  BY <1>3
<1>8. ExprsOfRows(longer) = FlattenSeq(more) /\ ExprsOfRows(rows) = FlattenSeq(lists)
  BY DEF ExprsOfRows
<1> HIDE DEF more, lists
<1>9. lists \in Seq(EE) /\ Len(lists) = Len(rows) /\ more \in Seq(EE) /\ Len(more) = Len(rows) + 1
  <2>1. Len(rows) + 1 \in Nat
    BY <1>3
  <2> QED BY <1>3, <1>4, <1>5, <2>1, FunctionIsSequence
<1>10. ValuesOf(row) \in EE
  BY <1>1, <1>2
<1>11. more = Append(lists, ValuesOf(row))
  BY <1>6, <1>7, <1>9, <1>10, AppendIs
<1>12. FlattenSeq(more) = FlattenSeq(lists) \o ValuesOf(row) /\ FlattenSeq(lists) \in Seq(Exprs)
  BY <1>9, <1>10, <1>11, FlattenAppend, FlattenIsSequence DEF EE
<1> QED BY <1>8, <1>12 DEF longer

\* The texts of each row are worth what its values are.
RowsMean(e, ts, rows) ==
    /\ Len(ts) = Len(rows)
    /\ \A i \in 1 .. Len(rows) : AllMean(e, ts[i], ValuesOf(rows[i]))

\* The rows of an INSERT, written after e0.
WrittenRows(x, e0, rows, s) ==
    /\ Carries(x, e0 \o FlattenSeq(ExprsOfRows(rows)), s.w)
    /\ s.t \in Seq(Seq(Seq(TextTokens)))
    /\ Numbered(Len(Binders(e0)), Len(Binders(e0 \o FlattenSeq(ExprsOfRows(rows)))),
                TokensOf(FlattenSeq(s.t)))
    /\ RowsMean(e0 \o FlattenSeq(ExprsOfRows(rows)), s.t, rows)

LEMMA WrittenNoRows ==
    ASSUME NEW x, NEW e0 \in Seq(Tokens), NEW w, Carries(x, e0, w)
    PROVE  WrittenRows(x, e0, <<>>, [w |-> w, t |-> <<>>])
<1> DEFINE none == <<>>
           s == [w |-> w, t |-> none]
           n == Len(Binders(e0))
<1>0. ExprsOfRows(none) = none
  <2>1. [i \in DOMAIN none |-> ValuesOf(none[i])] = none
    OBVIOUS
  <2> HIDE DEF none
  <2>2. FlattenSeq(none) = none
    BY FlattenEmpty DEF none
  <2> QED BY <2>1, <2>2 DEF ExprsOfRows
<1>1. /\ FlattenSeq(none) = none /\ e0 \o none = e0 /\ TokensOf(none) = {}
      /\ none \in Seq(Seq(Seq(TextTokens))) /\ Len(none) = 0
  BY FlattenEmpty, TokensOfEmpty
<1>2. s.w = w /\ s.t = none
  OBVIOUS
<1>3. Numbered(n, n, {})
  BY BindersGrow DEF SlotsOf, Numbered
<1>5. RowsMean(e0, none, none)
  <2> HIDE DEF none
  <2> QED BY <1>1 DEF RowsMean
<1> HIDE DEF none, s
<1>6. Numbered(Len(Binders(e0)), Len(Binders(e0 \o FlattenSeq(ExprsOfRows(none)))), TokensOf(FlattenSeq(s.t)))
  BY <1>0, <1>1, <1>2, <1>3
<1>7. WrittenRows(x, e0, none, s)
  BY <1>0, <1>1, <1>2, <1>5, <1>6 DEF WrittenRows
<1> QED BY <1>7 DEF none, s

\* One more row of texts.
LEMMA RowsMeanAppend ==
    ASSUME NEW S, NEW T, NEW ts \in Seq(S), NEW rows \in Seq(T), NEW t \in S, NEW row \in T, NEW all,
           RowsMean(all, ts, rows), AllMean(all, t, ValuesOf(row))
    PROVE  RowsMean(all, Append(ts, t), Append(rows, row))
<1> DEFINE us == Append(ts, t)
           fs == Append(rows, row)
<1>1. /\ Len(us) = Len(ts) + 1 /\ Len(fs) = Len(rows) + 1 /\ Len(rows) \in Nat /\ Len(ts) = Len(rows)
      /\ \A i \in 1 .. Len(rows) : us[i] = ts[i] /\ fs[i] = rows[i]
      /\ us[Len(rows) + 1] = t /\ fs[Len(rows) + 1] = row
  BY DEF RowsMean
<1> HIDE DEF us, fs
<1>2. \A i \in 1 .. Len(rows) + 1 : i \in 1 .. Len(rows) \/ i = Len(rows) + 1
  BY <1>1
<1>3. ASSUME NEW i \in 1 .. Len(fs) PROVE AllMean(all, us[i], ValuesOf(fs[i]))
  BY <1>1, <1>2 DEF RowsMean
<1> QED BY <1>1, <1>3 DEF RowsMean, us, fs

\* Rows mean in a longer statement what they mean in this one.
LEMMA RowsMeanLonger ==
    ASSUME NEW a \in Seq(Tokens), NEW b \in Seq(Tokens), NEW ts, NEW rows, RowsMean(a, ts, rows)
    PROVE  RowsMean(a \o b, ts, rows)
<1>1. \A t, e : AllMean(a, t, e) => AllMean(a \o b, t, e)
  BY AllMeanLonger
<1> HIDE DEF AllMean
<1> QED BY <1>1 DEF RowsMean

\* One more row is written after the rows, each value in the place of its column.
LEMMA WrittenRow ==
    ASSUME NEW x, IsSink(x), NEW e0 \in Seq(Tokens), NEW rows \in Seq(Seq(Settings)),
           NEW row \in Seq(Settings), NEW s, NEW width, Len(row) = width,
           WrittenRows(x, e0, rows, s), \A token \in TokensOf(ValuesOf(row)) : Sourced(x.bare, token)
    PROVE  WrittenRows(x, e0, Append(rows, row), WriteRow(x, width, row, s))
<1> DEFINE longer == Append(rows, row)
           es == ExprsOfRows(rows)
           values == ValuesOf(row)
           written == FlattenSeq(es)
           before == e0 \o written
           after == before \o FlattenSeq(values)
           one == WriteAll(x, values, s.w)
           v == WriteRow(x, width, row, s)
           a == Len(Binders(e0))
           b == Len(Binders(before))
           c == Len(Binders(after))
<1>1. es \in Seq(Exprs) /\ values \in Seq(Exprs) /\ ExprsOfRows(longer) = es \o values
  BY ExprsOfRowsAppend, ValuesOfIs
<1> HIDE DEF es, values, longer
<1>2. es \in Seq(Seq(Tokens)) /\ values \in Seq(Seq(Tokens))
  BY <1>1, ExprsAre
<1>3. written \in Seq(Tokens) /\ FlattenSeq(values) \in Seq(Tokens)
  BY <1>2, FlattenIsSequence
<1>4. FlattenSeq(es \o values) = written \o FlattenSeq(values)
  BY <1>2, FlattenConcat
<1> HIDE DEF written
<1>5. before \in Seq(Tokens) /\ after \in Seq(Tokens)
  BY <1>3
<1>6. e0 \o FlattenSeq(ExprsOfRows(longer)) = after
  <2>1. e0 \o (written \o FlattenSeq(values)) = (e0 \o written) \o FlattenSeq(values)
    <3> DEFINE more == FlattenSeq(values)
    <3>1. more \in Seq(Tokens)
      BY <1>3
    <3> HIDE DEF more
    <3>2. written \in Seq(Tokens)
      BY <1>3
    <3>3. e0 \in Seq(Tokens)
      OBVIOUS
    <3>4. e0 \o (written \o more) = (e0 \o written) \o more
      BY ONLY <3>1, <3>2, <3>3, ConcatAssociative
    <3> QED BY <3>4 DEF more
  <2> QED BY <1>1, <1>4, <2>1
<1>7. /\ Carries(x, before, s.w) /\ s.t \in Seq(Seq(Seq(TextTokens)))
      /\ Numbered(a, b, TokensOf(FlattenSeq(s.t))) /\ RowsMean(before, s.t, rows)
  BY DEF WrittenRows, written, es
<1> HIDE DEF before
<1>8. WrittenAll(x, before, values, one)
  BY <1>1, <1>5, <1>7, WrittenList DEF values
<1>9. v.w = one.w /\ v.t = Append(s.t, one.t)
  BY DEF WriteRow, values
<1>10. /\ Carries(x, after, one.w) /\ one.t \in Seq(Seq(TextTokens)) /\ Numbered(b, c, TokensOf(one.t))
       /\ AllMean(after, one.t, values)
  BY <1>8 DEF WrittenAll
<1> HIDE DEF after, one, v, a, b, c
<1> DEFINE TT == Seq(TextTokens)
           SS == Seq(TT)
<1>11. s.t \in Seq(Seq(TT)) /\ one.t \in Seq(TT)
  BY <1>7, <1>10
<1> HIDE DEF TT
<1>12. FlattenSeq(v.t) = FlattenSeq(s.t) \o one.t /\ FlattenSeq(s.t) \in Seq(TT)
  BY <1>9, <1>11, FlattenAppend, FlattenIsSequence
<1>13. TokensOf(FlattenSeq(v.t)) = TokensOf(FlattenSeq(s.t)) \cup TokensOf(one.t)
  BY <1>11, <1>12, TokensOfConcat
<1>14. s.t \in Seq(SS) /\ one.t \in SS
  BY <1>11
<1> HIDE DEF SS
<1>15. v.t \in Seq(SS)
  BY <1>9, <1>14, AppendProperties
<1>16. Numbered(a, c, TokensOf(FlattenSeq(v.t)))
  <2>1. a \in Nat /\ b \in Nat /\ c \in Nat /\ a <= b /\ b <= c
    BY <1>3, BindersGrow, <1>5 DEF a, b, before, c, after
  <2>2. Numbered(a, c, TokensOf(FlattenSeq(s.t)) \cup TokensOf(one.t))
    BY <1>7, <1>10, <2>1, NumberedUnion
  <2> QED BY <1>13, <2>2
<1>17. RowsMean(after, v.t, longer)
  <2>1. RowsMean(after, s.t, rows)
    BY <1>3, <1>5, <1>7, RowsMeanLonger DEF after
  <2>2. AllMean(after, one.t, ValuesOf(row))
    BY <1>10 DEF values
  <2> DEFINE RR == Seq(Settings)
  <2>3. rows \in Seq(RR) /\ row \in RR
    OBVIOUS
  <2> HIDE DEF RR
  <2>4. RowsMean(after, Append(s.t, one.t), Append(rows, row))
    BY <1>14, <2>1, <2>2, <2>3, RowsMeanAppend
  <2> QED BY <1>9, <2>4 DEF longer
<1>18. v.t \in Seq(Seq(Seq(TextTokens)))
  BY <1>15 DEF SS, TT
<1>19. /\ Carries(x, e0 \o FlattenSeq(ExprsOfRows(longer)), v.w)
       /\ RowsMean(e0 \o FlattenSeq(ExprsOfRows(longer)), v.t, longer)
  BY <1>6, <1>9, <1>10, <1>17
<1>20. Numbered(Len(Binders(e0)), Len(Binders(e0 \o FlattenSeq(ExprsOfRows(longer)))),
                TokensOf(FlattenSeq(v.t)))
  BY <1>6, <1>16 DEF a, c
<1>21. WrittenRows(x, e0, longer, v)
  BY <1>18, <1>19, <1>20 DEF WrittenRows
<1> QED BY <1>21 DEF longer, v

\* So rows are written, row by row.
LEMMA WrittenRowList ==
    ASSUME NEW x, IsSink(x), NEW e0 \in Seq(Tokens), NEW w, Carries(x, e0, w),
           NEW rows \in Seq(Seq(Settings)), NEW width,
           \A row \in Range(rows) :
              Len(row) = width /\ \A token \in TokensOf(ValuesOf(row)) : Sourced(x.bare, token)
    PROVE  WrittenRows(x, e0, rows, WriteRows(x, width, rows, w))
<1> DEFINE Fine(row) == Len(row) = width /\ \A token \in TokensOf(ValuesOf(row)) : Sourced(x.bare, token)
           AllFine(us) == \A row \in Range(us) : Fine(row)
           RR == Seq(Settings)
           T == {us \in Seq(RR) : AllFine(us) => WrittenRows(x, e0, us, WriteRows(x, width, us, w))}
<1>1. <<>> \in T
  BY WriteRowsEmpty, WrittenNoRows
<1>2. ASSUME NEW us \in Seq(RR), us \in T, NEW one \in RR PROVE Append(us, one) \in T
  <2> DEFINE f == Append(us, one)
  <2> HIDE DEF RR, Fine
  <2>0. f \in Seq(RR) /\ Range(f) = Range(us) \cup {one}
    BY RangeOfAppend, AppendProperties
  <2>1. ASSUME AllFine(f) PROVE WrittenRows(x, e0, f, WriteRows(x, width, f, w))
    <3> HIDE DEF f
    <3>1. AllFine(us) /\ Fine(one)
      BY <2>0, <2>1
    <3>2. WrittenRows(x, e0, us, WriteRows(x, width, us, w))
      BY <1>2, <3>1
    <3>3. WriteRows(x, width, f, w) = WriteRow(x, width, one, WriteRows(x, width, us, w))
      BY WriteRowsAppend DEF f
    <3>4. us \in Seq(Seq(Settings)) /\ one \in Seq(Settings)
      BY DEF RR
    <3>5. WrittenRows(x, e0, f, WriteRow(x, width, one, WriteRows(x, width, us, w)))
      BY <3>1, <3>2, <3>4, WrittenRow DEF f, Fine
    <3> QED BY <3>3, <3>5
  <2> HIDE DEF f, AllFine
  <2>2. f \in T
    BY <2>0, <2>1
  <2> QED BY <2>2 DEF f
<1> HIDE DEF T, RR
<1>3. Seq(RR) \subseteq T
  BY <1>1, <1>2, SequenceInduction
<1>4. rows \in Seq(RR) /\ AllFine(rows)
  BY DEF RR
<1> HIDE DEF AllFine
<1> QED BY <1>3, <1>4 DEF T

-----------------------------------------------------------------------------
(* Up to three lists of a statement, one after another.                    *)

\* A rendering: the dialect, the sink, and whether names go without an alias.
Context(d, sink, bare) == [d |-> d, sink |-> sink, bare |-> bare]
Sinks == {"text", "params", "prepared"}

\* Whether names have aliases does not change what is bound.
LEMMA CarriesBare ==
    ASSUME NEW d, NEW sink, NEW a, NEW b, NEW e, NEW w, Carries(Context(d, sink, a), e, w)
    PROVE  Carries(Context(d, sink, b), e, w)
BY DEF Carries, Context, Collects

\* The statement's parameters: as many as it binds, and each what it stands for.
Supplies(params, given, e) == Fits(params, given, e) /\ Len(params) = Len(Binders(e))

\* The texts ts stand for es in a statement that binds what e does.
Stands(ts, es, bare, e) ==
    /\ ts \in Seq(Seq(TextTokens)) /\ es \in Seq(Exprs)
    /\ Named(bare, TokensOf(ts), TokensOf(es))
    /\ AllMean(e, ts, es)

\* Lists one after the other, flattened.
LEMMA FlattenExprs ==
    ASSUME NEW es \in Seq(Exprs), NEW fs \in Seq(Exprs)
    PROVE  /\ FlattenSeq(es) \in Seq(Tokens) /\ es \o fs \in Seq(Exprs)
           /\ FlattenSeq(es \o fs) = FlattenSeq(es) \o FlattenSeq(fs)
BY ExprsAre, ConcatProperties, FlattenIsSequence, FlattenConcat

\* Every handle of a list has a source, and the first one where names are bare.
AllSourced(bare, es) == \A token \in TokensOf(es) : Sourced(bare, token)

\* Three lists are written one after another, the third without aliases where bare.
ThreeStand(d, sink, bare, L1, L2, L3) ==
    LET x  == Context(d, sink, FALSE)
        s1 == WriteAll(x, L1, Fresh)
        s2 == WriteAll(x, L2, s1.w)
        s3 == WriteAll(Context(d, sink, bare), L3, s2.w)
        e  == FlattenSeq((L1 \o L2) \o L3)
    IN  /\ Carries(x, e, s3.w)
        /\ e \in Seq(Tokens)
        /\ Stands(s1.t, L1, FALSE, e) /\ Stands(s2.t, L2, FALSE, e) /\ Stands(s3.t, L3, bare, e)
        /\ Numbered(0, Len(Binders(e)), TokensOf((s1.t \o s2.t) \o s3.t))

\* Lists written one after the other share one numbering, and each means its own.
LEMMA ThreeLists ==
    ASSUME NEW d, NEW sink \in Sinks, NEW bare,
           NEW L1 \in Seq(Exprs), NEW L2 \in Seq(Exprs), NEW L3 \in Seq(Exprs),
           AllSourced(FALSE, L1), AllSourced(FALSE, L2), AllSourced(bare, L3)
    PROVE  ThreeStand(d, sink, bare, L1, L2, L3)
<1> DEFINE x == Context(d, sink, FALSE)
           y == Context(d, sink, bare)
           s1 == WriteAll(x, L1, Fresh)
           s2 == WriteAll(x, L2, s1.w)
           s3 == WriteAll(y, L3, s2.w)
           e == FlattenSeq((L1 \o L2) \o L3)
<1> SUFFICES /\ Carries(x, e, s3.w)
             /\ e \in Seq(Tokens)
             /\ Stands(s1.t, L1, FALSE, e) /\ Stands(s2.t, L2, FALSE, e) /\ Stands(s3.t, L3, bare, e)
             /\ Numbered(0, Len(Binders(e)), TokensOf((s1.t \o s2.t) \o s3.t))
  BY DEF ThreeStand
<1>a. /\ \A token \in TokensOf(L1) : Sourced(FALSE, token)
      /\ \A token \in TokensOf(L2) : Sourced(FALSE, token)
      /\ \A token \in TokensOf(L3) : Sourced(bare, token)
  BY DEF AllSourced
<1>b. /\ x = Context(d, sink, FALSE) /\ y = Context(d, sink, bare)
      /\ s1 = WriteAll(x, L1, Fresh) /\ s2 = WriteAll(x, L2, s1.w)
      /\ s3 = WriteAll(y, L3, s2.w) /\ e = FlattenSeq((L1 \o L2) \o L3)
  OBVIOUS
<1> HIDE DEF x, y, s1, s2, s3, e
<1> DEFINE none == <<>>
           f1 == FlattenSeq(L1)
           f2 == FlattenSeq(L2)
           f3 == FlattenSeq(L3)
           e2 == f1 \o f2
           e3 == e2 \o f3
           n1 == Len(Binders(f1))
           n2 == Len(Binders(e2))
           n3 == Len(Binders(e3))
<1>1. f1 \in Seq(Tokens) /\ f2 \in Seq(Tokens) /\ f3 \in Seq(Tokens)
  BY FlattenExprs
<1>2. e = e3
  <2> USE <1>b
  <2> DEFINE L12 == L1 \o L2
  <2>1. L12 \in Seq(Exprs) /\ FlattenSeq(L12) = e2
    BY FlattenExprs
  <2> HIDE DEF L12
  <2>2. FlattenSeq(L12 \o L3) = FlattenSeq(L12) \o f3
    BY <2>1, FlattenExprs
  <2> QED BY <2>1, <2>2 DEF L12
<1>3. IsSink(x) /\ IsSink(y) /\ x.bare = FALSE /\ y.bare = bare
  BY <1>b DEF IsSink, Context, Sinks
<1>4. Carries(x, none, Fresh) /\ none \in Seq(Tokens)
  <2>1. Carries(x, <<>>, Fresh)
    <3>1. x.sink \in {"text", "params", "prepared"}
      BY <1>3 DEF IsSink
    <3> QED BY ONLY <3>1, CarriesNothing
  <2>2. <<>> \in Seq(Tokens)
    OBVIOUS
  <2> QED BY <2>1, <2>2
<1> HIDE DEF f1, f2, f3
<1>5. e2 \in Seq(Tokens) /\ e3 \in Seq(Tokens) /\ none \o f1 = f1
  BY <1>1
<1>6. Binders(none) = none /\ Len(none) = 0
  BY AmongNothing DEF Binders
<1> HIDE DEF none
<1>7. WrittenAll(x, none, L1, s1)
  BY <1>a, <1>b, <1>3, <1>4, WrittenList
<1>8. /\ Carries(x, f1, s1.w) /\ s1.t \in Seq(Seq(TextTokens)) /\ Numbered(0, n1, TokensOf(s1.t))
      /\ Named(FALSE, TokensOf(s1.t), TokensOf(L1)) /\ AllMean(f1, s1.t, L1)
  BY <1>5, <1>6, <1>3, <1>7 DEF f1, WrittenAll
<1>9. WrittenAll(x, f1, L2, s2)
  BY <1>a, <1>b, <1>1, <1>3, <1>8, WrittenList
<1>10. /\ Carries(x, e2, s2.w) /\ s2.t \in Seq(Seq(TextTokens)) /\ Numbered(n1, n2, TokensOf(s2.t))
       /\ Named(FALSE, TokensOf(s2.t), TokensOf(L2)) /\ AllMean(e2, s2.t, L2)
  BY <1>3, <1>9 DEF WrittenAll, f2
<1> HIDE DEF e2
<1>11. Carries(y, e2, s2.w)
  BY <1>b, <1>10, CarriesBare
<1>12. WrittenAll(y, e2, L3, s3)
  BY <1>a, <1>b, <1>3, <1>5, <1>11, WrittenList
<1>13. /\ Carries(y, e3, s3.w) /\ s3.t \in Seq(Seq(TextTokens)) /\ Numbered(n2, n3, TokensOf(s3.t))
       /\ Named(bare, TokensOf(s3.t), TokensOf(L3)) /\ AllMean(e3, s3.t, L3)
  BY <1>3, <1>12 DEF WrittenAll, f3
<1>14. Carries(x, e3, s3.w)
  BY <1>b, <1>13, CarriesBare
<1>15. AllMean(e2, s1.t, L1)
  BY <1>1, <1>8, AllMeanLonger DEF e2
<1>16. AllMean(e3, s1.t, L1) /\ AllMean(e3, s2.t, L2)
  BY <1>1, <1>5, <1>10, <1>15, AllMeanLonger DEF e3
<1>17. n1 \in Nat /\ n2 \in Nat /\ n3 \in Nat /\ n1 <= n2 /\ n2 <= n3 /\ 0 <= n1
  <2>1. n1 \in Nat /\ n2 \in Nat /\ n1 <= n2
    BY <1>1, BindersGrow DEF e2
  <2>2. n2 \in Nat /\ n3 \in Nat /\ n2 <= n3
    BY <1>1, <1>5, BindersGrow DEF e3
  <2> QED BY <2>1, <2>2
<1> HIDE DEF e3, n1, n2, n3
<1> DEFINE TT == Seq(TextTokens)
           t12 == s1.t \o s2.t
<1>18. s1.t \in Seq(TT) /\ s2.t \in Seq(TT) /\ s3.t \in Seq(TT)
  BY <1>8, <1>10, <1>13
<1> HIDE DEF TT
<1>19. t12 \in Seq(TT) /\ TokensOf(t12) = TokensOf(s1.t) \cup TokensOf(s2.t)
  <2> DEFINE a == s1.t
             b == s2.t
  <2>1. a \in Seq(TT) /\ b \in Seq(TT)
    BY <1>18
  <2> HIDE DEF a, b
  <2>2. a \o b \in Seq(TT)
    BY <2>1, ConcatProperties
  <2>3. TokensOf(a \o b) = TokensOf(a) \cup TokensOf(b)
    BY <2>1, TokensOfConcat
  <2> QED BY <2>2, <2>3 DEF a, b
<1> HIDE DEF t12
<1>20. TokensOf(t12 \o s3.t) = TokensOf(t12) \cup TokensOf(s3.t)
  <2> DEFINE b == s3.t
  <2>1. b \in Seq(TT)
    BY <1>18
  <2> HIDE DEF b
  <2>2. t12 \in Seq(TT)
    BY <1>19
  <2>3. TokensOf(t12 \o b) = TokensOf(t12) \cup TokensOf(b)
    BY ONLY <2>1, <2>2, TokensOfConcat
  <2> QED BY <2>3 DEF b
<1>21. Numbered(0, n2, TokensOf(t12))
  <2>1. 0 \in Nat
    OBVIOUS
  <2>2. Numbered(0, n2, TokensOf(s1.t) \cup TokensOf(s2.t))
    BY <1>8, <1>10, <1>17, <2>1, NumberedUnion
  <2> QED BY <1>19, <2>2
<1>22. Numbered(0, n3, TokensOf(t12 \o s3.t))
  <2>1. 0 \in Nat /\ 0 <= n2
    BY <1>17
  <2>2. Numbered(0, n3, TokensOf(t12) \cup TokensOf(s3.t))
    BY <1>13, <1>17, <1>21, <2>1, NumberedUnion
  <2> QED BY <1>20, <2>2
<1>23. Stands(s1.t, L1, FALSE, e) /\ Stands(s2.t, L2, FALSE, e) /\ Stands(s3.t, L3, bare, e)
  BY <1>2, <1>8, <1>10, <1>13, <1>16 DEF Stands
<1> QED BY <1>2, <1>5, <1>14, <1>22, <1>23 DEF n3, t12

-----------------------------------------------------------------------------
(* What the server makes of a text, the program means.                     *)

\* Texts that mean the expressions are worth the same on any rows, for parameters that fit.
LEMMA MeansSame ==
    ASSUME NEW ts \in Seq(Seq(TextTokens)), NEW es \in Seq(Exprs), NEW e, AllMean(e, ts, es),
           NEW params, NEW given, Fits(params, given, e)
    PROVE  /\ DOMAIN ts = 1 .. Len(es) /\ DOMAIN es = 1 .. Len(es) /\ Len(ts) = Len(es) /\ Len(es) \in Nat
           /\ \A rows : \A i \in 1 .. Len(es) :
                 Eval(ts[i], [rows |-> rows, params |-> params]) = Eval(es[i], [rows |-> rows, params |-> given])
           /\ \A i \in 1 .. Len(es) : ts[i] = DefaultKeyword <=> es[i] = DefaultKeyword
BY LenProperties DEF AllMean, Means, Eval

\* So are the texts of a list.
LEMMA EvalSame ==
    ASSUME NEW ts, NEW es, NEW bare, NEW e, Stands(ts, es, bare, e),
           NEW params, NEW given, Fits(params, given, e)
    PROVE  /\ DOMAIN ts = 1 .. Len(es) /\ DOMAIN es = 1 .. Len(es) /\ Len(ts) = Len(es) /\ Len(es) \in Nat
           /\ \A rows : \A i \in 1 .. Len(es) :
                 Eval(ts[i], [rows |-> rows, params |-> params]) = Eval(es[i], [rows |-> rows, params |-> given])
           /\ \A i \in 1 .. Len(es) : ts[i] = DefaultKeyword <=> es[i] = DefaultKeyword
BY MeansSame DEF Stands

\* A condition holds for the text as for the list of predicates.
LEMMA HoldsSame ==
    ASSUME NEW ts, NEW es, NEW bare, NEW e, Stands(ts, es, bare, e),
           NEW params, NEW given, Fits(params, given, e), NEW rows
    PROVE  Holds(ts, [rows |-> rows, params |-> params]) <=> Holds(es, [rows |-> rows, params |-> given])
<1> DEFINE env1 == [rows |-> rows, params |-> params]
           env2 == [rows |-> rows, params |-> given]
<1>1. DOMAIN ts = 1 .. Len(es) /\ DOMAIN es = 1 .. Len(es)
  BY EvalSame
<1>2. \A i \in 1 .. Len(es) : Eval(ts[i], env1) = Eval(es[i], env2)
  BY EvalSame
<1> HIDE DEF env1, env2
<1>3. Holds(ts, env1) <=> Holds(es, env2)
  BY <1>1, <1>2 DEF Holds
<1> QED BY <1>3 DEF env1, env2

\* A projection gives the same from the text as from the expressions.
LEMMA ProjectedSame ==
    ASSUME NEW ts, NEW es, NEW bare, NEW e, Stands(ts, es, bare, e),
           NEW params, NEW given, Fits(params, given, e), NEW rows
    PROVE  Projected(ts, rows, params) = Projected(es, rows, given)
<1>1. DOMAIN ts = 1 .. Len(es) /\ DOMAIN es = 1 .. Len(es) /\ Len(ts) = Len(es)
  BY EvalSame
<1>2. ts = <<>> <=> es = <<>>
  BY <1>1, EmptySeq DEF Stands
<1>3. \A r : [i \in DOMAIN ts |-> Eval(ts[i], [rows |-> <<r>>, params |-> params])] =
             [i \in DOMAIN es |-> Eval(es[i], [rows |-> <<r>>, params |-> given])]
  <2> TAKE r
  <2> DEFINE env1 == [rows |-> <<r>>, params |-> params]
             env2 == [rows |-> <<r>>, params |-> given]
  <2>1. \A i \in 1 .. Len(es) : Eval(ts[i], env1) = Eval(es[i], env2)
    BY EvalSame
  <2> HIDE DEF env1, env2
  <2>2. [i \in DOMAIN ts |-> Eval(ts[i], env1)] = [i \in DOMAIN es |-> Eval(es[i], env2)]
    BY <1>1, <2>1
  <2> QED BY <2>2 DEF env1, env2
<1> DEFINE made(r) == [i \in DOMAIN ts |-> Eval(ts[i], [rows |-> <<r>>, params |-> params])]
           meant(r) == [i \in DOMAIN es |-> Eval(es[i], [rows |-> <<r>>, params |-> given])]
<1>4. \A r : made(r) = meant(r)
  BY <1>3
<1>5. Projected(ts, rows, params) = IF ts = <<>> THEN {} ELSE {<<r, made(r)>> : r \in rows}
  BY DEF Projected
<1>6. Projected(es, rows, given) = IF es = <<>> THEN {} ELSE {<<r, meant(r)>> : r \in rows}
  BY DEF Projected
<1> HIDE DEF made, meant
<1>7. {<<r, made(r)>> : r \in rows} = {<<r, meant(r)>> : r \in rows}
  BY <1>4
<1> QED BY <1>2, <1>5, <1>6, <1>7

\* A row of VALUES is filled the same from the text as from the values.
LEMMA FillRowSame ==
    ASSUME NEW ts \in Seq(Seq(TextTokens)), NEW es \in Seq(Exprs), NEW e, AllMean(e, ts, es),
           NEW params, NEW given, Fits(params, given, e), NEW rows, NEW type, NEW columns,
           DOMAIN columns = 1 .. Len(es)
    PROVE  FillRow(type, columns, ts, [rows |-> rows, params |-> params]) =
              FillRow(type, columns, es, [rows |-> rows, params |-> given])
<1> DEFINE env1 == [rows |-> rows, params |-> params]
           env2 == [rows |-> rows, params |-> given]
<1>1. \A i \in 1 .. Len(es) : Eval(ts[i], env1) = Eval(es[i], env2)
  BY MeansSame
<1>2. \A i \in 1 .. Len(es) : ts[i] = DefaultKeyword <=> es[i] = DefaultKeyword
  BY MeansSame
<1> HIDE DEF env1, env2
<1> DEFINE at(list, c) == {i \in DOMAIN columns : columns[i] = c /\ list[i] # DefaultKeyword}
<1>3. \A c : at(ts, c) = at(es, c)
  BY <1>2
<1>4. ASSUME NEW c
      PROVE  (IF at(ts, c) = {} THEN Default(type, c) ELSE Eval(ts[CHOOSE i \in at(ts, c) : TRUE], env1)) =
             (IF at(es, c) = {} THEN Default(type, c) ELSE Eval(es[CHOOSE i \in at(es, c) : TRUE], env2))
  <2> DEFINE A == at(ts, c)
  <2>1. A = at(es, c) /\ A \subseteq 1 .. Len(es)
    BY <1>3
  <2> HIDE DEF A
  <2>2. CASE A = {}
    BY <2>1, <2>2 DEF A
  <2>3. CASE A # {}
    <3> DEFINE k == CHOOSE i \in A : TRUE
    <3>1. k \in 1 .. Len(es)
      BY <2>1, <2>3
    <3> HIDE DEF k
    <3>2. Eval(ts[k], env1) = Eval(es[k], env2)
      BY <1>1, <3>1
    <3> QED BY <2>1, <2>3, <3>2 DEF A, k
  <2> QED BY <2>2, <2>3
<1> DEFINE filled(c) == IF at(ts, c) = {} THEN Default(type, c) ELSE Eval(ts[CHOOSE i \in at(ts, c) : TRUE], env1)
           meant(c) == IF at(es, c) = {} THEN Default(type, c) ELSE Eval(es[CHOOSE i \in at(es, c) : TRUE], env2)
<1>5. FillRow(type, columns, ts, env1) = [c \in type.columns |-> filled(c)]
  BY ONLY DEF FillRow
<1>6. FillRow(type, columns, es, env2) = [c \in type.columns |-> meant(c)]
  BY ONLY DEF FillRow
<1>7. \A c : filled(c) = meant(c)
  BY ONLY <1>4
<1> HIDE DEF filled, meant
<1> QED BY <1>5, <1>6, <1>7 DEF env1, env2

\* A text numbered from 0 up to n is bound by n parameters.
LEMMA BoundBy ==
    ASSUME NEW texts, NEW params, NEW n, Numbered(0, n, TokensOf(texts)), Len(params) = n
    PROVE  Bound(texts, params)
BY DEF Numbered, Bound, SlotsOf

-----------------------------------------------------------------------------
(* Names of a text, and what they are read from.                           *)

\* The handles of a list are of the columns of its sources.
ListReads(es, columns, others) ==
    \A token \in TokensOf(es) :
        token.op = "col" => \/ token.src = 0 /\ token.name \in columns
                            \/ token.src = 1 /\ token.name \in others

\* What reads columns of the sources is of a source.
LEMMA ListIsSourced ==
    ASSUME NEW es, NEW columns, NEW others, ListReads(es, columns, others)
    PROVE  /\ AllSourced(FALSE, es)
           /\ others = {} => \A bare : AllSourced(bare, es)
BY DEF ListReads, Sourced, AllSourced

\* The aliases of the two sources are not the same.
LEMMA AliasesDiffer == Alias(0) = "q0_0" /\ Alias(1) = "q0_1"
BY DEF Alias

\* A name in a text is a column of the source whose alias it has.
LEMMA NamedIs ==
    ASSUME NEW es, NEW ts, NEW columns, NEW others, ListReads(es, columns, others), NEW bare,
           Named(bare, TokensOf(ts), TokensOf(es)), NEW token \in TokensOf(ts), token.op = "name"
    PROVE  IF bare THEN token.alias = "" /\ token.name \in columns \cup others
           ELSE \/ token.alias = Alias(0) /\ token.name \in columns
                \/ token.alias = Alias(1) /\ token.name \in others
<1>1. PICK c \in TokensOf(es) : /\ c.op = "col" /\ token.name = c.name
                                /\ token.alias = IF bare THEN "" ELSE Alias(c.src)
  BY DEF Named
<1>2. \/ c.src = 0 /\ c.name \in columns
      \/ c.src = 1 /\ c.name \in others
  BY <1>1 DEF ListReads
<1> QED BY <1>1, <1>2

\* So the server resolves the names of a statement over one table, over a join, and of a RETURNING
\* that goes without aliases.
LEMMA ResolvesSingle ==
    ASSUME NEW es, NEW ts, NEW columns, ListReads(es, columns, {}), NEW e, Stands(ts, es, FALSE, e)
    PROVE  Resolve(ts, SingleScope(columns))
<1>1. ASSUME NEW token \in TokensOf(ts), token.op = "name"
      PROVE  token.alias = Alias(0) /\ token.name \in columns
  <2>1. Named(FALSE, TokensOf(ts), TokensOf(es))
    BY DEF Stands
  <2>2. PICK c \in TokensOf(es) : c.op = "col" /\ token.name = c.name /\ token.alias = Alias(c.src)
    BY ONLY <1>1, <2>1 DEF Named
  <2> QED BY <2>2 DEF ListReads
<1>2. Alias(0) \in DOMAIN SingleScope(columns) /\ SingleScope(columns)[Alias(0)] = columns
  BY DEF SingleScope
<1> QED BY <1>1, <1>2 DEF Resolve

LEMMA ResolvesJoined ==
    ASSUME NEW es, NEW ts, NEW columns, NEW others, ListReads(es, columns, others),
           NEW e, Stands(ts, es, FALSE, e)
    PROVE  Resolve(ts, JoinedScope(columns, others))
<1>1. ASSUME NEW token \in TokensOf(ts), token.op = "name"
      PROVE  \/ token.alias = Alias(0) /\ token.name \in columns
             \/ token.alias = Alias(1) /\ token.name \in others
  BY <1>1, NamedIs DEF Stands
<1> DEFINE scope == JoinedScope(columns, others)
<1>2. Alias(0) \in DOMAIN scope /\ Alias(1) \in DOMAIN scope
  BY DEF JoinedScope
<1>3. scope[Alias(0)] = columns /\ scope[Alias(1)] = others
  BY AliasesDiffer DEF JoinedScope
<1> HIDE DEF scope
<1>4. Resolve(ts, scope)
  BY <1>1, <1>2, <1>3 DEF Resolve
<1> QED BY <1>4 DEF scope

LEMMA ResolvesBare ==
    ASSUME NEW es, NEW ts, NEW columns, ListReads(es, columns, {}), NEW e, Stands(ts, es, TRUE, e)
    PROVE  Resolve(ts, BareScope(columns))
<1>1. ASSUME NEW token \in TokensOf(ts), token.op = "name"
      PROVE  token.alias = "" /\ token.name \in columns
  <2>1. Named(TRUE, TokensOf(ts), TokensOf(es))
    BY DEF Stands
  <2>2. PICK c \in TokensOf(es) : c.op = "col" /\ token.name = c.name /\ token.alias = ""
    BY ONLY <1>1, <2>1 DEF Named
  <2> QED BY <2>2 DEF ListReads
<1>2. "" \in DOMAIN BareScope(columns) /\ BareScope(columns)[""] = columns
  BY DEF BareScope
<1> QED BY <1>1, <1>2 DEF Resolve

\* Two lists resolve if each does.
LEMMA ResolveTwo ==
    ASSUME NEW S, NEW ts \in Seq(S), NEW us \in Seq(S), NEW scope
    PROVE  Resolve(ts \o us, scope) <=> Resolve(ts, scope) /\ Resolve(us, scope)
BY TokensOfConcat DEF Resolve

\* An expression is worth the same on two rows that agree on the columns it reads.
LEMMA SameWhereRead ==
    ASSUME NEW e \in Seq(Tokens), NEW now, NEW r, NEW o, NEW given,
           \A token \in Range(e) :
              token.op = "col" => \/ token.src = 0 /\ now[token.name] = r[token.name]
                                  \/ token.src = 1
    PROVE  Values(e, [rows |-> <<now, o>>, params |-> given]) =
              Values(e, [rows |-> <<r, o>>, params |-> given])
<1> DEFINE env1 == [rows |-> <<now, o>>, params |-> given]
           env2 == [rows |-> <<r, o>>, params |-> given]
           Agrees(token) == token.op = "col" => \/ token.src = 0 /\ now[token.name] = r[token.name]
                                                \/ token.src = 1
           S == {token \in Tokens : Agrees(token)}
<1>1. e \in Seq(S)
  BY DEF Range
<1>2. ASSUME NEW token \in S, NEW v
      PROVE  Push(token, v, env1) = Push(token, v, env2)
  <2>1. token \in Tokens /\ Agrees(token)
    BY <1>2
  <2>2. token.op \notin {"slot", "name", "const"}
    BY <2>1, TokensAreOfProgram DEF OfProgram
  <2>3. ASSUME NEW u PROVE Worth(token, u, env1) = Worth(token, u, env2)
    BY <2>1, <2>2 DEF Worth
  <2> HIDE DEF env1, env2
  <2>4. token.arity = token.arity
    OBVIOUS
  <2> QED BY <2>3, SamePush
<1> HIDE DEF env1, env2, S
<1> DEFINE Same(u) == Values(u, env1) = Values(u, env2)
           T == {u \in Seq(S) : Same(u)}
<1>3. <<>> \in T
  BY ValuesEmpty
<1>4. ASSUME NEW u \in Seq(S), u \in T, NEW token \in S
      PROVE  Append(u, token) \in T
  BY <1>4, ValuesAppend, <1>2
<1> HIDE DEF T
<1>5. Seq(S) \subseteq T
  BY <1>3, <1>4, SequenceInduction
<1> QED BY <1>1, <1>5 DEF T, env1, env2

-----------------------------------------------------------------------------
(* The assignments of an UPDATE.                                           *)

\* What an assignment gives its column, on the row as it was.
NewValue(type, a, r, o, given) ==
    IF a.value = DefaultKeyword THEN Default(type, a.col)
    ELSE Eval(a.value, [rows |-> <<r, o>>, params |-> given])

\* The row that the assignments make of r: each value is read from the row as it was.
Revised(type, assigns, r, o, given) ==
    [c \in DOMAIN r |->
        LET at == {i \in DOMAIN assigns : assigns[i].col = c}
            v  == assigns[CHOOSE i \in at : TRUE].value
        IN  IF at = {} THEN r[c]
            ELSE IF v = DefaultKeyword THEN Default(type, c)
            ELSE Eval(v, [rows |-> <<r, o>>, params |-> given])]

\* The row after the first k assignments.
Made(type, assigns, r, o, given, k, now) ==
    /\ DOMAIN now = DOMAIN r
    /\ k >= 1 => now = [c \in DOMAIN r |-> now[c]]
    /\ \A c \in DOMAIN r : \A i \in 1 .. k : assigns[i].col = c => now[c] = NewValue(type, assigns[i], r, o, given)
    /\ \A c \in DOMAIN r : (\A i \in 1 .. k : assigns[i].col # c) => now[c] = r[c]

\* No column is assigned twice.
ColumnsOnce(assigns) == \A i, j \in 1 .. Len(assigns) : assigns[i].col = assigns[j].col => i = j

\* No assignment reads a column that one before it assigned.
ReadsBefore(assigns) ==
    \A i, j \in 1 .. Len(assigns) :
        i < j => \A token \in Range(assigns[j].value) :
                    ~ (token.op = "col" /\ token.src = 0 /\ token.name = assigns[i].col)

\* What assignments read of the table are its columns.
ReadsColumns(assigns, columns) ==
    \A j \in 1 .. Len(assigns) : \A token \in Range(assigns[j].value) :
        token.op = "col" => \/ token.src = 0 /\ token.name \in columns
                            \/ token.src = 1

\* One more assignment.
LEMMA MadeNext ==
    ASSUME NEW type, NEW assigns \in Seq(Settings), NEW r, NEW o, NEW given, NEW k \in Nat, k < Len(assigns),
           NEW now, Made(type, assigns, r, o, given, k, now), ColumnsOnce(assigns),
           NEW v, v = NewValue(type, assigns[k + 1], r, o, given)
    PROVE  Made(type, assigns, r, o, given, k + 1, [now EXCEPT ![assigns[k + 1].col] = v])
<1> DEFINE col == assigns[k + 1].col
           new == [now EXCEPT ![col] = v]
           m == k + 1
<1>1. DOMAIN now = DOMAIN r
  BY DEF Made
<1>2. DOMAIN new = DOMAIN r /\ new = [c \in DOMAIN r |-> new[c]]
  BY <1>1
<1>3. \A c \in DOMAIN r : new[c] = IF c = col THEN v ELSE now[c]
  BY <1>1
<1>4. m \in 1 .. Len(assigns) /\ \A i \in 1 .. m : i \in 1 .. Len(assigns) /\ (i \in 1 .. k \/ i = m)
  BY LenProperties
<1>5. k + 1 = m /\ \A i \in 1 .. k : i \in 1 .. m /\ i # m
  OBVIOUS
<1>6. assigns[m].col = col /\ v = NewValue(type, assigns[m], r, o, given)
  OBVIOUS
<1> HIDE DEF new, col, m
<1>7. ASSUME NEW c \in DOMAIN r, NEW i \in 1 .. m, assigns[i].col = c
      PROVE  new[c] = NewValue(type, assigns[i], r, o, given)
  BY <1>3, <1>6, <1>7, <1>4, <1>5 DEF ColumnsOnce, Made
<1>8. ASSUME NEW c \in DOMAIN r, \A i \in 1 .. m : assigns[i].col # c
      PROVE  new[c] = r[c]
  BY <1>4, <1>6, <1>8, <1>5, <1>3 DEF m, Made
<1>9. Made(type, assigns, r, o, given, m, new)
  BY <1>2, <1>7, <1>8 DEF Made
<1> QED BY <1>9 DEF new, col, m

\* After all of them the row is revised.
LEMMA RevisedIsMade ==
    ASSUME NEW type, NEW assigns \in Seq(Settings), assigns # <<>>, NEW r, NEW o, NEW given, NEW now,
           Made(type, assigns, r, o, given, Len(assigns), now)
    PROVE  now = Revised(type, assigns, r, o, given)
<1> DEFINE n == Len(assigns)
           rev == Revised(type, assigns, r, o, given)
<1>1. n \in Nat /\ n >= 1 /\ DOMAIN assigns = 1 .. n
  BY EmptySeq, LenProperties
<1>2. now = [c \in DOMAIN r |-> now[c]]
  BY <1>1 DEF Made
<1>3. \A c \in DOMAIN r : \A i \in 1 .. n : assigns[i].col = c => now[c] = NewValue(type, assigns[i], r, o, given)
  BY DEF Made
<1>4. \A c \in DOMAIN r : (\A i \in 1 .. n : assigns[i].col # c) => now[c] = r[c]
  BY DEF Made
<1> HIDE DEF n
<1>5. ASSUME NEW c \in DOMAIN r PROVE rev[c] = now[c]
  <2> DEFINE at == {i \in DOMAIN assigns : assigns[i].col = c}
             k == CHOOSE i \in at : TRUE
  <2>1. rev[c] = IF at = {} THEN r[c]
                 ELSE IF assigns[k].value = DefaultKeyword THEN Default(type, c)
                 ELSE Eval(assigns[k].value, [rows |-> <<r, o>>, params |-> given])
    BY DEF Revised
  <2>2. at = {i \in 1 .. n : assigns[i].col = c}
    BY <1>1
  <2>3. CASE at = {}
    BY <1>4, <2>1, <2>2, <2>3
  <2>4. CASE at # {}
    <3>1. k \in at
      BY <2>4
    <3> HIDE DEF k
    <3>2. k \in 1 .. n /\ assigns[k].col = c
      BY <2>2, <3>1
    <3>3. now[c] = NewValue(type, assigns[k], r, o, given)
      BY <1>3, <3>2
    <3> QED BY <2>1, <2>4, <3>2, <3>3 DEF NewValue
  <2> QED BY <2>3, <2>4
<1>6. rev = [c \in DOMAIN r |-> rev[c]]
  BY DEF Revised
<1> HIDE DEF rev
<1>7. now = rev
  BY <1>2, <1>5, <1>6
<1> QED BY <1>7 DEF rev

\* The assignments of a statement: texts for columns, qualified by an alias or not.
SetsOf(alias, assigns, ts) ==
    [i \in DOMAIN assigns |-> [alias |-> alias, col |-> assigns[i].col, t |-> ts[i]]]

\* The row does not depend on the order: MySQL assigns from left to right.
InAnyOrder(d, assigns, r) == d = "mysql" => ReadsBefore(assigns) /\ ReadsColumns(assigns, DOMAIN r)

\* MySQL's order of assignments makes no difference where none reads a column assigned before it.
\* The assignments of a text do what the assignments it was written from do.
Assigns(d, type, alias, assigns, ts, params, given) ==
    \A r, o : InAnyOrder(d, assigns, r) =>
        Assigned(d, type, SetsOf(alias, assigns, ts), r, o, params) = Revised(type, assigns, r, o, given)

\* What the server assigns from the text is what the setters say of the row as it was.
LEMMA AssignedIsRevised ==
    ASSUME NEW d, NEW type, NEW assigns \in Seq(Settings), assigns # <<>>, ColumnsOnce(assigns),
           NEW ts, NEW e, Stands(ts, ValuesOf(assigns), FALSE, e),
           NEW params, NEW given, Fits(params, given, e), NEW alias
    PROVE  Assigns(d, type, alias, assigns, ts, params, given)
<1> SUFFICES ASSUME NEW r, NEW o, InAnyOrder(d, assigns, r)
             PROVE  Assigned(d, type, SetsOf(alias, assigns, ts), r, o, params) = Revised(type, assigns, r, o, given)
  BY DEF Assigns
<1> DEFINE n == Len(assigns)
           sets == SetsOf(alias, assigns, ts)
           es == ValuesOf(assigns)
<1>1. n \in Nat /\ DOMAIN assigns = 1 .. n
  BY LenProperties
<1>2. es \in Seq(Exprs) /\ Len(es) = n /\ \A i \in 1 .. n : es[i] = assigns[i].value
  BY <1>1, ValuesOfIs DEF ValuesOf
<1>3. \A rows : \A i \in 1 .. n :
         Eval(ts[i], [rows |-> rows, params |-> params]) = Eval(es[i], [rows |-> rows, params |-> given])
  <2>1. Stands(ts, es, FALSE, e)
    OBVIOUS
  <2> HIDE DEF es
  <2>2. \A rows : \A i \in 1 .. Len(es) :
           Eval(ts[i], [rows |-> rows, params |-> params]) = Eval(es[i], [rows |-> rows, params |-> given])
    BY <2>1 DEF Stands, AllMean, Means, Eval
  <2> QED BY <1>2, <2>2
<1>4. \A i \in 1 .. n : ts[i] = DefaultKeyword <=> es[i] = DefaultKeyword
  <2>1. Stands(ts, es, FALSE, e)
    OBVIOUS
  <2> HIDE DEF es
  <2>2. \A i \in 1 .. Len(es) : ts[i] = DefaultKeyword <=> es[i] = DefaultKeyword
    BY <2>1, EvalSame
  <2> QED BY <1>2, <2>2
<1> DEFINE S == Range(sets)
<1>5. sets \in Seq(S) /\ Len(sets) = n /\ \A i \in 1 .. n : sets[i].col = assigns[i].col /\ sets[i].t = ts[i]
  <2>1. \A i \in 1 .. n : sets[i].col = assigns[i].col /\ sets[i].t = ts[i]
    BY <1>1 DEF SetsOf
  <2>2. DOMAIN sets = 1 .. n /\ sets = [i \in DOMAIN sets |-> sets[i]]
    BY <1>1 DEF SetsOf
  <2>3. sets \in [1 .. n -> S]
    BY <2>2 DEF Range
  <2> HIDE DEF S
  <2> QED BY <1>1, <2>1, <2>3, FunctionIsSequence
<1> HIDE DEF S, es, sets
<1>6. PICK f : AssignedRun(d, type, sets, r, o, params, n, f) /\ Assigned(d, type, sets, r, o, params) = f[n]
  <2>1. sets \in Seq(S)
    BY <1>5
  <2>2. PICK f : /\ AssignedRun(d, type, sets, r, o, params, Len(sets), f)
                 /\ Assigned(d, type, sets, r, o, params) = f[Len(sets)]
    BY ONLY <2>1, AssignedIsLast
  <2>3. AssignedRun(d, type, sets, r, o, params, n, f) /\ Assigned(d, type, sets, r, o, params) = f[n]
    BY <1>5, <2>2
  <2> QED BY <2>3
<1>7. f[0] = r /\ \A k \in Nat : k < n => f[k + 1] = Assign(d, type, sets[k + 1], r, o, params, f[k])
  BY <1>6, <1>1 DEF AssignedRun
<1> DEFINE Good(k) == Made(type, assigns, r, o, given, k, f[k])
           T == {k \in Nat : k <= n => Good(k)}
<1>8. Good(0)
  BY <1>7 DEF Made
<1>9. ASSUME NEW k \in Nat, k < n, Good(k)
      PROVE  Good(k + 1)
  <2> DEFINE now == f[k]
             a == assigns[k + 1]
             base == IF d = "mysql" THEN now ELSE r
             v == IF ts[k + 1] = DefaultKeyword THEN Default(type, a.col)
                  ELSE Eval(ts[k + 1], [rows |-> <<base, o>>, params |-> params])
  <2>1. k + 1 \in 1 .. n
    BY <1>1, <1>9
  <2>2. f[k + 1] = [now EXCEPT ![a.col] = v]
    <3>1. sets[k + 1].col = a.col /\ sets[k + 1].t = ts[k + 1]
      BY <1>5, <2>1
    <3> DEFINE set == sets[k + 1]
    <3>2. f[k + 1] = Assign(d, type, set, r, o, params, now)
      BY <1>7, <1>9
    <3>3. set.col = a.col /\ set.t = ts[k + 1]
      BY <3>1
    <3> HIDE DEF set, now, a
    <3>4. Assign(d, type, set, r, o, params, now) =
            [now EXCEPT ![set.col] =
                IF set.t = DefaultKeyword THEN Default(type, set.col)
                ELSE Eval(set.t, [rows |-> <<base, o>>, params |-> params])]
      BY DEF Assign
    <3> QED BY <3>2, <3>3, <3>4
  <2>3. es[k + 1] = a.value /\ a \in Settings
    BY <1>2, <2>1
  <2>4. a.value \in Seq(Tokens)
    BY <2>3, ExprsAre DEF Settings
  <2>5. Eval(ts[k + 1], [rows |-> <<base, o>>, params |-> params]) =
        Eval(a.value, [rows |-> <<base, o>>, params |-> given])
    BY <1>3, <2>1, <2>3
  <2>6. Eval(a.value, [rows |-> <<base, o>>, params |-> given]) =
        Eval(a.value, [rows |-> <<r, o>>, params |-> given])
    <3>1. CASE d # "mysql"
      BY <3>1
    <3>2. CASE d = "mysql"
      <4>1. ASSUME NEW token \in Range(a.value), token.op = "col"
            PROVE  \/ token.src = 0 /\ now[token.name] = r[token.name]
                   \/ token.src = 1
        BY <2>1, <3>2, <4>1, <1>1, <1>9 DEF ReadsColumns, InAnyOrder, ReadsBefore, Made
      <4> DEFINE x == a.value
      <4>2. x \in Seq(Tokens)
        BY <2>4
      <4>3. \A token \in Range(x) :
               token.op = "col" => \/ token.src = 0 /\ now[token.name] = r[token.name]
                                   \/ token.src = 1
        BY <4>1
      <4> HIDE DEF now, x
      <4>4. Values(x, [rows |-> <<now, o>>, params |-> given]) =
            Values(x, [rows |-> <<r, o>>, params |-> given])
        BY ONLY <4>2, <4>3, SameWhereRead
      <4> QED BY <3>2, <4>4 DEF Eval, x
    <3> QED BY <3>1, <3>2
  <2>7. v = NewValue(type, a, r, o, given)
    BY <1>4, <2>1, <2>3, <2>5, <2>6 DEF NewValue
  <2> HIDE DEF v, now
  <2>8. Made(type, assigns, r, o, given, k, now)
    BY <1>9 DEF now
  <2>9. Made(type, assigns, r, o, given, k + 1, [now EXCEPT ![assigns[k + 1].col] = v])
    BY <1>9, <2>7, <2>8, MadeNext
  <2> QED BY <2>2, <2>9
<1>10. 0 \in T
  BY <1>8
<1>11. ASSUME NEW k \in Nat, k \in T PROVE k + 1 \in T
  BY <1>1, <1>9, <1>11
<1> HIDE DEF T
<1>12. n \in T
  BY <1>1, <1>10, <1>11, Induction
<1>13. Good(n)
  BY <1>1, <1>12 DEF T
<1>14. f[n] = Revised(type, assigns, r, o, given)
  BY <1>13, RevisedIsMade
<1> QED BY <1>6, <1>14 DEF sets

-----------------------------------------------------------------------------
(* The statements stand for what the query lists.                          *)

\* The text of each statement, next to the lists it was rendered from.
UpdateStands(stmt, style, alias, bare, assigns, filters, returning, e) ==
    /\ stmt.verb = "update" /\ stmt.style = style
    /\ stmt.sets = SetsOf(alias, assigns, SetTexts(stmt))
    /\ Stands(SetTexts(stmt), ValuesOf(assigns), FALSE, e)
    /\ Stands(stmt.filters, filters, FALSE, e)
    /\ Stands(stmt.returning, returning, bare, e)
    /\ Numbered(0, Len(Binders(e)), TokensOf((SetTexts(stmt) \o stmt.filters) \o stmt.returning))

DeleteStands(stmt, style, bare, filters, returning, e) ==
    /\ stmt.verb = "delete" /\ stmt.style = style
    /\ Stands(stmt.filters, filters, FALSE, e)
    /\ Stands(stmt.returning, returning, bare, e)
    /\ Numbered(0, Len(Binders(e)), TokensOf(stmt.filters \o stmt.returning))

SelectStands(stmt, columns, exprs, filters, e) ==
    /\ stmt.verb = "insert" /\ stmt.style = "select" /\ stmt.columns = columns /\ stmt.returning = <<>>
    /\ Stands(stmt.select.exprs, exprs, FALSE, e)
    /\ Stands(stmt.select.filters, filters, FALSE, e)
    /\ Numbered(0, Len(Binders(e)), TokensOf(stmt.select.exprs \o stmt.select.filters))

\* Texts that stand for expressions are as many.
LEMMA StandsIs ==
    ASSUME NEW ts, NEW es, NEW bare, NEW e, Stands(ts, es, bare, e)
    PROVE  ts = [i \in DOMAIN ts |-> ts[i]] /\ DOMAIN ts = 1 .. Len(es) /\ Len(ts) = Len(es)
BY LenProperties DEF Stands, AllMean

\* The texts of a SET list are those of its values.
LEMMA AssignmentsStand ==
    ASSUME NEW assigns \in Seq(Settings), NEW ts, NEW e, Stands(ts, ValuesOf(assigns), FALSE, e),
           NEW alias, NEW stmt, stmt.sets = SetsOf(alias, assigns, ts)
    PROVE  SetTexts(stmt) = ts
<1> DEFINE vs == ValuesOf(assigns)
<1>1. Len(vs) = Len(assigns) /\ DOMAIN assigns = 1 .. Len(assigns)
  BY ValuesOfIs, LenProperties
<1>2. Stands(ts, vs, FALSE, e)
  OBVIOUS
<1> HIDE DEF vs
<1>3. ts = [i \in DOMAIN ts |-> ts[i]] /\ DOMAIN ts = 1 .. Len(vs)
  BY ONLY <1>2, StandsIs
<1>4. DOMAIN ts = DOMAIN assigns /\ ts = [i \in DOMAIN ts |-> ts[i]]
  BY <1>1, <1>3
<1>5. DOMAIN stmt.sets = DOMAIN assigns /\ \A i \in DOMAIN assigns : stmt.sets[i].t = ts[i]
  BY DEF SetsOf
<1>6. SetTexts(stmt) = [i \in DOMAIN stmt.sets |-> stmt.sets[i].t]
  BY DEF SetTexts
<1>7. SetTexts(stmt) = [i \in DOMAIN ts |-> ts[i]]
  BY <1>4, <1>5, <1>6
<1> QED BY <1>4, <1>7

-----------------------------------------------------------------------------
(* Queries as the finalizers build them.                                   *)

\* A list of expressions over the sources; the assignments of an UPDATE; and the queries that
\* finalizers build, by their kind.
IsList(es, columns, others) == es \in Seq(Exprs) /\ ListReads(es, columns, others)

AreAssignments(assigns, columns, others) ==
    /\ assigns \in Seq(Settings) /\ assigns # <<>> /\ ColumnsOnce(assigns)
    /\ \A i \in 1 .. Len(assigns) : assigns[i].col \in columns
    /\ IsList(ValuesOf(assigns), columns, others)

UpdateOk(d, type, q) ==
    /\ q.kind = "update"
    /\ AreAssignments(q.assigns, type.columns, {})
    /\ IsList(q.filters, type.columns, {}) /\ IsList(q.returning, type.columns, {})
    /\ d = "mysql" => q.returning = <<>>

UpdateFromOk(d, type, q) ==
    /\ q.kind = "update_from"
    /\ AreAssignments(q.assigns, type.columns, OtherColumns)
    /\ IsList(q.filters, type.columns, OtherColumns)

DeleteOk(d, type, q) ==
    /\ q.kind = "delete"
    /\ IsList(q.filters, type.columns, {}) /\ IsList(q.returning, type.columns, {})
    /\ d = "mysql" => q.returning = <<>>

DeleteUsingOk(d, type, q) == q.kind = "delete_using" /\ IsList(q.filters, type.columns, OtherColumns)

SelectOk(d, type, q) ==
    /\ q.kind = "insert_select" /\ q.columns = q.source.columns
    /\ q.columns \in Seq(Range(q.columns)) /\ Len(q.source.exprs) = Len(q.columns)
    /\ IsList(q.source.exprs, OtherColumns, {}) /\ IsList(q.source.filters, OtherColumns, {})

\* What every query is rendered to.
IsWritten(d, sink, q, e) ==
    Carries(Context(d, sink, FALSE), e, Render(d, sink, q).w) /\ e \in Seq(Tokens)

\* A query is rendered by the writer of its kind.
LEMMA RendersIn ==
    ASSUME NEW d, NEW sink, NEW q
    PROVE  LET x == Context(d, sink, FALSE)
           IN  /\ q.kind = "update" => Render(d, sink, q) = WriteUpdate(x, q)
               /\ q.kind = "update_from" => Render(d, sink, q) = WriteUpdateFrom(x, q)
               /\ q.kind = "delete" => Render(d, sink, q) = WriteDelete(x, q)
               /\ q.kind = "delete_using" => Render(d, sink, q) = WriteDeleteUsing(x, q)
               /\ q.kind = "insert_select" => Render(d, sink, q) = WriteInsertSelect(x, q)
               /\ q.kind = "insert" => Render(d, sink, q) = WriteInsert(x, q)
BY DEF Context, Render

LEMMA ContextIs ==
    ASSUME NEW d, NEW sink, NEW bare
    PROVE  /\ Context(d, sink, FALSE).d = d
           /\ [Context(d, sink, FALSE) EXCEPT !.bare = bare] = Context(d, sink, bare)
BY DEF Context

\* An UPDATE is written with the values first, then the conditions, then what it returns.
LEMMA UpdateIsWritten ==
    ASSUME NEW d, NEW sink \in Sinks, NEW type, NEW q, UpdateOk(d, type, q)
    PROVE  LET e == FlattenSeq(ExprsOf(q))
           IN  /\ IsWritten(d, sink, q, e)
               /\ UpdateStands(Render(d, sink, q).stmt, "single", "", ReturningOmitsTargetAlias(d),
                               q.assigns, q.filters, q.returning, e)
<1> DEFINE bare == ReturningOmitsTargetAlias(d)
           x == Context(d, sink, FALSE)
           y == Context(d, sink, bare)
           L1 == ValuesOf(q.assigns)
           L2 == q.filters
           L3 == q.returning
           s1 == WriteAll(x, L1, Fresh)
           s2 == WriteAll(x, L2, s1.w)
           s3 == WriteAll(y, L3, s2.w)
           e == FlattenSeq((L1 \o L2) \o L3)
           sets == SetsOf("", q.assigns, s1.t)
           wrote == [Blank("update") EXCEPT !.sets = sets, !.filters = s2.t, !.returning = s3.t]
           r == Render(d, sink, q)
<1>1. [x EXCEPT !.bare = bare] = y /\ x.d = d
  BY ContextIs
<1>2. r = WriteUpdate(x, q) /\ FlattenSeq(ExprsOf(q)) = e
  BY RendersIn DEF UpdateOk, ExprsOf
<1>3. WriteUpdate(x, q) = [w |-> s3.w, stmt |-> wrote]
  BY <1>1 DEF WriteUpdate, WriteAssignments, WriteReturning, SetsOf
<1>4. ThreeStand(d, sink, bare, L1, L2, L3)
  <2>1. /\ L1 \in Seq(Exprs) /\ ListReads(L1, type.columns, {})
        /\ L2 \in Seq(Exprs) /\ ListReads(L2, type.columns, {})
        /\ L3 \in Seq(Exprs) /\ ListReads(L3, type.columns, {})
    BY DEF UpdateOk, IsList, AreAssignments
  <2> HIDE DEF L1, L2, L3, bare
  <2>2. AllSourced(FALSE, L1) /\ AllSourced(FALSE, L2) /\ AllSourced(bare, L3)
    BY <2>1, ListIsSourced
  <2> QED BY <2>1, <2>2, ThreeLists
<1>5. /\ Carries(x, e, s3.w) /\ e \in Seq(Tokens)
      /\ Stands(s1.t, L1, FALSE, e) /\ Stands(s2.t, L2, FALSE, e) /\ Stands(s3.t, L3, bare, e)
      /\ Numbered(0, Len(Binders(e)), TokensOf((s1.t \o s2.t) \o s3.t))
  BY <1>4 DEF ThreeStand
<1> HIDE DEF s1, s2, s3
<1>6. /\ wrote.verb = "update" /\ wrote.style = "single" /\ wrote.sets = sets
      /\ wrote.filters = s2.t /\ wrote.returning = s3.t
  <2> HIDE DEF sets
  <2> QED BY DEF Blank
<1> HIDE DEF wrote
<1>7. SetTexts(wrote) = s1.t
  <2>1. q.assigns \in Seq(Settings)
    BY DEF UpdateOk, AreAssignments
  <2> DEFINE ts == s1.t
             vs == q.assigns
  <2>2. wrote.sets = SetsOf("", vs, ts) /\ vs \in Seq(Settings) /\ Stands(ts, ValuesOf(vs), FALSE, e)
    BY <1>5, <1>6, <2>1
  <2> HIDE DEF e, sets, ts, vs
  <2>3. SetTexts(wrote) = ts
    BY ONLY <2>2, AssignmentsStand
  <2> QED BY <2>3 DEF ts
<1>8. UpdateStands(wrote, "single", "", bare, q.assigns, L2, L3, e)
  <2>1. wrote.sets = SetsOf("", q.assigns, SetTexts(wrote))
    BY <1>6, <1>7
  <2> HIDE DEF sets, e, L2, L3, bare
  <2> QED BY <1>5, <1>6, <1>7, <2>1 DEF UpdateStands
<1>9. r.w = s3.w /\ r.stmt = wrote
  <2>1. r = [w |-> s3.w, stmt |-> wrote]
    BY <1>2, <1>3
  <2> HIDE DEF r
  <2> QED BY ONLY <2>1
<1>10. IsWritten(d, sink, q, e)
  BY <1>5, <1>9 DEF IsWritten
<1> QED BY <1>2, <1>8, <1>9, <1>10

-----------------------------------------------------------------------------
(* The other statements.                                                   *)

\* No text stands for no expression.
LEMMA StandsNothing == \A bare, e : Stands(<<>>, <<>>, bare, e)
<1> TAKE bare, e
<1> DEFINE none == <<>>
<1>1. none \in Seq(Seq(TextTokens)) /\ none \in Seq(Exprs) /\ Len(none) = 0
  OBVIOUS
<1>2. TokensOf(none) = {}
  BY TokensOfEmpty
<1> HIDE DEF none
<1>3. Named(bare, TokensOf(none), TokensOf(none))
  BY <1>2 DEF Named
<1>4. AllMean(e, none, none)
  BY <1>1 DEF AllMean
<1>5. Stands(none, none, bare, e)
  BY <1>1, <1>3, <1>4 DEF Stands
<1> QED BY <1>5 DEF none

\* Two lists, the second without aliases where bare.
TwoStand(d, sink, bare, L1, L2) ==
    LET x  == Context(d, sink, FALSE)
        s1 == WriteAll(x, L1, Fresh)
        s2 == WriteAll(Context(d, sink, bare), L2, s1.w)
        e  == FlattenSeq(L1 \o L2)
    IN  /\ Carries(x, e, s2.w)
        /\ e \in Seq(Tokens)
        /\ Stands(s1.t, L1, FALSE, e) /\ Stands(s2.t, L2, bare, e)
        /\ Numbered(0, Len(Binders(e)), TokensOf(s1.t \o s2.t))

\* Two lists, of a statement that has no third.
LEMMA TwoLists ==
    ASSUME NEW d, NEW sink \in Sinks, NEW bare, NEW L1 \in Seq(Exprs), NEW L2 \in Seq(Exprs),
           AllSourced(FALSE, L1), AllSourced(bare, L2)
    PROVE  TwoStand(d, sink, bare, L1, L2)
<1> DEFINE none == <<>>
           x  == Context(d, sink, FALSE)
           y  == Context(d, sink, bare)
           s0 == WriteAll(x, none, Fresh)
           s1 == WriteAll(x, L1, s0.w)
           s2 == WriteAll(y, L2, s1.w)
           t1 == WriteAll(x, L1, Fresh)
           t2 == WriteAll(y, L2, t1.w)
           e  == FlattenSeq((none \o L1) \o L2)
<1>1. none \in Seq(Exprs) /\ none \o L1 = L1
  OBVIOUS
<1>2. AllSourced(FALSE, none)
  BY TokensOfEmpty DEF AllSourced
<1>3. s0 = [w |-> Fresh, t |-> none]
  BY WriteAllEmpty
<1> HIDE DEF none
<1>4. ThreeStand(d, sink, bare, none, L1, L2)
  BY <1>1, <1>2, ThreeLists
<1>5. /\ Carries(x, e, s2.w) /\ e \in Seq(Tokens)
      /\ Stands(s1.t, L1, FALSE, e) /\ Stands(s2.t, L2, bare, e)
      /\ Numbered(0, Len(Binders(e)), TokensOf((s0.t \o s1.t) \o s2.t))
  BY <1>4 DEF ThreeStand
<1> HIDE DEF s0
<1>6. s0.w = Fresh /\ s0.t = none
  BY <1>3
<1>7. s1 = t1 /\ s2 = t2 /\ e = FlattenSeq(L1 \o L2)
  BY <1>1, <1>6
<1> HIDE DEF x, y, s1, s2, t1, t2, e
<1>8. s1.t \in Seq(Seq(TextTokens))
  BY <1>5 DEF Stands
<1>9. (s0.t \o s1.t) \o s2.t = s1.t \o s2.t
  <2> DEFINE a == s1.t
  <2>1. a \in Seq(Seq(TextTokens))
    BY <1>8
  <2> HIDE DEF a
  <2>2. none \o a = a
    BY <2>1 DEF none
  <2> QED BY <1>6, <2>2 DEF a
<1>10. /\ Carries(x, e, t2.w) /\ e \in Seq(Tokens)
       /\ Stands(t1.t, L1, FALSE, e) /\ Stands(t2.t, L2, bare, e)
       /\ Numbered(0, Len(Binders(e)), TokensOf(t1.t \o t2.t))
  BY <1>5, <1>7, <1>9
<1> QED BY <1>7, <1>10 DEF TwoStand, x, y, t1, t2

\* A DELETE is written with its conditions, then what it returns.
LEMMA DeleteIsWritten ==
    ASSUME NEW d, NEW sink \in Sinks, NEW type, NEW q, DeleteOk(d, type, q)
    PROVE  LET e == FlattenSeq(ExprsOf(q))
           IN  /\ IsWritten(d, sink, q, e)
               /\ DeleteStands(Render(d, sink, q).stmt, "single", ReturningOmitsTargetAlias(d),
                               q.filters, q.returning, e)
<1> DEFINE bare == ReturningOmitsTargetAlias(d)
           x == Context(d, sink, FALSE)
           y == Context(d, sink, bare)
           L1 == q.filters
           L2 == q.returning
           s1 == WriteAll(x, L1, Fresh)
           s2 == WriteAll(y, L2, s1.w)
           e == FlattenSeq(L1 \o L2)
           wrote == [Blank("delete") EXCEPT !.filters = s1.t, !.returning = s2.t]
           r == Render(d, sink, q)
<1>1. [x EXCEPT !.bare = bare] = y /\ x.d = d
  BY ContextIs
<1>2. r = WriteDelete(x, q) /\ FlattenSeq(ExprsOf(q)) = e
  BY RendersIn DEF DeleteOk, ExprsOf
<1>3. WriteDelete(x, q) = [w |-> s2.w, stmt |-> wrote]
  BY <1>1 DEF WriteDelete, WriteReturning
<1>4. TwoStand(d, sink, bare, L1, L2)
  <2>1. /\ L1 \in Seq(Exprs) /\ ListReads(L1, type.columns, {})
        /\ L2 \in Seq(Exprs) /\ ListReads(L2, type.columns, {})
    BY DEF DeleteOk, IsList
  <2> HIDE DEF L1, L2, bare
  <2>2. AllSourced(FALSE, L1) /\ AllSourced(bare, L2)
    BY <2>1, ListIsSourced
  <2> QED BY <2>1, <2>2, TwoLists
<1>5. /\ Carries(x, e, s2.w) /\ e \in Seq(Tokens)
      /\ Stands(s1.t, L1, FALSE, e) /\ Stands(s2.t, L2, bare, e)
      /\ Numbered(0, Len(Binders(e)), TokensOf(s1.t \o s2.t))
  BY <1>4 DEF TwoStand
<1> HIDE DEF s1, s2
<1>6. wrote.verb = "delete" /\ wrote.style = "single" /\ wrote.filters = s1.t /\ wrote.returning = s2.t
  BY DEF Blank
<1> HIDE DEF wrote
<1>7. DeleteStands(wrote, "single", bare, L1, L2, e)
  <2> HIDE DEF e, L1, L2, bare
  <2> QED BY <1>5, <1>6 DEF DeleteStands
<1>8. r.w = s2.w /\ r.stmt = wrote
  <2>1. r = [w |-> s2.w, stmt |-> wrote]
    BY <1>2, <1>3
  <2> HIDE DEF r
  <2> QED BY ONLY <2>1
<1>9. IsWritten(d, sink, q, e)
  BY <1>5, <1>8 DEF IsWritten
<1> QED BY <1>2, <1>7, <1>8, <1>9

\* A DELETE over two tables is written with its conditions.
LEMMA DeleteUsingIsWritten ==
    ASSUME NEW d, NEW sink \in Sinks, NEW type, NEW q, DeleteUsingOk(d, type, q)
    PROVE  LET e == FlattenSeq(ExprsOf(q))
           IN  /\ IsWritten(d, sink, q, e)
               /\ DeleteStands(Render(d, sink, q).stmt, DeleteUsingStyle(d), FALSE, q.filters, <<>>, e)
<1> DEFINE none == <<>>
           x == Context(d, sink, FALSE)
           L1 == q.filters
           s1 == WriteAll(x, L1, Fresh)
           s2 == WriteAll(x, none, s1.w)
           e == FlattenSeq(L1 \o none)
           wrote == [Blank("delete") EXCEPT !.style = DeleteUsingStyle(x.d), !.filters = s1.t]
           r == Render(d, sink, q)
<1>1. x.d = d
  BY ContextIs
<1>2. r = WriteDeleteUsing(x, q) /\ ExprsOf(q) = L1
  BY RendersIn DEF DeleteUsingOk, ExprsOf
<1>3. WriteDeleteUsing(x, q) = [w |-> s1.w, stmt |-> wrote]
  BY DEF WriteDeleteUsing
<1>4. s2 = [w |-> s1.w, t |-> none]
  BY WriteAllEmpty
<1>5. L1 \in Seq(Exprs) /\ ListReads(L1, type.columns, OtherColumns)
  BY DEF DeleteUsingOk, IsList
<1>6. TwoStand(d, sink, FALSE, L1, none)
  <2>1. none \in Seq(Exprs)
    OBVIOUS
  <2>2. AllSourced(FALSE, none)
    BY TokensOfEmpty DEF AllSourced
  <2> HIDE DEF L1, none
  <2>3. AllSourced(FALSE, L1)
    BY <1>5, ListIsSourced
  <2> QED BY <1>5, <2>1, <2>2, <2>3, TwoLists
<1>7. /\ Carries(x, e, s2.w) /\ e \in Seq(Tokens)
      /\ Stands(s1.t, L1, FALSE, e) /\ Stands(s2.t, none, FALSE, e)
      /\ Numbered(0, Len(Binders(e)), TokensOf(s1.t \o s2.t))
  BY <1>6 DEF TwoStand
<1> HIDE DEF s1, s2
<1>8. s2.w = s1.w /\ s2.t = none
  BY <1>4
<1>9. e = FlattenSeq(L1)
  BY <1>5, ConcatNothing
<1>10. /\ wrote.verb = "delete" /\ wrote.style = DeleteUsingStyle(d) /\ wrote.filters = s1.t
       /\ wrote.returning = none
  BY <1>1 DEF Blank
<1> HIDE DEF wrote
<1>11. DeleteStands(wrote, DeleteUsingStyle(d), FALSE, L1, none, e)
  <2> HIDE DEF e, L1, none
  <2> QED BY <1>7, <1>8, <1>10 DEF DeleteStands
<1>12. r.w = s1.w /\ r.stmt = wrote
  <2>1. r = [w |-> s1.w, stmt |-> wrote]
    BY <1>2, <1>3
  <2> HIDE DEF r
  <2> QED BY ONLY <2>1
<1>13. IsWritten(d, sink, q, e)
  BY <1>7, <1>8, <1>12 DEF IsWritten
<1> QED BY <1>2, <1>9, <1>11, <1>12, <1>13

\* An INSERT ... SELECT is written with the query's expressions, then its conditions.
LEMMA SelectIsWritten ==
    ASSUME NEW d, NEW sink \in Sinks, NEW type, NEW q, SelectOk(d, type, q)
    PROVE  LET e == FlattenSeq(ExprsOf(q))
           IN  /\ IsWritten(d, sink, q, e)
               /\ SelectStands(Render(d, sink, q).stmt, q.columns, q.source.exprs, q.source.filters, e)
<1> DEFINE x == Context(d, sink, FALSE)
           L1 == q.source.exprs
           L2 == q.source.filters
           s1 == WriteAll(x, L1, Fresh)
           s2 == WriteAll(x, L2, s1.w)
           e == FlattenSeq(L1 \o L2)
           select == [exprs |-> s1.t, filters |-> s2.t]
           wrote == [Blank("insert") EXCEPT !.style = "select", !.columns = q.columns, !.select = select]
           r == Render(d, sink, q)
<1>1. r = WriteInsertSelect(x, q) /\ FlattenSeq(ExprsOf(q)) = e
  BY RendersIn DEF SelectOk, ExprsOf
<1>2. WriteInsertSelect(x, q) = [w |-> s2.w, stmt |-> wrote]
  BY DEF WriteInsertSelect
<1>3. TwoStand(d, sink, FALSE, L1, L2)
  <2>1. /\ L1 \in Seq(Exprs) /\ ListReads(L1, OtherColumns, {})
        /\ L2 \in Seq(Exprs) /\ ListReads(L2, OtherColumns, {})
    BY DEF SelectOk, IsList
  <2> HIDE DEF L1, L2
  <2>2. AllSourced(FALSE, L1) /\ AllSourced(FALSE, L2)
    BY <2>1, ListIsSourced
  <2> QED BY <2>1, <2>2, TwoLists
<1>4. /\ Carries(x, e, s2.w) /\ e \in Seq(Tokens)
      /\ Stands(s1.t, L1, FALSE, e) /\ Stands(s2.t, L2, FALSE, e)
      /\ Numbered(0, Len(Binders(e)), TokensOf(s1.t \o s2.t))
  BY <1>3 DEF TwoStand
<1> HIDE DEF s1, s2
<1>5. select.exprs = s1.t /\ select.filters = s2.t
  OBVIOUS
<1> HIDE DEF select
<1>6. /\ wrote.verb = "insert" /\ wrote.style = "select" /\ wrote.columns = q.columns
      /\ wrote.select = select /\ wrote.returning = <<>>
  BY DEF Blank
<1> HIDE DEF wrote
<1>7. SelectStands(wrote, q.columns, L1, L2, e)
  <2> HIDE DEF e, L1, L2
  <2> QED BY <1>4, <1>5, <1>6 DEF SelectStands
<1>8. r.w = s2.w /\ r.stmt = wrote
  <2>1. r = [w |-> s2.w, stmt |-> wrote]
    BY <1>1, <1>2
  <2> HIDE DEF r
  <2> QED BY ONLY <2>1
<1>9. IsWritten(d, sink, q, e)
  BY <1>4, <1>8 DEF IsWritten
<1> QED BY <1>1, <1>7, <1>8, <1>9

\* The expressions of a query in the order in which they are written.
Order(d, q) ==
    IF q.kind = "update_from" /\ UpdateFromStyle(d) = "join" THEN q.filters \o ValuesOf(q.assigns)
    ELSE ExprsOf(q)

\* An UPDATE over two tables is written in the order of its dialect: MySQL's join has its
\* conditions before the values.
LEMMA UpdateFromIsWritten ==
    ASSUME NEW d, NEW sink \in Sinks, NEW type, NEW q, UpdateFromOk(d, type, q)
    PROVE  LET e == FlattenSeq(Order(d, q))
           IN  /\ IsWritten(d, sink, q, e)
               /\ UpdateStands(Render(d, sink, q).stmt, UpdateFromStyle(d),
                               IF UpdateFromStyle(d) = "join" THEN Alias(0) ELSE "", FALSE,
                               q.assigns, q.filters, <<>>, e)
<1> DEFINE x == Context(d, sink, FALSE)
           V == ValuesOf(q.assigns)
           F == q.filters
           r == Render(d, sink, q)
           none == <<>>
<1>1. x.d = d
  BY ContextIs
<1>2. r = WriteUpdateFrom(x, q) /\ ExprsOf(q) = V \o F /\ q.assigns \in Seq(Settings)
  BY RendersIn DEF UpdateFromOk, ExprsOf, AreAssignments
<1>3. /\ V \in Seq(Exprs) /\ ListReads(V, type.columns, OtherColumns)
      /\ F \in Seq(Exprs) /\ ListReads(F, type.columns, OtherColumns)
  BY DEF UpdateFromOk, IsList, AreAssignments
<1> HIDE DEF V, F
<1>4. AllSourced(FALSE, V) /\ AllSourced(FALSE, F)
  BY <1>3, ListIsSourced
<1>5. CASE UpdateFromStyle(d) = "join"
  <2> DEFINE s1 == WriteAll(x, F, Fresh)
             s2 == WriteAll(x, V, s1.w)
             e == FlattenSeq(F \o V)
             sets == SetsOf(Alias(0), q.assigns, s2.t)
             wrote == [Blank("update") EXCEPT !.style = "join", !.sets = sets, !.filters = s1.t]
  <2>1. WriteUpdateFrom(x, q) = [w |-> s2.w, stmt |-> wrote]
    BY <1>1, <1>5 DEF WriteUpdateFrom, WriteAssignments, SetsOf, V, F
  <2>2. TwoStand(d, sink, FALSE, F, V)
    BY <1>3, <1>4, TwoLists
  <2>3. /\ Carries(x, e, s2.w) /\ e \in Seq(Tokens)
        /\ Stands(s1.t, F, FALSE, e) /\ Stands(s2.t, V, FALSE, e)
        /\ Numbered(0, Len(Binders(e)), TokensOf(s1.t \o s2.t))
    BY <2>2 DEF TwoStand
  <2> HIDE DEF s1, s2, e
  <2>4. /\ wrote.verb = "update" /\ wrote.style = "join" /\ wrote.sets = sets
        /\ wrote.filters = s1.t /\ wrote.returning = none
    <3> HIDE DEF sets
    <3> QED BY DEF Blank
  <2> HIDE DEF wrote
  <2>5. SetTexts(wrote) = s2.t
    <3> DEFINE ts == s2.t
               vs == q.assigns
    <3>1. wrote.sets = SetsOf(Alias(0), vs, ts) /\ vs \in Seq(Settings) /\ Stands(ts, ValuesOf(vs), FALSE, e)
      BY <1>2, <2>3, <2>4 DEF V
    <3> HIDE DEF sets, ts, vs
    <3>2. SetTexts(wrote) = ts
      BY ONLY <3>1, AssignmentsStand
    <3> QED BY <3>2 DEF ts
  <2>6. wrote.sets = SetsOf(Alias(0), q.assigns, SetTexts(wrote))
    BY <2>4, <2>5
  <2> HIDE DEF sets
  <2>7. TokensOf((s2.t \o s1.t) \o none) = TokensOf(s1.t \o s2.t)
    <3> DEFINE a == s1.t
               b == s2.t
               TT == Seq(TextTokens)
    <3>1. a \in Seq(TT) /\ b \in Seq(TT)
      BY <2>3 DEF Stands
    <3> HIDE DEF a, b, TT
    <3>2. b \o a \in Seq(TT)
      BY <3>1, ConcatProperties
    <3>3. (b \o a) \o none = b \o a
      BY <3>2
    <3>4. TokensOf(a \o b) = TokensOf(a) \cup TokensOf(b) /\ TokensOf(b \o a) = TokensOf(b) \cup TokensOf(a)
      BY <3>1, TokensOfConcat
    <3>5. TokensOf((b \o a) \o none) = TokensOf(a \o b)
      BY <3>3, <3>4
    <3> QED BY <3>5 DEF a, b
  <2>8. Stands(none, none, FALSE, e)
    BY StandsNothing
  <2> HIDE DEF none
  <2>9. UpdateStands(wrote, "join", Alias(0), FALSE, q.assigns, F, none, e)
    BY <2>3, <2>4, <2>5, <2>6, <2>7, <2>8 DEF UpdateStands, V
  <2>10. r.w = s2.w /\ r.stmt = wrote
    <3>1. r = [w |-> s2.w, stmt |-> wrote]
      BY <1>2, <2>1
    <3> HIDE DEF r
    <3> QED BY ONLY <3>1
  <2>11. IsWritten(d, sink, q, e)
    BY <2>3, <2>10 DEF IsWritten
  <2>12. FlattenSeq(Order(d, q)) = e
    BY <1>5 DEF Order, UpdateFromOk, e, V, F
  <2> QED BY <1>5, <2>9, <2>10, <2>11, <2>12 DEF F, none
<1>6. CASE UpdateFromStyle(d) # "join"
  <2> DEFINE s1 == WriteAll(x, V, Fresh)
             s2 == WriteAll(x, F, s1.w)
             e == FlattenSeq(V \o F)
             sets == SetsOf("", q.assigns, s1.t)
             wrote == [Blank("update") EXCEPT !.style = "from", !.sets = sets, !.filters = s2.t]
  <2>1. WriteUpdateFrom(x, q) = [w |-> s2.w, stmt |-> wrote]
    BY <1>1, <1>6 DEF WriteUpdateFrom, WriteAssignments, SetsOf, V, F
  <2>2. TwoStand(d, sink, FALSE, V, F)
    BY <1>3, <1>4, TwoLists
  <2>3. /\ Carries(x, e, s2.w) /\ e \in Seq(Tokens)
        /\ Stands(s1.t, V, FALSE, e) /\ Stands(s2.t, F, FALSE, e)
        /\ Numbered(0, Len(Binders(e)), TokensOf(s1.t \o s2.t))
    BY <2>2 DEF TwoStand
  <2> HIDE DEF s1, s2, e
  <2>4. /\ wrote.verb = "update" /\ wrote.style = "from" /\ wrote.sets = sets
        /\ wrote.filters = s2.t /\ wrote.returning = none
    <3> HIDE DEF sets
    <3> QED BY DEF Blank
  <2> HIDE DEF wrote
  <2>5. SetTexts(wrote) = s1.t
    <3> DEFINE ts == s1.t
               vs == q.assigns
    <3>1. wrote.sets = SetsOf("", vs, ts) /\ vs \in Seq(Settings) /\ Stands(ts, ValuesOf(vs), FALSE, e)
      BY <1>2, <2>3, <2>4 DEF V
    <3> HIDE DEF sets, ts, vs
    <3>2. SetTexts(wrote) = ts
      BY ONLY <3>1, AssignmentsStand
    <3> QED BY <3>2 DEF ts
  <2>6. wrote.sets = SetsOf("", q.assigns, SetTexts(wrote))
    BY <2>4, <2>5
  <2> HIDE DEF sets
  <2>7. (s1.t \o s2.t) \o none = s1.t \o s2.t
    <3> DEFINE a == s1.t
               b == s2.t
               TT == Seq(TextTokens)
    <3>1. a \in Seq(TT) /\ b \in Seq(TT)
      BY <2>3 DEF Stands
    <3> HIDE DEF a, b, TT
    <3>2. a \o b \in Seq(TT)
      BY <3>1, ConcatProperties
    <3>3. (a \o b) \o none = a \o b
      BY <3>2
    <3> QED BY <3>3 DEF a, b
  <2>8. Stands(none, none, FALSE, e)
    BY StandsNothing
  <2> HIDE DEF none
  <2>9. UpdateStands(wrote, "from", "", FALSE, q.assigns, F, none, e)
    BY <2>3, <2>4, <2>5, <2>6, <2>7, <2>8 DEF UpdateStands, V
  <2>10. r.w = s2.w /\ r.stmt = wrote
    <3>1. r = [w |-> s2.w, stmt |-> wrote]
      BY <1>2, <2>1
    <3> HIDE DEF r
    <3> QED BY ONLY <3>1
  <2>11. IsWritten(d, sink, q, e)
    BY <2>3, <2>10 DEF IsWritten
  <2>12. FlattenSeq(Order(d, q)) = e
    BY <1>2, <1>6 DEF Order, e
  <2>13. UpdateFromStyle(d) = "from"
    BY <1>6 DEF UpdateFromStyle
  <2> QED BY <1>6, <2>9, <2>10, <2>11, <2>12, <2>13 DEF F, none
<1> QED BY <1>5, <1>6

InsertOk(d, type, q) ==
    /\ q.kind = "insert"
    /\ q.rows \in Seq(Seq(Settings)) /\ q.rows # <<>>
    /\ \A i \in 1 .. Len(q.rows) : /\ ColumnsOf(q.rows[i]) = ColumnsOf(q.rows[1])
                                   /\ ListReads(ValuesOf(q.rows[i]), {}, {})
    /\ IsList(q.returning, type.columns, {})
    /\ d = "mysql" => q.returning = <<>>
    /\ q.conflict.action \in {"none", "nothing", "update"}
    /\ q.conflict.action # "none" /\ ColumnsOf(q.rows[1]) = <<>> => d # "sqlite"

InsertStyle(q) == IF Len(q.rows) = 1 /\ ColumnsOf(q.rows[1]) = <<>> THEN "default row" ELSE "single"

InsertStands(d, stmt, q, e) ==
    /\ stmt.verb = "insert" /\ stmt.style = InsertStyle(q)
    /\ stmt.columns = ColumnsOf(q.rows[1])
    /\ stmt.rows \in Seq(Seq(Seq(TextTokens))) /\ RowsMean(e, stmt.rows, q.rows)
    /\ Stands(stmt.returning, q.returning, TRUE, e)
    /\ stmt.conflict = ConflictText(d, q.conflict, ColumnsOf(q.rows[1]))
    /\ Numbered(0, Len(Binders(e)), TokensOf(FlattenSeq(stmt.rows) \o stmt.returning))

\* Every row of an INSERT has a value for each listed column.
LEMMA RowsAreWide ==
    ASSUME NEW d, NEW type, NEW q, InsertOk(d, type, q), NEW width, width = Len(ColumnsOf(q.rows[1]))
    PROVE  \A row \in Range(q.rows) : Len(row) = width /\ AllSourced(FALSE, ValuesOf(row))
<1> DEFINE rows == q.rows
           SS == Seq(Settings)
<1>1. rows \in Seq(SS)
  BY DEF InsertOk
<1>2. \A i \in 1 .. Len(rows) : ColumnsOf(rows[i]) = ColumnsOf(rows[1]) /\ ListReads(ValuesOf(rows[i]), {}, {})
  BY DEF InsertOk
<1>3. width = Len(ColumnsOf(rows[1]))
  OBVIOUS
<1>4. \A row \in SS : Len(ColumnsOf(row)) = Len(row)
  BY ValuesOfIs
<1> HIDE DEF rows, SS
<1>5. ASSUME NEW row \in Range(rows) PROVE Len(row) = width /\ AllSourced(FALSE, ValuesOf(row))
  <2>1. PICK i \in 1 .. Len(rows) : row = rows[i]
    BY <1>1 DEF Range
  <2>2. row \in SS
    BY <1>1, <2>1
  <2>3. Len(row) = width
    BY <1>2, <1>3, <1>4, <2>1, <2>2
  <2>4. ListReads(ValuesOf(row), {}, {})
    BY <1>2, <2>1
  <2> QED BY <2>3, <2>4, ListIsSourced
<1> QED BY <1>5 DEF rows

\* An INSERT is written with its rows, then what it returns; the clause of a conflict binds
\* nothing.
LEMMA InsertIsWritten ==
    ASSUME NEW d, NEW sink \in Sinks, NEW type, NEW q, InsertOk(d, type, q)
    PROVE  LET e == FlattenSeq(ExprsOf(q))
           IN  /\ IsWritten(d, sink, q, e)
               /\ InsertStands(d, Render(d, sink, q).stmt, q, e)
<1> DEFINE x == Context(d, sink, FALSE)
           y == Context(d, sink, TRUE)
           none == <<>>
           rows == q.rows
           columns == ColumnsOf(q.rows[1])
           width == Len(columns)
           L1 == ExprsOfRows(rows)
           L2 == q.returning
           s1 == WriteRows(x, width, rows, Fresh)
           s2 == WriteAll(y, L2, s1.w)
           f1 == FlattenSeq(L1)
           f2 == FlattenSeq(L2)
           e == FlattenSeq(L1 \o L2)
           conflict == ConflictText(d, q.conflict, columns)
           wrote == [Blank("insert") EXCEPT !.style = InsertStyle(q), !.columns = columns, !.rows = s1.t,
                                            !.returning = s2.t, !.conflict = conflict]
           r == Render(d, sink, q)
           SS == Seq(Settings)
<1>1. x.d = d /\ [x EXCEPT !.bare = TRUE] = y /\ IsSink(x) /\ IsSink(y) /\ x.bare = FALSE /\ y.bare = TRUE
  BY ContextIs DEF IsSink, Context, Sinks
<1>2. r = WriteInsert(x, q) /\ FlattenSeq(ExprsOf(q)) = e
  BY RendersIn DEF InsertOk, ExprsOf
<1>3. ~ s1.w.reject => WriteInsert(x, q) = [w |-> s2.w, stmt |-> wrote]
  BY <1>1 DEF WriteInsert, WriteInsertReturning, InsertStyle
<1>4. rows \in Seq(SS) /\ L2 \in Seq(Exprs) /\ ListReads(L2, type.columns, {})
  BY DEF InsertOk, IsList
<1>5. \A row \in Range(rows) : Len(row) = width /\ AllSourced(FALSE, ValuesOf(row))
  BY RowsAreWide
<1>6. L1 \in Seq(Exprs)
  <2>1. rows \in Seq(Seq(Settings))
    BY <1>4
  <2> HIDE DEF rows, SS
  <2>2. \E row : row \in Seq(Settings)
    <3>1. <<>> \in Seq(Settings)
      OBVIOUS
    <3> QED BY <3>1
  <2> QED BY <2>1, <2>2, ExprsOfRowsAppend
<1> HIDE DEF L1
<1>7. f1 \in Seq(Tokens) /\ f2 \in Seq(Tokens) /\ e = f1 \o f2
  <2> HIDE DEF L2
  <2> QED BY <1>4, <1>6, FlattenExprs
<1> HIDE DEF s1, s2, f1, f2, e, x, y
<1>8. none \in Seq(Tokens) /\ none \o f1 = f1 /\ Len(Binders(none)) = 0
  BY <1>7, AmongNothing DEF Binders
<1>9. Carries(x, none, Fresh)
  BY <1>1, CarriesNothing DEF IsSink
<1> HIDE DEF none
<1>10. WrittenRows(x, none, rows, s1)
  <2>1. \A row \in Range(rows) :
           Len(row) = width /\ \A token \in TokensOf(ValuesOf(row)) : Sourced(x.bare, token)
    BY <1>1, <1>5 DEF AllSourced
  <2>2. rows \in Seq(Seq(Settings))
    BY <1>4
  <2> HIDE DEF rows, SS, width
  <2>3. WrittenRows(x, none, rows, WriteRows(x, width, rows, Fresh))
    BY <1>1, <1>8, <1>9, <2>1, <2>2, WrittenRowList
  <2> QED BY <2>3 DEF s1, rows, width
<1>11. /\ Carries(x, f1, s1.w) /\ s1.t \in Seq(Seq(Seq(TextTokens)))
       /\ Numbered(0, Len(Binders(f1)), TokensOf(FlattenSeq(s1.t)))
       /\ RowsMean(f1, s1.t, rows)
  <2>1. none \o FlattenSeq(ExprsOfRows(rows)) = f1
    BY <1>8 DEF f1, L1
  <2> HIDE DEF rows
  <2> QED BY <1>8, <1>10, <2>1 DEF WrittenRows
<1>12. Carries(y, f1, s1.w)
  BY <1>11, CarriesBare DEF x, y
<1>13. WrittenAll(y, f1, L2, s2)
  <2>1. AllSourced(TRUE, L2)
    <3> HIDE DEF L2
    <3> QED BY <1>4, ListIsSourced
  <2>2. \A token \in TokensOf(L2) : Sourced(y.bare, token)
    BY <1>1, <2>1 DEF AllSourced
  <2> HIDE DEF L2
  <2> QED BY <1>1, <1>4, <1>7, <1>12, <2>2, WrittenList DEF s2
<1>14. /\ Carries(y, e, s2.w) /\ s2.t \in Seq(Seq(TextTokens))
       /\ Numbered(Len(Binders(f1)), Len(Binders(e)), TokensOf(s2.t))
       /\ Named(TRUE, TokensOf(s2.t), TokensOf(L2)) /\ AllMean(e, s2.t, L2)
  <2>1. f1 \o FlattenSeq(L2) = e
    BY <1>7 DEF f2
  <2> HIDE DEF L2
  <2> QED BY <1>1, <1>13, <2>1 DEF WrittenAll
<1>15. Carries(x, e, s2.w)
  BY <1>14, CarriesBare DEF x, y
<1>16. RowsMean(e, s1.t, rows)
  <2> HIDE DEF rows
  <2> QED BY <1>7, <1>11, RowsMeanLonger
<1>17. Stands(s2.t, L2, TRUE, e)
  <2> HIDE DEF L2
  <2> QED BY <1>4, <1>14 DEF Stands
<1>18. Numbered(0, Len(Binders(e)), TokensOf(FlattenSeq(s1.t) \o s2.t))
  <2> DEFINE a == FlattenSeq(s1.t)
             b == s2.t
             TT == Seq(TextTokens)
             m == Len(Binders(f1))
             n == Len(Binders(e))
  <2>1. a \in Seq(TT)
    <3>1. s1.t \in Seq(Seq(TT))
      BY <1>11
    <3> HIDE DEF TT
    <3> QED BY <3>1, FlattenIsSequence
  <2>2. b \in Seq(TT)
    BY <1>14
  <2>3. m \in Nat /\ n \in Nat /\ m <= n /\ 0 \in Nat /\ 0 <= m
    BY <1>7, BindersGrow
  <2>4. Numbered(0, m, TokensOf(a)) /\ Numbered(m, n, TokensOf(b))
    BY <1>11, <1>14
  <2> HIDE DEF a, b, m, n, TT
  <2>5. TokensOf(a \o b) = TokensOf(a) \cup TokensOf(b)
    BY <2>1, <2>2, TokensOfConcat
  <2>6. Numbered(0, n, TokensOf(a) \cup TokensOf(b))
    BY <2>3, <2>4, NumberedUnion
  <2>7. Numbered(0, n, TokensOf(a \o b))
    BY <2>5, <2>6
  <2> QED BY <2>7 DEF a, b, n
<1>19. ~ s1.w.reject
  BY <1>11 DEF Carries
<1>20. /\ wrote.verb = "insert" /\ wrote.style = InsertStyle(q) /\ wrote.columns = columns
       /\ wrote.rows = s1.t /\ wrote.returning = s2.t /\ wrote.conflict = conflict
  <2> HIDE DEF columns, conflict
  <2> QED BY DEF Blank
<1> HIDE DEF wrote
<1>21. r.w = s2.w /\ r.stmt = wrote
  <2>1. r = [w |-> s2.w, stmt |-> wrote]
    BY <1>2, <1>3, <1>19
  <2> HIDE DEF r
  <2> QED BY ONLY <2>1
<1>22. InsertStands(d, wrote, q, e)
  BY <1>11, <1>16, <1>17, <1>18, <1>20 DEF InsertStands
<1>23. IsWritten(d, sink, q, e)
  BY <1>7, ConcatProperties, <1>15, <1>21 DEF IsWritten, x
<1> QED BY <1>2, <1>21, <1>22, <1>23

-----------------------------------------------------------------------------
(* What the server does with an UPDATE or a DELETE.                        *)

\* The rows of the second source that a row is joined with.
Matching(filters, seconds, r, given) ==
    {o \in seconds : Holds(filters, [rows |-> <<r, o>>, params |-> given])}

\* The rows of the second source, or one row of nothing.
Seconds(style, others) == IF style = "single" THEN {<<>>} ELSE others

\* The rows that the conditions keep.
Matched(tab, filters, seconds, given) == {r \in tab : Matching(filters, seconds, r, given) # {}}

\* Each of them is joined with one row that matches.
JoinsBy(f, tab, filters, seconds, given) ==
    \A r \in Matched(tab, filters, seconds, given) : f[r] \in Matching(filters, seconds, r, given)

\* What an UPDATE does, and what a DELETE does, in terms of the lists of the query.
UpdateMeans(type, tab, seconds, assigns, filters, returning, given, result) ==
    \E f : /\ JoinsBy(f, tab, filters, seconds, given)
           /\ result = Replace(type, tab,
                               [r \in Matched(tab, filters, seconds, given) |->
                                  Revised(type, assigns, r, f[r], given)],
                               returning, given)

DeleteMeans(tab, seconds, filters, returning, given, result) ==
    result = Erase(tab, Matched(tab, filters, seconds, given), returning, given)

\* Two projections that give the same return the same.
LEMMA ReplaceSame ==
    ASSUME NEW type, NEW tab, NEW new, NEW p1, NEW p2, NEW a, NEW b,
           \A rows : Projected(p1, rows, a) = Projected(p2, rows, b)
    PROVE  Replace(type, tab, new, p1, a) = Replace(type, tab, new, p2, b)
BY DEF Replace

\* A text returns what its expressions return.
LEMMA AllProjectedSame ==
    ASSUME NEW ts, NEW es, NEW bare, NEW e, Stands(ts, es, bare, e),
           NEW params, NEW given, Fits(params, given, e)
    PROVE  \A rows : Projected(ts, rows, params) = Projected(es, rows, given)
BY ProjectedSame

\* A text matches the rows that its conditions match.
LEMMA MatchingSame ==
    ASSUME NEW ts, NEW es, NEW bare, NEW e, Stands(ts, es, bare, e),
           NEW params, NEW given, Fits(params, given, e), NEW seconds, NEW r
    PROVE  Matching(ts, seconds, r, params) = Matching(es, seconds, r, given)
BY HoldsSame DEF Matching

\* Conditions and their text keep the same rows.
AlikeIn(ts, es, params, given) ==
    \A seconds, r : Matching(ts, seconds, r, params) = Matching(es, seconds, r, given)

\* So the two keep the same rows.
LEMMA AreAlike ==
    ASSUME NEW ts, NEW es, NEW e, Stands(ts, es, FALSE, e),
           NEW params, NEW given, Fits(params, given, e)
    PROVE  AlikeIn(ts, es, params, given)
<1> DEFINE bare == FALSE
<1>1. Stands(ts, es, bare, e)
  OBVIOUS
<1> HIDE DEF bare
<1> QED BY <1>1, MatchingSame DEF AlikeIn

\* The server's join is that of the conditions.
LEMMA JoinedIsMatching ==
    \A stmt, others, params, r :
        Joined(r, others, stmt, params) = Matching(stmt.filters, Seconds(stmt.style, others), r, params)
BY DEF Joined, Matching, Seconds

\* What values read of the table are its columns.
LEMMA ListReadsEach ==
    ASSUME NEW assigns \in Seq(Settings), NEW columns, NEW others,
           ListReads(ValuesOf(assigns), columns, others)
    PROVE  ReadsColumns(assigns, columns)
<1> DEFINE vs == ValuesOf(assigns)
<1>1. DOMAIN vs = 1 .. Len(assigns) /\ \A i \in 1 .. Len(assigns) : vs[i] = assigns[i].value
  BY LenProperties DEF ValuesOf
<1> HIDE DEF vs
<1>2. \A i \in 1 .. Len(assigns) : Range(assigns[i].value) \subseteq TokensOf(vs)
  BY <1>1 DEF TokensOf
<1>3. \A token \in TokensOf(vs) : token.op = "col" => \/ token.src = 0 /\ token.name \in columns
                                                      \/ token.src = 1
  BY DEF ListReads, vs
<1> QED BY <1>2, <1>3 DEF ReadsColumns

\* The server takes the statement: names resolve, placeholders are bound.
UpdateTaken(d, type, columns, stmt, params) ==
    LET scope == Scope(type, columns, stmt)
        texts == SetTexts(stmt) \o stmt.filters
    IN  /\ \A i \in DOMAIN stmt.sets :
              \/ stmt.sets[i].alias = "" /\ (d = "mysql" => stmt.sets[i].col \in scope[""])
              \/ stmt.sets[i].alias = Alias(0) /\ d = "mysql"
        /\ stmt.sets # <<>>
        /\ Resolve(texts, scope)
        /\ Resolve(stmt.returning, ReturningScope(d, type, scope))
        /\ Bound(texts \o stmt.returning, params)

\* An UPDATE that the server takes does what its lists mean.
LEMMA TakenUpdateRuns ==
    ASSUME NEW d, NEW type, NEW tab, NEW others, NEW columns, NEW stmt, NEW style, NEW alias, NEW bare,
           NEW assigns, NEW filters, NEW returning, NEW e,
           UpdateStands(stmt, style, alias, bare, assigns, filters, returning, e),
           assigns \in Seq(Settings), assigns # <<>>, ColumnsOnce(assigns),
           NEW params, NEW given, Fits(params, given, e),
           \A r \in tab : InAnyOrder(d, assigns, r),
           UpdateTaken(d, type, columns, stmt, params),
           NEW result \in RunUpdate(d, type, tab, others, columns, stmt, params)
    PROVE  UpdateMeans(type, tab, Seconds(style, others), assigns, filters, returning, given, result)
<1> DEFINE second == Seconds(style, others)
           J(r) == Joined(r, others, stmt, params)
           joins == {r \in tab : J(r) # {}}
           M == Matched(tab, filters, second, given)
           ts == SetTexts(stmt)
<1>1. /\ stmt.style = style
      /\ stmt.sets = SetsOf(alias, assigns, ts)
      /\ Stands(ts, ValuesOf(assigns), FALSE, e) /\ Stands(stmt.filters, filters, FALSE, e)
      /\ Stands(stmt.returning, returning, bare, e)
  BY DEF UpdateStands
<1>2. PICK from \in [joins -> UNION {J(r) : r \in joins}] :
         /\ \A r \in joins : from[r] \in J(r)
         /\ result = Replace(type, tab,
                             [r \in joins |-> Assigned(d, type, stmt.sets, r, from[r], params)],
                             stmt.returning, params)
  BY DEF RunUpdate, UpdateTaken
<1>3. \A r : J(r) = Matching(filters, second, r, given)
  <2> TAKE r
  <2> DEFINE us == stmt.filters
  <2>1. J(r) = Matching(us, second, r, params) /\ Stands(us, filters, FALSE, e)
    BY <1>1, JoinedIsMatching
  <2> HIDE DEF us
  <2>2. AlikeIn(us, filters, params, given)
    BY <2>1, AreAlike
  <2>3. Matching(us, second, r, params) = Matching(filters, second, r, given)
    BY ONLY <2>2 DEF AlikeIn
  <2> QED BY <2>1, <2>3
<1> HIDE DEF J
<1>4. joins = M
  BY <1>3 DEF Matched
<1> HIDE DEF joins, M, second
<1>5. \A r \in joins : r \in tab
  BY DEF joins
<1>6. ASSUME NEW r \in joins
      PROVE  Assigned(d, type, stmt.sets, r, from[r], params) = Revised(type, assigns, r, from[r], given)
  <2> DEFINE o == from[r]
             sets == stmt.sets
  <2>1. sets = SetsOf(alias, assigns, ts)
    BY <1>1
  <2>2. InAnyOrder(d, assigns, r)
    BY <1>5
  <2> HIDE DEF o, sets, ts
  <2>3. Assigns(d, type, alias, assigns, ts, params, given)
    BY <1>1, AssignedIsRevised DEF ts
  <2>4. Assigned(d, type, SetsOf(alias, assigns, ts), r, o, params) = Revised(type, assigns, r, o, given)
    BY ONLY <2>2, <2>3 DEF Assigns
  <2> QED BY <2>1, <2>4 DEF o, sets
<1>7. [r \in joins |-> Assigned(d, type, stmt.sets, r, from[r], params)] =
      [r \in M |-> Revised(type, assigns, r, from[r], given)]
  BY <1>4, <1>6
<1>8. \A rows : Projected(stmt.returning, rows, params) = Projected(returning, rows, given)
  BY <1>1, AllProjectedSame
<1> DEFINE new == [r \in M |-> Revised(type, assigns, r, from[r], given)]
<1>9. result = Replace(type, tab, new, stmt.returning, params)
  BY <1>2, <1>7
<1> HIDE DEF new
<1>10. result = Replace(type, tab, new, returning, given)
  BY <1>8, <1>9, ReplaceSame
<1>11. JoinsBy(from, tab, filters, second, given)
  BY <1>2, <1>3, <1>4 DEF JoinsBy, M
<1>12. result = Replace(type, tab,
                        [r \in Matched(tab, filters, second, given) |->
                            Revised(type, assigns, r, from[r], given)], returning, given)
  BY <1>10 DEF new, M
<1> QED BY <1>11, <1>12 DEF UpdateMeans, second

\* The same for a DELETE.
DeleteTaken(d, type, columns, stmt, params) ==
    LET scope == Scope(type, columns, stmt)
    IN  /\ Resolve(stmt.filters, scope)
        /\ Resolve(stmt.returning, ReturningScope(d, type, scope))
        /\ Bound(stmt.filters \o stmt.returning, params)

\* So does a DELETE.
LEMMA TakenDeleteRuns ==
    ASSUME NEW d, NEW type, NEW tab, NEW others, NEW columns, NEW stmt, NEW style, NEW bare,
           NEW filters, NEW returning, NEW e, DeleteStands(stmt, style, bare, filters, returning, e),
           NEW params, NEW given, Fits(params, given, e),
           DeleteTaken(d, type, columns, stmt, params)
    PROVE  DeleteMeans(tab, Seconds(style, others), filters, returning, given,
                       RunDelete(d, type, tab, others, columns, stmt, params))
<1> DEFINE second == Seconds(style, others)
           J(r) == Joined(r, others, stmt, params)
           joins == {r \in tab : J(r) # {}}
           M == Matched(tab, filters, second, given)
<1>1. /\ stmt.style = style /\ Stands(stmt.filters, filters, FALSE, e)
      /\ Stands(stmt.returning, returning, bare, e)
  BY DEF DeleteStands
<1>2. RunDelete(d, type, tab, others, columns, stmt, params) = Erase(tab, joins, stmt.returning, params)
  BY DEF RunDelete, DeleteTaken
<1>3. \A r : J(r) = Matching(filters, second, r, given)
  <2> TAKE r
  <2> DEFINE us == stmt.filters
  <2>1. J(r) = Matching(us, second, r, params) /\ Stands(us, filters, FALSE, e)
    BY <1>1, JoinedIsMatching
  <2> HIDE DEF us
  <2>2. AlikeIn(us, filters, params, given)
    BY <2>1, AreAlike
  <2>3. Matching(us, second, r, params) = Matching(filters, second, r, given)
    BY ONLY <2>2 DEF AlikeIn
  <2> QED BY <2>1, <2>3
<1> HIDE DEF J
<1>4. joins = M
  BY <1>3 DEF Matched
<1>5. \A rows : Projected(stmt.returning, rows, params) = Projected(returning, rows, given)
  BY <1>1, AllProjectedSame
<1> HIDE DEF joins, M
<1>6. Erase(tab, joins, stmt.returning, params) = Erase(tab, M, returning, given)
  BY <1>4, <1>5 DEF Erase
<1> QED BY <1>2, <1>6 DEF DeleteMeans, M

-----------------------------------------------------------------------------
(* The server takes every UPDATE and DELETE that is rendered.              *)

\* Every assignment of the text is of a column of the table, with the alias of its dialect.
LEMMA SetsAre ==
    ASSUME NEW stmt, NEW style, NEW alias, NEW bare, NEW assigns, NEW filters, NEW returning, NEW e,
           UpdateStands(stmt, style, alias, bare, assigns, filters, returning, e),
           NEW columns, NEW others, AreAssignments(assigns, columns, others)
    PROVE  /\ stmt.sets # <<>>
           /\ \A i \in DOMAIN stmt.sets : stmt.sets[i].alias = alias /\ stmt.sets[i].col \in columns
<1> DEFINE sets == stmt.sets
           ts == SetTexts(stmt)
<1>1. sets = SetsOf(alias, assigns, ts)
  BY DEF UpdateStands
<1>2. DOMAIN assigns = 1 .. Len(assigns) /\ Len(assigns) \in Nat /\ Len(assigns) > 0
      /\ \A i \in 1 .. Len(assigns) : assigns[i].col \in columns
  BY LenProperties, EmptySeq DEF AreAssignments
<1> HIDE DEF ts
<1>3. DOMAIN sets = 1 .. Len(assigns)
      /\ \A i \in 1 .. Len(assigns) : sets[i].alias = alias /\ sets[i].col = assigns[i].col
  BY <1>1, <1>2 DEF SetsOf
<1> HIDE DEF sets
<1>4. 1 \in DOMAIN sets
  BY <1>2, <1>3
<1>5. sets # <<>>
  BY <1>4
<1>6. \A i \in DOMAIN sets : sets[i].alias = alias /\ sets[i].col \in columns
  BY <1>2, <1>3
<1> QED BY <1>5, <1>6 DEF sets

LEMMA StandsIsSequence ==
    ASSUME NEW ts, NEW es, NEW bare, NEW e, Stands(ts, es, bare, e)
    PROVE  /\ ts \in Seq(Seq(TextTokens))
           /\ es = <<>> => ts = <<>>
BY EmptySeq DEF Stands, AllMean

\* Names without an alias are the target's own.
LEMMA ReturningResolves ==
    ASSUME NEW d, NEW type, NEW ts, NEW es, NEW e,
           Stands(ts, es, ReturningOmitsTargetAlias(d), e), ListReads(es, type.columns, {})
    PROVE  Resolve(ts, ReturningScope(d, type, SingleScope(type.columns)))
<1> DEFINE columns == type.columns
           bare == ReturningOmitsTargetAlias(d)
<1>1. ListReads(es, columns, {}) /\ Stands(ts, es, bare, e)
  OBVIOUS
<1>2. (d = "sqlite" /\ bare = TRUE) \/ (d # "sqlite" /\ bare = FALSE)
  BY DEF ReturningOmitsTargetAlias
<1> HIDE DEF columns, bare
<1>3. CASE d = "sqlite"
  BY <1>1, <1>2, <1>3, ResolvesBare DEF ReturningScope, columns
<1>4. CASE d # "sqlite"
  BY <1>1, <1>2, <1>4, ResolvesSingle DEF ReturningScope, columns
<1> QED BY <1>3, <1>4

\* No name is no problem.
LEMMA NothingResolves == \A scope : Resolve(<<>>, scope)
BY DEF Resolve, TokensOf

\* The server takes every UPDATE and DELETE that is rendered, over one table or two.
LEMMA UpdateIsTaken ==
    ASSUME NEW d, NEW type, NEW columns, NEW stmt, NEW assigns, NEW filters, NEW returning, NEW e,
           UpdateStands(stmt, "single", "", ReturningOmitsTargetAlias(d), assigns, filters, returning, e),
           AreAssignments(assigns, type.columns, {}),
           IsList(filters, type.columns, {}), IsList(returning, type.columns, {}),
           NEW params, Len(params) = Len(Binders(e))
    PROVE  UpdateTaken(d, type, columns, stmt, params)
<1> DEFINE own == type.columns
           scope == SingleScope(own)
           ts == SetTexts(stmt)
           us == stmt.filters
           rs == stmt.returning
           es == ValuesOf(assigns)
           texts == ts \o us
           n == Len(Binders(e))
<1>1. Scope(type, columns, stmt) = scope
  BY DEF UpdateStands, Scope
<1>2. Stands(ts, es, FALSE, e) /\ Stands(us, filters, FALSE, e)
      /\ Stands(rs, returning, ReturningOmitsTargetAlias(d), e)
      /\ Numbered(0, n, TokensOf(texts \o rs))
  BY DEF UpdateStands
<1>3. stmt.sets # <<>> /\ \A i \in DOMAIN stmt.sets : stmt.sets[i].alias = "" /\ stmt.sets[i].col \in own
  BY SetsAre
<1>4. scope[""] = own
  BY DEF SingleScope
<1>5. ListReads(es, own, {}) /\ ListReads(filters, own, {}) /\ ListReads(returning, own, {})
  BY DEF AreAssignments, IsList
<1>6. Resolve(rs, ReturningScope(d, type, scope))
  BY <1>2, <1>5, ReturningResolves
<1> HIDE DEF own, ts, us, rs, es
<1>7. Resolve(ts, scope) /\ Resolve(us, scope)
  BY <1>2, <1>5, ResolvesSingle
<1>8. Resolve(texts, scope)
  BY <1>2, <1>7, StandsIsSequence, ResolveTwo
<1> HIDE DEF texts, n
<1>9. Len(params) = n
  BY DEF n
<1>10. Bound(texts \o rs, params)
  BY <1>2, <1>9, BoundBy
<1> HIDE DEF scope
<1> QED BY <1>1, <1>3, <1>4, <1>6, <1>8, <1>10 DEF UpdateTaken, texts, ts, us, rs

LEMMA DeleteIsTaken ==
    ASSUME NEW d, NEW type, NEW columns, NEW stmt, NEW filters, NEW returning, NEW e,
           DeleteStands(stmt, "single", ReturningOmitsTargetAlias(d), filters, returning, e),
           IsList(filters, type.columns, {}), IsList(returning, type.columns, {}),
           NEW params, Len(params) = Len(Binders(e))
    PROVE  DeleteTaken(d, type, columns, stmt, params)
<1> DEFINE own == type.columns
           scope == SingleScope(own)
           us == stmt.filters
           rs == stmt.returning
           texts == us \o rs
           n == Len(Binders(e))
<1>1. Scope(type, columns, stmt) = scope
  BY DEF DeleteStands, Scope
<1>2. Stands(us, filters, FALSE, e) /\ Stands(rs, returning, ReturningOmitsTargetAlias(d), e)
      /\ Numbered(0, n, TokensOf(texts))
  BY DEF DeleteStands
<1>3. ListReads(filters, own, {}) /\ ListReads(returning, own, {})
  BY DEF IsList
<1>4. Resolve(rs, ReturningScope(d, type, scope))
  BY <1>2, <1>3, ReturningResolves
<1> HIDE DEF own, us, rs
<1>5. Resolve(us, scope)
  BY <1>2, <1>3, ResolvesSingle
<1> HIDE DEF texts, n
<1>6. Len(params) = n
  BY DEF n
<1>7. Bound(texts, params)
  BY <1>2, <1>6, BoundBy
<1> HIDE DEF scope
<1> QED BY <1>1, <1>4, <1>5, <1>7 DEF DeleteTaken, texts, us, rs

LEMMA JoinedUpdateIsTaken ==
    ASSUME NEW d, NEW type, NEW columns, NEW stmt, NEW style, style # "single",
           NEW alias, alias = IF d = "mysql" THEN Alias(0) ELSE "",
           NEW assigns, NEW filters, NEW e,
           UpdateStands(stmt, style, alias, FALSE, assigns, filters, <<>>, e),
           AreAssignments(assigns, type.columns, columns), IsList(filters, type.columns, columns),
           NEW params, Len(params) = Len(Binders(e))
    PROVE  UpdateTaken(d, type, columns, stmt, params)
<1> DEFINE own == type.columns
           scope == JoinedScope(own, columns)
           ts == SetTexts(stmt)
           us == stmt.filters
           rs == stmt.returning
           es == ValuesOf(assigns)
           texts == ts \o us
           n == Len(Binders(e))
<1>1. Scope(type, columns, stmt) = scope
  BY DEF UpdateStands, Scope
<1>2. Stands(ts, es, FALSE, e) /\ Stands(us, filters, FALSE, e) /\ Stands(rs, <<>>, FALSE, e)
      /\ Numbered(0, n, TokensOf(texts \o rs))
  BY DEF UpdateStands
<1>3. stmt.sets # <<>> /\ \A i \in DOMAIN stmt.sets : stmt.sets[i].alias = alias
  BY SetsAre
<1>4. ListReads(es, own, columns) /\ ListReads(filters, own, columns)
  BY DEF AreAssignments, IsList
<1>5. rs = <<>>
  BY <1>2, StandsIsSequence
<1>6. Resolve(rs, ReturningScope(d, type, scope))
  BY <1>5, NothingResolves
<1> HIDE DEF own, ts, us, rs, es
<1>7. Resolve(ts, scope) /\ Resolve(us, scope)
  BY <1>2, <1>4, ResolvesJoined
<1>8. Resolve(texts, scope)
  BY <1>2, <1>7, StandsIsSequence, ResolveTwo
<1> HIDE DEF texts, n
<1>9. Len(params) = n
  BY DEF n
<1>10. Bound(texts \o rs, params)
  BY <1>2, <1>9, BoundBy
<1> HIDE DEF scope
<1>11. \A i \in DOMAIN stmt.sets : IF d = "mysql" THEN stmt.sets[i].alias = Alias(0)
                                  ELSE stmt.sets[i].alias = ""
  BY <1>3
<1> QED BY <1>1, <1>3, <1>6, <1>8, <1>10, <1>11 DEF UpdateTaken, texts, ts, us, rs

LEMMA JoinedDeleteIsTaken ==
    ASSUME NEW d, NEW type, NEW columns, NEW stmt, NEW style, style # "single", NEW filters, NEW e,
           DeleteStands(stmt, style, FALSE, filters, <<>>, e),
           IsList(filters, type.columns, columns),
           NEW params, Len(params) = Len(Binders(e))
    PROVE  DeleteTaken(d, type, columns, stmt, params)
<1> DEFINE own == type.columns
           scope == JoinedScope(own, columns)
           us == stmt.filters
           rs == stmt.returning
           texts == us \o rs
           n == Len(Binders(e))
<1>1. Scope(type, columns, stmt) = scope
  BY DEF DeleteStands, Scope
<1>2. Stands(us, filters, FALSE, e) /\ Stands(rs, <<>>, FALSE, e) /\ Numbered(0, n, TokensOf(texts))
  BY DEF DeleteStands
<1>3. ListReads(filters, own, columns)
  BY DEF IsList
<1>4. rs = <<>>
  BY <1>2, StandsIsSequence
<1>5. Resolve(rs, ReturningScope(d, type, scope))
  BY <1>4, NothingResolves
<1> HIDE DEF own, us, rs
<1>6. Resolve(us, scope)
  BY <1>2, <1>3, ResolvesJoined
<1> HIDE DEF texts, n
<1>7. Len(params) = n
  BY DEF n
<1>8. Bound(texts, params)
  BY <1>2, <1>7, BoundBy
<1> HIDE DEF scope
<1> QED BY <1>1, <1>5, <1>6, <1>8 DEF DeleteTaken, texts, us, rs

-----------------------------------------------------------------------------
(* What a rendered UPDATE or DELETE does.                                  *)

\* On no row does the order of the assignments matter.
AllInOrder(d, assigns, tab) == \A r \in tab : InAnyOrder(d, assigns, r)

\* What is rendered does what the query means: an UPDATE,
LEMMA UpdatesRun ==
    ASSUME NEW d, NEW type, NEW q, UpdateOk(d, type, q), NEW tab, AllInOrder(d, q.assigns, tab), NEW others,
           NEW params, NEW given, Supplies(params, given, FlattenSeq(ExprsOf(q))), NEW sink \in Sinks
    PROVE  \A result \in Run(d, type, tab, others, OtherColumns, Render(d, sink, q).stmt, params) :
              UpdateMeans(type, tab, {<<>>}, q.assigns, q.filters, q.returning, given, result)
<1> DEFINE e == FlattenSeq(ExprsOf(q))
           stmt == Render(d, sink, q).stmt
           own == type.columns
           assigns == q.assigns
           filters == q.filters
           returning == q.returning
           bare == ReturningOmitsTargetAlias(d)
<1>1. UpdateStands(stmt, "single", "", bare, assigns, filters, returning, e)
  BY UpdateIsWritten
<1>2. /\ AreAssignments(assigns, type.columns, {}) /\ IsList(filters, type.columns, {})
      /\ IsList(returning, type.columns, {}) /\ (d = "mysql" => returning = <<>>)
  BY DEF UpdateOk
<1>3. Fits(params, given, e) /\ Len(params) = Len(Binders(e))
  BY DEF Supplies
<1>4. \A r \in tab : InAnyOrder(d, assigns, r)
  BY DEF AllInOrder
<1> HIDE DEF e, stmt, assigns, filters, returning
<1>5. UpdateTaken(d, type, OtherColumns, stmt, params)
  BY <1>1, <1>2, <1>3, UpdateIsTaken
<1>6. /\ stmt.verb = "update" /\ stmt.style = "single" /\ Stands(stmt.returning, returning, bare, e)
  BY <1>1 DEF UpdateStands
<1> HIDE DEF bare
<1>7. d = "mysql" => stmt.returning = <<>>
  BY <1>2, <1>6, StandsIsSequence
<1>8. Run(d, type, tab, others, OtherColumns, stmt, params) =
      RunUpdate(d, type, tab, others, OtherColumns, stmt, params)
  BY <1>6, <1>7 DEF Run, Grammatical
<1>9. assigns \in Seq(Settings) /\ assigns # <<>> /\ ColumnsOnce(assigns)
  BY <1>2 DEF AreAssignments
<1>10. ASSUME NEW result \in RunUpdate(d, type, tab, others, OtherColumns, stmt, params)
       PROVE  UpdateMeans(type, tab, Seconds("single", others), assigns, filters, returning, given, result)
  BY <1>1, <1>3, <1>4, <1>5, <1>9, <1>10, TakenUpdateRuns
<1>11. Seconds("single", others) = {<<>>}
  BY DEF Seconds
<1> QED BY <1>8, <1>10, <1>11 DEF stmt, assigns, filters, returning

\* a DELETE,
LEMMA DeletesRun ==
    ASSUME NEW d, NEW type, NEW q, DeleteOk(d, type, q), NEW tab, NEW others,
           NEW params, NEW given, Supplies(params, given, FlattenSeq(ExprsOf(q))), NEW sink \in Sinks
    PROVE  \A result \in Run(d, type, tab, others, OtherColumns, Render(d, sink, q).stmt, params) :
              DeleteMeans(tab, {<<>>}, q.filters, q.returning, given, result)
<1> DEFINE e == FlattenSeq(ExprsOf(q))
           stmt == Render(d, sink, q).stmt
           filters == q.filters
           returning == q.returning
           bare == ReturningOmitsTargetAlias(d)
<1>1. DeleteStands(stmt, "single", bare, filters, returning, e)
  BY DeleteIsWritten
<1>2. /\ IsList(filters, type.columns, {})
      /\ IsList(returning, type.columns, {}) /\ (d = "mysql" => returning = <<>>)
  BY DEF DeleteOk
<1>3. Fits(params, given, e) /\ Len(params) = Len(Binders(e))
  BY DEF Supplies
<1> HIDE DEF e, stmt, filters, returning
<1>4. DeleteTaken(d, type, OtherColumns, stmt, params)
  BY <1>1, <1>2, <1>3, DeleteIsTaken
<1>5. /\ stmt.verb = "delete" /\ stmt.style = "single" /\ Stands(stmt.returning, returning, bare, e)
  BY <1>1 DEF DeleteStands
<1> HIDE DEF bare
<1>6. d = "mysql" => stmt.returning = <<>>
  BY <1>2, <1>5, StandsIsSequence
<1>7. Run(d, type, tab, others, OtherColumns, stmt, params) =
      {RunDelete(d, type, tab, others, OtherColumns, stmt, params)}
  BY <1>5, <1>6 DEF Run, Grammatical
<1>8. DeleteMeans(tab, Seconds("single", others), filters, returning, given,
                  RunDelete(d, type, tab, others, OtherColumns, stmt, params))
  BY <1>1, <1>3, <1>4, TakenDeleteRuns
<1>9. Seconds("single", others) = {<<>>}
  BY DEF Seconds
<1> QED BY <1>7, <1>8, <1>9 DEF stmt, filters, returning

\* The dialects.
Known == {"postgres", "mysql", "sqlite"}

\* an UPDATE over two tables,
LEMMA UpdatesFromRun ==
    ASSUME NEW d \in Known, NEW type, NEW q, UpdateFromOk(d, type, q),
           NEW tab, AllInOrder(d, q.assigns, tab), NEW others,
           NEW params, NEW given, Supplies(params, given, FlattenSeq(Order(d, q))), NEW sink \in Sinks
    PROVE  \A result \in Run(d, type, tab, others, OtherColumns, Render(d, sink, q).stmt, params) :
              UpdateMeans(type, tab, others, q.assigns, q.filters, <<>>, given, result)
<1> DEFINE e == FlattenSeq(Order(d, q))
           stmt == Render(d, sink, q).stmt
           own == type.columns
           assigns == q.assigns
           filters == q.filters
           style == UpdateFromStyle(d)
           alias == IF style = "join" THEN Alias(0) ELSE ""
           bare == FALSE
           returning == <<>>
<1>1. UpdateStands(stmt, style, alias, FALSE, assigns, filters, <<>>, e)
  BY UpdateFromIsWritten
<1>2. AreAssignments(assigns, type.columns, OtherColumns) /\ IsList(filters, type.columns, OtherColumns)
  BY DEF UpdateFromOk
<1>3. Fits(params, given, e) /\ Len(params) = Len(Binders(e))
  BY DEF Supplies
<1>4. \A r \in tab : InAnyOrder(d, assigns, r)
  BY DEF AllInOrder
<1>5. /\ style \in {"join", "from"} /\ (style = "join" <=> d = "mysql")
      /\ alias = IF d = "mysql" THEN Alias(0) ELSE ""
  BY DEF UpdateFromStyle
<1> HIDE DEF e, stmt, assigns, filters, style, alias
<1>6. style # "single"
  BY <1>5
<1>7. UpdateTaken(d, type, OtherColumns, stmt, params)
  BY <1>1, <1>2, <1>3, <1>5, <1>6, JoinedUpdateIsTaken
<1>8. stmt.verb = "update" /\ stmt.style = style /\ Stands(stmt.returning, <<>>, FALSE, e)
  BY <1>1 DEF UpdateStands
<1>9. stmt.returning = <<>>
  BY <1>8, StandsIsSequence
<1>10. Run(d, type, tab, others, OtherColumns, stmt, params) =
       RunUpdate(d, type, tab, others, OtherColumns, stmt, params)
  BY <1>5, <1>8, <1>9 DEF Run, Grammatical
<1>11. assigns \in Seq(Settings) /\ assigns # <<>> /\ ColumnsOnce(assigns)
  BY <1>2 DEF AreAssignments
<1>12. UpdateStands(stmt, style, alias, bare, assigns, filters, returning, e)
  BY <1>1
<1> HIDE DEF bare, returning
<1>13. ASSUME NEW result \in RunUpdate(d, type, tab, others, OtherColumns, stmt, params)
       PROVE  UpdateMeans(type, tab, Seconds(style, others), assigns, filters, returning, given, result)
  BY <1>12, <1>3, <1>4, <1>7, <1>11, <1>13, TakenUpdateRuns
<1>14. Seconds(style, others) = others
  BY <1>6 DEF Seconds
<1> QED BY <1>10, <1>13, <1>14 DEF stmt, assigns, filters, returning

\* and a DELETE over two tables.
LEMMA DeletesUsingRun ==
    ASSUME NEW d \in Known, NEW type, NEW q, DeleteUsingOk(d, type, q), NEW tab, NEW others,
           NEW params, NEW given, Supplies(params, given, FlattenSeq(ExprsOf(q))), NEW sink \in Sinks
    PROVE  \A result \in Run(d, type, tab, others, OtherColumns, Render(d, sink, q).stmt, params) :
              DeleteMeans(tab, others, q.filters, <<>>, given, result)
<1> DEFINE e == FlattenSeq(ExprsOf(q))
           stmt == Render(d, sink, q).stmt
           filters == q.filters
           style == DeleteUsingStyle(d)
           bare == FALSE
           returning == <<>>
<1>1. DeleteStands(stmt, style, FALSE, filters, <<>>, e)
  BY DeleteUsingIsWritten
<1>2. IsList(filters, type.columns, OtherColumns)
  BY DEF DeleteUsingOk
<1>3. Fits(params, given, e) /\ Len(params) = Len(Binders(e))
  BY DEF Supplies
<1>4. /\ style \in {"exists", "join", "using"}
      /\ (style = "join" <=> d = "mysql") /\ (style = "using" <=> d = "postgres")
  BY DEF DeleteUsingStyle, UpdateFromStyle, Known
<1> HIDE DEF e, stmt, filters, style
<1>5. style # "single"
  BY <1>4
<1>6. DeleteTaken(d, type, OtherColumns, stmt, params)
  BY <1>1, <1>2, <1>3, <1>5, JoinedDeleteIsTaken
<1>7. stmt.verb = "delete" /\ stmt.style = style /\ Stands(stmt.returning, <<>>, FALSE, e)
  BY <1>1 DEF DeleteStands
<1>8. stmt.returning = <<>>
  BY <1>7, StandsIsSequence
<1>9. Run(d, type, tab, others, OtherColumns, stmt, params) =
      {RunDelete(d, type, tab, others, OtherColumns, stmt, params)}
  BY <1>4, <1>7, <1>8 DEF Run, Grammatical, Known
<1>10. DeleteStands(stmt, style, bare, filters, returning, e)
  BY <1>1
<1> HIDE DEF bare, returning
<1>11. DeleteMeans(tab, Seconds(style, others), filters, returning, given,
                   RunDelete(d, type, tab, others, OtherColumns, stmt, params))
  BY <1>3, <1>6, <1>10, TakenDeleteRuns
<1>12. Seconds(style, others) = others
  BY <1>5 DEF Seconds
<1> QED BY <1>9, <1>11, <1>12 DEF stmt, filters, returning

-----------------------------------------------------------------------------
(* What the server does with an INSERT.                                    *)

\* Two projections that give the same of any rows.
AlikeOf(p1, a, p2, b) == \A rows : Projected(p1, rows, a) = Projected(p2, rows, b)

\* Rows are put, and a conflict resolved, whatever the projection is made of.
LEMMA PutSame ==
    ASSUME NEW p1, NEW a, NEW p2, NEW b, AlikeOf(p1, a, p2, b), NEW type, NEW tab, NEW rows
    PROVE  Put(type, tab, rows, p1, a) = Put(type, tab, rows, p2, b)
BY DEF AlikeOf, Put

LEMMA UpsertSame ==
    ASSUME NEW p1, NEW a, NEW p2, NEW b, AlikeOf(p1, a, p2, b), NEW type, NEW tab, NEW row, NEW keys,
           NEW revised, NEW alone
    PROVE  Upsert(type, tab, row, keys, revised, alone, p1, a) =
              Upsert(type, tab, row, keys, revised, alone, p2, b)
<1> DEFINE hits == {i \in DOMAIN keys : \E s \in tab : SameKey(keys[i], row, s)}
           old  == CHOOSE s \in tab : SameKey(keys[CHOOSE i \in hits : \A j \in hits : i <= j], row, s)
           new  == revised[old]
<1>1. Put(type, tab, <<row>>, p1, a) = Put(type, tab, <<row>>, p2, b)
  BY PutSame
<1>2. Projected(p1, {new}, a) = Projected(p2, {new}, b)
  BY DEF AlikeOf
<1> DEFINE Result(p, c) ==
        IF ~Storable(type, row) THEN Failed(tab)
        ELSE IF hits = {} THEN Put(type, tab, <<row>>, p, c)
        ELSE IF alone THEN Done(tab, {})
        ELSE IF ~Storable(type, new) \/ \E s \in tab \ {old} : Clash(type, new, s)
            THEN Failed(tab)
            ELSE Done((tab \ {old}) \cup {new}, Projected(p, {new}, c))
<1>3. Upsert(type, tab, row, keys, revised, alone, p1, a) = Result(p1, a)
  BY ONLY DEF Upsert
<1>4. Upsert(type, tab, row, keys, revised, alone, p2, b) = Result(p2, b)
  BY ONLY DEF Upsert
<1> HIDE DEF hits, old, new
<1>5. Result(p1, a) = Result(p2, b)
  BY <1>1, <1>2
<1> QED BY <1>3, <1>4, <1>5

\* A RETURNING list and its text give the same, with aliases and without.
LEMMA StandAlike ==
    ASSUME NEW ts, NEW es, NEW bare, NEW e, Stands(ts, es, bare, e),
           NEW params, NEW given, Fits(params, given, e)
    PROVE  AlikeOf(ts, params, es, given)
BY AllProjectedSame DEF AlikeOf

LEMMA StandAlikeBare ==
    ASSUME NEW ts, NEW es, NEW e, Stands(ts, es, TRUE, e),
           NEW params, NEW given, Fits(params, given, e)
    PROVE  AlikeOf(ts, params, es, given)
<1> DEFINE bare == TRUE
<1>1. Stands(ts, es, bare, e)
  OBVIOUS
<1> HIDE DEF bare
<1> QED BY <1>1, StandAlike

\* The rows that an INSERT gives.
Filled(type, rows, given) ==
    [i \in DOMAIN rows |->
        FillRow(type, ColumnsOf(rows[i]), ValuesOf(rows[i]), [rows |-> <<>>, params |-> given])]

\* The rows of the text are those of the query.
LEMMA RowsAreFilled ==
    ASSUME NEW d, NEW type, NEW q, InsertOk(d, type, q), NEW stmt, NEW e, InsertStands(d, stmt, q, e),
           NEW params, NEW given, Fits(params, given, e)
    PROVE  [i \in DOMAIN stmt.rows |->
               FillRow(type, stmt.columns, stmt.rows[i], [rows |-> <<>>, params |-> params])] =
           Filled(type, q.rows, given)
<1> DEFINE rows == q.rows
           ts == stmt.rows
           columns == stmt.columns
           none == <<>>
<1>1. /\ rows \in Seq(Seq(Settings)) /\ ts \in Seq(Seq(Seq(TextTokens)))
      /\ RowsMean(e, ts, rows)
      /\ \A i \in 1 .. Len(rows) : ColumnsOf(rows[i]) = columns
  BY DEF InsertOk, InsertStands
<1> HIDE DEF rows, ts, columns, none
<1>2. DOMAIN rows = 1 .. Len(rows) /\ DOMAIN ts = 1 .. Len(rows)
  BY <1>1, LenProperties DEF RowsMean
<1>3. ASSUME NEW i \in 1 .. Len(rows)
      PROVE  FillRow(type, columns, ts[i], [rows |-> none, params |-> params]) =
             FillRow(type, ColumnsOf(rows[i]), ValuesOf(rows[i]), [rows |-> none, params |-> given])
  <2> DEFINE row == rows[i]
             t == ts[i]
             es == ValuesOf(row)
  <2>1. row \in Seq(Settings)
    BY <1>1, <1>2
  <2>2. t \in Seq(Seq(TextTokens)) /\ AllMean(e, t, es) /\ ColumnsOf(row) = columns
    <3> DEFINE SS == Seq(Seq(TextTokens))
    <3>1. ts \in Seq(SS)
      BY <1>1
    <3> HIDE DEF SS
    <3>2. t \in SS
      BY <3>1, <1>2
    <3> QED BY <1>1, <3>2 DEF RowsMean, SS
  <2> HIDE DEF row, t
  <2>3. es \in Seq(Exprs) /\ Len(es) = Len(row) /\ columns \in Seq(Columns) /\ Len(columns) = Len(row)
    BY <2>1, <2>2, ValuesOfIs
  <2> HIDE DEF es
  <2>4. DOMAIN columns = 1 .. Len(es)
    BY <2>3, LenProperties
  <2>5. FillRow(type, columns, t, [rows |-> none, params |-> params]) =
        FillRow(type, columns, es, [rows |-> none, params |-> given])
    BY <2>2, <2>3, <2>4, FillRowSame
  <2> QED BY <2>2, <2>5 DEF row, t, es
<1>4. [i \in DOMAIN ts |-> FillRow(type, columns, ts[i], [rows |-> none, params |-> params])] =
      [i \in DOMAIN rows |->
          FillRow(type, ColumnsOf(rows[i]), ValuesOf(rows[i]), [rows |-> none, params |-> given])]
  BY <1>2, <1>3
<1> QED BY <1>4 DEF Filled, rows, ts, columns, none

\* The rows of a table after a clause that replaces the listed columns.
Replaced(tab, listed, row) ==
    [s \in tab |-> [c \in DOMAIN s |-> IF \E i \in DOMAIN listed : listed[i] = c THEN row[c] ELSE s[c]]]

\* The rows after the SET list of a conflict clause.
RevisedBy(tab, sets, row) ==
    [s \in tab |->
        [c \in DOMAIN s |->
            IF \E i \in DOMAIN sets : sets[i] = [col |-> c, to |-> "excluded"] THEN row[c] ELSE s[c]]]

\* The rows that the server reads from an INSERT.
RowsOf(type, stmt, params) ==
    [i \in DOMAIN stmt.rows |->
        FillRow(type, stmt.columns, stmt.rows[i], [rows |-> <<>>, params |-> params])]

\* The columns of a conflict's target, and the keys that a clause is about.
NamedBy(target) == {target[i] : i \in DOMAIN target}
KeysOf(type, conflict) == IF conflict.k = "duplicate" THEN type.keys ELSE <<NamedBy(conflict.target)>>

\* The server takes the clause: its target is a key, it assigns something, and SQLite has a VALUES
\* list before it.
ConflictTaken(d, type, stmt) ==
    LET keys == KeysOf(type, stmt.conflict)
    IN  /\ \A i \in DOMAIN keys : keys[i] \in {type.keys[j] : j \in DOMAIN type.keys}
        /\ stmt.conflict.k # "nothing" => stmt.conflict.sets # <<>>
        /\ d = "sqlite" => stmt.style # "default row"

\* The server takes the texts of an INSERT.
TextsTaken(type, stmt, params) ==
    /\ Bound(FlattenSeq(stmt.rows) \o stmt.returning, params)
    /\ Resolve(stmt.returning, BareScope(type.columns))

\* Without a conflict clause the server puts the rows.
LEMMA PlainInsertRuns ==
    ASSUME NEW d, NEW type, NEW tab, NEW others, NEW columns, NEW stmt, NEW params,
           stmt.style # "select", stmt.conflict.k = "none", TextsTaken(type, stmt, params)
    PROVE  RunInsert(d, type, tab, others, columns, stmt, params) =
              Put(type, tab, RowsOf(type, stmt, params), stmt.returning, params)
BY DEF TextsTaken, RunInsert, RowsOf

\* With a clause it upserts the row, or fails.
LEMMA ConflictInsertRuns ==
    ASSUME NEW d, NEW type, NEW tab, NEW others, NEW columns, NEW stmt, NEW params,
           stmt.style # "select", stmt.conflict.k # "none", TextsTaken(type, stmt, params)
    PROVE  RunInsert(d, type, tab, others, columns, stmt, params) =
              LET rows == RowsOf(type, stmt, params)
              IN  IF ConflictTaken(d, type, stmt)
                    THEN Upsert(type, tab, rows[1], KeysOf(type, stmt.conflict),
                                RevisedBy(tab, stmt.conflict.sets, rows[1]),
                                stmt.conflict.k = "nothing", stmt.returning, params)
                    ELSE Failed(tab)
BY DEF TextsTaken, RunInsert, RowsOf, KeysOf, NamedBy, ConflictTaken, RevisedBy

\* It takes those of every INSERT that is rendered.
LEMMA InsertTextsAreTaken ==
    ASSUME NEW d, NEW type, NEW q, InsertOk(d, type, q), NEW stmt, NEW e, InsertStands(d, stmt, q, e),
           NEW params, Len(params) = Len(Binders(e))
    PROVE  TextsTaken(type, stmt, params)
<1> DEFINE texts == FlattenSeq(stmt.rows) \o stmt.returning
           own == type.columns
           ts == stmt.returning
           es == q.returning
           n == Len(Binders(e))
<1>1. Numbered(0, n, TokensOf(texts)) /\ Stands(ts, es, TRUE, e)
  BY DEF InsertStands
<1>2. ListReads(es, own, {})
  BY DEF InsertOk, IsList
<1> HIDE DEF own, ts, es
<1>3. Resolve(ts, BareScope(own))
  BY <1>1, <1>2, ResolvesBare
<1> HIDE DEF texts, n
<1>4. Len(params) = n
  BY DEF n
<1>5. Bound(texts, params)
  BY <1>1, <1>4, BoundBy
<1> QED BY <1>3, <1>5 DEF TextsTaken, own, texts, ts

-----------------------------------------------------------------------------
(* Conflict clauses                                                        *)

\* The keys of a table are listed, and no two of its rows agree on one.
Consistent(type, tab) ==
    /\ DOMAIN type.keys \subseteq Nat
    /\ \A r \in tab :
          /\ r = [c \in DOMAIN r |-> r[c]]
          /\ Storable(type, r)
          /\ \A other \in tab \ {r} : ~Clash(type, r, other)

\* What an upsert does: on MySQL a conflict on any key, elsewhere on the one named.
UpsertMeans(d, type, tab, conflict, listed, inserted, returning, given, result) ==
    LET named == NamedBy(conflict.target)
        keys == IF d = "mysql" THEN type.keys ELSE <<named>>
        alone == conflict.action = "nothing" \/ listed = <<>>
    IN  result = IF d # "mysql" /\ named \notin {type.keys[i] : i \in DOMAIN type.keys}
                    THEN Failed(tab)
                    ELSE Upsert(type, tab, inserted[1], keys, Replaced(tab, listed, inserted[1]), alone,
                                returning, given)

\* SET column = excluded.column is the replacement of the listed columns.
LEMMA ExcludedIsReplaced ==
    ASSUME NEW tab, NEW listed, NEW row
    PROVE  RevisedBy(tab, [i \in DOMAIN listed |-> [col |-> listed[i], to |-> "excluded"]], row) =
              Replaced(tab, listed, row)
<1> DEFINE sets == [i \in DOMAIN listed |-> [col |-> listed[i], to |-> "excluded"]]
<1>1. ASSUME NEW c
      PROVE  (\E i \in DOMAIN sets : sets[i] = [col |-> c, to |-> "excluded"]) <=>
             (\E i \in DOMAIN listed : listed[i] = c)
  <2>1. ASSUME NEW i \in DOMAIN listed
        PROVE  sets[i] = [col |-> c, to |-> "excluded"] <=> listed[i] = c
    OBVIOUS
  <2>2. DOMAIN sets = DOMAIN listed
    OBVIOUS
  <2> HIDE DEF sets
  <2> QED BY <2>1, <2>2
<1> HIDE DEF sets
<1>2. \A s \in tab :
         [c \in DOMAIN s |->
            IF \E i \in DOMAIN sets : sets[i] = [col |-> c, to |-> "excluded"] THEN row[c] ELSE s[c]] =
         [c \in DOMAIN s |-> IF \E i \in DOMAIN listed : listed[i] = c THEN row[c] ELSE s[c]]
  BY <1>1
<1>3. RevisedBy(tab, sets, row) = Replaced(tab, listed, row)
  BY <1>2 DEF RevisedBy, Replaced
<1> QED BY <1>3 DEF sets

LeftAlone(type, tab, row, keys, revised, p, a) == Upsert(type, tab, row, keys, revised, TRUE, p, a)

\* An upsert that leaves the row alone does not look at what it would become.
LEMMA AloneKeeps ==
    ASSUME NEW type, NEW tab, NEW row, NEW keys, NEW revised1, NEW revised2, NEW p, NEW a
    PROVE  LeftAlone(type, tab, row, keys, revised1, p, a) = LeftAlone(type, tab, row, keys, revised2, p, a)
<1> DEFINE hits == {i \in DOMAIN keys : \E s \in tab : SameKey(keys[i], row, s)}
           Result == IF ~Storable(type, row) THEN Failed(tab)
                     ELSE IF hits = {} THEN Put(type, tab, <<row>>, p, a)
                     ELSE Done(tab, {})
<1>1. LeftAlone(type, tab, row, keys, revised1, p, a) = Result
  BY ONLY DEF LeftAlone, Upsert
<1>2. LeftAlone(type, tab, row, keys, revised2, p, a) = Result
  BY ONLY DEF LeftAlone, Upsert
<1> HIDE DEF Result
<1> QED BY <1>1, <1>2

\* MySQL's clause that does nothing assigns a column to itself.
KeepsRows(tab, revised) == \A s \in tab : revised[s] = s
\* A clause that assigns a column to itself is one that does nothing.
AsIfAlone(type, tab, row, revised, any, a) ==
    Upsert(type, tab, row, type.keys, revised, FALSE, <<>>, a) =
        Upsert(type, tab, row, type.keys, any, TRUE, <<>>, a)

\* It is, in a table whose keys hold: the row it meets is the one it leaves.
LEMMA SelfKeeps ==
    ASSUME NEW type, NEW tab, Consistent(type, tab), NEW row, NEW revised, NEW any, NEW a,
           KeepsRows(tab, revised)
    PROVE  AsIfAlone(type, tab, row, revised, any, a)
<1> DEFINE keys == type.keys
           hits == {i \in DOMAIN keys : \E s \in tab : SameKey(keys[i], row, s)}
           first == CHOOSE i \in hits : \A j \in hits : i <= j
           old  == CHOOSE s \in tab : SameKey(keys[first], row, s)
           new  == revised[old]
           Plain == IF ~Storable(type, row) THEN Failed(tab)
                    ELSE IF hits = {} THEN Put(type, tab, <<row>>, <<>>, a)
                    ELSE Done(tab, {})
           Self == IF ~Storable(type, row) THEN Failed(tab)
                   ELSE IF hits = {} THEN Put(type, tab, <<row>>, <<>>, a)
                   ELSE IF ~Storable(type, new) \/ \E s \in tab \ {old} : Clash(type, new, s)
                        THEN Failed(tab)
                        ELSE Done((tab \ {old}) \cup {new}, Projected(<<>>, {new}, a))
<1>1. Upsert(type, tab, row, keys, any, TRUE, <<>>, a) = Plain
  BY ONLY DEF Upsert
<1>2. Upsert(type, tab, row, keys, revised, FALSE, <<>>, a) = Self
  BY ONLY DEF Upsert
<1>3. hits \subseteq Nat
  BY DEF Consistent
<1>4. \A i \in hits : \E s \in tab : SameKey(keys[i], row, s)
  OBVIOUS
<1> HIDE DEF hits
<1>5. hits # {} => first \in hits
  <2>1. SUFFICES ASSUME hits # {} PROVE first \in hits
    OBVIOUS
  <2>2. \E x \in hits : \A y \in hits : ~ (y < x)
    BY <1>3, <2>1, SmallestExists
  <2>3. \E x \in hits : \A y \in hits : x <= y
    BY <1>3, <2>2
  <2> QED BY <2>3
<1> HIDE DEF first
<1>6. hits # {} => old \in tab
  BY <1>4, <1>5
<1> HIDE DEF old, keys
<1>7. hits # {} => new = old
  BY <1>6 DEF KeepsRows
<1> HIDE DEF new
<1>8. hits # {} => Storable(type, new) /\ \A s \in tab \ {old} : ~ Clash(type, new, s)
  BY <1>6, <1>7 DEF Consistent
<1>9. hits # {} => (tab \ {old}) \cup {new} = tab
  BY <1>6, <1>7
<1>10. Projected(<<>>, {new}, a) = {}
  BY DEF Projected
<1>11. Self = Plain
  BY <1>8, <1>9, <1>10
<1> HIDE DEF Self, Plain
<1> QED BY <1>1, <1>2, <1>11 DEF keys, AsIfAlone

\* The SET list of a replacement, and the clauses that have none.
Excluded(listed) == [i \in DOMAIN listed |-> [col |-> listed[i], to |-> "excluded"]]
LeavesAlone(action, listed) == action = "nothing" \/ listed = <<>>

\* The text of a conflict clause, in each dialect.
IsClause(d, conflict, clause, listed) ==
    /\ d = "mysql" => conflict.k = "duplicate"
    /\ d # "mysql" => conflict.k # "duplicate" /\ conflict.target = clause.target
    /\ conflict.k # "none"
    /\ conflict.k # "nothing" => conflict.sets # <<>>
    /\ ~LeavesAlone(clause.action, listed) => conflict.k # "nothing" /\ conflict.sets = Excluded(listed)
    /\ LeavesAlone(clause.action, listed) =>
          IF d = "mysql" THEN \A i \in DOMAIN conflict.sets : conflict.sets[i].to = "self"
          ELSE conflict.k = "nothing"

\* ConflictText writes one.
LEMMA ClauseIs ==
    ASSUME NEW d, NEW clause, clause.action \in {"nothing", "update"}, NEW listed \in Seq(Columns)
    PROVE  IsClause(d, ConflictText(d, clause, listed), clause, listed)
<1> DEFINE conflict == ConflictText(d, clause, listed)
<1>0. conflict = ConflictText(d, clause, listed)
  OBVIOUS
<1> HIDE DEF conflict
<1> SUFFICES IsClause(d, conflict, clause, listed)
  BY <1>0
<1>1. CASE ~LeavesAlone(clause.action, listed)
  BY <1>1, <1>0, LenProperties, EmptySeq DEF LeavesAlone, ConflictText, SetExcluded, Excluded,
     IsClause
<1>2. CASE LeavesAlone(clause.action, listed)
  <2>1. conflict = DoNothingClause(d, clause.target, listed)
    BY <1>0, <1>2 DEF ConflictText, LeavesAlone
  <2>2. CASE d = "mysql"
    <3> DEFINE x == IF listed = <<>> THEN clause.target[1] ELSE listed[1]
    <3>1. conflict.k = "duplicate" /\ conflict.sets = <<[col |-> x, to |-> "self"]>>
      BY <2>1, <2>2 DEF DoNothingClause
    <3> HIDE DEF x
    <3> DEFINE sets == conflict.sets
    <3>2. DOMAIN sets = {1} /\ sets[1].to = "self" /\ sets # <<>>
      BY <3>1
    <3> HIDE DEF sets
    <3>3. sets # <<>> /\ \A i \in DOMAIN sets : sets[i].to = "self"
      BY <3>2
    <3> QED BY <1>2, <2>2, <3>1, <3>3 DEF sets, IsClause
  <2>3. CASE d # "mysql"
    BY <1>2, <2>1, <2>3 DEF DoNothingClause, IsClause
  <2> QED BY <2>2, <2>3
<1> QED BY <1>1, <1>2

\* So an upsert does in each dialect what the builder means by it.
LEMMA ConflictRuns ==
    ASSUME NEW d, NEW type, NEW q, InsertOk(d, type, q), q.conflict.action # "none",
           NEW stmt, NEW e, InsertStands(d, stmt, q, e),
           NEW params, NEW given, Fits(params, given, e), Len(params) = Len(Binders(e)),
           NEW tab, d = "mysql" => Consistent(type, tab), NEW others
    PROVE  UpsertMeans(d, type, tab, q.conflict, ColumnsOf(q.rows[1]), Filled(type, q.rows, given),
                       q.returning, given, RunInsert(d, type, tab, others, OtherColumns, stmt, params))
<1> DEFINE clause == q.conflict
           listed == ColumnsOf(q.rows[1])
           conflict == stmt.conflict
           inserted == Filled(type, q.rows, given)
           row == inserted[1]
           returning == q.returning
           rs == stmt.returning
           result == RunInsert(d, type, tab, others, OtherColumns, stmt, params)
           named == NamedBy(clause.target)
           keys == IF d = "mysql" THEN type.keys ELSE <<named>>
           unknown == d # "mysql" /\ named \notin {type.keys[i] : i \in DOMAIN type.keys}
           alone == LeavesAlone(clause.action, listed)
<1>1. /\ clause.action \in {"nothing", "update"}
      /\ listed = <<>> => d # "sqlite"
      /\ d = "mysql" => returning = <<>>
  BY DEF InsertOk
<1>2. listed \in Seq(Columns)
  <2>1. 1 \in DOMAIN q.rows /\ q.rows \in Seq(Seq(Settings))
    BY LenProperties, EmptySeq DEF InsertOk
  <2> DEFINE SS == Seq(Settings)
  <2>2. q.rows \in Seq(SS)
    BY <2>1
  <2> HIDE DEF SS
  <2>3. q.rows[1] \in SS
    BY <2>1, <2>2
  <2> QED BY <2>3, ValuesOfIs DEF SS
<1>3. /\ conflict = ConflictText(d, clause, listed)
      /\ stmt.style # "select" /\ (stmt.style = "default row" => listed = <<>>)
      /\ Stands(rs, returning, TRUE, e)
  BY DEF InsertStands, InsertStyle
<1>4. RowsOf(type, stmt, params) = inserted
  BY RowsAreFilled DEF RowsOf
<1>5. TextsTaken(type, stmt, params)
  BY InsertTextsAreTaken
<1> HIDE DEF conflict, inserted, rs, listed, returning, clause
<1>6. /\ d = "mysql" => conflict.k = "duplicate"
      /\ d # "mysql" => conflict.k # "duplicate" /\ conflict.target = clause.target
      /\ conflict.k # "none"
      /\ conflict.k # "nothing" => conflict.sets # <<>>
      /\ ~alone => conflict.k # "nothing" /\ conflict.sets = Excluded(listed)
      /\ alone => IF d = "mysql" THEN \A i \in DOMAIN conflict.sets : conflict.sets[i].to = "self"
                  ELSE conflict.k = "nothing"
  <2>1. IsClause(d, conflict, clause, listed)
    <3>1. clause.action \in {"nothing", "update"}
      BY <1>1
    <3>2. IsClause(d, ConflictText(d, clause, listed), clause, listed)
      BY ONLY <1>2, <3>1, ClauseIs
    <3>3. conflict = ConflictText(d, clause, listed)
      BY <1>3
    <3> QED BY ONLY <3>2, <3>3
  <2> QED BY <2>1 DEF IsClause
<1>7. AlikeOf(rs, params, returning, given)
  BY <1>3, StandAlikeBare
<1> DEFINE revised == RevisedBy(tab, conflict.sets, row)
           replaced == Replaced(tab, listed, row)
           Texts == Upsert(type, tab, row, keys, revised, conflict.k = "nothing", rs, params)
           Clause == Upsert(type, tab, row, keys, replaced, alone, returning, given)
<1>8. KeysOf(type, conflict) = keys
  BY <1>6 DEF KeysOf
<1>9. ConflictTaken(d, type, stmt) <=> ~unknown
  <2>1. d = "sqlite" => stmt.style # "default row"
    BY <1>1, <1>3
  <2>2. (\A i \in DOMAIN keys : keys[i] \in {type.keys[j] : j \in DOMAIN type.keys}) <=> ~unknown
    <3>1. CASE d = "mysql"
      BY <3>1
    <3>2. CASE d # "mysql"
      <4>1. keys = <<named>>
        BY <3>2
      <4> HIDE DEF named, keys
      <4>2. DOMAIN keys = {1} /\ keys[1] = named
        BY <4>1
      <4> QED BY <3>2, <4>2
    <3> QED BY <3>1, <3>2
  <2> HIDE DEF keys, unknown
  <2> QED BY <1>6, <1>8, <2>1, <2>2 DEF ConflictTaken, conflict
<1> HIDE DEF named, keys, unknown, alone, row, revised, replaced
<1>10. result = IF ~unknown THEN Texts ELSE Failed(tab)
  <2>1. stmt.style # "select" /\ stmt.conflict.k # "none"
    BY <1>3, <1>6 DEF conflict
  <2>2. result = IF ConflictTaken(d, type, stmt)
                    THEN Upsert(type, tab, inserted[1], KeysOf(type, stmt.conflict),
                                RevisedBy(tab, stmt.conflict.sets, inserted[1]),
                                stmt.conflict.k = "nothing", stmt.returning, params)
                    ELSE Failed(tab)
    BY <1>4, <1>5, <2>1, ConflictInsertRuns
  <2> HIDE DEF result
  <2> QED BY <1>8, <1>9, <2>2 DEF row, revised, conflict, rs
<1>11. Texts = Upsert(type, tab, row, keys, revised, conflict.k = "nothing", returning, given)
  BY <1>7, UpsertSame
<1> HIDE DEF result, Texts
<1>12. Texts = Clause
  <2>1. CASE ~alone
    BY <1>6, <2>1, ExcludedIsReplaced, <1>11 DEF revised, replaced, Excluded, alone, LeavesAlone
  <2>2. CASE alone /\ d # "mysql"
    <3>1. (conflict.k = "nothing") = TRUE /\ alone = TRUE
      BY <1>6, <2>2 DEF alone, LeavesAlone
    <3>2. Texts = LeftAlone(type, tab, row, keys, revised, returning, given)
      BY <1>11, <3>1 DEF LeftAlone
    <3>3. Clause = LeftAlone(type, tab, row, keys, replaced, returning, given)
      BY <3>1 DEF LeftAlone
    <3> HIDE DEF Clause
    <3> QED BY ONLY <3>2, <3>3, AloneKeeps
  <2>3. CASE alone /\ d = "mysql"
    <3>1. (conflict.k = "nothing") = FALSE /\ alone = TRUE
      BY <1>6, <2>3 DEF alone, LeavesAlone
    <3>2. keys = type.keys /\ returning = <<>> /\ Consistent(type, tab)
      BY <1>1, <2>3 DEF keys
    <3>3. \A s \in tab : revised[s] = s
      <4> TAKE s \in tab
      <4> DEFINE sets == conflict.sets
      <4>1. \A i \in DOMAIN sets : sets[i].to = "self"
        BY <1>6, <2>3
      <4> HIDE DEF sets
      <4>2. \A c : ~ (\E i \in DOMAIN sets : sets[i] = [col |-> c, to |-> "excluded"])
        BY <4>1
      <4>3. revised[s] = [c \in DOMAIN s |->
               IF \E i \in DOMAIN sets : sets[i] = [col |-> c, to |-> "excluded"] THEN row[c] ELSE s[c]]
        BY DEF revised, RevisedBy, sets
      <4>4. revised[s] = [c \in DOMAIN s |-> s[c]]
        BY <4>2, <4>3
      <4> QED BY <3>2, <4>4 DEF Consistent
    <3>4. Texts = Upsert(type, tab, row, type.keys, revised, FALSE, <<>>, given)
      BY <1>11, <3>1, <3>2
    <3>5. Clause = Upsert(type, tab, row, type.keys, replaced, TRUE, <<>>, given)
      BY <3>1, <3>2
    <3>6. AsIfAlone(type, tab, row, revised, replaced, given)
      BY <3>2, <3>3, SelfKeeps DEF KeepsRows
    <3> QED BY <3>4, <3>5, <3>6 DEF AsIfAlone
  <2> QED BY <2>1, <2>2, <2>3
<1>13. result = IF unknown THEN Failed(tab) ELSE Clause
  BY <1>10, <1>12
<1> QED BY <1>13 DEF UpsertMeans, result, unknown, keys, named, alone, LeavesAlone, clause, listed,
                     inserted, returning, row, replaced

\* What an INSERT does.
InsertMeans(d, type, tab, q, given, result) ==
    IF q.conflict.action = "none"
        THEN result = Put(type, tab, Filled(type, q.rows, given), q.returning, given)
        ELSE UpsertMeans(d, type, tab, q.conflict, ColumnsOf(q.rows[1]), Filled(type, q.rows, given),
                         q.returning, given, result)

\* What is rendered for an INSERT does what the query means.
LEMMA InsertsRun ==
    ASSUME NEW d \in Known, NEW type, NEW q, InsertOk(d, type, q),
           NEW tab, d = "mysql" => Consistent(type, tab), NEW others,
           NEW params, NEW given, Supplies(params, given, FlattenSeq(ExprsOf(q))), NEW sink \in Sinks
    PROVE  \A result \in Run(d, type, tab, others, OtherColumns, Render(d, sink, q).stmt, params) :
              InsertMeans(d, type, tab, q, given, result)
<1> DEFINE e == FlattenSeq(ExprsOf(q))
           stmt == Render(d, sink, q).stmt
           rs == stmt.returning
           returning == q.returning
           result == RunInsert(d, type, tab, others, OtherColumns, stmt, params)
<1>1. InsertStands(d, stmt, q, e)
  BY InsertIsWritten
<1>2. Fits(params, given, e) /\ Len(params) = Len(Binders(e))
  BY DEF Supplies
<1>3. d = "mysql" => returning = <<>>
  BY DEF InsertOk
<1> HIDE DEF e, stmt
<1>4. /\ stmt.verb = "insert" /\ stmt.style \in {"single", "default row"}
      /\ Stands(rs, returning, TRUE, e)
      /\ stmt.conflict = ConflictText(d, q.conflict, ColumnsOf(q.rows[1]))
  BY <1>1 DEF InsertStands, InsertStyle
<1> HIDE DEF rs, returning
<1>5. d = "mysql" => rs = <<>>
  BY <1>3, <1>4, StandsIsSequence
<1>6. Run(d, type, tab, others, OtherColumns, stmt, params) = {result}
  BY <1>4, <1>5 DEF Run, Grammatical, rs
<1>7. TextsTaken(type, stmt, params)
  BY <1>1, <1>2, InsertTextsAreTaken
<1>8. CASE q.conflict.action = "none"
  <2>1. stmt.conflict.k = "none"
    <3> DEFINE clause == q.conflict
               listed == ColumnsOf(q.rows[1])
    <3>1. clause.action = "none" /\ stmt.conflict = ConflictText(d, clause, listed)
      BY <1>4, <1>8
    <3> HIDE DEF clause, listed
    <3>2. ConflictText(d, clause, listed) = [k |-> "none"]
      BY <3>1 DEF ConflictText
    <3> QED BY <3>1, <3>2
  <2>2. result = Put(type, tab, RowsOf(type, stmt, params), rs, params)
    <3>1. stmt.style # "select"
      BY <1>4
    <3>2. RunInsert(d, type, tab, others, OtherColumns, stmt, params) =
          Put(type, tab, RowsOf(type, stmt, params), stmt.returning, params)
      BY ONLY <1>7, <2>1, <3>1, PlainInsertRuns
    <3> QED BY <3>2 DEF rs
  <2>3. RowsOf(type, stmt, params) = Filled(type, q.rows, given)
    BY <1>1, <1>2, RowsAreFilled DEF RowsOf
  <2>4. AlikeOf(rs, params, returning, given)
    BY <1>2, <1>4, StandAlikeBare
  <2> HIDE DEF result
  <2>5. result = Put(type, tab, Filled(type, q.rows, given), returning, given)
    BY <2>2, <2>3, <2>4, PutSame
  <2> QED BY <1>6, <1>8, <2>5 DEF InsertMeans, stmt, returning
<1>9. CASE q.conflict.action # "none"
  <2>1. UpsertMeans(d, type, tab, q.conflict, ColumnsOf(q.rows[1]), Filled(type, q.rows, given),
                    q.returning, given, result)
    BY <1>1, <1>2, <1>9, ConflictRuns
  <2> HIDE DEF result
  <2> QED BY <1>6, <1>9, <2>1 DEF InsertMeans, stmt
<1> QED BY <1>8, <1>9

-----------------------------------------------------------------------------
(* INSERT ... SELECT                                                       *)

\* The rows that an INSERT ... SELECT reads, and what it makes of them.
Chosen(filters, others, given) ==
    SetToSeq({o \in others : Holds(filters, [rows |-> <<o>>, params |-> given])})

Picked(type, columns, exprs, chosen, given) ==
    [i \in DOMAIN chosen |->
        FillRow(type, columns, exprs, [rows |-> <<chosen[i]>>, params |-> given])]

SelectMeans(type, tab, others, q, given, result) ==
    result = Put(type, tab,
                 Picked(type, q.columns, q.source.exprs, Chosen(q.source.filters, others, given), given),
                 <<>>, given)

\* The server puts what the query selects.
LEMMA SelectRuns ==
    ASSUME NEW d, NEW type, NEW tab, NEW others, NEW columns, NEW stmt, NEW params,
           stmt.style = "select",
           Resolve(stmt.select.exprs \o stmt.select.filters, SingleScope(columns)),
           Bound(stmt.select.exprs \o stmt.select.filters, params)
    PROVE  RunInsert(d, type, tab, others, columns, stmt, params) =
              Put(type, tab,
                  Picked(type, stmt.columns, stmt.select.exprs,
                         Chosen(stmt.select.filters, others, params), params),
                  <<>>, params)
BY DEF RunInsert, Picked, Chosen

\* The text selects the rows that the conditions select, and makes the same of them.
LEMMA ChosenSame ==
    ASSUME NEW ts, NEW es, NEW bare, NEW e, Stands(ts, es, bare, e),
           NEW params, NEW given, Fits(params, given, e), NEW others
    PROVE  Chosen(ts, others, params) = Chosen(es, others, given)
<1>1. ASSUME NEW o
      PROVE  Holds(ts, [rows |-> <<o>>, params |-> params]) <=> Holds(es, [rows |-> <<o>>, params |-> given])
  <2> DEFINE rows == <<o>>
  <2> HIDE DEF rows
  <2>1. Holds(ts, [rows |-> rows, params |-> params]) <=> Holds(es, [rows |-> rows, params |-> given])
    BY HoldsSame
  <2> QED BY <2>1 DEF rows
<1>2. {o \in others : Holds(ts, [rows |-> <<o>>, params |-> params])} =
      {o \in others : Holds(es, [rows |-> <<o>>, params |-> given])}
  BY <1>1
<1> QED BY <1>2 DEF Chosen

LEMMA PickedSame ==
    ASSUME NEW ts, NEW es, NEW bare, NEW e, Stands(ts, es, bare, e),
           NEW params, NEW given, Fits(params, given, e), NEW type,
           NEW columns, DOMAIN columns = 1 .. Len(es), NEW chosen
    PROVE  Picked(type, columns, ts, chosen, params) = Picked(type, columns, es, chosen, given)
<1>1. ts \in Seq(Seq(TextTokens)) /\ es \in Seq(Exprs) /\ AllMean(e, ts, es)
  BY DEF Stands
<1>2. ASSUME NEW i \in DOMAIN chosen
      PROVE  FillRow(type, columns, ts, [rows |-> <<chosen[i]>>, params |-> params]) =
             FillRow(type, columns, es, [rows |-> <<chosen[i]>>, params |-> given])
  <2> DEFINE rows == <<chosen[i]>>
  <2> HIDE DEF rows
  <2>1. FillRow(type, columns, ts, [rows |-> rows, params |-> params]) =
        FillRow(type, columns, es, [rows |-> rows, params |-> given])
    BY <1>1, FillRowSame
  <2> QED BY <2>1 DEF rows
<1>3. [i \in DOMAIN chosen |-> FillRow(type, columns, ts, [rows |-> <<chosen[i]>>, params |-> params])] =
      [i \in DOMAIN chosen |-> FillRow(type, columns, es, [rows |-> <<chosen[i]>>, params |-> given])]
  BY <1>2
<1> QED BY <1>3 DEF Picked

\* What is rendered for an INSERT ... SELECT does what the query means.
LEMMA SelectsRun ==
    ASSUME NEW d \in Known, NEW type, NEW q, SelectOk(d, type, q), NEW tab, NEW others,
           NEW params, NEW given, Supplies(params, given, FlattenSeq(ExprsOf(q))), NEW sink \in Sinks
    PROVE  \A result \in Run(d, type, tab, others, OtherColumns, Render(d, sink, q).stmt, params) :
              SelectMeans(type, tab, others, q, given, result)
<1> DEFINE e == FlattenSeq(ExprsOf(q))
           stmt == Render(d, sink, q).stmt
           es == q.source.exprs
           fs == q.source.filters
           columns == q.columns
           ts == stmt.select.exprs
           us == stmt.select.filters
           texts == ts \o us
           n == Len(Binders(e))
           bare == FALSE
<1>1. SelectStands(stmt, columns, es, fs, e)
  BY SelectIsWritten
<1>2. /\ columns \in Seq(Range(columns)) /\ Len(es) = Len(columns)
      /\ ListReads(es, OtherColumns, {}) /\ ListReads(fs, OtherColumns, {})
  BY DEF SelectOk, IsList
<1>3. Fits(params, given, e) /\ Len(params) = Len(Binders(e))
  BY DEF Supplies
<1> HIDE DEF e, stmt, es, fs, columns
<1>4. /\ stmt.verb = "insert" /\ stmt.style = "select" /\ stmt.columns = columns /\ stmt.returning = <<>>
      /\ Stands(ts, es, bare, e) /\ Stands(us, fs, bare, e) /\ Numbered(0, n, TokensOf(texts))
  BY <1>1 DEF SelectStands
<1> HIDE DEF ts, us
<1>5. Resolve(ts, SingleScope(OtherColumns)) /\ Resolve(us, SingleScope(OtherColumns))
  BY <1>2, <1>4, ResolvesSingle
<1>6. Resolve(texts, SingleScope(OtherColumns))
  BY <1>4, <1>5, StandsIsSequence, ResolveTwo
<1> HIDE DEF texts, n
<1>7. Len(params) = n
  BY <1>3 DEF n
<1>8. Bound(texts, params)
  BY <1>4, <1>7, BoundBy
<1>9. Run(d, type, tab, others, OtherColumns, stmt, params) =
      {RunInsert(d, type, tab, others, OtherColumns, stmt, params)}
  BY <1>4 DEF Run, Grammatical
<1> DEFINE chosen == Chosen(us, others, params)
<1>10. RunInsert(d, type, tab, others, OtherColumns, stmt, params) =
       Put(type, tab, Picked(type, columns, ts, chosen, params), <<>>, params)
  BY <1>4, <1>6, <1>8, SelectRuns DEF texts, ts, us
<1> HIDE DEF bare
<1>11. chosen = Chosen(fs, others, given)
  BY <1>3, <1>4, ChosenSame
<1> HIDE DEF chosen
<1>12. DOMAIN columns = 1 .. Len(es)
  BY <1>2, LenProperties
<1>13. Picked(type, columns, ts, chosen, params) = Picked(type, columns, es, chosen, given)
  BY <1>3, <1>4, <1>12, PickedSame
<1> DEFINE none == <<>>
<1>14. AlikeOf(none, params, none, given)
  BY DEF AlikeOf, Projected
<1>15. Put(type, tab, Picked(type, columns, es, chosen, given), <<>>, params) =
       Put(type, tab, Picked(type, columns, es, chosen, given), <<>>, given)
  <2> HIDE DEF none
  <2>1. Put(type, tab, Picked(type, columns, es, chosen, given), none, params) =
        Put(type, tab, Picked(type, columns, es, chosen, given), none, given)
    BY <1>14, PutSame
  <2> QED BY <2>1 DEF none
<1>16. RunInsert(d, type, tab, others, OtherColumns, stmt, params) =
       Put(type, tab, Picked(type, columns, es, Chosen(fs, others, given), given), <<>>, given)
  BY <1>10, <1>11, <1>13, <1>15
<1> QED BY <1>9, <1>16 DEF SelectMeans, stmt, columns, es, fs

-----------------------------------------------------------------------------
(* The tags of runtime parameters: each is written at one place.           *)

\* The tags of an expression's parameters, and that no two are the same.
Tags(e) == {token.n : token \in Range(e) \cap Runtime}
Clear(e) == \A i, j \in 1 .. Len(ParamsIn(e)) : ParamsIn(e)[i].n = ParamsIn(e)[j].n => i = j

\* The runtime parameters of an expression have their tags.
LEMMA ParamsInIs ==
    ASSUME NEW e \in Seq(Tokens)
    PROVE  /\ ParamsIn(e) \in Seq(Tokens) /\ Len(ParamsIn(e)) \in Nat
           /\ DOMAIN ParamsIn(e) = 1 .. Len(ParamsIn(e))
           /\ \A n : n \in Tags(e) <=> \E i \in 1 .. Len(ParamsIn(e)) : ParamsIn(e)[i].n = n
           /\ \A i \in 1 .. Len(ParamsIn(e)) : ParamsIn(e)[i].op = "param"
<1> DEFINE p == ParamsIn(e)
<1>1. p \in Seq(Tokens) /\ Range(p) = Range(e) \cap Runtime
  BY AmongIsSequence, AmongIs DEF ParamsIn
<1>2. Len(p) \in Nat /\ DOMAIN p = 1 .. Len(p)
  BY <1>1, LenProperties
<1> HIDE DEF p
<1>3. Range(p) = {p[i] : i \in 1 .. Len(p)}
  BY <1>2 DEF Range
<1>4. \A n : n \in Tags(e) <=> \E i \in 1 .. Len(p) : p[i].n = n
  BY <1>1, <1>3 DEF Tags
<1>5. \A i \in 1 .. Len(p) : p[i].op = "param"
  BY <1>1, <1>3 DEF Runtime
<1> QED BY <1>1, <1>2, <1>4, <1>5 DEF p

\* Two expressions one after the other.
LEMMA TagsOfConcat ==
    ASSUME NEW a \in Seq(Tokens), NEW b \in Seq(Tokens)
    PROVE  Tags(a \o b) = Tags(a) \cup Tags(b)
BY RangeOfConcat DEF Tags

\* They are clear if each is, and they share no tag.
LEMMA ClearConcat ==
    ASSUME NEW a \in Seq(Tokens), NEW b \in Seq(Tokens)
    PROVE  Clear(a \o b) <=> Clear(a) /\ Clear(b) /\ Tags(a) \cap Tags(b) = {}
<1> DEFINE p == ParamsIn(a)
           q == ParamsIn(b)
           s == ParamsIn(a \o b)
<1>1. s = p \o q
  BY AmongTwo DEF ParamsIn
<1>2. /\ p \in Seq(Tokens) /\ Len(p) \in Nat
      /\ \A n : n \in Tags(a) <=> \E i \in 1 .. Len(p) : p[i].n = n
  BY ParamsInIs
<1>3. /\ q \in Seq(Tokens) /\ Len(q) \in Nat
      /\ \A n : n \in Tags(b) <=> \E i \in 1 .. Len(q) : q[i].n = n
  BY ParamsInIs
<1> HIDE DEF p, q, s
<1>4. /\ Len(s) = Len(p) + Len(q)
      /\ \A i \in 1 .. Len(p) : s[i] = p[i]
      /\ \A i \in 1 .. Len(q) : s[Len(p) + i] = q[i]
  BY <1>1, <1>2, <1>3, ConcatProperties
<1> DEFINE One(u) == \A i, j \in 1 .. Len(u) : u[i].n = u[j].n => i = j
           Apart == \A i \in 1 .. Len(p), j \in 1 .. Len(q) : p[i].n # q[j].n
<1>5. Clear(a) <=> One(p)
  BY DEF Clear, p
<1>6. Clear(b) <=> One(q)
  BY DEF Clear, q
<1>7. Clear(a \o b) <=> One(s)
  BY DEF Clear, s
<1>8. Tags(a) \cap Tags(b) = {} <=> Apart
  <2> DEFINE A == Tags(a)
             B == Tags(b)
  <2>1. \A n : n \in A <=> \E i \in 1 .. Len(p) : p[i].n = n
    BY <1>2
  <2>2. \A n : n \in B <=> \E j \in 1 .. Len(q) : q[j].n = n
    BY <1>3
  <2> HIDE DEF A, B
  <2>3. ASSUME A \cap B = {} PROVE Apart
    <3>1. SUFFICES ASSUME NEW i \in 1 .. Len(p), NEW j \in 1 .. Len(q), p[i].n = q[j].n PROVE FALSE
      OBVIOUS
    <3> DEFINE n == p[i].n
    <3>2. n \in A /\ n \in B
      BY <2>1, <2>2, <3>1
    <3> QED BY <2>3, <3>2
  <2>4. ASSUME Apart PROVE A \cap B = {}
    <3>1. SUFFICES ASSUME NEW n \in A, n \in B PROVE FALSE
      OBVIOUS
    <3>2. PICK i \in 1 .. Len(p) : p[i].n = n
      BY <2>1
    <3>3. PICK j \in 1 .. Len(q) : q[j].n = n
      BY <2>2, <3>1
    <3> QED BY <2>4, <3>2, <3>3
  <2> HIDE DEF Apart
  <2> QED BY <2>3, <2>4 DEF A, B
<1>9. ASSUME One(s) PROVE One(p) /\ One(q) /\ Apart
  <2>1. One(p)
    BY <1>2, <1>3, <1>4, <1>9
  <2>2. One(q)
    <3>1. \A i \in 1 .. Len(q) : Len(p) + i \in 1 .. Len(s)
      BY <1>2, <1>3, <1>4
    <3>2. ASSUME NEW i \in 1 .. Len(q), NEW j \in 1 .. Len(q), q[i].n = q[j].n PROVE i = j
      BY <1>4, <3>2, <1>9, <3>1, <1>2
    <3> QED BY <3>2
  <2>3. Apart
    <3>1. SUFFICES ASSUME NEW i \in 1 .. Len(p), NEW j \in 1 .. Len(q), p[i].n = q[j].n PROVE FALSE
      OBVIOUS
    <3>2. s[i].n = s[Len(p) + j].n /\ i \in 1 .. Len(s) /\ Len(p) + j \in 1 .. Len(s)
      BY <1>2, <1>3, <1>4, <3>1
    <3>3. i = Len(p) + j
      BY <1>9, <3>2
    <3> QED BY <1>2, <3>3
  <2> QED BY <2>1, <2>2, <2>3
<1>10. ASSUME One(p), One(q), Apart PROVE One(s)
  <2>1. SUFFICES ASSUME NEW i \in 1 .. Len(s), NEW j \in 1 .. Len(s), s[i].n = s[j].n PROVE i = j
    OBVIOUS
  <2>2. ASSUME NEW k \in 1 .. Len(s)
        PROVE  \/ k \in 1 .. Len(p) /\ s[k] = p[k]
               \/ k - Len(p) \in 1 .. Len(q) /\ s[k] = q[k - Len(p)]
    <3>1. CASE k <= Len(p)
      BY <1>2, <1>4, <3>1
    <3>2. CASE k > Len(p)
      <4>1. k - Len(p) \in 1 .. Len(q) /\ Len(p) + (k - Len(p)) = k
        BY <1>2, <1>3, <1>4, <3>2
      <4> QED BY <1>4, <4>1
    <3> QED BY <1>2, <3>1, <3>2
  <2>3. CASE i \in 1 .. Len(p) /\ s[i] = p[i] /\ j \in 1 .. Len(p) /\ s[j] = p[j]
    BY <1>10, <2>1, <2>3
  <2>4. CASE i - Len(p) \in 1 .. Len(q) /\ s[i] = q[i - Len(p)]
             /\ j - Len(p) \in 1 .. Len(q) /\ s[j] = q[j - Len(p)]
    BY <1>10, <2>1, <2>4, <1>2, <1>3, <1>4
  <2>5. CASE i \in 1 .. Len(p) /\ s[i] = p[i] /\ j - Len(p) \in 1 .. Len(q) /\ s[j] = q[j - Len(p)]
    BY <1>10, <2>1, <2>5
  <2>6. CASE j \in 1 .. Len(p) /\ s[j] = p[j] /\ i - Len(p) \in 1 .. Len(q) /\ s[i] = q[i - Len(p)]
    BY <1>10, <2>1, <2>6
  <2> QED BY <2>2, <2>3, <2>4, <2>5, <2>6
<1> HIDE DEF One, Apart
<1> QED BY <1>5, <1>6, <1>7, <1>8, <1>9, <1>10

\* Where the i-th expression of a call is written.
PlacesAt(call, i) == {<<call, i, j>> : j \in Nat}
\* Each parameter has the place where it is written as its tag.
AtPlaces(s, call, i) == \A j \in 1 .. Len(s) : s[j].op = "param" => s[j].n = <<call, i, j>>

\* One token is clear.
LEMMA ClearSingle ==
    ASSUME NEW token \in Tokens
    PROVE  /\ <<token>> \in Seq(Tokens) /\ Clear(<<token>>)
           /\ Tags(<<token>>) = IF token.op = "param" THEN {token.n} ELSE {}
<1> DEFINE s == <<token>>
<1>1. s = Append(<<>>, token) /\ s \in Seq(Tokens) /\ <<>> \in Seq(Tokens)
  OBVIOUS
<1>2. ParamsIn(<<>>) = <<>>
  BY AmongNothing DEF ParamsIn
<1>3. ParamsIn(s) = s \/ ParamsIn(s) = <<>>
  BY <1>1, <1>2, BindersAppend
<1>4. Len(ParamsIn(s)) = 1 \/ Len(ParamsIn(s)) = 0
  <2>1. Len(s) = 1 /\ Len(<<>>) = 0
    OBVIOUS
  <2> DEFINE p == ParamsIn(s)
             none == <<>>
  <2>2. p = s \/ p = none
    BY <1>3
  <2>3. Len(s) = 1 /\ Len(none) = 0
    BY <2>1
  <2> HIDE DEF s, p, none
  <2>4. Len(p) = 1 \/ Len(p) = 0
    BY <2>2, <2>3
  <2> QED BY <2>4 DEF p
<1>5. Clear(s)
  BY <1>4, <1>1, ParamsInIs DEF Clear
<1>6. Range(s) = {token}
  BY RangeOfOne
<1>7. Tags(s) = IF token.op = "param" THEN {token.n} ELSE {}
  BY <1>6 DEF Tags, Runtime
<1> QED BY <1>1, <1>5, <1>7

\* One tag each, if each is the place where it is written.
LEMMA PlacedIsClear ==
    ASSUME NEW call, NEW i, NEW s \in Seq(Tokens), AtPlaces(s, call, i)
    PROVE  Clear(s) /\ Tags(s) \subseteq PlacesAt(call, i)
<1> DEFINE Upto(n) == {<<call, i, j>> : j \in 1 .. n}
           T == {u \in Seq(Tokens) : AtPlaces(u, call, i) => Clear(u) /\ Tags(u) \subseteq Upto(Len(u))}
<1>1. <<>> \in T
  BY AmongNothing DEF ParamsIn, Clear, Tags, Range
<1>2. ASSUME NEW u \in Seq(Tokens), u \in T, NEW token \in Tokens
      PROVE  Append(u, token) \in T
  <2> DEFINE v == Append(u, token)
             one == <<token>>
             n == Len(u)
  <2>1. v \in Seq(Tokens) /\ n \in Nat /\ Len(v) = n + 1 /\ v[n + 1] = token
        /\ \A j \in 1 .. n : v[j] = u[j]
    BY AppendProperties, LenProperties
  <2>2. v = u \o one
    BY AppendAsConcat
  <2>3. one \in Seq(Tokens) /\ Clear(one) /\ Tags(one) = IF token.op = "param" THEN {token.n} ELSE {}
    BY ClearSingle
  <2> HIDE DEF v, one, n
  <2>4. ASSUME AtPlaces(v, call, i) PROVE Clear(v) /\ Tags(v) \subseteq Upto(Len(v))
    <3>1. AtPlaces(u, call, i)
      BY <2>1, <2>4 DEF AtPlaces, n
    <3>2. Clear(u) /\ Tags(u) \subseteq Upto(n)
      BY <1>2, <3>1 DEF n
    <3>3. token.op = "param" => token.n = <<call, i, n + 1>>
      BY <2>1, <2>4 DEF AtPlaces
    <3>4. <<call, i, n + 1>> \notin Upto(n)
      BY <2>1
    <3>5. Tags(u) \cap Tags(one) = {}
      BY <2>3, <3>2, <3>3, <3>4
    <3>6. Clear(v)
      BY <2>2, <2>3, <3>2, <3>5, ClearConcat
    <3>7. Tags(v) = Tags(u) \cup Tags(one)
      BY <2>2, <2>3, TagsOfConcat
    <3>8. Upto(n) \subseteq Upto(n + 1) /\ <<call, i, n + 1>> \in Upto(n + 1)
      BY <2>1
    <3> QED BY <2>1, <2>3, <3>2, <3>3, <3>6, <3>7, <3>8
  <2> HIDE DEF Upto
  <2> QED BY <2>1, <2>4 DEF v
<1> HIDE DEF T
<1>3. s \in T
  BY <1>1, <1>2, SequenceInduction
<1>4. Clear(s) /\ Tags(s) \subseteq Upto(Len(s)) /\ Len(s) \in Nat
  BY <1>3, LenProperties DEF T
<1> QED BY <1>4 DEF PlacesAt

\* What a call places is clear, and has the tags of its places.
LEMMA PlacedIs ==
    ASSUME NEW call \in Nat, NEW i \in Nat, NEW e \in Exprs
    PROVE  LET p == PlaceParams(call, i, e)
           IN  /\ p \in Exprs /\ Clear(p) /\ Tags(p) \subseteq PlacesAt(call, i)
               /\ \A token \in Range(p) : token.op = "col" => token \in Range(e)
<1> DEFINE p == PlaceParams(call, i, e)
           n == Len(e)
           at(j) == IF e[j].op = "param" THEN Param(<<call, i, j>>) ELSE e[j]
<1>1. e \in Seq(Tokens) /\ e # <<>> /\ e[1].arity = 0
  BY DEF Exprs
<1>2. n \in Nat /\ DOMAIN e = 1 .. n /\ n >= 1
  BY <1>1, LenProperties, EmptySeq
<1>3. p = [j \in 1 .. n |-> at(j)]
  BY <1>2 DEF PlaceParams
<1> HIDE DEF p, n
<1>4. \A j \in 1 .. n : e[j] \in Tokens
  BY <1>1, <1>2
<1>5. \A j \in 1 .. n : Param(<<call, i, j>>) \in Tokens
  BY <1>2 DEF Tokens, Places
<1>6. \A j \in 1 .. n : at(j) \in Tokens
  BY <1>4, <1>5
<1>7. p \in Seq(Tokens) /\ Len(p) = n
  BY <1>2, <1>3, <1>6, FunctionIsSequence
<1>8. p # <<>> /\ p[1].arity = 0
  BY <1>2, <1>3, <1>1, <1>7 DEF Param
<1>9. AtPlaces(p, call, i)
  BY <1>3, <1>7 DEF Param, AtPlaces
<1>10. ASSUME NEW token \in Range(p), token.op = "col" PROVE token \in Range(e)
  <2>1. PICK j \in 1 .. n : token = p[j]
    BY <1>3 DEF Range
  <2>2. token = at(j)
    BY <1>3, <2>1
  <2>3. Param(<<call, i, j>>).op = "param"
    BY DEF Param
  <2>4. token = e[j]
    BY <1>10, <2>2, <2>3
  <2> QED BY <1>2, <2>4 DEF Range
<1> QED BY <1>7, <1>8, <1>9, <1>10, PlacedIsClear DEF Exprs, p

-----------------------------------------------------------------------------
(* Lists                                                                   *)

\* The same of a list.
ListTags(es) == Tags(FlattenSeq(es))
ClearList(es) == Clear(FlattenSeq(es))

LEMMA NoTags == ClearList(<<>>) /\ ListTags(<<>>) = {}
BY AmongNothing, FlattenEmpty DEF ParamsIn, Clear, Tags, Range, ClearList, ListTags

\* Two lists are clear together if each is, and they share no tag.
LEMMA ListsConcat ==
    ASSUME NEW es \in Seq(Exprs), NEW fs \in Seq(Exprs)
    PROVE  /\ ListTags(es \o fs) = ListTags(es) \cup ListTags(fs)
           /\ ClearList(es \o fs) <=> ClearList(es) /\ ClearList(fs) /\ ListTags(es) \cap ListTags(fs) = {}
<1> DEFINE a == FlattenSeq(es)
           b == FlattenSeq(fs)
<1>1. a \in Seq(Tokens) /\ b \in Seq(Tokens) /\ FlattenSeq(es \o fs) = a \o b
  BY FlattenExprs
<1> HIDE DEF a, b
<1>2. Tags(a \o b) = Tags(a) \cup Tags(b)
  BY <1>1, TagsOfConcat
<1>3. Clear(a \o b) <=> Clear(a) /\ Clear(b) /\ Tags(a) \cap Tags(b) = {}
  BY <1>1, ClearConcat
<1> QED BY <1>1, <1>2, <1>3 DEF ListTags, ClearList, a, b

\* A list of one expression.
LEMMA SingleIs ==
    ASSUME NEW e \in Exprs
    PROVE  <<e>> \in Seq(Exprs) /\ ListTags(<<e>>) = Tags(e) /\ (ClearList(<<e>>) <=> Clear(e))
BY ExprsAre, FlattenSingle DEF ListTags, ClearList

\* The expressions of one call.
Placed(es, call) ==
    \A i \in 1 .. Len(es) : Clear(es[i]) /\ Tags(es[i]) \subseteq PlacesAt(call, i)

\* The expressions of one call are clear together: the tags differ in the position.
LEMMA PlacedListIsClear ==
    ASSUME NEW call, NEW list \in Seq(Exprs), Placed(list, call)
    PROVE  ClearList(list) /\ ListTags(list) \subseteq UNION {PlacesAt(call, k) : k \in Nat \ {0}}
<1> DEFINE Upto(n) == UNION {PlacesAt(call, k) : k \in 1 .. n}
           T == {u \in Seq(Exprs) : Placed(u, call) => ClearList(u) /\ ListTags(u) \subseteq Upto(Len(u))}
<1>1. <<>> \in T
  BY NoTags
<1>2. ASSUME NEW u \in Seq(Exprs), u \in T, NEW e \in Exprs
      PROVE  Append(u, e) \in T
  <2> DEFINE v == Append(u, e)
             one == <<e>>
             n == Len(u)
  <2>1. v \in Seq(Exprs) /\ n \in Nat /\ Len(v) = n + 1 /\ v[n + 1] = e
        /\ \A j \in 1 .. n : v[j] = u[j]
    BY AppendProperties, LenProperties
  <2>2. v = u \o one
    BY AppendAsConcat
  <2>3. one \in Seq(Exprs) /\ ListTags(one) = Tags(e) /\ (ClearList(one) <=> Clear(e))
    BY SingleIs
  <2> HIDE DEF v, one, n
  <2>4. ASSUME Placed(v, call) PROVE ClearList(v) /\ ListTags(v) \subseteq Upto(Len(v))
    <3>1. Placed(u, call)
      BY <2>1, <2>4 DEF Placed, n
    <3>2. ClearList(u) /\ ListTags(u) \subseteq Upto(n)
      BY <1>2, <3>1 DEF n
    <3>3. Clear(e) /\ Tags(e) \subseteq PlacesAt(call, n + 1)
      BY <2>1, <2>4 DEF Placed
    <3>4. Upto(n) \cap PlacesAt(call, n + 1) = {}
      BY <2>1 DEF PlacesAt
    <3>5. ListTags(u) \cap ListTags(one) = {}
      BY <2>3, <3>2, <3>3, <3>4
    <3>6. ClearList(v) /\ ListTags(v) = ListTags(u) \cup ListTags(one)
      BY <2>2, <2>3, <3>2, <3>3, <3>5, ListsConcat
    <3>7. Upto(n) \subseteq Upto(n + 1) /\ PlacesAt(call, n + 1) \subseteq Upto(n + 1)
      BY <2>1
    <3> QED BY <2>1, <2>3, <3>2, <3>3, <3>6, <3>7
  <2> HIDE DEF Upto
  <2> QED BY <2>1, <2>4 DEF v
<1> HIDE DEF T
<1>3. list \in T
  BY <1>1, <1>2, SequenceInduction
<1>4. ClearList(list) /\ ListTags(list) \subseteq Upto(Len(list)) /\ Len(list) \in Nat
  BY <1>3, LenProperties DEF T
<1>5. Upto(Len(list)) \subseteq UNION {PlacesAt(call, k) : k \in Nat \ {0}}
  BY <1>4
<1> QED BY <1>4, <1>5

-----------------------------------------------------------------------------
(* Assignments                                                             *)

\* The columns assigned.
ColsOf(assigns) == {a.col : a \in Range(assigns)}

\* Assignments one after the other have their values one after the other.
LEMMA ValuesOfConcat ==
    ASSUME NEW s \in Seq(Settings), NEW t \in Seq(Settings)
    PROVE  ValuesOf(s \o t) = ValuesOf(s) \o ValuesOf(t)
<1> DEFINE u == s \o t
           a == ValuesOf(s)
           b == ValuesOf(t)
           v == ValuesOf(u)
<1>1. /\ u \in Seq(Settings) /\ Len(u) = Len(s) + Len(t) /\ Len(s) \in Nat /\ Len(t) \in Nat
      /\ \A i \in 1 .. Len(s) : u[i] = s[i]
      /\ \A i \in Len(s) + 1 .. Len(s) + Len(t) : u[i] = t[i - Len(s)]
  BY ConcatProperties, LenProperties
<1> HIDE DEF u
<1>2. a \in Seq(Exprs) /\ Len(a) = Len(s) /\ \A i \in 1 .. Len(s) : a[i] = s[i].value
  BY ValuesOfIs, LenProperties DEF ValuesOf
<1>3. b \in Seq(Exprs) /\ Len(b) = Len(t) /\ \A i \in 1 .. Len(t) : b[i] = t[i].value
  BY ValuesOfIs, LenProperties DEF ValuesOf
<1>4. v \in Seq(Exprs) /\ Len(v) = Len(u) /\ \A i \in 1 .. Len(u) : v[i] = u[i].value
  BY <1>1, ValuesOfIs, LenProperties DEF ValuesOf
<1> HIDE DEF a, b, v
<1> DEFINE w == a \o b
<1>5. /\ w \in Seq(Exprs) /\ Len(w) = Len(a) + Len(b)
      /\ \A i \in 1 .. Len(a) : w[i] = a[i]
      /\ \A i \in Len(a) + 1 .. Len(a) + Len(b) : w[i] = b[i - Len(a)]
  <2>1. a \in Seq(Exprs) /\ b \in Seq(Exprs)
    BY <1>2, <1>3
  <2> QED BY ONLY <2>1, ConcatProperties, LenProperties
<1> HIDE DEF w
<1>6. Len(v) = Len(w)
  BY <1>1, <1>2, <1>3, <1>4, <1>5
<1>7. ASSUME NEW i \in 1 .. Len(v) PROVE v[i] = w[i]
  <2>1. CASE i <= Len(s)
    BY <1>1, <1>4, <2>1, <1>2, <1>5
  <2>2. CASE i > Len(s)
    <3>1. i \in 1 .. Len(u) /\ i \in Len(s) + 1 .. Len(s) + Len(t) /\ i - Len(s) \in 1 .. Len(t)
      BY <1>1, <1>4, <2>2
    <3>2. v[i] = t[i - Len(s)].value
      BY <1>1, <1>4, <3>1
    <3>3. w[i] = b[i - Len(s)]
      BY <1>2, <1>3, <1>5, <3>1
    <3> QED BY <1>3, <3>1, <3>2, <3>3
  <2> QED BY <1>1, <1>4, <2>1, <2>2
<1>8. v = w
  BY <1>4, <1>5, <1>6, <1>7, SeqEqual
<1> QED BY <1>8 DEF v, w, a, b, u

LEMMA ValuesOfNone == ValuesOf(<<>>) = <<>>
BY DEF ValuesOf

LEMMA ValuesOfOne ==
    ASSUME NEW a \in Settings
    PROVE  <<a>> \in Seq(Settings) /\ ValuesOf(<<a>>) = <<a.value>>
<1> DEFINE s == <<a>>
<1>1. s \in Seq(Settings) /\ Len(s) = 1 /\ DOMAIN s = {1} /\ s[1] = a
  OBVIOUS
<1> HIDE DEF s
<1>2. ValuesOf(s) = [i \in {1} |-> s[i].value]
  BY <1>1 DEF ValuesOf
<1>3. [i \in {1} |-> s[i].value] = <<a.value>>
  BY <1>1
<1> QED BY <1>1, <1>2, <1>3 DEF s

\* One more assignment is of a new column.
LEMMA OnceAppend ==
    ASSUME NEW s \in Seq(Settings), NEW a \in Settings
    PROVE  /\ ColumnsOnce(Append(s, a)) <=> ColumnsOnce(s) /\ a.col \notin ColsOf(s)
           /\ ColsOf(Append(s, a)) = ColsOf(s) \cup {a.col}
<1> DEFINE t == Append(s, a)
           n == Len(s)
<1>1. /\ t \in Seq(Settings) /\ n \in Nat /\ Len(t) = n + 1 /\ t[n + 1] = a
      /\ \A i \in 1 .. n : t[i] = s[i]
  BY AppendProperties, LenProperties
<1>2. Range(t) = Range(s) \cup {a}
  BY RangeOfAppend
<1>3. ColsOf(s) = {s[i].col : i \in 1 .. n}
  <2>1. Range(s) = {s[i] : i \in 1 .. n}
    BY LenProperties DEF Range
  <2> HIDE DEF n
  <2> QED BY <2>1 DEF ColsOf
<1> HIDE DEF t, n
<1>4. ASSUME ColumnsOnce(t) PROVE ColumnsOnce(s) /\ a.col \notin ColsOf(s)
  BY <1>1, <1>4, <1>3 DEF n, ColumnsOnce
<1>5. ASSUME ColumnsOnce(s), a.col \notin ColsOf(s) PROVE ColumnsOnce(t)
  <2>1. Len(s) = n
    BY DEF n
  <2>2. SUFFICES ASSUME NEW i \in 1 .. Len(t), NEW j \in 1 .. Len(t), t[i].col = t[j].col PROVE i = j
    BY DEF ColumnsOnce
  <2>3. \A k \in 1 .. Len(t) : (k \in 1 .. n /\ t[k] = s[k]) \/ (k = n + 1 /\ t[k] = a)
    BY <1>1
  <2>4. \A k \in 1 .. n : s[k].col # a.col
    BY <1>3, <1>5
  <2> QED BY <1>5, <2>1, <2>2, <2>3, <2>4 DEF ColumnsOnce
<1> QED BY <1>2, <1>4, <1>5 DEF ColsOf, t

\* OfColumns keeps the assignments of some columns.
LEMMA OfColumnsIs ==
    ASSUME NEW assigns \in Seq(Settings), NEW C
    PROVE  OfColumns(assigns, C) = Among(assigns, {a \in Settings : a.col \in C})
<1> DEFINE K == {a \in Settings : a.col \in C}
<1>1. \A i \in DOMAIN assigns : assigns[i] \in Settings
  BY LenProperties
<1>2. \A i \in DOMAIN assigns : assigns[i].col \in C <=> assigns[i] \in K
  BY <1>1
<1> HIDE DEF K
<1>3. [i \in DOMAIN assigns |-> IF assigns[i].col \in C THEN <<assigns[i]>> ELSE <<>>] =
      [i \in DOMAIN assigns |-> IF assigns[i] \in K THEN <<assigns[i]>> ELSE <<>>]
  BY <1>2
<1> QED BY <1>3 DEF OfColumns, Among, K

\* Some of the assignments: of what there was, in order.
PartOf(part, assigns) ==
    /\ ColumnsOnce(assigns) => ColumnsOnce(part)
    /\ ColsOf(part) \subseteq ColsOf(assigns)
    /\ ClearList(ValuesOf(assigns)) => ClearList(ValuesOf(part))
    /\ ListTags(ValuesOf(part)) \subseteq ListTags(ValuesOf(assigns))
    /\ TokensOf(ValuesOf(part)) \subseteq TokensOf(ValuesOf(assigns))

\* A part of the assignments, and one more of them.
LEMMA PartWithOneMore ==
    ASSUME NEW s \in Seq(Settings), NEW k \in Seq(Settings), PartOf(k, s), NEW a \in Settings
    PROVE  PartOf(k, Append(s, a)) /\ PartOf(Append(k, a), Append(s, a))
<1> DEFINE one == <<a>>
           t == Append(s, a)
           l == Append(k, a)
           vs == ValuesOf(s)
           vk == ValuesOf(k)
           v1 == ValuesOf(one)
<1>1. t = s \o one /\ l = k \o one
  BY AppendAsConcat
<1>2. one \in Seq(Settings)
  BY ValuesOfOne
<1>3. vs \in Seq(Exprs) /\ vk \in Seq(Exprs) /\ v1 \in Seq(Exprs)
  BY <1>2, ValuesOfIs
<1>4. /\ ColumnsOnce(t) <=> ColumnsOnce(s) /\ a.col \notin ColsOf(s)
      /\ ColsOf(t) = ColsOf(s) \cup {a.col}
  BY OnceAppend
<1>5. /\ ColumnsOnce(l) <=> ColumnsOnce(k) /\ a.col \notin ColsOf(k)
      /\ ColsOf(l) = ColsOf(k) \cup {a.col}
  BY OnceAppend
<1> HIDE DEF one
<1>6. ValuesOf(t) = vs \o v1 /\ ValuesOf(l) = vk \o v1
  BY <1>1, <1>2, ValuesOfConcat
<1> HIDE DEF t, l, vs, vk, v1
<1>7. /\ ListTags(vs \o v1) = ListTags(vs) \cup ListTags(v1)
      /\ ClearList(vs \o v1) <=> ClearList(vs) /\ ClearList(v1) /\ ListTags(vs) \cap ListTags(v1) = {}
      /\ TokensOf(vs \o v1) = TokensOf(vs) \cup TokensOf(v1)
  BY <1>3, ListsConcat, TokensOfConcat
<1>8. /\ ListTags(vk \o v1) = ListTags(vk) \cup ListTags(v1)
      /\ ClearList(vk \o v1) <=> ClearList(vk) /\ ClearList(v1) /\ ListTags(vk) \cap ListTags(v1) = {}
      /\ TokensOf(vk \o v1) = TokensOf(vk) \cup TokensOf(v1)
  BY <1>3, ListsConcat, TokensOfConcat
<1>9. /\ ColumnsOnce(s) => ColumnsOnce(k)
      /\ ColsOf(k) \subseteq ColsOf(s)
      /\ ClearList(vs) => ClearList(vk)
      /\ ListTags(vk) \subseteq ListTags(vs)
      /\ TokensOf(vk) \subseteq TokensOf(vs)
  BY DEF PartOf, vs, vk
<1>10. PartOf(k, t)
  BY <1>4, <1>6, <1>7, <1>9 DEF vk, PartOf
<1>11. PartOf(l, t)
  BY <1>4, <1>5, <1>6, <1>7, <1>8, <1>9 DEF PartOf
<1> QED BY <1>10, <1>11 DEF t, l

\* It keeps a part of them, and all if all are of those columns.
LEMMA OfColumnsKeeps ==
    ASSUME NEW assigns \in Seq(Settings), NEW C
    PROVE  LET kept == OfColumns(assigns, C)
           IN  /\ kept \in Seq(Settings)
               /\ \A i \in 1 .. Len(kept) : kept[i].col \in C
               /\ (\A i \in 1 .. Len(assigns) : assigns[i].col \in C) => kept = assigns
               /\ OfColumns(kept, C) = kept
               /\ PartOf(kept, assigns)
<1> DEFINE K == {a \in Settings : a.col \in C}
           kept == OfColumns(assigns, C)
           T == {s \in Seq(Settings) : PartOf(Among(s, K), s)}
<1>1. kept = Among(assigns, K)
  BY OfColumnsIs
<1>2. kept \in Seq(Settings) /\ Range(kept) = Range(assigns) \cap K
  BY <1>1, AmongIsSequence, AmongIs
<1>3. OfColumns(kept, C) = Among(kept, K)
  BY <1>2, OfColumnsIs
<1>4. \A i \in 1 .. Len(kept) : kept[i] \in Range(kept)
  BY <1>2, LenProperties DEF Range
<1>5. \A i \in 1 .. Len(kept) : kept[i].col \in C
  BY <1>2, <1>4
<1>6. (\A i \in 1 .. Len(assigns) : assigns[i].col \in C) => Range(assigns) \subseteq K
  BY LenProperties DEF Range
<1> HIDE DEF K
<1>7. Range(assigns) \subseteq K => kept = assigns
  BY <1>1, AmongAll
<1>8. Range(kept) \subseteq K
  BY <1>2
<1> HIDE DEF kept
<1>9. Among(kept, K) = kept
  BY <1>2, <1>8, AmongAll
<1>10. <<>> \in T
  BY AmongNothing DEF PartOf
<1>11. ASSUME NEW s \in Seq(Settings), s \in T, NEW a \in Settings PROVE Append(s, a) \in T
  <2> DEFINE k == Among(s, K)
             t == Append(s, a)
  <2>1. k \in Seq(Settings) /\ PartOf(k, s) /\ t \in Seq(Settings)
    BY <1>11, AmongIsSequence, AppendProperties
  <2>2. (a \in K => Among(t, K) = Append(k, a)) /\ (a \notin K => Among(t, K) = k)
    BY AmongOneMore
  <2> HIDE DEF k
  <2>3. PartOf(k, t) /\ PartOf(Append(k, a), t)
    BY <2>1, PartWithOneMore
  <2> HIDE DEF t
  <2>4. PartOf(Among(t, K), t)
    BY <2>2, <2>3
  <2> QED BY <2>1, <2>4 DEF t
<1> HIDE DEF T
<1>12. assigns \in T
  BY <1>10, <1>11, SequenceInduction
<1>13. PartOf(kept, assigns)
  BY <1>1, <1>12 DEF T
<1> QED BY <1>2, <1>3, <1>5, <1>6, <1>7, <1>9, <1>13 DEF kept

-----------------------------------------------------------------------------
(* The log of the calls                                                    *)

\* The calls of one name.
SaidIn(log, name) ==
    FlattenSeq([i \in DOMAIN log |-> IF log[i].call = name THEN <<log[i]>> ELSE <<>>])

\* What those calls were given.
AssignsOf(cs) == [i \in DOMAIN cs |-> cs[i].assigns]
FiltersOf(cs) == [i \in DOMAIN cs |-> cs[i].filter]

LEMMA SaidInNothing == \A name : SaidIn(<<>>, name) = <<>>
<1> TAKE name
<1>1. [i \in DOMAIN <<>> |-> IF <<>>[i].call = name THEN <<<<>>[i]>> ELSE <<>>] = <<>>
  OBVIOUS
<1> QED BY <1>1, FlattenEmpty DEF SaidIn

\* The calls of one name are what is kept of the log.
LEMMA SaidInIs ==
    ASSUME NEW S, NEW log \in Seq(S), NEW name
    PROVE  SaidIn(log, name) = Among(log, {c \in S : c.call = name})
<1> DEFINE K == {c \in S : c.call = name}
<1>1. \A i \in DOMAIN log : log[i] \in S
  BY LenProperties
<1>2. \A i \in DOMAIN log : log[i].call = name <=> log[i] \in K
  BY <1>1
<1> HIDE DEF K
<1>3. [i \in DOMAIN log |-> IF log[i].call = name THEN <<log[i]>> ELSE <<>>] =
      [i \in DOMAIN log |-> IF log[i] \in K THEN <<log[i]>> ELSE <<>>]
  BY <1>2
<1> QED BY <1>3 DEF SaidIn, Among, K

\* One more call is said, or is of another name.
LEMMA SaidInAppend ==
    ASSUME NEW S, NEW log \in Seq(S), NEW c \in S, NEW name
    PROVE  /\ c.call = name => SaidIn(Append(log, c), name) = Append(SaidIn(log, name), c)
           /\ c.call # name => SaidIn(Append(log, c), name) = SaidIn(log, name)
           /\ SaidIn(log, name) \in Seq(S)
<1> DEFINE K == {e \in S : e.call = name}
           more == Append(log, c)
<1>1. more \in Seq(S)
  BY AppendProperties
<1>2. SaidIn(log, name) = Among(log, K)
  BY SaidInIs
<1> HIDE DEF more
<1>3. SaidIn(more, name) = Among(more, K)
  BY <1>1, SaidInIs
<1>4. c \in K <=> c.call = name
  OBVIOUS
<1> HIDE DEF K
<1>5. /\ c \in K => Among(more, K) = Append(Among(log, K), c)
      /\ c \notin K => Among(more, K) = Among(log, K)
      /\ Among(log, K) \in Seq(S)
  BY AmongOneMore DEF more
<1> QED BY <1>2, <1>3, <1>4, <1>5 DEF more

\* One more call gives one more list of assignments, and one more condition.
LEMMA FieldsAppend ==
    ASSUME NEW S, NEW cs \in Seq(S), NEW c \in S, NEW T
    PROVE  /\ AssignsOf(cs) \in Seq(T) /\ c.assigns \in T =>
                 AssignsOf(Append(cs, c)) = Append(AssignsOf(cs), c.assigns)
           /\ FiltersOf(cs) \in Seq(T) /\ c.filter \in T =>
                 FiltersOf(Append(cs, c)) = Append(FiltersOf(cs), c.filter)
<1> DEFINE more == Append(cs, c)
           n == Len(cs)
<1>1. /\ more \in Seq(S) /\ n \in Nat /\ Len(more) = n + 1 /\ more[n + 1] = c
      /\ \A i \in 1 .. n : more[i] = cs[i]
      /\ DOMAIN cs = 1 .. n /\ DOMAIN more = 1 .. n + 1
  BY AppendProperties, LenProperties
<1> HIDE DEF more, n
<1>2. ASSUME AssignsOf(cs) \in Seq(T), c.assigns \in T
      PROVE  AssignsOf(more) = Append(AssignsOf(cs), c.assigns)
  <2> DEFINE a == AssignsOf(cs)
             b == AssignsOf(more)
             x == c.assigns
  <2>1. DOMAIN a = 1 .. n /\ \A i \in 1 .. n : a[i] = cs[i].assigns
    BY <1>1 DEF AssignsOf
  <2>2. b = [i \in 1 .. n + 1 |-> more[i].assigns]
    BY <1>1 DEF AssignsOf
  <2>3. a \in Seq(T) /\ x \in T
    BY <1>2
  <2> HIDE DEF a
  <2>4. Len(a) = n
    BY <1>1, <2>1, <2>3, LenProperties
  <2>5. \A i \in 1 .. n + 1 : more[i].assigns = IF i = n + 1 THEN x ELSE a[i]
    BY <1>1, <2>1
  <2>6. \A i \in 1 .. n : a[i] \in T
    BY ONLY <2>3, <2>4, ElementOfSeq
  <2> HIDE DEF b, x
  <2>7. b \in [1 .. n + 1 -> T]
    BY <1>1, <2>2, <2>3, <2>5, <2>6
  <2>8. b \in Seq(T) /\ Len(b) = n + 1
    BY <1>1, <2>7, FunctionIsSequence
  <2>9. b[n + 1] = x /\ \A i \in 1 .. n : b[i] = a[i]
    BY <1>1, <2>2, <2>5
  <2>10. b = Append(a, x)
    BY <2>3, <2>4, <2>8, <2>9, AppendIs
  <2> QED BY <2>10 DEF a, b, x
<1>3. ASSUME FiltersOf(cs) \in Seq(T), c.filter \in T
      PROVE  FiltersOf(more) = Append(FiltersOf(cs), c.filter)
  <2> DEFINE a == FiltersOf(cs)
             b == FiltersOf(more)
             x == c.filter
  <2>1. DOMAIN a = 1 .. n /\ \A i \in 1 .. n : a[i] = cs[i].filter
    BY <1>1 DEF FiltersOf
  <2>2. b = [i \in 1 .. n + 1 |-> more[i].filter]
    BY <1>1 DEF FiltersOf
  <2>3. a \in Seq(T) /\ x \in T
    BY <1>3
  <2> HIDE DEF a
  <2>4. Len(a) = n
    BY <1>1, <2>1, <2>3, LenProperties
  <2>5. \A i \in 1 .. n + 1 : more[i].filter = IF i = n + 1 THEN x ELSE a[i]
    BY <1>1, <2>1
  <2>6. \A i \in 1 .. n : a[i] \in T
    BY ONLY <2>3, <2>4, ElementOfSeq
  <2> HIDE DEF b, x
  <2>7. b \in [1 .. n + 1 -> T]
    BY <1>1, <2>2, <2>3, <2>5, <2>6
  <2>8. b \in Seq(T) /\ Len(b) = n + 1
    BY <1>1, <2>7, FunctionIsSequence
  <2>9. b[n + 1] = x /\ \A i \in 1 .. n : b[i] = a[i]
    BY <1>1, <2>2, <2>5
  <2>10. b = Append(a, x)
    BY <2>3, <2>4, <2>8, <2>9, AppendIs
  <2> QED BY <2>10 DEF a, b, x
<1> QED BY <1>2, <1>3 DEF more

\* What a log says: assignments, rows and conditions.
LogIs(log, assigns, rows, filters) ==
    /\ log \in Seq(Range(log))
    /\ AssignsOf(SaidIn(log, "set")) \in Seq(Seq(Settings))
    /\ FlattenSeq(AssignsOf(SaidIn(log, "set"))) = assigns
    /\ AssignsOf(SaidIn(log, "row")) = rows
    /\ FiltersOf(SaidIn(log, "where")) = filters

\* One more call in the log.
LEMMA LogAppends ==
    ASSUME NEW log, log \in Seq(Range(log)), NEW c
    PROVE  /\ Append(log, c) \in Seq(Range(Append(log, c)))
           /\ Len(Append(log, c)) = Len(log) + 1 /\ Len(log) \in Nat
           /\ Append(log, c)[Len(log) + 1] = c
           /\ \A name : /\ c.call = name => SaidIn(Append(log, c), name) = Append(SaidIn(log, name), c)
                        /\ c.call # name => SaidIn(Append(log, c), name) = SaidIn(log, name)
                        /\ SaidIn(log, name) \in Seq(Range(log) \cup {c})
<1> DEFINE R == Range(log)
           S == R \cup {c}
           more == Append(log, c)
<1>1. log \in Seq(S) /\ c \in S
  <2>1. \A i \in 1 .. Len(log) : log[i] \in S
    BY LenProperties
  <2> HIDE DEF S
  <2>2. log = [i \in 1 .. Len(log) |-> log[i]] /\ Len(log) \in Nat
    BY LenProperties
  <2>3. log \in [1 .. Len(log) -> S]
    BY <2>1, <2>2
  <2>4. log \in Seq(S)
    BY <2>2, <2>3, FunctionIsSequence
  <2> QED BY <2>4 DEF S
<1>2. Range(more) = S
  BY <1>1, RangeOfAppend
<1> HIDE DEF S
<1>3. more \in Seq(S) /\ Len(more) = Len(log) + 1 /\ Len(log) \in Nat /\ more[Len(log) + 1] = c
  BY <1>1, AppendProperties, LenProperties
<1>4. ASSUME NEW name
      PROVE  /\ c.call = name => SaidIn(more, name) = Append(SaidIn(log, name), c)
             /\ c.call # name => SaidIn(more, name) = SaidIn(log, name)
             /\ SaidIn(log, name) \in Seq(S)
  BY <1>1, SaidInAppend
<1> HIDE DEF more
<1>5. \A name : /\ c.call = name => SaidIn(more, name) = Append(SaidIn(log, name), c)
                /\ c.call # name => SaidIn(more, name) = SaidIn(log, name)
                /\ SaidIn(log, name) \in Seq(S)
  BY <1>4
<1> QED BY <1>2, <1>3, <1>5 DEF more, S

\* One more call, of a name or of another.
SaysMore(log, c, name) ==
    /\ c.call = name => SaidIn(Append(log, c), name) = Append(SaidIn(log, name), c)
    /\ c.call # name => SaidIn(Append(log, c), name) = SaidIn(log, name)
    /\ SaidIn(log, name) \in Seq(Range(log) \cup {c})

LEMMA SaidMore ==
    ASSUME NEW log, log \in Seq(Range(log)), NEW c, NEW name
    PROVE  SaysMore(log, c, name)
BY LogAppends DEF SaysMore

LEMMA LogGrows ==
    ASSUME NEW log, log \in Seq(Range(log)), NEW c
    PROVE  Append(log, c) \in Seq(Range(Append(log, c)))
BY LogAppends

\* An empty log says nothing.
LEMMA LogNothing == LogIs(<<>>, <<>>, <<>>, <<>>)
<1>1. <<>> \in Seq(Range(<<>>))
  OBVIOUS
<1>2. AssignsOf(<<>>) = <<>> /\ FiltersOf(<<>>) = <<>>
  BY DEF AssignsOf, FiltersOf
<1>3. SaidIn(<<>>, "set") = <<>> /\ SaidIn(<<>>, "row") = <<>> /\ SaidIn(<<>>, "where") = <<>>
  BY SaidInNothing
<1>4. <<>> \in Seq(Seq(Settings))
  OBVIOUS
<1> QED BY ONLY <1>1, <1>2, <1>3, <1>4, FlattenEmpty DEF LogIs

\* One more call adds nothing, its assignments, a row, or a condition.
LEMMA LogOther ==
    ASSUME NEW log, NEW A, NEW R, NEW F, LogIs(log, A, R, F), NEW c, c.call \notin {"set", "row", "where"}
    PROVE  LogIs(Append(log, c), A, R, F)
<1> DEFINE more == Append(log, c)
<1>1. log \in Seq(Range(log))
  BY DEF LogIs
<1>2. more \in Seq(Range(more))
  BY <1>1, LogGrows
<1>3. SaysMore(log, c, "set") /\ SaysMore(log, c, "row") /\ SaysMore(log, c, "where")
  BY <1>1, SaidMore
<1>4. SaidIn(more, "set") = SaidIn(log, "set") /\ SaidIn(more, "row") = SaidIn(log, "row")
      /\ SaidIn(more, "where") = SaidIn(log, "where")
  BY <1>3 DEF SaysMore
<1> HIDE DEF more
<1>5. LogIs(more, A, R, F)
  BY <1>2, <1>4 DEF LogIs
<1> QED BY <1>5 DEF more

LEMMA LogSet ==
    ASSUME NEW log, NEW A, NEW R, NEW F, LogIs(log, A, R, F),
           NEW c, c.call = "set", c.assigns \in Seq(Settings)
    PROVE  LogIs(Append(log, c), A \o c.assigns, R, F)
<1> DEFINE more == Append(log, c)
           sets == SaidIn(log, "set")
           S == Range(log) \cup {c}
           SS == Seq(Settings)
           x == c.assigns
<1>1. log \in Seq(Range(log))
  BY DEF LogIs
<1>2. more \in Seq(Range(more))
  BY <1>1, LogGrows
<1>3. SaysMore(log, c, "set") /\ SaysMore(log, c, "row") /\ SaysMore(log, c, "where")
  BY <1>1, SaidMore
<1>4. SaidIn(more, "set") = Append(sets, c) /\ SaidIn(more, "row") = SaidIn(log, "row")
      /\ SaidIn(more, "where") = SaidIn(log, "where") /\ sets \in Seq(S)
  BY <1>3 DEF SaysMore
<1>5. AssignsOf(sets) \in Seq(SS) /\ x \in SS /\ FlattenSeq(AssignsOf(sets)) = A
  BY DEF LogIs
<1>6. c \in S
  OBVIOUS
<1> HIDE DEF more, sets, S, SS
<1>7. AssignsOf(Append(sets, c)) = Append(AssignsOf(sets), x)
  BY <1>4, <1>5, <1>6, FieldsAppend
<1> HIDE DEF x
<1>8. Append(AssignsOf(sets), x) \in Seq(SS)
  BY <1>5, AppendProperties
<1>9. FlattenSeq(Append(AssignsOf(sets), x)) = A \o x
  BY <1>5, FlattenAppend DEF SS
<1>10. LogIs(more, A \o x, R, F)
  <2>1. AssignsOf(SaidIn(more, "set")) \in Seq(Seq(Settings))
        /\ FlattenSeq(AssignsOf(SaidIn(more, "set"))) = A \o x
    BY ONLY <1>4, <1>7, <1>8, <1>9 DEF SS
  <2> QED BY <1>2, <1>4, <2>1 DEF LogIs
<1> QED BY <1>10 DEF more, x

LEMMA LogRow ==
    ASSUME NEW log, NEW A, NEW R \in Seq(Seq(Settings)), NEW F, LogIs(log, A, R, F),
           NEW c, c.call = "row", c.assigns \in Seq(Settings)
    PROVE  LogIs(Append(log, c), A, Append(R, c.assigns), F)
<1> DEFINE more == Append(log, c)
           rows == SaidIn(log, "row")
           S == Range(log) \cup {c}
           SS == Seq(Settings)
           x == c.assigns
<1>1. log \in Seq(Range(log))
  BY DEF LogIs
<1>2. more \in Seq(Range(more))
  BY <1>1, LogGrows
<1>3. SaysMore(log, c, "set") /\ SaysMore(log, c, "row") /\ SaysMore(log, c, "where")
  BY <1>1, SaidMore
<1>4. SaidIn(more, "row") = Append(rows, c) /\ SaidIn(more, "set") = SaidIn(log, "set")
      /\ SaidIn(more, "where") = SaidIn(log, "where") /\ rows \in Seq(S)
  BY <1>3 DEF SaysMore
<1>5. AssignsOf(rows) = R /\ x \in SS /\ R \in Seq(SS)
  BY DEF LogIs
<1>6. c \in S
  OBVIOUS
<1> HIDE DEF more, rows, S, SS
<1>7. AssignsOf(Append(rows, c)) = Append(R, x)
  BY <1>4, <1>5, <1>6, FieldsAppend
<1> HIDE DEF x
<1>8. LogIs(more, A, Append(R, x), F)
  BY <1>2, <1>4, <1>7 DEF LogIs
<1> QED BY <1>8 DEF more, x

LEMMA LogWhere ==
    ASSUME NEW log, NEW A, NEW R, NEW F \in Seq(Exprs), LogIs(log, A, R, F),
           NEW c, c.call = "where", c.filter \in Exprs
    PROVE  LogIs(Append(log, c), A, R, Append(F, c.filter))
<1> DEFINE more == Append(log, c)
           wheres == SaidIn(log, "where")
           S == Range(log) \cup {c}
           x == c.filter
<1>1. log \in Seq(Range(log))
  BY DEF LogIs
<1>2. more \in Seq(Range(more))
  BY <1>1, LogGrows
<1>3. SaysMore(log, c, "set") /\ SaysMore(log, c, "row") /\ SaysMore(log, c, "where")
  BY <1>1, SaidMore
<1>4. SaidIn(more, "where") = Append(wheres, c) /\ SaidIn(more, "set") = SaidIn(log, "set")
      /\ SaidIn(more, "row") = SaidIn(log, "row") /\ wheres \in Seq(S)
  BY <1>3 DEF SaysMore
<1>5. FiltersOf(wheres) = F /\ x \in Exprs /\ F \in Seq(Exprs)
  BY DEF LogIs
<1>6. c \in S
  OBVIOUS
<1> HIDE DEF more, wheres, S
<1>7. FiltersOf(Append(wheres, c)) = Append(F, x)
  BY <1>4, <1>5, <1>6, FieldsAppend
<1> HIDE DEF x
<1>8. LogIs(more, A, R, Append(F, x))
  BY <1>2, <1>4, <1>7 DEF LogIs
<1> QED BY <1>8 DEF more, x

-----------------------------------------------------------------------------
(* The tags of the lists of a builder: each list's once each, no tag in    *)
(* both, and all of calls made so far.                                     *)

\* All the tags of a list are of calls before the n-th.
Earlier(es, n) == \A tag \in ListTags(es) : tag[1] \in Nat /\ tag[1] < n

\* The two lists of a builder: each clear, without a tag in common, of calls made so far.
Apart(L1, L2, n) ==
    /\ ClearList(L1) /\ ClearList(L2) /\ ListTags(L1) \cap ListTags(L2) = {}
    /\ Earlier(L1, n) /\ Earlier(L2, n)

\* A list of one call.
OfCall(es, n) == ClearList(es) /\ \A tag \in ListTags(es) : tag[1] = n

LEMMA ApartNothing == \A n : Apart(<<>>, <<>>, n)
<1> TAKE n
<1>1. ClearList(<<>>) /\ ListTags(<<>>) = {}
  BY NoTags
<1> QED BY <1>1 DEF Apart, Earlier

\* They stay so while other calls are made.
LEMMA ApartLater ==
    ASSUME NEW L1, NEW L2, NEW n \in Nat, Apart(L1, L2, n)
    PROVE  Apart(L1, L2, n + 1)
BY DEF Apart, Earlier

\* The expressions of one more call have tags of their own.
LEMMA JoinsOfCall ==
    ASSUME NEW L \in Seq(Exprs), NEW M, NEW es \in Seq(Exprs), NEW n \in Nat,
           ClearList(L), ClearList(M), ListTags(L) \cap ListTags(M) = {}, Earlier(L, n), Earlier(M, n),
           OfCall(es, n)
    PROVE  /\ ClearList(L \o es) /\ ListTags(L \o es) \cap ListTags(M) = {}
           /\ Earlier(L \o es, n + 1) /\ Earlier(M, n + 1)
BY ListsConcat DEF Earlier, OfCall

\* So a call may add to either list.
LEMMA ApartLeft ==
    ASSUME NEW L1 \in Seq(Exprs), NEW L2, NEW n \in Nat, Apart(L1, L2, n), NEW es \in Seq(Exprs), OfCall(es, n)
    PROVE  Apart(L1 \o es, L2, n + 1)
BY JoinsOfCall DEF Apart

LEMMA ApartRight ==
    ASSUME NEW L1, NEW L2 \in Seq(Exprs), NEW n \in Nat, Apart(L1, L2, n), NEW es \in Seq(Exprs), OfCall(es, n)
    PROVE  Apart(L1, L2 \o es, n + 1)
BY JoinsOfCall DEF Apart

\* What is kept of a list is as far apart.
LEMMA ApartPart ==
    ASSUME NEW part, NEW assigns, PartOf(part, assigns), NEW L, NEW n, Apart(ValuesOf(assigns), L, n)
    PROVE  Apart(ValuesOf(part), L, n)
BY DEF Apart, PartOf, Earlier

\* Two lists apart are clear as one.
LEMMA ApartIsClear ==
    ASSUME NEW L1 \in Seq(Exprs), NEW L2 \in Seq(Exprs), NEW n, Apart(L1, L2, n)
    PROVE  ClearList(L1 \o L2)
BY ListsConcat DEF Apart

\* An expression without a runtime parameter adds no tag.
IsStatic(es) == \A token \in TokensOf(es) : token.op # "param"

\* A list without runtime parameters has no tag, and may stand next to any.
LEMMA StaticIsClear ==
    ASSUME NEW es \in Seq(Exprs), IsStatic(es)
    PROVE  ClearList(es) /\ ListTags(es) = {}
<1> DEFINE e == FlattenSeq(es)
<1>1. e \in Seq(Tokens) /\ Range(e) = TokensOf(es)
  BY FlattenExprs, TokensOfFlatten, ExprsAre
<1> HIDE DEF e
<1>2. Range(e) \cap Runtime = {}
  BY <1>1 DEF IsStatic, Runtime
<1>3. ParamsIn(e) = <<>>
  BY <1>1, <1>2, AmongNoneIff DEF ParamsIn
<1>4. Len(ParamsIn(e)) = 0
  BY <1>3
<1>5. Clear(e) /\ Tags(e) = {}
  BY <1>2, <1>4 DEF Clear, Tags
<1> QED BY <1>5 DEF e, ClearList, ListTags

LEMMA WithStatic ==
    ASSUME NEW L \in Seq(Exprs), ClearList(L), NEW es \in Seq(Exprs), IsStatic(es)
    PROVE  ClearList(L \o es)
BY StaticIsClear, ListsConcat

\* The expressions of one call's closure, and the condition of a where_.
LEMMA PlacedIsOfCall ==
    ASSUME NEW n, NEW es \in Seq(Exprs), Placed(es, n)
    PROVE  OfCall(es, n)
BY PlacedListIsClear DEF PlacesAt, OfCall

\* A list of one expression that a call placed is of that call.
LEMMA SingleIsOfCall ==
    ASSUME NEW n, NEW i, NEW e \in Exprs, Clear(e), Tags(e) \subseteq PlacesAt(n, i)
    PROVE  OfCall(<<e>>, n)
BY SingleIs DEF PlacesAt, OfCall

-----------------------------------------------------------------------------
(* What closures give.                                                     *)

\* What a menu offers for each column reads the columns it may.
MenuOk(menu, type, columns, others) ==
    \A c \in type.columns : \A e \in menu[c] : e \in Exprs /\ Reads(e, columns, others)

\* Every menu is one of the program's.
LEMMA MenuParts ==
    /\ \A s \in Schemas : \A c \in s.columns : Assignable[c] \cup SetExprs[c] \cup JoinedExprs[c] \subseteq MenuExprs
    /\ \A stage \in {"set", "write", "delete"} : Predicates[stage] \subseteq MenuExprs
    /\ JoinedPredicates \subseteq MenuExprs
    /\ \A s \in Sources : Range(s.exprs) \cup Range(s.filters) \subseteq MenuExprs
    /\ \A p \in Projections : Range(p) \subseteq MenuExprs
<1> DEFINE OfSchema(s) == UNION {Assignable[c] \cup SetExprs[c] \cup JoinedExprs[c] : c \in s.columns}
           A == UNION {OfSchema(s) : s \in Schemas}
           B == UNION {Predicates[stage] : stage \in {"set", "write", "delete"}}
           C == UNION {Range(s.exprs) \cup Range(s.filters) : s \in Sources}
           D == UNION {Range(p) : p \in Projections}
<1>1. MenuExprs = ((((A \cup B) \cup JoinedPredicates) \cup C) \cup D)
  BY ONLY DEF MenuExprs
<1>2. ASSUME NEW s \in Schemas, NEW c \in s.columns
      PROVE  Assignable[c] \cup SetExprs[c] \cup JoinedExprs[c] \subseteq A
  <2>1. Assignable[c] \cup SetExprs[c] \cup JoinedExprs[c] \subseteq OfSchema(s)
    OBVIOUS
  <2> HIDE DEF OfSchema
  <2>2. OfSchema(s) \subseteq A
    OBVIOUS
  <2> HIDE DEF A
  <2> QED BY <2>1, <2>2
<1>3. \A stage \in {"set", "write", "delete"} : Predicates[stage] \subseteq B
  OBVIOUS
<1>4. \A s \in Sources : Range(s.exprs) \cup Range(s.filters) \subseteq C
  OBVIOUS
<1>5. \A p \in Projections : Range(p) \subseteq D
  OBVIOUS
<1> HIDE DEF A, B, C, D
<1>6. A \subseteq MenuExprs /\ B \subseteq MenuExprs /\ C \subseteq MenuExprs /\ D \subseteq MenuExprs
      /\ JoinedPredicates \subseteq MenuExprs
  BY ONLY <1>1
<1> HIDE DEF OfSchema
<1>7. \A s \in Schemas : \A c \in s.columns : Assignable[c] \cup SetExprs[c] \cup JoinedExprs[c] \subseteq MenuExprs
  BY <1>2, <1>6
<1>8. \A stage \in {"set", "write", "delete"} : Predicates[stage] \subseteq MenuExprs
  BY <1>3, <1>6
<1>9. \A s \in Sources : Range(s.exprs) \cup Range(s.filters) \subseteq MenuExprs
  BY <1>4, <1>6
<1>10. \A p \in Projections : Range(p) \subseteq MenuExprs
  BY <1>5, <1>6
<1> QED BY <1>6, <1>7, <1>8, <1>9, <1>10

\* What reads nothing reads no more than is there.
LEMMA ReadsMore ==
    ASSUME NEW e, NEW columns, NEW others, Reads(e, {}, {})
    PROVE  Reads(e, columns, others)
BY DEF Reads

\* It does: the values of an INSERT, of an UPDATE, and of an UPDATE over two tables.
LEMMA MenusOk ==
    ASSUME NEW type \in Schemas
    PROVE  /\ MenuOk(Assignable, type, {}, {})
           /\ MenuOk(Either(Assignable, SetExprs), type, type.columns, {})
           /\ MenuOk(Either(Assignable, JoinedExprs), type, type.columns, OtherColumns)
<1> DEFINE Closures(c) == Assignable[c] \cup SetExprs[c] \cup JoinedExprs[c]
<1>1. \A c \in type.columns :
         /\ c \in DOMAIN Assignable
         /\ \A e \in Assignable[c] : IsExpression(e) /\ Reads(e, {}, {})
         /\ \A e \in SetExprs[c] : IsExpression(e) /\ Reads(e, type.columns, {})
         /\ \A e \in JoinedExprs[c] : IsExpression(e) /\ Reads(e, type.columns, OtherColumns)
  BY MenusAreOfColumns
<1>2. \A c \in type.columns : Closures(c) \subseteq MenuExprs
  BY MenuParts
<1>3. ASSUME NEW c \in type.columns
      PROVE  /\ \A e \in Assignable[c] : e \in Exprs /\ Reads(e, {}, {})
             /\ \A e \in SetExprs[c] : e \in Exprs /\ Reads(e, type.columns, {})
             /\ \A e \in JoinedExprs[c] : e \in Exprs /\ Reads(e, type.columns, OtherColumns)
  BY <1>1, <1>2, MenuIsOfExprs
<1>4. \A c \in type.columns : Either(Assignable, SetExprs)[c] = Assignable[c] \cup SetExprs[c]
  BY <1>1 DEF Either
<1>5. \A c \in type.columns : Either(Assignable, JoinedExprs)[c] = Assignable[c] \cup JoinedExprs[c]
  BY <1>1 DEF Either
<1>6. MenuOk(Assignable, type, {}, {})
  BY <1>3 DEF MenuOk
<1>7. MenuOk(Either(Assignable, SetExprs), type, type.columns, {})
  BY <1>3, <1>4, ReadsMore DEF MenuOk
<1>8. MenuOk(Either(Assignable, JoinedExprs), type, type.columns, OtherColumns)
  BY <1>3, <1>5, ReadsMore DEF MenuOk
<1> QED BY <1>6, <1>7, <1>8

\* Assignments of the listed columns, made by one call.
AssignsList(list, call, columns, others, assigns) ==
    /\ assigns \in Seq(Settings) /\ Len(assigns) = Len(list)
    /\ ColumnsOf(assigns) = list
    /\ ListReads(ValuesOf(assigns), columns, others)
    /\ OfCall(ValuesOf(assigns), call)

\* Placing parameters changes no handle.
LEMMA PlacedReads ==
    ASSUME NEW call \in Nat, NEW i \in Nat, NEW e \in Exprs, NEW columns, NEW others, Reads(e, columns, others)
    PROVE  Reads(PlaceParams(call, i, e), columns, others)
<1> DEFINE p == PlaceParams(call, i, e)
<1>1. \A token \in Range(p) : token.op = "col" => token \in Range(e)
  BY PlacedIs
<1> HIDE DEF p
<1>2. Reads(p, columns, others)
  BY <1>1 DEF Reads
<1> QED BY <1>2 DEF p

\* A list reads what its expressions read.
LEMMA EachReads ==
    ASSUME NEW es \in Seq(Exprs), NEW columns, NEW others, \A i \in 1 .. Len(es) : Reads(es[i], columns, others)
    PROVE  ListReads(es, columns, others)
BY LenProperties DEF ListReads, TokensOf, Reads

\* What set makes of the listed columns and a menu.
LEMMA AssignmentsAre ==
    ASSUME NEW type \in Schemas, NEW menu, NEW columns, NEW others, MenuOk(menu, type, columns, others),
           NEW list, list \in Seq(Range(list)), \A i \in DOMAIN list : list[i] \in type.columns,
           NEW call \in Nat, NEW assigns \in Assignments(list, call, menu)
    PROVE  AssignsList(list, call, columns, others, assigns)
<1> DEFINE n == Len(list)
           F == {g \in [DOMAIN list -> UNION {menu[list[j]] : j \in DOMAIN list}] :
                   \A i \in DOMAIN list : g[i] \in menu[list[i]] /\ AssignableTo(list[i], g[i])}
           made(f) == [i \in DOMAIN list |-> [col |-> list[i], value |-> PlaceParams(call, i, f[i])]]
<1>1. n \in Nat /\ DOMAIN list = 1 .. n
  BY LenProperties
<1>2. assigns \in {made(f) : f \in F}
  BY DEF Assignments
<1>3. PICK f \in F : assigns = made(f)
  BY <1>2
<1>4. \A i \in 1 .. n : f[i] \in menu[list[i]]
  BY <1>1, <1>3
<1> HIDE DEF F
<1>5. \A i \in 1 .. n : f[i] \in Exprs /\ Reads(f[i], columns, others)
  BY <1>1, <1>4 DEF MenuOk
<1>6. ASSUME NEW i \in 1 .. n
      PROVE  LET p == PlaceParams(call, i, f[i])
             IN  /\ p \in Exprs /\ Clear(p) /\ Tags(p) \subseteq PlacesAt(call, i)
                 /\ Reads(p, columns, others)
  <2>1. i \in Nat /\ f[i] \in Exprs /\ Reads(f[i], columns, others)
    BY <1>1, <1>5
  <2>2. Reads(PlaceParams(call, i, f[i]), columns, others)
    BY ONLY <2>1, call \in Nat, PlacedReads
  <2> QED BY ONLY <2>1, <2>2, call \in Nat, PlacedIs
<1>7. \A i \in 1 .. n : list[i] \in Columns
  BY <1>1 DEF Columns
<1>8. \A i \in 1 .. n : assigns[i] = [col |-> list[i], value |-> PlaceParams(call, i, f[i])]
  BY <1>1, <1>3
<1>9. \A i \in 1 .. n : assigns[i] \in Settings
  <2>1. \A i \in 1 .. n : PlaceParams(call, i, f[i]) \in Exprs
    BY <1>6
  <2>2. \A c \in Columns : \A v \in Exprs : [col |-> c, value |-> v] \in Settings
    BY DEF Settings
  <2> QED BY ONLY <1>7, <1>8, <2>1, <2>2
<1>10. assigns = [i \in 1 .. n |-> assigns[i]]
  BY <1>1, <1>3
<1> HIDE DEF made, n
<1>11. assigns \in [1 .. n -> Settings]
  BY <1>9, <1>10
<1>12. assigns \in Seq(Settings) /\ Len(assigns) = n
  BY <1>1, <1>11, FunctionIsSequence
<1>13. DOMAIN assigns = 1 .. n
  BY <1>1, <1>12, LenProperties
<1>14. ColumnsOf(assigns) = list
  BY <1>8, <1>13, <1>1, LenProperties DEF ColumnsOf
<1> DEFINE es == ValuesOf(assigns)
<1>15. es \in Seq(Exprs) /\ Len(es) = n
  BY <1>12, ValuesOfIs
<1>16. \A i \in 1 .. n : es[i] = PlaceParams(call, i, f[i])
  BY <1>8, <1>13 DEF ValuesOf
<1> HIDE DEF es
<1>17. ListReads(es, columns, others)
  BY <1>6, <1>15, <1>16, EachReads
<1>18. Placed(es, call)
  BY <1>6, <1>15, <1>16 DEF Placed
<1>19. OfCall(es, call)
  BY <1>15, <1>18, PlacedIsOfCall
<1> QED BY <1>12, <1>14, <1>17, <1>19 DEF AssignsList, es, n

\* The condition of a where_.
FilterIs(filter, call, columns, others) ==
    filter \in Exprs /\ Reads(filter, columns, others) /\ OfCall(<<filter>>, call)

\* A condition is placed by its call.
LEMMA PlacedFilterIs ==
    ASSUME NEW e \in Exprs, NEW columns, NEW others, Reads(e, columns, others), NEW call \in Nat
    PROVE  FilterIs(PlaceParams(call, 0, e), call, columns, others)
<1> DEFINE p == PlaceParams(call, 0, e)
<1>1. p \in Exprs /\ Clear(p) /\ Tags(p) \subseteq PlacesAt(call, 0)
  BY PlacedIs
<1>2. Reads(p, columns, others)
  BY PlacedReads
<1> HIDE DEF p
<1>3. OfCall(<<p>>, call)
  BY <1>1, SingleIsOfCall
<1> QED BY <1>1, <1>2, <1>3 DEF FilterIs, p

\* So is every condition of the menus.
LEMMA FiltersAre ==
    ASSUME NEW type \in Schemas, NEW call \in Nat
    PROVE  /\ \A stage \in {"set", "write", "delete"} : \A e \in Predicates[stage] :
                 FilterIs(PlaceParams(call, 0, e), call, type.columns, {})
           /\ \A e \in JoinedPredicates : FilterIs(PlaceParams(call, 0, e), call, type.columns, OtherColumns)
BY MenusAreOfColumns, MenuParts, MenuIsOfExprs, PlacedFilterIs

\* A projection reads the target's columns, and has no runtime parameter.
LEMMA ProjectionIs ==
    ASSUME NEW type \in Schemas, NEW p \in Projections
    PROVE  IsList(p, type.columns, {}) /\ IsStatic(p)
<1>1. p \in Seq(Range(p))
  BY ProjectionsAreStatic
<1>2. \A i \in DOMAIN p : IsExpression(p[i]) /\ Reads(p[i], type.columns, {})
  BY MenusAreOfColumns
<1>3. \A i \in DOMAIN p : \A token \in Range(p[i]) : token.op # "param"
  BY ProjectionsAreStatic
<1>4. Len(p) \in Nat /\ DOMAIN p = 1 .. Len(p) /\ p = [i \in 1 .. Len(p) |-> p[i]]
  BY <1>1, LenProperties
<1>5. \A i \in DOMAIN p : p[i] \in MenuExprs
  BY MenuParts DEF Range
<1>6. \A i \in DOMAIN p : p[i] \in Exprs
  BY <1>2, <1>5, MenuIsOfExprs
<1>7. p \in [1 .. Len(p) -> Exprs]
  BY <1>4, <1>6
<1>8. p \in Seq(Exprs)
  BY <1>4, <1>7, FunctionIsSequence
<1>9. ListReads(p, type.columns, {})
  BY <1>2, <1>4, <1>8, EachReads
<1>10. IsStatic(p)
  BY <1>3 DEF IsStatic, TokensOf
<1> QED BY <1>8, <1>9, <1>10 DEF IsList

\* The query of an INSERT ... SELECT gives a value for each column, read from the second table.
LEMMA SourceIs ==
    ASSUME NEW s \in Sources
    PROVE  /\ s.columns \in Seq(Range(s.columns)) /\ Len(s.exprs) = Len(s.columns)
           /\ IsList(s.exprs, OtherColumns, {}) /\ IsList(s.filters, OtherColumns, {})
<1>1. s.columns \in Seq(Range(s.columns)) /\ Len(s.exprs) = Len(s.columns)
  BY SourcesAreQueries
<1>2. ASSUME NEW list \in {s.exprs, s.filters}
      PROVE  IsList(list, OtherColumns, {})
  <2>1. list \in Seq(Range(list))
    BY SourcesAreQueries
  <2>2. \A i \in DOMAIN list : IsExpression(list[i]) /\ Reads(list[i], OtherColumns, {})
    BY SourcesAreQueries
  <2>3. Len(list) \in Nat /\ DOMAIN list = 1 .. Len(list) /\ list = [i \in 1 .. Len(list) |-> list[i]]
    BY <2>1, LenProperties
  <2>4. \A i \in DOMAIN list : list[i] \in MenuExprs
    BY MenuParts DEF Range
  <2>5. \A i \in DOMAIN list : list[i] \in Exprs
    BY <2>2, <2>4, MenuIsOfExprs
  <2>6. list \in [1 .. Len(list) -> Exprs]
    BY <2>3, <2>5
  <2>7. list \in Seq(Exprs)
    BY <2>3, <2>6, FunctionIsSequence
  <2>8. ListReads(list, OtherColumns, {})
    BY <2>2, <2>3, <2>7, EachReads
  <2> QED BY <2>7, <2>8 DEF IsList
<1> QED BY <1>1, <1>2

-----------------------------------------------------------------------------
(* Queries of every kind                                                   *)

\* A query that a finalizer may build.
QueryOk(d, type, q) ==
    \/ InsertOk(d, type, q) \/ SelectOk(d, type, q) \/ UpdateOk(d, type, q)
    \/ UpdateFromOk(d, type, q) \/ DeleteOk(d, type, q) \/ DeleteUsingOk(d, type, q)

\* It is of the kind it says.
LEMMA KindsAre ==
    ASSUME NEW d, NEW type, NEW q, QueryOk(d, type, q)
    PROVE  /\ q.kind \in {"insert", "insert_select", "update", "update_from", "delete", "delete_using"}
           /\ q.kind = "insert" <=> InsertOk(d, type, q)
           /\ q.kind = "insert_select" <=> SelectOk(d, type, q)
           /\ q.kind = "update" <=> UpdateOk(d, type, q)
           /\ q.kind = "update_from" <=> UpdateFromOk(d, type, q)
           /\ q.kind = "delete" <=> DeleteOk(d, type, q)
           /\ q.kind = "delete_using" <=> DeleteUsingOk(d, type, q)
<1>1. /\ InsertOk(d, type, q) => q.kind = "insert"
      /\ SelectOk(d, type, q) => q.kind = "insert_select"
      /\ UpdateOk(d, type, q) => q.kind = "update"
      /\ UpdateFromOk(d, type, q) => q.kind = "update_from"
      /\ DeleteOk(d, type, q) => q.kind = "delete"
      /\ DeleteUsingOk(d, type, q) => q.kind = "delete_using"
  BY DEF InsertOk, SelectOk, UpdateOk, UpdateFromOk, DeleteOk, DeleteUsingOk
<1> QED BY ONLY <1>1, QueryOk(d, type, q) DEF QueryOk

\* A query's expressions, in the order of its type and in that of the text.
LEMMA ExprsOfIs ==
    ASSUME NEW d, NEW type, NEW q, QueryOk(d, type, q)
    PROVE  /\ ExprsOf(q) \in Seq(Exprs) /\ Order(d, q) \in Seq(Exprs)
           /\ TokensOf(Order(d, q)) = TokensOf(ExprsOf(q))
           /\ q.kind # "update_from" => Order(d, q) = ExprsOf(q)
<1>1. CASE q.kind = "insert"
  <2>1. InsertOk(d, type, q)
    BY <1>1, KindsAre
  <2>2. q.rows \in Seq(Seq(Settings)) /\ q.returning \in Seq(Exprs)
    BY <2>1 DEF InsertOk, IsList
  <2>3. ExprsOfRows(q.rows) \in Seq(Exprs)
    <3>1. <<>> \in Seq(Settings)
      OBVIOUS
    <3> QED BY <2>2, <3>1, ExprsOfRowsAppend
  <2>4. ExprsOf(q) = ExprsOfRows(q.rows) \o q.returning
    BY <1>1 DEF ExprsOf
  <2>5. ExprsOf(q) \in Seq(Exprs)
    BY <2>2, <2>3, <2>4, ConcatProperties
  <2> QED BY <1>1, <2>5 DEF Order
<1>2. CASE q.kind = "insert_select"
  BY <1>2, KindsAre, ConcatProperties DEF SelectOk, IsList, ExprsOf, Order
<1>3. CASE q.kind = "update"
  BY <1>3, KindsAre, ConcatProperties DEF UpdateOk, AreAssignments, IsList, ExprsOf, Order
<1>4. CASE q.kind = "update_from"
  <2>1. UpdateFromOk(d, type, q)
    BY <1>4, KindsAre
  <2> DEFINE values == ValuesOf(q.assigns)
             filters == q.filters
  <2>2. values \in Seq(Exprs) /\ filters \in Seq(Exprs)
    BY <2>1 DEF UpdateFromOk, AreAssignments, IsList
  <2>3. ExprsOf(q) = values \o filters
    BY <1>4 DEF ExprsOf
  <2>4. Order(d, q) = filters \o values \/ Order(d, q) = values \o filters
    BY <2>3 DEF Order
  <2> HIDE DEF values, filters
  <2>5. values \o filters \in Seq(Exprs) /\ filters \o values \in Seq(Exprs)
    BY <2>2, ConcatProperties
  <2>6. TokensOf(values \o filters) = TokensOf(filters \o values)
    <3>1. TokensOf(values \o filters) = TokensOf(values) \cup TokensOf(filters)
      BY ONLY <2>2, TokensOfConcat
    <3>2. TokensOf(filters \o values) = TokensOf(filters) \cup TokensOf(values)
      BY ONLY <2>2, TokensOfConcat
    <3> QED BY <3>1, <3>2
  <2> QED BY <1>4, <2>3, <2>4, <2>5, <2>6
<1>5. CASE q.kind = "delete"
  BY <1>5, KindsAre, ConcatProperties DEF DeleteOk, IsList, ExprsOf, Order
<1>6. CASE q.kind = "delete_using"
  BY <1>6, KindsAre DEF DeleteUsingOk, IsList, ExprsOf, Order
<1> QED BY <1>1, <1>2, <1>3, <1>4, <1>5, <1>6, KindsAre

\* Every query is rendered: nothing is rejected, and every bind is there.
LEMMA QueryIsWritten ==
    ASSUME NEW d, NEW type, NEW q, QueryOk(d, type, q), NEW sink \in Sinks
    PROVE  IsWritten(d, sink, q, FlattenSeq(Order(d, q)))
BY KindsAre, ExprsOfIs, InsertIsWritten, SelectIsWritten, UpdateIsWritten, UpdateFromIsWritten,
   DeleteIsWritten, DeleteUsingIsWritten

\* What the server is to make of a query.
Does(d, type, q, tab, others, given, result) ==
    /\ q.kind = "insert" => InsertMeans(d, type, tab, q, given, result)
    /\ q.kind = "insert_select" => SelectMeans(type, tab, others, q, given, result)
    /\ q.kind = "update" => UpdateMeans(type, tab, {<<>>}, q.assigns, q.filters, q.returning, given, result)
    /\ q.kind = "update_from" => UpdateMeans(type, tab, others, q.assigns, q.filters, <<>>, given, result)
    /\ q.kind = "delete" => DeleteMeans(tab, {<<>>}, q.filters, q.returning, given, result)
    /\ q.kind = "delete_using" => DeleteMeans(tab, others, q.filters, <<>>, given, result)

\* MySQL's order of assignments does not matter, and its table is consistent.
Settled(d, type, q, tab) ==
    /\ d = "mysql" => Consistent(type, tab)
    /\ q.kind \in {"update", "update_from"} => AllInOrder(d, q.assigns, tab)

\* Whichever it is, what is rendered does what the query means.
LEMMA QueryRuns ==
    ASSUME NEW d \in Known, NEW type, NEW q, QueryOk(d, type, q), NEW tab, Settled(d, type, q, tab),
           NEW others, NEW params, NEW given, Supplies(params, given, FlattenSeq(Order(d, q))),
           NEW sink \in Sinks,
           NEW result \in Run(d, type, tab, others, OtherColumns, Render(d, sink, q).stmt, params)
    PROVE  Does(d, type, q, tab, others, given, result)
BY KindsAre, ExprsOfIs, InsertsRun, SelectsRun, UpdatesRun, UpdatesFromRun, DeletesRun,
   DeletesUsingRun DEF Settled, Does

-----------------------------------------------------------------------------
(* The parameters of an execution.                                         *)

\* The argument of each runtime parameter of a query.
GivenTo(q, args) ==
    LET places == ParamsOf(ExprsOf(q))
    IN  [p \in {places[i].n : i \in DOMAIN places} |->
            args[CHOOSE i \in DOMAIN places : places[i].n = p]]

\* A value that a parameter cannot carry.
Refuses(d, q, args) ==
    \/ Unencodable(d, FlattenSeq(Order(d, q)))
    \/ \E i \in DOMAIN args : ~Encodes(d, args[i])

\* What an execution of the query does: fail for a value that does not encode, or what it means.
Effect(d, type, q, tab, others, args, result) ==
    IF Refuses(d, q, args) THEN result = Failed(tab)
    ELSE Does(d, type, q, tab, others, GivenTo(q, args), result)

\* Its expressions in the order of the text have the same parameters.
LEMMA OrderIs ==
    ASSUME NEW d, NEW type, NEW q, QueryOk(d, type, q)
    PROVE  LET e == FlattenSeq(Order(d, q))
           IN  /\ e \in Seq(Tokens) /\ Range(e) = TokensOf(ExprsOf(q))
               /\ ParamsOf(ExprsOf(q)) = ParamsIn(FlattenSeq(ExprsOf(q)))
               /\ FlattenSeq(ExprsOf(q)) \in Seq(Tokens)
               /\ Range(FlattenSeq(ExprsOf(q))) = TokensOf(ExprsOf(q))
<1> DEFINE order == Order(d, q)
           exprs == ExprsOf(q)
           SS == Seq(Tokens)
<1>1. order \in Seq(Exprs) /\ exprs \in Seq(Exprs) /\ TokensOf(order) = TokensOf(exprs)
  BY ExprsOfIs
<1> HIDE DEF order, exprs
<1>2. order \in Seq(Seq(Tokens)) /\ exprs \in Seq(Seq(Tokens))
  BY <1>1, ExprsAre
<1>3. Range(FlattenSeq(order)) = TokensOf(order) /\ Range(FlattenSeq(exprs)) = TokensOf(exprs)
  BY <1>2, TokensOfFlatten
<1>4. FlattenSeq(order) \in Seq(Tokens) /\ FlattenSeq(exprs) \in Seq(Tokens)
  BY <1>1, FlattenExprs
<1>5. ParamsOf(exprs) = ParamsIn(FlattenSeq(exprs))
  BY <1>2, ParamsOfIs
<1> QED BY <1>1, <1>3, <1>4, <1>5 DEF order, exprs

\* Without runtime parameters the binds of the parameter sink are the literals.
LEMMA LiteralsSupply ==
    ASSUME NEW e \in Seq(Tokens), ParamsIn(e) = <<>>, NEW binds \in Seq(Binds), KeepsBinds(binds, e), NEW given
    PROVE  Supplies([i \in DOMAIN binds |-> binds[i].v], given, e)
<1> DEFINE values == [i \in DOMAIN binds |-> binds[i].v]
           n == Len(Binders(e))
<1>1. Binders(e) \in Seq(Tokens) /\ n \in Nat
  BY AmongIsSequence, LenProperties DEF Binders
<1>2. Len(binds) = n /\ DOMAIN binds = 1 .. n
  BY LenProperties DEF KeepsBinds
<1>3. \A j \in 1 .. n : BindOf(binds[j], Binders(e)[j], <<>>)
  BY DEF KeepsBinds
<1> HIDE DEF n
<1>4. DOMAIN values = 1 .. n /\ values = [i \in 1 .. n |-> binds[i].v]
  BY <1>2
<1>5. Len(values) = n
  BY <1>1, <1>4
<1>6. \A j \in 1 .. n : values[j] = binds[j].v
  BY <1>4
<1> HIDE DEF values
<1>7. ASSUME NEW j \in 1 .. n
      PROVE  Binders(e)[j].op = "lit" /\ values[j] = Binders(e)[j].v
  BY <1>3, <1>6 DEF BindOf
<1>8. Fits(values, given, e)
  BY <1>7 DEF Fits, n
<1> QED BY <1>5, <1>8 DEF Supplies, values, n

\* execute renders twice, for the text and for the parameters: together they do it.
LEMMA ExecuteDoes ==
    ASSUME NEW d \in Known, NEW type, NEW q, QueryOk(d, type, q), NEW tab, Settled(d, type, q, tab),
           NEW others, ParamsOf(ExprsOf(q)) = <<>>
    PROVE  LET text == Render(d, "text", q)
               params == Render(d, "params", q)
               values == [i \in DOMAIN params.w.binds |-> params.w.binds[i].v]
           IN  \A result \in (IF text.w.reject \/ params.w.error THEN {Failed(tab)}
                              ELSE Run(d, type, tab, others, OtherColumns, text.stmt, values)) :
                  Effect(d, type, q, tab, others, <<>>, result)
<1> DEFINE e == FlattenSeq(Order(d, q))
           text == Render(d, "text", q)
           params == Render(d, "params", q)
           values == [i \in DOMAIN params.w.binds |-> params.w.binds[i].v]
           given == GivenTo(q, <<>>)
<1>1. e \in Seq(Tokens) /\ Range(e) = TokensOf(ExprsOf(q))
      /\ ParamsOf(ExprsOf(q)) = ParamsIn(FlattenSeq(ExprsOf(q)))
      /\ FlattenSeq(ExprsOf(q)) \in Seq(Tokens)
      /\ Range(FlattenSeq(ExprsOf(q))) = TokensOf(ExprsOf(q))
  BY OrderIs
<1>2. ParamsIn(e) = <<>>
  <2>1. Range(e) \cap Runtime = {}
    BY <1>1, AmongNoneIff DEF ParamsIn
  <2> HIDE DEF e
  <2> QED BY <1>1, <2>1, AmongNoneIff DEF ParamsIn
<1>3. /\ Carries(Context(d, "text", FALSE), e, text.w)
      /\ Carries(Context(d, "params", FALSE), e, params.w)
  BY QueryIsWritten DEF IsWritten, Sinks
<1> HIDE DEF e, text, params
<1>4. ~ text.w.reject
  BY <1>3 DEF Carries
<1>5. params.w.error <=> Unencodable(d, e)
  BY <1>3 DEF Carries, Context
<1>6. ~ params.w.error => KeepsBinds(params.w.binds, e)
  BY <1>2, <1>3 DEF Carries, Context, Collects
<1>7. params.w.binds \in Seq(Binds)
  BY <1>3 DEF Carries, RendererStates
<1>8. Refuses(d, q, <<>>) <=> Unencodable(d, e)
  BY DEF Refuses, e
<1>9. ASSUME ~ params.w.error
      PROVE  Supplies(values, given, e)
  <2> DEFINE binds == params.w.binds
  <2>1. KeepsBinds(binds, e) /\ binds \in Seq(Binds)
    BY <1>6, <1>7, <1>9
  <2> HIDE DEF binds, given
  <2>2. Supplies([i \in DOMAIN binds |-> binds[i].v], given, e)
    BY <1>1, <1>2, <2>1, LiteralsSupply
  <2> QED BY <2>2 DEF binds
<1> HIDE DEF values
<1>10. ASSUME ~ params.w.error, NEW result \in Run(d, type, tab, others, OtherColumns, text.stmt, values)
      PROVE  Does(d, type, q, tab, others, given, result)
  <2> HIDE DEF given
  <2>1. Supplies(values, given, FlattenSeq(Order(d, q)))
    BY <1>9, <1>10 DEF e
  <2>2. "text" \in Sinks
    BY DEF Sinks
  <2>3. result \in Run(d, type, tab, others, OtherColumns, Render(d, "text", q).stmt, values)
    BY <1>10 DEF text
  <2> QED BY <2>1, <2>2, <2>3, QueryRuns
<1>11. \A result \in (IF text.w.reject \/ params.w.error THEN {Failed(tab)}
                      ELSE Run(d, type, tab, others, OtherColumns, text.stmt, values)) :
          Effect(d, type, q, tab, others, <<>>, result)
  <2> HIDE DEF given
  <2>1. CASE params.w.error
    BY <1>5, <1>8, <2>1 DEF Effect
  <2>2. CASE ~ params.w.error
    BY <1>4, <1>5, <1>8, <1>10, <2>2 DEF Effect, given
  <2> QED BY <2>1, <2>2
<1> QED BY <1>11 DEF text, params, values

\* Where a tag is written once, its argument is the one at the index of its place.
LEMMA GivenAt ==
    ASSUME NEW d, NEW type, NEW q, QueryOk(d, type, q), NEW e, e = FlattenSeq(ExprsOf(q)), Clear(e),
           NEW args, NEW k \in 1 .. Len(ParamsIn(e))
    PROVE  GivenTo(q, args)[ParamsIn(e)[k].n] = args[k]
<1> DEFINE places == ParamsIn(e)
           n == Len(places)
           tag == places[k].n
           K == {i \in DOMAIN places : places[i].n = tag}
<1>1. e \in Seq(Tokens) /\ ParamsOf(ExprsOf(q)) = places
  BY OrderIs
<1>2. n \in Nat /\ DOMAIN places = 1 .. n
  BY <1>1, ParamsInIs
<1>3. \A i, j \in 1 .. n : places[i].n = places[j].n => i = j
  BY DEF Clear
<1>4. GivenTo(q, args) = [p \in {places[i].n : i \in DOMAIN places} |->
                            args[CHOOSE i \in DOMAIN places : places[i].n = p]]
  BY <1>1 DEF GivenTo
<1>5. k \in DOMAIN places
  BY <1>2
<1> HIDE DEF places, n
<1>6. GivenTo(q, args)[tag] = args[CHOOSE i \in DOMAIN places : places[i].n = tag]
  BY <1>4, <1>5
<1>7. (CHOOSE i \in DOMAIN places : places[i].n = tag) = k
  BY <1>2, <1>3, <1>5
<1> QED BY <1>6, <1>7 DEF places

\* The arguments, resolved by the binds of prepare, are what the statement's parameters stand for.
LEMMA ResolvedSupplies ==
    ASSUME NEW d, NEW type, NEW q, QueryOk(d, type, q), NEW e, e = FlattenSeq(ExprsOf(q)), Clear(e),
           NEW binds \in Seq(Binds), KeepsBinds(binds, e), NEW args
    PROVE  Supplies(Resolved(binds, args), GivenTo(q, args), e)
<1> DEFINE n == Len(Binders(e))
           given == GivenTo(q, args)
           values == Resolved(binds, args)
<1>1. e \in Seq(Tokens)
  BY OrderIs
<1>2. Binders(e) \in Seq(Tokens) /\ n \in Nat
  BY <1>1, AmongIsSequence, LenProperties DEF Binders
<1>3. Len(binds) = n /\ DOMAIN binds = 1 .. n
  BY LenProperties DEF KeepsBinds
<1>4. \A j \in 1 .. n : BindOf(binds[j], Binders(e)[j], ParamsIn(e))
  BY DEF KeepsBinds
<1>5. values = [i \in 1 .. n |-> IF binds[i].k = "static" THEN binds[i].v ELSE args[binds[i].n + 1]]
  BY <1>3 DEF Resolved
<1> HIDE DEF n
<1>6. Len(values) = n
  BY <1>2, <1>5
<1>7. \A k \in 1 .. Len(ParamsIn(e)) : given[ParamsIn(e)[k].n] = args[k]
  BY GivenAt
<1> HIDE DEF given, values
<1>8. ASSUME NEW j \in 1 .. n
      PROVE  values[j] = IF Binders(e)[j].op = "lit" THEN Binders(e)[j].v ELSE given[Binders(e)[j].n]
  <2> DEFINE bind == binds[j]
             token == Binders(e)[j]
             params == ParamsIn(e)
  <2>1. BindOf(bind, token, params)
    BY <1>4
  <2>2. values[j] = IF bind.k = "static" THEN bind.v ELSE args[bind.n + 1]
    BY <1>5
  <2>3. \A k \in 1 .. Len(params) : given[params[k].n] = args[k]
    BY <1>7
  <2> HIDE DEF bind, token, params
  <2>4. CASE token.op = "lit" /\ bind.k = "static" /\ bind.v = token.v
    BY <2>2, <2>4 DEF token
  <2>5. CASE /\ token.op = "param" /\ bind.k = "runtime"
             /\ bind.n + 1 \in 1 .. Len(params) /\ params[bind.n + 1] = token
    BY <2>3, <2>5, <2>2 DEF token
  <2> QED BY <2>1, <2>4, <2>5 DEF BindOf
<1>9. Fits(values, given, e)
  BY <1>8 DEF Fits, n
<1> QED BY <1>6, <1>9 DEF Supplies, values, n, given

\* A prepared statement and its parameters.
PreparedOf(d, q, prep) ==
    LET r == Render(d, "prepared", q)
    IN  ~ r.w.error /\ prep.stmt = r.stmt /\ prep.params = r.w.binds

\* A prepared statement has a bind for every placeholder, or is refused.
LEMMA PreparedIs ==
    ASSUME NEW d, NEW type, NEW q, QueryOk(d, type, q)
    PROVE  LET r == Render(d, "prepared", q)
               e == FlattenSeq(Order(d, q))
           IN  /\ ~ r.w.reject
               /\ r.w.error <=> Unencodable(d, e)
               /\ r.w.binds \in Seq(Binds)
               /\ ~ r.w.error => KeepsBinds(r.w.binds, e)
<1> DEFINE r == Render(d, "prepared", q)
           e == FlattenSeq(Order(d, q))
<1>1. Carries(Context(d, "prepared", FALSE), e, r.w)
  BY QueryIsWritten DEF IsWritten, Sinks
<1> HIDE DEF r, e
<1>2. ~ r.w.reject /\ r.w.binds \in Seq(Binds)
  BY <1>1 DEF Carries, RendererStates
<1>3. r.w.error <=> Unencodable(d, e)
  BY <1>1 DEF Carries, Context
<1>4. ~ r.w.error => KeepsBinds(r.w.binds, e)
  BY <1>1 DEF Carries, Context, Collects
<1> QED BY <1>2, <1>3, <1>4 DEF r, e

\* What cannot be encoded is refused when the statement is prepared.
LEMMA PrepareRefuses ==
    ASSUME NEW d, NEW type, NEW q, QueryOk(d, type, q), NEW tab, NEW others,
           LET r == Render(d, "prepared", q) IN r.w.reject \/ r.w.error
    PROVE  Effect(d, type, q, tab, others, <<>>, Failed(tab))
BY PreparedIs DEF Effect, Refuses

\* A prepared query does it too, with the arguments of any later execution.
LEMMA ExecutePreparedDoes ==
    ASSUME NEW d \in Known, NEW type, NEW q, QueryOk(d, type, q), q.kind # "update_from",
           Clear(FlattenSeq(ExprsOf(q))), NEW tab, Settled(d, type, q, tab), NEW others,
           NEW prep, PreparedOf(d, q, prep), NEW args,
           NEW result \in (IF \E i \in DOMAIN args : ~Encodes(d, args[i]) THEN {Failed(tab)}
                           ELSE Run(d, type, tab, others, OtherColumns, prep.stmt, Resolved(prep.params, args)))
    PROVE  Effect(d, type, q, tab, others, args, result)
<1> DEFINE r == Render(d, "prepared", q)
           e == FlattenSeq(Order(d, q))
           given == GivenTo(q, args)
           binds == r.w.binds
           values == Resolved(binds, args)
<1>1. Order(d, q) = ExprsOf(q)
  BY ExprsOfIs
<1>2. ~ r.w.error /\ prep.stmt = r.stmt /\ prep.params = binds
  BY DEF PreparedOf
<1>3. r.w.error <=> Unencodable(d, e)
  BY PreparedIs
<1>4. binds \in Seq(Binds) /\ KeepsBinds(binds, e)
  BY <1>2, PreparedIs
<1>5. Refuses(d, q, args) <=> \E i \in DOMAIN args : ~Encodes(d, args[i])
  BY <1>2, <1>3 DEF Refuses
<1>6. Supplies(values, given, FlattenSeq(Order(d, q)))
  <2>1. Clear(e) /\ e = FlattenSeq(ExprsOf(q))
    BY <1>1
  <2> HIDE DEF e, binds
  <2> QED BY <1>4, <2>1, ResolvedSupplies DEF e
<1>7. CASE \E i \in DOMAIN args : ~Encodes(d, args[i])
  BY <1>7, <1>5 DEF Effect
<1>8. CASE ~ \E i \in DOMAIN args : ~Encodes(d, args[i])
  <2>1. result \in Run(d, type, tab, others, OtherColumns, Render(d, "prepared", q).stmt, values)
    BY <1>2, <1>8
  <2>2. "prepared" \in Sinks
    BY DEF Sinks
  <2> HIDE DEF given, values
  <2>3. Does(d, type, q, tab, others, given, result)
    BY <1>6, <2>1, <2>2, QueryRuns
  <2> QED BY <1>5, <1>8, <2>3 DEF Effect, given
<1> QED BY <1>7, <1>8

-----------------------------------------------------------------------------
(* What a log means, and the query that a finalizer built from it.         *)

LEMMA SaidIsIn == \A name : Said(name) = SaidIn(calls, name)
BY DEF Said, SaidIn

\* A call that was never made was given nothing.
LEMMA NoneSaid ==
    ASSUME NEW log, log \in Seq(Range(log)), NEW name
    PROVE  AssignsOf(SaidIn(log, name)) = <<>> <=> SaidIn(log, name) = <<>>
<1> DEFINE said == SaidIn(log, name)
           S == Range(log)
<1>1. said \in Seq(S)
  <2> HIDE DEF S
  <2>1. log \in Seq(S)
    BY DEF S
  <2>2. SaidIn(log, name) = Among(log, {c \in S : c.call = name})
    BY <2>1, SaidInIs
  <2> QED BY <2>1, <2>2, AmongIsSequence
<1> HIDE DEF said
<1>2. DOMAIN said = 1 .. Len(said) /\ Len(said) \in Nat
  BY <1>1, LenProperties
<1>3. DOMAIN AssignsOf(said) = DOMAIN said
  BY DEF AssignsOf
<1>4. ASSUME AssignsOf(said) = <<>>
      PROVE  said = <<>>
  <2>1. DOMAIN said = {}
    BY <1>3, <1>4
  <2>2. Len(said) = 0
    BY <1>2, <2>1
  <2> QED BY <1>1, <2>2, EmptySeq
<1>5. ASSUME said = <<>>
      PROVE  AssignsOf(said) = <<>>
  BY <1>5 DEF AssignsOf
<1> QED BY <1>4, <1>5 DEF said

\* The rows an insert lists: those of row, or the one of the setters.
RowsOfLog(type, A, R) == IF R # <<>> THEN R ELSE <<OfColumns(A, type.insertable)>>

\* What the log says is what EffectIsMeaning reads from it.
LEMMA SaidIs ==
    ASSUME NEW A, NEW R, NEW F, LogIs(calls, A, R, F)
    PROVE  /\ SaidFilters = F
           /\ SaidRows = RowsOfLog(schema, A, R)
           /\ SaidAssigns = OfColumns(A, schema.updateable)
BY SaidIsIn, NoneSaid DEF LogIs, SaidAll, AssignsOf, SaidFilters, FiltersOf, SaidRows, RowsOfLog,
   IntoInsert, SaidAssigns, IntoUpdate

\* The conflict clause that the calls named.
ConflictIs(conflict, log) ==
    \/ conflict.action = "none" /\ SaidIn(log, "do") = <<>>
    \/ /\ conflict.action # "none" /\ SaidIn(log, "do") # <<>>
       /\ SaidIn(log, "do")[1].action = conflict.action
       /\ SaidIn(log, "on conflict")[1].target = conflict.target

\* A query says what the calls said.
Says(type, q, log, A, R, F) ==
    LET final == log[Len(log)]
    IN  \/ /\ q.kind = "insert" /\ final.call = "insert" /\ q.returning = final.returning
           /\ q.rows = RowsOfLog(type, A, R) /\ ConflictIs(q.conflict, log)
        \/ /\ q.kind = "insert_select" /\ final.call = "insert select"
           /\ q.source = final.source /\ q.columns = final.source.columns
        \/ /\ q.kind = "update" /\ final.call = "update" /\ q.returning = final.returning
           /\ q.assigns = OfColumns(A, type.updateable) /\ q.filters = F
        \/ /\ q.kind = "update_from" /\ final.call = "update from"
           /\ q.assigns = OfColumns(A, type.updateable) /\ q.filters = F
        \/ /\ q.kind = "delete" /\ final.call = "delete" /\ q.returning = final.returning
           /\ q.filters = F
        \/ q.kind = "delete_using" /\ final.call = "delete using" /\ q.filters = F

\* The query of a log.
QueryIs(d, type, q, log) ==
    /\ QueryOk(d, type, q)
    /\ \E A, R, F : LogIs(log, A, R, F) /\ Says(type, q, log, A, R, F)
    /\ q.kind \in {"insert", "update", "delete"} => ClearList(ExprsOf(q))

\* Its expressions are those that were said,
LEMMA SaidExprsAre ==
    ASSUME NEW q, NEW A, NEW R, NEW F, LogIs(calls, A, R, F), Says(schema, q, calls, A, R, F)
    PROVE  SaidExprs = ExprsOf(q)
<1>1. /\ SaidFilters = F /\ SaidRows = RowsOfLog(schema, A, R)
      /\ SaidAssigns = OfColumns(A, schema.updateable)
  BY SaidIs
<1> DEFINE final == calls[Len(calls)]
<1>2. CASE q.kind = "insert"
  BY <1>1, <1>2 DEF Says, SaidExprs, ExprsOf
<1>3. CASE q.kind = "insert_select"
  BY <1>3 DEF Says, SaidExprs, ExprsOf
<1>4. CASE q.kind = "update"
  BY <1>1, <1>4 DEF Says, SaidExprs, ExprsOf
<1>5. CASE q.kind = "update_from"
  BY <1>1, <1>5 DEF Says, SaidExprs, ExprsOf
<1>6. CASE q.kind = "delete"
  BY <1>1, <1>6 DEF Says, SaidExprs, ExprsOf
<1>7. CASE q.kind = "delete_using"
  BY <1>1, <1>7 DEF Says, SaidExprs, ExprsOf
<1> QED BY <1>2, <1>3, <1>4, <1>5, <1>6, <1>7 DEF Says

\* its parameters are given what was said,
LEMMA GivenIs ==
    ASSUME NEW q, SaidExprs = ExprsOf(q), QueryOk(dialect, schema, q), NEW args
    PROVE  /\ Given(args) = GivenTo(q, args)
           /\ Expressible(args) <=> ~ Refuses(dialect, q, args)
<1>1. Given(args) = GivenTo(q, args)
  BY DEF Given, GivenTo
<1> DEFINE e == FlattenSeq(Order(dialect, q))
<1>2. Range(e) = TokensOf(SaidExprs)
  BY OrderIs
<1> HIDE DEF e
<1>3. Unencodable(dialect, e) <=> \E token \in TokensOf(SaidExprs) : token.op = "lit" /\ ~ Encodes(dialect, token.v)
  BY <1>2 DEF Unencodable
<1>4. Expressible(args) <=> ~ Refuses(dialect, q, args)
  BY <1>3 DEF Expressible, Refuses, e
<1> QED BY <1>1, <1>4

\* its assignments revise a row as was said,
LEMMA RevisedRowIs == \A r, o, given : RevisedRow(r, o, given) = Revised(schema, SaidAssigns, r, o, given)
BY DEF RevisedRow, Revised

\* and its conditions match as was said.
LEMMA PartnersAre == \A r, given : Partners(r, given) = Matching(SaidFilters, OtherRows, r, given)
BY DEF Partners, Matching

-----------------------------------------------------------------------------
(* The meaning of the calls, by the kind of the last one.                  *)

\* The rows that what was said matches, over one table and over two.
MatchedBy(before, given) == {r \in before : Holds(SaidFilters, [rows |-> <<r, <<>>>>, params |-> given])}
JoinedBy(before, given) == {r \in before : Partners(r, given) # {}}

\* Which row of the second table each row is joined with.
JoinsOf(before, given) ==
    LET joined == JoinedBy(before, given)
    IN  {g \in [joined -> OtherRows] : \A r \in joined : g[r] \in Partners(r, given)}
\* An UPDATE over two tables, by one choice of the rows joined.
UpdatedFrom(before, f, given) ==
    Replace(schema, before, [r \in JoinedBy(before, given) |-> RevisedRow(r, f[r], given)], <<>>, given)

\* The meaning of the calls that end in insert,
LEMMA MeaningOfInsert ==
    ASSUME NEW before, NEW args, Expressible(args), calls[Len(calls)].call = "insert"
    PROVE  LET final == calls[Len(calls)]
               given == Given(args)
               inserted == Filled(schema, SaidRows, given)
           IN  Meaning(before, args) =
                  IF Said("do") = <<>> THEN {Put(schema, before, inserted, final.returning, given)}
                  ELSE {UpsertMeaning(before, inserted, final.returning, given)}
BY DEF Meaning, Filled

\* in insert_select,
LEMMA MeaningOfSelect ==
    ASSUME NEW before, NEW args, Expressible(args), calls[Len(calls)].call = "insert select"
    PROVE  LET s == calls[Len(calls)].source
               given == Given(args)
           IN  Meaning(before, args) =
                  {Put(schema, before,
                       Picked(schema, s.columns, s.exprs, Chosen(s.filters, OtherRows, given), given),
                       <<>>, given)}
BY DEF Meaning, Picked, Chosen

\* in update,
LEMMA MeaningOfUpdate ==
    ASSUME NEW before, NEW args, Expressible(args), calls[Len(calls)].call = "update"
    PROVE  LET given == Given(args)
           IN  Meaning(before, args) =
                  {Replace(schema, before, [r \in MatchedBy(before, given) |-> RevisedRow(r, <<>>, given)],
                           calls[Len(calls)].returning, given)}
BY DEF Meaning, MatchedBy

\* in update with a second table,
LEMMA MeaningOfUpdateFrom ==
    ASSUME NEW before, NEW args, Expressible(args), calls[Len(calls)].call = "update from",
           NEW f \in JoinsOf(before, Given(args))
    PROVE  UpdatedFrom(before, f, Given(args)) \in Meaning(before, args)
<1> DEFINE given == Given(args)
           joined == JoinedBy(before, given)
           FF == {g \in [joined -> OtherRows] : \A r \in joined : g[r] \in Partners(r, given)}
           made(g) == Replace(schema, before, [r \in joined |-> RevisedRow(r, g[r], given)], <<>>, given)
<1>1. Meaning(before, args) = {made(g) : g \in FF}
  BY DEF Meaning, JoinedBy
<1>2. f \in FF
  BY DEF JoinsOf
<1> HIDE DEF FF
<1>3. made(f) \in Meaning(before, args)
  BY <1>1, <1>2
<1> QED BY <1>3 DEF UpdatedFrom

\* in delete,
LEMMA MeaningOfDelete ==
    ASSUME NEW before, NEW args, Expressible(args), calls[Len(calls)].call = "delete"
    PROVE  LET given == Given(args)
           IN  Meaning(before, args) =
                  {Erase(before, MatchedBy(before, given), calls[Len(calls)].returning, given)}
BY DEF Meaning, MatchedBy

\* in delete with a second table;
LEMMA MeaningOfDeleteUsing ==
    ASSUME NEW before, NEW args, Expressible(args), calls[Len(calls)].call = "delete using"
    PROVE  LET given == Given(args)
           IN  Meaning(before, args) = {Erase(before, JoinedBy(before, given), <<>>, given)}
BY DEF Meaning, JoinedBy

\* and whatever they end in, a value that cannot be encoded changes nothing.
LEMMA MeaningOfRefusal ==
    ASSUME NEW before, NEW args, ~ Expressible(args)
    PROVE  Meaning(before, args) = {Failed(before)}
BY DEF Meaning

\* Without a second source a row is matched with no row.
LEMMA MatchedIs ==
    ASSUME NEW before, NEW given
    PROVE  /\ Matched(before, SaidFilters, {<<>>}, given) = MatchedBy(before, given)
           /\ Matched(before, SaidFilters, OtherRows, given) = JoinedBy(before, given)
           /\ \A r \in MatchedBy(before, given) : Matching(SaidFilters, {<<>>}, r, given) = {<<>>}
BY PartnersAre DEF Matching, Matched, MatchedBy, JoinedBy

\* What an UPDATE does is what its calls mean.
LEMMA UpdateIsMeant ==
    ASSUME NEW before, NEW returning, NEW given, NEW result,
           UpdateMeans(schema, before, {<<>>}, SaidAssigns, SaidFilters, returning, given, result)
    PROVE  result = Replace(schema, before, [r \in MatchedBy(before, given) |-> RevisedRow(r, <<>>, given)],
                            returning, given)
<1> DEFINE matched == MatchedBy(before, given)
<1>1. /\ Matched(before, SaidFilters, {<<>>}, given) = matched
      /\ \A r \in matched : Matching(SaidFilters, {<<>>}, r, given) = {<<>>}
  BY MatchedIs
<1>2. PICK f : /\ JoinsBy(f, before, SaidFilters, {<<>>}, given)
               /\ result = Replace(schema, before,
                              [r \in Matched(before, SaidFilters, {<<>>}, given) |->
                                 Revised(schema, SaidAssigns, r, f[r], given)],
                              returning, given)
  BY DEF UpdateMeans
<1> HIDE DEF matched
<1>3. \A r \in matched : f[r] = <<>>
  BY <1>1, <1>2 DEF JoinsBy
<1>4. \A r \in matched : Revised(schema, SaidAssigns, r, f[r], given) = RevisedRow(r, <<>>, given)
  BY <1>3, RevisedRowIs
<1>5. [r \in matched |-> Revised(schema, SaidAssigns, r, f[r], given)] =
      [r \in matched |-> RevisedRow(r, <<>>, given)]
  BY <1>4
<1> QED BY <1>1, <1>2, <1>5 DEF matched

\* Over two tables it is one of the things they mean.
LEMMA UpdateFromIsMeant ==
    ASSUME NEW before, NEW given, NEW result,
           UpdateMeans(schema, before, OtherRows, SaidAssigns, SaidFilters, <<>>, given, result)
    PROVE  \E f \in JoinsOf(before, given) : result = UpdatedFrom(before, f, given)
<1> DEFINE joined == JoinedBy(before, given)
<1>1. Matched(before, SaidFilters, OtherRows, given) = joined
  BY MatchedIs
<1>2. PICK f : /\ JoinsBy(f, before, SaidFilters, OtherRows, given)
               /\ result = Replace(schema, before,
                              [r \in Matched(before, SaidFilters, OtherRows, given) |->
                                 Revised(schema, SaidAssigns, r, f[r], given)],
                              <<>>, given)
  BY DEF UpdateMeans
<1> HIDE DEF joined
<1> DEFINE g == [r \in joined |-> f[r]]
<1>3. \A r \in joined : f[r] \in Partners(r, given)
  BY <1>1, <1>2, PartnersAre DEF JoinsBy
<1>4. \A r \in joined : f[r] \in OtherRows
  BY <1>3 DEF Partners
<1>5. g \in {h \in [joined -> OtherRows] : \A r \in joined : h[r] \in Partners(r, given)}
  BY <1>3, <1>4
<1>6. \A r \in joined : Revised(schema, SaidAssigns, r, f[r], given) = RevisedRow(r, g[r], given)
  BY RevisedRowIs
<1> HIDE DEF g
<1>7. [r \in joined |-> Revised(schema, SaidAssigns, r, f[r], given)] =
      [r \in joined |-> RevisedRow(r, g[r], given)]
  BY <1>6
<1>8. result = Replace(schema, before, [r \in joined |-> RevisedRow(r, g[r], given)], <<>>, given)
  BY <1>1, <1>2, <1>7
<1>9. g \in JoinsOf(before, given)
  BY <1>5 DEF JoinsOf, joined
<1>10. result = UpdatedFrom(before, g, given)
  BY <1>8 DEF UpdatedFrom, joined
<1> QED BY <1>9, <1>10

\* What an upsert does is what its calls mean.
LEMMA UpsertIsMeant ==
    ASSUME NEW conflict, ConflictIs(conflict, calls), conflict.action # "none",
           NEW before, NEW returning, NEW given, NEW result, NEW inserted,
           UpsertMeans(dialect, schema, before, conflict, ColumnsOf(SaidRows[1]), inserted,
                       returning, given, result)
    PROVE  result = UpsertMeaning(before, inserted, returning, given)
BY SaidIsIn DEF ConflictIs, UpsertMeans, UpsertMeaning, NamedBy, Replaced

\* What a query does is what the calls mean.
LEMMA EffectIsMeant ==
    ASSUME NEW q, QueryIs(dialect, schema, q, calls), NEW before, NEW args, NEW result,
           Effect(dialect, schema, q, before, OtherRows, args, result)
    PROVE  result \in Meaning(before, args)
<1>1. QueryOk(dialect, schema, q)
  BY DEF QueryIs
<1>2. PICK A, R, F : LogIs(calls, A, R, F) /\ Says(schema, q, calls, A, R, F)
  BY DEF QueryIs
<1> DEFINE final == calls[Len(calls)]
           given == Given(args)
<1>3. SaidExprs = ExprsOf(q)
  BY <1>2, SaidExprsAre
<1>4. given = GivenTo(q, args) /\ (Expressible(args) <=> ~ Refuses(dialect, q, args))
  BY <1>1, <1>3, GivenIs
<1>5. /\ SaidFilters = F /\ SaidRows = RowsOfLog(schema, A, R)
      /\ SaidAssigns = OfColumns(A, schema.updateable)
  BY <1>2, SaidIs
<1> HIDE DEF given
<1>6. CASE ~ Expressible(args)
  BY <1>4, <1>6, MeaningOfRefusal DEF Effect
<1>7. ASSUME Expressible(args), Does(dialect, schema, q, before, OtherRows, given, result)
      PROVE  result \in Meaning(before, args)
  <2>1. CASE q.kind = "insert"
    <3>1. /\ final.call = "insert" /\ q.returning = final.returning /\ q.rows = SaidRows
          /\ ConflictIs(q.conflict, calls)
      BY <1>2, <1>5, <2>1 DEF Says
    <3>2. InsertMeans(dialect, schema, before, q, given, result)
      BY <1>7, <2>1 DEF Does
    <3> DEFINE inserted == Filled(schema, SaidRows, given)
    <3>3. Meaning(before, args) =
             IF Said("do") = <<>> THEN {Put(schema, before, inserted, final.returning, given)}
             ELSE {UpsertMeaning(before, inserted, final.returning, given)}
      BY <1>7, <3>1, MeaningOfInsert DEF given
    <3> HIDE DEF inserted, final
    <3>4. CASE q.conflict.action = "none"
      BY <3>1, <3>4, SaidIsIn, <3>2, <3>3 DEF ConflictIs, InsertMeans, inserted
    <3>5. CASE q.conflict.action # "none"
      <4>1. Said("do") # <<>>
        BY <3>1, <3>5, SaidIsIn DEF ConflictIs
      <4>2. UpsertMeans(dialect, schema, before, q.conflict, ColumnsOf(SaidRows[1]), inserted,
                        final.returning, given, result)
        BY <3>1, <3>2, <3>5 DEF InsertMeans, inserted
      <4>3. result = UpsertMeaning(before, inserted, final.returning, given)
        BY <3>1, <3>5, <4>2, UpsertIsMeant
      <4> QED BY <3>3, <4>1, <4>3
    <3> QED BY <3>4, <3>5
  <2>2. CASE q.kind = "insert_select"
    <3>1. final.call = "insert select" /\ q.source = final.source /\ q.columns = final.source.columns
      BY <1>2, <2>2 DEF Says
    <3>2. SelectMeans(schema, before, OtherRows, q, given, result)
      BY <1>7, <2>2 DEF Does
    <3> DEFINE s == final.source
    <3>3. result = Put(schema, before,
                       Picked(schema, s.columns, s.exprs, Chosen(s.filters, OtherRows, given), given),
                       <<>>, given)
      BY <3>1, <3>2 DEF SelectMeans
    <3>4. Meaning(before, args) =
            {Put(schema, before,
                 Picked(schema, s.columns, s.exprs, Chosen(s.filters, OtherRows, given), given),
                 <<>>, given)}
      BY <1>7, <3>1, MeaningOfSelect DEF given
    <3> QED BY <3>3, <3>4
  <2>3. CASE q.kind = "update"
    <3>1. final.call = "update" /\ q.returning = final.returning /\ q.assigns = SaidAssigns /\ q.filters = SaidFilters
      BY <1>2, <1>5, <2>3 DEF Says
    <3>2. UpdateMeans(schema, before, {<<>>}, SaidAssigns, SaidFilters, final.returning, given, result)
      BY <1>7, <2>3, <3>1 DEF Does
    <3>3. result = Replace(schema, before, [r \in MatchedBy(before, given) |-> RevisedRow(r, <<>>, given)],
                           final.returning, given)
      BY <3>2, UpdateIsMeant
    <3> QED BY <1>7, <3>1, <3>3, MeaningOfUpdate DEF given
  <2>4. CASE q.kind = "update_from"
    <3>1. final.call = "update from" /\ q.assigns = SaidAssigns /\ q.filters = SaidFilters
      BY <1>2, <1>5, <2>4 DEF Says
    <3>2. UpdateMeans(schema, before, OtherRows, SaidAssigns, SaidFilters, <<>>, given, result)
      BY <1>7, <2>4, <3>1 DEF Does
    <3>3. PICK f \in JoinsOf(before, given) : result = UpdatedFrom(before, f, given)
      BY <3>2, UpdateFromIsMeant
    <3> QED BY <1>7, <3>1, <3>3, MeaningOfUpdateFrom DEF given
  <2>5. CASE q.kind = "delete"
    BY <1>2, <1>5, <2>5, <1>7, MatchedIs, MeaningOfDelete DEF Says, Does, DeleteMeans, given
  <2>6. CASE q.kind = "delete_using"
    <3>1. final.call = "delete using" /\ q.filters = SaidFilters
      BY <1>2, <1>5, <2>6 DEF Says
    <3>2. DeleteMeans(before, OtherRows, SaidFilters, <<>>, given, result)
      BY <1>7, <2>6, <3>1 DEF Does
    <3>3. result = Erase(before, JoinedBy(before, given), <<>>, given)
      BY <3>2, MatchedIs DEF DeleteMeans
    <3> QED BY <1>7, <3>1, <3>3, MeaningOfDeleteUsing DEF given
  <2> QED BY <1>1, <2>1, <2>2, <2>3, <2>4, <2>5, <2>6, KindsAre
<1>8. CASE Expressible(args)
  BY <1>4, <1>8, <1>7 DEF Effect
<1> QED BY <1>6, <1>8

\* Where no assignment reads one before it, MySQL's order does not matter.
LEMMA InOrder ==
    ASSUME NEW q, QueryIs(dialect, schema, q, calls), ~ (dialect = "mysql" /\ ReadsAssigned),
           q.kind \in {"update", "update_from"}
    PROVE  dialect = "mysql" => ReadsBefore(q.assigns)
<1>1. PICK A, R, F : LogIs(calls, A, R, F) /\ Says(schema, q, calls, A, R, F)
  BY DEF QueryIs
<1>2. q.assigns = SaidAssigns
  BY <1>1, SaidIs DEF Says
<1>3. q.assigns \in Seq(Settings)
  BY KindsAre DEF QueryIs, UpdateOk, UpdateFromOk, AreAssignments
<1>4. DOMAIN SaidAssigns = 1 .. Len(SaidAssigns)
  BY <1>2, <1>3, LenProperties
<1>5. dialect = "mysql" => ReadsBefore(SaidAssigns)
  BY <1>4 DEF ReadsAssigned, ReadsBefore
<1> QED BY <1>2, <1>5

-----------------------------------------------------------------------------
(* The builder and the log, stage by stage.                                *)

\* A builder has these fields and no others.
IsBuilder(b) ==
    b = [stage |-> b.stage, columns |-> b.columns, rows |-> b.rows, assigns |-> b.assigns,
         filters |-> b.filters, filtered |-> b.filtered, conflict |-> b.conflict]

\* No clause was named.
Unconflicted(b, log) ==
    b.conflict.action = "none" /\ SaidIn(log, "do") = <<>> /\ SaidIn(log, "on conflict") = <<>>

\* The rows of an insert: all of the same columns, their values without a handle.
AreRows(type, columns, rows) ==
    /\ rows \in Seq(Seq(Settings))
    /\ \A i \in 1 .. Len(rows) : ColumnsOf(rows[i]) = columns /\ ListReads(ValuesOf(rows[i]), {}, {})

\* At each stage of a builder, what it holds is what the log says: after to_columns and from,
ColumnsStage(type, b, log) ==
    /\ LogIs(log, <<>>, b.rows, <<>>)
    /\ b.columns \in ColumnLists
    /\ AreRows(type, b.columns, b.rows)
    /\ Apart(ExprsOfRows(b.rows), <<>>, Len(log))
    /\ Unconflicted(b, log)

\* The setters and conditions of an UPDATE.
SetStage(type, others, b, log) ==
    /\ \E R : LogIs(log, b.assigns, R, b.filters)
    /\ AreAssignments(b.assigns, type.columns, others)
    /\ \A i \in 1 .. Len(b.assigns) : b.assigns[i].col \in type.updateable
    /\ IsList(b.filters, type.columns, others)
    /\ Apart(ValuesOf(b.assigns), b.filters, Len(log))

\* after write,
WriteStage(type, b, log) ==
    /\ LogIs(log, b.assigns, <<>>, b.filters)
    /\ b.assigns \in Seq(Settings) /\ ColumnsOnce(b.assigns)
    /\ \A i \in 1 .. Len(b.assigns) : b.assigns[i].col \in type.columns
    /\ ListReads(ValuesOf(b.assigns), {}, {})
    /\ IsList(b.filters, type.columns, {})
    /\ Apart(ValuesOf(b.assigns), b.filters, Len(log))
    /\ Unconflicted(b, log)

\* after from_table or using,
DeleteStage(type, others, b, log) ==
    /\ LogIs(log, <<>>, <<>>, b.filters)
    /\ IsList(b.filters, type.columns, others)
    /\ Apart(<<>>, b.filters, Len(log))

\* The row of an upsert, and its clause.
ConflictStage(type, b, log) ==
    /\ \E A, F : LogIs(log, A, <<>>, F) /\ A \in Seq(Settings) /\ b.assigns = OfColumns(A, type.insertable)
    /\ ListReads(ValuesOf(b.assigns), {}, {})
    /\ ClearList(ValuesOf(b.assigns))
    /\ b.conflict = [action |-> b.conflict.action, target |-> b.conflict.target]
    /\ SaidIn(log, "on conflict") # <<>>
    /\ SaidIn(log, "on conflict")[1].target = b.conflict.target

\* after do_nothing or do_update.
UpsertStage(d, b, log) ==
    /\ b.conflict.action \in {"nothing", "update"}
    /\ SaidIn(log, "do") # <<>> /\ SaidIn(log, "do")[1].action = b.conflict.action
    /\ b.assigns = <<>> => d # "sqlite"

\* The builder and its log.
BuilderIs(d, type, b, log) ==
    /\ IsBuilder(b)
    /\ log \in Seq(Range(log))
    /\ b.stage = "start" => b = Idle /\ log = <<>>
    /\ b.stage \in {"columns", "from"} => ColumnsStage(type, b, log)
    /\ b.stage = "set" => SetStage(type, {}, b, log)
    /\ b.stage = "set from" => SetStage(type, OtherColumns, b, log)
    /\ b.stage = "write" => WriteStage(type, b, log)
    /\ b.stage = "delete" => DeleteStage(type, {}, b, log)
    /\ b.stage = "using" => DeleteStage(type, OtherColumns, b, log)
    /\ b.stage \in {"on conflict", "upsert"} => ConflictStage(type, b, log)
    /\ b.stage = "on conflict" => SaidIn(log, "do") = <<>>
    /\ b.stage = "upsert" => UpsertStage(d, b, log)

LEMMA LogLength ==
    ASSUME NEW log, log \in Seq(Range(log)), NEW c
    PROVE  Len(log) \in Nat /\ Len(Append(log, c)) = Len(log) + 1 /\ Append(log, c)[Len(log) + 1] = c
BY LogAppends

\* A new builder.
LEMMA IdleIs == IsBuilder(Idle) /\ Idle.stage = "start"
BY DEF IsBuilder, Idle

\* No row has no expression.
LEMMA NoRows == ExprsOfRows(<<>>) = <<>> /\ \A type, columns : AreRows(type, columns, <<>>)
BY FlattenEmpty DEF ExprsOfRows, AreRows

\* The first call.
LEMMA FirstCall ==
    ASSUME NEW c, c.call \notin {"set", "row", "where", "do", "on conflict"}
    PROVE  LET log == Append(<<>>, c)
           IN  /\ LogIs(log, <<>>, <<>>, <<>>) /\ SaidIn(log, "do") = <<>>
               /\ SaidIn(log, "on conflict") = <<>> /\ log \in Seq(Range(log))
<1> DEFINE none == <<>>
           log == Append(none, c)
<1>1. none \in Seq(Range(none))
  BY EmptySeq
<1>2. LogIs(none, <<>>, <<>>, <<>>)
  BY LogNothing
<1> HIDE DEF none
<1>3. LogIs(log, <<>>, <<>>, <<>>)
  BY <1>2, LogOther
<1>4. SaysMore(none, c, "do") /\ SaysMore(none, c, "on conflict")
  BY <1>1, SaidMore
<1>5. SaidIn(log, "do") = SaidIn(none, "do") /\ SaidIn(log, "on conflict") = SaidIn(none, "on conflict")
  BY <1>4 DEF SaysMore
<1>6. SaidIn(none, "do") = <<>> /\ SaidIn(none, "on conflict") = <<>>
  BY SaidInNothing DEF none
<1>7. log \in Seq(Range(log))
  BY <1>1, LogGrows
<1> QED BY <1>3, <1>5, <1>6, <1>7 DEF none

\* Any other call leaves a builder without a conflict clause so.
LEMMA StillUnconflicted ==
    ASSUME NEW log, log \in Seq(Range(log)), NEW was, Unconflicted(was, log),
           NEW c, c.call \notin {"do", "on conflict"}, NEW b, b.conflict.action = "none"
    PROVE  Unconflicted(b, Append(log, c))
BY SaidMore DEF SaysMore, Unconflicted

\* Each call keeps that. to_columns names the columns of an INSERT or UPDATE:
LEMMA ToColumnsKeeps ==
    ASSUME BuilderIs(dialect, schema, builder, calls), ToColumns
    PROVE  BuilderIs(dialect, schema, builder', calls')
<1> DEFINE b == builder'
           c == [call |-> "columns"]
<1>1. builder = Idle /\ calls = <<>>
  BY DEF ToColumns, Stage, BuilderIs
<1>2. PICK columns \in ColumnLists : b = [builder EXCEPT !.stage = "columns", !.columns = columns] /\ calls' = Append(calls, c)
  BY DEF ToColumns, Becomes
<1>3. /\ b = [stage |-> "columns", columns |-> columns, rows |-> <<>>, assigns |-> <<>>, filters |-> <<>>,
              filtered |-> FALSE, conflict |-> [action |-> "none", target |-> <<>>]]
  BY <1>1, <1>2 DEF Idle
<1>4. /\ b.stage = "columns" /\ b.columns = columns /\ b.rows = <<>> /\ b.conflict.action = "none"
      /\ IsBuilder(b)
  BY <1>3 DEF IsBuilder
<1>5. c.call = "columns"
  OBVIOUS
<1> HIDE DEF b, c
<1>6. /\ LogIs(calls', <<>>, <<>>, <<>>) /\ SaidIn(calls', "do") = <<>>
      /\ SaidIn(calls', "on conflict") = <<>> /\ calls' \in Seq(Range(calls'))
  BY <1>1, <1>2, <1>5, FirstCall
<1>7. Apart(ExprsOfRows(<<>>), <<>>, Len(calls')) /\ AreRows(schema, columns, <<>>)
  BY NoRows, ApartNothing
<1>8. ColumnsStage(schema, b, calls')
  BY <1>4, <1>6, <1>7 DEF ColumnsStage, Unconflicted
<1>9. BuilderIs(dialect, schema, b, calls')
  BY <1>4, <1>6, <1>8 DEF BuilderIs
<1> QED BY <1>9 DEF b

\* write takes a list of setters:
LEMMA WriteKeeps ==
    ASSUME BuilderIs(dialect, schema, builder, calls), Write
    PROVE  BuilderIs(dialect, schema, builder', calls')
<1> DEFINE b == builder'
           c == [call |-> "write"]
<1>1. builder = Idle /\ calls = <<>>
  BY DEF Write, Stage, BuilderIs
<1>2. b = [builder EXCEPT !.stage = "write"] /\ calls' = Append(calls, c)
  BY DEF Write, Becomes
<1>3. /\ b = [stage |-> "write", columns |-> <<>>, rows |-> <<>>, assigns |-> <<>>, filters |-> <<>>,
              filtered |-> FALSE, conflict |-> [action |-> "none", target |-> <<>>]]
  BY <1>1, <1>2 DEF Idle
<1>4. /\ b.stage = "write" /\ b.assigns = <<>> /\ b.filters = <<>> /\ b.conflict.action = "none"
      /\ IsBuilder(b)
  BY <1>3 DEF IsBuilder
<1>5. c.call = "write"
  OBVIOUS
<1> HIDE DEF b, c
<1>6. /\ LogIs(calls', <<>>, <<>>, <<>>) /\ SaidIn(calls', "do") = <<>>
      /\ SaidIn(calls', "on conflict") = <<>> /\ calls' \in Seq(Range(calls'))
  BY <1>1, <1>2, <1>5, FirstCall
<1>7. ValuesOf(<<>>) = <<>> /\ Apart(<<>>, <<>>, Len(calls'))
  BY ValuesOfNone, ApartNothing
<1>8. /\ <<>> \in Seq(Settings) /\ ColumnsOnce(<<>>) /\ ListReads(<<>>, {}, {}) /\ IsList(<<>>, schema.columns, {})
  BY TokensOfEmpty DEF ColumnsOnce, ListReads, IsList
<1>9. WriteStage(schema, b, calls')
  <2>1. Unconflicted(b, calls')
    BY <1>4, <1>6 DEF Unconflicted
  <2>2. ValuesOf(b.assigns) = <<>>
    BY <1>4, <1>7
  <2>3. LogIs(calls', b.assigns, <<>>, b.filters) /\ Apart(ValuesOf(b.assigns), b.filters, Len(calls'))
    BY <1>4, <1>6, <1>7, <2>2
  <2> QED BY ONLY <1>4, <1>8, <2>1, <2>2, <2>3 DEF WriteStage
<1>10. BuilderIs(dialect, schema, b, calls')
  BY <1>4, <1>6, <1>9 DEF BuilderIs
<1> QED BY <1>10 DEF b

\* from_table starts a DELETE:
LEMMA FromTableKeeps ==
    ASSUME BuilderIs(dialect, schema, builder, calls), FromTable
    PROVE  BuilderIs(dialect, schema, builder', calls')
<1> DEFINE b == builder'
           c == [call |-> "from"]
<1>1. builder = Idle /\ calls = <<>>
  BY DEF FromTable, Stage, BuilderIs
<1>2. b = [builder EXCEPT !.stage = "delete"] /\ calls' = Append(calls, c)
  BY DEF FromTable, Becomes
<1>3. /\ b = [stage |-> "delete", columns |-> <<>>, rows |-> <<>>, assigns |-> <<>>, filters |-> <<>>,
              filtered |-> FALSE, conflict |-> [action |-> "none", target |-> <<>>]]
  BY <1>1, <1>2 DEF Idle
<1>4. b.stage = "delete" /\ b.filters = <<>> /\ IsBuilder(b)
  BY <1>3 DEF IsBuilder
<1>5. c.call = "from"
  OBVIOUS
<1> HIDE DEF b, c
<1>6. LogIs(calls', <<>>, <<>>, <<>>) /\ calls' \in Seq(Range(calls'))
  BY <1>1, <1>2, <1>5, FirstCall
<1>7. Apart(<<>>, <<>>, Len(calls')) /\ IsList(<<>>, schema.columns, {})
  BY ApartNothing, TokensOfEmpty DEF ListReads, IsList
<1>8. DeleteStage(schema, {}, b, calls')
  BY <1>4, <1>6, <1>7 DEF DeleteStage
<1>9. BuilderIs(dialect, schema, b, calls')
  BY <1>4, <1>6, <1>8 DEF BuilderIs
<1> QED BY <1>9 DEF b

\* One more row, of the listed columns, without a handle.
LEMMA RowsAppend ==
    ASSUME NEW type, NEW columns, NEW rows, AreRows(type, columns, rows),
           NEW call \in Nat, NEW row, AssignsList(columns, call, {}, {}, row)
    PROVE  AreRows(type, columns, Append(rows, row))
<1> DEFINE SS == Seq(Settings)
           more == Append(rows, row)
<1>1. rows \in SS \/ rows \in Seq(SS)
  BY DEF AreRows
<1>2. rows \in Seq(SS) /\ row \in SS
  BY DEF AreRows, AssignsList
<1> HIDE DEF SS
<1>3. /\ more \in Seq(SS) /\ Len(more) = Len(rows) + 1 /\ Len(rows) \in Nat
      /\ more[Len(rows) + 1] = row /\ \A i \in 1 .. Len(rows) : more[i] = rows[i]
  BY <1>2, AppendProperties, LenProperties
<1> HIDE DEF more
<1>4. ASSUME NEW i \in 1 .. Len(more)
      PROVE  ColumnsOf(more[i]) = columns /\ ListReads(ValuesOf(more[i]), {}, {})
  BY <1>3 DEF AssignsList, AreRows
<1> QED BY <1>3, <1>4 DEF AreRows, more, SS

\* row adds a row to an INSERT:
LEMMA RowKeeps ==
    ASSUME schema \in Schemas, BuilderIs(dialect, schema, builder, calls), Row
    PROVE  BuilderIs(dialect, schema, builder', calls')
<1> DEFINE b == builder'
           n == Len(calls)
<1>1. builder.stage = "columns" /\ IsBuilder(builder) /\ calls \in Seq(Range(calls))
      /\ ColumnsStage(schema, builder, calls)
  BY DEF Row, Stage, BuilderIs
<1>2. /\ LogIs(calls, <<>>, builder.rows, <<>>) /\ builder.columns \in ColumnLists
      /\ AreRows(schema, builder.columns, builder.rows)
      /\ Apart(ExprsOfRows(builder.rows), <<>>, n) /\ Unconflicted(builder, calls)
  BY <1>1 DEF ColumnsStage
<1>3. PICK row \in Assignments(builder.columns, n, Assignable) :
         /\ b = [builder EXCEPT !.rows = Append(@, row)]
         /\ calls' = Append(calls, [call |-> "row", assigns |-> row])
  BY DEF Row, Becomes
<1> DEFINE c == [call |-> "row", assigns |-> row]
<1>4. /\ b.stage = "columns" /\ b.columns = builder.columns /\ b.rows = Append(builder.rows, row)
      /\ b.conflict = builder.conflict /\ IsBuilder(b)
  BY <1>1, <1>3 DEF IsBuilder
<1>5. c.call = "row" /\ c.assigns = row
  OBVIOUS
<1>6. n \in Nat /\ Len(calls') = n + 1 /\ calls' \in Seq(Range(calls'))
  BY <1>1, <1>3, LogLength, LogGrows
<1>7. builder.columns \in Seq(Range(builder.columns))
  BY <1>2, ListsAreOfColumns
<1>8. \A i \in DOMAIN builder.columns : builder.columns[i] \in schema.columns
  BY MenusAreOfColumns DEF Row
<1>9. AssignsList(builder.columns, n, {}, {}, row)
  BY <1>3, <1>6, <1>7, <1>8, MenusOk, AssignmentsAre
<1>10. row \in Seq(Settings) /\ OfCall(ValuesOf(row), n)
  BY <1>9 DEF AssignsList
<1> HIDE DEF b, c, n
<1>11. AreRows(schema, b.columns, b.rows)
  BY <1>2, <1>4, <1>6, <1>9, RowsAppend
<1>12. builder.rows \in Seq(Seq(Settings))
  BY <1>2 DEF AreRows
<1>13. LogIs(calls', <<>>, b.rows, <<>>)
  BY <1>2, <1>3, <1>4, <1>5, <1>10, <1>12, LogRow DEF c
<1>14. Apart(ExprsOfRows(b.rows), <<>>, Len(calls'))
  <2> DEFINE L == ExprsOfRows(builder.rows)
             es == ValuesOf(row)
  <2>1. L \in Seq(Exprs) /\ ExprsOfRows(b.rows) = L \o es
    BY <1>4, <1>10, <1>12, ExprsOfRowsAppend
  <2>2. es \in Seq(Exprs)
    BY <1>10, ValuesOfIs
  <2>3. Apart(L, <<>>, n) /\ OfCall(es, n)
    BY <1>2, <1>10
  <2> HIDE DEF L, es
  <2>4. Apart(L \o es, <<>>, n + 1)
    BY <1>6, <2>1, <2>2, <2>3, ApartLeft
  <2> QED BY <1>6, <2>1, <2>4
<1>15. Unconflicted(b, calls')
  BY <1>2, <1>5, <1>1, <1>3, <1>4, StillUnconflicted DEF Unconflicted, c
<1>16. ColumnsStage(schema, b, calls')
  BY <1>2, <1>4, <1>11, <1>13, <1>14, <1>15 DEF ColumnsStage
<1>17. BuilderIs(dialect, schema, b, calls')
  BY <1>4, <1>6, <1>16 DEF BuilderIs
<1> QED BY <1>17 DEF b

\* from names the query of an INSERT ... SELECT:
LEMMA FromKeeps ==
    ASSUME BuilderIs(dialect, schema, builder, calls), From
    PROVE  BuilderIs(dialect, schema, builder', calls')
<1> DEFINE b == builder'
           c == [call |-> "from"]
           n == Len(calls)
<1>1. builder.stage = "columns" /\ IsBuilder(builder) /\ calls \in Seq(Range(calls))
      /\ ColumnsStage(schema, builder, calls)
  BY DEF From, Stage, BuilderIs
<1>2. /\ LogIs(calls, <<>>, builder.rows, <<>>) /\ builder.columns \in ColumnLists
      /\ AreRows(schema, builder.columns, builder.rows)
      /\ Apart(ExprsOfRows(builder.rows), <<>>, n) /\ Unconflicted(builder, calls)
  BY <1>1 DEF ColumnsStage
<1>3. b = [builder EXCEPT !.stage = "from"] /\ calls' = Append(calls, c)
  BY DEF From, Becomes
<1>4. /\ b.stage = "from" /\ b.columns = builder.columns /\ b.rows = builder.rows
      /\ b.conflict = builder.conflict /\ IsBuilder(b)
  BY <1>1, <1>3 DEF IsBuilder
<1>5. c.call = "from"
  OBVIOUS
<1>6. n \in Nat /\ Len(calls') = n + 1 /\ calls' \in Seq(Range(calls'))
  BY <1>1, <1>3, LogLength, LogGrows
<1> HIDE DEF b, c, n
<1>7. LogIs(calls', <<>>, b.rows, <<>>)
  BY <1>2, <1>3, <1>4, <1>5, LogOther
<1>8. Apart(ExprsOfRows(b.rows), <<>>, Len(calls'))
  BY <1>2, <1>4, <1>6, ApartLater
<1>9. Unconflicted(b, calls')
  BY <1>2, <1>5, <1>1, <1>3, <1>4, StillUnconflicted DEF Unconflicted
<1>10. ColumnsStage(schema, b, calls')
  BY <1>2, <1>4, <1>7, <1>8, <1>9 DEF ColumnsStage
<1>11. BuilderIs(dialect, schema, b, calls')
  BY <1>4, <1>6, <1>10 DEF BuilderIs
<1> QED BY <1>11 DEF b

\* What set makes of the columns: an UPDATE's assignments.
LEMMA ColumnsAreSet ==
    ASSUME NEW type \in Schemas, NEW list \in ColumnLists, \A i \in DOMAIN list : list[i] \in type.updateable,
           NEW others, NEW call \in Nat, NEW assigns, AssignsList(list, call, type.columns, others, assigns)
    PROVE  /\ AreAssignments(assigns, type.columns, others)
           /\ \A i \in 1 .. Len(assigns) : assigns[i].col \in type.updateable
<1>1. list \in Seq(Range(list)) /\ list # <<>> /\ IsInjective(list)
  BY ListsAreOfColumns
<1>2. assigns \in Seq(Settings) /\ Len(assigns) = Len(list) /\ ColumnsOf(assigns) = list
      /\ ListReads(ValuesOf(assigns), type.columns, others)
  BY DEF AssignsList
<1>3. DOMAIN assigns = 1 .. Len(list) /\ DOMAIN list = 1 .. Len(list)
  BY <1>1, <1>2, LenProperties
<1>4. \A i \in 1 .. Len(list) : assigns[i].col = list[i]
  BY <1>2, <1>3 DEF ColumnsOf
<1>5. ColumnsOnce(assigns)
  BY <1>1, <1>2, <1>3, <1>4 DEF ColumnsOnce, IsInjective
<1>6. type.updateable \subseteq type.columns
  BY MenusAreOfColumns
<1>7. \A i \in 1 .. Len(assigns) : assigns[i].col \in type.updateable /\ assigns[i].col \in type.columns
  BY <1>2, <1>3, <1>4, <1>6
<1>8. assigns # <<>>
  BY <1>1, EmptySeq, <1>2
<1>9. IsList(ValuesOf(assigns), type.columns, others)
  BY <1>2, ValuesOfIs DEF IsList
<1> QED BY <1>2, <1>5, <1>7, <1>8, <1>9 DEF AreAssignments

\* An UPDATE's values are given once, and are of the columns listed.
LEMMA SetStarts ==
    ASSUME schema \in Schemas, NEW others, NEW menu, MenuOk(menu, schema, schema.columns, others),
           ColumnsStage(schema, builder, calls), calls \in Seq(Range(calls)),
           \A i \in DOMAIN builder.columns : builder.columns[i] \in schema.updateable,
           NEW assigns \in Assignments(builder.columns, Len(calls), menu),
           NEW b, b.assigns = assigns, b.filters = <<>>
    PROVE  SetStage(schema, others, b, Append(calls, [call |-> "set", assigns |-> assigns]))
<1> DEFINE c == [call |-> "set", assigns |-> assigns]
           n == Len(calls)
           list == builder.columns
           more == Append(calls, c)
<1>1. LogIs(calls, <<>>, builder.rows, <<>>) /\ list \in ColumnLists
  BY DEF ColumnsStage
<1>2. c.call = "set" /\ c.assigns = assigns
  OBVIOUS
<1>3. n \in Nat /\ Len(more) = n + 1
  BY LogLength
<1>4. list \in Seq(Range(list))
  BY <1>1, ListsAreOfColumns
<1>5. \A i \in DOMAIN list : list[i] \in schema.columns
  BY MenusAreOfColumns
<1>6. AssignsList(list, n, schema.columns, others, assigns)
  BY <1>3, <1>4, <1>5, AssignmentsAre
<1>7. /\ AreAssignments(assigns, schema.columns, others)
      /\ \A i \in 1 .. Len(assigns) : assigns[i].col \in schema.updateable
  BY <1>1, <1>3, <1>6, ColumnsAreSet
<1>8. assigns \in Seq(Settings) /\ OfCall(ValuesOf(assigns), n)
  BY <1>6 DEF AssignsList
<1> HIDE DEF c, n, list
<1>9. LogIs(more, <<>> \o assigns, builder.rows, <<>>)
  BY <1>1, <1>2, <1>8, LogSet
<1>10. <<>> \o assigns = assigns
  BY <1>8, ConcatNothing
<1>11. Apart(ValuesOf(assigns), <<>>, n + 1)
  <2> DEFINE es == ValuesOf(assigns)
  <2>1. es \in Seq(Exprs) /\ OfCall(es, n)
    BY <1>8, ValuesOfIs
  <2> HIDE DEF es
  <2> DEFINE none == <<>>
  <2>2. Apart(none, <<>>, n) /\ none \in Seq(Exprs)
    BY ApartNothing
  <2>3. none \o es = es
    BY <2>1, ConcatNothing
  <2> HIDE DEF none
  <2>4. Apart(none \o es, <<>>, n + 1)
    BY <1>3, <2>1, <2>2, ApartLeft
  <2> QED BY <2>3, <2>4 DEF es
<1>12. IsList(<<>>, schema.columns, others)
  BY TokensOfEmpty DEF ListReads, IsList
<1> HIDE DEF more
<1>13. SetStage(schema, others, b, more)
  BY <1>3, <1>7, <1>9, <1>10, <1>11, <1>12 DEF SetStage
<1> QED BY <1>13 DEF more, c

\* set gives an UPDATE its values:
LEMMA SetKeeps ==
    ASSUME schema \in Schemas, BuilderIs(dialect, schema, builder, calls), Set
    PROVE  BuilderIs(dialect, schema, builder', calls')
<1> DEFINE b == builder'
           menu == Either(Assignable, SetExprs)
<1>1. calls \in Seq(Range(calls)) /\ ColumnsStage(schema, builder, calls)
  BY DEF Set, Stage, BuilderIs
<1>2. PICK assigns \in Assignments(builder.columns, Len(calls), menu) :
         /\ b = [Idle EXCEPT !.stage = "set", !.assigns = assigns]
         /\ calls' = Append(calls, [call |-> "set", assigns |-> assigns])
  BY DEF Set, Becomes
<1>3. b = [stage |-> "set", columns |-> <<>>, rows |-> <<>>, assigns |-> assigns, filters |-> <<>>,
           filtered |-> FALSE, conflict |-> [action |-> "none", target |-> <<>>]]
  BY <1>2 DEF Idle
<1>4. b.stage = "set" /\ b.assigns = assigns /\ b.filters = <<>> /\ IsBuilder(b)
  BY <1>3 DEF IsBuilder
<1>5. \A i \in DOMAIN builder.columns : builder.columns[i] \in schema.updateable
  BY DEF Set
<1>6. MenuOk(menu, schema, schema.columns, {})
  BY MenusOk
<1>7. calls' \in Seq(Range(calls'))
  BY <1>1, <1>2, LogGrows
<1> HIDE DEF b, menu
<1>8. SetStage(schema, {}, b, calls')
  BY <1>1, <1>2, <1>4, <1>5, <1>6, SetStarts
<1>9. BuilderIs(dialect, schema, b, calls')
  BY <1>4, <1>7, <1>8 DEF BuilderIs
<1> QED BY <1>9 DEF b

\* with a second table, they may read it:
LEMMA SetFromKeeps ==
    ASSUME schema \in Schemas, BuilderIs(dialect, schema, builder, calls), SetFrom
    PROVE  BuilderIs(dialect, schema, builder', calls')
<1> DEFINE b == builder'
           menu == Either(Assignable, JoinedExprs)
<1>1. calls \in Seq(Range(calls)) /\ ColumnsStage(schema, builder, calls)
  BY DEF SetFrom, Stage, BuilderIs
<1>2. PICK assigns \in Assignments(builder.columns, Len(calls), menu) :
         /\ b = [Idle EXCEPT !.stage = "set from", !.assigns = assigns]
         /\ calls' = Append(calls, [call |-> "set", assigns |-> assigns])
  BY DEF SetFrom, Becomes
<1>3. b = [stage |-> "set from", columns |-> <<>>, rows |-> <<>>, assigns |-> assigns, filters |-> <<>>,
           filtered |-> FALSE, conflict |-> [action |-> "none", target |-> <<>>]]
  BY <1>2 DEF Idle
<1>4. b.stage = "set from" /\ b.assigns = assigns /\ b.filters = <<>> /\ IsBuilder(b)
  BY <1>3 DEF IsBuilder
<1>5. \A i \in DOMAIN builder.columns : builder.columns[i] \in schema.updateable
  BY DEF SetFrom
<1>6. MenuOk(menu, schema, schema.columns, OtherColumns)
  BY MenusOk
<1>7. calls' \in Seq(Range(calls'))
  BY <1>1, <1>2, LogGrows
<1> HIDE DEF b, menu
<1>8. SetStage(schema, OtherColumns, b, calls')
  BY <1>1, <1>2, <1>4, <1>5, <1>6, SetStarts
<1>9. BuilderIs(dialect, schema, b, calls')
  BY <1>4, <1>7, <1>8 DEF BuilderIs
<1> QED BY <1>9 DEF b

\* One more setter.
LEMMA SetterKeeps ==
    ASSUME schema \in Schemas, BuilderIs(dialect, schema, builder, calls), Setter
    PROVE  BuilderIs(dialect, schema, builder', calls')
<1> DEFINE b == builder'
           n == Len(calls)
           was == builder.assigns
<1>1. builder.stage = "write" /\ IsBuilder(builder) /\ calls \in Seq(Range(calls))
      /\ WriteStage(schema, builder, calls)
  BY DEF Setter, Stage, BuilderIs
<1>2. /\ LogIs(calls, was, <<>>, builder.filters)
      /\ was \in Seq(Settings) /\ ColumnsOnce(was)
      /\ \A i \in 1 .. Len(was) : was[i].col \in schema.columns
      /\ ListReads(ValuesOf(was), {}, {})
      /\ IsList(builder.filters, schema.columns, {})
      /\ Apart(ValuesOf(was), builder.filters, n) /\ Unconflicted(builder, calls)
  BY <1>1 DEF WriteStage
<1>3. PICK col \in schema.insertable \cup schema.updateable :
         /\ \A i \in DOMAIN was : was[i].col # col
         /\ \E assigns \in Assignments(<<col>>, n, Assignable) :
               /\ b = [builder EXCEPT !.assigns = @ \o assigns]
               /\ calls' = Append(calls, [call |-> "set", assigns |-> assigns])
  BY DEF Setter, Becomes
<1>4. PICK assigns \in Assignments(<<col>>, n, Assignable) :
               /\ b = [builder EXCEPT !.assigns = @ \o assigns]
               /\ calls' = Append(calls, [call |-> "set", assigns |-> assigns])
  BY <1>3
<1> DEFINE c == [call |-> "set", assigns |-> assigns]
           list == <<col>>
<1>5. /\ b.stage = "write" /\ b.assigns = was \o assigns /\ b.filters = builder.filters
      /\ b.conflict = builder.conflict /\ IsBuilder(b)
  BY <1>1, <1>4 DEF IsBuilder
<1>6. c.call = "set" /\ c.assigns = assigns
  OBVIOUS
<1>7. n \in Nat /\ Len(calls') = n + 1 /\ calls' \in Seq(Range(calls'))
  BY <1>1, <1>4, LogLength, LogGrows
<1>8. col \in schema.columns
  BY MenusAreOfColumns
<1>9. list \in Seq(Range(list)) /\ Len(list) = 1 /\ list[1] = col /\ \A i \in DOMAIN list : list[i] \in schema.columns
  BY <1>8, RangeOfOne
<1> HIDE DEF list
<1>10. assigns \in Assignments(list, n, Assignable)
  BY <1>4 DEF list
<1> HIDE DEF b, c, n, was
<1>11. AssignsList(list, n, {}, {}, assigns)
  BY <1>7, <1>9, <1>10, MenusOk, AssignmentsAre
<1>12. /\ assigns \in Seq(Settings) /\ Len(assigns) = 1 /\ ColumnsOf(assigns) = list
       /\ ListReads(ValuesOf(assigns), {}, {}) /\ OfCall(ValuesOf(assigns), n)
  BY <1>9, <1>11 DEF AssignsList
<1> DEFINE a == assigns[1]
<1>13. a \in Settings /\ assigns = <<a>> /\ a.col = col
  BY <1>12, LenProperties, ElementOfSeq, <1>9 DEF ColumnsOf
<1> HIDE DEF a
<1>14. was \o assigns = Append(was, a)
  BY <1>2, <1>13, AppendAsConcat
<1>15. b.assigns \in Seq(Settings) /\ ColumnsOnce(b.assigns)
  <2>1. col \notin ColsOf(was)
    BY <1>2, <1>3, LenProperties DEF ColsOf, Range, was
  <2>2. ColumnsOnce(Append(was, a)) /\ Append(was, a) \in Seq(Settings)
    BY <1>2, <1>13, <2>1, OnceAppend, AppendProperties
  <2> QED BY <1>5, <1>14, <2>2
<1>16. \A i \in 1 .. Len(b.assigns) : b.assigns[i].col \in schema.columns
  <2> DEFINE more == Append(was, a)
  <2>1. /\ Len(more) = Len(was) + 1 /\ Len(was) \in Nat /\ more[Len(was) + 1] = a
        /\ \A i \in 1 .. Len(was) : more[i] = was[i]
    BY <1>2, <1>13, AppendProperties, LenProperties
  <2>2. b.assigns = more
    BY <1>5, <1>14
  <2> HIDE DEF more
  <2>3. ASSUME NEW i \in 1 .. Len(more)
        PROVE  more[i].col \in schema.columns
    BY <1>8, <1>13, <2>1, <1>2
  <2> QED BY <2>2, <2>3
<1> DEFINE L == ValuesOf(was)
           es == ValuesOf(assigns)
<1>17. L \in Seq(Exprs) /\ es \in Seq(Exprs) /\ ValuesOf(b.assigns) = L \o es
  BY <1>2, <1>5, <1>12, ValuesOfIs, ValuesOfConcat
<1>18. ListReads(L, {}, {}) /\ ListReads(es, {}, {}) /\ OfCall(es, n) /\ Apart(L, builder.filters, n)
  BY <1>2, <1>12
<1> HIDE DEF L, es
<1>19. ListReads(ValuesOf(b.assigns), {}, {})
  BY <1>17, TokensOfConcat, <1>18 DEF ListReads
<1>20. Apart(ValuesOf(b.assigns), b.filters, Len(calls'))
  BY <1>7, <1>17, <1>18, ApartLeft, <1>5
<1>21. LogIs(calls', b.assigns, <<>>, b.filters)
  BY <1>2, <1>4, <1>5, <1>6, <1>12, LogSet DEF c
<1>22. Unconflicted(b, calls')
  BY <1>2, <1>6, <1>1, <1>4, <1>5, StillUnconflicted DEF Unconflicted, c
<1>23. WriteStage(schema, b, calls')
  BY <1>2, <1>5, <1>15, <1>16, <1>19, <1>20, <1>21, <1>22 DEF WriteStage
<1>24. BuilderIs(dialect, schema, b, calls')
  BY <1>5, <1>7, <1>23 DEF BuilderIs
<1> QED BY <1>24 DEF b

\* using names the second table of a DELETE:
LEMMA UsingKeeps ==
    ASSUME BuilderIs(dialect, schema, builder, calls), Using
    PROVE  BuilderIs(dialect, schema, builder', calls')
<1> DEFINE b == builder'
           c == [call |-> "using"]
           n == Len(calls)
<1>1. builder.stage = "delete" /\ IsBuilder(builder) /\ calls \in Seq(Range(calls))
      /\ DeleteStage(schema, {}, builder, calls)
  BY DEF Using, Stage, BuilderIs
<1>2. builder.filters = <<>> /\ LogIs(calls, <<>>, <<>>, builder.filters)
  BY <1>1 DEF Using, DeleteStage
<1>3. b = [builder EXCEPT !.stage = "using"] /\ calls' = Append(calls, c)
  BY DEF Using, Becomes
<1>4. b.stage = "using" /\ b.filters = <<>> /\ IsBuilder(b)
  BY <1>1, <1>2, <1>3 DEF IsBuilder
<1>5. c.call = "using"
  OBVIOUS
<1>6. calls' \in Seq(Range(calls'))
  BY <1>1, <1>3, LogGrows
<1> HIDE DEF b, c, n
<1>7. LogIs(calls', <<>>, <<>>, b.filters)
  BY <1>2, <1>3, <1>4, <1>5, LogOther
<1>8. Apart(<<>>, <<>>, Len(calls')) /\ IsList(<<>>, schema.columns, OtherColumns)
  BY ApartNothing, TokensOfEmpty DEF ListReads, IsList
<1>9. DeleteStage(schema, OtherColumns, b, calls')
  BY <1>4, <1>7, <1>8 DEF DeleteStage
<1>10. BuilderIs(dialect, schema, b, calls')
  BY <1>4, <1>6, <1>9 DEF BuilderIs
<1> QED BY <1>10 DEF b

\* What one more condition leaves of the log and of the list.
Filtered(log, c, A, R, filters, L, columns, others) ==
    /\ LogIs(Append(log, c), A, R, Append(filters, c.filter))
    /\ IsList(Append(filters, c.filter), columns, others)
    /\ Apart(L, Append(filters, c.filter), Len(Append(log, c)))

\* A condition is placed by its call, after those there were.
LEMMA FilterAdded ==
    ASSUME NEW columns, NEW others, NEW log, log \in Seq(Range(log)), NEW A, NEW R, NEW filters,
           LogIs(log, A, R, filters), IsList(filters, columns, others),
           NEW L, Apart(L, filters, Len(log)),
           NEW c, c.call = "where", FilterIs(c.filter, Len(log), columns, others)
    PROVE  Filtered(log, c, A, R, filters, L, columns, others)
<1> DEFINE more == Append(log, c)
           filter == c.filter
           all == Append(filters, filter)
           n == Len(log)
<1>1. filters \in Seq(Exprs) /\ ListReads(filters, columns, others)
  BY DEF IsList
<1>2. filter \in Exprs /\ Reads(filter, columns, others) /\ OfCall(<<filter>>, n)
  BY DEF FilterIs
<1>3. n \in Nat /\ Len(more) = n + 1 /\ more \in Seq(Range(more))
  BY LogLength, LogGrows
<1>4. LogIs(more, A, R, all)
  BY <1>1, <1>2, LogWhere
<1> HIDE DEF more, filter, n
<1>5. all \in Seq(Exprs) /\ all = filters \o <<filter>> /\ <<filter>> \in Seq(Exprs)
  BY <1>1, <1>2, AppendProperties, AppendAsConcat, SingleIs
<1>6. ListReads(all, columns, others)
  BY <1>1, <1>2, TokensOfAppend DEF ListReads, Reads
<1>7. Apart(L, all, n + 1)
  <2> DEFINE es == <<filter>>
  <2>1. es \in Seq(Exprs) /\ OfCall(es, n) /\ Apart(L, filters, n)
    BY <1>2, <1>5 DEF n
  <2> HIDE DEF es
  <2>2. Apart(L, filters \o es, n + 1)
    BY <1>1, <1>3, <2>1, ApartRight
  <2> QED BY <1>5, <2>2 DEF es
<1> HIDE DEF all
<1>9. IsList(all, columns, others) /\ Apart(L, all, Len(more))
  BY <1>3, <1>5, <1>6, <1>7 DEF IsList
<1> QED BY <1>4, <1>9 DEF Filtered, more, all, filter

\* where_ adds a condition to an UPDATE or a DELETE, and closes the set of setters:
LEMMA WhereKeeps ==
    ASSUME schema \in Schemas, BuilderIs(dialect, schema, builder, calls), Where
    PROVE  BuilderIs(dialect, schema, builder', calls')
<1> DEFINE b == builder'
           n == Len(calls)
           menu == IF Stage({"set from", "using"}) THEN JoinedPredicates ELSE Predicates[builder.stage]
<1>1. builder.stage \in {"set", "write", "delete", "set from", "using"} /\ IsBuilder(builder)
      /\ calls \in Seq(Range(calls)) /\ BuilderIs(dialect, schema, builder, calls)
  BY DEF Where, Stage, BuilderIs
<1>2. PICK p \in menu :
         /\ b = [builder EXCEPT !.filters = Append(@, PlaceParams(n, 0, p)), !.filtered = TRUE]
         /\ calls' = Append(calls, [call |-> "where", filter |-> PlaceParams(n, 0, p)])
  BY DEF Where, Becomes
<1> DEFINE filter == PlaceParams(n, 0, p)
           c == [call |-> "where", filter |-> filter]
           all == Append(builder.filters, filter)
           others == IF builder.stage \in {"set from", "using"} THEN OtherColumns ELSE {}
<1>3. n \in Nat
  BY <1>1, LogLength
<1>4. FilterIs(filter, n, schema.columns, others)
  BY <1>3, FiltersAre, <1>1 DEF Stage
<1> HIDE DEF filter, menu
<1>5. /\ b.stage = builder.stage /\ b.assigns = builder.assigns /\ b.conflict = builder.conflict
      /\ b.filters = all /\ IsBuilder(b)
  BY <1>1, <1>2 DEF IsBuilder, filter
<1>6. calls' = Append(calls, c) /\ c.call = "where" /\ c.filter = filter
  BY <1>2 DEF filter
<1>7. calls' \in Seq(Range(calls'))
  BY <1>1, <1>6, LogGrows
<1>8. all = Append(builder.filters, c.filter)
  OBVIOUS
<1> HIDE DEF b, c, n, others, all
<1>9. FilterIs(c.filter, Len(calls), schema.columns, others)
  BY <1>4, <1>6 DEF n
<1>10. ASSUME NEW A, NEW R, NEW L,
              LogIs(calls, A, R, builder.filters), IsList(builder.filters, schema.columns, others),
              Apart(L, builder.filters, Len(calls))
       PROVE  /\ LogIs(calls', A, R, b.filters) /\ IsList(b.filters, schema.columns, others)
              /\ Apart(L, b.filters, Len(calls'))
  <2>1. Filtered(calls, c, A, R, builder.filters, L, schema.columns, others)
    BY ONLY <1>1, <1>6, <1>9, <1>10, FilterAdded
  <2> QED BY <1>5, <1>6, <1>8, <2>1 DEF Filtered
<1>11. ASSUME builder.stage \in {"set", "set from"}
       PROVE  BuilderIs(dialect, schema, b, calls')
  <2>1. SetStage(schema, others, builder, calls)
    BY <1>1, <1>11 DEF BuilderIs, others
  <2>2. PICK R : LogIs(calls, builder.assigns, R, builder.filters)
    BY <2>1 DEF SetStage
  <2>3. IsList(builder.filters, schema.columns, others) /\ Apart(ValuesOf(builder.assigns), builder.filters, Len(calls))
    BY <2>1 DEF SetStage
  <2>4. /\ LogIs(calls', builder.assigns, R, b.filters) /\ IsList(b.filters, schema.columns, others)
        /\ Apart(ValuesOf(builder.assigns), b.filters, Len(calls'))
    BY <1>10, <2>2, <2>3
  <2>5. SetStage(schema, others, b, calls')
    BY <1>5, <2>1, <2>4 DEF SetStage
  <2> QED BY <1>5, <1>7, <1>11, <2>5 DEF BuilderIs, others
<1>12. ASSUME builder.stage = "write"
       PROVE  BuilderIs(dialect, schema, b, calls')
  BY <1>1, <1>12, <1>10, <1>5, <1>6, StillUnconflicted, <1>7 DEF BuilderIs, others, WriteStage,
     Unconflicted
<1>13. ASSUME builder.stage \in {"delete", "using"}
       PROVE  BuilderIs(dialect, schema, b, calls')
  BY <1>1, <1>13, <1>10, <1>5, <1>7 DEF BuilderIs, others, DeleteStage
<1>14. BuilderIs(dialect, schema, b, calls')
  BY <1>1, <1>11, <1>12, <1>13
<1> QED BY <1>14 DEF b

\* all lets an UPDATE or a DELETE go without one:
LEMMA AllKeeps ==
    ASSUME BuilderIs(dialect, schema, builder, calls), All
    PROVE  BuilderIs(dialect, schema, builder', calls')
<1> DEFINE b == builder'
           c == [call |-> "all"]
           n == Len(calls)
<1>1. builder.stage \in {"set", "write", "delete"} /\ IsBuilder(builder)
      /\ calls \in Seq(Range(calls)) /\ BuilderIs(dialect, schema, builder, calls)
  BY DEF All, Stage, BuilderIs
<1>2. b = [builder EXCEPT !.filtered = TRUE] /\ calls' = Append(calls, c)
  BY DEF All, Becomes
<1>3. /\ b.stage = builder.stage /\ b.assigns = builder.assigns /\ b.conflict = builder.conflict
      /\ b.filters = builder.filters /\ IsBuilder(b)
  BY <1>1, <1>2 DEF IsBuilder
<1>4. c.call = "all"
  OBVIOUS
<1>5. n \in Nat /\ Len(calls') = n + 1 /\ calls' \in Seq(Range(calls'))
  BY <1>1, <1>2, LogLength, LogGrows
<1> HIDE DEF b, c
<1>7. ASSUME NEW A, NEW R, NEW F, LogIs(calls, A, R, F)
      PROVE  LogIs(calls', A, R, F)
  BY <1>2, <1>4, <1>7, LogOther
<1>8. ASSUME NEW L1, NEW L2, Apart(L1, L2, Len(calls))
      PROVE  Apart(L1, L2, Len(calls'))
  BY <1>5, <1>8, ApartLater
<1> HIDE DEF n
<1>9. ASSUME builder.stage = "set"
      PROVE  BuilderIs(dialect, schema, b, calls')
  <2>1. SetStage(schema, {}, builder, calls)
    BY <1>1, <1>9 DEF BuilderIs
  <2>2. PICK R : LogIs(calls, builder.assigns, R, builder.filters)
    BY <2>1 DEF SetStage
  <2>3. LogIs(calls', builder.assigns, R, builder.filters)
        /\ Apart(ValuesOf(builder.assigns), builder.filters, Len(calls'))
    BY <1>7, <1>8, <2>1, <2>2 DEF SetStage
  <2>4. SetStage(schema, {}, b, calls')
    BY <1>3, <2>1, <2>3 DEF SetStage
  <2>5. b.stage = "set" /\ IsBuilder(b)
    BY <1>3, <1>9
  <2> QED BY ONLY <1>5, <2>4, <2>5 DEF BuilderIs
<1>10. ASSUME builder.stage = "write"
       PROVE  BuilderIs(dialect, schema, b, calls')
  BY <1>1, <1>10, <1>7, <1>8, <1>3, <1>2, <1>4, StillUnconflicted, <1>5 DEF BuilderIs, WriteStage,
     Unconflicted
<1>11. ASSUME builder.stage = "delete"
       PROVE  BuilderIs(dialect, schema, b, calls')
  BY <1>1, <1>11, <1>7, <1>8, <1>3, <1>5 DEF BuilderIs, DeleteStage
<1>12. BuilderIs(dialect, schema, b, calls')
  BY <1>1, <1>9, <1>10, <1>11
<1> QED BY <1>12 DEF b

\* on_conflict names the key of an upsert:
LEMMA OnConflictKeeps ==
    ASSUME schema \in Schemas, BuilderIs(dialect, schema, builder, calls), OnConflict
    PROVE  BuilderIs(dialect, schema, builder', calls')
<1> DEFINE b == builder'
           A == builder.assigns
           F == builder.filters
           part == OfColumns(A, schema.insertable)
           S == Range(calls')
<1>1. calls \in Seq(Range(calls)) /\ WriteStage(schema, builder, calls)
  BY DEF OnConflict, Stage, BuilderIs
<1>2. PICK target \in Targets :
         /\ b = [Idle EXCEPT !.stage = "on conflict", !.assigns = part,
                             !.conflict = [action |-> "none", target |-> target]]
         /\ calls' = Append(calls, [call |-> "on conflict", target |-> target])
  BY DEF OnConflict, Becomes, IntoInsert
<1> DEFINE c == [call |-> "on conflict", target |-> target]
<1>3. b = [stage |-> "on conflict", columns |-> <<>>, rows |-> <<>>, assigns |-> part, filters |-> <<>>,
           filtered |-> FALSE, conflict |-> [action |-> "none", target |-> target]]
  BY <1>2 DEF Idle
<1>4. /\ b.stage = "on conflict" /\ b.assigns = part /\ b.conflict.target = target /\ IsBuilder(b)
      /\ b.conflict = [action |-> b.conflict.action, target |-> b.conflict.target]
  BY <1>3 DEF IsBuilder
<1>5. c.call = "on conflict" /\ c.target = target
  OBVIOUS
<1>6. calls' \in Seq(Range(calls'))
  BY <1>1, <1>2, LogGrows
<1>7. calls' = Append(calls, c)
  BY <1>2
<1>8. /\ LogIs(calls, A, <<>>, F) /\ A \in Seq(Settings) /\ ListReads(ValuesOf(A), {}, {})
      /\ ClearList(ValuesOf(A)) /\ SaidIn(calls, "do") = <<>>
  BY <1>1 DEF WriteStage, Apart, Unconflicted
<1> HIDE DEF b, c, A, F
<1>9. LogIs(calls', A, <<>>, F)
  BY <1>5, <1>7, <1>8, LogOther
<1>10. PartOf(part, A)
  BY <1>8, OfColumnsKeeps
<1> HIDE DEF part
<1>11. ListReads(ValuesOf(part), {}, {}) /\ ClearList(ValuesOf(part))
  BY <1>8, <1>10 DEF PartOf, ListReads
<1>12. SaysMore(calls, c, "do") /\ SaysMore(calls, c, "on conflict")
  BY <1>1, SaidMore
<1> DEFINE before == SaidIn(calls, "on conflict")
           told == SaidIn(calls', "on conflict")
<1>13. SaidIn(calls', "do") = <<>> /\ told = Append(before, c)
  BY <1>5, <1>7, <1>8, <1>12 DEF SaysMore
<1>14. before = <<>>
  BY <1>1 DEF WriteStage, Unconflicted
<1> HIDE DEF told
<1>15. told = <<c>>
  BY <1>13, <1>14, AppendToNothing
<1>16. told # <<>> /\ told[1].target = target
  BY <1>5, <1>15
<1>17. \E A0, F0 : LogIs(calls', A0, <<>>, F0) /\ A0 \in Seq(Settings) /\ b.assigns = OfColumns(A0, schema.insertable)
  BY <1>4, <1>8, <1>9 DEF part
<1>18. ConflictStage(schema, b, calls')
  BY <1>4, <1>11, <1>16, <1>17 DEF ConflictStage, told
<1>19. BuilderIs(dialect, schema, b, calls')
  BY <1>4, <1>6, <1>13, <1>18 DEF BuilderIs
<1> QED BY <1>19 DEF b

\* do_nothing and do_update say what becomes of the row:
LEMMA DoOnConflictKeeps ==
    ASSUME dialect \in Dialects, BuilderIs(dialect, schema, builder, calls), DoOnConflict
    PROVE  BuilderIs(dialect, schema, builder', calls')
<1> DEFINE b == builder'
<1>1. /\ builder.stage = "on conflict" /\ IsBuilder(builder) /\ calls \in Seq(Range(calls))
      /\ ConflictStage(schema, builder, calls) /\ SaidIn(calls, "do") = <<>>
  BY DEF DoOnConflict, Stage, BuilderIs
<1>2. PICK action \in {"nothing", "update"} :
         /\ b = [builder EXCEPT !.stage = "upsert", !.conflict.action = action]
         /\ calls' = Append(calls, [call |-> "do", action |-> action])
  BY DEF DoOnConflict, Becomes
<1> DEFINE c == [call |-> "do", action |-> action]
<1>3. c.call = "do" /\ c.action = action /\ calls' = Append(calls, c)
  BY <1>2
<1>4. PICK A, F : LogIs(calls, A, <<>>, F) /\ A \in Seq(Settings) /\ builder.assigns = OfColumns(A, schema.insertable)
  BY <1>1 DEF ConflictStage
<1>5. b.stage = "upsert" /\ b.assigns = builder.assigns /\ IsBuilder(b)
  BY <1>1, <1>2 DEF IsBuilder
<1>6. builder.assigns = <<>> => dialect # "sqlite"
  BY DEF DoOnConflict, SupportsColumnlessUpsert
<1>7. b.conflict = [builder.conflict EXCEPT !.action = action]
  BY <1>1, <1>2 DEF IsBuilder
<1>8. /\ b.conflict.action = action /\ b.conflict.target = builder.conflict.target
      /\ b.conflict = [action |-> b.conflict.action, target |-> b.conflict.target]
  BY <1>1, <1>7 DEF ConflictStage
<1> HIDE DEF b, c
<1>9. calls' \in Seq(Range(calls'))
  BY <1>1, <1>3, LogGrows
<1>10. LogIs(calls', A, <<>>, F)
  BY <1>3, <1>4, LogOther
<1>11. SaysMore(calls, c, "do") /\ SaysMore(calls, c, "on conflict")
  BY <1>1, SaidMore
<1>12. /\ SaidIn(calls', "on conflict") = SaidIn(calls, "on conflict")
       /\ SaidIn(calls', "do") = Append(SaidIn(calls, "do"), c)
  BY <1>3, <1>11 DEF SaysMore
<1>13. SaidIn(calls', "do") = <<c>>
  BY <1>1, <1>12, AppendToNothing
<1>14. SaidIn(calls', "do") # <<>> /\ SaidIn(calls', "do")[1].action = action
  BY <1>3, <1>13
<1>15. ConflictStage(schema, b, calls')
  BY <1>1, <1>4, <1>5, <1>8, <1>10, <1>12 DEF ConflictStage
<1>16. UpsertStage(dialect, b, calls')
  BY <1>5, <1>6, <1>8, <1>14 DEF UpsertStage
<1>17. BuilderIs(dialect, schema, b, calls')
  BY <1>5, <1>9, <1>15, <1>16 DEF BuilderIs
<1> QED BY <1>17 DEF b

-----------------------------------------------------------------------------
(* Finalizers                                                              *)

\* What the last call leaves of the log.
Finishes(log, c, more) ==
    /\ more \in Seq(Range(more)) /\ more[Len(more)] = c
    /\ SaidIn(more, "do") = SaidIn(log, "do")
    /\ SaidIn(more, "on conflict") = SaidIn(log, "on conflict")

\* The calls that build a query.
FinalCalls == {"insert", "insert select", "update", "update from", "delete", "delete using"}

\* The last call of a log says nothing of rows, conditions or clauses.
LEMMA CallFinishes ==
    ASSUME NEW log, log \in Seq(Range(log)), NEW c, c.call \in FinalCalls
    PROVE  Finishes(log, c, Append(log, c))
<1> DEFINE more == Append(log, c)
<1>1. more \in Seq(Range(more))
  BY LogGrows
<1>2. more[Len(more)] = c
  BY LogLength
<1>3. SaysMore(log, c, "do") /\ SaysMore(log, c, "on conflict")
  BY SaidMore
<1>4. SaidIn(more, "do") = SaidIn(log, "do")
  BY <1>3 DEF SaysMore, FinalCalls
<1>5. SaidIn(more, "on conflict") = SaidIn(log, "on conflict")
  BY <1>3 DEF SaysMore, FinalCalls
<1> QED BY <1>1, <1>2, <1>4, <1>5 DEF Finishes

LEMMA FinalLog ==
    ASSUME NEW log, NEW A, NEW R, NEW F, LogIs(log, A, R, F), NEW c, c.call \in FinalCalls
    PROVE  LogIs(Append(log, c), A, R, F)
BY LogOther DEF FinalCalls

\* What every finalizer leaves.
LEMMA Built ==
    ASSUME calls \in Seq(Range(calls)), NEW q, NEW c, c.call \in FinalCalls, Builds(q, c)
    PROVE  /\ BuilderIs(dialect, schema, builder', calls') /\ builder'.stage = "query"
           /\ query' = q /\ calls' = Append(calls, c) /\ Finishes(calls, c, calls')
<1> DEFINE b == builder'
<1>1. b = [Idle EXCEPT !.stage = "query"] /\ query' = q /\ calls' = Append(calls, c)
  BY DEF Builds
<1>2. b = [stage |-> "query", columns |-> <<>>, rows |-> <<>>, assigns |-> <<>>, filters |-> <<>>,
           filtered |-> FALSE, conflict |-> [action |-> "none", target |-> <<>>]]
  BY <1>1 DEF Idle
<1>3. b.stage = "query" /\ IsBuilder(b)
  BY <1>2 DEF IsBuilder
<1>4. Finishes(calls, c, calls')
  BY <1>1, CallFinishes
<1> HIDE DEF b
<1>5. BuilderIs(dialect, schema, b, calls')
  BY <1>3, <1>4 DEF BuilderIs, Finishes
<1> QED BY <1>1, <1>3, <1>4, <1>5 DEF b

\* A RETURNING list reads the target, and MySQL has none.
LEMMA ReturningIs ==
    ASSUME dialect \in Dialects, schema \in Schemas, NEW p \in Projections, Returnable(p)
    PROVE  /\ IsList(p, schema.columns, {}) /\ IsStatic(p) /\ p \in Seq(Exprs)
           /\ dialect = "mysql" => p = <<>>
BY ProjectionIs DEF Returnable, SupportsReturning, IsList

\* An insert of rows.
InsertOf(rows, conflict, p) == [kind |-> "insert", conflict |-> conflict, returning |-> p, rows |-> rows]

\* An INSERT of rows is a query.
LEMMA InsertOfIs ==
    ASSUME dialect \in Dialects, schema \in Schemas, NEW p \in Projections, Returnable(p),
           NEW rows, AreRows(schema, ColumnsOf(rows[1]), rows), rows # <<>>,
           ClearList(ExprsOfRows(rows)), NEW conflict, conflict.action \in {"none", "nothing", "update"},
           conflict.action # "none" /\ ColumnsOf(rows[1]) = <<>> => dialect # "sqlite"
    PROVE  /\ InsertOk(dialect, schema, InsertOf(rows, conflict, p))
           /\ ClearList(ExprsOf(InsertOf(rows, conflict, p)))
<1> DEFINE q == InsertOf(rows, conflict, p)
<1>1. q.kind = "insert" /\ q.rows = rows /\ q.returning = p /\ q.conflict = conflict
  BY DEF InsertOf
<1>2. IsList(p, schema.columns, {}) /\ IsStatic(p) /\ p \in Seq(Exprs) /\ (dialect = "mysql" => p = <<>>)
  BY ReturningIs
<1> DEFINE L == ExprsOfRows(rows)
<1>3. L \in Seq(Exprs) /\ ClearList(L)
  BY ExprsOfRowsAppend DEF AreRows
<1> HIDE DEF q
<1>4. InsertOk(dialect, schema, q)
  BY <1>1, <1>2 DEF InsertOk, AreRows
<1>5. ExprsOf(q) = L \o p
  BY <1>1 DEF ExprsOf
<1> HIDE DEF L
<1>6. ClearList(L \o p)
  BY <1>2, <1>3, WithStatic
<1> QED BY <1>4, <1>5, <1>6 DEF q

\* An INSERT of one row.
LEMMA OneRow ==
    ASSUME NEW row \in Seq(Settings)
    PROVE  /\ <<row>> \in Seq(Seq(Settings)) /\ <<row>> # <<>> /\ Len(<<row>>) = 1 /\ <<row>>[1] = row
           /\ ExprsOfRows(<<row>>) = ValuesOf(row)
<1> DEFINE SS == Seq(Settings)
           none == <<>>
           rows == <<row>>
<1>1. row \in SS
  OBVIOUS
<1> HIDE DEF SS
<1>2. rows \in Seq(SS) /\ rows # <<>> /\ Len(rows) = 1 /\ rows[1] = row
  BY <1>1
<1>3. none \in Seq(SS) /\ rows = Append(none, row)
  BY <1>1, AppendToNothing
<1> DEFINE vs == ValuesOf(row)
<1>4. vs \in Seq(Exprs)
  BY ValuesOfIs
<1>5. ExprsOfRows(none) = <<>>
  BY NoRows
<1> HIDE DEF vs, none, rows
<1>6. ExprsOfRows(rows) = ExprsOfRows(none) \o vs
  BY <1>3, ExprsOfRowsAppend DEF SS, vs
<1>7. ExprsOfRows(rows) = vs
  BY <1>4, <1>5, <1>6, ConcatNothing
<1> QED BY <1>2, <1>7 DEF rows, SS, vs

\* insert builds the query its log says, and so does every other finalizer.
LEMMA InsertBuilds ==
    ASSUME dialect \in Dialects, schema \in Schemas, BuilderIs(dialect, schema, builder, calls), Insert
    PROVE  /\ BuilderIs(dialect, schema, builder', calls') /\ builder'.stage = "query"
           /\ QueryIs(dialect, schema, query', calls')
<1> DEFINE rows == IF Stage({"columns"}) THEN builder.rows ELSE <<IntoInsert(builder.assigns)>>
           conflict == builder.conflict
<1>1. calls \in Seq(Range(calls)) /\ IsBuilder(builder)
  BY DEF BuilderIs
<1>2. PICK p \in Projections : Returnable(p) /\ Builds(InsertOf(rows, conflict, p), [call |-> "insert", returning |-> p])
  BY DEF Insert, InsertOf
<1> DEFINE q == InsertOf(rows, conflict, p)
           c == [call |-> "insert", returning |-> p]
           last == calls'[Len(calls')]
<1>3. c.call = "insert" /\ c.returning = p
  OBVIOUS
<1>4. q.kind = "insert" /\ q.rows = rows /\ q.returning = p /\ q.conflict = conflict
  BY DEF InsertOf
<1>5. \/ builder.stage = "columns" /\ builder.rows # <<>> /\ rows = builder.rows
      \/ builder.stage = "write" /\ rows = <<OfColumns(builder.assigns, schema.insertable)>>
      \/ builder.stage = "upsert" /\ rows = <<OfColumns(builder.assigns, schema.insertable)>>
  BY DEF Insert, Stage, IntoInsert
<1>15. q = InsertOf(rows, conflict, p)
  OBVIOUS
<1> HIDE DEF c, q, rows, conflict
<1>14. c.call \in FinalCalls /\ Builds(q, c)
  BY <1>2, <1>3 DEF FinalCalls, q, c
<1>6. /\ BuilderIs(dialect, schema, builder', calls') /\ builder'.stage = "query"
      /\ query' = q /\ calls' = Append(calls, c) /\ Finishes(calls, c, calls')
  BY ONLY <1>1, <1>14, Built
<1>7. last = c /\ SaidIn(calls', "do") = SaidIn(calls, "do")
      /\ SaidIn(calls', "on conflict") = SaidIn(calls, "on conflict")
  BY <1>6 DEF Finishes
<1> HIDE DEF last
<1>8. ASSUME NEW A, NEW R, NEW F, LogIs(calls, A, R, F), rows = RowsOfLog(schema, A, R),
             ConflictIs(conflict, calls), InsertOk(dialect, schema, q) /\ ClearList(ExprsOf(q))
      PROVE  QueryIs(dialect, schema, q, calls')
  <2>1. LogIs(calls', A, R, F)
    BY ONLY <1>6, <1>8, <1>14, FinalLog
  <2>2. ConflictIs(conflict, calls')
    BY <1>7, <1>8 DEF ConflictIs
  <2>3. Says(schema, q, calls', A, R, F)
    BY <1>3, <1>4, <1>7, <1>8, <2>2 DEF Says, last
  <2> QED BY <1>8, <2>1, <2>3 DEF QueryIs, QueryOk
<1>9. ASSUME builder.stage = "columns", builder.rows # <<>>, rows = builder.rows
      PROVE  QueryIs(dialect, schema, q, calls')
  <2>1. ColumnsStage(schema, builder, calls)
    BY <1>9 DEF BuilderIs
  <2>2. /\ LogIs(calls, <<>>, rows, <<>>) /\ AreRows(schema, builder.columns, rows)
        /\ Apart(ExprsOfRows(rows), <<>>, Len(calls)) /\ Unconflicted(builder, calls)
    BY <1>9, <2>1 DEF ColumnsStage
  <2>3. /\ rows \in Seq(Seq(Settings)) /\ rows # <<>>
        /\ \A i \in 1 .. Len(rows) : ColumnsOf(rows[i]) = builder.columns /\ ListReads(ValuesOf(rows[i]), {}, {})
    BY <1>9, <2>2 DEF AreRows
  <2> DEFINE SS == Seq(Settings)
  <2>4. 1 \in 1 .. Len(rows)
    <3>1. rows \in Seq(SS) /\ rows # <<>>
      BY <2>3
    <3> HIDE DEF SS
    <3> QED BY <3>1, EmptySeq, LenProperties
  <2>5. AreRows(schema, ColumnsOf(rows[1]), rows)
    BY <2>3, <2>4 DEF AreRows
  <2>6. ClearList(ExprsOfRows(rows)) /\ conflict.action = "none" /\ SaidIn(calls, "do") = <<>>
    BY <2>2 DEF Apart, Unconflicted, conflict
  <2>7. InsertOk(dialect, schema, q) /\ ClearList(ExprsOf(q))
    <3>1. conflict.action \in {"none", "nothing", "update"}
          /\ (conflict.action # "none" /\ ColumnsOf(rows[1]) = <<>> => dialect # "sqlite")
      BY <2>6
    <3> QED BY ONLY dialect \in Dialects, schema \in Schemas, <1>2, <2>3, <2>5, <2>6, <3>1, <1>15, InsertOfIs
  <2>8. rows = RowsOfLog(schema, <<>>, rows) /\ ConflictIs(conflict, calls)
    BY <1>9, <2>6 DEF RowsOfLog, ConflictIs
  <2> QED BY <1>8, <2>2, <2>7, <2>8
<1>10. ASSUME NEW row \in Seq(Settings), rows = <<row>>, ListReads(ValuesOf(row), {}, {}), ClearList(ValuesOf(row)),
              conflict.action \in {"none", "nothing", "update"},
              conflict.action # "none" /\ ColumnsOf(row) = <<>> => dialect # "sqlite"
       PROVE  InsertOk(dialect, schema, q) /\ ClearList(ExprsOf(q))
  <2>1. /\ rows \in Seq(Seq(Settings)) /\ rows # <<>> /\ Len(rows) = 1 /\ rows[1] = row
        /\ ExprsOfRows(rows) = ValuesOf(row)
    BY <1>10, OneRow
  <2>2. AreRows(schema, ColumnsOf(rows[1]), rows)
    BY <1>10, <2>1 DEF AreRows
  <2>3. conflict.action # "none" /\ ColumnsOf(rows[1]) = <<>> => dialect # "sqlite"
    BY <1>10, <2>1
  <2>4. ClearList(ExprsOfRows(rows))
    BY <1>10, <2>1
  <2> QED BY ONLY dialect \in Dialects, schema \in Schemas, <1>2, <1>10, <2>1, <2>2, <2>3, <2>4, <1>15, InsertOfIs
<1>11. ASSUME builder.stage = "write", rows = <<OfColumns(builder.assigns, schema.insertable)>>
       PROVE  QueryIs(dialect, schema, q, calls')
  <2> DEFINE A == builder.assigns
             row == OfColumns(A, schema.insertable)
  <2>1. WriteStage(schema, builder, calls)
    BY <1>11 DEF BuilderIs
  <2>2. /\ LogIs(calls, A, <<>>, builder.filters) /\ A \in Seq(Settings)
        /\ ListReads(ValuesOf(A), {}, {}) /\ ClearList(ValuesOf(A))
    BY <2>1 DEF WriteStage, Apart
  <2>3. conflict.action = "none" /\ SaidIn(calls, "do") = <<>>
    BY <2>1 DEF WriteStage, Unconflicted, conflict
  <2>4. row \in Seq(Settings) /\ PartOf(row, A)
    BY <2>2, OfColumnsKeeps
  <2>5. rows = RowsOfLog(schema, A, <<>>) /\ rows = <<row>>
    BY <1>11 DEF RowsOfLog
  <2> HIDE DEF row
  <2>6. ListReads(ValuesOf(row), {}, {}) /\ ClearList(ValuesOf(row))
    BY <2>2, <2>4 DEF PartOf, ListReads
  <2>7. InsertOk(dialect, schema, q) /\ ClearList(ExprsOf(q))
    <3>1. /\ conflict.action \in {"none", "nothing", "update"}
          /\ conflict.action # "none" /\ ColumnsOf(row) = <<>> => dialect # "sqlite"
      BY <2>3
    <3>2. row \in Seq(Settings) /\ rows = <<row>>
      BY <2>4, <2>5
    <3> QED BY ONLY <1>10, <2>6, <3>1, <3>2
  <2>8. ConflictIs(conflict, calls)
    BY <2>3 DEF ConflictIs
  <2> QED BY <1>8, <2>2, <2>5, <2>7, <2>8
<1>12. ASSUME builder.stage = "upsert", rows = <<OfColumns(builder.assigns, schema.insertable)>>
       PROVE  QueryIs(dialect, schema, q, calls')
  <2> DEFINE row == builder.assigns
  <2>1. ConflictStage(schema, builder, calls) /\ UpsertStage(dialect, builder, calls)
    BY <1>12 DEF BuilderIs
  <2>2. PICK A, F : LogIs(calls, A, <<>>, F) /\ A \in Seq(Settings) /\ row = OfColumns(A, schema.insertable)
    BY <2>1 DEF ConflictStage
  <2>3. row \in Seq(Settings) /\ OfColumns(row, schema.insertable) = row
    BY <2>2, OfColumnsKeeps
  <2>4. ListReads(ValuesOf(row), {}, {}) /\ ClearList(ValuesOf(row))
        /\ SaidIn(calls, "on conflict")[1].target = conflict.target
    BY <2>1 DEF ConflictStage, conflict
  <2>5. /\ conflict.action \in {"nothing", "update"}
        /\ SaidIn(calls, "do") # <<>> /\ SaidIn(calls, "do")[1].action = conflict.action
        /\ row = <<>> => dialect # "sqlite"
    BY <2>1 DEF UpsertStage, conflict
  <2>6. rows = <<row>>
    BY <1>12, <2>3
  <2>7. rows = RowsOfLog(schema, A, <<>>)
    BY <2>2, <2>6 DEF RowsOfLog
  <2> HIDE DEF row
  <2>8. ColumnsOf(row) = <<>> => row = <<>>
    <3>1. DOMAIN ColumnsOf(row) = 1 .. Len(row) /\ Len(row) \in Nat
      BY <2>3, LenProperties DEF ColumnsOf
    <3>2. ASSUME ColumnsOf(row) = <<>>
          PROVE  row = <<>>
      <4>1. 1 .. Len(row) = {}
        BY <3>1, <3>2
      <4>2. Len(row) = 0
        BY <3>1, <4>1
      <4> QED BY <2>3, <4>2, EmptySeq
    <3> QED BY <3>2
  <2>9. InsertOk(dialect, schema, q) /\ ClearList(ExprsOf(q))
    BY <1>10, <2>3, <2>4, <2>5, <2>6, <2>8
  <2>10. ConflictIs(conflict, calls)
    BY <2>4, <2>5 DEF ConflictIs
  <2> QED BY <1>8, <2>2, <2>7, <2>9, <2>10
<1>13. QueryIs(dialect, schema, q, calls')
  BY <1>5, <1>9, <1>11, <1>12
<1> QED BY <1>6, <1>13

\* The query of a final call is what its log says.
LEMMA SaysIsQuery ==
    ASSUME NEW q, QueryOk(dialect, schema, q), NEW c, c.call \in FinalCalls, calls' = Append(calls, c),
           NEW A, NEW R, NEW F, LogIs(calls, A, R, F), Says(schema, q, calls', A, R, F),
           q.kind \in {"insert", "update", "delete"} => ClearList(ExprsOf(q))
    PROVE  QueryIs(dialect, schema, q, calls')
<1>1. LogIs(calls', A, R, F)
  BY ONLY c.call \in FinalCalls, calls' = Append(calls, c), LogIs(calls, A, R, F), FinalLog
<1> QED BY <1>1 DEF QueryIs

LEMMA InsertSelectBuilds ==
    ASSUME dialect \in Dialects, schema \in Schemas, BuilderIs(dialect, schema, builder, calls), InsertSelect
    PROVE  /\ BuilderIs(dialect, schema, builder', calls') /\ builder'.stage = "query"
           /\ QueryIs(dialect, schema, query', calls')
<1>1. calls \in Seq(Range(calls)) /\ WriteStage(schema, builder, calls)
  BY DEF BuilderIs, InsertSelect, Stage
<1>2. PICK source \in Sources :
         Builds([kind |-> "insert_select", columns |-> source.columns, source |-> source],
                [call |-> "insert select", source |-> source])
  BY DEF InsertSelect
<1> DEFINE q == [kind |-> "insert_select", columns |-> source.columns, source |-> source]
           c == [call |-> "insert select", source |-> source]
<1>3. c.call = "insert select" /\ c.source = source
  OBVIOUS
<1>4. q.kind = "insert_select" /\ q.columns = source.columns /\ q.source = source
  OBVIOUS
<1>5. c.call \in FinalCalls /\ Builds(q, c)
  BY <1>2, <1>3 DEF FinalCalls
<1> HIDE DEF c, q
<1>6. /\ BuilderIs(dialect, schema, builder', calls') /\ builder'.stage = "query"
      /\ query' = q /\ calls' = Append(calls, c) /\ Finishes(calls, c, calls')
  BY ONLY <1>1, <1>5, Built
<1>7. calls'[Len(calls')] = c
  BY <1>6 DEF Finishes
<1>8. QueryOk(dialect, schema, q)
  BY SourceIs, <1>4 DEF SelectOk, QueryOk
<1>9. Says(schema, q, calls', builder.assigns, <<>>, builder.filters)
  BY <1>3, <1>4, <1>7 DEF Says
<1>10. LogIs(calls, builder.assigns, <<>>, builder.filters)
  BY <1>1 DEF WriteStage
<1>11. QueryIs(dialect, schema, q, calls')
  BY <1>4, <1>5, <1>6, <1>8, <1>9, <1>10, SaysIsQuery
<1> QED BY <1>6, <1>11

\* An UPDATE is a query.
LEMMA UpdateOfIs ==
    ASSUME dialect \in Dialects, schema \in Schemas, NEW p \in Projections, Returnable(p),
           NEW assigns, AreAssignments(assigns, schema.columns, {}),
           NEW F, IsList(F, schema.columns, {}), NEW n, Apart(ValuesOf(assigns), F, n),
           NEW q, q.kind = "update", q.assigns = assigns, q.filters = F, q.returning = p
    PROVE  QueryOk(dialect, schema, q) /\ ClearList(ExprsOf(q))
<1>1. IsList(p, schema.columns, {}) /\ IsStatic(p) /\ p \in Seq(Exprs) /\ (dialect = "mysql" => p = <<>>)
  BY ReturningIs
<1> DEFINE L == ValuesOf(assigns)
<1>2. L \in Seq(Exprs) /\ F \in Seq(Exprs) /\ Apart(L, F, n)
  BY DEF AreAssignments, IsList
<1>3. UpdateOk(dialect, schema, q)
  BY <1>1 DEF UpdateOk
<1>4. ExprsOf(q) = (L \o F) \o p
  BY DEF ExprsOf
<1> HIDE DEF L
<1> DEFINE M == L \o F
<1>5. M \in Seq(Exprs) /\ ClearList(M)
  BY <1>2, ApartIsClear, ConcatProperties
<1>6. ExprsOf(q) = M \o p
  BY <1>4
<1> HIDE DEF M
<1>7. ClearList(M \o p)
  BY <1>1, <1>5, WithStatic
<1> QED BY <1>3, <1>6, <1>7 DEF QueryOk

\* What into_update keeps of the setters is an UPDATE's assignments.
LEMMA SettersAreAssignments ==
    ASSUME NEW type \in Schemas, NEW b, NEW log, WriteStage(type, b, log),
           OfColumns(b.assigns, type.updateable) # <<>>
    PROVE  LET part == OfColumns(b.assigns, type.updateable)
           IN  AreAssignments(part, type.columns, {}) /\ Apart(ValuesOf(part), b.filters, Len(log))
<1> DEFINE A == b.assigns
           part == OfColumns(A, type.updateable)
<1>1. /\ A \in Seq(Settings) /\ ColumnsOnce(A) /\ ListReads(ValuesOf(A), {}, {})
      /\ Apart(ValuesOf(A), b.filters, Len(log))
  BY DEF WriteStage
<1>2. /\ part \in Seq(Settings) /\ PartOf(part, A) /\ part # <<>>
      /\ \A i \in 1 .. Len(part) : part[i].col \in type.updateable
  BY <1>1, OfColumnsKeeps
<1>3. type.updateable \subseteq type.columns
  BY MenusAreOfColumns
<1> HIDE DEF part, A
<1>4. \A i \in 1 .. Len(part) : part[i].col \in type.columns
  BY <1>2, <1>3
<1>5. ColumnsOnce(part) /\ TokensOf(ValuesOf(part)) \subseteq TokensOf(ValuesOf(A))
  BY <1>1, <1>2 DEF PartOf
<1>6. IsList(ValuesOf(part), type.columns, {})
  BY <1>2, ValuesOfIs, <1>1, <1>5 DEF ListReads, IsList
<1>7. Apart(ValuesOf(part), b.filters, Len(log))
  BY <1>1, <1>2, ApartPart
<1> QED BY <1>2, <1>4, <1>5, <1>6, <1>7 DEF AreAssignments, part, A

LEMMA UpdateBuilds ==
    ASSUME dialect \in Dialects, schema \in Schemas, BuilderIs(dialect, schema, builder, calls), Update
    PROVE  /\ BuilderIs(dialect, schema, builder', calls') /\ builder'.stage = "query"
           /\ QueryIs(dialect, schema, query', calls')
<1> DEFINE assigns == IF Stage({"write"}) THEN IntoUpdate(builder.assigns) ELSE builder.assigns
           F == builder.filters
<1>1. calls \in Seq(Range(calls))
  BY DEF BuilderIs
<1>2. PICK p \in Projections :
         /\ Returnable(p)
         /\ Builds([kind |-> "update", filters |-> F, returning |-> p, assigns |-> assigns],
                   [call |-> "update", returning |-> p])
  BY DEF Update
<1> DEFINE q == [kind |-> "update", filters |-> F, returning |-> p, assigns |-> assigns]
           c == [call |-> "update", returning |-> p]
<1>3. c.call = "update" /\ c.returning = p
  OBVIOUS
<1>4. q.kind = "update" /\ q.filters = F /\ q.returning = p /\ q.assigns = assigns
  OBVIOUS
<1>5. c.call \in FinalCalls /\ Builds(q, c)
  BY <1>2, <1>3 DEF FinalCalls
<1>6. \/ builder.stage = "set" /\ assigns = builder.assigns
      \/ builder.stage = "write" /\ assigns = OfColumns(builder.assigns, schema.updateable) /\ assigns # <<>>
  BY DEF Update, Stage, IntoUpdate
<1> HIDE DEF c, q, assigns, F
<1>7. /\ BuilderIs(dialect, schema, builder', calls') /\ builder'.stage = "query"
      /\ query' = q /\ calls' = Append(calls, c) /\ Finishes(calls, c, calls')
  BY ONLY <1>1, <1>5, Built
<1>8. calls'[Len(calls')] = c
  BY <1>7 DEF Finishes
<1>9. ASSUME NEW R, LogIs(calls, builder.assigns, R, F), assigns = OfColumns(builder.assigns, schema.updateable),
             AreAssignments(assigns, schema.columns, {}), IsList(F, schema.columns, {}),
             Apart(ValuesOf(assigns), F, Len(calls))
      PROVE  QueryIs(dialect, schema, q, calls')
  <2>1. QueryOk(dialect, schema, q) /\ ClearList(ExprsOf(q))
    BY ONLY dialect \in Dialects, schema \in Schemas, <1>2, <1>4, <1>9, UpdateOfIs
  <2>2. Says(schema, q, calls', builder.assigns, R, F)
    BY <1>3, <1>4, <1>8, <1>9 DEF Says
  <2> QED BY ONLY <1>4, <1>5, <1>7, <1>9, <2>1, <2>2, SaysIsQuery
<1>10. ASSUME builder.stage = "set", assigns = builder.assigns
       PROVE  QueryIs(dialect, schema, q, calls')
  <2>1. SetStage(schema, {}, builder, calls)
    BY <1>10 DEF BuilderIs
  <2>2. PICK R : LogIs(calls, builder.assigns, R, F)
    BY <2>1 DEF SetStage, F
  <2>3. /\ AreAssignments(assigns, schema.columns, {}) /\ IsList(F, schema.columns, {})
        /\ Apart(ValuesOf(assigns), F, Len(calls))
        /\ \A i \in 1 .. Len(assigns) : assigns[i].col \in schema.updateable
    BY <1>10, <2>1 DEF SetStage, F
  <2>4. assigns = OfColumns(builder.assigns, schema.updateable)
    BY <2>3, OfColumnsKeeps, <1>10 DEF AreAssignments
  <2> QED BY <1>9, <2>2, <2>3, <2>4
<1>11. ASSUME builder.stage = "write", assigns = OfColumns(builder.assigns, schema.updateable), assigns # <<>>
       PROVE  QueryIs(dialect, schema, q, calls')
  BY <1>11, SettersAreAssignments, <1>9 DEF BuilderIs, WriteStage, F
<1>12. QueryIs(dialect, schema, q, calls')
  BY <1>6, <1>10, <1>11
<1> QED BY <1>7, <1>12

LEMMA UpdateFromBuilds ==
    ASSUME dialect \in Dialects, schema \in Schemas, BuilderIs(dialect, schema, builder, calls), UpdateFrom
    PROVE  /\ BuilderIs(dialect, schema, builder', calls') /\ builder'.stage = "query"
           /\ QueryIs(dialect, schema, query', calls')
<1> DEFINE A == builder.assigns
           F == builder.filters
           q == [kind |-> "update_from", assigns |-> A, filters |-> F]
           c == [call |-> "update from"]
<1>1. calls \in Seq(Range(calls)) /\ SetStage(schema, OtherColumns, builder, calls)
  BY DEF BuilderIs, UpdateFrom, Stage
<1>2. Builds(q, c)
  BY DEF UpdateFrom
<1>3. c.call = "update from"
  OBVIOUS
<1>4. q.kind = "update_from" /\ q.filters = F /\ q.assigns = A
  OBVIOUS
<1>5. c.call \in FinalCalls /\ Builds(q, c)
  BY <1>2, <1>3 DEF FinalCalls
<1> HIDE DEF c, q, A, F
<1>7. /\ BuilderIs(dialect, schema, builder', calls') /\ builder'.stage = "query"
      /\ query' = q /\ calls' = Append(calls, c) /\ Finishes(calls, c, calls')
  BY ONLY <1>1, <1>5, Built
<1>8. calls'[Len(calls')] = c
  BY <1>7 DEF Finishes
<1>9. PICK R : LogIs(calls, A, R, F)
  BY <1>1 DEF SetStage, A, F
<1>10. /\ AreAssignments(A, schema.columns, OtherColumns) /\ IsList(F, schema.columns, OtherColumns)
       /\ \A i \in 1 .. Len(A) : A[i].col \in schema.updateable
  BY <1>1 DEF SetStage, A, F
<1>11. A = OfColumns(A, schema.updateable)
  BY <1>10, OfColumnsKeeps DEF AreAssignments
<1>12. QueryOk(dialect, schema, q)
  BY <1>4, <1>10 DEF UpdateFromOk, QueryOk
<1>13. Says(schema, q, calls', A, R, F)
  BY <1>3, <1>4, <1>8, <1>11 DEF Says
<1>14. QueryIs(dialect, schema, q, calls')
  BY <1>4, <1>5, <1>7, <1>9, <1>12, <1>13, SaysIsQuery
<1> QED BY <1>7, <1>14

LEMMA DeleteBuilds ==
    ASSUME dialect \in Dialects, schema \in Schemas, BuilderIs(dialect, schema, builder, calls), Delete
    PROVE  /\ BuilderIs(dialect, schema, builder', calls') /\ builder'.stage = "query"
           /\ QueryIs(dialect, schema, query', calls')
<1> DEFINE F == builder.filters
<1>1. calls \in Seq(Range(calls)) /\ DeleteStage(schema, {}, builder, calls)
  BY DEF BuilderIs, Delete, Stage
<1>2. PICK p \in Projections :
         /\ Returnable(p)
         /\ Builds([kind |-> "delete", filters |-> F, returning |-> p], [call |-> "delete", returning |-> p])
  BY DEF Delete
<1> DEFINE q == [kind |-> "delete", filters |-> F, returning |-> p]
           c == [call |-> "delete", returning |-> p]
<1>3. c.call = "delete" /\ c.returning = p
  OBVIOUS
<1>4. q.kind = "delete" /\ q.filters = F /\ q.returning = p
  OBVIOUS
<1>5. c.call \in FinalCalls /\ Builds(q, c)
  BY <1>2, <1>3 DEF FinalCalls
<1> HIDE DEF c, q, F
<1>7. /\ BuilderIs(dialect, schema, builder', calls') /\ builder'.stage = "query"
      /\ query' = q /\ calls' = Append(calls, c) /\ Finishes(calls, c, calls')
  BY ONLY <1>1, <1>5, Built
<1>8. calls'[Len(calls')] = c
  BY <1>7 DEF Finishes
<1>9. LogIs(calls, <<>>, <<>>, F) /\ IsList(F, schema.columns, {}) /\ Apart(<<>>, F, Len(calls))
  BY <1>1 DEF DeleteStage, F
<1>10. IsList(p, schema.columns, {}) /\ IsStatic(p) /\ p \in Seq(Exprs) /\ (dialect = "mysql" => p = <<>>)
  BY <1>2, ReturningIs
<1>11. F \in Seq(Exprs) /\ ClearList(F)
  BY <1>9 DEF IsList, Apart
<1>12. QueryOk(dialect, schema, q)
  BY <1>4, <1>9, <1>10 DEF DeleteOk, QueryOk
<1>13. ClearList(ExprsOf(q))
  BY <1>4, <1>10, <1>11, WithStatic DEF ExprsOf
<1>14. Says(schema, q, calls', <<>>, <<>>, F)
  BY <1>3, <1>4, <1>8 DEF Says
<1>15. QueryIs(dialect, schema, q, calls')
  BY <1>5, <1>7, <1>9, <1>12, <1>13, <1>14, SaysIsQuery
<1> QED BY <1>7, <1>15

LEMMA DeleteUsingBuilds ==
    ASSUME dialect \in Dialects, schema \in Schemas, BuilderIs(dialect, schema, builder, calls), DeleteUsing
    PROVE  /\ BuilderIs(dialect, schema, builder', calls') /\ builder'.stage = "query"
           /\ QueryIs(dialect, schema, query', calls')
<1> DEFINE F == builder.filters
           q == [kind |-> "delete_using", filters |-> F]
           c == [call |-> "delete using"]
<1>1. calls \in Seq(Range(calls)) /\ DeleteStage(schema, OtherColumns, builder, calls)
  BY DEF BuilderIs, DeleteUsing, Stage
<1>2. Builds(q, c)
  BY DEF DeleteUsing
<1>3. c.call = "delete using"
  OBVIOUS
<1>4. q.kind = "delete_using" /\ q.filters = F
  OBVIOUS
<1>5. c.call \in FinalCalls /\ Builds(q, c)
  BY <1>2, <1>3 DEF FinalCalls
<1> HIDE DEF c, q, F
<1>7. /\ BuilderIs(dialect, schema, builder', calls') /\ builder'.stage = "query"
      /\ query' = q /\ calls' = Append(calls, c) /\ Finishes(calls, c, calls')
  BY ONLY <1>1, <1>5, Built
<1>8. calls'[Len(calls')] = c
  BY <1>7 DEF Finishes
<1>9. LogIs(calls, <<>>, <<>>, F) /\ IsList(F, schema.columns, OtherColumns)
  BY <1>1 DEF DeleteStage, F
<1>10. QueryOk(dialect, schema, q)
  BY <1>4, <1>9 DEF DeleteUsingOk, QueryOk
<1>11. Says(schema, q, calls', <<>>, <<>>, F)
  BY <1>3, <1>4, <1>8 DEF Says
<1>12. QueryIs(dialect, schema, q, calls')
  BY <1>4, <1>5, <1>7, <1>9, <1>10, <1>11, SaysIsQuery
<1> QED BY <1>7, <1>12

-----------------------------------------------------------------------------
(* Executions                                                              *)

\* What an execution gives is a table, rows and whether it failed.
IsOutcome(result) ==
    result = [table |-> result.table, returned |-> result.returned, error |-> result.error]

\* What the server answers has the shape of an outcome.
LEMMA OutcomesAre ==
    /\ \A tab : IsOutcome(Failed(tab))
    /\ \A tab, returned : IsOutcome(Done(tab, returned))
BY DEF IsOutcome, Failed, Done

LEMMA PutIs == \A type, tab, rows, p, a : IsOutcome(Put(type, tab, rows, p, a))
BY OutcomesAre DEF Put

LEMMA UpsertIs ==
    \A type, tab, row, keys, revised, alone, p, a :
        IsOutcome(Upsert(type, tab, row, keys, revised, alone, p, a))
BY OutcomesAre, PutIs DEF Upsert

LEMMA ReplaceIs == \A type, tab, new, p, a : IsOutcome(Replace(type, tab, new, p, a))
BY OutcomesAre DEF Replace

LEMMA EraseIs == \A tab, rows, p, a : IsOutcome(Erase(tab, rows, p, a))
BY OutcomesAre DEF Erase

LEMMA RunInsertIs ==
    ASSUME NEW d, NEW type, NEW tab, NEW others, NEW columns, NEW stmt, NEW params
    PROVE  IsOutcome(RunInsert(d, type, tab, others, columns, stmt, params))
BY OutcomesAre, PutIs, UpsertIs DEF RunInsert

LEMMA RunUpdateIs ==
    ASSUME NEW d, NEW type, NEW tab, NEW others, NEW columns, NEW stmt, NEW params,
           NEW result \in RunUpdate(d, type, tab, others, columns, stmt, params)
    PROVE  IsOutcome(result)
BY OutcomesAre, ReplaceIs DEF RunUpdate

LEMMA RunDeleteIs ==
    ASSUME NEW d, NEW type, NEW tab, NEW others, NEW columns, NEW stmt, NEW params
    PROVE  IsOutcome(RunDelete(d, type, tab, others, columns, stmt, params))
BY OutcomesAre, EraseIs DEF RunDelete

LEMMA RunIs ==
    ASSUME NEW d, NEW type, NEW tab, NEW others, NEW columns, NEW stmt, NEW params,
           NEW result \in Run(d, type, tab, others, columns, stmt, params)
    PROVE  IsOutcome(result)
BY OutcomesAre, RunInsertIs, RunUpdateIs, RunDeleteIs DEF Run

\* No assignment reads a column assigned before it, where the backend would see that.
OrderKept(d, q) == q.kind \in {"update", "update_from"} /\ d = "mysql" => ReadsBefore(q.assigns)

\* In a table of the menu an upsert may meet any row: no two agree on a key.
LEMMA TablesSettle ==
    ASSUME NEW type \in Schemas, NEW tab \in Tables, NEW d, NEW q, QueryOk(d, type, q), OrderKept(d, q)
    PROVE  Settled(d, type, q, tab)
<1>1. \A r \in tab : /\ r \in [type.columns -> Range(r)]
                     /\ Storable(type, r)
                     /\ \A other \in tab \ {r} : ~Clash(type, r, other)
  BY TablesAreConsistent
<1>2. \A r \in tab : r = [c \in DOMAIN r |-> r[c]] /\ DOMAIN r = type.columns
  BY <1>1
<1>3. DOMAIN type.keys \subseteq Nat
  BY KeysAreListed, LenProperties
<1>4. Consistent(type, tab)
  BY <1>1, <1>2, <1>3 DEF Consistent
<1>5. ASSUME q.kind \in {"update", "update_from"}
      PROVE  AllInOrder(d, q.assigns, tab)
  <2>1. PICK others : AreAssignments(q.assigns, type.columns, others)
    BY <1>5, KindsAre DEF UpdateOk, UpdateFromOk
  <2>2. q.assigns \in Seq(Settings) /\ ListReads(ValuesOf(q.assigns), type.columns, others)
    BY <2>1 DEF AreAssignments, IsList
  <2>3. ReadsColumns(q.assigns, type.columns)
    BY <2>2, ListReadsEach
  <2>4. d = "mysql" => ReadsBefore(q.assigns)
    BY <1>5 DEF OrderKept
  <2> QED BY <1>2, <2>3, <2>4 DEF AllInOrder, InAnyOrder
<1> QED BY <1>4, <1>5 DEF Settled

\* PostgreSQL's assignments all read the row as it was, whatever the table holds.
LEMMA PostgresSettles ==
    ASSUME NEW type, NEW tab, NEW q
    PROVE  Settled("postgres", type, q, tab)
BY DEF Settled, AllInOrder, InAnyOrder

-----------------------------------------------------------------------------
(* The invariant                                                           *)

\* The stages before a query is built, and those after it was prepared or run.
Early == {"start", "columns", "from", "set", "set from", "write", "delete", "using", "on conflict", "upsert"}
Late == {"prepared", "done", "refused"}

\* What the last execution gave, as the program saw it.
Ran == [table |-> outcome.table, returned |-> outcome.returned, error |-> outcome.error]

\* What is built is what was said, at every stage;
TheBuilder ==
    /\ BuilderIs(dialect, schema, builder, calls)
    /\ builder.stage \in Early \cup {"query"} \cup Late

\* the query is the one of the log, once there is one;
TheQuery == builder.stage \notin Early => QueryIs(dialect, schema, query, calls)

\* a prepared statement is PostgreSQL's and has the binds of its query;
ThePrepared ==
    builder.stage = "prepared" =>
        /\ dialect = "postgres" /\ query.kind \in {"insert", "update", "delete"}
        /\ PreparedOf(dialect, query, prepared)

\* before the first execution the table is one of the menu;
TheTable ==
    /\ dialect \in Dialects /\ schema \in Schemas /\ outcome.run \in Nat
    /\ outcome.run = 0 => table \in Tables
    /\ builder.stage \notin Late => outcome.run = 0

\* and an execution had the effect of the query on the table it found.
TheOutcome ==
    outcome.run > 0 /\ OrderKept(dialect, query) =>
        Effect(dialect, schema, query, outcome.before, OtherRows, outcome.args, Ran)

\* The inductive invariant.
IInv == TheBuilder /\ TheQuery /\ ThePrepared /\ TheTable /\ TheOutcome

\* It holds at first.
LEMMA InitHolds == Init => IInv
<1> SUFFICES ASSUME Init
             PROVE  IInv
  OBVIOUS
<1>1. builder = Idle /\ calls = <<>> /\ builder.stage = "start" /\ IsBuilder(builder)
  BY IdleIs DEF Init
<1>2. calls \in Seq(Range(calls))
  BY <1>1, EmptySeq
<1>3. TheBuilder
  BY <1>1, <1>2 DEF TheBuilder, BuilderIs, Early
<1>4. outcome.run = 0
  BY DEF Init, NotRun
<1>5. TheTable
  BY <1>4 DEF TheTable, Init
<1>6. TheQuery /\ ThePrepared /\ TheOutcome
  BY <1>1, <1>4 DEF TheQuery, ThePrepared, TheOutcome, Early
<1> QED BY <1>3, <1>5, <1>6 DEF IInv

\* The calls that return a builder.
Calls ==
    \/ ToColumns \/ Row \/ Set \/ From \/ SetFrom
    \/ Write \/ Setter \/ OnConflict \/ DoOnConflict
    \/ FromTable \/ Using
    \/ Where \/ All

\* The calls that build a query.
Finalizers == Insert \/ InsertSelect \/ Update \/ UpdateFrom \/ Delete \/ DeleteUsing

\* A call that returns a builder builds no query and runs nothing.
LEMMA CallsStay ==
    ASSUME IsBuilder(builder), Calls
    PROVE  /\ builder.stage \in Early /\ builder'.stage \in Early
           /\ UNCHANGED <<dialect, schema, table, query, prepared, outcome>>
<1>1. UNCHANGED <<dialect, schema, table, query, prepared, outcome>>
  BY DEF Calls, ToColumns, Row, Set, From, SetFrom, Write, Setter, OnConflict, DoOnConflict, FromTable,
         Using, Where, All, Becomes
<1>2. builder.stage \in Early
  BY DEF Calls, ToColumns, Row, Set, From, SetFrom, Write, Setter, OnConflict, DoOnConflict, FromTable,
         Using, Where, All, Stage, Early
<1>3. ASSUME ToColumns \/ Row \/ From \/ Write \/ Setter \/ FromTable \/ Using
      PROVE  builder'.stage \in Early
  BY <1>2, <1>3 DEF ToColumns, Row, From, Write, Setter, FromTable, Using, Becomes, IsBuilder, Early
<1>4. ASSUME Set \/ SetFrom \/ OnConflict
      PROVE  builder'.stage \in Early
  BY <1>4 DEF Set, SetFrom, OnConflict, Becomes, Idle, Early
<1>5. ASSUME DoOnConflict
      PROVE  builder'.stage \in Early
  BY <1>5 DEF DoOnConflict, Becomes, IsBuilder, Early
<1>6. ASSUME Where
      PROVE  builder'.stage \in Early
  <2>1. PICK filters : builder' = [builder EXCEPT !.filters = filters, !.filtered = TRUE]
    BY <1>6 DEF Where, Becomes
  <2>2. builder'.stage = builder.stage
    BY <2>1 DEF IsBuilder
  <2> QED BY <1>2, <2>2
<1>7. ASSUME All
      PROVE  builder'.stage \in Early
  BY <1>7, <1>2 DEF All, Becomes, IsBuilder
<1> QED BY <1>1, <1>2, <1>3, <1>4, <1>5, <1>6, <1>7 DEF Calls

\* Every such call keeps the builder and its log in step.
LEMMA CallsKeep ==
    ASSUME dialect \in Dialects, schema \in Schemas, BuilderIs(dialect, schema, builder, calls), Calls
    PROVE  BuilderIs(dialect, schema, builder', calls')
BY ToColumnsKeeps, RowKeeps, SetKeeps, FromKeeps, SetFromKeeps, WriteKeeps, SetterKeeps, OnConflictKeeps,
   DoOnConflictKeeps, FromTableKeeps, UsingKeeps, WhereKeeps, AllKeeps DEF Calls

LEMMA CallsHold == IInv /\ Calls => IInv'
<1> SUFFICES ASSUME IInv, Calls
             PROVE  IInv'
  OBVIOUS
<1>1. dialect \in Dialects /\ schema \in Schemas /\ BuilderIs(dialect, schema, builder, calls)
  BY DEF IInv, TheTable, TheBuilder
<1>2. /\ builder.stage \in Early /\ builder'.stage \in Early
      /\ UNCHANGED <<dialect, schema, table, query, prepared, outcome>>
  BY <1>1, CallsStay DEF BuilderIs
<1>3. BuilderIs(dialect, schema, builder', calls')
  BY <1>1, CallsKeep
<1>4. TheBuilder'
  BY <1>2, <1>3 DEF TheBuilder
<1>5. TheQuery' /\ ThePrepared'
  BY <1>2 DEF TheQuery, ThePrepared, Early
<1>6. TheTable' /\ TheOutcome'
  BY <1>2 DEF IInv, TheTable, TheOutcome, Ran, Early, Late
<1> QED BY <1>4, <1>5, <1>6 DEF IInv

\* Every finalizer builds the query of its log.
LEMMA FinalizersBuild ==
    ASSUME dialect \in Dialects, schema \in Schemas, BuilderIs(dialect, schema, builder, calls), Finalizers
    PROVE  /\ BuilderIs(dialect, schema, builder', calls') /\ builder'.stage = "query"
           /\ QueryIs(dialect, schema, query', calls')
BY InsertBuilds, InsertSelectBuilds, UpdateBuilds, UpdateFromBuilds, DeleteBuilds, DeleteUsingBuilds
   DEF Finalizers

\* It runs nothing.
LEMMA FinalizersStay ==
    ASSUME Finalizers
    PROVE  builder.stage \in Early /\ UNCHANGED <<dialect, schema, table, prepared, outcome>>
BY DEF Finalizers, Insert, InsertSelect, Update, UpdateFrom, Delete, DeleteUsing, Builds, Stage, Early

LEMMA FinalizersHold == IInv /\ Finalizers => IInv'
<1> SUFFICES ASSUME IInv, Finalizers
             PROVE  IInv'
  OBVIOUS
<1>1. dialect \in Dialects /\ schema \in Schemas /\ BuilderIs(dialect, schema, builder, calls)
  BY DEF IInv, TheTable, TheBuilder
<1>2. builder.stage \in Early /\ UNCHANGED <<dialect, schema, table, prepared, outcome>>
  BY FinalizersStay
<1>3. /\ BuilderIs(dialect, schema, builder', calls') /\ builder'.stage = "query"
      /\ QueryIs(dialect, schema, query', calls')
  BY <1>1, FinalizersBuild
<1>4. TheBuilder' /\ TheQuery' /\ ThePrepared'
  BY <1>2, <1>3 DEF TheBuilder, TheQuery, ThePrepared
<1>5. outcome.run = 0 /\ outcome' = outcome
  BY <1>2 DEF IInv, TheTable, Early, Late
<1>6. TheTable' /\ TheOutcome'
  BY <1>2, <1>5 DEF IInv, TheTable, TheOutcome
<1> QED BY <1>4, <1>6 DEF IInv

LEMMA StuttersHold == IInv /\ UNCHANGED vars => IInv'
BY DEF IInv, TheBuilder, TheQuery, ThePrepared, TheTable, TheOutcome, Ran, vars

\* What is reported is one of the results.
IsReported(args, result) ==
    /\ Ran' = result /\ outcome'.before = table /\ outcome'.args = args
    /\ outcome'.run \in Nat /\ outcome'.run > 0

\* What an execution reports, the program sees.
LEMMA Reported ==
    ASSUME outcome.run \in Nat, NEW args, NEW results, \A result \in results : IsOutcome(result),
           Reports(args, results)
    PROVE  \E result \in results : IsReported(args, result)
<1>1. PICK result \in results :
         outcome' = [args |-> args, before |-> table, table |-> result.table,
                     returned |-> result.returned, error |-> result.error, run |-> outcome.run + 1]
  BY DEF Reports
<1>2. /\ outcome'.args = args /\ outcome'.before = table /\ outcome'.run = outcome.run + 1
      /\ outcome'.table = result.table /\ outcome'.returned = result.returned /\ outcome'.error = result.error
  BY <1>1
<1>3. Ran' = result
  BY <1>2 DEF IsOutcome, Ran
<1>4. outcome'.run \in Nat /\ outcome'.run > 0
  BY <1>2
<1> QED BY <1>2, <1>3, <1>4 DEF IsReported

\* A step of an execution keeps the invariant where its result is the effect of the query.
LEMMA StepHolds ==
    ASSUME IInv, UNCHANGED <<dialect, schema, query, calls>>, builder.stage \notin Early,
           NEW stage \in Late, builder' = [builder EXCEPT !.stage = stage], stage # "prepared",
           NEW args, NEW result, IsReported(args, result),
           OrderKept(dialect, query) => Effect(dialect, schema, query, table, OtherRows, args, result)
    PROVE  IInv'
<1>1. IsBuilder(builder) /\ calls \in Seq(Range(calls))
  BY DEF IInv, TheBuilder, BuilderIs
<1>2. builder'.stage = stage /\ IsBuilder(builder')
  BY <1>1 DEF IsBuilder
<1>3. BuilderIs(dialect, schema, builder', calls')
  BY <1>1, <1>2 DEF BuilderIs, Late
<1>4. TheBuilder' /\ TheQuery' /\ ThePrepared'
  BY <1>2, <1>3 DEF IInv, TheBuilder, TheQuery, ThePrepared
<1>5. TheTable'
  BY <1>2 DEF IInv, TheTable, IsReported
<1>6. TheOutcome'
  BY DEF TheOutcome, IsReported
<1> QED BY <1>4, <1>5, <1>6 DEF IInv

\* execute keeps it,
LEMMA ExecuteHolds == IInv /\ Execute => IInv'
<1> SUFFICES ASSUME IInv, Execute
             PROVE  IInv'
  OBVIOUS
<1> DEFINE text == Render(dialect, "text", query)
           params == Render(dialect, "params", query)
           values == [i \in DOMAIN params.w.binds |-> params.w.binds[i].v]
           results == IF text.w.reject \/ params.w.error THEN {Failed(table)}
                      ELSE Run(dialect, schema, table, OtherRows, OtherColumns, text.stmt, values)
<1>1. /\ builder.stage = "query" /\ ParamsOf(ExprsOf(query)) = <<>> /\ Reports(<<>>, results)
      /\ builder' = [builder EXCEPT !.stage = "done"] /\ UNCHANGED <<dialect, schema, query, calls>>
  BY DEF Execute, Stage, Sent
<1>2. dialect \in Dialects /\ schema \in Schemas /\ outcome.run \in Nat /\ table \in Tables
  BY <1>1 DEF IInv, TheTable, Late
<1>3. QueryOk(dialect, schema, query)
  BY <1>1 DEF IInv, TheQuery, QueryIs, Early
<1>4. dialect \in Known
  BY <1>2, DialectsAreKnown DEF Known
<1>5. ASSUME OrderKept(dialect, query)
      PROVE  \A result \in results : Effect(dialect, schema, query, table, OtherRows, <<>>, result)
  BY <1>2, <1>3, <1>5, TablesSettle, <1>1, <1>4, ExecuteDoes
<1>6. \A result \in results : IsOutcome(result)
  BY OutcomesAre, RunIs
<1> HIDE DEF results
<1>7. PICK result \in results : IsReported(<<>>, result)
  BY <1>1, <1>2, <1>6, Reported
<1>8. OrderKept(dialect, query) => Effect(dialect, schema, query, table, OtherRows, <<>>, result)
  BY <1>5
<1>9. builder.stage \notin Early /\ "done" \in Late
  BY <1>1 DEF Early, Late
<1> QED BY <1>1, <1>7, <1>8, <1>9, StepHolds

\* prepare keeps it,
LEMMA PrepareHolds == IInv /\ Prepare => IInv'
<1> SUFFICES ASSUME IInv, Prepare
             PROVE  IInv'
  OBVIOUS
<1> DEFINE r == Render(dialect, "prepared", query)
<1>1. /\ builder.stage = "query" /\ dialect = "postgres"
      /\ query.kind \in {"insert", "update", "delete"} /\ UNCHANGED <<dialect, schema, query, calls>>
  BY DEF Prepare, Stage
<1>2. outcome.run \in Nat /\ outcome.run = 0 /\ table \in Tables
  BY <1>1 DEF IInv, TheTable, Late
<1>3. QueryOk(dialect, schema, query) /\ QueryIs(dialect, schema, query, calls)
  BY <1>1 DEF IInv, TheQuery, QueryIs, Early
<1>4. builder.stage \notin Early
  BY <1>1 DEF Early
<1>5. CASE r.w.reject \/ r.w.error
  <2> DEFINE results == {Failed(table)}
  <2>1. Reports(<<>>, results) /\ builder' = [builder EXCEPT !.stage = "refused"]
    BY <1>5 DEF Prepare, IntoParts
  <2>2. \A result \in results : IsOutcome(result)
    BY OutcomesAre
  <2>3. Effect(dialect, schema, query, table, OtherRows, <<>>, Failed(table))
    BY <1>3, <1>5, PrepareRefuses
  <2>4. \A result \in results : result = Failed(table)
    OBVIOUS
  <2> HIDE DEF results
  <2>5. PICK result \in results : IsReported(<<>>, result)
    BY <1>2, <2>1, <2>2, Reported
  <2>6. Effect(dialect, schema, query, table, OtherRows, <<>>, result)
    BY <2>3, <2>4
  <2>7. "refused" \in Late /\ "refused" # "prepared"
    BY DEF Late
  <2> QED BY <1>1, <1>4, <2>1, <2>5, <2>6, <2>7, StepHolds
<1>6. CASE ~ (r.w.reject \/ r.w.error)
  <2>1. /\ prepared' = [kind |-> "prepared", stmt |-> r.stmt, params |-> r.w.binds]
        /\ builder' = [builder EXCEPT !.stage = "prepared"] /\ UNCHANGED <<table, outcome>>
    BY <1>6 DEF Prepare, IntoParts
  <2>2. prepared'.stmt = r.stmt /\ prepared'.params = r.w.binds
    BY <2>1
  <2>3. PreparedOf(dialect, query, prepared')
    BY <1>6, <2>2 DEF PreparedOf
  <2>4. IsBuilder(builder) /\ calls \in Seq(Range(calls))
    BY DEF IInv, TheBuilder, BuilderIs
  <2>5. builder'.stage = "prepared" /\ IsBuilder(builder')
    BY <2>1, <2>4 DEF IsBuilder
  <2>6. BuilderIs(dialect, schema, builder', calls')
    BY <1>1, <2>4, <2>5 DEF BuilderIs
  <2>7. TheBuilder'
    BY <1>1, <2>5, <2>6 DEF TheBuilder, Late
  <2>8. TheQuery' /\ ThePrepared'
    BY <1>1, <1>3, <2>3, <2>5 DEF TheQuery, ThePrepared
  <2>9. TheTable' /\ TheOutcome'
    BY <1>1, <1>2, <2>1, <2>5 DEF IInv, TheTable, TheOutcome, Late
  <2> QED BY <2>7, <2>8, <2>9 DEF IInv
<1> QED BY <1>5, <1>6

\* and so does the execution of a prepared statement, however often.
LEMMA ExecutePreparedHolds == IInv /\ ExecutePrepared => IInv'
<1> SUFFICES ASSUME IInv, ExecutePrepared
             PROVE  IInv'
  OBVIOUS
<1>1. builder.stage = "prepared" /\ UNCHANGED <<dialect, schema, builder, query, prepared, calls>>
  BY DEF ExecutePrepared, Stage
<1>2. dialect = "postgres" /\ query.kind \in {"insert", "update", "delete"} /\ PreparedOf(dialect, query, prepared)
  BY <1>1 DEF IInv, ThePrepared
<1>3. QueryOk(dialect, schema, query) /\ Clear(FlattenSeq(ExprsOf(query)))
  BY <1>1, <1>2 DEF IInv, TheQuery, QueryIs, Early, ClearList
<1>4. PICK args : Reports(args, IF \E i \in DOMAIN args : ~Encodes(dialect, args[i])
                                  THEN {Failed(table)}
                                  ELSE Run(dialect, schema, table, OtherRows, OtherColumns, prepared.stmt,
                                           Resolved(prepared.params, args)))
  BY DEF ExecutePrepared
<1> DEFINE results == IF \E i \in DOMAIN args : ~Encodes(dialect, args[i])
                        THEN {Failed(table)}
                        ELSE Run(dialect, schema, table, OtherRows, OtherColumns, prepared.stmt,
                                 Resolved(prepared.params, args))
<1>5. Settled(dialect, schema, query, table) /\ dialect \in Known /\ query.kind # "update_from"
  BY <1>2, PostgresSettles DEF Known
<1>6. \A result \in results : Effect(dialect, schema, query, table, OtherRows, args, result)
  BY <1>2, <1>3, <1>5, ExecutePreparedDoes
<1>7. \A result \in results : IsOutcome(result)
  BY OutcomesAre, RunIs
<1>8. outcome.run \in Nat /\ Reports(args, results)
  BY <1>4 DEF IInv, TheTable
<1> HIDE DEF results
<1>9. PICK result \in results : IsReported(args, result)
  BY <1>7, <1>8, Reported
<1>10. TheBuilder' /\ TheQuery' /\ ThePrepared'
  BY <1>1 DEF IInv, TheBuilder, TheQuery, ThePrepared
<1>11. TheTable'
  BY <1>1, <1>9 DEF IInv, TheTable, IsReported, Late
<1>12. TheOutcome'
  BY <1>1, <1>6, <1>9 DEF TheOutcome, IsReported
<1> QED BY <1>10, <1>11, <1>12 DEF IInv

\* So every step keeps it.
LEMMA NextHolds == IInv /\ [Next]_vars => IInv'
BY CallsHold, FinalizersHold, ExecuteHolds, PrepareHolds, ExecutePreparedHolds, StuttersHold DEF
   Next, Calls, Finalizers

\* What the query does is what the calls mean, so the property follows.
LEMMA EffectFollows == IInv => EffectIsMeaning
<1> SUFFICES ASSUME IInv, outcome.run > 0, ~(dialect = "mysql" /\ ReadsAssigned)
             PROVE  Ran \in Meaning(outcome.before, outcome.args)
  BY DEF EffectIsMeaning, Ran
<1>1. builder.stage \notin Early
  <2>1. builder.stage \in Late
    BY DEF IInv, TheTable
  <2> QED BY <2>1 DEF Early, Late
<1>2. QueryIs(dialect, schema, query, calls)
  BY <1>1 DEF IInv, TheQuery
<1>3. OrderKept(dialect, query)
  BY <1>2, InOrder DEF OrderKept
<1>4. Effect(dialect, schema, query, outcome.before, OtherRows, outcome.args, Ran)
  BY <1>3 DEF IInv, TheOutcome
<1> QED BY <1>2, <1>4, EffectIsMeant

\* Whatever calls a program chains (query.rs and the generated write builders), whichever backend
\* renders and binds the query (render.rs and the backends' query objects), at once or prepared and
\* executed again, the table and the rows returned are those that the calls mean, or the statement
\* fails and changes nothing.  The exception is MySQL's SET list that reads a column it assigned.
THEOREM EffectIsWhatIsMeant == Spec => []EffectIsMeaning
BY InitHolds, NextHolds, EffectFollows, PTL DEF Spec
=============================================================================
