--------------------------- MODULE MCCteCollect ---------------------------
(* CteCollect for TLC: every graph of three definitions with up to two references each. *)
EXTENDS CteCollect, TLC

CONSTANTS c1, c2, c3, n1, n2, n3

ThreeCtes == {c1, c2, c3}
ThreeNames == {n1, n2, n3}

UpTo(n) == UNION {[1 .. k -> ThreeCtes] : k \in 0 .. n}

AllBodies == [ThreeCtes -> UpTo(2)]

\* The names all different, or two of them the same.
SomeNamings == {c1 :> n1 @@ c2 :> n2 @@ c3 :> n3, c1 :> n1 @@ c2 :> n1 @@ c3 :> n3}

SomeRecursives == {{}, {c1}, {c1, c3}}

\* A select with two references, and set operations of two arms.
SomeQueries == {<<<<c1, c2>>>>, <<<<c3>>>>, <<<<c1>>, <<c2>>>>, <<<<c2>>, <<c3, c1>>>>}
=============================================================================
