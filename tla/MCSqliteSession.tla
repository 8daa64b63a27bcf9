-------------------------- MODULE MCSqliteSession --------------------------
(* SqliteSession for TLC: model values and their symmetry. *)
EXTENDS SqliteSession, TLC

CONSTANTS t1, t2, m1, m2

TwoTxs == {t1, t2}
OneTx == {t1}
OneStmt == {m1}
TwoStmts == {m1, m2}
\* Transactions and statements are interchangeable: no definition names one.
Symmetry == Permutations(Txs) \cup Permutations(Stmts)
=============================================================================
