------------------------- MODULE MCPostgresSession -------------------------
(* PostgresSession for TLC: model values. *)
EXTENDS PostgresSession

CONSTANTS t1, t2, w1, r1

TwoTxs == {t1, t2}
OneTx == {t1}
OneWrite == {w1}
OneRead == {r1}
=============================================================================
