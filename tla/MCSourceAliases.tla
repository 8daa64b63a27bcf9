-------------------------- MODULE MCSourceAliases --------------------------
(***************************************************************************)
(* SourceAliases with few chains.  The ones other than Root are alike.     *)
(***************************************************************************)
EXTENDS SourceAliases, TLC

CONSTANTS c0, c1, c2, c3, c4

FewChains == {c0, c1, c2, c3}
MoreChains == {c0, c1, c2, c3, c4}
OneHandle == {"innermost", "single"}
CapturedHandle == {"captured"}

Alike == Permutations({c1, c2, c3, c4})
AlikeFew == Permutations({c1, c2, c3})

=============================================================================
