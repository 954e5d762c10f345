---------------------------- MODULE MCAllowanceCache ----------------------------
(* AllowanceCache with three tokens, two of them of the market at a time. *)
EXTENDS AllowanceCache

CONSTANTS t1, t2, t3

ThreeTokens == {t1, t2, t3}
=============================================================================
