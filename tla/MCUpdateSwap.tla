---------------------------- MODULE MCUpdateSwap ----------------------------
(* Instances of UpdateSwap for TLC.                                        *)
EXTENDS UpdateSwap, TLC

CONSTANTS i1, i2, i3, i4, u1, u2, c1, c2

\* No property tells files or connections apart.
Symm == Permutations({i1, i2, i3, i4}) \union Permutations({c1, c2})
=============================================================================
