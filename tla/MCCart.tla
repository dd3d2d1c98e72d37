------------------------------- MODULE MCCart --------------------------------
(***************************************************************************)
(* Two tabs, of one member or of two.  Members and tabs are symmetric.     *)
(***************************************************************************)
EXTENDS Cart, TLC

CONSTANTS t1, t2, m1, m2

Symmetry == Permutations(Tabs) \union Permutations(Members)
=============================================================================
