---------------------------- MODULE MCItemDisplays ----------------------------
(***************************************************************************)
(* Two masters, two listings at a time.                                    *)
(***************************************************************************)
EXTENDS ItemDisplays, TLC

CONSTANTS a, b, w1, w2

Symmetry == Permutations({a, b}) \union Permutations({w1, w2})
=============================================================================
