---------------------------- MODULE MCMemberPoints ----------------------------
(***************************************************************************)
(* Two order items, reviewed by their member while an admin pays, gives    *)
(* and takes points, and one order of his with its cancel.                 *)
(***************************************************************************)
EXTENDS MemberPoints, TLC

CONSTANTS w1, w2, a, b, o1

Symmetry == Permutations(Workers) \union Permutations(OrderItems)
=============================================================================
