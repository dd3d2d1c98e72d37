--------------------------- MODULE MCDeliveryItems ---------------------------
(***************************************************************************)
(* One order of two pieces of an item, a second delivery added later.      *)
(***************************************************************************)
EXTENDS DeliveryItems, TLC

CONSTANTS w1, w2

Symmetry == Permutations(Workers)
=============================================================================
