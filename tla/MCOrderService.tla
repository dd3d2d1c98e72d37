--------------------------- MODULE MCOrderService ---------------------------
(***************************************************************************)
(* Values for the constants of OrderService: the ratings of Rating.java,   *)
(* for orders above the SILVER amount.                                     *)
(***************************************************************************)
EXTENDS OrderService, TLC

CONSTANTS m1, m2, c1

MCPercent == 0 :> 1 @@ 1 :> 2 @@ 2 :> 3 @@ 3 :> 5
MCThreshold == 0 :> 0 @@ 1 :> 100000 @@ 2 :> 500000 @@ 3 :> 1000000
Symmetry ==
    Permutations(Workers) \union Permutations(Members) \union Permutations(Orders)

MCOwner == [c \in Coupons |-> m1]
=============================================================================
