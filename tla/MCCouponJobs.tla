---------------------------- MODULE MCCouponJobs ----------------------------
(***************************************************************************)
(* One event: a coupon for one day, or a discount that ends a day later.   *)
(***************************************************************************)
EXTENDS CouponJobs, TLC

CONSTANTS m1, m2, m3

OneDay(d) == [type |-> "COUPON", on |-> TRUE, start |-> d, end |-> d]
Discount(d) == [OneDay(d) EXCEPT !.type = "DISCOUNT_PRODUCT", !.end = d + 1]
FromDay1 == {OneDay(1), Discount(1)}
OnDay1 == {OneDay(1)}
Symmetry == Permutations(Members)
=============================================================================
