----------------------------- MODULE MCOrderForm ------------------------------
(***************************************************************************)
(* A basket with and one without a shipping fee and one at a discount of   *)
(* all its price, a coupon the small basket does not reach, one that       *)
(* covers all its items, one without a minimum, and a ratio coupon; points *)
(* below zero, few and more than there are.                                *)
(***************************************************************************)
EXTENDS OrderForm

MCBaskets == {[ori |-> 25000, sale |-> 20000], [ori |-> 80000, sale |-> 70000],
              [ori |-> 10000, sale |-> 0]}

MCCoupons == {"big", "covering", "free", "tenth"}

MCTyped == {-40000, 0, 1000, 30000}

MCCouponData ==
    [c \in MCCoupons |->
        CASE c = "big" -> [amount |-> 5000, ratio |-> 0, min |-> 50000]
          [] c = "covering" -> [amount |-> 21000, ratio |-> 0, min |-> 22000]
          [] c = "free" -> [amount |-> 30000, ratio |-> 0, min |-> 0]
          [] c = "tenth" -> [amount |-> 0, ratio |-> 10, min |-> 0]]
=============================================================================
