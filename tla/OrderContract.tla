---------------------------- MODULE OrderContract ----------------------------
(***************************************************************************)
(* What the shop promises a customer for each of his orders: no order      *)
(* without money, a live order keeps the money and gives its points once,  *)
(* and the whole of a cancel - the row, the points and the refund, if the  *)
(* payment gateway does not fail - happens at a single moment.             *)
(* OrderService implements it (ImplementsContract).                        *)
(***************************************************************************)
CONSTANT Orders

VARIABLES
    money,  \* what became of the payment
    order,  \* the order
    points  \* what became of the points it earns or spends

vars == <<money, order, points>>

Init ==
    /\ money = [o \in Orders |-> "none"]
    /\ order = [o \in Orders |-> "none"]
    /\ points = [o \in Orders |-> "none"]

Pay(o) ==
    /\ money[o] = "none"
    /\ money' = [money EXCEPT ![o] = "paid"]
    /\ UNCHANGED <<order, points>>

Place(o) ==
    /\ order[o] = "none" /\ money[o] = "paid"
    /\ order' = [order EXCEPT ![o] = "live"]
    /\ points' = [points EXCEPT ![o] = "placed"]
    /\ UNCHANGED money

Refunded(o) == money' = [money EXCEPT ![o] = "cancelled"]

(* An order that could not be stored, or a refund that failed at first. *)
Refund(o) ==
    /\ order[o] # "live" /\ money[o] = "paid"
    /\ Refunded(o)
    /\ UNCHANGED <<order, points>>

Cancel(o) ==
    /\ order[o] = "live"
    /\ order' = [order EXCEPT ![o] = "cancelled"]
    /\ points' = [points EXCEPT ![o] = "reversed"]
    /\ Refunded(o) \/ UNCHANGED money

Next == \E o \in Orders : Pay(o) \/ Place(o) \/ Refund(o) \/ Cancel(o)

Spec == Init /\ [][Next]_vars
=============================================================================
