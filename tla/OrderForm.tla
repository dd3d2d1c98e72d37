------------------------------- MODULE OrderForm -------------------------------
(***************************************************************************)
(* The amounts of the order page (order.js): what a member chooses, what   *)
(* the page shows and charges, what it posts, and what the stored order    *)
(* says was paid (OrderResponse).                                          *)
(*                                                                         *)
(* The page is one object for as long as the shop is open: init sets the   *)
(* amounts of the new basket and leaves the discount, the points and the   *)
(* form of the checkout before.  The answer with the member's data empties *)
(* the form when it arrives, the answer with the coupons fills the select, *)
(* in either order and after the member may have chosen.  A request that   *)
(* fails leaves the shop for the login.                                    *)
(***************************************************************************)
EXTENDS Integers, FiniteSets, Sequences, SequencesExt

CONSTANTS
    Baskets,      \* what may be ordered: the prices [ori, sale] of its rows
    Coupons,      \* coupons of the member
    CouponData,   \* the event of a coupon: [amount, ratio, min]
    NoCoupon,     \* the empty option
    Typed,        \* what may be typed as points, in a field that takes any text
    Points,       \* points of the member
    MaxCheckouts  \* bound: times the order page is opened

ASSUME OrderFormAssumption ==
    /\ Baskets \subseteq [ori: Nat, sale: Nat]
    /\ CouponData \in [Coupons -> [amount: Nat, ratio: Nat, min: Nat]]
    /\ NoCoupon \notin Coupons
    /\ Typed \subseteq Int /\ Points \in Nat /\ MaxCheckouts \in Nat

VARIABLES
    open,      \* is the order page the one that is shown
    left,      \* has the shop been left for the login
    order,     \* its amounts: orderAmount, itemDiscounted, shippingFee
    couponDiscounted, pointUsed, payAmount,
    select,    \* couponBox: its options, whether it has the empty one, its value
    usePoints, \* the field of the points
    usable,    \* the points the page says may be used
    known,     \* coupons the page has the data of
    asked,     \* answers under way: how many of the member's data, and those of
               \* the coupons with the coupons that were used when they were asked for
    used,      \* coupons of stored orders
    orders,    \* orders stored, in order
    opened,    \* times the page was opened
    doubts     \* history, what the page holds from before: a choice ("pay"), a
               \* use of "points", a "coupon", a "list" of coupons

amountVars == <<order, couponDiscounted, pointUsed, payAmount>>
formVars == <<select, usePoints, usable, known>>
vars == <<open, left, amountVars, formVars, asked, used, orders, opened, doubts>>

NoAmounts == [orderAmount |-> 0, itemDiscounted |-> 0, shippingFee |-> 0]

(* CouponSetResponse: a ratio coupon comes with its ratio and no amount. *)
CouponSetResponse(c) ==
    LET d == CouponData[c]
    IN  [couponType |-> IF d.amount > 0 THEN "AMOUNT" ELSE IF d.ratio > 0 THEN "RATIO" ELSE "",
         amount |-> d.amount, minAmount |-> IF d.amount > 0 THEN d.min ELSE 0]

-----------------------------------------------------------------------------
Init ==
    /\ open = FALSE /\ left = FALSE
    /\ order = NoAmounts
    /\ couponDiscounted = 0 /\ pointUsed = 0 /\ payAmount = 0
    /\ select = [options |-> {}, blank |-> FALSE, value |-> NoCoupon]
    /\ usePoints = 0 /\ usable = 0
    /\ known = {}
    /\ asked = [info |-> 0, coupons |-> <<>>]
    /\ used = {}
    /\ orders = <<>>
    /\ opened = 0
    /\ doubts = {}

-----------------------------------------------------------------------------
ShippingFee(sale) == IF sale < 70000 THEN 2500 ELSE 0

(* setCartItems. *)
Amounts(b) == [orderAmount |-> b.sale + ShippingFee(b.sale),
               itemDiscounted |-> b.ori - b.sale,
               shippingFee |-> ShippingFee(b.sale)]

(* init: "pay" says that the amount to pay ignores what was chosen before, *)
(* "list" that a list of coupons asked for before may still arrive.        *)
NewOrder(b) ==
    /\ ~open /\ ~left /\ opened < MaxCheckouts
    /\ open' = TRUE
    /\ opened' = opened + 1
    /\ order' = Amounts(b)
    /\ payAmount' = order'.orderAmount
    /\ asked' = [info |-> asked.info + 1, coupons |-> Append(asked.coupons, used)]
    /\ doubts' = (doubts \ {"list"})
                    \union (IF couponDiscounted # 0 \/ pointUsed # 0 THEN {"pay"} ELSE {})
                    \union (IF asked.coupons # <<>> THEN {"list"} ELSE {})
    /\ UNCHANGED <<left, couponDiscounted, pointUsed, formVars, used, orders>>

(* Another page is shown instead. *)
Leave ==
    /\ open
    /\ open' = FALSE
    /\ UNCHANGED <<left, amountVars, formVars, asked, used, orders, opened, doubts>>

(* An answer of the two that fails, or an order that is not stored, whose  *)
(* payment is paid back: what was open and under way is gone.              *)
GoToLogin ==
    /\ open \/ asked.info > 0 \/ asked.coupons # <<>>
    /\ left' = TRUE /\ open' = FALSE
    /\ asked' = [info |-> 0, coupons |-> <<>>]
    /\ UNCHANGED <<amountVars, formVars, used, orders, opened, doubts>>

(* clearForm: the empty option is the one left. *)
EmptySelect == [options |-> {}, blank |-> TRUE, value |-> NoCoupon]

(* loadOrderInfo's done: clearForm, and the points.  "points" says that    *)
(* the field no longer holds what was taken off, "coupon" that the select  *)
(* does not hold what the discount is of.                                  *)
ShowOrderInfo ==
    /\ asked.info > 0
    /\ asked' = [asked EXCEPT !.info = @ - 1]
    /\ select' = EmptySelect
    /\ usePoints' = 0
    /\ usable' = Points
    /\ doubts' = doubts \union (IF pointUsed # 0 THEN {"points"} ELSE {})
                        \union (IF couponDiscounted # 0 THEN {"coupon"} ELSE {})
    /\ UNCHANGED <<open, left, amountVars, known, used, orders, opened>>

ListsUsed(U) == Coupons  \* mutant: the page does not look at usedYn

Unused(U) == Coupons \ U

Choosable == select.options \union (IF select.blank THEN {NoCoupon} ELSE {})

(* Is one of the options selected. *)
Selected == select.value \in Choosable

(* loadCoupons' done appends the coupons that were not used when the list  *)
(* was read; when options come into a select of which none is selected, a  *)
(* browser selects the first one, and no change is reported.               *)
ShowCoupons(k, U) ==
    /\ asked.coupons[k] \subseteq U /\ U \subseteq used
    /\ asked' = [asked EXCEPT !.coupons = RemoveAt(@, k)]
    /\ LET cs == Unused(U)
           preselects == ~Selected /\ cs # {}
       IN  /\ known' = known \union cs
           /\ \E first \in IF preselects THEN select.options \union cs ELSE {select.value} :
                 select' = [select EXCEPT !.options = @ \union cs, !.value = first]
           /\ doubts' = IF preselects THEN doubts \union {"coupon"} ELSE doubts
    /\ UNCHANGED <<open, left, amountVars, usePoints, usable, used, orders, opened>>

-----------------------------------------------------------------------------
AmountOf(c) == IF c \in known THEN CouponSetResponse(c).amount ELSE 0

IsRejected(c, before) ==
    c \in known /\ CouponSetResponse(c).couponType = "AMOUNT"
                /\ before < CouponSetResponse(c).minAmount

(* A ratio is applied to amount, which a ratio coupon does not have. *)
Discounted(c, before) ==
    IF c \in known /\ CouponSetResponse(c).couponType = "RATIO"
       THEN (before * CouponSetResponse(c).amount) \div 100
       ELSE AmountOf(c)

CouponIgnoresPoints(c) ==  \* mutant: the points come back when a coupon is chosen
    /\ couponDiscounted' = Discounted(c, order.orderAmount)
    /\ payAmount' = order.orderAmount - couponDiscounted'

DiscountStays(c) ==  \* mutant: no coupon sets no discount
    /\ couponDiscounted' = IF c = NoCoupon THEN couponDiscounted ELSE Discounted(c, 0)
    /\ payAmount' = order.orderAmount - pointUsed - couponDiscounted'

(* couponBox's change. *)
TakeCoupon(c) ==
    /\ couponDiscounted' = Discounted(c, order.orderAmount - pointUsed)
    /\ payAmount' = order.orderAmount - pointUsed - couponDiscounted'

ChooseCoupon(c) ==
    /\ open
    /\ c \in Choosable /\ c # select.value
    /\ ~IsRejected(c, order.orderAmount - pointUsed)
    /\ select' = [select EXCEPT !.value = c]
    /\ TakeCoupon(c)
    /\ doubts' = doubts \ {"coupon", "pay"}
    /\ UNCHANGED <<open, left, order, pointUsed, usePoints, usable, known, asked, used, orders, opened>>

(* Below its minimum a coupon is put back to the empty option, or to none  *)
(* if there is no empty one, and the discount of the coupon that was       *)
(* chosen before stays.                                                    *)
RejectCoupon(c) ==
    /\ open
    /\ c \in Choosable /\ c # select.value
    /\ IsRejected(c, order.orderAmount - pointUsed)
    /\ select' = [select EXCEPT !.value = NoCoupon]
    /\ doubts' = IF couponDiscounted # 0 THEN doubts \union {"coupon"} ELSE doubts
    /\ UNCHANGED <<open, left, amountVars, usePoints, usable, known, asked, used, orders, opened>>

AtMost(a, b) == IF a > b THEN b ELSE a

ItemsAmount == order.orderAmount - couponDiscounted - order.shippingFee

NoLimit(p) == p  \* mutant: the points may cover what is to be paid

(* The points leave one won of the items to pay, whatever the sign of the  *)
(* amount that is left.                                                    *)
Limited(p) == IF p >= ItemsAmount THEN ItemsAmount - 1 ELSE p

(* usePoints' change. *)
ChoosePoints(p) ==
    /\ open
    /\ LET n == Limited(AtMost(p, usable))
       IN  /\ usePoints' = n
           /\ pointUsed' = n
           /\ payAmount' = order.orderAmount - couponDiscounted - n
    /\ doubts' = doubts \ {"points", "pay"}
    /\ UNCHANGED <<open, left, order, couponDiscounted, select, usable, known, asked, used, orders, opened>>

-----------------------------------------------------------------------------
(* exec, with the order request the server stores. *)
OrderRequest ==
    [totalAmount |-> order.orderAmount + order.itemDiscounted,
     itemDiscounted |-> order.itemDiscounted,
     couponDiscounted |-> couponDiscounted,
     usedPoints |-> usePoints,
     coupon |-> select.value,
     paid |-> payAmount,
     items |-> order.orderAmount - order.shippingFee,
     again |-> opened > 1,
     doubts |-> doubts \union (IF asked.info > 0 THEN {"list"} ELSE {})]

(* A select of which nothing is selected posts no coupon id, which the     *)
(* controller fails on; used points below zero are no order.               *)
Accepted == Selected /\ usePoints >= 0

(* The payment is made and the order stored. *)
Exec ==
    /\ open
    /\ Accepted
    /\ orders' = Append(orders, OrderRequest)
    /\ used' = used \union ({select.value} \ {NoCoupon})
    /\ open' = FALSE
    /\ UNCHANGED <<left, amountVars, formVars, asked, opened, doubts>>

Next ==
    \/ \E b \in Baskets : NewOrder(b)
    \/ Leave
    \/ GoToLogin
    \/ ShowOrderInfo
    \/ \E k \in DOMAIN asked.coupons, U \in SUBSET used : ShowCoupons(k, U)
    \/ \E c \in Coupons \union {NoCoupon} : ChooseCoupon(c) \/ RejectCoupon(c)
    \/ \E p \in Typed : ChoosePoints(p)
    \/ Exec

Spec == Init /\ [][Next]_vars

-----------------------------------------------------------------------------
Stored == {orders[k] : k \in DOMAIN orders}

(* OrderResponse.of. *)
PayAmountShown(o) == o.totalAmount - o.usedPoints - o.couponDiscounted - o.itemDiscounted

(* What the order says was paid is what was paid, except where the page    *)
(* was opened again with a choice of the last checkout and nothing was     *)
(* chosen since, or the form was emptied under points that were chosen.    *)
PaidAsRecorded ==
    \A o \in Stored : o.doubts \cap {"pay", "points"} = {} => PayAmountShown(o) = o.paid

(* The discount of an order is that of the coupon it uses up, nothing for  *)
(* a ratio coupon, except where the coupon was selected by the browser or  *)
(* emptied out of the select or put back by the page under a discount.     *)
DiscountOfItsCoupon ==
    \A o \in Stored : "coupon" \notin o.doubts =>
        o.couponDiscounted = IF o.coupon = NoCoupon THEN 0 ELSE CouponData[o.coupon].amount

(* A page orders with a coupon once, unless its select still holds what a  *)
(* checkout before has put into it: the member's data is not there yet, or *)
(* a list of coupons arrived after the one it was asked for.               *)
CouponOncePerPage ==
    \A k, l \in DOMAIN orders :
        k < l /\ orders[k].coupon = orders[l].coupon /\ orders[l].coupon # NoCoupon
            => "list" \in orders[l].doubts

(* An event's form asks for no minimum above the amount. *)
Generous(c) == CouponData[c].amount > 0 /\ CouponData[c].amount >= CouponData[c].min

(* The first order of a page costs something, unless its discount is that  *)
(* of a coupon worth all it asks for, and takes no more points than the    *)
(* member has and none below zero, whatever was typed before.              *)
ChargeIsSound ==
    \A o \in Stored : ~o.again =>
        /\ o.paid > 0 \/ \E c \in Coupons : Generous(c) /\ o.couponDiscounted = CouponData[c].amount
        /\ o.usedPoints \in 0..Points
=============================================================================
