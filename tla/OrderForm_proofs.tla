--------------------------- MODULE OrderForm_proofs ---------------------------
(***************************************************************************)
(* PaidAsRecorded, DiscountOfItsCoupon, CouponOncePerPage and ChargeIsSound *)
(* for any baskets, coupons and points, and any number of checkouts.       *)
(*                                                                         *)
(* The argument: as long as the history does not doubt it, the amount to   *)
(* pay is what the page holds as discount and points, and the discount is  *)
(* that of the coupon in the select.  While the page is open no coupon     *)
(* gets used, so a select that was emptied and filled since holds unused   *)
(* ones.  Of its first opening the page never takes more off than the      *)
(* items leave.  That the points are not below zero is the server's doing, *)
(* which stores no such order.                                             *)
(***************************************************************************)
EXTENDS OrderForm, SequenceTheorems, TLAPS

Doubts == {"pay", "points", "coupon", "list"}

Amount == [orderAmount: Int, itemDiscounted: Int, shippingFee: Int]

Select == [options: SUBSET Coupons, blank: BOOLEAN, value: Coupons \union {NoCoupon}]

Order == [totalAmount: Int, itemDiscounted: Int, couponDiscounted: Int, usedPoints: Int,
          coupon: Coupons \union {NoCoupon}, paid: Int, items: Int, again: BOOLEAN,
          doubts: SUBSET Doubts]

Types ==
    /\ open \in BOOLEAN
    /\ order \in Amount
    /\ couponDiscounted \in Int /\ pointUsed \in Int /\ payAmount \in Int
    /\ select \in Select
    /\ usePoints \in Int /\ usable \in Nat
    /\ known \subseteq Coupons
    /\ asked \in [info: Nat, coupons: Seq(SUBSET Coupons)]
    /\ used \subseteq Coupons
    /\ orders \in Seq(Order)
    /\ opened \in Nat
    /\ doubts \subseteq Doubts

(* What the page will pay is what its order will say. *)
PaysAsHeld ==
    /\ "pay" \notin doubts => payAmount = order.orderAmount - pointUsed - couponDiscounted
    /\ "points" \notin doubts => usePoints = pointUsed

(* The discount is the amount of a coupon, of the selected one unless it   *)
(* is doubted; the page knows the coupons it offers.                       *)
AmountOfCoupon(c) == IF c = NoCoupon THEN 0 ELSE CouponData[c].amount

DiscountHeld ==
    /\ select.options \subseteq known
    /\ select.value \in known \union {NoCoupon}
    /\ "coupon" \notin doubts => couponDiscounted = AmountOfCoupon(select.value)
    /\ \E c \in Coupons \union {NoCoupon} : couponDiscounted = AmountOfCoupon(c)

(* A list that was asked for by the page that is open is of the coupons    *)
(* that are used now; what it has filled into an emptied select is unused. *)
UnusedOffered ==
    open /\ "list" \notin doubts =>
        /\ \A k \in DOMAIN asked.coupons : asked.coupons[k] = used
        /\ asked.info = 0 => (select.options \union {select.value}) \cap used = {}

(* Coupons of stored orders are used. *)
UsedByOrders ==
    \A k \in DOMAIN orders : orders[k].coupon # NoCoupon => orders[k].coupon \in used

ItemsOfOrder == order.orderAmount - order.shippingFee

(* The discount is that of a coupon worth all it asks for. *)
Outdone == \E c \in Coupons : Generous(c) /\ couponDiscounted = CouponData[c].amount

(* The points never exceed those of the member; of the first checkout less *)
(* is taken off than the order amount, unless a coupon worth all it asks   *)
(* for does.                                                               *)
FirstCharge ==
    /\ usable <= Points /\ usePoints <= Points
    /\ open => opened >= 1
    /\ opened = 0 => pointUsed = 0
    /\ opened = 1 =>
        /\ payAmount > 0 \/ Outdone
        /\ order.orderAmount > 0 /\ ItemsOfOrder >= 0 /\ order.shippingFee >= 0
        /\ pointUsed < order.orderAmount

IInv ==
    /\ Types /\ PaysAsHeld /\ DiscountHeld /\ UnusedOffered /\ UsedByOrders /\ FirstCharge
    /\ PaidAsRecorded /\ DiscountOfItsCoupon /\ CouponOncePerPage /\ ChargeIsSound

-----------------------------------------------------------------------------
(* A sequence without one of its entries. *)
LEMMA RemovedEntry ==
    ASSUME NEW S, NEW s \in Seq(S), NEW k \in DOMAIN s
    PROVE  RemoveAt(s, k) \in Seq(S)
<1>1. SubSeq(s, 1, k - 1) \in Seq(S) /\ SubSeq(s, k + 1, Len(s)) \in Seq(S)
  BY SubSeqProperties
<1> QED
  BY <1>1, ConcatProperties DEF RemoveAt

(* The data of a coupon. *)
LEMMA CouponValues ==
    ASSUME NEW c \in Coupons
    PROVE  /\ CouponData[c].amount \in Nat /\ CouponData[c].min \in Nat
           /\ AmountOfCoupon(c) = CouponData[c].amount
<1>1. CouponData[c] \in [amount: Nat, ratio: Nat, min: Nat] /\ c # NoCoupon
  BY OrderFormAssumption
<1> QED
  BY <1>1 DEF AmountOfCoupon

LEMMA AmountNat ==
    ASSUME NEW c \in Coupons \union {NoCoupon}
    PROVE  AmountOfCoupon(c) \in Nat
  BY CouponValues DEF AmountOfCoupon

(* A ratio coupon discounts nothing, since its amount is 0. *)
LEMMA DiscountedAmount ==
    ASSUME Types, NEW c \in known \union {NoCoupon}, NEW before \in Int
    PROVE  Discounted(c, before) = AmountOfCoupon(c)
<1>1. CASE c = NoCoupon
  <2>1. c \notin known
    BY <1>1, OrderFormAssumption DEF Types
  <2> QED
    BY <1>1, <2>1 DEF Discounted, AmountOf, AmountOfCoupon
<1>2. CASE c # NoCoupon
  <2> DEFINE d == CouponData[c]
  <2>1. c \in known /\ c \in Coupons
    BY <1>2 DEF Types
  <2>2. d.amount \in Nat /\ AmountOfCoupon(c) = d.amount
    BY <2>1, CouponValues
  <2>3. /\ CouponSetResponse(c).amount = d.amount
        /\ CouponSetResponse(c).couponType = "RATIO" => d.amount = 0
    BY <2>2 DEF CouponSetResponse
  <2> HIDE DEF d
  <2>4. CASE CouponSetResponse(c).couponType = "RATIO"
    <3>1. Discounted(c, before) = (before * 0) \div 100
      BY <2>1, <2>3, <2>4 DEF Discounted
    <3>2. (before * 0) \div 100 = 0
      OBVIOUS
    <3> QED
      BY <2>2, <2>3, <2>4, <3>1, <3>2
  <2>5. CASE CouponSetResponse(c).couponType # "RATIO"
    BY <2>1, <2>2, <2>3, <2>5 DEF Discounted, AmountOf
  <2> QED
    BY <2>4, <2>5
<1> QED
  BY <1>1, <1>2

(* A coupon that is not rejected takes less than the amount it is for, or  *)
(* is worth all it asks for.                                               *)
LEMMA AcceptedCoupon ==
    ASSUME Types, NEW c \in known \union {NoCoupon}, NEW before \in Int, before > 0,
           ~IsRejected(c, before)
    PROVE  \/ AmountOfCoupon(c) < before
           \/ c \in Coupons /\ Generous(c) /\ AmountOfCoupon(c) = CouponData[c].amount
<1>1. CASE c = NoCoupon
  BY <1>1 DEF AmountOfCoupon
<1>2. CASE c # NoCoupon
  <2>1. c \in known /\ c \in Coupons
    BY <1>2 DEF Types
  <2>2. /\ CouponData[c].amount \in Nat /\ CouponData[c].min \in Nat
        /\ AmountOfCoupon(c) = CouponData[c].amount
    BY <2>1, CouponValues
  <2>3. CouponData[c].amount > 0 => before >= CouponData[c].min
    BY <2>1, <2>2 DEF IsRejected, CouponSetResponse
  <2> QED
    BY <2>1, <2>2, <2>3 DEF Generous
<1> QED
  BY <1>1, <1>2

(* What the page offers it knows. *)
LEMMA ChoosableKnown ==
    ASSUME IInv, NEW c \in Choosable
    PROVE  c \in known \union {NoCoupon}
  BY DEF IInv, DiscountHeld, Choosable

(* What is said of stored orders is kept by what stores none. *)
LEMMA NothingStored ==
    ASSUME IInv, UNCHANGED <<used, orders>>
    PROVE  /\ UsedByOrders' /\ PaidAsRecorded' /\ DiscountOfItsCoupon'
           /\ CouponOncePerPage' /\ ChargeIsSound'
<1>1. UsedByOrders' /\ CouponOncePerPage'
  BY DEF IInv, UsedByOrders, CouponOncePerPage
<1>2. Stored' = Stored
  BY DEF Stored
<1>3. PaidAsRecorded' /\ DiscountOfItsCoupon' /\ ChargeIsSound'
  BY <1>2 DEF IInv, PaidAsRecorded, DiscountOfItsCoupon, ChargeIsSound
<1> QED
  BY <1>1, <1>3

-----------------------------------------------------------------------------
LEMMA InitIInv == Init => IInv
<1> SUFFICES ASSUME Init PROVE IInv
  OBVIOUS
<1>1. Types
  <2>1. order \in Amount /\ select \in Select
    BY DEF Init, Amount, NoAmounts, Select
  <2>2. <<>> \in Seq(SUBSET Coupons) /\ <<>> \in Seq(Order)
    OBVIOUS
  <2>3. asked \in [info: Nat, coupons: Seq(SUBSET Coupons)]
    BY <2>2 DEF Init
  <2>4. orders \in Seq(Order)
    BY <2>2 DEF Init
  <2>5. /\ open \in BOOLEAN /\ known \subseteq Coupons
        /\ used \subseteq Coupons /\ doubts \subseteq Doubts
    BY DEF Init
  <2>6. /\ couponDiscounted \in Int /\ pointUsed \in Int /\ payAmount \in Int
        /\ usePoints \in Int /\ usable \in Nat /\ opened \in Nat
    BY DEF Init
  <2> QED
    BY <2>1, <2>3, <2>4, <2>5, <2>6 DEF Types
<1>2. PaysAsHeld
  BY DEF Init, PaysAsHeld, NoAmounts
<1>3. DiscountHeld
  BY DEF Init, DiscountHeld, AmountOfCoupon
<1>4. UnusedOffered
  BY DEF Init, UnusedOffered
<1>5. FirstCharge
  BY OrderFormAssumption DEF Init, FirstCharge
<1>6. UsedByOrders /\ CouponOncePerPage
  BY DEF Init, UsedByOrders, CouponOncePerPage
<1>7. Stored = {}
  BY DEF Init, Stored
<1>8. PaidAsRecorded /\ DiscountOfItsCoupon /\ ChargeIsSound
  BY <1>7 DEF PaidAsRecorded, DiscountOfItsCoupon, ChargeIsSound
<1> QED
  BY <1>1, <1>2, <1>3, <1>4, <1>5, <1>6, <1>8 DEF IInv

-----------------------------------------------------------------------------
LEMMA AmountsOfBasket ==
    ASSUME NEW b \in Baskets
    PROVE  /\ Amounts(b) \in Amount
           /\ Amounts(b).orderAmount > 0 /\ Amounts(b).shippingFee >= 0
           /\ Amounts(b).orderAmount - Amounts(b).shippingFee >= 0
<1>1. b.sale \in Nat /\ b.ori \in Nat
  BY OrderFormAssumption
<1>2. /\ ShippingFee(b.sale) \in Nat
      /\ b.sale + ShippingFee(b.sale) > 0
  BY <1>1 DEF ShippingFee
<1> QED
  BY <1>1, <1>2 DEF Amounts, Amount

LEMMA NewOrderIInv ==
    ASSUME IInv, NEW b \in Baskets, NewOrder(b)
    PROVE  IInv'
<1>1. /\ open' = TRUE /\ opened' = opened + 1
      /\ order' = Amounts(b) /\ payAmount' = order'.orderAmount
      /\ asked' = [info |-> asked.info + 1, coupons |-> Append(asked.coupons, used)]
      /\ doubts' = (doubts \ {"list"})
                      \union (IF couponDiscounted # 0 \/ pointUsed # 0 THEN {"pay"} ELSE {})
                      \union (IF asked.coupons # <<>> THEN {"list"} ELSE {})
      /\ UNCHANGED <<couponDiscounted, pointUsed, select, usePoints, usable, known, used, orders>>
  BY DEF NewOrder, formVars
<1>2. Types
  BY DEF IInv
<1>3. /\ order' \in Amount /\ order'.orderAmount > 0 /\ order'.shippingFee >= 0
      /\ order'.orderAmount - order'.shippingFee >= 0
      /\ order'.orderAmount \in Int /\ order'.shippingFee \in Int
  BY <1>1, AmountsOfBasket DEF Amount
<1>4. /\ asked.info \in Nat /\ asked.coupons \in Seq(SUBSET Coupons)
      /\ asked'.info = asked.info + 1 /\ asked'.coupons = Append(asked.coupons, used)
  BY <1>1, <1>2 DEF Types
<1>5. Types'
  <2>1. asked' \in [info: Nat, coupons: Seq(SUBSET Coupons)]
    BY <1>1, <1>2, <1>4, AppendProperties DEF Types
  <2>2. doubts' \subseteq Doubts
    BY <1>1, <1>2 DEF Types, Doubts
  <2> QED
    BY <1>1, <1>2, <1>3, <2>1, <2>2 DEF Types
<1>6. PaysAsHeld'
  <2>1. "pay" \notin doubts' => couponDiscounted = 0 /\ pointUsed = 0
    BY <1>1
  <2>2. "points" \notin doubts' => "points" \notin doubts
    BY <1>1
  <2> QED
    BY <1>1, <1>3, <2>1, <2>2 DEF IInv, PaysAsHeld
<1>7. DiscountHeld'
  <2>1. "coupon" \notin doubts' => "coupon" \notin doubts
    BY <1>1
  <2> QED
    BY <1>1, <2>1 DEF IInv, DiscountHeld
<1>8. UnusedOffered'
  <2>1. asked'.info # 0
    BY <1>4
  <2>2. "list" \notin doubts' => asked.coupons = <<>>
    BY <1>1
  <2>3. asked.coupons = <<>> => \A k \in DOMAIN asked'.coupons : asked'.coupons[k] = used
    BY <1>4
  <2> QED
    BY <1>1, <2>1, <2>2, <2>3 DEF UnusedOffered
<1>9. FirstCharge'
  <2>1. opened' = 1 => opened = 0
    BY <1>1, <1>2 DEF Types
  <2> QED
    BY <1>1, <1>2, <1>3, <2>1 DEF IInv, FirstCharge, Types, ItemsOfOrder
<1> QED
  BY <1>1, <1>5, <1>6, <1>7, <1>8, <1>9, NothingStored DEF IInv

LEMMA LeaveIInv ==
    ASSUME IInv, Leave
    PROVE  IInv'
<1>1. /\ open' = FALSE
      /\ UNCHANGED <<order, couponDiscounted, pointUsed, payAmount, select, usePoints, usable,
                     known, asked, used, orders, opened, doubts>>
  BY DEF Leave, amountVars, formVars
<1>2. Types'
  BY <1>1 DEF IInv, Types
<1>3. PaysAsHeld' /\ DiscountHeld' /\ UnusedOffered'
  BY <1>1 DEF IInv, PaysAsHeld, DiscountHeld, UnusedOffered
<1>4. FirstCharge'
  BY <1>1 DEF IInv, FirstCharge, ItemsOfOrder, Outdone
<1> QED
  BY <1>1, <1>2, <1>3, <1>4, NothingStored DEF IInv

LEMMA GoToLoginIInv ==
    ASSUME IInv, GoToLogin
    PROVE  IInv'
<1>1. /\ open' = FALSE /\ asked' = [info |-> 0, coupons |-> <<>>]
      /\ UNCHANGED <<order, couponDiscounted, pointUsed, payAmount, select, usePoints, usable,
                     known, used, orders, opened, doubts>>
  BY DEF GoToLogin, amountVars, formVars
<1>2. asked' \in [info: Nat, coupons: Seq(SUBSET Coupons)]
  <2>1. <<>> \in Seq(SUBSET Coupons)
    OBVIOUS
  <2> QED
    BY <1>1, <2>1
<1>3. Types'
  BY <1>1, <1>2 DEF IInv, Types
<1>4. PaysAsHeld' /\ DiscountHeld' /\ UnusedOffered'
  BY <1>1 DEF IInv, PaysAsHeld, DiscountHeld, UnusedOffered
<1>5. FirstCharge'
  BY <1>1 DEF IInv, FirstCharge, ItemsOfOrder, Outdone
<1> QED
  BY <1>1, <1>3, <1>4, <1>5, NothingStored DEF IInv

LEMMA ShowOrderInfoIInv ==
    ASSUME IInv, ShowOrderInfo
    PROVE  IInv'
<1>1. /\ asked.info > 0 /\ asked' = [asked EXCEPT !.info = @ - 1]
      /\ select' = EmptySelect /\ usePoints' = 0 /\ usable' = Points
      /\ doubts' = doubts \union (IF pointUsed # 0 THEN {"points"} ELSE {})
                          \union (IF couponDiscounted # 0 THEN {"coupon"} ELSE {})
      /\ UNCHANGED <<open, order, couponDiscounted, pointUsed, payAmount, known, used, orders, opened>>
  BY DEF ShowOrderInfo, amountVars
<1>2. Types
  BY DEF IInv
<1>3. /\ asked' \in [info: Nat, coupons: Seq(SUBSET Coupons)]
      /\ asked'.coupons = asked.coupons
  BY <1>1, <1>2 DEF Types
<1>4. select' \in Select /\ select'.options = {} /\ select'.value = NoCoupon
  BY <1>1 DEF EmptySelect, Select
<1>5. doubts \subseteq doubts' /\ doubts' \subseteq Doubts
  BY <1>1, <1>2 DEF Types, Doubts
<1>6. Types'
  BY <1>1, <1>2, <1>3, <1>4, <1>5, OrderFormAssumption DEF Types
<1>7. PaysAsHeld'
  BY <1>1, <1>5 DEF IInv, PaysAsHeld
<1>8. DiscountHeld'
  BY <1>1, <1>4, <1>5 DEF IInv, DiscountHeld, AmountOfCoupon
<1>9. UnusedOffered'
  <2>1. NoCoupon \notin used
    BY <1>2, OrderFormAssumption DEF Types
  <2> QED
    BY <1>1, <1>3, <1>4, <1>5, <2>1 DEF IInv, UnusedOffered
<1>10. FirstCharge'
  BY <1>1, OrderFormAssumption DEF IInv, FirstCharge, ItemsOfOrder, Outdone
<1> QED
  BY <1>1, <1>6, <1>7, <1>8, <1>9, <1>10, NothingStored DEF IInv

LEMMA ShowCouponsIInv ==
    ASSUME IInv, NEW k \in DOMAIN asked.coupons, NEW U \in SUBSET used, ShowCoupons(k, U)
    PROVE  IInv'
<1> DEFINE cs == Unused(U)
           preselects == ~Selected /\ cs # {}
<1>1. /\ asked.coupons[k] \subseteq U
      /\ asked' = [asked EXCEPT !.coupons = RemoveAt(@, k)]
      /\ known' = known \union cs
      /\ \E first \in IF preselects THEN select.options \union cs ELSE {select.value} :
            select' = [select EXCEPT !.options = @ \union cs, !.value = first]
      /\ doubts' = IF preselects THEN doubts \union {"coupon"} ELSE doubts
      /\ UNCHANGED <<open, order, couponDiscounted, pointUsed, payAmount, usePoints, usable,
                     used, orders, opened>>
  BY DEF ShowCoupons, amountVars
<1>2. PICK first \in IF preselects THEN select.options \union cs ELSE {select.value} :
        select' = [select EXCEPT !.options = @ \union cs, !.value = first]
  BY <1>1
<1>3. Types /\ cs \subseteq Coupons /\ cs \cap U = {} /\ select \in Select
  BY DEF IInv, Types, Unused
<1> HIDE DEF cs, preselects
<1>4. /\ first = select.value \/ (first \in select.options \union cs /\ "coupon" \in doubts')
      /\ doubts \subseteq doubts' /\ doubts' \subseteq doubts \union {"coupon"}
  BY <1>1, <1>2
<1>5. select'.options = select.options \union cs /\ select'.value = first /\ select' \in Select
  BY <1>2, <1>3, <1>4 DEF Select
<1>6. /\ asked' \in [info: Nat, coupons: Seq(SUBSET Coupons)]
      /\ asked'.info = asked.info /\ asked'.coupons = RemoveAt(asked.coupons, k)
  BY <1>1, <1>3, RemovedEntry DEF Types
<1>7. Types'
  BY <1>1, <1>3, <1>4, <1>5, <1>6 DEF Types, Doubts
<1>8. PaysAsHeld'
  BY <1>1, <1>4 DEF IInv, PaysAsHeld
<1>9. DiscountHeld'
  BY <1>1, <1>4, <1>5 DEF IInv, DiscountHeld
<1>10. UnusedOffered'
  <2> SUFFICES ASSUME open, "list" \notin doubts
               PROVE  /\ \A j \in DOMAIN asked'.coupons : asked'.coupons[j] = used
                      /\ asked.info = 0 => (select'.options \union {select'.value}) \cap used = {}
    BY <1>1, <1>4, <1>6 DEF UnusedOffered
  <2>1. \A j \in DOMAIN asked.coupons : asked.coupons[j] = used
    BY DEF IInv, UnusedOffered
  <2>2. asked.coupons \in Seq({used})
    <3>1. asked.coupons \in Seq(SUBSET Coupons)
      BY <1>3 DEF Types
    <3> QED
      BY <2>1, <3>1, SeqDef
  <2>3. asked'.coupons \in Seq({used})
    BY <1>6, <2>2, RemovedEntry
  <2>4. \A j \in DOMAIN asked'.coupons : asked'.coupons[j] = used
    BY <2>3
  <2>5. U = used
    BY <1>1, <2>1
  <2>6. asked.info = 0 => (select.options \union {select.value}) \cap used = {}
    BY DEF IInv, UnusedOffered
  <2> QED
    BY <1>3, <1>4, <1>5, <2>4, <2>5, <2>6
<1>11. FirstCharge'
  BY <1>1 DEF IInv, FirstCharge, ItemsOfOrder, Outdone
<1> QED
  BY <1>1, <1>7, <1>8, <1>9, <1>10, <1>11, NothingStored DEF IInv

-----------------------------------------------------------------------------
LEMMA ChooseCouponIInv ==
    ASSUME IInv, NEW c \in Coupons \union {NoCoupon}, ChooseCoupon(c)
    PROVE  IInv'
<1> DEFINE before == order.orderAmount - pointUsed
<1>1. /\ open /\ c \in Choosable /\ ~IsRejected(c, before)
      /\ select' = [select EXCEPT !.value = c]
      /\ couponDiscounted' = Discounted(c, before)
      /\ payAmount' = order.orderAmount - pointUsed - couponDiscounted'
      /\ doubts' = doubts \ {"coupon", "pay"}
      /\ UNCHANGED <<open, order, pointUsed, usePoints, usable, known, asked, used, orders, opened>>
  BY DEF ChooseCoupon, TakeCoupon
<1>2. Types /\ select \in Select /\ before \in Int /\ order.orderAmount \in Int /\ pointUsed \in Int
  BY DEF IInv, Types, Amount
<1>3. c \in known \union {NoCoupon}
  BY <1>1, ChoosableKnown
<1>4. couponDiscounted' = AmountOfCoupon(c) /\ couponDiscounted' \in Nat
  BY <1>1, <1>2, <1>3, DiscountedAmount, AmountNat
<1>5. select' \in Select /\ select'.options = select.options /\ select'.value = c
  BY <1>1, <1>2 DEF Select
<1>6. Types'
  <2>1. couponDiscounted' \in Int /\ payAmount' \in Int /\ doubts' \subseteq Doubts
    BY <1>1, <1>2, <1>4 DEF Types
  <2> QED
    BY <1>1, <1>2, <1>5, <2>1 DEF Types
<1>7. PaysAsHeld'
  BY <1>1 DEF IInv, PaysAsHeld
<1>8. DiscountHeld'
  BY <1>1, <1>3, <1>4, <1>5 DEF IInv, DiscountHeld
<1>9. UnusedOffered'
  <2> SUFFICES ASSUME "list" \notin doubts
               PROVE  /\ \A k \in DOMAIN asked.coupons : asked.coupons[k] = used
                      /\ asked.info = 0 => (select'.options \union {c}) \cap used = {}
    BY <1>1, <1>5 DEF UnusedOffered
  <2>1. NoCoupon \notin used /\ c \in select.options \union {NoCoupon}
    BY <1>1, <1>2, OrderFormAssumption DEF Types, Choosable
  <2> QED
    BY <1>1, <1>5, <2>1 DEF IInv, UnusedOffered
<1>10. FirstCharge'
  <2>1. opened = 1 => payAmount' > 0 \/ Outdone'
    <3> SUFFICES ASSUME opened = 1 PROVE payAmount' > 0 \/ Outdone'
      OBVIOUS
    <3>1. before > 0
      BY <1>2 DEF IInv, FirstCharge
    <3>2. \/ AmountOfCoupon(c) < before
          \/ c \in Coupons /\ Generous(c) /\ AmountOfCoupon(c) = CouponData[c].amount
      BY <1>1, <1>2, <1>3, <3>1, AcceptedCoupon
    <3> QED
      BY <1>1, <1>2, <1>4, <3>2 DEF Outdone
  <2> QED
    BY <1>1, <2>1 DEF IInv, FirstCharge, ItemsOfOrder, Outdone
<1> QED
  BY <1>1, <1>6, <1>7, <1>8, <1>9, <1>10, NothingStored DEF IInv

LEMMA RejectCouponIInv ==
    ASSUME IInv, NEW c \in Coupons \union {NoCoupon}, RejectCoupon(c)
    PROVE  IInv'
<1>1. /\ select' = [select EXCEPT !.value = NoCoupon]
      /\ doubts' = IF couponDiscounted # 0 THEN doubts \union {"coupon"} ELSE doubts
      /\ UNCHANGED <<open, order, couponDiscounted, pointUsed, payAmount, usePoints, usable,
                     known, asked, used, orders, opened>>
  BY DEF RejectCoupon, amountVars
<1>2. Types /\ select \in Select
  BY DEF IInv, Types
<1>3. select' \in Select /\ select'.options = select.options /\ select'.value = NoCoupon
  BY <1>1, <1>2 DEF Select
<1>4. doubts \subseteq doubts' /\ doubts' \subseteq doubts \union {"coupon"}
  BY <1>1
<1>5. Types'
  BY <1>1, <1>2, <1>3, <1>4 DEF Types, Doubts
<1>6. PaysAsHeld'
  BY <1>1, <1>4 DEF IInv, PaysAsHeld
<1>7. DiscountHeld'
  BY <1>1, <1>3 DEF IInv, DiscountHeld, AmountOfCoupon
<1>8. UnusedOffered'
  <2>1. NoCoupon \notin used
    BY <1>2, OrderFormAssumption DEF Types
  <2> QED
    BY <1>1, <1>3, <1>4, <2>1 DEF IInv, UnusedOffered
<1>9. FirstCharge'
  BY <1>1 DEF IInv, FirstCharge, ItemsOfOrder, Outdone
<1> QED
  BY <1>1, <1>5, <1>6, <1>7, <1>8, <1>9, NothingStored DEF IInv

(* The points that are taken leave something of the items to pay.          *)
LEMMA LimitedPoints ==
    ASSUME NEW p \in Int, NEW u \in Nat, ItemsAmount \in Int
    PROVE  LET n == Limited(AtMost(p, u))
           IN  n \in Int /\ n <= u /\ n < ItemsAmount
  BY DEF Limited, AtMost

LEMMA ChoosePointsIInv ==
    ASSUME IInv, NEW p \in Typed, ChoosePoints(p)
    PROVE  IInv'
<1> DEFINE n == Limited(AtMost(p, usable))
<1>1. /\ open /\ usePoints' = n /\ pointUsed' = n
      /\ payAmount' = order.orderAmount - couponDiscounted - n
      /\ doubts' = doubts \ {"points", "pay"}
      /\ UNCHANGED <<open, order, couponDiscounted, select, usable, known, asked, used, orders, opened>>
  BY DEF ChoosePoints
<1>2. /\ Types /\ order.orderAmount \in Int /\ order.shippingFee \in Int
      /\ couponDiscounted \in Int
  BY DEF IInv, Types, Amount
<1>3. n \in Int /\ n <= usable /\ n < ItemsAmount
  <2>1. p \in Int /\ usable \in Nat /\ ItemsAmount \in Int
    BY <1>2, OrderFormAssumption DEF Types, ItemsAmount
  <2> QED
    BY <2>1, LimitedPoints
<1> HIDE DEF n
<1>4. Types'
  BY <1>1, <1>2, <1>3 DEF Types
<1>5. PaysAsHeld'
  BY <1>1, <1>2, <1>3 DEF PaysAsHeld
<1>6. DiscountHeld'
  BY <1>1 DEF IInv, DiscountHeld
<1>7. UnusedOffered'
  BY <1>1 DEF IInv, UnusedOffered
<1>8. PICK c \in Coupons \union {NoCoupon} : couponDiscounted = AmountOfCoupon(c)
  BY DEF IInv, DiscountHeld
<1>9. couponDiscounted \in Nat
  BY <1>8, AmountNat
<1>10. FirstCharge'
  <2>1. n <= Points
    BY <1>2, <1>3, OrderFormAssumption DEF IInv, FirstCharge, Types
  <2>2. ASSUME opened = 1
        PROVE  payAmount' > 0 /\ n < order.orderAmount
    <3>1. order.shippingFee >= 0
      BY <2>2 DEF IInv, FirstCharge
    <3> QED
      BY <1>1, <1>2, <1>3, <1>9, <3>1 DEF ItemsAmount
  <2>3. opened >= 1 /\ opened \in Nat
    BY <1>1, <1>2 DEF IInv, FirstCharge, Types
  <2> QED
    BY <1>1, <2>1, <2>2, <2>3 DEF IInv, FirstCharge, ItemsOfOrder, Outdone
<1> QED
  BY <1>1, <1>4, <1>5, <1>6, <1>7, <1>10, NothingStored DEF IInv

-----------------------------------------------------------------------------
(* What is stored is the request of the page. *)
LEMMA ExecIInv ==
    ASSUME IInv, Exec
    PROVE  IInv'
<1> DEFINE o == OrderRequest
<1>1. /\ open /\ usePoints >= 0
      /\ orders' = Append(orders, o)
      /\ used' = used \union ({select.value} \ {NoCoupon}) /\ open' = FALSE
      /\ UNCHANGED <<order, couponDiscounted, pointUsed, payAmount, select, usePoints, usable,
                     known, asked, opened, doubts>>
  BY DEF Exec, Accepted, amountVars, formVars
<1>2. /\ Types /\ order \in Amount /\ select.value \in Coupons \union {NoCoupon}
      /\ orders \in Seq(Order) /\ opened \in Nat /\ asked.info \in Nat
  BY DEF IInv, Types, Select
<1>3. /\ o.totalAmount = order.orderAmount + order.itemDiscounted
      /\ o.itemDiscounted = order.itemDiscounted
      /\ o.couponDiscounted = couponDiscounted /\ o.usedPoints = usePoints
      /\ o.coupon = select.value /\ o.paid = payAmount
      /\ o.items = ItemsOfOrder /\ o.again = (opened > 1)
      /\ o.doubts = doubts \union (IF asked.info > 0 THEN {"list"} ELSE {})
  BY DEF OrderRequest, ItemsOfOrder
<1>4. o \in Order
  BY <1>2 DEF OrderRequest, Order, Amount, Types, Doubts
<1> HIDE DEF o
<1>5. /\ orders' \in Seq(Order) /\ Len(orders') = Len(orders) + 1
      /\ Len(orders) \in Nat
      /\ DOMAIN orders' = 1..(Len(orders) + 1) /\ DOMAIN orders = 1..Len(orders)
      /\ orders'[Len(orders) + 1] = o
      /\ \A k \in DOMAIN orders : orders'[k] = orders[k]
  BY <1>1, <1>2, <1>4, AppendProperties
<1>6. Types'
  BY <1>1, <1>2, <1>5 DEF Types
<1>7. PaysAsHeld' /\ DiscountHeld' /\ UnusedOffered' /\ FirstCharge'
  BY <1>1 DEF IInv, PaysAsHeld, DiscountHeld, UnusedOffered, FirstCharge, ItemsOfOrder, Outdone
<1>8. \A q \in Stored' : q \in Stored \/ q = o
  BY <1>5 DEF Stored
<1>9. PaidAsRecorded'
  <2>1. ASSUME o.doubts \cap {"pay", "points"} = {}
        PROVE  PayAmountShown(o) = o.paid
    <3>1. /\ order.orderAmount \in Int /\ order.itemDiscounted \in Int
          /\ couponDiscounted \in Int /\ pointUsed \in Int /\ usePoints \in Int
      BY <1>2 DEF Amount, Types
    <3>2. "pay" \notin doubts /\ "points" \notin doubts
      BY <1>3, <2>1
    <3>3. payAmount = order.orderAmount - pointUsed - couponDiscounted /\ usePoints = pointUsed
      BY <3>2 DEF IInv, PaysAsHeld
    <3> QED
      BY <1>3, <3>1, <3>3 DEF PayAmountShown
  <2> QED
    BY <1>8, <2>1 DEF IInv, PaidAsRecorded
<1>10. DiscountOfItsCoupon'
  <2>1. "coupon" \notin o.doubts => o.couponDiscounted = AmountOfCoupon(o.coupon)
    BY <1>3 DEF IInv, DiscountHeld
  <2> QED
    BY <1>8, <2>1 DEF IInv, DiscountOfItsCoupon, AmountOfCoupon
<1>11. UsedByOrders'
  <2> SUFFICES ASSUME NEW k \in DOMAIN orders', orders'[k].coupon # NoCoupon
               PROVE  orders'[k].coupon \in used'
    BY DEF UsedByOrders
  <2>1. CASE k \in DOMAIN orders
    BY <1>1, <1>5, <2>1 DEF IInv, UsedByOrders
  <2>2. CASE k = Len(orders) + 1
    BY <1>1, <1>3, <1>5, <2>2
  <2> QED
    BY <1>5, <2>1, <2>2
<1>12. CouponOncePerPage'
  <2> SUFFICES ASSUME NEW k \in DOMAIN orders', NEW l \in DOMAIN orders', k < l,
                      orders'[k].coupon = orders'[l].coupon, orders'[l].coupon # NoCoupon
               PROVE  "list" \in orders'[l].doubts
    BY DEF CouponOncePerPage
  <2>1. k \in DOMAIN orders
    BY <1>5
  <2>2. CASE l \in DOMAIN orders
    BY <1>5, <2>1, <2>2 DEF IInv, CouponOncePerPage
  <2>3. CASE l = Len(orders) + 1
    <3>1. orders'[l] = o /\ select.value \in used
      BY <1>3, <1>5, <2>1, <2>3 DEF IInv, UsedByOrders
    <3>2. "list" \in doubts \/ asked.info > 0
      BY <1>1, <1>2, <3>1 DEF IInv, UnusedOffered
    <3> QED
      BY <1>3, <3>1, <3>2
  <2> QED
    BY <1>5, <2>2, <2>3
<1>13. ChargeIsSound'
  <2>1. ASSUME ~o.again
        PROVE  /\ \/ o.paid > 0
                  \/ \E c \in Coupons : Generous(c) /\ o.couponDiscounted = CouponData[c].amount
               /\ o.usedPoints \in 0..Points
    <3>1. ~(opened > 1)
      BY <1>3, <2>1, Zenon
    <3>2. opened = 1
      BY <1>1, <1>2, <3>1 DEF IInv, FirstCharge
    <3>3. o.usedPoints \in 0..Points
      BY <1>1, <1>2, <1>3, OrderFormAssumption DEF IInv, FirstCharge, Types
    <3> QED
      BY <1>1, <1>3, <3>2, <3>3 DEF IInv, FirstCharge, Outdone
  <2> QED
    BY <1>8, <2>1 DEF IInv, ChargeIsSound
<1> QED
  BY <1>6, <1>7, <1>9, <1>10, <1>11, <1>12, <1>13 DEF IInv

-----------------------------------------------------------------------------
LEMMA NextIInv == IInv /\ [Next]_vars => IInv'
<1> SUFFICES ASSUME IInv, [Next]_vars PROVE IInv'
  OBVIOUS
<1>1. ASSUME NEW b \in Baskets, NewOrder(b) PROVE IInv'
  BY <1>1, NewOrderIInv
<1>2. CASE Leave
  BY <1>2, LeaveIInv
<1>3. CASE ShowOrderInfo
  BY <1>3, ShowOrderInfoIInv
<1>4. ASSUME NEW k \in DOMAIN asked.coupons, NEW U \in SUBSET used, ShowCoupons(k, U)
      PROVE  IInv'
  BY <1>4, ShowCouponsIInv
<1>5. ASSUME NEW c \in Coupons \union {NoCoupon}, ChooseCoupon(c) PROVE IInv'
  BY <1>5, ChooseCouponIInv
<1>6. ASSUME NEW c \in Coupons \union {NoCoupon}, RejectCoupon(c) PROVE IInv'
  BY <1>6, RejectCouponIInv
<1>7. ASSUME NEW p \in Typed, ChoosePoints(p) PROVE IInv'
  BY <1>7, ChoosePointsIInv
<1>8. CASE Exec
  BY <1>8, ExecIInv
<1>9. CASE GoToLogin
  BY <1>9, GoToLoginIInv
<1>10. CASE UNCHANGED vars
  <2>1. UNCHANGED <<open, order, couponDiscounted, pointUsed, payAmount, select, usePoints,
                    usable, known, asked, used, orders, opened, doubts>>
    BY <1>10 DEF vars, amountVars, formVars
  <2>2. Types' /\ PaysAsHeld' /\ DiscountHeld' /\ UnusedOffered' /\ FirstCharge'
    BY <2>1 DEF IInv, Types, PaysAsHeld, DiscountHeld, UnusedOffered, FirstCharge,
                ItemsOfOrder, Outdone
  <2> QED
    BY <2>1, <2>2, NothingStored DEF IInv
<1> QED
  BY <1>1, <1>2, <1>3, <1>4, <1>5, <1>6, <1>7, <1>8, <1>9, <1>10 DEF Next

(* The strengthened invariant holds in every reachable state. *)
THEOREM Invariance == Spec => []IInv
  BY InitIInv, NextIInv, PTL DEF Spec

(* An order that nothing is doubted of says of its payment what was paid,  *)
(* whatever was chosen, typed, rejected and answered, in any order.        *)
THEOREM PaidAsRecordedHolds == Spec => []PaidAsRecorded
<1>1. IInv => PaidAsRecorded
  BY DEF IInv
<1> QED
  BY <1>1, Invariance, PTL

(* The discount of an order is that of the coupon it uses up. *)
THEOREM DiscountOfItsCouponHolds == Spec => []DiscountOfItsCoupon
<1>1. IInv => DiscountOfItsCoupon
  BY DEF IInv
<1> QED
  BY <1>1, Invariance, PTL

(* A page that has its answers orders with a coupon once. *)
THEOREM CouponOncePerPageHolds == Spec => []CouponOncePerPage
<1>1. IInv => CouponOncePerPage
  BY DEF IInv
<1> QED
  BY <1>1, Invariance, PTL

(* The first order of a page costs something, unless a coupon worth all it *)
(* asks for pays it, and takes from none to all of the member's points,    *)
(* whatever integers were typed before.                                    *)
THEOREM ChargeIsSoundHolds == Spec => []ChargeIsSound
<1>1. IInv => ChargeIsSound
  BY DEF IInv
<1> QED
  BY <1>1, Invariance, PTL
=============================================================================
