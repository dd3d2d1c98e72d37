---------------------------- MODULE OrderService ----------------------------
(***************************************************************************)
(* The life of a member's order: the checkout page that pays first and     *)
(* orders afterwards, the transactions of service/order/OrderService       *)
(* (ordering, cancel, both modify), the admin's delivery operations and    *)
(* the payment gateway.                                                    *)
(*                                                                         *)
(* Requests run as database transactions of the production database       *)
(* (MariaDB, REPEATABLE READ): a request opens with a consistent read of   *)
(* the rows it needs (view) and its entities are flushed, whole rows at a  *)
(* time, when it commits.  No entity has a @Version, so a later commit     *)
(* overwrites an earlier one.                                              *)
(***************************************************************************)
EXTENDS Integers, Sequences, FiniteSets, FiniteSetsExt

CONSTANTS
    Members,        \* customers
    Orders,         \* order ids; order o is paid by payment o
    Coupons,        \* issued coupons
    Owner,          \* the member a coupon was issued to
    NoCoupon,       \* the order uses no coupon
    Workers,        \* request threads of the server
    Totals,         \* total amounts a checkout may have
    Points,         \* amounts of points a checkout page may let him spend
    Percent,        \* reserve ratio of a rating, in percent
    Threshold,      \* Rating.amount of a rating
    TopRating,      \* ordinal of the highest rating
    InitReserves,   \* points every member starts with
    AdminStatuses,  \* delivery statuses the admin page may save
    MaxDeliveries,  \* bound: deliveries of an order
    SessionLimit,   \* concurrent requests of one member (browser tabs)
    FreshAdminPage, \* the status on the admin page is the stored one
    GatewayMayFail, \* a call to the payment gateway may fail
    ResponseMayFail,\* the answer to an order request may be lost or late
    ServerMayCrash  \* a cancel may roll back after its gateway call

Ratings == 0..TopRating

Status == {"REQUESTED", "CHECKED", "SHIPPED", "DELIVERED", "DELETED"}

ASSUME ConstantsAssumption ==
    /\ Totals \subseteq Nat
    /\ Points \subseteq Nat
    /\ TopRating \in Nat
    /\ Percent \in [Ratings -> Nat]
    /\ Threshold \in [Ratings -> Nat]
    /\ InitReserves \in Nat
    /\ MaxDeliveries \in Nat \ {0}
    /\ SessionLimit \in Nat \ {0}
    /\ NoCoupon \notin Coupons
    /\ Owner \in [Coupons -> Members]
    /\ AdminStatuses \subseteq Status
    /\ {FreshAdminPage, GatewayMayFail, ResponseMayFail, ServerMayCrash}
            \subseteq BOOLEAN

VARIABLES
    member,     \* row of member: reserves, orderAmount, rating
    orders,     \* row of order_master: absent, live or cancelled
    delivery,   \* rows of delivery_status of an order, oldest first
    ledger,     \* rows of reserves_history whose ref_id is the order
    used,       \* coupon.used_yn
    payment,    \* state of the payment at the gateway
    client,     \* where the checkout page of an order is
    form,       \* what the checkout page submitted
    tx          \* open transaction of a request thread

dbVars == <<member, orders, delivery, ledger, used>>
vars == <<member, orders, delivery, ledger, used, payment, client, form, tx>>

-----------------------------------------------------------------------------
(***************************************************************************)
(* Rows.                                                                   *)
(***************************************************************************)

MemberRow == [reserves: Int, orderAmount: Int, rating: Ratings]
OrderState == {"none", "live", "cancelled"}
LedgerRow == [type: {"ORDER", "ORDER_USED", "ORDER_CANCEL"}, amount: Int]
NoForm == <<>>
Form == [member: Members, total: Nat, used: Nat,
         coupon: Coupons \union {NoCoupon}]
View == [member: MemberRow, order: OrderState, delivery: Seq(Status),
         ledger: Seq(LedgerRow)]

OrderOps == {"ordering", "cancel", "modifyOrder", "modifyDelivery"}
AdminOps == {"modifyStatus", "addDelivery"}
Idle == [op |-> "idle"]
Transaction == [op: OrderOps \union AdminOps, order: Orders, view: View,
                row: Nat, status: Status, called: BOOLEAN]

ExistsNever(rows, type) == FALSE  \* mutant: the check is dropped

(* existsByTypeAndRefId *)
Exists(rows, type) == \E i \in DOMAIN rows : rows[i].type = type

(* getByTypeAndRefId(type, ...).getAmount() *)
AmountOf(rows, type) ==
    rows[CHOOSE i \in DOMAIN rows : rows[i].type = type].amount

AddReserves(row, amount) == [row EXCEPT !.reserves = @ + amount]
FlushReserves(row, amount) == [row EXCEPT !.reserves = @ - amount]

AddOrderAmountAndUpdateRating(row, amount) ==
    LET ordered == row.orderAmount + amount
        promoted == row.rating < TopRating /\ ordered > Threshold[row.rating]
    IN  [reserves |-> row.reserves, orderAmount |-> ordered,
         rating |-> IF promoted THEN row.rating + 1 ELSE row.rating]

Reserve(f, row) == (f.total * Percent[row.rating]) \div 100

(* The history row ordering writes: earned points, or spent ones. *)
PlacementRow(f, row) ==
    IF f.used = 0 THEN [type |-> "ORDER", amount |-> Reserve(f, row)]
                  ELSE [type |-> "ORDER_USED", amount |-> -f.used]

(* What ordering leaves in the member row. *)
Placed(f, row) ==
    AddOrderAmountAndUpdateRating(
        IF f.used = 0 THEN AddReserves(row, Reserve(f, row))
                      ELSE FlushReserves(row, f.used),
        f.total - f.used)

CancelAmountRecomputed(f, rows) ==  \* mutant: the reward is not read back
    IF f.used > 0 THEN f.used ELSE -Reserve(f, [rating |-> 0])

(* "reserves" of cancel: the points of the ORDER_CANCEL row. *)
CancelAmount(f, rows) ==
    IF f.used > 0 THEN f.used ELSE -AmountOf(rows, "ORDER")

CancelRow(f, rows) == [type |-> "ORDER_CANCEL", amount |-> CancelAmount(f, rows)]

UnplacedSpentOnly(f, rows, row) ==  \* mutant: an earning order is skipped
    IF f.used > 0 THEN AddReserves(row, CancelAmount(f, rows)) ELSE row

(* What cancel leaves in the member row: an earning order is flushed by    *)
(* the amount already negated.                                             *)
Unplaced(f, rows, row) ==
    IF f.used > 0 THEN AddReserves(row, CancelAmount(f, rows))
                  ELSE FlushReserves(row, CancelAmount(f, rows))

-----------------------------------------------------------------------------
(***************************************************************************)
(* Transactions.                                                           *)
(***************************************************************************)

ViewOf(o) == [member |-> member[form[o].member], order |-> orders[o],
              delivery |-> delivery[o], ledger |-> ledger[o]]

Open(w, op, o, i, s) ==
    /\ tx[w] = Idle
    /\ tx' = [tx EXCEPT ![w] = [op |-> op, order |-> o, view |-> ViewOf(o),
                                row |-> i, status |-> s, called |-> FALSE]]

Close(w) == tx' = [tx EXCEPT ![w] = Idle]

Runs(w, op) == tx[w] # Idle /\ tx[w].op = op

(* Requests a member has under way: open checkouts and open transactions.  *)
Sessions(m) ==
    { <<"checkout", o>> : o \in {p \in Orders :
                            /\ client[p] \in {"paid", "sent", "failed"}
                            /\ form[p].member = m} }
    \union
    { <<"request", w>> : w \in {v \in Workers :
                            /\ tx[v] # Idle
                            /\ tx[v].op \in OrderOps \ {"ordering"}
                            /\ form[tx[v].order].member = m} }

(* OrderRequest.newDelivery: the status of a delivery when it is inserted.  *)
NewDeliveryUnset == "UNSET"  \* mutant: the builder sets no status
NewDelivery == "REQUESTED"

CancelledRowToggled(o, v) ==  \* mutant: a second cancel revives the order
    IF v.order = "live" THEN "cancelled" ELSE "live"

(* order.cancel(): the row is dirty only if it was read as live. *)
CancelledRow(o, v) == IF v.order = "live" THEN "cancelled" ELSE orders[o]

CouponKept(f) == used  \* mutant: coupon.unused() is missing

CouponUnused(f) ==
    IF f.coupon = NoCoupon THEN used ELSE [used EXCEPT ![f.coupon] = FALSE]

CouponUsed(f) ==
    IF f.coupon = NoCoupon THEN used ELSE [used EXCEPT ![f.coupon] = TRUE]

CancellableSome(o) ==  \* mutant: one requested delivery is enough
    \E i \in DOMAIN delivery[o] : delivery[o][i] = "REQUESTED"

(* cancel throws unless every delivery is REQUESTED. *)
Cancellable(o) == \A i \in DOMAIN delivery[o] : delivery[o][i] = "REQUESTED"

(* The page lists coupons of the member.  Those it lists were unused when   *)
(* it loaded them, which says nothing of the moment he pays: the select    *)
(* keeps what an earlier checkout or another tab has used since, and the   *)
(* server takes it.                                                        *)
Offered(f) == f.coupon # NoCoupon => Owner[f.coupon] = f.member

(* The page limits the points to less than the price, and to the balance   *)
(* it showed (Points), which may have been spent in another tab since: the *)
(* server compares them with nothing.                                      *)
Spendable(f) == f.used > 0 => f.used < f.total

MayStart(m) == Cardinality(Sessions(m)) < SessionLimit

-----------------------------------------------------------------------------
Init ==
    /\ member = [m \in Members |-> [reserves |-> InitReserves,
                                    orderAmount |-> 0, rating |-> 0]]
    /\ orders = [o \in Orders |-> "none"]
    /\ delivery = [o \in Orders |-> <<>>]
    /\ ledger = [o \in Orders |-> <<>>]
    /\ used = [c \in Coupons |-> FALSE]
    /\ payment = [o \in Orders |-> "none"]
    /\ client = [o \in Orders |-> "none"]
    /\ form = [o \in Orders |-> NoForm]
    /\ tx = [w \in Workers |-> Idle]

-----------------------------------------------------------------------------
(***************************************************************************)
(* The checkout page (order.js): the payment is made first, its callback   *)
(* posts the order, and a failed post cancels the payment.                 *)
(***************************************************************************)

Checkout(o) ==
    /\ client[o] = "none"
    /\ \E f \in [member: Members, total: Totals, used: Points,
                 coupon: Coupons \union {NoCoupon}] :
        /\ MayStart(f.member)
        /\ Offered(f)
        /\ Spendable(f)
        /\ form' = [form EXCEPT ![o] = f]
    /\ client' = [client EXCEPT ![o] = "paid"]
    /\ payment' = [payment EXCEPT ![o] = "paid"]
    /\ UNCHANGED <<dbVars, tx>>

(* The page hears that its order is stored. *)
Respond(o) ==
    /\ client[o] = "sent"
    /\ orders[o] # "none"
    /\ client' = [client EXCEPT ![o] = "done"]
    /\ UNCHANGED <<dbVars, payment, form, tx>>

(* The answer is lost, or does not come in time: $.ajax calls fail(). *)
LoseResponse(o) ==
    /\ ResponseMayFail
    /\ client[o] = "sent"
    /\ client' = [client EXCEPT ![o] = "failed"]
    /\ UNCHANGED <<dbVars, payment, form, tx>>

(* The outcomes of IamportClient.cancelPaymentByImpUid for payment o: a     *)
(* call that fails leaves a paid payment paid.                             *)
CancelPayment(o) ==
    \/ payment' = [payment EXCEPT ![o] = "cancelled"]
    \/ GatewayMayFail /\ UNCHANGED payment

CompensateNothing(o) ==  \* mutant: fail() only shows the message
    /\ client[o] = "failed"
    /\ client' = [client EXCEPT ![o] = "closed"]
    /\ UNCHANGED <<dbVars, payment, form, tx>>

(* fail() of the page: pay.cancel(paymentUid). *)
Compensate(o) ==
    /\ client[o] = "failed"
    /\ CancelPayment(o)
    /\ client' = [client EXCEPT ![o] = "closed"]
    /\ UNCHANGED <<dbVars, form, tx>>

-----------------------------------------------------------------------------
(***************************************************************************)
(* OrderService.                                                           *)
(***************************************************************************)

BeginOrdering(w, o) ==
    /\ client[o] = "paid"
    /\ Open(w, "ordering", o, 0, "REQUESTED")
    /\ client' = [client EXCEPT ![o] = "sent"]
    /\ UNCHANGED <<dbVars, payment, form>>

CommitOrdering(w) ==
    /\ Runs(w, "ordering")
    /\ LET o == tx[w].order
           f == form[o]
           v == tx[w].view
       IN  /\ orders' = [orders EXCEPT ![o] = "live"]
           /\ delivery' = [delivery EXCEPT ![o] = Append(@, NewDelivery)]
           /\ IF Exists(v.ledger, "ORDER")
                 THEN UNCHANGED <<member, ledger>>
                 ELSE /\ member' = [member EXCEPT ![f.member] = Placed(f, v.member)]
                      /\ ledger' = [ledger EXCEPT ![o] =
                                        Append(@, PlacementRow(f, v.member))]
           /\ used' = CouponUsed(f)
    /\ Close(w)
    /\ UNCHANGED <<payment, client, form>>

(* Every delivery must be REQUESTED, or cancel throws and nothing happens. *)
BeginCancel(w, o) ==
    /\ orders[o] # "none"
    /\ MayStart(form[o].member)
    /\ Cancellable(o)
    /\ Open(w, "cancel", o, 0, "DELETED")
    /\ UNCHANGED <<dbVars, payment, client, form>>

(* OrderController.cancel calls the gateway inside the transaction, before  *)
(* its rows are flushed: nothing is locked meanwhile.  A failure is a       *)
(* checked exception, on which the transaction still commits.              *)
CallGateway(w) ==
    /\ Runs(w, "cancel")
    /\ ~tx[w].called
    /\ CancelPayment(tx[w].order)
    /\ tx' = [tx EXCEPT ![w].called = TRUE]
    /\ UNCHANGED <<dbVars, client, form>>

CommitCancel(w) ==
    /\ Runs(w, "cancel")
    /\ tx[w].called
    /\ LET o == tx[w].order
           f == form[o]
           v == tx[w].view
       IN  /\ delivery' = [delivery EXCEPT ![o] =
                  [i \in DOMAIN @ |-> IF i \in DOMAIN v.delivery THEN "DELETED"
                                                               ELSE @[i]]]
           /\ orders' = [orders EXCEPT ![o] = CancelledRow(o, v)]
           /\ IF Exists(v.ledger, "ORDER_CANCEL")
                 THEN UNCHANGED <<member, ledger>>
                 ELSE /\ member' = [member EXCEPT ![f.member] =
                                        Unplaced(f, v.ledger, v.member)]
                      /\ ledger' = [ledger EXCEPT ![o] =
                                        Append(@, CancelRow(f, v.ledger))]
           /\ used' = CouponUnused(f)
    /\ Close(w)
    /\ UNCHANGED <<payment, client, form>>

BeginModify(w, op, o) ==
    /\ orders[o] # "none"
    /\ MayStart(form[o].member)
    /\ \E i \in DOMAIN delivery[o] : delivery[o][i] = "REQUESTED"
    /\ Open(w, op, o, 0, "REQUESTED")
    /\ UNCHANGED <<dbVars, payment, client, form>>

(* modify(order): the contact changes, the whole row is written. *)
CommitModifyOrder(w) ==
    /\ Runs(w, "modifyOrder")
    /\ orders' = [orders EXCEPT ![tx[w].order] = tx[w].view.order]
    /\ Close(w)
    /\ UNCHANGED <<member, delivery, ledger, used, payment, client, form>>

(* modify(delivery): every row read as REQUESTED is written back. *)
CommitModifyDelivery(w) ==
    /\ Runs(w, "modifyDelivery")
    /\ LET v == tx[w].view.delivery
       IN  delivery' = [delivery EXCEPT ![tx[w].order] =
              [i \in DOMAIN @ |-> IF i \in DOMAIN v /\ v[i] = "REQUESTED"
                                   THEN "REQUESTED" ELSE @[i]]]
    /\ Close(w)
    /\ UNCHANGED <<member, orders, ledger, used, payment, client, form>>

-----------------------------------------------------------------------------
(***************************************************************************)
(* OrderAdminService.                                                      *)
(***************************************************************************)

(* The page refuses to edit a delivery it shows as DELETED. *)
BeginModifyStatus(w, o, i, s) ==
    /\ i \in DOMAIN delivery[o]
    /\ FreshAdminPage => delivery[o][i] # "DELETED"
    /\ Open(w, "modifyStatus", o, i, s)
    /\ UNCHANGED <<dbVars, payment, client, form>>

(* A status equal to the one read leaves the row clean: nothing is written. *)
CommitModifyStatus(w) ==
    /\ Runs(w, "modifyStatus")
    /\ LET o == tx[w].order
           i == tx[w].row
       IN  delivery' = IF tx[w].view.delivery[i] = tx[w].status
                         THEN delivery
                         ELSE [delivery EXCEPT ![o][i] = tx[w].status]
    /\ Close(w)
    /\ UNCHANGED <<member, orders, ledger, used, payment, client, form>>

BeginAddDelivery(w, o) ==
    /\ orders[o] # "none"
    /\ Len(delivery[o]) + Cardinality({v \in Workers :
            Runs(v, "addDelivery") /\ tx[v].order = o}) < MaxDeliveries
    /\ Open(w, "addDelivery", o, 0, "REQUESTED")
    /\ UNCHANGED <<dbVars, payment, client, form>>

CommitAddDelivery(w) ==
    /\ Runs(w, "addDelivery")
    /\ delivery' = [delivery EXCEPT ![tx[w].order] = Append(@, NewDelivery)]
    /\ Close(w)
    /\ UNCHANGED <<member, orders, ledger, used, payment, client, form>>

(* An exception, a deadlock victim or a dying server: nothing is written.  *)
(* The page of an order request sees a failure.                            *)
Rollback(w) ==
    /\ tx[w] # Idle
    /\ tx[w].called => ServerMayCrash
    /\ client' = IF tx[w].op = "ordering" /\ client[tx[w].order] = "sent"
                    THEN [client EXCEPT ![tx[w].order] = "failed"]
                    ELSE client
    /\ Close(w)
    /\ UNCHANGED <<dbVars, payment, form>>

-----------------------------------------------------------------------------
Page(o) == Checkout(o) \/ Respond(o) \/ LoseResponse(o) \/ Compensate(o)

Begin(w, o) ==
    \/ BeginOrdering(w, o)
    \/ BeginCancel(w, o)
    \/ \E op \in {"modifyOrder", "modifyDelivery"} : BeginModify(w, op, o)
    \/ \E i \in 1..MaxDeliveries, s \in AdminStatuses : BeginModifyStatus(w, o, i, s)
    \/ BeginAddDelivery(w, o)

Commit(w) ==
    \/ CommitOrdering(w)
    \/ CommitCancel(w)
    \/ CommitModifyOrder(w)
    \/ CommitModifyDelivery(w)
    \/ CommitModifyStatus(w)
    \/ CommitAddDelivery(w)

Next ==
    \/ \E o \in Orders : Page(o)
    \/ \E w \in Workers, o \in Orders : Begin(w, o)
    \/ \E w \in Workers : Commit(w) \/ CallGateway(w) \/ Rollback(w)

Spec == Init /\ [][Next]_vars

(* Served requests finish, a waiting order request is eventually given a   *)
(* thread, and the browser stays open: it hears the answer, or compensates. *)
Fairness ==
    /\ \A w \in Workers : WF_vars(Commit(w)) /\ WF_vars(CallGateway(w))
    /\ \A o \in Orders :
        /\ SF_vars(\E w \in Workers : BeginOrdering(w, o))
        /\ WF_vars(Respond(o))
        /\ WF_vars(Compensate(o))

FairSpec == Spec /\ Fairness

-----------------------------------------------------------------------------
(***************************************************************************)
(* Invariants.                                                             *)
(***************************************************************************)

(* Every table holds rows of its type and every open transaction holds a   *)
(* well-formed view of them.                                               *)
TypeOK ==
    /\ member \in [Members -> MemberRow]
    /\ orders \in [Orders -> OrderState]
    /\ delivery \in [Orders -> Seq(Status)]
    /\ ledger \in [Orders -> Seq(LedgerRow)]
    /\ used \in [Coupons -> BOOLEAN]
    /\ payment \in [Orders -> {"none", "paid", "cancelled"}]
    /\ client \in [Orders -> {"none", "paid", "sent", "done", "failed", "closed"}]
    /\ form \in [Orders -> Form \union {NoForm}]
    /\ tx \in [Workers -> Transaction \union {Idle}]

(* rows opens with the row ordering writes for f, and every later row      *)
(* cancels that one to the point.                                          *)
Reverses(f, rows) ==
    /\ rows # <<>>
    /\ rows[1].type = (IF f.used = 0 THEN "ORDER" ELSE "ORDER_USED")
    /\ f.used > 0 => rows[1].amount = -f.used
    /\ \A i \in DOMAIN rows \ {1} :
            rows[i] = [type |-> "ORDER_CANCEL", amount |-> -rows[1].amount]

(* The points of an order are moved by exactly one placement row, of the   *)
(* type its used points call for, and every later row of the order cancels *)
(* that row to the point: whatever requests overlap, roll back or are      *)
(* repeated, cancel reverses the reward that was really given              *)
(* (ordering 123-132, cancel 244-264).                                     *)
CancelReversesPlacement ==
    \A o \in Orders :
        IF orders[o] = "none" THEN ledger[o] = <<>>
                              ELSE Reverses(form[o], ledger[o])

(* The rows of reserves_history that are about the orders of m. *)
HistoryOf(m) ==
    UNION { {o} \X DOMAIN ledger[o] :
            o \in {p \in Orders : form[p] # NoForm /\ form[p].member = m} }

LedgerSum(m) ==
    SumFunctionOnSet([r \in HistoryOf(m) |-> ledger[r[1]][r[2]].amount], HistoryOf(m))

(* The orders of m that earned points and were cancelled. *)
EarnedAndCancelled(m) ==
    {o \in Orders : /\ form[o] # NoForm /\ form[o].member = m
                    /\ Len(ledger[o]) = 2 /\ ledger[o][1].type = "ORDER"}

RewardSum(m) ==
    SumFunctionOnSet([o \in EarnedAndCancelled(m) |-> ledger[o][1].amount],
                     EarnedAndCancelled(m))

(* What the member row holds is what its history explains, except for      *)
(* cancel's flush of a negated amount: every cancelled earning order       *)
(* leaves twice its reward on top (cancel 251-254).                        *)
BalanceExplained ==
    \A m \in Members :
        member[m].reserves = InitReserves + LedgerSum(m) + 2 * RewardSum(m)

(* A coupon marked used is held by a live order. *)
UsedCouponHeld ==
    \A c \in Coupons : used[c] =>
        \E o \in Orders : orders[o] = "live" /\ form[o].coupon = c

(* No later request undoes a cancel or removes an order: a change of the   *)
(* contact, which writes the whole row back, a second cancel or an admin   *)
(* (Order.modify 167-173, Order.cancel 163-165).                           *)
CancelIsFinal ==
    [][\A o \in Orders : orders[o] # "none" => orders'[o] \in {orders[o], "cancelled"}]_vars

(* Money taken ends up as an order or is given back. *)
PaidIsSettled ==
    \A o \in Orders : client[o] = "paid" ~>
        (orders[o] # "none" \/ payment[o] = "cancelled")

(* The customer does not see that a cancel has called the gateway until    *)
(* its rows are written.                                                   *)
MoneySeen ==
    [o \in Orders |->
        IF orders[o] = "live" /\ \E w \in Workers :
                Runs(w, "cancel") /\ tx[w].order = o /\ tx[w].called
           THEN "paid" ELSE payment[o]]

(* What the history says of an order's points. *)
PointsSeen ==
    [o \in Orders |-> CASE ledger[o] = <<>> -> "none"
                        [] Len(ledger[o]) = 1 -> "placed"
                        [] Len(ledger[o]) = 2 -> "reversed"
                        [] OTHER -> "reversed twice"]

Contract == INSTANCE OrderContract WITH
                money <- MoneySeen, order <- orders, points <- PointsSeen

(* The page, the threads and the gateway together implement the contract   *)
(* of an order, one request of a member at a time: a live order keeps the  *)
(* money, and however a cancel, an admin and the gateway interleave, a     *)
(* cancel takes back row, points and money at once and nothing revives the *)
(* order (ordering, cancel, modify, OrderController.cancel, order.js).     *)
ImplementsContract == Contract!Spec
=============================================================================
