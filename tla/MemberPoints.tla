----------------------------- MODULE MemberPoints -----------------------------
(***************************************************************************)
(* The reserve points of one member and all that writes them: the reviews  *)
(* he is paid for (ReviewService, ReviewAdminService.payReserves), the     *)
(* admin (MemberAdminService.updateReserves), his orders and cancels       *)
(* (OrderService) and the changes of his account (MemberService), with the *)
(* admin pages reviewDetail (review.js) and memberDetail (member.js).      *)
(* Amounts are counted in the pay of a review without photo.               *)
(*                                                                         *)
(* A transaction writes the member and the review as whole rows, with what *)
(* it read of them when it began; the tables hold no unique key on either  *)
(* the review of an order item or the history of a review.                 *)
(***************************************************************************)
EXTENDS Integers, FiniteSets

CONSTANTS
    OrderItems,  \* order items of the member
    Purchases,   \* orders the member may place
    Workers,     \* request threads of the server
    Pays,        \* what the review detail pays
    Minus, Plus, \* what the member detail takes and gives
    Rewards,     \* points an order may earn
    Uses,        \* points an order may use
    Opening,     \* points the member starts with
    MaxReviews,  \* bound: reviews ever written
    MaxPayRows,  \* bound: times a review is paid for
    MaxClash,    \* bound: rows that two requests are open on at once
    MaxUpdates,  \* bound: clicks in the member detail, and account changes
    MaxHandlers  \* bound: times the member detail is opened

Ids == 1..MaxReviews

(* Beside reviews and order items, the row two requests can meet on. *)
Points == 0

ASSUME PointsAssumption ==
    /\ Pays \subseteq Nat
    /\ Minus \subseteq Nat /\ Plus \subseteq Nat
    /\ Rewards \subseteq Nat /\ Uses \subseteq Nat \ {0}
    /\ Opening \in Nat
    /\ MaxReviews \in Nat /\ MaxPayRows \in Nat /\ MaxClash \in Nat
    /\ MaxUpdates \in Nat /\ MaxHandlers \in Nat
    /\ OrderItems \cap (0..MaxReviews) = {} /\ "none" \notin OrderItems
    /\ "none" \notin Purchases

VARIABLES
    reserves,  \* member.reserves
    total,     \* sum of the member's reserves_history
    payRows,   \* reserves_history rows of type REVIEW, by review
    reviews,   \* rows of review, by id
    purchases, \* orders, with the balance their page showed and the points moved
    member,    \* member detail of an admin
    updates,   \* clicks in the member detail and account changes so far
    tx,        \* open transaction of a request thread
    clash,     \* history: rows that two requests have been open on at once
    regained   \* history: twice the rewards of the cancelled orders

dbVars == <<reserves, total, payRows, reviews, purchases, regained>>
vars == <<reserves, total, payRows, reviews, purchases, member, updates, tx, clash, regained>>

Absent == [item |-> "none"]
Review == [item: OrderItems, paid: BOOLEAN]

Idle == [op |-> "idle"]

Purchase == [state: {"none", "open", "sent", "placed", "cancelled"},
             shown: Int, moved: Int]

(* What a request will write; points is the member's as read. *)
Transaction ==
    [op: {"write", "modify", "pay", "update", "ordering", "cancel", "account"},
     id: Ids \union {0}, item: OrderItems \union {"none"},
     order: Purchases \union {"none"}, paid: BOOLEAN, points: Int, amount: Int]

(* A request that reads the points of the member, to add an amount.        *)
OfPoints(op, amount) ==
    [op |-> op, id |-> 0, item |-> "none", order |-> "none", paid |-> FALSE,
     points |-> reserves, amount |-> amount]

Present(r) == reviews[r] # Absent

ReviewsOf(i) == {r \in Ids : Present(r) /\ reviews[r].item = i}

(* The rows a transaction writes or decides on. *)
Touched(t) ==
    CASE t.op = "write"  -> {t.item}
      [] t.op = "modify" -> {t.id}
      [] t.op = "pay"    -> {t.id, Points}
      [] t.op \in {"update", "ordering", "cancel", "account"} -> {Points}
      [] OTHER           -> {}

-----------------------------------------------------------------------------
Init ==
    /\ reserves = Opening /\ total = Opening
    /\ payRows = [r \in Ids |-> 0]
    /\ reviews = [r \in Ids |-> Absent]
    /\ purchases = [o \in Purchases |-> [state |-> "none", shown |-> 0, moved |-> 0]]
    /\ member = [handlers |-> 0, shown |-> 0, left |-> 0, amount |-> 0]
    /\ updates = 0
    /\ tx = [w \in Workers |-> Idle]
    /\ clash = {} /\ regained = 0

-----------------------------------------------------------------------------
Open(w, t) ==
    /\ tx[w] = Idle
    /\ tx' = [tx EXCEPT ![w] = t]
    /\ clash' = clash \union UNION {Touched(t) \cap Touched(tx[v]) : v \in Workers}
    /\ Cardinality(clash') <= MaxClash

Close(w) == tx' = [tx EXCEPT ![w] = Idle]

(* Anything thrown: the page shows an alert. *)
Rollback(w) ==
    /\ tx[w] # Idle
    /\ Close(w)
    /\ UNCHANGED <<dbVars, member, updates, clash>>

-----------------------------------------------------------------------------
(***************************************************************************)
(* ReviewService.  The member's page offers one form per delivered item.   *)
(***************************************************************************)
NeverFound(i) == TRUE  \* mutant: an existing review is not returned

(* One that is there is returned, two make the query throw. *)
Unreviewed(i) == ReviewsOf(i) = {}

(* The latest delivery of an item is DELIVERED or not independently of all *)
(* that is here: a request meets either, and fails if it is not.           *)
BeginWrite(w, i) ==
    /\ Unreviewed(i)
    /\ Open(w, [op |-> "write", id |-> 0, item |-> i, order |-> "none", paid |-> FALSE,
                points |-> 0, amount |-> 0])
    /\ UNCHANGED <<dbVars, member, updates>>

NewReviewUnlinked(i) == [item |-> "none", paid |-> FALSE]  \* mutant: no setOrderItem

NewReview(i) == [item |-> i, paid |-> FALSE]

CommitWrite(w) ==
    /\ tx[w].op = "write"
    /\ \E r \in Ids :
        /\ \A s \in Ids : s < r <=> Present(s)
        /\ reviews' = [reviews EXCEPT ![r] = NewReview(tx[w].item)]
    /\ Close(w)
    /\ UNCHANGED <<reserves, total, payRows, purchases, member, updates, clash, regained>>

(* What the writer changes is not part of the model; the row is. *)
BeginModify(w, r) ==
    /\ Present(r)
    /\ Open(w, [op |-> "modify", id |-> r, item |-> reviews[r].item, order |-> "none",
                paid |-> reviews[r].paid, points |-> 0, amount |-> 0])
    /\ UNCHANGED <<dbVars, member, updates>>

(* The whole row, reserves_paid included. *)
SaveReview(t) == reviews' = [reviews EXCEPT ![t.id] = [item |-> t.item, paid |-> t.paid]]

CommitModify(w) ==
    /\ tx[w].op = "modify"
    /\ SaveReview(tx[w])
    /\ Close(w)
    /\ UNCHANGED <<reserves, total, payRows, purchases, member, updates, clash, regained>>

-----------------------------------------------------------------------------
(***************************************************************************)
(* reviewDetail and ReviewAdminService.payReserves.                        *)
(***************************************************************************)
PaidIgnored(r) == FALSE  \* mutant: isReservesPaid is left to the page

AlreadyPaid(r) == reviews[r].paid

(* Some tab may still show the review with the button it had when it was   *)
(* unpaid, and pays as for a review with a photo or without.  One that is  *)
(* paid is answered without a change.                                      *)
BeginPay(w, r, amount) ==
    /\ Present(r) /\ ~AlreadyPaid(r)
    /\ payRows[r] < MaxPayRows
    /\ Open(w, [op |-> "pay", id |-> r, item |-> reviews[r].item, order |-> "none",
                paid |-> TRUE, points |-> reserves, amount |-> amount])
    /\ UNCHANGED <<dbVars, member, updates>>

AddedTwice(t) == t.points + 2 * t.amount  \* mutant: the history row adds it again

(* addReserves, and flushReserves with the sign turned: no lower bound. *)
AddReserves(t) == t.points + t.amount

CommitPay(w) ==
    /\ tx[w].op = "pay"
    /\ reserves' = AddReserves(tx[w])
    /\ total' = total + tx[w].amount
    /\ payRows' = [payRows EXCEPT ![tx[w].id] = @ + 1]
    /\ SaveReview(tx[w])
    /\ Close(w)
    /\ UNCHANGED <<purchases, member, updates, clash, regained>>

-----------------------------------------------------------------------------
(***************************************************************************)
(* memberDetail and MemberAdminService.updateReserves.                     *)
(***************************************************************************)

(* Every init adds a click handler and none is removed. *)
OpenMember ==
    /\ member.handlers < MaxHandlers
    /\ member' = [member EXCEPT !.handlers = @ + 1]
    /\ UNCHANGED <<dbVars, updates, tx, clash>>

(* init loads the member, and so does done.  What is shown while a click's *)
(* requests wait makes a difference to the next click only.                *)
ShowMember ==
    /\ member.handlers > 0 /\ member.left = 0
    /\ member' = [member EXCEPT !.shown = reserves]
    /\ UNCHANGED <<dbVars, updates, tx, clash>>

Covered(minus) == member.shown - minus >= 0

(* Each handler sends a request of its own. *)
PressPay(minus, plus) ==
    /\ updates < MaxUpdates
    /\ member.handlers > 0 /\ member.left = 0
    /\ Covered(minus)
    /\ member' = [member EXCEPT !.left = member.handlers, !.amount = plus - minus]
    /\ updates' = updates + 1
    /\ UNCHANGED <<dbVars, tx, clash>>

BeginUpdate(w) ==
    /\ member.left > 0
    /\ member' = [member EXCEPT !.left = @ - 1]
    /\ Open(w, OfPoints("update", member.amount))
    /\ UNCHANGED <<dbVars, updates>>

CommitUpdate(w) ==
    /\ tx[w].op = "update"
    /\ reserves' = AddReserves(tx[w])
    /\ total' = total + tx[w].amount
    /\ Close(w)
    /\ UNCHANGED <<payRows, reviews, purchases, member, updates, clash, regained>>

-----------------------------------------------------------------------------
(***************************************************************************)
(* OrderService and MemberService.                                         *)
(***************************************************************************)

(* The checkout page loads the balance. *)
OpenOrder(o) ==
    /\ purchases[o].state = "none"
    /\ purchases' = [purchases EXCEPT ![o].state = "open", ![o].shown = reserves]
    /\ UNCHANGED <<reserves, total, payRows, reviews, member, updates, tx, clash, regained>>

(* An order earns points, or uses no more than its page showed. *)
BeginOrdering(w, o, amount) ==
    /\ purchases[o].state = "open"
    /\ amount < 0 => -amount <= purchases[o].shown
    /\ purchases' = [purchases EXCEPT ![o].state = "sent"]
    /\ Open(w, [OfPoints("ordering", amount) EXCEPT !.order = o])
    /\ UNCHANGED <<reserves, total, payRows, reviews, member, updates, regained>>

CommitOrdering(w) ==
    /\ tx[w].op = "ordering"
    /\ reserves' = AddReserves(tx[w])
    /\ total' = total + tx[w].amount
    /\ purchases' = [purchases EXCEPT ![tx[w].order].state = "placed",
                                      ![tx[w].order].moved = tx[w].amount]
    /\ Close(w)
    /\ UNCHANGED <<payRows, reviews, member, updates, clash, regained>>

(* Once its ORDER_CANCEL row is there, a cancel leaves the points alone.   *)
BeginCancel(w, o) ==
    /\ purchases[o].state = "placed"
    /\ Open(w, [OfPoints("cancel", 0) EXCEPT !.order = o])
    /\ UNCHANGED <<dbVars, member, updates>>

(* The history takes the points back; the member is given them, used ones  *)
(* and, for the sign of a reward is turned twice, earned ones as well.     *)
CommitCancel(w) ==
    /\ tx[w].op = "cancel"
    /\ LET moved == purchases[tx[w].order].moved
       IN  /\ reserves' = tx[w].points + (IF moved < 0 THEN -moved ELSE moved)
           /\ total' = total - moved
           /\ regained' = regained + (IF moved < 0 THEN 0 ELSE 2 * moved)
    /\ purchases' = [purchases EXCEPT ![tx[w].order].state = "cancelled"]
    /\ Close(w)
    /\ UNCHANGED <<payRows, reviews, member, updates, clash>>

(* A change of the password or of the contact writes the whole member. *)
BeginAccount(w) ==
    /\ updates < MaxUpdates
    /\ updates' = updates + 1
    /\ Open(w, OfPoints("account", 0))
    /\ UNCHANGED <<dbVars, member>>

CommitAccount(w) ==
    /\ tx[w].op = "account"
    /\ reserves' = AddReserves(tx[w])
    /\ Close(w)
    /\ UNCHANGED <<total, payRows, reviews, purchases, member, updates, clash, regained>>

-----------------------------------------------------------------------------
Reviewing(w) ==
    \/ \E i \in OrderItems : BeginWrite(w, i)
    \/ \E r \in Ids : BeginModify(w, r)
    \/ CommitWrite(w)
    \/ CommitModify(w)

Paying(w) ==
    \/ \E r \in Ids, amount \in Pays : BeginPay(w, r, amount)
    \/ CommitPay(w)
    \/ BeginUpdate(w)
    \/ CommitUpdate(w)

Ordering(w) ==
    \/ \E o \in Purchases, amount \in Rewards \union {-u : u \in Uses} :
            BeginOrdering(w, o, amount)
    \/ CommitOrdering(w)
    \/ \E o \in Purchases : BeginCancel(w, o)
    \/ CommitCancel(w)
    \/ BeginAccount(w)
    \/ CommitAccount(w)

Next ==
    \/ \E w \in Workers : Reviewing(w) \/ Paying(w) \/ Ordering(w) \/ Rollback(w)
    \/ OpenMember \/ ShowMember
    \/ \E minus \in Minus, plus \in Plus : PressPay(minus, plus)
    \/ \E o \in Purchases : OpenOrder(o)

Spec == Init /\ [][Next]_vars

-----------------------------------------------------------------------------
(* The rows, the pages and the transactions hold values of their types.    *)
TypeOK ==
    /\ reserves \in Int /\ total \in Int
    /\ payRows \in [Ids -> Nat]
    /\ reviews \in [Ids -> Review \union {Absent}]
    /\ purchases \in [Purchases -> Purchase]
    /\ member \in [handlers: Nat, shown: Int, left: Nat, amount: Int]
    /\ updates \in 0..MaxUpdates
    /\ tx \in [Workers -> Transaction \union {Idle}]
    /\ clash \subseteq OrderItems \union Ids \union {Points}
    /\ regained \in Int

(* A review is paid for once and is marked so, whatever pages still offer  *)
(* the button and however often its writer changes it, unless two requests *)
(* were open on the review at the same time (payReserves 51-54).           *)
ReviewPaidOnce ==
    \A r \in Ids \ clash :
        payRows[r] = (IF Present(r) /\ reviews[r].paid THEN 1 ELSE 0)

(* The points of the member are what the history adds up to and, for every *)
(* cancelled order that had earned some, twice its reward, unless two      *)
(* requests wrote the member at the same time: reviews, admins, orders     *)
(* with what an old page showed, cancels and account changes all write the *)
(* whole row, and another one's points with it (Member 168-184).           *)
PointsExplained == Points \notin clash => reserves = total + regained

(* An order item has one review, unless it was sent twice at once          *)
(* (ReviewService.write 124-128).                                          *)
OneReviewPerItem ==
    \A i \in OrderItems \ clash : \A r, s \in ReviewsOf(i) : r = s
=============================================================================
