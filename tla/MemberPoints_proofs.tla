------------------------- MODULE MemberPoints_proofs --------------------------
(***************************************************************************)
(* TypeOK, ReviewPaidOnce, PointsExplained and OneReviewPerItem for any    *)
(* number of request threads, reviews, orders and amounts; and the         *)
(* properties of the pages the requests come from (Pages), a machine of    *)
(* its own.                                                                *)
(*                                                                         *)
(* The argument: on a row that is not in clash at most one transaction is  *)
(* open, so what that transaction has read of the row is what the row      *)
(* still holds when it commits.                                            *)
(***************************************************************************)
EXTENDS MemberPoints, Pages, SequenceTheorems, TLAPS

(* A transaction that is open on a row names it. *)
Named ==
    \A w \in Workers :
        /\ tx[w].op = "write" => tx[w].item \in OrderItems
        /\ tx[w].op \in {"modify", "pay"} =>
              /\ tx[w].id \in Ids
              /\ Present(tx[w].id)
              /\ tx[w].item = reviews[tx[w].id].item
        /\ tx[w].op = "pay" => tx[w].paid
        /\ tx[w].op \in {"ordering", "cancel"} => tx[w].order \in Purchases
        /\ tx[w].op = "account" => tx[w].amount = 0

(* The requests that write the points they have read. *)
ReadsPoints(t) == t.op \in {"pay", "update", "ordering", "cancel", "account"}

(* At most one transaction is open on a row that is not in clash. *)
Alone ==
    \A v, w \in Workers : \A k \in Touched(tx[v]) \cap Touched(tx[w]) :
        v = w \/ k \in clash

(* What the open transactions have read still holds. *)
ItemRead ==
    \A w \in Workers : tx[w].op = "write" /\ tx[w].item \notin clash => Unreviewed(tx[w].item)

ReviewRead ==
    \A w \in Workers :
        /\ tx[w].op = "modify" /\ tx[w].id \notin clash => tx[w].paid = reviews[tx[w].id].paid
        /\ tx[w].op = "pay" /\ tx[w].id \notin clash => ~AlreadyPaid(tx[w].id)

PointsRead ==
    \A w \in Workers : ReadsPoints(tx[w]) /\ Points \notin clash => tx[w].points = reserves

Inv == /\ TypeOK /\ Named /\ Alone /\ ItemRead /\ ReviewRead /\ PointsRead
       /\ ReviewPaidOnce /\ PointsExplained /\ OneReviewPerItem

-----------------------------------------------------------------------------
(* A row that is there has all its columns. *)
LEMMA PresentReview ==
    ASSUME NEW r \in Ids, TypeOK
    PROVE  Present(r) <=> reviews[r] \in Review
  BY DEF TypeOK, Present, Absent, Review

(* Review ids are no order items and not the row of the points. *)
LEMMA RowsDiffer ==
    /\ Points \notin Ids /\ Points \notin OrderItems
    /\ \A i \in OrderItems : i \notin Ids
  BY PointsAssumption DEF Points, Ids

(* What each kind of transaction is open on. *)
LEMMA TouchedRows ==
    ASSUME NEW t \in Transaction \union {Idle}
    PROVE  /\ t.op = "write" => Touched(t) = {t.item}
           /\ t.op = "modify" => Touched(t) = {t.id}
           /\ t.op = "pay" => Touched(t) = {t.id, Points}
           /\ t.op \in {"update", "ordering", "cancel", "account"} => Touched(t) = {Points}
           /\ t = Idle => Touched(t) = {}
  BY DEF Touched, Idle, Transaction

-----------------------------------------------------------------------------
LEMMA InitInv == Init => Inv
  <1> SUFFICES ASSUME Init PROVE Inv  OBVIOUS
  <1>1. TypeOK
    <2>1. tx \in [Workers -> Transaction \union {Idle}]
      BY DEF Init
    <2>2. /\ reserves \in Int /\ total \in Int /\ updates \in 0..MaxUpdates
          /\ member \in [handlers: Nat, shown: Int, left: Nat, amount: Int]
      BY PointsAssumption DEF Init
    <2>3. /\ payRows \in [Ids -> Nat] /\ reviews \in [Ids -> Review \union {Absent}]
          /\ clash \subseteq OrderItems \union Ids \union {Points} /\ regained \in Int
      BY DEF Init
    <2>4. purchases \in [Purchases -> Purchase]
      BY DEF Init, Purchase
    <2> QED  BY <2>1, <2>2, <2>3, <2>4 DEF TypeOK
  <1>2. \A w \in Workers : tx[w] = Idle /\ tx[w].op = "idle" /\ Touched(tx[w]) = {}
    BY TouchedRows DEF Init, Idle
  <1>3. \A r \in Ids : ~Present(r)
    BY DEF Init, Present
  <1>4. Named /\ Alone /\ ItemRead /\ ReviewRead /\ PointsRead
    BY <1>2 DEF Named, Alone, ItemRead, ReviewRead, PointsRead, ReadsPoints
  <1>5. ReviewPaidOnce /\ OneReviewPerItem
    BY <1>3 DEF Init, ReviewPaidOnce, OneReviewPerItem, ReviewsOf
  <1>6. PointsExplained
    BY PointsAssumption DEF Init, PointsExplained
  <1> QED
    BY <1>1, <1>4, <1>5, <1>6 DEF Inv

-----------------------------------------------------------------------------
(***************************************************************************)
(* Opening and closing a transaction.                                      *)
(***************************************************************************)

(* Two transactions that meet put the row in clash. *)
LEMMA OpenAlone ==
    ASSUME NEW w \in Workers, NEW t \in Transaction, TypeOK, Alone, Open(w, t)
    PROVE  Alone' /\ clash \subseteq clash'
  <1> DEFINE met == UNION {Touched(t) \cap Touched(tx[v]) : v \in Workers}
  <1>1. clash' = clash \union met /\ tx' = [tx EXCEPT ![w] = t] /\ tx \in [Workers -> Transaction \union {Idle}]
    BY DEF Open, TypeOK
  <1>2. ASSUME NEW u \in Workers, NEW v \in Workers,
               NEW k \in Touched(tx'[u]) \cap Touched(tx'[v]), u # v
        PROVE  k \in clash'
    <2>1. CASE u # w /\ v # w
      BY <1>1, <1>2, <2>1 DEF Alone
    <2>2. CASE u = w
      <3>1. tx'[u] = t /\ tx'[v] = tx[v]
        BY <1>1, <1>2, <2>2
      <3>2. k \in Touched(t) \cap Touched(tx[v])
        BY <3>1
      <3> QED  BY <1>1, <3>2
    <2>3. CASE v = w
      <3>1. tx'[v] = t /\ tx'[u] = tx[u]
        BY <1>1, <1>2, <2>3
      <3>2. k \in Touched(t) \cap Touched(tx[u])
        BY <3>1
      <3> QED  BY <1>1, <3>2
    <2> QED  BY <2>1, <2>2, <2>3
  <1>3. \A u, v \in Workers : \A k \in Touched(tx'[u]) \cap Touched(tx'[v]) : u = v \/ k \in clash'
    BY <1>2
  <1> QED  BY <1>1, <1>3 DEF Alone

(* A transaction that ends leaves the others alone. *)
LEMMA CloseAlone ==
    ASSUME NEW w \in Workers, TypeOK, Alone, Close(w), clash' = clash
    PROVE  /\ Alone'
           /\ tx' \in [Workers -> Transaction \union {Idle}]
           /\ tx'[w] = Idle
           /\ \A v \in Workers : v # w => tx'[v] = tx[v]
  <1>1. tx' = [tx EXCEPT ![w] = Idle] /\ tx \in [Workers -> Transaction \union {Idle}]
    BY DEF Close, TypeOK
  <1>2. tx'[w] = Idle /\ \A v \in Workers : v # w => tx'[v] = tx[v]
    BY <1>1
  <1>3. Touched(tx'[w]) = {}
    BY <1>2, TouchedRows
  <1>4. tx' \in [Workers -> Transaction \union {Idle}]
    BY <1>1
  <1>5. ASSUME NEW u \in Workers, NEW v \in Workers,
               NEW k \in Touched(tx'[u]) \cap Touched(tx'[v])
        PROVE  u = v \/ k \in clash'
    <2>1. u # w /\ v # w
      BY <1>3, <1>5
    <2> QED  BY <1>2, <1>5, <2>1 DEF Alone
  <1> QED  BY <1>2, <1>4, <1>5 DEF Alone

(* A transaction that begins with what the rows hold keeps the invariant.  *)
LEMMA OpenInv ==
    ASSUME NEW w \in Workers, NEW t \in Transaction, Inv, Open(w, t),
           UNCHANGED <<reserves, total, payRows, reviews, regained>>, TypeOK',
           t.op = "write" => t.item \in OrderItems /\ Unreviewed(t.item),
           t.op \in {"modify", "pay"} =>
                t.id \in Ids /\ Present(t.id) /\ t.item = reviews[t.id].item,
           t.op = "modify" => t.paid = reviews[t.id].paid,
           t.op = "pay" => t.paid /\ ~AlreadyPaid(t.id),
           t.op \in {"ordering", "cancel"} => t.order \in Purchases,
           t.op = "account" => t.amount = 0,
           ReadsPoints(t) => t.points = reserves
    PROVE  Inv'
  <1>1. Alone' /\ clash \subseteq clash'
    BY OpenAlone DEF Inv
  <1>2. tx'[w] = t /\ \A v \in Workers : v # w => tx'[v] = tx[v]
    BY DEF Open, Inv, TypeOK
  <1>3. Named'
    BY <1>2 DEF Named, Inv, Present
  <1>4. ItemRead'
    BY <1>1, <1>2 DEF ItemRead, Inv, Unreviewed, ReviewsOf, Present
  <1>5. ReviewRead'
    BY <1>1, <1>2 DEF ReviewRead, Inv, AlreadyPaid
  <1>6. PointsRead'
    BY <1>1, <1>2 DEF PointsRead, Inv
  <1>7. ReviewPaidOnce' /\ PointsExplained' /\ OneReviewPerItem'
    BY <1>1 DEF ReviewPaidOnce, PointsExplained, OneReviewPerItem, Inv, ReviewsOf, Present
  <1> QED  BY <1>1, <1>3, <1>4, <1>5, <1>6, <1>7 DEF Inv

(* Steps that open nothing and change no row keep the invariant. *)
LEMMA IdleInv ==
    ASSUME Inv, TypeOK', UNCHANGED <<reserves, total, payRows, reviews, regained, tx, clash>>
    PROVE  Inv'
  BY DEF Inv, Named, Alone, ItemRead, ReviewRead, PointsRead, ReviewPaidOnce,
         PointsExplained, OneReviewPerItem, ReviewsOf, Unreviewed, Present, AlreadyPaid

-----------------------------------------------------------------------------
(***************************************************************************)
(* One lemma per action that opens a transaction or writes a row.          *)
(***************************************************************************)
LEMMA OpenType ==
    ASSUME NEW w \in Workers, NEW t \in Transaction, TypeOK, Open(w, t),
           UNCHANGED <<reserves, total, payRows, reviews, regained>>,
           purchases' \in [Purchases -> Purchase], updates' \in 0..MaxUpdates,
           member' \in [handlers: Nat, shown: Int, left: Nat, amount: Int],
           Touched(t) \subseteq OrderItems \union Ids \union {Points}
    PROVE  TypeOK'
  <1>1. tx' \in [Workers -> Transaction \union {Idle}]
    BY DEF Open, TypeOK
  <1>2. clash' \subseteq OrderItems \union Ids \union {Points}
    BY DEF Open, TypeOK
  <1> QED  BY <1>1, <1>2 DEF TypeOK

LEMMA RollbackInv == ASSUME NEW w \in Workers, Inv, Rollback(w) PROVE Inv'
  <1>1. /\ Alone'
        /\ tx' \in [Workers -> Transaction \union {Idle}]
        /\ tx'[w] = Idle
        /\ \A v \in Workers : v # w => tx'[v] = tx[v]
    BY CloseAlone DEF Rollback, Inv
  <1> USE DEF Rollback, dbVars
  <1>2. TypeOK'
    BY <1>1 DEF Inv, TypeOK
  <1>3. Named' /\ ItemRead' /\ ReviewRead' /\ PointsRead'
    BY <1>1 DEF Inv, Named, ItemRead, ReviewRead, PointsRead, ReadsPoints, Idle, Present,
                Unreviewed, ReviewsOf, AlreadyPaid
  <1>4. ReviewPaidOnce' /\ PointsExplained' /\ OneReviewPerItem'
    BY DEF Inv, ReviewPaidOnce, PointsExplained, OneReviewPerItem, ReviewsOf, Present
  <1> QED  BY <1>1, <1>2, <1>3, <1>4 DEF Inv

LEMMA BeginWriteInv ==
    ASSUME NEW w \in Workers, NEW i \in OrderItems, Inv, BeginWrite(w, i) PROVE Inv'
  <1> DEFINE t == [op |-> "write", id |-> 0, item |-> i, order |-> "none",
                   paid |-> FALSE, points |-> 0, amount |-> 0]
  <1>1. t \in Transaction /\ Open(w, t) /\ UNCHANGED <<dbVars, updates, member>>
    BY DEF BeginWrite, Transaction
  <1>2. Touched(t) = {i}
    BY <1>1, TouchedRows
  <1>3. TypeOK'
    BY <1>1, <1>2, OpenType DEF Inv, TypeOK, dbVars
  <1>4. /\ t.op = "write" /\ t.item = i
        /\ Unreviewed(i)
    BY DEF BeginWrite
  <1> HIDE DEF t
  <1> QED  BY <1>1, <1>3, <1>4, OpenInv DEF dbVars, ReadsPoints

LEMMA BeginModifyInv ==
    ASSUME NEW w \in Workers, NEW r \in Ids, Inv, BeginModify(w, r) PROVE Inv'
  <1> DEFINE t == [op |-> "modify", id |-> r, item |-> reviews[r].item, order |-> "none",
                   paid |-> reviews[r].paid, points |-> 0, amount |-> 0]
  <1>1. reviews[r] \in Review
    BY PresentReview DEF BeginModify, Inv
  <1>2. t \in Transaction /\ Open(w, t) /\ UNCHANGED <<dbVars, updates, member>>
    BY <1>1 DEF BeginModify, Transaction, Review
  <1>3. Touched(t) = {r}
    BY <1>2, TouchedRows
  <1>4. TypeOK'
    BY <1>2, <1>3, OpenType DEF Inv, TypeOK, dbVars
  <1>5. /\ t.op = "modify" /\ t.id = r /\ t.item = reviews[r].item
        /\ t.paid = reviews[r].paid /\ Present(r)
    BY DEF BeginModify
  <1> HIDE DEF t
  <1> QED  BY <1>2, <1>4, <1>5, OpenInv DEF dbVars, ReadsPoints

LEMMA BeginPayInv ==
    ASSUME NEW w \in Workers, NEW r \in Ids, NEW amount \in Pays, Inv, BeginPay(w, r, amount)
    PROVE  Inv'
  <1> DEFINE t == [op |-> "pay", id |-> r, item |-> reviews[r].item, order |-> "none",
                   paid |-> TRUE, points |-> reserves, amount |-> amount]
  <1>1. reviews[r] \in Review
    BY PresentReview DEF BeginPay, Inv
  <1>2. t \in Transaction /\ Open(w, t) /\ UNCHANGED <<dbVars, updates, member>>
    BY <1>1, PointsAssumption DEF BeginPay, Transaction, Review, Inv, TypeOK
  <1>3. Touched(t) = {r, Points}
    BY <1>2, TouchedRows
  <1>4. TypeOK'
    BY <1>2, <1>3, OpenType DEF Inv, TypeOK, dbVars
  <1>5. /\ t.op = "pay" /\ t.id = r /\ t.item = reviews[r].item /\ t.paid
        /\ Present(r) /\ ~AlreadyPaid(r) /\ t.points = reserves
    BY DEF BeginPay
  <1> HIDE DEF t
  <1> QED  BY <1>2, <1>4, <1>5, OpenInv DEF dbVars

(* A request that reads the points and is going to write them. *)
LEMMA OfPointsInv ==
    ASSUME NEW w \in Workers, NEW t \in Transaction, Inv, Open(w, t),
           t.op \in {"update", "ordering", "cancel", "account"}, t.points = reserves,
           t.op \in {"ordering", "cancel"} => t.order \in Purchases,
           t.op = "account" => t.amount = 0,
           UNCHANGED <<reserves, total, payRows, reviews, regained>>,
           purchases' \in [Purchases -> Purchase], updates' \in 0..MaxUpdates,
           member' \in [handlers: Nat, shown: Int, left: Nat, amount: Int]
    PROVE  Inv'
  <1>1. Touched(t) = {Points}
    BY TouchedRows
  <1>2. TypeOK'
    BY <1>1, OpenType DEF Inv
  <1> QED  BY <1>2, OpenInv

LEMMA BeginUpdateInv == ASSUME NEW w \in Workers, Inv, BeginUpdate(w) PROVE Inv'
  <1> DEFINE t == OfPoints("update", member.amount)
  <1>1. /\ t \in Transaction /\ t.op = "update" /\ t.points = reserves
        /\ Open(w, t) /\ UNCHANGED <<dbVars, updates>>
    BY DEF BeginUpdate, Transaction, Inv, TypeOK, OfPoints
  <1>2. /\ member' \in [handlers: Nat, shown: Int, left: Nat, amount: Int]
        /\ purchases' \in [Purchases -> Purchase] /\ updates' \in 0..MaxUpdates
    BY DEF BeginUpdate, Inv, TypeOK, dbVars
  <1> HIDE DEF t
  <1> QED  BY <1>1, <1>2, OfPointsInv DEF dbVars

LEMMA BeginOrderingInv ==
    ASSUME NEW w \in Workers, NEW o \in Purchases, NEW amount \in Int, Inv,
           BeginOrdering(w, o, amount)
    PROVE  Inv'
  <1> DEFINE t == [OfPoints("ordering", amount) EXCEPT !.order = o]
  <1>1. /\ t \in Transaction /\ t.op = "ordering" /\ t.points = reserves /\ t.order = o
        /\ Open(w, t) /\ UNCHANGED <<reserves, total, payRows, reviews, member, updates, regained>>
    BY DEF BeginOrdering, Transaction, Inv, TypeOK, OfPoints
  <1>2. purchases' \in [Purchases -> Purchase]
    BY DEF BeginOrdering, Inv, TypeOK, Purchase
  <1> HIDE DEF t
  <1> QED  BY <1>1, <1>2, OfPointsInv DEF Inv, TypeOK

LEMMA BeginCancelInv ==
    ASSUME NEW w \in Workers, NEW o \in Purchases, Inv, BeginCancel(w, o) PROVE Inv'
  <1> DEFINE t == [OfPoints("cancel", 0) EXCEPT !.order = o]
  <1>1. t \in Transaction /\ t.op = "cancel" /\ t.points = reserves /\ t.order = o
    <2>1. reserves \in Int /\ 0 \in Int
      BY DEF Inv, TypeOK
    <2>2. OfPoints("cancel", 0) \in Transaction
      BY <2>1 DEF OfPoints, Transaction
    <2>3. /\ OfPoints("cancel", 0).op = "cancel"
          /\ OfPoints("cancel", 0).points = reserves
      BY DEF OfPoints
    <2> QED  BY <2>2, <2>3 DEF Transaction
  <1>2. Open(w, t) /\ UNCHANGED <<dbVars, member, updates>>
    BY DEF BeginCancel
  <1> HIDE DEF t
  <1> QED  BY <1>1, <1>2, OfPointsInv DEF Inv, TypeOK, dbVars

LEMMA BeginAccountInv == ASSUME NEW w \in Workers, Inv, BeginAccount(w) PROVE Inv'
  <1> DEFINE t == OfPoints("account", 0)
  <1>1. /\ t \in Transaction /\ t.op = "account" /\ t.points = reserves /\ t.amount = 0
        /\ Open(w, t) /\ UNCHANGED <<dbVars, member>>
    BY DEF BeginAccount, Transaction, Inv, TypeOK, OfPoints
  <1>2. updates' \in 0..MaxUpdates
    BY PointsAssumption DEF BeginAccount, Inv, TypeOK
  <1> HIDE DEF t
  <1> QED  BY <1>1, <1>2, OfPointsInv DEF Inv, TypeOK, dbVars

-----------------------------------------------------------------------------
LEMMA CommitWriteInv == ASSUME NEW w \in Workers, Inv, CommitWrite(w) PROVE Inv'
  <1>1. /\ Alone'
        /\ tx' \in [Workers -> Transaction \union {Idle}]
        /\ tx'[w] = Idle
        /\ \A v \in Workers : v # w => tx'[v] = tx[v]
    BY CloseAlone DEF CommitWrite, Inv
  <1>2. PICK i \in OrderItems : tx[w].item = i /\ Touched(tx[w]) = {i}
    BY TouchedRows DEF CommitWrite, Inv, Named, TypeOK
  <1>3. i \notin clash => ReviewsOf(i) = {}
    BY <1>2 DEF CommitWrite, Inv, ItemRead, Unreviewed
  <1>4. PICK r \in Ids : /\ ~Present(r)
                         /\ reviews' = [reviews EXCEPT ![r] = NewReview(i)]
    <2>1. PICK r \in Ids : /\ \A s \in Ids : s < r <=> Present(s)
                           /\ reviews' = [reviews EXCEPT ![r] = NewReview(i)]
      BY <1>2 DEF CommitWrite
    <2>2. ~(r < r)
      BY DEF Ids
    <2> QED  BY <2>1, <2>2
  <1>5. /\ NewReview(i) \in Review /\ NewReview(i).item = i /\ ~NewReview(i).paid
        /\ NewReview(i) # Absent
    BY <1>2, PointsAssumption DEF NewReview, Review, Absent
  <1>6. /\ reviews' \in [Ids -> Review \union {Absent}]
        /\ reviews'[r] = NewReview(i)
        /\ \A q \in Ids : q # r => reviews'[q] = reviews[q]
    BY <1>4, <1>5 DEF Inv, TypeOK
  <1>7. UNCHANGED <<reserves, total, payRows, purchases, member, updates, clash, regained>>
    BY DEF CommitWrite
  <1>8. TypeOK'
    BY <1>1, <1>6, <1>7 DEF Inv, TypeOK
  <1>9. \A q \in Ids : Present(q) => q # r /\ Present(q)' /\ reviews'[q] = reviews[q]
    BY <1>4, <1>6 DEF Present
  <1>10. \A q \in Ids : Present(q)' => q = r \/ Present(q)
    BY <1>6 DEF Present
  <1>11. Named' /\ ReviewRead' /\ PointsRead'
    BY <1>1, <1>7, <1>9 DEF Inv, Named, ReviewRead, PointsRead, ReadsPoints, Idle, AlreadyPaid
  <1>12. \A j \in OrderItems : j # i => ReviewsOf(j)' = ReviewsOf(j)
    BY <1>5, <1>6, <1>9, <1>10 DEF ReviewsOf
  <1>13. ItemRead'
    <2> SUFFICES ASSUME NEW v \in Workers, NEW j \in OrderItems, tx'[v].op = "write",
                        tx'[v].item = j, j \notin clash'
                 PROVE  Unreviewed(j)'
      BY <1>11 DEF ItemRead, Named
    <2>1. v # w /\ tx'[v] = tx[v] /\ tx[v].item = j
      BY <1>1 DEF Idle
    <2>2. Touched(tx[v]) = {j}
      BY <2>1, TouchedRows DEF Inv, TypeOK
    <2>3. j # i
      BY <2>1, <2>2, <1>2, <1>7 DEF Inv, Alone
    <2>4. Unreviewed(j)
      BY <2>1, <1>7 DEF Inv, ItemRead
    <2> QED  BY <2>3, <2>4, <1>12 DEF Unreviewed
  <1>14. ReviewPaidOnce'
    BY <1>4, <1>5, <1>6, <1>7, <1>9, <1>10 DEF Inv, ReviewPaidOnce
  <1>15. PointsExplained'
    BY <1>7 DEF Inv, PointsExplained
  <1>16. OneReviewPerItem'
    <2> SUFFICES ASSUME NEW j \in OrderItems \ clash', NEW q \in ReviewsOf(j)', NEW s \in ReviewsOf(j)'
                 PROVE  q = s
      BY DEF OneReviewPerItem
    <2>1. CASE j # i
      BY <2>1, <1>7, <1>12 DEF Inv, OneReviewPerItem
    <2>2. CASE j = i
      <3>1. ReviewsOf(i) = {}
        BY <2>2, <1>3, <1>7
      <3>2. \A p \in ReviewsOf(i)' : p = r
        BY <3>1, <1>6, <1>10 DEF ReviewsOf
      <3> QED  BY <2>2, <3>2
    <2> QED  BY <2>1, <2>2
  <1> QED  BY <1>1, <1>8, <1>11, <1>13, <1>14, <1>15, <1>16 DEF Inv

(* A review that is saved stays with its order item. *)
LEMMA SaveReviewRow ==
    ASSUME NEW w \in Workers, Inv, tx[w].op \in {"modify", "pay"}, SaveReview(tx[w])
    PROVE  /\ tx[w].id \in Ids /\ tx[w] \in Transaction
           /\ Present(tx[w].id)
           /\ reviews' \in [Ids -> Review \union {Absent}]
           /\ reviews'[tx[w].id].paid = tx[w].paid
           /\ \A q \in Ids : q # tx[w].id => reviews'[q] = reviews[q]
           /\ \A q \in Ids : /\ Present(q)' <=> Present(q)
                             /\ Present(q) => reviews'[q].item = reviews[q].item
  <1> DEFINE d == tx[w]
             n == [item |-> d.item, paid |-> d.paid]
  <1>1. d \in Transaction
    BY DEF Idle, Inv, TypeOK
  <1>2. d.id \in Ids /\ Present(d.id) /\ d.item = reviews[d.id].item
    BY DEF Inv, Named
  <1>3. reviews[d.id] \in Review
    BY <1>2, PresentReview DEF Inv
  <1>4. n \in Review /\ n # Absent /\ n.paid = d.paid /\ n.item = reviews[d.id].item
    BY <1>1, <1>2, <1>3, PointsAssumption DEF Review, Transaction, Absent
  <1>5. reviews' = [reviews EXCEPT ![d.id] = n]
    BY DEF SaveReview
  <1>6. reviews \in [Ids -> Review \union {Absent}]
    BY DEF Inv, TypeOK
  <1>7. reviews' \in [Ids -> Review \union {Absent}] /\ reviews'[d.id] = n
    BY <1>2, <1>4, <1>5, <1>6
  <1>8. \A q \in Ids : q # d.id => reviews'[q] = reviews[q]
    BY <1>5, <1>6
  <1> HIDE DEF n
  <1> QED  BY <1>1, <1>2, <1>4, <1>7, <1>8 DEF Present

LEMMA CommitModifyInv == ASSUME NEW w \in Workers, Inv, CommitModify(w) PROVE Inv'
  <1>1. /\ Alone'
        /\ tx' \in [Workers -> Transaction \union {Idle}]
        /\ tx'[w] = Idle
        /\ \A v \in Workers : v # w => tx'[v] = tx[v]
    BY CloseAlone DEF CommitModify, Inv
  <1> DEFINE r == tx[w].id
  <1>2. /\ r \in Ids /\ tx[w] \in Transaction
        /\ Present(r)
        /\ reviews' \in [Ids -> Review \union {Absent}]
        /\ reviews'[r].paid = tx[w].paid
        /\ \A q \in Ids : q # r => reviews'[q] = reviews[q]
        /\ \A q \in Ids : /\ Present(q)' <=> Present(q)
                          /\ Present(q) => reviews'[q].item = reviews[q].item
    BY SaveReviewRow DEF CommitModify
  <1>3. UNCHANGED <<reserves, total, payRows, purchases, member, updates, clash, regained>>
    BY DEF CommitModify
  <1>4. r \notin clash => reviews'[r].paid = reviews[r].paid
    BY <1>2 DEF CommitModify, Inv, ReviewRead
  <1>5. TypeOK'
    BY <1>1, <1>2, <1>3 DEF Inv, TypeOK
  <1>6. Named' /\ PointsRead'
    BY <1>1, <1>2, <1>3 DEF Inv, Named, PointsRead, ReadsPoints, Idle
  <1>7. \A j \in OrderItems : ReviewsOf(j)' = ReviewsOf(j)
    BY <1>2 DEF ReviewsOf
  <1>8. ItemRead'
    BY <1>1, <1>3, <1>7 DEF Inv, ItemRead, Unreviewed, Idle, Named
  <1>9. \A q \in Ids : Present(q) /\ q \notin clash => reviews'[q].paid = reviews[q].paid
    BY <1>2, <1>4
  <1>10. ReviewRead'
    BY <1>1, <1>3, <1>9 DEF Inv, ReviewRead, AlreadyPaid, Idle, Named
  <1>11. ReviewPaidOnce'
    BY <1>2, <1>3, <1>9 DEF Inv, ReviewPaidOnce
  <1>12. PointsExplained' /\ OneReviewPerItem'
    BY <1>3, <1>7 DEF Inv, PointsExplained, OneReviewPerItem
  <1> QED  BY <1>1, <1>5, <1>6, <1>8, <1>10, <1>11, <1>12 DEF Inv

LEMMA CommitPayInv == ASSUME NEW w \in Workers, Inv, CommitPay(w) PROVE Inv'
  <1>1. /\ Alone'
        /\ tx' \in [Workers -> Transaction \union {Idle}]
        /\ tx'[w] = Idle
        /\ \A v \in Workers : v # w => tx'[v] = tx[v]
    BY CloseAlone DEF CommitPay, Inv
  <1> DEFINE r == tx[w].id
  <1>2. /\ r \in Ids /\ tx[w] \in Transaction
        /\ Present(r)
        /\ reviews' \in [Ids -> Review \union {Absent}]
        /\ reviews'[r].paid = tx[w].paid
        /\ \A q \in Ids : q # r => reviews'[q] = reviews[q]
        /\ \A q \in Ids : /\ Present(q)' <=> Present(q)
                          /\ Present(q) => reviews'[q].item = reviews[q].item
    BY SaveReviewRow DEF CommitPay
  <1>3. UNCHANGED <<purchases, member, updates, clash, regained>>
    BY DEF CommitPay
  <1>4. /\ reserves' = tx[w].points + tx[w].amount /\ total' = total + tx[w].amount
        /\ tx[w].points \in Int /\ tx[w].amount \in Int
    BY <1>2 DEF CommitPay, AddReserves, Transaction
  <1>5. /\ payRows \in [Ids -> Nat] /\ payRows' \in [Ids -> Nat]
        /\ payRows'[r] = payRows[r] + 1
        /\ \A q \in Ids : q # r => payRows'[q] = payRows[q]
    BY <1>2 DEF CommitPay, Inv, TypeOK
  <1>6. Touched(tx[w]) = {r, Points}
    BY <1>2, TouchedRows DEF CommitPay
  <1>7. TypeOK'
    BY <1>1, <1>2, <1>3, <1>4, <1>5 DEF Inv, TypeOK
  <1>8. Named'
    BY <1>1, <1>2, <1>3 DEF Inv, Named, Idle
  <1>9. \A j \in OrderItems : ReviewsOf(j)' = ReviewsOf(j)
    BY <1>2 DEF ReviewsOf
  <1>10. ItemRead'
    BY <1>1, <1>3, <1>9 DEF Inv, ItemRead, Unreviewed, Idle, Named
  <1>11. ReviewRead'
    <2> SUFFICES ASSUME NEW v \in Workers, tx'[v].op \in {"modify", "pay"},
                        tx'[v].id \notin clash'
                 PROVE  reviews'[tx'[v].id].paid = reviews[tx'[v].id].paid /\ tx'[v] = tx[v]
      BY <1>3 DEF Inv, ReviewRead, AlreadyPaid
    <2>1. v # w /\ tx'[v] = tx[v] /\ tx[v].id \in Ids
      BY <1>1 DEF Idle, Inv, Named
    <2>2. tx[v].id \in Touched(tx[v])
      BY <2>1, TouchedRows DEF Inv, TypeOK
    <2>3. tx[v].id # r
      BY <2>1, <2>2, <1>3, <1>6 DEF Inv, Alone
    <2> QED  BY <2>1, <2>3, <1>2
  <1>12. PointsRead'
    <2> SUFFICES ASSUME NEW v \in Workers, ReadsPoints(tx'[v]), Points \notin clash'
                 PROVE  FALSE
      BY DEF PointsRead
    <2>1. v # w /\ tx'[v] = tx[v]
      BY <1>1 DEF Idle, ReadsPoints
    <2>2. Points \in Touched(tx[v])
      BY <2>1, TouchedRows DEF Inv, TypeOK, ReadsPoints
    <2> QED  BY <2>1, <2>2, <1>3, <1>6 DEF Inv, Alone
  <1>13. ReviewPaidOnce'
    <2> SUFFICES ASSUME NEW q \in Ids \ clash'
                 PROVE  payRows'[q] = IF Present(q)' /\ reviews'[q].paid THEN 1 ELSE 0
      BY DEF ReviewPaidOnce
    <2>1. CASE q # r
      BY <2>1, <1>2, <1>3, <1>5 DEF Inv, ReviewPaidOnce
    <2>2. CASE q = r
      <3>1. ~reviews[r].paid /\ tx[w].paid
        BY <2>2, <1>3 DEF Inv, ReviewRead, Named, AlreadyPaid, CommitPay
      <3>2. payRows[r] = 0
        BY <2>2, <3>1, <1>3 DEF Inv, ReviewPaidOnce
      <3> QED  BY <2>2, <3>1, <3>2, <1>2, <1>5
    <2> QED  BY <2>1, <2>2
  <1>14. PointsExplained'
    BY <1>3, <1>4 DEF Inv, PointsExplained, PointsRead, ReadsPoints, CommitPay, TypeOK
  <1>15. OneReviewPerItem'
    BY <1>3, <1>9 DEF Inv, OneReviewPerItem
  <1> QED  BY <1>1, <1>7, <1>8, <1>10, <1>11, <1>12, <1>13, <1>14, <1>15 DEF Inv

(* A request that writes the points and nothing of the reviews: nobody     *)
(* else has read them unless two requests met.                             *)
LEMMA CommitPointsInv ==
    ASSUME NEW w \in Workers, Inv, Close(w), UNCHANGED <<payRows, reviews, clash>>,
           tx[w].op \in {"update", "ordering", "cancel", "account"},
           TypeOK', PointsExplained'
    PROVE  Inv'
  <1>1. /\ Alone'
        /\ tx' \in [Workers -> Transaction \union {Idle}]
        /\ tx'[w] = Idle
        /\ \A v \in Workers : v # w => tx'[v] = tx[v]
    BY CloseAlone DEF Inv
  <1>2. Touched(tx[w]) = {Points}
    BY TouchedRows DEF Inv, TypeOK
  <1>3. Named' /\ ItemRead' /\ ReviewRead'
    BY <1>1 DEF Inv, Named, ItemRead, ReviewRead, Idle, Present, Unreviewed, ReviewsOf,
                AlreadyPaid
  <1>4. PointsRead'
    <2> SUFFICES ASSUME NEW v \in Workers, ReadsPoints(tx'[v]), Points \notin clash'
                 PROVE  FALSE
      BY DEF PointsRead
    <2>1. v # w /\ tx'[v] = tx[v]
      BY <1>1 DEF Idle, ReadsPoints
    <2>2. Points \in Touched(tx[v])
      BY <2>1, TouchedRows DEF Inv, TypeOK, ReadsPoints
    <2> QED  BY <2>1, <2>2, <1>2 DEF Inv, Alone
  <1>5. ReviewPaidOnce' /\ OneReviewPerItem'
    BY DEF Inv, ReviewPaidOnce, OneReviewPerItem, ReviewsOf, Present
  <1> QED  BY <1>1, <1>3, <1>4, <1>5 DEF Inv

(* What such a request holds, and that it ends with a transaction less.    *)
LEMMA CommittingPoints ==
    ASSUME NEW w \in Workers, Inv, Close(w),
           tx[w].op \in {"update", "ordering", "cancel", "account"}
    PROVE  /\ tx[w].points \in Int /\ tx[w].amount \in Int
           /\ tx' \in [Workers -> Transaction \union {Idle}]
           /\ reserves \in Int /\ total \in Int /\ regained \in Int
           /\ Points \notin clash => tx[w].points = reserves /\ reserves = total + regained
  <1>1. tx[w] \in Transaction /\ tx' \in [Workers -> Transaction \union {Idle}]
    BY DEF Close, Idle, Inv, TypeOK
  <1>2. tx[w].points \in Int /\ tx[w].amount \in Int
    BY <1>1 DEF Transaction
  <1> QED  BY <1>1, <1>2 DEF Inv, TypeOK, PointsRead, ReadsPoints, PointsExplained

LEMMA CommitUpdateInv == ASSUME NEW w \in Workers, Inv, CommitUpdate(w) PROVE Inv'
  <1>1. /\ Close(w) /\ UNCHANGED <<payRows, reviews, purchases, member, updates, clash, regained>>
        /\ tx[w].op = "update"
        /\ reserves' = tx[w].points + tx[w].amount /\ total' = total + tx[w].amount
    BY DEF CommitUpdate, AddReserves
  <1>2. TypeOK' /\ PointsExplained'
    BY <1>1, CommittingPoints DEF Inv, TypeOK, PointsExplained
  <1> QED  BY <1>1, <1>2, CommitPointsInv

LEMMA CommitOrderingInv == ASSUME NEW w \in Workers, Inv, CommitOrdering(w) PROVE Inv'
  <1>1. /\ Close(w) /\ UNCHANGED <<payRows, reviews, member, updates, clash, regained>>
        /\ tx[w].op = "ordering"
        /\ reserves' = tx[w].points + tx[w].amount /\ total' = total + tx[w].amount
    BY DEF CommitOrdering, AddReserves
  <1>2. purchases' \in [Purchases -> Purchase]
    <2>1. tx[w].order \in Purchases /\ tx[w].amount \in Int /\ purchases \in [Purchases -> Purchase]
      BY <1>1, CommittingPoints DEF Inv, Named, TypeOK
    <2> QED  BY <2>1 DEF CommitOrdering, Purchase
  <1>3. TypeOK' /\ PointsExplained'
    BY <1>1, <1>2, CommittingPoints DEF Inv, TypeOK, PointsExplained
  <1> QED  BY <1>1, <1>3, CommitPointsInv

(* Used points come back; an earned reward leaves the history and is added *)
(* to the member, which regained counts.                                   *)
LEMMA CommitCancelInv == ASSUME NEW w \in Workers, Inv, CommitCancel(w) PROVE Inv'
  <1> DEFINE o == tx[w].order
             moved == purchases[o].moved
  <1>1. /\ Close(w) /\ UNCHANGED <<payRows, reviews, member, updates, clash>>
        /\ tx[w].op = "cancel"
        /\ reserves' = tx[w].points + (IF moved < 0 THEN -moved ELSE moved)
        /\ total' = total - moved
        /\ regained' = regained + (IF moved < 0 THEN 0 ELSE 2 * moved)
        /\ purchases' = [purchases EXCEPT ![o].state = "cancelled"]
    BY DEF CommitCancel
  <1>2. o \in Purchases /\ purchases \in [Purchases -> Purchase]
    BY <1>1 DEF Inv, Named, TypeOK
  <1>3. moved \in Int /\ purchases' \in [Purchases -> Purchase]
    BY <1>1, <1>2 DEF Purchase
  <1> HIDE DEF o, moved
  <1>4. reserves' \in Int /\ total' \in Int /\ regained' \in Int
    BY <1>1, <1>3, CommittingPoints
  <1>5. TypeOK'
    BY <1>1, <1>3, <1>4, CommittingPoints DEF Inv, TypeOK
  <1>6. PointsExplained'
    <2> SUFFICES ASSUME Points \notin clash PROVE reserves' = total' + regained'
      BY <1>1 DEF PointsExplained
    <2> QED  BY <1>1, <1>3, CommittingPoints
  <1> QED  BY <1>1, <1>5, <1>6, CommitPointsInv

LEMMA CommitAccountInv == ASSUME NEW w \in Workers, Inv, CommitAccount(w) PROVE Inv'
  <1>1. /\ Close(w)
        /\ UNCHANGED <<total, payRows, reviews, purchases, member, updates, clash, regained>>
        /\ tx[w].op = "account"
        /\ reserves' = tx[w].points + tx[w].amount
    BY DEF CommitAccount, AddReserves
  <1>2. tx[w].amount = 0
    BY <1>1 DEF Inv, Named
  <1>3. TypeOK' /\ PointsExplained'
    BY <1>1, <1>2, CommittingPoints DEF Inv, TypeOK, PointsExplained
  <1> QED  BY <1>1, <1>3, CommitPointsInv

(* The checkout page only reads. *)
LEMMA OpenOrderInv == ASSUME NEW o \in Purchases, Inv, OpenOrder(o) PROVE Inv'
  <1>1. UNCHANGED <<reserves, total, payRows, reviews, member, updates, tx, clash, regained>>
    BY DEF OpenOrder
  <1>2. purchases' \in [Purchases -> Purchase]
    <2>1. purchases \in [Purchases -> Purchase] /\ reserves \in Int
      BY DEF Inv, TypeOK
    <2>2. purchases' = [purchases EXCEPT ![o].state = "open", ![o].shown = reserves]
      BY DEF OpenOrder
    <2> QED  BY <2>1, <2>2 DEF Purchase
  <1>3. TypeOK'
    BY <1>1, <1>2 DEF Inv, TypeOK
  <1> QED  BY <1>1, <1>3, IdleInv

LEMMA MemberPageInv ==
    ASSUME Inv,
           \/ OpenMember \/ ShowMember
           \/ \E minus \in Minus, plus \in Plus : PressPay(minus, plus)
    PROVE  Inv'
  <1>1. UNCHANGED <<dbVars, tx, clash>>
    BY DEF OpenMember, ShowMember, PressPay
  <1>2. /\ member' \in [handlers: Nat, shown: Int, left: Nat, amount: Int]
        /\ updates' \in 0..MaxUpdates
    <2>1. CASE OpenMember
      BY <2>1 DEF OpenMember, Inv, TypeOK
    <2>2. CASE ShowMember
      BY <2>2 DEF ShowMember, Inv, TypeOK
    <2>3. ASSUME NEW minus \in Minus, NEW plus \in Plus, PressPay(minus, plus)
          PROVE  /\ member' \in [handlers: Nat, shown: Int, left: Nat, amount: Int]
                 /\ updates' \in 0..MaxUpdates
      <3>1. plus - minus \in Int
        BY PointsAssumption
      <3>2. /\ member \in [handlers: Nat, shown: Int, left: Nat, amount: Int]
            /\ member' = [member EXCEPT !.left = member.handlers, !.amount = plus - minus]
            /\ updates < MaxUpdates /\ updates' = updates + 1 /\ updates \in 0..MaxUpdates
        BY <2>3 DEF PressPay, Inv, TypeOK
      <3>3. member.handlers \in Nat
        BY <3>2
      <3>4. member' \in [handlers: Nat, shown: Int, left: Nat, amount: Int]
        BY <3>1, <3>2, <3>3
      <3>5. updates' \in 0..MaxUpdates
        BY <3>2, PointsAssumption
      <3> QED  BY <3>4, <3>5
    <2> QED  BY <2>1, <2>2, <2>3
  <1>3. TypeOK'
    BY <1>1, <1>2 DEF Inv, TypeOK, dbVars
  <1> QED  BY <1>1, <1>3, IdleInv DEF dbVars

LEMMA NextInv == Inv /\ [Next]_vars => Inv'
  <1> SUFFICES ASSUME Inv, [Next]_vars PROVE Inv'  OBVIOUS
  <1>1. ASSUME NEW w \in Workers, Reviewing(w) PROVE Inv'
    BY <1>1, BeginWriteInv, BeginModifyInv, CommitWriteInv, CommitModifyInv DEF Reviewing
  <1>2. ASSUME NEW w \in Workers, Paying(w) PROVE Inv'
    BY <1>2, BeginPayInv, CommitPayInv, BeginUpdateInv, CommitUpdateInv DEF Paying
  <1>3. ASSUME NEW w \in Workers, Rollback(w) PROVE Inv'
    BY <1>3, RollbackInv
  <1>4. CASE OpenMember \/ ShowMember \/ \E minus \in Minus, plus \in Plus : PressPay(minus, plus)
    BY <1>4, MemberPageInv
  <1>5. ASSUME NEW o \in Purchases, OpenOrder(o) PROVE Inv'
    BY <1>5, OpenOrderInv
  <1>6. CASE UNCHANGED vars
    <2>1. UNCHANGED <<dbVars, tx, clash>> /\ TypeOK'
      BY <1>6 DEF vars, dbVars, Inv, TypeOK
    <2> QED  BY <2>1, IdleInv DEF dbVars
  <1>7. ASSUME NEW w \in Workers, Ordering(w) PROVE Inv'
    <2>1. ASSUME NEW o \in Purchases, NEW amount \in Rewards \union {-u : u \in Uses},
                 BeginOrdering(w, o, amount)
          PROVE  Inv'
      <3>1. amount \in Int
        BY PointsAssumption
      <3> QED  BY <2>1, <3>1, BeginOrderingInv
    <2> QED
      BY <1>7, <2>1, CommitOrderingInv, BeginCancelInv, CommitCancelInv, BeginAccountInv,
         CommitAccountInv DEF Ordering
  <1> QED  BY <1>1, <1>2, <1>3, <1>4, <1>5, <1>6, <1>7 DEF Next

-----------------------------------------------------------------------------
(* The strengthened invariant holds in every reachable state. *)
THEOREM InvHolds == Spec => []Inv
  BY InitInv, NextInv, PTL DEF Spec

(* Every variable holds values of its type. *)
THEOREM TypeOKHolds == Spec => []TypeOK
  <1>1. Inv => TypeOK
    BY DEF Inv
  <1> QED  BY <1>1, InvHolds, PTL

(* A review two requests have never met on is paid for exactly once if it  *)
(* is marked as paid and never otherwise.                                  *)
THEOREM ReviewPaidOnceHolds == Spec => []ReviewPaidOnce
  <1>1. Inv => ReviewPaidOnce
    BY DEF Inv
  <1> QED  BY <1>1, InvHolds, PTL

(* As long as two requests have never met on the member's points, they are *)
(* the sum of the history and twice the rewards of the cancelled orders.   *)
THEOREM PointsExplainedHolds == Spec => []PointsExplained
  <1>1. Inv => PointsExplained
    BY DEF Inv
  <1> QED  BY <1>1, InvHolds, PTL

(* An order item two requests have never met on has one review at most. *)
THEOREM OneReviewPerItemHolds == Spec => []OneReviewPerItem
  <1>1. Inv => OneReviewPerItem
    BY DEF Inv
  <1> QED  BY <1>1, InvHolds, PTL

-----------------------------------------------------------------------------
(***************************************************************************)
(* The pages that open the detail pages the requests come from (Pages):    *)
(* ListIsLastAsked, PagerHoldsPage and WritesWhatIsShown for any pages,    *)
(* queries and number of result pages.                                     *)
(*                                                                         *)
(* The argument: with one handler and one list under way at a time, a list *)
(* is asked for in the window whose links are drawn, so that its page is   *)
(* one of the window when its answer draws them anew; and a window that a  *)
(* handler moves starts at a page, since it moves by links that are there. *)
(***************************************************************************)
(* A list under way, or asked for. *)
Asking == [query: Queries, page: Int]

(* Types of what the argument uses. *)
ListTypes ==
    /\ kind \in Kinds /\ opened \in BOOLEAN
    /\ handlers \in Nat /\ firstPage \in Int /\ query \in Queries
    /\ asked \in Seq(Asking) /\ rows \in Seq(Asking)
    /\ pager \in [first: Int, last: Int, page: Int, next: BOOLEAN]
    /\ last = <<>> \/ \E a \in Asking : last = <<a>>

(* A handler that is attached once, or taken off again, is never there     *)
(* twice.                                                                  *)
HandlersOK ==
    /\ kind.handlers = "once" => handlers <= 1
    /\ kind.handlers = "removed" => handlers = 0

(* Before the first list there is nothing to click on. *)
NothingAsked ==
    last = <<>> => asked = <<>> /\ rows = <<>> /\ pager = NoPager /\ firstPage = 1

(* All pages but those that open with a search field have asked. *)
OpenedAsks == opened /\ kind.opensWith # "nothing" => last # <<>>

(* With one handler and one list at a time, the list asked for last is the *)
(* one under way, with no older rows, or its rows are there.               *)
OneUnderWay ==
    last # <<>> /\ ~hurried /\ handlers <= 1 =>
        \/ asked = <<>> /\ rows = Content(last[1])
        \/ asked = <<last[1]>> /\ ("ask" \in kind.clears => rows = <<>>)

(* Does an answer to a list of q draw the links. *)
Drawn(q) == TotalPages[q] > 0 \/ kind.pagerWhenEmpty

(* The links are those of the window, or an answer that draws them is      *)
(* under way, unless the window has strayed.                               *)
PagerInWindow ==
    /\ pager.last <= pager.first + 4
    /\ last # <<>> /\ Drawn(last[1].query) =>
        strayed \/ (\E k \in DOMAIN asked : asked[k] = last[1]) \/ pager.first = firstPage

(* The search field holds what was asked for last. *)
QueryAsked == last # <<>> /\ ~strayed => query = last[1].query

(* The window was started anew with each list, and one handler moves it. *)
Steady == ~strayed /\ handlers <= 1

(* The window starts at a page, if there is a page or an empty list draws  *)
(* its links, too.                                                         *)
WindowStarts ==
    Steady /\ (\/ last = <<>> \/ kind.opensWith = "its window"
               \/ last # <<>> /\ TotalPages[last[1].query] > 0)
        => firstPage >= 1

(* A page with rows is in the window it was asked for in. *)
PageInWindow ==
    Steady /\ last # <<>> /\ Content(last[1]) # <<>> =>
        firstPage <= last[1].page /\ last[1].page <= firstPage + 4

(* The links are those of the list asked for last. *)
PagerOfLast ==
    Quiet /\ TotalPages[last[1].query] > 0 => pager = PagerOf(last[1])

ListInv ==
    /\ ListTypes /\ HandlersOK /\ NothingAsked /\ OpenedAsks /\ OneUnderWay
    /\ PagerInWindow /\ QueryAsked /\ WindowStarts /\ PageInWindow /\ PagerOfLast

-----------------------------------------------------------------------------
(* What no page differs in. *)
LEMMA KindFacts ==
    ASSUME NEW k \in Kinds
    PROVE  /\ k.handlers \in {"added", "once", "removed"}
           /\ k.opensWith \in {"page 1", "its window", "nothing"}
           /\ "ask" \in k.clears \/ "answer" \in k.clears
           /\ k.opensWith = "nothing" => k.handlers = "once"
           /\ k.opensWith = "its window" => k.pagerWhenEmpty \/ k.handlers = "removed"
           /\ k.name \in {"itemOption", "itemDisplayOption"} => k.opensWith = "its window"
<1>1. k \in AllKinds
  BY PagesAssumption
<1>2. CASE k = myOrder
  BY <1>2 DEF myOrder
<1>3. CASE k = myQna
  BY <1>3 DEF myQna
<1>4. CASE k = orderList
  BY <1>4 DEF orderList
<1>5. CASE k = reviewList
  BY <1>5 DEF reviewList
<1>6. CASE k = memberList
  BY <1>6 DEF memberList, reviewList
<1>7. CASE k = eventList
  BY <1>7 DEF eventList
<1>8. CASE k = codeGroup
  BY <1>8 DEF codeGroup, orderList
<1>9. CASE k = commonCode
  BY <1>9 DEF commonCode, codeGroup, orderList
<1>10. CASE k = itemMaster
  BY <1>10 DEF itemMaster, codeGroup, orderList
<1>11. CASE k = itemOption
  BY <1>11 DEF itemOption
<1>12. CASE k = itemDisplayOption
  BY <1>12 DEF itemDisplayOption, itemOption
<1>13. CASE k = itemReview
  BY <1>13 DEF itemReview
<1> QED
  BY <1>1, <1>2, <1>3, <1>4, <1>5, <1>6, <1>7, <1>8, <1>9, <1>10, <1>11, <1>12, <1>13 DEF AllKinds

(* A sequence without one entry. *)
LEMMA RemovedEntry ==
    ASSUME NEW S, NEW s \in Seq(S), NEW k \in DOMAIN s
    PROVE  RemoveAt(s, k) \in Seq(S)
<1>1. SubSeq(s, 1, k - 1) \in Seq(S) /\ SubSeq(s, k + 1, Len(s)) \in Seq(S)
  BY SubSeqProperties
<1> QED
  BY <1>1, ConcatProperties DEF RemoveAt

(* The entries of two sequences one after the other. *)
LEMMA ConcatEntries ==
    ASSUME NEW S, NEW f \in Seq(S), NEW b \in Seq(S)
    PROVE  /\ \A i \in 1..Len(f) : i \in DOMAIN (f \o b) /\ (f \o b)[i] = f[i]
           /\ \A i \in 1..Len(b) : Len(f) + i \in DOMAIN (f \o b) /\ (f \o b)[Len(f) + i] = b[i]
<1>1. PICK m \in Nat, n \in Nat : m = Len(f) /\ n = Len(b)
  OBVIOUS
<1>2. /\ DOMAIN (f \o b) = 1..(m + n)
      /\ \A i \in 1..(m + n) : (f \o b)[i] = IF i <= m THEN f[i] ELSE b[i - m]
  <2>1. f \o b \in Seq(S) /\ Len(f \o b) = m + n
    BY <1>1, ConcatProperties
  <2>2. DOMAIN (f \o b) = 1..(m + n)
    BY <2>1
  <2> QED
    BY <1>1, <2>2, ConcatProperties
<1>3. \A i \in 1..m : i \in 1..(m + n) /\ i <= m
  OBVIOUS
<1>4. \A i \in 1..n : m + i \in 1..(m + n) /\ ~(m + i <= m) /\ (m + i) - m = i
  OBVIOUS
<1>5. ASSUME NEW i \in 1..m PROVE i \in DOMAIN (f \o b) /\ (f \o b)[i] = f[i]
  BY <1>2, <1>3, Zenon
<1>6. ASSUME NEW i \in 1..n PROVE m + i \in DOMAIN (f \o b) /\ (f \o b)[m + i] = b[i]
  <2>1. m + i \in 1..(m + n) /\ ~(m + i <= m) /\ (m + i) - m = i
    BY <1>4
  <2>2. (f \o b)[m + i] = b[(m + i) - m]
    BY <1>2, <2>1, Zenon
  <2> QED
    BY <1>2, <2>1, <2>2, Zenon
<1> QED
  BY <1>1, <1>5, <1>6, Zenon

(* The other entries are left. *)
LEMMA OtherEntries ==
    ASSUME NEW S, NEW s \in Seq(S), NEW k \in DOMAIN s, NEW j \in DOMAIN s, j # k
    PROVE  \E i \in DOMAIN RemoveAt(s, k) : RemoveAt(s, k)[i] = s[j]
<1>1. PICK n \in Nat : n = Len(s) /\ k \in 1..n /\ j \in 1..n
  OBVIOUS
<1>2. PICK front \in Seq(S) :
        /\ front = SubSeq(s, 1, k - 1) /\ Len(front) = k - 1
        /\ \A i \in 1..(k - 1) : front[i] = s[i]
  <2>1. \A i \in 1..(k - 1) : s[i] \in S
    BY <1>1
  <2>2. PICK p \in Int : p = k - 1 /\ p >= 0
    BY <1>1
  <2>3. /\ SubSeq(s, 1, p) \in Seq(S)
        /\ Len(SubSeq(s, 1, p)) = IF 1 <= p THEN p - 1 + 1 ELSE 0
        /\ \A i \in 1..(p - 1 + 1) : SubSeq(s, 1, p)[i] = s[1 + i - 1]
    BY <2>1, <2>2, SubSeqProperties
  <2>4. /\ (IF 1 <= p THEN p - 1 + 1 ELSE 0) = p /\ p - 1 + 1 = p
        /\ \A i \in 1..p : 1 + i - 1 = i
    BY <2>2
  <2> QED
    BY <2>2, <2>3, <2>4
<1>3. PICK back \in Seq(S) :
        /\ back = SubSeq(s, k + 1, n) /\ Len(back) = n - k
        /\ \A i \in 1..(n - k) : back[i] = s[k + i]
  <2>1. k + 1 \in Int /\ n \in Int /\ \A i \in (k + 1)..n : s[i] \in S
    BY <1>1
  <2>2. /\ SubSeq(s, k + 1, n) \in Seq(S)
        /\ Len(SubSeq(s, k + 1, n)) = IF k + 1 <= n THEN n - (k + 1) + 1 ELSE 0
        /\ \A i \in 1..(n - (k + 1) + 1) : SubSeq(s, k + 1, n)[i] = s[(k + 1) + i - 1]
    BY <2>1, SubSeqProperties
  <2>3. /\ (IF k + 1 <= n THEN n - (k + 1) + 1 ELSE 0) = n - k
        /\ n - (k + 1) + 1 = n - k
        /\ \A i \in 1..(n - k) : (k + 1) + i - 1 = k + i
    BY <1>1
  <2>4. PICK b \in Seq(S) : b = SubSeq(s, k + 1, n)
    BY <2>2
  <2>5. Len(b) = n - k /\ \A i \in 1..(n - k) : b[i] = s[(k + 1) + i - 1]
    BY <2>2, <2>3, <2>4, Zenon
  <2>6. \A i \in 1..(n - k) : b[i] = s[k + i]
    BY <2>3, <2>5, Zenon
  <2> QED
    BY <2>4, <2>5, <2>6, Zenon
<1>4. RemoveAt(s, k) = front \o back
  BY <1>1, <1>2, <1>3 DEF RemoveAt
<1>5. CASE j < k
  <2>1. j \in 1..(k - 1) /\ j \in 1..Len(front)
    BY <1>1, <1>2, <1>5
  <2>2. j \in DOMAIN (front \o back) /\ (front \o back)[j] = front[j]
    BY <2>1, ConcatEntries, Zenon
  <2>3. front[j] = s[j]
    BY <1>2, <2>1, Zenon
  <2> QED
    BY <1>4, <2>2, <2>3, Zenon
<1>6. CASE j > k
  <2>1. PICK i \in 1..(n - k) : i = j - k
    BY <1>1, <1>6
  <2>2. k + i = j
    BY <1>1, <2>1
  <2>3. back[i] = s[j]
    BY <1>3, <2>2, Zenon
  <2>4. /\ Len(front) + i \in DOMAIN (front \o back)
        /\ (front \o back)[Len(front) + i] = back[i]
    <3>1. i \in 1..Len(back)
      BY <1>3, <2>1
    <3>2. \A m \in 1..Len(back) :
            Len(front) + m \in DOMAIN (front \o back) /\ (front \o back)[Len(front) + m] = back[m]
      BY ConcatEntries
    <3> QED
      BY <3>1, <3>2, Zenon
  <2> QED
    BY <1>4, <2>3, <2>4, Zenon
<1> QED
  BY <1>1, <1>5, <1>6

(* The rows of a list; the server turns a page below one into the first    *)
(* (PageRequest.java 14-16).                                               *)
LEMMA ContentFacts ==
    ASSUME NEW a \in Asking
    PROVE  /\ TotalPages[a.query] \in Nat /\ a.page \in Int /\ a.query \in Queries
           /\ Content(a) \in Seq(Asking)
           /\ Content(a) # <<>> => TotalPages[a.query] > 0
           /\ Content(a) # <<>> /\ a.page >= 1 => a.page <= TotalPages[a.query]
<1>1. TotalPages[a.query] \in Nat /\ a.page \in Int /\ a.query \in Queries
  BY PagesAssumption DEF Asking
<1>2. Requested(a) \in Asking
  BY <1>1 DEF Requested, Asking
<1>3. Requested(a).query = a.query /\ Requested(a).page = IF a.page <= 0 THEN 1 ELSE a.page
  BY DEF Requested, Asking
<1> QED
  BY <1>1, <1>2, <1>3 DEF Content, HasRows

(* The links of a list. *)
LEMMA PagerOfFacts ==
    ASSUME firstPage \in Int, NEW a \in Asking
    PROVE  /\ PagerOf(a) \in [first: Int, last: Int, page: Int, next: BOOLEAN]
           /\ PagerOf(a).first = firstPage /\ PagerOf(a).page = a.page
           /\ PagerOf(a).last <= firstPage + 4
           /\ \A p \in Int : p <= TotalPages[a.query] /\ p <= firstPage + 4 => p <= PagerOf(a).last
  BY ContentFacts DEF PagerOf, AtMost, WindowSize

(* What asking for pages does. *)
LEMMA AskFacts ==
    ASSUME ListTypes, NEW q \in Queries, NEW ps \in Seq(Int), ps # <<>>, Ask(q, ps)
    PROVE  /\ asked' \in Seq(Asking) /\ rows' \in Seq(Asking) /\ asked' # <<>>
           /\ \E a \in Asking : last' = <<a>>
           /\ last'[1].query = q /\ last'[1].page = ps[Len(ps)]
           /\ last'[1] = [query |-> q, page |-> ps[Len(ps)]]
           /\ \E k \in DOMAIN asked' : asked'[k] = last'[1]
           /\ Len(ps) = 1 /\ ~hurried' =>
                asked' = <<last'[1]>> /\ ("ask" \in kind.clears => rows' = <<>>)
<1>1. /\ Len(ps) \in Nat /\ Len(ps) >= 1 /\ DOMAIN ps = 1..Len(ps)
      /\ \A k \in 1..Len(ps) : ps[k] \in Int
  BY EmptySeq
<1>2. PICK new : new = [k \in DOMAIN ps |-> [query |-> q, page |-> ps[k]]]
  OBVIOUS
<1>3. /\ new \in Seq(Asking) /\ Len(new) = Len(ps)
      /\ \A k \in 1..Len(ps) : new[k] = [query |-> q, page |-> ps[k]]
  BY <1>1, <1>2 DEF Asking
<1>4. PICK a : a = [query |-> q, page |-> ps[Len(ps)]]
  OBVIOUS
<1>5. /\ a \in Asking /\ a.query = q /\ a.page = ps[Len(ps)]
      /\ new[Len(ps)] = a
  BY <1>1, <1>3, <1>4 DEF Asking
<1>6. asked' = asked \o new /\ last' = <<a>> /\ (hurried' <=> asked # <<>>)
  BY <1>2, <1>4 DEF Ask
<1>7. rows' \in Seq(Asking) /\ ("ask" \in kind.clears => rows' = <<>>)
  BY DEF Ask, ClearedByAsking, ListTypes
<1>8. last'[1] = a
  BY <1>6
<1>9. asked \in Seq(Asking) /\ Len(asked) \in Nat
  BY DEF ListTypes
<1>10. /\ asked' \in Seq(Asking) /\ Len(asked') = Len(asked) + Len(ps)
       /\ asked'[Len(asked) + Len(ps)] = new[Len(ps)]
  <2>1. asked \o new \in Seq(Asking) /\ Len(asked \o new) = Len(asked) + Len(new)
    BY <1>3, <1>9, ConcatProperties
  <2>2. (asked \o new)[Len(asked) + Len(new)] = new[Len(new)]
    BY <1>1, <1>3, <1>9
  <2> QED
    BY <1>3, <1>6, <2>1, <2>2
<1>11. /\ asked' # <<>>
       /\ \E k \in DOMAIN asked' : asked'[k] = a
  <2>1. Len(asked) + Len(ps) \in DOMAIN asked'
    BY <1>1, <1>9, <1>10
  <2> QED
    BY <1>5, <1>10, <2>1
<1>12. ASSUME Len(ps) = 1, ~hurried' PROVE asked' = <<a>>
  <2>1. asked = <<>>
    BY <1>6, <1>12
  <2>2. Len(asked') = 1 /\ asked'[1] = a
    BY <1>5, <1>10, <1>12, <2>1
  <2>3. \A s \in Seq(Asking) : Len(s) = 1 /\ s[1] = a => s = <<a>>
    OBVIOUS
  <2> QED
    BY <1>10, <2>2, <2>3
<1> QED
  BY <1>4, <1>5, <1>6, <1>7, <1>8, <1>10, <1>11, <1>12

LEMMA LastFacts ==
    ASSUME ListTypes, last # <<>>
    PROVE  last[1] \in Asking /\ last = <<last[1]>>
  BY DEF ListTypes

(* A list that is asked for, in a window that holds its page. *)
LEMMA AskInv ==
    ASSUME ListInv, NEW q \in Queries, NEW ps \in Seq(Int), ps # <<>>, Ask(q, ps),
           UNCHANGED <<kind, pager>>, query' = q,
           opened' \in BOOLEAN, handlers' \in Nat, firstPage' \in Int,
           HandlersOK', handlers' <= 1 => Len(ps) = 1,
           Steady' /\ (kind.opensWith = "its window" \/ TotalPages[q] > 0) => firstPage' >= 1,
           Steady' /\ Content([query |-> q, page |-> ps[Len(ps)]]) # <<>> =>
                firstPage' <= ps[Len(ps)] /\ ps[Len(ps)] <= firstPage' + 4
    PROVE  ListInv'
<1>1. ListTypes
  BY DEF ListInv
<1>2. /\ asked' \in Seq(Asking) /\ rows' \in Seq(Asking) /\ asked' # <<>>
      /\ \E a \in Asking : last' = <<a>>
      /\ last'[1].query = q /\ last'[1].page = ps[Len(ps)]
      /\ last'[1] = [query |-> q, page |-> ps[Len(ps)]]
      /\ \E k \in DOMAIN asked' : asked'[k] = last'[1]
      /\ Len(ps) = 1 /\ ~hurried' =>
            asked' = <<last'[1]>> /\ ("ask" \in kind.clears => rows' = <<>>)
  BY <1>1, AskFacts
<1>3. ListTypes'
  BY <1>1, <1>2 DEF ListTypes
<1>4. last' # <<>>
  <2>1. PICK a \in Asking : last' = <<a>>
    BY <1>2
  <2> QED
    BY <2>1
<1>5. NothingAsked' /\ OpenedAsks'
  BY <1>4 DEF NothingAsked, OpenedAsks
<1>6. OneUnderWay'
  BY <1>2 DEF OneUnderWay
<1>7. PagerInWindow' /\ QueryAsked'
  BY <1>2 DEF ListInv, PagerInWindow, QueryAsked
<1>8. WindowStarts' /\ PageInWindow'
  <2>1. WindowStarts'
    BY <1>2, <1>4 DEF WindowStarts
  <2>2. PageInWindow'
    BY <1>2 DEF PageInWindow, Content, HasRows, Requested
  <2> QED
    BY <2>1, <2>2
<1>9. PagerOfLast'
  BY <1>2 DEF PagerOfLast, Quiet
<1> QED
  BY <1>3, <1>5, <1>6, <1>7, <1>8, <1>9 DEF ListInv

LEMMA OnePage ==
    ASSUME NEW p \in Int
    PROVE  <<p>> \in Seq(Int) /\ <<p>> # <<>> /\ Len(<<p>>) = 1 /\ <<p>>[1] = p
  OBVIOUS

(* The links are attached. *)
LEMMA AttachedFacts ==
    ASSUME ListInv, handlers' = Attached, kind' = kind
    PROVE  handlers' \in Nat /\ HandlersOK' /\ (handlers' <= 1 => handlers <= 1)
<1>1. kind \in Kinds /\ handlers \in Nat /\ HandlersOK
  BY DEF ListInv, ListTypes
<1>2. kind.handlers \in {"added", "once", "removed"}
  BY <1>1, KindFacts
<1>3. CASE kind.handlers = "added"
  <2>1. handlers' = handlers + 1
    BY <1>3 DEF Attached
  <2> QED
    BY <1>1, <1>3, <2>1 DEF HandlersOK
<1>4. CASE kind.handlers = "once"
  <2>1. handlers' = 1
    BY <1>4 DEF Attached
  <2> QED
    BY <1>1, <1>4, <2>1 DEF HandlersOK
<1>5. CASE kind.handlers = "removed"
  <2>1. handlers' = 0
    BY <1>5 DEF Attached
  <2> QED
    BY <1>1, <1>5, <2>1 DEF HandlersOK
<1> QED
  BY <1>2, <1>3, <1>4, <1>5

(* A step that leaves the list alone but for its links. *)
LEMMA ListKept ==
    ASSUME ListInv, UNCHANGED <<kind, firstPage, query, asked, rows, pager, last, hurried, strayed>>,
           handlers' \in Nat, HandlersOK', handlers' <= 1 => handlers <= 1,
           opened' \in BOOLEAN, opened' = opened \/ kind.opensWith = "nothing"
    PROVE  ListInv'
<1>1. ListTypes' /\ NothingAsked' /\ OpenedAsks' /\ QueryAsked'
  BY DEF ListInv, ListTypes, NothingAsked, OpenedAsks, QueryAsked
<1>2. OneUnderWay'
  BY DEF ListInv, OneUnderWay, Content, HasRows, Requested
<1>3. PagerInWindow' /\ WindowStarts'
  BY DEF ListInv, PagerInWindow, Drawn, WindowStarts, Steady
<1>4. PageInWindow'
  BY DEF ListInv, PageInWindow, Steady, Content, HasRows, Requested
<1>5. PagerOfLast'
  BY DEF ListInv, PagerOfLast, Quiet, PagerOf
<1> QED
  BY <1>1, <1>2, <1>3, <1>4, <1>5 DEF ListInv

(* While the user stays with a query, its window starts at a page. *)
LEMMA WindowOfQuery ==
    ASSUME ListInv, Steady, kind.opensWith = "its window" \/ TotalPages[query] > 0
    PROVE  firstPage >= 1
<1>1. last # <<>> => query = last[1].query
  BY DEF ListInv, QueryAsked, Steady
<1> QED
  BY <1>1 DEF ListInv, WindowStarts
(* One page is asked for, and the window is not moved. *)
LEMMA OnePageInv ==
    ASSUME ListInv, NEW q \in Queries, NEW p \in Int, Ask(q, <<p>>),
           UNCHANGED <<kind, pager>>, query' = q,
           opened' \in BOOLEAN, handlers' \in Nat, firstPage' \in Int, HandlersOK',
           Steady' /\ (kind.opensWith = "its window" \/ TotalPages[q] > 0) => firstPage' >= 1,
           Steady' /\ Content([query |-> q, page |-> p]) # <<>> =>
                firstPage' <= p /\ p <= firstPage' + 4
    PROVE  ListInv'
<1>1. /\ <<p>> \in Seq(Int) /\ <<p>> # <<>> /\ Len(<<p>>) = 1
      /\ <<p>>[Len(<<p>>)] = p
  BY OnePage
<1>2. PICK ps \in Seq(Int) : ps = <<p>>
  BY <1>1
<1>3. /\ ps # <<>> /\ Len(ps) = 1 /\ ps[Len(ps)] = p
      /\ Ask(q, ps)
  BY <1>1, <1>2, Zenon
<1> QED
  BY <1>3, AskInv

LEMMA OpenListInv ==
    ASSUME ListInv, OpenList, kind' = kind, opened' \in BOOLEAN
    PROVE  ListInv'
<1>1. /\ kind \in Kinds /\ query \in Queries /\ firstPage \in Int
      /\ kind.opensWith \in {"page 1", "its window", "nothing"}
  BY KindFacts DEF ListInv, ListTypes
<1>2. handlers' \in Nat /\ HandlersOK' /\ (handlers' <= 1 => handlers <= 1)
  BY AttachedFacts DEF OpenList
<1>3. firstPage' = firstPage /\ pager' = pager /\ firstPage' \in Int
  BY <1>1 DEF OpenList
<1>4. CASE kind.opensWith = "page 1"
  <2>1. Ask(query, <<1>>) /\ (strayed' <=> strayed \/ firstPage # 1) /\ query' = query
    BY <1>4 DEF OpenList
  <2>2. Steady' => firstPage' = 1
    BY <1>3, <2>1 DEF Steady
  <2>3. Steady' => firstPage' >= 1 /\ firstPage' <= 1 /\ 1 <= firstPage' + 4
    BY <2>2
  <2>4. PICK p \in Int : p = 1
    OBVIOUS
  <2>5. /\ query \in Queries /\ Ask(query, <<p>>)
        /\ Steady' => firstPage' >= 1 /\ firstPage' <= p /\ p <= firstPage' + 4
    BY <1>1, <2>1, <2>3, <2>4
  <2> QED
    BY <1>2, <1>3, <2>1, <2>5, OnePageInv
<1>5. CASE kind.opensWith = "its window"
  <2>1. query' \in Queries /\ Ask(query', <<firstPage>>) /\ strayed' = strayed
    BY <1>5 DEF OpenList
  <2>2. Steady' => firstPage >= 1
    BY <1>2, <1>5, <2>1, WindowOfQuery DEF Steady
  <2>3. PICK q \in Queries : q = query'
    BY <2>1
  <2>4. Ask(q, <<firstPage>>)
    BY <2>1, <2>3
  <2>5. Steady' => firstPage' >= 1
    BY <1>3, <2>2
  <2>6. firstPage' <= firstPage /\ firstPage <= firstPage' + 4
    <3>1. \A n \in Int : n <= n /\ n <= n + 4
      OBVIOUS
    <3> QED
      BY <1>1, <1>3, <3>1, Zenon
  <2> QED
    BY <1>1, <1>2, <1>3, <2>3, <2>4, <2>5, <2>6, OnePageInv
<1>6. CASE kind.opensWith = "nothing"
  <2>1. UNCHANGED <<query, rows, asked, last, hurried, strayed>>
    BY <1>6 DEF OpenList
  <2> QED
    BY <1>2, <1>3, <1>6, <2>1, ListKept
<1> QED
  BY <1>1, <1>4, <1>5, <1>6

LEMMA OpenPageInv ==
    ASSUME ListInv, OpenPage
    PROVE  ListInv'
<1>1. OpenList /\ kind' = kind /\ opened' = TRUE
  BY DEF OpenPage
<1>2. opened' \in BOOLEAN
  BY <1>1
<1> QED
  BY <1>1, <1>2, OpenListInv

(* What the steps of the list have in common. *)
LEMMA ListFacts ==
    ASSUME ListInv
    PROVE  /\ kind \in Kinds /\ opened \in BOOLEAN /\ handlers \in Nat /\ firstPage \in Int
           /\ query \in Queries /\ TotalPages[query] \in Nat
           /\ pager.first \in Int /\ pager.last \in Int
           /\ last # <<>> => last[1] \in Asking
<1>1. ListTypes
  BY DEF ListInv
<1>2. TotalPages[query] \in Nat
  BY <1>1, PagesAssumption DEF ListTypes
<1>3. last # <<>> => last[1] \in Asking
  BY <1>1, LastFacts
<1> QED
  BY <1>1, <1>2, <1>3 DEF ListTypes

LEMMA ClickPageInv ==
    ASSUME ListInv, NEW p \in pager.first..pager.last, ClickPage(p)
    PROVE  ListInv'
<1>1. /\ kind \in Kinds /\ opened \in BOOLEAN /\ handlers \in Nat /\ firstPage \in Int
      /\ query \in Queries /\ TotalPages[query] \in Nat
      /\ p \in Int /\ pager.first <= p /\ p <= pager.last
      /\ pager.first \in Int /\ pager.last \in Int
  BY ListFacts
<1>2. /\ handlers > 0 /\ Ask(query, [k \in 1..handlers |-> p])
      /\ (strayed' <=> strayed \/ asked # <<>>)
      /\ UNCHANGED <<kind, opened, handlers, firstPage, query, pager>>
  BY DEF ClickPage
<1>3. PICK ps : ps = [k \in 1..handlers |-> p]
  OBVIOUS
<1>4. ps \in Seq(Int) /\ Len(ps) = handlers /\ ps # <<>> /\ ps[Len(ps)] = p
  BY <1>1, <1>2, <1>3
<1>5. Ask(query, ps)
  BY <1>2, <1>3
<1>6. HandlersOK'
  BY <1>2 DEF ListInv, HandlersOK
<1>7. Steady' => Steady /\ asked = <<>>
  BY <1>2 DEF Steady
<1>8. Steady' /\ (kind.opensWith = "its window" \/ TotalPages[query] > 0) => firstPage' >= 1
  BY <1>2, <1>7, WindowOfQuery
<1>9. ASSUME Steady', Content([query |-> query, page |-> ps[Len(ps)]]) # <<>>
      PROVE  firstPage' <= ps[Len(ps)] /\ ps[Len(ps)] <= firstPage' + 4
  <2>1. last # <<>>
    BY <1>1 DEF ListInv, NothingAsked, NoPager
  <2>2. query = last[1].query
    BY <1>7, <1>9, <2>1 DEF ListInv, QueryAsked, Steady
  <2>3. [query |-> query, page |-> p] \in Asking
    BY <1>1 DEF Asking
  <2>4. TotalPages[query] > 0
    BY <1>4, <1>9, <2>3, ContentFacts
  <2>5. pager.first = firstPage /\ pager.last <= pager.first + 4
    BY <1>7, <1>9, <2>1, <2>2, <2>4 DEF ListInv, PagerInWindow, Drawn, Steady
  <2> QED
    BY <1>1, <1>2, <1>4, <2>5
<1>10. /\ opened' \in BOOLEAN /\ handlers' \in Nat /\ firstPage' \in Int
       /\ query' = query /\ UNCHANGED <<kind, pager>>
       /\ handlers' <= 1 => Len(ps) = 1
  BY <1>1, <1>2, <1>4
<1> QED
  BY <1>1, <1>4, <1>5, <1>6, <1>8, <1>9, <1>10, AskInv

LEMMA ClickWindowInv ==
    ASSUME ListInv, NEW direction \in {1, -1}, ClickWindow(direction)
    PROVE  ListInv'
<1>1. /\ kind \in Kinds /\ opened \in BOOLEAN /\ handlers \in Nat /\ firstPage \in Int
      /\ query \in Queries /\ TotalPages[query] \in Nat /\ pager.first \in Int
  BY ListFacts
<1>2. /\ handlers > 0
      /\ IF direction = 1 THEN pager.next ELSE pager.first > 5
      /\ firstPage' = firstPage + direction * 5 * handlers
      /\ Ask(query, [k \in 1..handlers |-> firstPage + direction * 5 * k])
      /\ (strayed' <=> strayed \/ asked # <<>>)
      /\ UNCHANGED <<kind, opened, handlers, query, pager>>
  BY DEF ClickWindow, WindowSize
<1>3. PICK ps : ps = [k \in 1..handlers |-> firstPage + direction * 5 * k]
  OBVIOUS
<1>4. /\ ps \in Seq(Int) /\ Len(ps) = handlers /\ ps # <<>>
      /\ ps[Len(ps)] = firstPage'
      /\ firstPage' \in Int
  <2>1. \A k \in 1..handlers : firstPage + direction * 5 * k \in Int
    BY <1>1
  <2> QED
    BY <1>1, <1>2, <1>3, <2>1
<1>5. Ask(query, ps)
  BY <1>2, <1>3
<1>6. HandlersOK'
  BY <1>2 DEF ListInv, HandlersOK
<1>7. Steady' => Steady /\ asked = <<>> /\ handlers = 1
  BY <1>1, <1>2 DEF Steady
<1>8. ASSUME Steady', kind.opensWith = "its window" \/ TotalPages[query] > 0
      PROVE  firstPage' >= 1
  <2>1. firstPage >= 1
    BY <1>7, <1>8, WindowOfQuery
  <2>2. firstPage' = firstPage + direction * 5 * 1
    BY <1>2, <1>7, <1>8
  <2>3. CASE direction = 1
    <3>1. firstPage' = firstPage + 5
      BY <1>1, <2>2, <2>3
    <3> QED
      BY <1>1, <2>1, <3>1
  <2>4. CASE direction = -1
    <3>1. pager.first > 5
      BY <1>2, <2>4
    <3>2. last # <<>>
      BY <3>1 DEF ListInv, NothingAsked, NoPager
    <3>3. query = last[1].query
      BY <1>7, <1>8, <3>2 DEF ListInv, QueryAsked, Steady
    <3>4. kind.handlers # "removed"
      BY <1>1, <1>2 DEF ListInv, HandlersOK
    <3>5. kind.opensWith = "its window" => kind.pagerWhenEmpty
      BY <1>1, <3>4, KindFacts, Zenon
    <3>6. Drawn(last[1].query)
      BY <1>8, <3>3, <3>5 DEF Drawn
    <3>7. asked = <<>> /\ ~strayed /\ PagerInWindow
      BY <1>7, <1>8 DEF ListInv, Steady
    <3>8. pager.first = firstPage
      BY <3>2, <3>6, <3>7 DEF PagerInWindow
    <3>9. firstPage' = firstPage - 5
      BY <1>1, <2>2, <2>4
    <3> QED
      BY <1>1, <3>1, <3>8, <3>9
  <2> QED
    BY <2>3, <2>4
<1>9. \A n \in Int : n <= n /\ n <= n + 4
  OBVIOUS
<1>10. firstPage' <= ps[Len(ps)] /\ ps[Len(ps)] <= firstPage' + 4
  BY <1>4, <1>9, Zenon
<1>11. /\ opened' \in BOOLEAN /\ handlers' \in Nat
       /\ query' = query /\ UNCHANGED <<kind, pager>>
       /\ handlers' <= 1 => Len(ps) = 1
  BY <1>1, <1>2, <1>4
<1> QED
  BY <1>1, <1>4, <1>5, <1>6, <1>8, <1>10, <1>11, AskInv
LEMMA TypeInv ==
    ASSUME ListInv, NEW q \in Queries, Type(q)
    PROVE  ListInv'
<1>1. /\ query' = q /\ strayed' = TRUE
      /\ UNCHANGED <<kind, opened, handlers, firstPage, asked, rows, pager, last, hurried>>
  BY DEF Type
<1>2. ListTypes' /\ HandlersOK' /\ NothingAsked' /\ OpenedAsks'
  BY <1>1 DEF ListInv, ListTypes, HandlersOK, NothingAsked, OpenedAsks
<1>3. OneUnderWay'
  BY <1>1 DEF ListInv, OneUnderWay, Content, HasRows, Requested
<1>4. PagerInWindow'
  BY <1>1 DEF ListInv, PagerInWindow, Drawn
<1>5. QueryAsked' /\ WindowStarts' /\ PageInWindow'
  BY <1>1 DEF QueryAsked, WindowStarts, PageInWindow, Steady
<1>6. PagerOfLast'
  BY <1>1 DEF ListInv, PagerOfLast, Quiet, PagerOf
<1> QED
  BY <1>2, <1>3, <1>4, <1>5, <1>6 DEF ListInv

LEMMA SearchInv ==
    ASSUME ListInv, Search
    PROVE  ListInv'
<1>1. /\ kind \in Kinds /\ handlers \in Nat /\ firstPage \in Int /\ query \in Queries
      /\ opened \in BOOLEAN /\ HandlersOK
  BY ListFacts DEF ListInv
<1>2. /\ firstPage' = StartWindow /\ Ask(query, <<1>>)
      /\ (strayed' <=> kind.search # "first window" /\ firstPage # 1)
      /\ UNCHANGED <<kind, opened, handlers, query, pager>>
  BY DEF Search
<1>3. firstPage' \in Int /\ (Steady' => firstPage' = 1)
  <2>1. CASE kind.search = "first window"
    <3>1. firstPage' = 1
      BY <1>2, <2>1 DEF StartWindow
    <3> QED
      BY <3>1
  <2>2. CASE kind.search # "first window"
    <3>1. firstPage' = firstPage
      BY <1>2, <2>2 DEF StartWindow
    <3>2. ~strayed' => firstPage = 1
      BY <1>2, <2>2
    <3> QED
      BY <1>1, <3>1, <3>2, Zenon DEF Steady
  <2> QED
    BY <2>1, <2>2
<1>4. PICK p \in Int : p = 1
  OBVIOUS
<1>5. Ask(query, <<p>>)
  BY <1>2, <1>4
<1>6. Steady' => firstPage' >= 1 /\ firstPage' <= p /\ p <= firstPage' + 4
  BY <1>3, <1>4
<1>7. /\ opened' \in BOOLEAN /\ handlers' \in Nat /\ HandlersOK'
      /\ query' = query /\ UNCHANGED <<kind, pager>>
  BY <1>1, <1>2 DEF HandlersOK
<1> QED
  BY <1>1, <1>3, <1>5, <1>6, <1>7, OnePageInv

LEMMA ListCodesInv ==
    ASSUME ListInv, NEW q \in Queries, ListCodes(q)
    PROVE  ListInv'
<1>1. /\ kind \in Kinds /\ handlers \in Nat /\ firstPage \in Int
      /\ opened \in BOOLEAN /\ HandlersOK
  BY ListFacts DEF ListInv
<1>2. /\ query' = q /\ Ask(q, <<1>>)
      /\ (strayed' <=> strayed \/ firstPage # 1)
      /\ UNCHANGED <<kind, opened, handlers, firstPage, pager>>
  BY DEF ListCodes
<1>3. firstPage' \in Int /\ (Steady' => firstPage' = 1)
  BY <1>1, <1>2 DEF Steady
<1>4. PICK p \in Int : p = 1
  OBVIOUS
<1>5. /\ Ask(q, <<p>>)
      /\ Steady' => firstPage' >= 1 /\ firstPage' <= p /\ p <= firstPage' + 4
  BY <1>2, <1>3, <1>4
<1>6. /\ opened' \in BOOLEAN /\ handlers' \in Nat /\ HandlersOK'
      /\ query' = q /\ UNCHANGED <<kind, pager>>
  BY <1>1, <1>2 DEF HandlersOK
<1> QED
  BY <1>3, <1>5, <1>6, OnePageInv

(* The list is asked for anew at its first page, the first page of the     *)
(* window or the page of the last list.                                    *)
LEMMA RefreshInv ==
    ASSUME ListInv, Refresh
    PROVE  ListInv'
<1>1. /\ kind \in Kinds /\ handlers \in Nat /\ firstPage \in Int /\ query \in Queries
      /\ opened \in BOOLEAN /\ HandlersOK /\ TotalPages[query] \in Nat
      /\ last # <<>> => last[1] \in Asking
  BY ListFacts DEF ListInv
<1>2. PICK p \in RefreshedPages :
        /\ Ask(query, <<p>>)
        /\ strayed' = (strayed \/ (p = 1 /\ firstPage # 1))
  BY DEF Refresh
<1>3. opened /\ UNCHANGED <<kind, opened, handlers, firstPage, query, pager>>
  BY DEF Refresh
<1>4. (strayed' <=> strayed \/ (p = 1 /\ firstPage # 1)) /\ (strayed' => strayed \/ firstPage # 1)
  BY <1>2
<1>5. Steady' => Steady
  BY <1>3, <1>4 DEF Steady
<1>6. p = 1 \/ p = firstPage \/ (last # <<>> /\ p = last[1].page)
  <2>1. kind.name \in {"itemOption", "itemDisplayOption"} => last # <<>>
    BY <1>1, <1>3, KindFacts DEF ListInv, OpenedAsks
  <2> QED
    BY <1>2, <2>1 DEF RefreshedPages
<1>7. p \in Int
  BY <1>1, <1>6 DEF Asking
<1>8. Steady' /\ (kind.opensWith = "its window" \/ TotalPages[query] > 0) => firstPage' >= 1
  BY <1>3, <1>5, WindowOfQuery
<1>9. ASSUME Steady', Content([query |-> query, page |-> p]) # <<>>
      PROVE  firstPage' <= p /\ p <= firstPage' + 4
  <2>1. CASE p = 1
    <3>1. firstPage' = 1
      BY <1>3, <1>4, <1>9, <2>1 DEF Steady
    <3> QED
      BY <2>1, <3>1
  <2>2. CASE p = firstPage
    BY <1>1, <1>3, <2>2
  <2>3. CASE last # <<>> /\ p = last[1].page
    <3>1. query = last[1].query
      BY <1>5, <1>9, <2>3 DEF ListInv, QueryAsked, Steady
    <3>2. last[1] = [query |-> query, page |-> p]
      BY <1>1, <2>3, <3>1 DEF Asking
    <3>3. Content(last[1]) # <<>>
      BY <1>9, <3>2
    <3>4. firstPage <= last[1].page /\ last[1].page <= firstPage + 4
      BY <1>5, <1>9, <2>3, <3>3 DEF ListInv, PageInWindow
    <3> QED
      BY <1>3, <2>3, <3>4
  <2> QED
    BY <1>6, <2>1, <2>2, <2>3
<1>10. /\ opened' \in BOOLEAN /\ handlers' \in Nat /\ firstPage' \in Int /\ HandlersOK'
       /\ query' = query /\ UNCHANGED <<kind, pager>> /\ Ask(query, <<p>>)
  BY <1>1, <1>2, <1>3 DEF HandlersOK
<1> QED
  BY <1>1, <1>7, <1>8, <1>9, <1>10, OnePageInv

(* An answer: of the only list under way, or of one of several. *)
LEMMA AnswerInv ==
    ASSUME ListInv, NEW k \in DOMAIN asked, Answer(k)
    PROVE  ListInv'
<1>1. /\ kind \in Kinds /\ handlers \in Nat /\ firstPage \in Int /\ query \in Queries
      /\ asked \in Seq(Asking) /\ rows \in Seq(Asking)
      /\ pager \in [first: Int, last: Int, page: Int, next: BOOLEAN]
      /\ "ask" \in kind.clears \/ "answer" \in kind.clears
  BY KindFacts DEF ListInv, ListTypes
<1>2. PICK a \in Asking : a = asked[k]
  BY <1>1
<1>3. /\ asked' = RemoveAt(asked, k)
      /\ rows' = (IF "answer" \in kind.clears THEN <<>> ELSE rows) \o Content(a)
      /\ pager' = IF Drawn(a.query) THEN PagerOf(a) ELSE pager
      /\ UNCHANGED <<kind, opened, handlers, firstPage, query, last, hurried, strayed>>
  BY <1>2 DEF Answer, Drawn
<1>4. /\ PagerOf(a) \in [first: Int, last: Int, page: Int, next: BOOLEAN]
      /\ PagerOf(a).first = firstPage /\ PagerOf(a).last <= PagerOf(a).first + 4
  BY <1>1, PagerOfFacts
<1>5. last # <<>>
  BY <1>1 DEF ListInv, NothingAsked
<1>6. Content(a) \in Seq(Asking)
  BY ContentFacts
<1>7. ListTypes'
  <2>1. asked' \in Seq(Asking)
    BY <1>1, <1>3, RemovedEntry
  <2>2. rows' \in Seq(Asking)
    BY <1>1, <1>3, <1>6, ConcatProperties
  <2>3. pager' \in [first: Int, last: Int, page: Int, next: BOOLEAN]
    BY <1>1, <1>3, <1>4
  <2> QED
    BY <1>3, <2>1, <2>2, <2>3 DEF ListInv, ListTypes
<1>8. HandlersOK' /\ NothingAsked' /\ OpenedAsks' /\ QueryAsked'
  BY <1>3, <1>5 DEF ListInv, HandlersOK, NothingAsked, OpenedAsks, QueryAsked
<1>9. ASSUME ~hurried, handlers <= 1
      PROVE  a = last[1] /\ asked' = <<>> /\ rows' = Content(last[1])
  <2>1. asked = <<last[1]>> /\ ("ask" \in kind.clears => rows = <<>>)
    BY <1>1, <1>5, <1>9 DEF ListInv, OneUnderWay
  <2>2. k = 1 /\ a = last[1]
    BY <1>2, <2>1
  <2>3. asked' = <<>>
    BY <1>3, <2>1, <2>2 DEF RemoveAt
  <2>4. (IF "answer" \in kind.clears THEN <<>> ELSE rows) = <<>>
    BY <1>1, <2>1
  <2>5. rows' = <<>> \o Content(a)
    BY <1>3, <2>4
  <2>6. rows' = Content(a)
    BY <1>6, <2>5, ConcatEmptySeq
  <2> QED
    BY <2>2, <2>3, <2>6
<1>10. OneUnderWay'
  <2>1. Content(last[1])' = Content(last[1])
    BY <1>3 DEF Content, HasRows, Requested
  <2> QED
    BY <1>3, <1>9, <2>1 DEF OneUnderWay
<1>11. PagerInWindow'
  <2>1. pager'.last <= pager'.first + 4
    BY <1>3, <1>4 DEF ListInv, PagerInWindow
  <2>2. ASSUME Drawn(last[1].query), ~strayed
        PROVE  (\E j \in DOMAIN asked' : asked'[j] = last[1]) \/ pager'.first = firstPage
    <3>1. CASE pager.first = firstPage
      BY <1>3, <1>4, <3>1
    <3>2. ASSUME NEW j \in DOMAIN asked, asked[j] = last[1]
          PROVE  (\E i \in DOMAIN asked' : asked'[i] = last[1]) \/ pager'.first = firstPage
      <4>1. CASE j = k
        BY <1>2, <1>3, <1>4, <2>2, <3>2, <4>1
      <4>2. CASE j # k
        <5>1. \E i \in DOMAIN RemoveAt(asked, k) : RemoveAt(asked, k)[i] = asked[j]
          BY <1>1, <4>2, OtherEntries
        <5> QED
          BY <1>3, <3>2, <5>1
      <4> QED
        BY <4>1, <4>2
    <3> QED
      BY <1>5, <2>2, <3>1, <3>2 DEF ListInv, PagerInWindow
  <2>3. Drawn(last[1].query)' => Drawn(last[1].query)
    BY <1>3 DEF Drawn
  <2> QED
    BY <1>3, <2>1, <2>2, <2>3 DEF PagerInWindow
<1>12. WindowStarts' /\ PageInWindow'
  BY <1>3 DEF ListInv, WindowStarts, PageInWindow, Steady, Content, HasRows, Requested
<1>13. PagerOfLast'
  <2>1. ASSUME Quiet', TotalPages[last[1].query] > 0
        PROVE  pager' = PagerOf(last[1])
    BY <1>3, <1>9, <2>1 DEF Quiet, Drawn
  <2>2. PagerOf(last[1])' = PagerOf(last[1])
    BY <1>3 DEF PagerOf
  <2> QED
    BY <1>3, <2>1, <2>2 DEF PagerOfLast
<1> QED
  BY <1>7, <1>8, <1>10, <1>11, <1>12, <1>13 DEF ListInv

(* A list that fails may leave older rows and links, which hurried and     *)
(* strayed record.                                                         *)
LEMMA FailListInv ==
    ASSUME ListInv, NEW k \in DOMAIN asked, FailList(k)
    PROVE  ListInv'
<1>1. /\ asked' = RemoveAt(asked, k) /\ hurried' = TRUE /\ strayed' = TRUE
      /\ UNCHANGED <<kind, opened, handlers, firstPage, query, rows, pager, last>>
  BY DEF FailList
<1>2. asked \in Seq(Asking) /\ asked # <<>>
  BY DEF ListInv, ListTypes
<1>3. asked' \in Seq(Asking)
  BY <1>1, <1>2, RemovedEntry
<1>4. last # <<>>
  BY <1>2 DEF ListInv, NothingAsked
<1>5. ListTypes' /\ HandlersOK' /\ NothingAsked' /\ OpenedAsks'
  BY <1>1, <1>3, <1>4 DEF ListInv, ListTypes, HandlersOK, NothingAsked, OpenedAsks
<1>6. OneUnderWay' /\ QueryAsked' /\ WindowStarts' /\ PageInWindow' /\ PagerOfLast'
  BY <1>1 DEF OneUnderWay, QueryAsked, WindowStarts, PageInWindow, PagerOfLast, Steady, Quiet
<1>7. PagerInWindow'
  BY <1>1 DEF ListInv, PagerInWindow
<1> QED
  BY <1>5, <1>6, <1>7 DEF ListInv

LEMMA ListVarsKept ==
    ASSUME ListInv, UNCHANGED <<kind, opened, listVars>>
    PROVE  ListInv'
<1>1. /\ UNCHANGED <<kind, firstPage, query, asked, rows, pager, last, hurried, strayed>>
      /\ handlers' = handlers /\ opened' = opened
  BY DEF listVars
<1>2. handlers' \in Nat /\ HandlersOK' /\ opened' \in BOOLEAN
  BY <1>1 DEF ListInv, ListTypes, HandlersOK
<1> QED
  BY <1>1, <1>2, ListKept

LEMMA ListNext ==
    ASSUME ListInv, [PagesNext]_pagesVars
    PROVE  ListInv'
<1>1. CASE OpenPage
  BY <1>1, OpenPageInv
<1>2. ASSUME NEW p \in pager.first..pager.last, ClickPage(p) PROVE ListInv'
  BY <1>2, ClickPageInv
<1>3. CASE ClickWindow(1)
  BY <1>3, ClickWindowInv
<1>4. CASE ClickWindow(-1)
  BY <1>4, ClickWindowInv
<1>5. ASSUME NEW q \in Queries, Type(q) \/ ListCodes(q) PROVE ListInv'
  BY <1>5, TypeInv, ListCodesInv
<1>6. CASE Search
  BY <1>6, SearchInv
<1>7. CASE Refresh
  BY <1>7, RefreshInv
<1>8. ASSUME NEW k \in DOMAIN asked, Answer(k) PROVE ListInv'
  BY <1>8, AnswerInv
<1>14. ASSUME NEW k \in DOMAIN asked, FailList(k) PROVE ListInv'
  BY <1>14, FailListInv
<1>15. ASSUME NEW k \in DOMAIN loading, FailDetail(k) PROVE ListInv'
  BY <1>15, ListVarsKept DEF FailDetail
<1>9. ASSUME NEW d \in Details, OpenDetail(d) PROVE ListInv'
  BY <1>9, ListVarsKept DEF OpenDetail
<1>10. ASSUME NEW k \in DOMAIN loading, ShowDetail(k) PROVE ListInv'
  BY <1>10, ListVarsKept DEF ShowDetail
<1>11. CASE Press
  BY <1>11, ListVarsKept DEF Press
<1>12. CASE Saved
  <2>1. UNCHANGED <<kind, opened>> /\ opened \in BOOLEAN
    BY <1>12 DEF Saved, ListInv, ListTypes
  <2>2. OpenList \/ UNCHANGED listVars
    BY <1>12 DEF Saved
  <2> QED
    BY <2>1, <2>2, OpenListInv, ListVarsKept
<1>13. CASE UNCHANGED pagesVars
  <2>1. UNCHANGED <<kind, opened, listVars>>
    BY <1>13 DEF pagesVars
  <2> QED
    BY <2>1, ListVarsKept
<1> QED
  BY <1>1, <1>2, <1>3, <1>4, <1>5, <1>6, <1>7, <1>8, <1>9, <1>10, <1>11, <1>12, <1>13, <1>14,
     <1>15 DEF PagesNext

LEMMA ListInit == PagesInit => ListInv
<1> SUFFICES ASSUME PagesInit PROVE ListInv
  OBVIOUS
<1>1. ListTypes
  <2>1. NoPager \in [first: Int, last: Int, page: Int, next: BOOLEAN]
    BY DEF NoPager
  <2>2. <<>> \in Seq(Asking)
    OBVIOUS
  <2>3. 0 \in Nat /\ 1 \in Int /\ FALSE \in BOOLEAN
    OBVIOUS
  <2> QED
    BY <2>1, <2>2, <2>3, Zenon DEF PagesInit, ListTypes
<1>2. HandlersOK /\ NothingAsked /\ OpenedAsks
  BY DEF PagesInit, HandlersOK, NothingAsked, OpenedAsks
<1>3. OneUnderWay /\ PagerInWindow /\ QueryAsked /\ WindowStarts /\ PageInWindow /\ PagerOfLast
  BY DEF PagesInit, OneUnderWay, PagerInWindow, NoPager, QueryAsked, WindowStarts, PageInWindow,
         PagerOfLast, Quiet
<1> QED
  BY <1>1, <1>2, <1>3 DEF ListInv

(* The inductive invariant of the lists. *)
LEMMA ListInvHolds == PagesSpec => []ListInv
<1>1. ListInv /\ [PagesNext]_pagesVars => ListInv'
  BY ListNext
<1> QED
  BY <1>1, ListInit, PTL DEF PagesSpec

(* On every page, however often it is opened, searched and clicked: a user *)
(* who waits for each list sees the rows of the last one, unless the       *)
(* handler of the links is there twice (setData and btn-page of every      *)
(* page).                                                                  *)
THEOREM ListIsLastAskedHolds == PagesSpec => []ListIsLastAsked
<1>1. ListInv => ListIsLastAsked
  BY DEF ListInv, OneUnderWay, ListIsLastAsked, Quiet
<1> QED
  BY <1>1, ListInvHolds, PTL

(* And the links hold its page, marked, in a window that starts at a page, *)
(* unless a search or a page that was opened again left the window where   *)
(* it was (common.js 33-52, firstPageNum of each page).                    *)
THEOREM PagerHoldsPageHolds == PagesSpec => []PagerHoldsPage
<1>1. ASSUME ListInv, Quiet, ~strayed, rows # <<>>
      PROVE  /\ pager.first >= 1 /\ pager.page = last[1].page
             /\ last[1].page \in pager.first..pager.last
  <2>1. /\ last[1] \in Asking /\ firstPage \in Int /\ last # <<>>
        /\ Steady /\ pager.first \in Int /\ pager.last \in Int
    BY <1>1, ListFacts DEF Quiet, Steady
  <2>2. rows = Content(last[1])
    BY <1>1 DEF ListInv, OneUnderWay, Quiet
  <2>3. /\ TotalPages[last[1].query] > 0
        /\ last[1].page >= 1 => last[1].page <= TotalPages[last[1].query]
    BY <1>1, <2>1, <2>2, ContentFacts
  <2>4. pager = PagerOf(last[1])
    BY <1>1, <2>3 DEF ListInv, PagerOfLast
  <2>5. firstPage >= 1
    BY <1>1, <2>1, <2>3 DEF ListInv, WindowStarts
  <2>6. firstPage <= last[1].page /\ last[1].page <= firstPage + 4
    BY <1>1, <2>1, <2>2 DEF ListInv, PageInWindow
  <2>7. last[1].page \in Int /\ last[1].page >= 1
    BY <2>1, <2>5, <2>6 DEF Asking
  <2>8. pager.first = firstPage /\ pager.page = last[1].page /\ last[1].page <= pager.last
    BY <2>1, <2>3, <2>4, <2>6, <2>7, PagerOfFacts
  <2> QED
    BY <2>1, <2>5, <2>6, <2>7, <2>8
<1>2. ListInv => PagerHoldsPage
  BY <1>1 DEF PagerHoldsPage
<1> QED
  BY <1>2, ListInvHolds, PTL

-----------------------------------------------------------------------------
(* Unless two of them were under way at once, what is under way is the     *)
(* detail of the page, and once it has been shown, nothing else is.        *)
DetailInv ==
    /\ loading \in Seq(Details \union {NoDetail})
    /\ ~mixed => /\ \A k \in DOMAIN loading : loading[k] = id
                 /\ served => shown = id
    /\ id \in Details \union {NoDetail}
    /\ WritesWhatIsShown

LEMMA LoadInv ==
    ASSUME DetailInv, NEW d \in Details \union {NoDetail}, Load(d), id' = d,
           UNCHANGED <<shown, written>>
    PROVE  DetailInv'
<1>1. /\ loading' = Append(loading, d) /\ loading \in Seq(Details \union {NoDetail})
      /\ mixed' = ((loading # <<>> /\ mixed) \/ \E k \in DOMAIN loading : loading[k] # d)
      /\ served' => served /\ ~mixed /\ d = id
  BY DEF Load, DetailInv
<1>2. /\ loading' \in Seq(Details \union {NoDetail})
      /\ DOMAIN loading = 1..Len(loading) /\ Len(loading) \in Nat
      /\ DOMAIN loading' = 1..(Len(loading) + 1)
      /\ \A k \in 1..Len(loading) : loading'[k] = loading[k]
      /\ loading'[Len(loading) + 1] = d
  BY <1>1
<1>3. ~mixed' => \A k \in DOMAIN loading : loading[k] = d
  BY <1>1
<1>4. ~mixed' => \A k \in DOMAIN loading' : loading'[k] = d
  BY <1>2, <1>3
<1>5. served' => shown' = d
  BY <1>1 DEF DetailInv
<1> QED
  BY <1>2, <1>4, <1>5 DEF DetailInv, WritesWhatIsShown

(* A load that is answered or fails leaves those of the same detail.       *)
LEMMA LoadEnds ==
    ASSUME DetailInv, NEW k \in DOMAIN loading, loading' = RemoveAt(loading, k)
    PROVE  /\ loading' \in Seq(Details \union {NoDetail})
           /\ ~mixed => (\A i \in DOMAIN loading' : loading'[i] = id) /\ loading[k] = id
<1>1. loading \in Seq(Details \union {NoDetail})
  BY DEF DetailInv
<1>2. loading' \in Seq(Details \union {NoDetail})
  BY <1>1, RemovedEntry
<1>3. ASSUME ~mixed PROVE (\A i \in DOMAIN loading' : loading'[i] = id) /\ loading[k] = id
  <2>1. \A i \in DOMAIN loading : loading[i] = id
    BY <1>3 DEF DetailInv
  <2>2. loading \in Seq({id})
    BY <1>1, <2>1, SeqDef
  <2>3. loading' \in Seq({id})
    BY <2>2, RemovedEntry
  <2> QED
    BY <2>1, <2>3
<1> QED
  BY <1>2, <1>3

LEMMA ShowInv ==
    ASSUME DetailInv, NEW k \in DOMAIN loading, ShowDetail(k)
    PROVE  DetailInv'
<1>1. /\ loading' = RemoveAt(loading, k) /\ shown' = loading[k]
      /\ id' = id /\ mixed' = mixed /\ written' = written
  BY DEF ShowDetail
<1> QED
  BY <1>1, LoadEnds DEF DetailInv, WritesWhatIsShown

LEMMA FailInv ==
    ASSUME DetailInv, NEW k \in DOMAIN loading, FailDetail(k)
    PROVE  DetailInv'
<1>1. /\ loading' = RemoveAt(loading, k)
      /\ UNCHANGED <<id, shown, mixed, served, written>>
  BY DEF FailDetail
<1> QED
  BY <1>1, LoadEnds DEF DetailInv, WritesWhatIsShown

LEMMA PressInv ==
    ASSUME DetailInv, Press
    PROVE  DetailInv'
<1> DEFINE new == [target |-> id, fields |-> shown, patient |-> served /\ ~mixed]
<1>1. UNCHANGED <<id, loading, shown, mixed, served>> /\ written' = written \union {new}
  BY DEF Press, Target
<1>2. \A w \in written' : w.patient => w.target = w.fields
  <2>1. TAKE w \in written'
  <2>2. CASE w \in written
    BY <2>2 DEF DetailInv, WritesWhatIsShown
  <2>3. CASE w = new
    <3>1. w.target = id /\ w.fields = shown /\ w.patient = (served /\ ~mixed)
      BY <2>3, Zenon
    <3>2. served /\ ~mixed => shown = id
      BY DEF DetailInv
    <3> QED
      BY <3>1, <3>2, Zenon
  <2> QED
    BY <1>1, <2>2, <2>3
<1> QED
  BY <1>1, <1>2 DEF DetailInv, WritesWhatIsShown

LEMMA DetailKept ==
    ASSUME DetailInv, UNCHANGED <<id, loading, shown, mixed, served, written>>
    PROVE  DetailInv'
  BY DEF DetailInv, WritesWhatIsShown

LEMMA DetailNext ==
    ASSUME DetailInv, [PagesNext]_pagesVars
    PROVE  DetailInv'
<1>1. CASE OpenPage
  BY <1>1, DetailKept DEF OpenPage, detailVars
<1>2. ASSUME NEW p \in pager.first..pager.last, ClickPage(p) PROVE DetailInv'
  BY <1>2, DetailKept DEF ClickPage, detailVars
<1>3. CASE ClickWindow(1) \/ ClickWindow(-1)
  BY <1>3, DetailKept DEF ClickWindow, detailVars
<1>4. ASSUME NEW q \in Queries, Type(q) \/ ListCodes(q) PROVE DetailInv'
  BY <1>4, DetailKept DEF Type, ListCodes, detailVars
<1>5. CASE Search
  BY <1>5, DetailKept DEF Search, detailVars
<1>6. CASE Refresh
  BY <1>6, DetailKept DEF Refresh, detailVars
<1>7. ASSUME NEW k \in DOMAIN asked, Answer(k) \/ FailList(k) PROVE DetailInv'
  BY <1>7, DetailKept DEF Answer, FailList, detailVars
<1>8. ASSUME NEW d \in Details, OpenDetail(d) PROVE DetailInv'
  BY <1>8, LoadInv DEF OpenDetail
<1>9. ASSUME NEW k \in DOMAIN loading, ShowDetail(k) \/ FailDetail(k) PROVE DetailInv'
  BY <1>9, ShowInv, FailInv
<1>10. CASE Press
  BY <1>10, PressInv
<1>11. CASE Saved
  <2>1. id' = id /\ shown' = shown /\ written' = written /\ id \in Details \union {NoDetail}
    BY <1>11 DEF Saved, DetailInv
  <2>2. CASE Load(id)
    BY <2>1, <2>2, LoadInv
  <2>3. CASE UNCHANGED <<loading, mixed, served>>
    BY <2>1, <2>3, DetailKept
  <2> QED
    BY <1>11, <2>2, <2>3 DEF Saved
<1>12. CASE UNCHANGED pagesVars
  BY <1>12, DetailKept DEF pagesVars, detailVars
<1> QED
  BY <1>1, <1>2, <1>3, <1>4, <1>5, <1>6, <1>7, <1>8, <1>9, <1>10, <1>11, <1>12 DEF PagesNext

(* Whatever is opened, pressed, answered and failed, in whatever order: a  *)
(* button of a detail page writes to what the page shows once the detail   *)
(* that was opened has been shown, unless another one was under way beside *)
(* it (update and btn-save of each detail page).                           *)
THEOREM WritesWhatIsShownHolds == PagesSpec => []WritesWhatIsShown
<1>1. PagesInit => DetailInv
  BY DEF PagesInit, DetailInv, WritesWhatIsShown
<1>2. DetailInv /\ [PagesNext]_pagesVars => DetailInv'
  BY DetailNext
<1>3. DetailInv => WritesWhatIsShown
  BY DEF DetailInv
<1> QED
  BY <1>1, <1>2, <1>3, PTL DEF PagesSpec
=============================================================================
