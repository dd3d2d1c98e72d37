------------------------ MODULE OrderService_proofs ------------------------
(***************************************************************************)
(* Proofs about OrderService for every value of its constants: any number  *)
(* of members, orders and request threads, every interleaving of their     *)
(* transactions, any failure of gateway, response and server.  The         *)
(* theorems about sessions name what they assume of them in their          *)
(* hypotheses.                                                             *)
(***************************************************************************)
EXTENDS OrderService, SequenceTheorems, FiniteSetTheorems, TLAPS

(***************************************************************************)
(* The inductive invariant.                                                *)
(***************************************************************************)

(* An order is stored only after its page paid and posted it.              *)
OrderOK(o) ==
    /\ client[o] # "none" => form[o] \in Form
    /\ orders[o] # "none" => client[o] \notin {"none", "paid"}
    /\ orders[o] = "none" => delivery[o] = <<>>

(* An ordering is the only one of its order, which is not stored yet; any  *)
(* other transaction read a stored order, whose placement row cannot       *)
(* change under it.                                                        *)
TxOK(w) ==
    tx[w] # Idle =>
        IF tx[w].op = "ordering"
        THEN /\ orders[tx[w].order] = "none"
             /\ client[tx[w].order] \notin {"none", "paid"}
             /\ tx[w].view.ledger = <<>>
             /\ \A v \in Workers : Runs(v, "ordering") /\ tx[v].order = tx[w].order => v = w
        ELSE /\ orders[tx[w].order] # "none"
             /\ tx[w].view.order # "none"
             /\ Reverses(form[tx[w].order], tx[w].view.ledger)
             /\ tx[w].view.ledger[1] = ledger[tx[w].order][1]

IInv ==
    /\ TypeOK
    /\ \A o \in Orders : OrderOK(o)
    /\ CancelReversesPlacement
    /\ \A w \in Workers : TxOK(w)

-----------------------------------------------------------------------------
(***************************************************************************)
(* Rows keep their types.                                                  *)
(***************************************************************************)

(* The reward of an order is a number of points. *)
LEMMA ReserveType ==
    ASSUME NEW f \in Form, NEW row, row.rating \in Ratings
    PROVE  Reserve(f, row) \in Int
<1>1. f.total \in Nat /\ Percent[row.rating] \in Nat
  BY ConstantsAssumption DEF Form
<1>2. f.total * Percent[row.rating] \in Int
  BY <1>1
<1> QED
  BY <1>2 DEF Reserve

(* The row ordering adds to the history opens a history that reverses. *)
LEMMA PlacementReverses ==
    ASSUME NEW f \in Form, NEW row \in MemberRow
    PROVE  /\ PlacementRow(f, row) \in LedgerRow
           /\ Reverses(f, Append(<<>>, PlacementRow(f, row)))
<1>1. PlacementRow(f, row) \in LedgerRow
  BY ReserveType DEF PlacementRow, LedgerRow, MemberRow, Form
<1>2. Append(<<>>, PlacementRow(f, row)) = <<PlacementRow(f, row)>>
  BY <1>1
<1>3. Reverses(f, <<PlacementRow(f, row)>>)
  BY <1>1 DEF Reverses, PlacementRow
<1> QED
  BY <1>1, <1>2, <1>3

(* ordering and cancel leave a well-formed member row. *)
LEMMA PlacedType ==
    ASSUME NEW f \in Form, NEW row \in MemberRow
    PROVE  Placed(f, row) \in MemberRow
<1>1. Reserve(f, row) \in Int
  BY ReserveType DEF MemberRow
<1>2. AddReserves(row, Reserve(f, row)) \in MemberRow
  BY <1>1 DEF AddReserves, MemberRow
<1>3. FlushReserves(row, f.used) \in MemberRow
  BY DEF FlushReserves, MemberRow, Form
<1>4. ASSUME NEW r \in MemberRow, NEW a \in Int
      PROVE  AddOrderAmountAndUpdateRating(r, a) \in MemberRow
  <2> DEFINE ordered == r.orderAmount + a
             next == IF r.rating < TopRating /\ ordered > Threshold[r.rating]
                     THEN r.rating + 1 ELSE r.rating
  <2>1. ordered \in Int
    BY DEF MemberRow
  <2>2. r.rating \in 0..TopRating /\ TopRating \in Nat
    BY ConstantsAssumption DEF MemberRow, Ratings
  <2>3. next \in Ratings
    BY <2>2 DEF Ratings
  <2>4. AddOrderAmountAndUpdateRating(r, a)
          = [reserves |-> r.reserves, orderAmount |-> ordered, rating |-> next]
    BY DEF AddOrderAmountAndUpdateRating
  <2> QED
    BY <2>1, <2>3, <2>4 DEF MemberRow
<1>5. f.total - f.used \in Int
  BY DEF Form
<1> QED
  BY <1>2, <1>3, <1>4, <1>5 DEF Placed

(* The amount cancel writes is the placement amount, negated. *)
LEMMA CancelAmountReverses ==
    ASSUME NEW f \in Form, NEW rows \in Seq(LedgerRow), Reverses(f, rows)
    PROVE  CancelAmount(f, rows) = -rows[1].amount /\ rows[1].amount \in Int
<1>1. 1 \in DOMAIN rows /\ rows[1] \in LedgerRow
  BY DEF Reverses
<1>2. CASE f.used > 0
  BY <1>1, <1>2 DEF CancelAmount, Reverses, LedgerRow, Form
<1>3. CASE ~(f.used > 0)
  <2>1. f.used = 0 /\ rows[1].type = "ORDER"
    BY <1>3 DEF Form, Reverses
  <2>2. \A i \in DOMAIN rows : rows[i].type = "ORDER" => i = 1
    BY DEF Reverses
  <2>3. (CHOOSE i \in DOMAIN rows : rows[i].type = "ORDER") = 1
    BY <1>1, <2>1, <2>2
  <2> QED
    BY <1>1, <1>3, <2>3 DEF CancelAmount, AmountOf, LedgerRow
<1> QED
  BY <1>2, <1>3

LEMMA UnplacedType ==
    ASSUME NEW f \in Form, NEW rows \in Seq(LedgerRow), Reverses(f, rows),
           NEW row \in MemberRow
    PROVE  Unplaced(f, rows, row) \in MemberRow
  BY CancelAmountReverses DEF Unplaced, AddReserves, FlushReserves, MemberRow

(* A cancel row appended to a history that reverses leaves one. *)
LEMMA CancelAppends ==
    ASSUME NEW f \in Form,
           NEW rows \in Seq(LedgerRow), Reverses(f, rows),
           NEW read \in Seq(LedgerRow), Reverses(f, read), read[1] = rows[1]
    PROVE  /\ CancelRow(f, read) \in LedgerRow
           /\ Reverses(f, Append(rows, CancelRow(f, read)))
           /\ Append(rows, CancelRow(f, read))[1] = rows[1]
<1>1. /\ CancelAmount(f, read) = -rows[1].amount
      /\ rows[1].amount \in Int
  BY CancelAmountReverses
<1>2. CancelRow(f, read) = [type |-> "ORDER_CANCEL", amount |-> -rows[1].amount]
  BY <1>1 DEF CancelRow
<1>3. CancelRow(f, read) \in LedgerRow
  BY <1>1, <1>2 DEF LedgerRow
<1> DEFINE more == Append(rows, CancelRow(f, read))
<1>4. Len(rows) \in Nat \ {0}
  BY DEF Reverses
<1>5. /\ more \in Seq(LedgerRow) /\ Len(more) = Len(rows) + 1
      /\ \A i \in 1..Len(rows) : more[i] = rows[i]
      /\ more[Len(rows) + 1] = CancelRow(f, read)
  BY <1>3
<1>6. more[1] = rows[1] /\ more # <<>>
  BY <1>4, <1>5
<1>7. ASSUME NEW i \in DOMAIN more \ {1}
      PROVE  more[i] = [type |-> "ORDER_CANCEL", amount |-> -more[1].amount]
  <2>1. CASE i \in 1..Len(rows)
    BY <1>5, <1>6, <2>1 DEF Reverses
  <2>2. CASE i = Len(rows) + 1
    BY <1>2, <1>5, <1>6, <2>2
  <2> QED
    BY <1>4, <1>5, <2>1, <2>2
<1> HIDE DEF more
<1>8. Reverses(f, more)
  BY <1>6, <1>7 DEF Reverses
<1> QED
  BY <1>3, <1>6, <1>8 DEF more

(* Rewriting entries of a sequence leaves a sequence. *)
LEMMA RowsRewritten ==
    ASSUME NEW S, NEW s \in Seq(S), NEW D, NEW x \in S
    PROVE  [i \in DOMAIN s |-> IF i \in D THEN x ELSE s[i]] \in Seq(S)
<1>1. DOMAIN s = 1..Len(s) /\ Len(s) \in Nat /\ \A i \in 1..Len(s) : s[i] \in S
  OBVIOUS
<1>2. [i \in 1..Len(s) |-> IF i \in D THEN x ELSE s[i]] \in [1..Len(s) -> S]
  BY <1>1
<1> QED
  BY <1>1, <1>2, SeqDef

LEMMA RowReplaced ==
    ASSUME NEW S, NEW s \in Seq(S), NEW j, NEW x \in S
    PROVE  [s EXCEPT ![j] = x] \in Seq(S)
<1>1. DOMAIN s = 1..Len(s) /\ Len(s) \in Nat /\ \A i \in 1..Len(s) : s[i] \in S
  OBVIOUS
<1>2. [s EXCEPT ![j] = x] = [i \in 1..Len(s) |-> IF i = j THEN x ELSE s[i]]
  BY <1>1
<1>3. [i \in 1..Len(s) |-> IF i = j THEN x ELSE s[i]] \in Seq(S)
  <2>1. [i \in 1..Len(s) |-> IF i = j THEN x ELSE s[i]] \in [1..Len(s) -> S]
    BY <1>1
  <2> QED
    BY <1>1, <2>1, SeqDef
<1> QED
  BY <1>2, <1>3

-----------------------------------------------------------------------------
(***************************************************************************)
(* Transactions keep their types.                                          *)
(***************************************************************************)

(* A worker that is not idle holds a transaction. *)
LEMMA OpenTransaction ==
    ASSUME TypeOK, NEW w \in Workers, tx[w] # Idle
    PROVE  /\ tx[w] \in Transaction
           /\ tx[w].order \in Orders
           /\ tx[w].view \in View
  BY DEF TypeOK, Transaction

(* Opening a transaction puts a well-formed view of a stored form in it. *)
LEMMA OpenedTransaction ==
    ASSUME IInv, NEW w \in Workers, NEW o \in Orders, client[o] # "none",
           NEW op \in OrderOps \union AdminOps, NEW i \in Nat, NEW s \in Status,
           Open(w, op, o, i, s)
    PROVE  /\ tx' \in [Workers -> Transaction \union {Idle}]
           /\ tx'[w] # Idle
           /\ tx'[w].op = op /\ tx'[w].order = o /\ tx'[w].view = ViewOf(o)
           /\ tx[w] = Idle
           /\ \A v \in Workers \ {w} : tx'[v] = tx[v]
<1>1. form[o] \in Form
  BY DEF IInv, OrderOK
<1>2. ViewOf(o) \in View
  BY <1>1 DEF IInv, TypeOK, ViewOf, View, Form
<1> DEFINE t == [op |-> op, order |-> o, view |-> ViewOf(o),
                 row |-> i, status |-> s, called |-> FALSE]
<1>3. t \in Transaction /\ t # Idle
  BY <1>2 DEF Transaction, Idle, OrderOps, AdminOps
<1>4. tx' = [tx EXCEPT ![w] = t] /\ tx[w] = Idle
  BY DEF Open
<1>5. tx \in [Workers -> Transaction \union {Idle}]
  BY DEF IInv, TypeOK
<1> QED
  BY <1>3, <1>4, <1>5

(* Closing a transaction leaves the others as they are. *)
LEMMA ClosedTransaction ==
    ASSUME TypeOK, NEW w \in Workers, Close(w)
    PROVE  /\ tx' \in [Workers -> Transaction \union {Idle}]
           /\ tx'[w] = Idle
           /\ \A v \in Workers \ {w} : tx'[v] = tx[v]
  BY DEF TypeOK, Close

-----------------------------------------------------------------------------
(***************************************************************************)
(* Every step preserves the inductive invariant.                           *)
(***************************************************************************)

LEMMA InitIInv == Init => IInv
<1> SUFFICES ASSUME Init PROVE IInv
  OBVIOUS
<1>1. TypeOK
  BY ConstantsAssumption DEF Init, TypeOK, MemberRow, OrderState, Ratings
<1>2. \A o \in Orders : OrderOK(o)
  BY DEF Init, OrderOK
<1>3. CancelReversesPlacement
  BY DEF Init, CancelReversesPlacement
<1>4. \A w \in Workers : TxOK(w)
  BY DEF Init, TxOK
<1> QED
  BY <1>1, <1>2, <1>3, <1>4 DEF IInv

LEMMA CheckoutIInv ==
    ASSUME IInv, NEW o \in Orders, Checkout(o)
    PROVE  IInv'
<1>1. PICK f \in Form : form' = [form EXCEPT ![o] = f]
  BY ConstantsAssumption DEF Checkout, Form
<1>2. /\ client[o] = "none" /\ client' = [client EXCEPT ![o] = "paid"]
      /\ payment' = [payment EXCEPT ![o] = "paid"]
      /\ UNCHANGED <<member, orders, delivery, ledger, used, tx>>
  BY DEF Checkout, dbVars
<1>3. orders[o] = "none"
  BY <1>2 DEF IInv, OrderOK
<1>4. TypeOK'
  BY <1>1, <1>2 DEF IInv, TypeOK
<1>5. \A p \in Orders : OrderOK(p)'
  BY <1>1, <1>2, <1>3 DEF IInv, TypeOK, OrderOK
<1>6. CancelReversesPlacement'
  BY <1>1, <1>2, <1>3 DEF IInv, TypeOK, CancelReversesPlacement
<1>7. ASSUME NEW w \in Workers PROVE TxOK(w)'
  <2>1. tx[w] # Idle => tx[w].order # o
    BY <1>2, <1>3 DEF IInv, TxOK
  <2>2. tx[w] # Idle => tx[w].order \in Orders
    BY OpenTransaction DEF IInv
  <2> QED
    BY <1>1, <1>2, <2>1, <2>2 DEF IInv, TypeOK, TxOK, Runs
<1> QED
  BY <1>4, <1>5, <1>6, <1>7 DEF IInv

(* Steps that only move a posted or failed checkout on. *)
LEMMA PageMovesIInv ==
    ASSUME IInv, NEW o \in Orders, client[o] \in {"sent", "failed"},
           NEW c \in {"done", "failed", "closed"}, client' = [client EXCEPT ![o] = c],
           UNCHANGED <<dbVars, form, tx>>,
           payment' \in [Orders -> {"none", "paid", "cancelled"}]
    PROVE  IInv'
<1>1. UNCHANGED <<member, orders, delivery, ledger, used, form, tx>>
  BY DEF dbVars
<1>2. TypeOK'
  BY <1>1 DEF IInv, TypeOK
<1>3. \A p \in Orders : OrderOK(p)'
  BY <1>1 DEF IInv, TypeOK, OrderOK
<1>4. CancelReversesPlacement'
  BY <1>1 DEF IInv, CancelReversesPlacement
<1>5. ASSUME NEW w \in Workers PROVE TxOK(w)'
  <2>1. tx[w] # Idle => tx[w].order \in Orders
    BY OpenTransaction DEF IInv
  <2> QED
    BY <1>1, <2>1 DEF IInv, TypeOK, TxOK, Runs
<1> QED
  BY <1>2, <1>3, <1>4, <1>5 DEF IInv

LEMMA PaymentType ==
    ASSUME TypeOK, NEW o \in Orders, CancelPayment(o)
    PROVE  payment' \in [Orders -> {"none", "paid", "cancelled"}]
  BY DEF TypeOK, CancelPayment

LEMMA PageIInv ==
    ASSUME IInv, NEW o \in Orders, Page(o)
    PROVE  IInv'
<1>1. CASE Checkout(o)
  BY <1>1, CheckoutIInv
<1>2. CASE Respond(o)
  BY <1>2, PageMovesIInv DEF Respond, IInv, TypeOK
<1>3. CASE LoseResponse(o)
  BY <1>3, PageMovesIInv DEF LoseResponse, IInv, TypeOK
<1>4. CASE Compensate(o)
  BY <1>4, PageMovesIInv, PaymentType DEF Compensate, IInv
<1> QED
  BY <1>1, <1>2, <1>3, <1>4 DEF Page

(* A request on a stored order reads it and writes nothing yet. *)
LEMMA ReadingIInv ==
    ASSUME IInv, NEW w \in Workers, NEW o \in Orders, orders[o] # "none",
           NEW op \in (OrderOps \union AdminOps) \ {"ordering"},
           NEW i \in Nat, NEW s \in Status, Open(w, op, o, i, s),
           UNCHANGED <<dbVars, payment, client, form>>
    PROVE  IInv'
<1>1. UNCHANGED <<member, orders, delivery, ledger, used, payment, client, form>>
  BY DEF dbVars
<1>2. /\ tx' \in [Workers -> Transaction \union {Idle}]
      /\ tx'[w].op = op /\ tx'[w].order = o /\ tx'[w].view = ViewOf(o)
      /\ \A v \in Workers \ {w} : tx'[v] = tx[v]
  <2>1. client[o] # "none"
    BY DEF IInv, OrderOK
  <2> QED
    BY <2>1, OpenedTransaction
<1>3. TypeOK'
  BY <1>1, <1>2 DEF IInv, TypeOK
<1>4. \A p \in Orders : OrderOK(p)'
  BY <1>1 DEF IInv, OrderOK
<1>5. CancelReversesPlacement'
  BY <1>1 DEF IInv, CancelReversesPlacement
<1>6. TxOK(w)'
  <2>1. tx'[w].view.order = orders[o] /\ tx'[w].view.ledger = ledger[o]
    BY <1>2 DEF ViewOf
  <2>2. Reverses(form[o], ledger[o])
    BY DEF IInv, CancelReversesPlacement
  <2> QED
    BY <1>1, <1>2, <2>1, <2>2 DEF TxOK
<1>7. ASSUME NEW v \in Workers \ {w} PROVE TxOK(v)'
  <2>1. ~(tx'[w].op = "ordering")
    BY <1>2
  <2> QED
    BY <1>1, <1>2, <2>1 DEF IInv, TxOK, Runs
<1> QED
  BY <1>3, <1>4, <1>5, <1>6, <1>7 DEF IInv

LEMMA BeginOrderingIInv ==
    ASSUME IInv, NEW w \in Workers, NEW o \in Orders, BeginOrdering(w, o)
    PROVE  IInv'
<1>1. /\ client[o] = "paid" /\ client' = [client EXCEPT ![o] = "sent"]
      /\ Open(w, "ordering", o, 0, "REQUESTED")
      /\ UNCHANGED <<member, orders, delivery, ledger, used, payment, form>>
  BY DEF BeginOrdering, dbVars
<1>2. orders[o] = "none" /\ ledger[o] = <<>>
  BY <1>1 DEF IInv, OrderOK, CancelReversesPlacement
<1>3. /\ tx' \in [Workers -> Transaction \union {Idle}]
      /\ tx'[w].op = "ordering" /\ tx'[w].order = o /\ tx'[w].view = ViewOf(o)
      /\ \A v \in Workers \ {w} : tx'[v] = tx[v]
  BY <1>1, OpenedTransaction DEF OrderOps, Status
<1>4. \A v \in Workers : tx[v] # Idle => tx[v].order # o
  BY <1>1, <1>2 DEF IInv, TxOK
<1>5. TypeOK'
  BY <1>1, <1>3 DEF IInv, TypeOK
<1>6. \A p \in Orders : OrderOK(p)'
  BY <1>1, <1>2 DEF IInv, TypeOK, OrderOK
<1>7. CancelReversesPlacement'
  BY <1>1 DEF IInv, CancelReversesPlacement
<1>8. TxOK(w)'
  <2>1. tx'[w].view.ledger = <<>>
    BY <1>2, <1>3 DEF ViewOf
  <2>2. client'[o] = "sent"
    BY <1>1 DEF IInv, TypeOK
  <2>3. \A v \in Workers : Runs(v, "ordering")' /\ tx'[v].order = o => v = w
    BY <1>3, <1>4 DEF Runs
  <2> QED
    BY <1>1, <1>2, <1>3, <2>1, <2>2, <2>3 DEF TxOK
<1>9. ASSUME NEW v \in Workers \ {w} PROVE TxOK(v)'
  <2>1. tx[v] # Idle => tx[v].order \in Orders
    BY OpenTransaction DEF IInv
  <2>2. tx[v] # Idle => /\ tx[v].order # o
                        /\ client'[tx[v].order] = client[tx[v].order]
    BY <1>1, <1>4, <2>1 DEF IInv, TypeOK
  <2>3. \A u \in Workers : Runs(u, "ordering")' /\ tx'[u].order # o
                              => Runs(u, "ordering") /\ tx'[u] = tx[u]
    BY <1>3 DEF Runs
  <2>4. TxOK(v)
    BY DEF IInv
  <2> QED
    BY <1>1, <1>3, <2>1, <2>2, <2>3, <2>4 DEF TxOK
<1> QED
  BY <1>5, <1>6, <1>7, <1>8, <1>9 DEF IInv

LEMMA BeginIInv ==
    ASSUME IInv, NEW w \in Workers, NEW o \in Orders, Begin(w, o)
    PROVE  IInv'
<1> USE DEF OrderOps, AdminOps, Status
<1>1. CASE BeginOrdering(w, o)
  BY <1>1, BeginOrderingIInv
<1>2. CASE BeginCancel(w, o)
  BY <1>2, ReadingIInv DEF BeginCancel
<1>3. ASSUME NEW op \in {"modifyOrder", "modifyDelivery"}, BeginModify(w, op, o)
      PROVE  IInv'
  BY <1>3, ReadingIInv DEF BeginModify
<1>4. ASSUME NEW i \in 1..MaxDeliveries, NEW s \in AdminStatuses,
             BeginModifyStatus(w, o, i, s)
      PROVE  IInv'
  <2>1. orders[o] # "none"
    BY <1>4 DEF BeginModifyStatus, IInv, OrderOK
  <2>2. i \in Nat /\ s \in Status
    BY ConstantsAssumption
  <2> QED
    BY <1>4, <2>1, <2>2, ReadingIInv DEF BeginModifyStatus
<1>5. CASE BeginAddDelivery(w, o)
  BY <1>5, ReadingIInv DEF BeginAddDelivery
<1> QED
  BY <1>1, <1>2, <1>3, <1>4, <1>5 DEF Begin

(* Closing a transaction, or marking it as called, changes no obligation   *)
(* of the others.                                                          *)
LEMMA GatewayIInv ==
    ASSUME IInv, NEW w \in Workers, CallGateway(w)
    PROVE  IInv'
<1>1. /\ tx[w] # Idle /\ tx' = [tx EXCEPT ![w].called = TRUE]
      /\ CancelPayment(tx[w].order)
      /\ UNCHANGED <<member, orders, delivery, ledger, used, client, form>>
  BY DEF CallGateway, Runs, dbVars
<1>2. tx[w] \in Transaction /\ tx[w].order \in Orders
  BY <1>1, OpenTransaction DEF IInv
<1>3. /\ tx'[w] \in Transaction /\ tx'[w] # Idle
      /\ tx'[w].op = tx[w].op /\ tx'[w].order = tx[w].order
      /\ tx'[w].view = tx[w].view
      /\ \A v \in Workers \ {w} : tx'[v] = tx[v]
  <2>1. tx \in [Workers -> Transaction \union {Idle}]
    BY DEF IInv, TypeOK
  <2>2. tx'[w] = [tx[w] EXCEPT !.called = TRUE]
    BY <1>1, <2>1
  <2>3. tx'[w] \in Transaction
    BY <1>2, <2>2 DEF Transaction
  <2>4. \A t \in Transaction : t # Idle
    BY DEF Transaction, Idle, OrderOps, AdminOps
  <2> QED
    BY <1>1, <1>2, <2>1, <2>2, <2>3, <2>4 DEF Transaction
<1>4. TypeOK'
  <2>1. payment' \in [Orders -> {"none", "paid", "cancelled"}]
    BY <1>1, <1>2, PaymentType DEF IInv
  <2> QED
    BY <1>1, <1>3, <2>1 DEF IInv, TypeOK
<1>5. \A p \in Orders : OrderOK(p)'
  BY <1>1 DEF IInv, OrderOK
<1>6. CancelReversesPlacement'
  BY <1>1 DEF IInv, CancelReversesPlacement
<1>7. ASSUME NEW v \in Workers PROVE TxOK(v)'
  BY <1>1, <1>3 DEF IInv, TxOK, Runs
<1> QED
  BY <1>4, <1>5, <1>6, <1>7 DEF IInv

LEMMA RollbackIInv ==
    ASSUME IInv, NEW w \in Workers, Rollback(w)
    PROVE  IInv'
<1>1. UNCHANGED <<member, orders, delivery, ledger, used, payment, form>>
  BY DEF Rollback, dbVars
<1>2. /\ tx' \in [Workers -> Transaction \union {Idle}]
      /\ tx'[w] = Idle /\ \A v \in Workers \ {w} : tx'[v] = tx[v]
  BY ClosedTransaction DEF Rollback, IInv
<1>3. /\ client' \in [Orders -> {"none", "paid", "sent", "done", "failed", "closed"}]
      /\ \A p \in Orders : \/ client'[p] = client[p]
                          \/ (client[p] = "sent" /\ client'[p] = "failed")
  BY DEF Rollback, IInv, TypeOK
<1>4. TypeOK'
  BY <1>1, <1>2, <1>3 DEF IInv, TypeOK
<1>5. \A p \in Orders : OrderOK(p)'
  BY <1>1, <1>3 DEF IInv, OrderOK
<1>6. CancelReversesPlacement'
  BY <1>1 DEF IInv, CancelReversesPlacement
<1>7. ASSUME NEW v \in Workers PROVE TxOK(v)'
  <2>1. tx[v] # Idle => tx[v].order \in Orders
    BY OpenTransaction DEF IInv
  <2> QED
    BY <1>1, <1>2, <1>3, <2>1 DEF IInv, TxOK, Runs
<1> QED
  BY <1>4, <1>5, <1>6, <1>7 DEF IInv

(* A commit that only writes deliveries of a stored order. *)
LEMMA DeliveryIInv ==
    ASSUME IInv, NEW w \in Workers, tx[w] # Idle, tx[w].op # "ordering",
           NEW rows \in Seq(Status),
           delivery' = [delivery EXCEPT ![tx[w].order] = rows], Close(w),
           UNCHANGED <<member, orders, ledger, used, payment, client, form>>
    PROVE  IInv'
<1>1. tx[w].order \in Orders /\ orders[tx[w].order] # "none"
  BY OpenTransaction DEF IInv, TxOK
<1>2. /\ tx' \in [Workers -> Transaction \union {Idle}]
      /\ tx'[w] = Idle /\ \A v \in Workers \ {w} : tx'[v] = tx[v]
  BY ClosedTransaction DEF IInv
<1>3. TypeOK'
  BY <1>2 DEF IInv, TypeOK
<1>4. \A p \in Orders : OrderOK(p)'
  BY <1>1 DEF IInv, TypeOK, OrderOK
<1>5. CancelReversesPlacement'
  BY DEF IInv, CancelReversesPlacement
<1>6. ASSUME NEW v \in Workers PROVE TxOK(v)'
  BY <1>2 DEF IInv, TxOK, Runs
<1> QED
  BY <1>3, <1>4, <1>5, <1>6 DEF IInv

LEMMA CommitModifyDeliveryIInv ==
    ASSUME IInv, NEW w \in Workers, CommitModifyDelivery(w)
    PROVE  IInv'
<1> DEFINE o == tx[w].order
           v == tx[w].view.delivery
           D == {i \in DOMAIN v : v[i] = "REQUESTED"}
           rows == [i \in DOMAIN delivery[o] |->
                       IF i \in D THEN "REQUESTED" ELSE delivery[o][i]]
<1>1. tx[w] # Idle /\ tx[w].op # "ordering"
  BY DEF CommitModifyDelivery, Runs
<1>2. delivery[o] \in Seq(Status) /\ "REQUESTED" \in Status
  BY <1>1, OpenTransaction DEF IInv, TypeOK, Status
<1>3. rows \in Seq(Status)
  BY <1>2, RowsRewritten
<1>4. delivery' = [delivery EXCEPT ![o] = rows]
  BY DEF CommitModifyDelivery
<1> HIDE DEF rows
<1> QED
  BY <1>1, <1>3, <1>4, DeliveryIInv DEF CommitModifyDelivery

LEMMA CommitModifyStatusIInv ==
    ASSUME IInv, NEW w \in Workers, CommitModifyStatus(w)
    PROVE  IInv'
<1> DEFINE o == tx[w].order
           i == tx[w].row
           rows == IF tx[w].view.delivery[i] = tx[w].status
                   THEN delivery[o] ELSE [delivery[o] EXCEPT ![i] = tx[w].status]
<1>1. tx[w] # Idle /\ tx[w].op # "ordering"
  BY DEF CommitModifyStatus, Runs
<1>2. o \in Orders /\ delivery[o] \in Seq(Status) /\ tx[w].status \in Status
  BY <1>1, OpenTransaction DEF IInv, TypeOK, Transaction
<1>3. [delivery[o] EXCEPT ![i] = tx[w].status] \in Seq(Status)
  BY <1>2, RowReplaced
<1>4. rows \in Seq(Status)
  BY <1>2, <1>3
<1>5. delivery' = [delivery EXCEPT ![o] = rows]
  BY <1>2 DEF CommitModifyStatus, IInv, TypeOK
<1> HIDE DEF rows
<1> QED
  BY <1>1, <1>4, <1>5, DeliveryIInv DEF CommitModifyStatus

LEMMA CommitAddDeliveryIInv ==
    ASSUME IInv, NEW w \in Workers, CommitAddDelivery(w)
    PROVE  IInv'
<1> DEFINE rows == Append(delivery[tx[w].order], NewDelivery)
<1>1. tx[w] # Idle /\ tx[w].op # "ordering"
  BY DEF CommitAddDelivery, Runs
<1>2. rows \in Seq(Status)
  BY <1>1, OpenTransaction DEF IInv, TypeOK, NewDelivery, Status
<1>3. delivery' = [delivery EXCEPT ![tx[w].order] = rows]
  BY DEF CommitAddDelivery
<1> HIDE DEF rows
<1> QED
  BY <1>1, <1>2, <1>3, DeliveryIInv DEF CommitAddDelivery

LEMMA CommitModifyOrderIInv ==
    ASSUME IInv, NEW w \in Workers, CommitModifyOrder(w)
    PROVE  IInv'
<1> DEFINE o == tx[w].order
<1>1. /\ tx[w] # Idle /\ tx[w].op # "ordering"
      /\ orders' = [orders EXCEPT ![o] = tx[w].view.order]
      /\ UNCHANGED <<member, delivery, ledger, used, payment, client, form>>
  BY DEF CommitModifyOrder, Runs
<1>2. /\ o \in Orders /\ orders[o] # "none"
      /\ tx[w].view.order \in OrderState \ {"none"}
  BY <1>1, OpenTransaction DEF IInv, TxOK, View
<1>3. /\ tx' \in [Workers -> Transaction \union {Idle}]
      /\ tx'[w] = Idle /\ \A v \in Workers \ {w} : tx'[v] = tx[v]
  BY ClosedTransaction DEF CommitModifyOrder, IInv
<1>4. \A p \in Orders : orders'[p] = "none" <=> orders[p] = "none"
  BY <1>1, <1>2 DEF IInv, TypeOK
<1>5. TypeOK'
  BY <1>1, <1>2, <1>3 DEF IInv, TypeOK
<1>6. \A p \in Orders : OrderOK(p)'
  BY <1>1, <1>4 DEF IInv, OrderOK
<1>7. CancelReversesPlacement'
  BY <1>1, <1>4 DEF IInv, CancelReversesPlacement
<1>8. ASSUME NEW v \in Workers PROVE TxOK(v)'
  <2>1. tx[v] # Idle => tx[v].order \in Orders
    BY OpenTransaction DEF IInv
  <2> QED
    BY <1>1, <1>3, <1>4, <2>1 DEF IInv, TxOK, Runs
<1> QED
  BY <1>5, <1>6, <1>7, <1>8 DEF IInv

(* The commits of ordering and cancel: the history of one order grows by a *)
(* row that keeps it reversing, and keeps the placement row it has.        *)
LEMMA LedgerIInv ==
    ASSUME IInv, NEW w \in Workers, tx[w] # Idle, NEW o, o = tx[w].order,
           TypeOK', orders'[o] # "none", client[o] \notin {"none", "paid"},
           Reverses(form[o], ledger'[o]),
           orders[o] # "none" => ledger'[o][1] = ledger[o][1],
           orders[o] = "none" => tx[w].op = "ordering",
           \A p \in Orders \ {o} : /\ orders'[p] = orders[p]
                                    /\ ledger'[p] = ledger[p]
                                    /\ delivery'[p] = delivery[p],
           Close(w), UNCHANGED <<payment, client, form>>
    PROVE  IInv'
<1>1. /\ tx'[w] = Idle /\ \A v \in Workers \ {w} : tx'[v] = tx[v]
  BY ClosedTransaction DEF IInv
<1>2. o \in Orders
  BY OpenTransaction DEF IInv
<1>3. \A p \in Orders : OrderOK(p)'
  BY DEF IInv, OrderOK
<1>4. CancelReversesPlacement'
  BY DEF IInv, CancelReversesPlacement
<1>5. ASSUME NEW v \in Workers PROVE TxOK(v)'
  <2>1. tx[v] # Idle => tx[v].order \in Orders
    BY OpenTransaction DEF IInv
  <2>2. TxOK(v) /\ TxOK(w)
    BY DEF IInv
  <2>3. CASE v = w \/ tx[v] = Idle
    BY <1>1, <2>3 DEF TxOK
  <2>4. CASE v # w /\ tx[v] # Idle /\ tx[v].order # o
    BY <1>1, <2>1, <2>2, <2>4 DEF TxOK, Runs
  <2>5. CASE v # w /\ tx[v] # Idle /\ tx[v].order = o
    <3>1. orders[o] # "none"
      BY <2>2, <2>5 DEF TxOK, Runs
    <3>2. tx[v].op # "ordering"
      BY <2>2, <2>5, <3>1 DEF TxOK
    <3> QED
      BY <1>1, <2>2, <2>5, <3>1, <3>2 DEF TxOK
  <2> QED
    BY <2>3, <2>4, <2>5
<1> QED
  BY <1>3, <1>4, <1>5 DEF IInv

LEMMA CommitOrderingIInv ==
    ASSUME IInv, NEW w \in Workers, CommitOrdering(w)
    PROVE  IInv'
<1> DEFINE o == tx[w].order
           f == form[o]
           v == tx[w].view
           row == PlacementRow(f, v.member)
<1>1. tx[w] # Idle /\ tx[w].op = "ordering"
  BY DEF CommitOrdering, Runs
<1>2. o \in Orders /\ v \in View
  BY <1>1, OpenTransaction DEF IInv
<1>3. orders[o] = "none" /\ client[o] \notin {"none", "paid"} /\ v.ledger = <<>>
  BY <1>1 DEF IInv, TxOK
<1>4. f \in Form /\ ledger[o] = <<>> /\ delivery[o] = <<>>
  BY <1>2, <1>3 DEF IInv, OrderOK, CancelReversesPlacement
<1>5. ~Exists(v.ledger, "ORDER")
  BY <1>3 DEF Exists
<1>6. /\ orders' = [orders EXCEPT ![o] = "live"]
      /\ delivery' = [delivery EXCEPT ![o] = Append(@, NewDelivery)]
      /\ member' = [member EXCEPT ![f.member] = Placed(f, v.member)]
      /\ ledger' = [ledger EXCEPT ![o] = Append(@, row)]
      /\ used' = CouponUsed(f) /\ Close(w)
      /\ UNCHANGED <<payment, client, form>>
  BY <1>5 DEF CommitOrdering
<1>7. /\ row \in LedgerRow /\ Reverses(f, Append(<<>>, row))
      /\ Placed(f, v.member) \in MemberRow
  BY <1>2, <1>4, PlacementReverses, PlacedType DEF View
<1> HIDE DEF row
<1>8. TypeOK'
  <2>1. tx' \in [Workers -> Transaction \union {Idle}]
    BY <1>6, ClosedTransaction DEF IInv
  <2>2. used' \in [Coupons -> BOOLEAN]
    BY <1>4, <1>6 DEF CouponUsed, IInv, TypeOK, Form
  <2>3. /\ Append(delivery[o], NewDelivery) \in Seq(Status)
        /\ Append(ledger[o], row) \in Seq(LedgerRow)
    BY <1>2, <1>7 DEF IInv, TypeOK, NewDelivery, Status
  <2>4. /\ delivery' \in [Orders -> Seq(Status)]
        /\ ledger' \in [Orders -> Seq(LedgerRow)]
        /\ member' \in [Members -> MemberRow]
        /\ orders' \in [Orders -> OrderState]
    BY <1>6, <1>7, <2>3 DEF IInv, TypeOK, OrderState
  <2> QED
    BY <1>6, <2>1, <2>2, <2>4 DEF IInv, TypeOK
<1>9. ledger'[o] = Append(<<>>, row) /\ orders'[o] = "live"
  BY <1>2, <1>4, <1>6 DEF IInv, TypeOK
<1>10. \A p \in Orders \ {o} : /\ orders'[p] = orders[p]
                               /\ ledger'[p] = ledger[p]
                               /\ delivery'[p] = delivery[p]
  BY <1>6 DEF IInv, TypeOK
<1> HIDE DEF f
<1>11. Reverses(form[o], ledger'[o])
  BY <1>7, <1>9 DEF f
<1> QED
  BY <1>1, <1>3, <1>6, <1>8, <1>9, <1>10, <1>11, LedgerIInv

LEMMA CommitCancelIInv ==
    ASSUME IInv, NEW w \in Workers, CommitCancel(w)
    PROVE  IInv'
<1> DEFINE o == tx[w].order
           f == form[o]
           v == tx[w].view
           rows == [i \in DOMAIN delivery[o] |->
                       IF i \in DOMAIN v.delivery THEN "DELETED" ELSE delivery[o][i]]
<1>1. tx[w] # Idle /\ tx[w].op = "cancel"
  BY DEF CommitCancel, Runs
<1>2. o \in Orders /\ v \in View
  BY <1>1, OpenTransaction DEF IInv
<1>3. /\ orders[o] # "none"
      /\ Reverses(f, v.ledger) /\ v.ledger[1] = ledger[o][1]
  BY <1>1 DEF IInv, TxOK
<1>4. /\ f \in Form /\ client[o] \notin {"none", "paid"}
      /\ Reverses(f, ledger[o])
      /\ v.ledger \in Seq(LedgerRow) /\ ledger[o] \in Seq(LedgerRow)
  BY <1>2, <1>3 DEF IInv, OrderOK, CancelReversesPlacement, TypeOK, View
<1>5. rows \in Seq(Status)
  <2>1. delivery[o] \in Seq(Status) /\ "DELETED" \in Status
    BY <1>2 DEF IInv, TypeOK, Status
  <2> QED
    BY <2>1, RowsRewritten
<1>6. /\ delivery' = [delivery EXCEPT ![o] = rows]
      /\ orders' = [orders EXCEPT ![o] = CancelledRow(o, v)]
      /\ used' = CouponUnused(f) /\ Close(w)
      /\ UNCHANGED <<payment, client, form>>
  BY DEF CommitCancel
<1>7. \/ UNCHANGED <<member, ledger>>
      \/ /\ member' = [member EXCEPT ![f.member] = Unplaced(f, v.ledger, v.member)]
         /\ ledger' = [ledger EXCEPT ![o] = Append(@, CancelRow(f, v.ledger))]
  BY DEF CommitCancel
<1> HIDE DEF rows
<1>8. CancelledRow(o, v) \in OrderState \ {"none"}
  BY <1>2, <1>3 DEF CancelledRow, IInv, TypeOK, OrderState
<1>9. /\ Unplaced(f, v.ledger, v.member) \in MemberRow
      /\ CancelRow(f, v.ledger) \in LedgerRow
      /\ Reverses(f, Append(ledger[o], CancelRow(f, v.ledger)))
      /\ Append(ledger[o], CancelRow(f, v.ledger))[1] = ledger[o][1]
  BY <1>2, <1>3, <1>4, UnplacedType, CancelAppends DEF View
<1>10. /\ member' \in [Members -> MemberRow]
       /\ ledger' \in [Orders -> Seq(LedgerRow)]
       /\ Reverses(f, ledger'[o]) /\ ledger'[o][1] = ledger[o][1]
       /\ \A p \in Orders \ {o} : ledger'[p] = ledger[p]
  <2>1. Append(ledger[o], CancelRow(f, v.ledger)) \in Seq(LedgerRow)
    BY <1>4, <1>9
  <2>2. CASE UNCHANGED <<member, ledger>>
    BY <1>4, <2>2 DEF IInv, TypeOK
  <2>3. CASE /\ member' = [member EXCEPT ![f.member] = Unplaced(f, v.ledger, v.member)]
             /\ ledger' = [ledger EXCEPT ![o] = Append(@, CancelRow(f, v.ledger))]
    BY <1>2, <1>9, <2>1, <2>3 DEF IInv, TypeOK
  <2> QED
    BY <1>7, <2>2, <2>3
<1>11. /\ orders' \in [Orders -> OrderState] /\ orders'[o] # "none"
       /\ delivery' \in [Orders -> Seq(Status)]
       /\ \A p \in Orders \ {o} : orders'[p] = orders[p] /\ delivery'[p] = delivery[p]
  BY <1>2, <1>5, <1>6, <1>8 DEF IInv, TypeOK
<1>12. TypeOK'
  <2>1. tx' \in [Workers -> Transaction \union {Idle}]
    BY <1>6, ClosedTransaction DEF IInv
  <2>2. used' \in [Coupons -> BOOLEAN]
    BY <1>4, <1>6 DEF CouponUnused, IInv, TypeOK, Form
  <2> QED
    BY <1>6, <1>10, <1>11, <2>1, <2>2 DEF IInv, TypeOK
<1> HIDE DEF f
<1>13. Reverses(form[o], ledger'[o])
  BY <1>10 DEF f
<1> QED
  BY <1>1, <1>3, <1>4, <1>6, <1>10, <1>11, <1>12, <1>13, LedgerIInv

LEMMA CommitIInv ==
    ASSUME IInv, NEW w \in Workers, Commit(w)
    PROVE  IInv'
  BY CommitOrderingIInv, CommitCancelIInv, CommitModifyOrderIInv,
     CommitModifyDeliveryIInv, CommitModifyStatusIInv, CommitAddDeliveryIInv
     DEF Commit

LEMMA NextIInv == IInv /\ [Next]_vars => IInv'
<1> SUFFICES ASSUME IInv, [Next]_vars PROVE IInv'
  OBVIOUS
<1>1. ASSUME NEW o \in Orders, Page(o) PROVE IInv'
  BY <1>1, PageIInv
<1>2. ASSUME NEW w \in Workers, NEW o \in Orders, Begin(w, o) PROVE IInv'
  BY <1>2, BeginIInv
<1>3. ASSUME NEW w \in Workers, Commit(w) \/ CallGateway(w) \/ Rollback(w)
      PROVE  IInv'
  BY <1>3, CommitIInv, GatewayIInv, RollbackIInv
<1>4. CASE UNCHANGED vars
  BY <1>4 DEF vars, IInv, TypeOK, OrderOK, CancelReversesPlacement, TxOK, Runs
<1> QED
  BY <1>1, <1>2, <1>3, <1>4 DEF Next

-----------------------------------------------------------------------------
(***************************************************************************)
(* The theorems.                                                           *)
(***************************************************************************)

(* IInv holds in every state of every behaviour. *)
THEOREM Invariance == Spec => []IInv
  BY InitIInv, NextIInv, PTL DEF Spec

(* The tables and the views of open transactions stay well formed: no       *)
(* request computes a balance, a rating or a status outside its column.    *)
THEOREM TypeCorrect == Spec => []TypeOK
<1>1. IInv => TypeOK
  BY DEF IInv
<1> QED
  BY <1>1, Invariance, PTL

(* However ordering, cancel, the modifies and the admin's transactions of  *)
(* any number of requests overlap, fail or are repeated, the history of an *)
(* order opens with the one row of its placement, and every cancel row     *)
(* reverses exactly that row (OrderService.ordering and cancel).           *)
THEOREM CancelReverses == Spec => []CancelReversesPlacement
<1>1. IInv => CancelReversesPlacement
  BY DEF IInv
<1> QED
  BY <1>1, Invariance, PTL

-----------------------------------------------------------------------------
(***************************************************************************)
(* Used coupons.                                                           *)
(***************************************************************************)

(* Order o holds coupon c for good: whoever has read o has read it live,   *)
(* so only a cancel, which gives the coupon back, takes it from him.       *)
Holds(o, c) ==
    /\ orders[o] = "live" /\ form[o].coupon = c
    /\ \A w \in Workers : tx[w] # Idle /\ tx[w].op # "ordering" /\ tx[w].order = o
            => tx[w].view.order = "live"

HeldInv == IInv /\ \A c \in Coupons : used[c] => \E o \in Orders : Holds(o, c)

(* A step that keeps the holder of every coupon that stays used. *)
LEMMA HolderKept ==
    ASSUME HeldInv, IInv',
           \A c \in Coupons : used'[c] => used[c],
           \A o \in Orders, c \in Coupons : Holds(o, c) /\ used'[c] => Holds(o, c)'
    PROVE  HeldInv'
  BY DEF HeldInv

(* Reading an order, or closing a transaction that did not write it. *)
LEMMA HolderRead ==
    ASSUME NEW o, NEW c, Holds(o, c), orders'[o] = "live", form'[o] = form[o],
           \A w \in Workers : tx'[w] = Idle
                \/ (tx[w] # Idle /\ tx'[w].op = tx[w].op /\ tx'[w].order = tx[w].order
                        /\ tx'[w].view = tx[w].view)
                \/ (tx'[w].order = o => tx'[w].view.order = orders[o])
    PROVE  Holds(o, c)'
  BY DEF Holds

LEMMA PageHeld ==
    ASSUME HeldInv, NEW o \in Orders, Page(o)
    PROVE  HeldInv'
<1>1. IInv' /\ UNCHANGED <<orders, used, tx>>
  BY PageIInv DEF HeldInv, Page, Checkout, Respond, LoseResponse, Compensate, dbVars
<1>2. ASSUME NEW p \in Orders, orders[p] = "live" PROVE form'[p] = form[p]
  <2>1. client[p] # "none"
    BY <1>2 DEF HeldInv, IInv, OrderOK
  <2> QED
    BY <2>1 DEF Page, Checkout, Respond, LoseResponse, Compensate, HeldInv, IInv, TypeOK
<1>3. ASSUME NEW p \in Orders, NEW c \in Coupons, Holds(p, c) PROVE Holds(p, c)'
  BY <1>1, <1>2, <1>3 DEF Holds
<1> QED
  BY <1>1, <1>3, HolderKept

LEMMA BeginHeld ==
    ASSUME HeldInv, NEW w \in Workers, NEW o \in Orders, Begin(w, o)
    PROVE  HeldInv'
<1>1. IInv' /\ IInv
  BY BeginIInv DEF HeldInv
<1>2. UNCHANGED <<orders, used, form>>
  BY DEF Begin, BeginOrdering, BeginCancel, BeginModify, BeginModifyStatus, BeginAddDelivery,
         dbVars
<1>3. ASSUME NEW op, NEW i, NEW s, Open(w, op, o, i, s)
      PROVE  /\ tx'[w].order = o /\ tx'[w].view.order = orders[o]
             /\ \A v \in Workers \ {w} : tx'[v] = tx[v]
  BY <1>1, <1>3 DEF IInv, TypeOK, Open, ViewOf
<1>4. /\ tx'[w].order = o /\ tx'[w].view.order = orders[o]
      /\ \A v \in Workers \ {w} : tx'[v] = tx[v]
  BY <1>3 DEF Begin, BeginOrdering, BeginCancel, BeginModify, BeginModifyStatus, BeginAddDelivery
<1>5. ASSUME NEW p \in Orders, NEW c \in Coupons, Holds(p, c) PROVE Holds(p, c)'
  BY <1>2, <1>4, <1>5, HolderRead DEF Holds
<1> QED
  BY <1>1, <1>2, <1>5, HolderKept

(* A transaction that closes after it wrote no coupon. *)
LEMMA CloseHeld ==
    ASSUME HeldInv, IInv', NEW w \in Workers, Close(w), UNCHANGED <<used, form>>,
           \A o \in Orders, c \in Coupons : Holds(o, c) => orders'[o] = "live"
    PROVE  HeldInv'
<1>1. tx'[w] = Idle /\ \A v \in Workers \ {w} : tx'[v] = tx[v]
  BY ClosedTransaction DEF HeldInv, IInv
<1>2. ASSUME NEW o \in Orders, NEW c \in Coupons, Holds(o, c) PROVE Holds(o, c)'
  BY <1>1, <1>2 DEF Holds
<1> QED
  BY <1>2, HolderKept

LEMMA CommitOrderingHeld ==
    ASSUME HeldInv, NEW w \in Workers, CommitOrdering(w)
    PROVE  HeldInv'
<1> DEFINE o == tx[w].order
           f == form[o]
<1>1. /\ tx[w] # Idle /\ tx[w].op = "ordering"
      /\ orders' = [orders EXCEPT ![o] = "live"]
      /\ used' = CouponUsed(f) /\ Close(w)
      /\ form' = form
  BY DEF CommitOrdering, Runs
<1>2. o \in Orders /\ orders[o] = "none" /\ TypeOK
  BY <1>1, OpenTransaction DEF HeldInv, IInv, TxOK
<1>3. tx'[w] = Idle /\ \A v \in Workers \ {w} : tx'[v] = tx[v]
  BY <1>1, <1>2, ClosedTransaction
<1>4. orders'[o] = "live" /\ \A p \in Orders : orders[p] = "live" => orders'[p] = "live"
  BY <1>1, <1>2 DEF TypeOK
<1>5. ASSUME NEW p \in Orders, NEW c \in Coupons, Holds(p, c) PROVE Holds(p, c)'
  BY <1>1, <1>3, <1>4, <1>5 DEF Holds
<1>6. \A v \in Workers : tx[v] # Idle /\ tx[v].op # "ordering" => tx[v].order # o
  BY <1>2 DEF HeldInv, IInv, TxOK
<1>7. ASSUME NEW c \in Coupons, f.coupon = c, NEW p \in Orders, p = o PROVE Holds(p, c)'
  BY <1>1, <1>3, <1>4, <1>6, <1>7 DEF Holds
<1>8. ASSUME NEW c \in Coupons, used'[c] PROVE \E p \in Orders : Holds(p, c)'
  <2>1. used[c] \/ f.coupon = c
    BY <1>1, <1>2, <1>8 DEF CouponUsed, TypeOK
  <2>2. CASE used[c]
    BY <1>5, <2>2 DEF HeldInv
  <2>3. CASE f.coupon = c
    BY <1>2, <1>7, <2>3
  <2> QED
    BY <2>1, <2>2, <2>3
<1> QED
  BY <1>8, CommitOrderingIInv DEF HeldInv

LEMMA CommitCancelHeld ==
    ASSUME HeldInv, NEW w \in Workers, CommitCancel(w)
    PROVE  HeldInv'
<1> DEFINE o == tx[w].order
           f == form[o]
<1>1. /\ tx[w] # Idle
      /\ orders' = [orders EXCEPT ![o] = CancelledRow(o, tx[w].view)]
      /\ used' = CouponUnused(f) /\ Close(w)
      /\ form' = form
  BY DEF CommitCancel, Runs
<1>2. o \in Orders /\ TypeOK
  BY <1>1, OpenTransaction DEF HeldInv, IInv
<1>3. tx'[w] = Idle /\ \A v \in Workers \ {w} : tx'[v] = tx[v]
  BY <1>1, <1>2, ClosedTransaction
<1>4. \A p \in Orders : p # o => orders'[p] = orders[p]
  BY <1>1, <1>2 DEF TypeOK
<1>5. \A c \in Coupons : used'[c] => used[c] /\ f.coupon # c
  BY <1>1, <1>2, ConstantsAssumption DEF CouponUnused, TypeOK
<1>6. ASSUME NEW p \in Orders, NEW c \in Coupons, Holds(p, c), used'[c] PROVE Holds(p, c)'
  <2>1. p # o
    BY <1>5, <1>6 DEF Holds
  <2> QED
    BY <1>1, <1>3, <1>4, <1>6, <2>1 DEF Holds
<1> QED
  BY <1>5, <1>6, CommitCancelIInv, HolderKept DEF HeldInv

LEMMA CommitHeld ==
    ASSUME HeldInv, NEW w \in Workers, Commit(w)
    PROVE  HeldInv'
<1>1. IInv'
  BY CommitIInv DEF HeldInv
<1>2. CASE CommitOrdering(w) \/ CommitCancel(w)
  BY <1>2, CommitOrderingHeld, CommitCancelHeld
<1>3. CASE CommitModifyOrder(w)
  <2>1. tx[w] # Idle /\ tx[w].op # "ordering" /\ tx[w].order \in Orders
    BY <1>3, OpenTransaction DEF CommitModifyOrder, Runs, HeldInv, IInv
  <2>2. \A o \in Orders, c \in Coupons : Holds(o, c) => orders'[o] = "live"
    BY <1>3, <2>1 DEF CommitModifyOrder, Holds, HeldInv, IInv, TypeOK
  <2> QED
    BY <1>1, <1>3, <2>2, CloseHeld DEF CommitModifyOrder
<1>4. CASE CommitModifyDelivery(w) \/ CommitModifyStatus(w) \/ CommitAddDelivery(w)
  BY <1>1, <1>4, CloseHeld
     DEF Holds, CommitModifyDelivery, CommitModifyStatus, CommitAddDelivery
<1> QED
  BY <1>2, <1>3, <1>4 DEF Commit

LEMMA NextHeld == HeldInv /\ [Next]_vars => HeldInv'
<1> SUFFICES ASSUME HeldInv, [Next]_vars PROVE HeldInv'
  OBVIOUS
<1>0. IInv'
  BY NextIInv DEF HeldInv
<1>1. ASSUME NEW o \in Orders, Page(o) PROVE HeldInv'
  BY <1>1, PageHeld
<1>2. ASSUME NEW w \in Workers, NEW o \in Orders, Begin(w, o) PROVE HeldInv'
  BY <1>2, BeginHeld
<1>3. ASSUME NEW w \in Workers, Commit(w) PROVE HeldInv'
  BY <1>3, CommitHeld
<1>4. ASSUME NEW w \in Workers, CallGateway(w) PROVE HeldInv'
  <2>1. /\ tx[w] # Idle /\ tx' = [tx EXCEPT ![w].called = TRUE]
        /\ UNCHANGED <<orders, used, form>>
    BY <1>4 DEF CallGateway, Runs, dbVars
  <2>2. tx[w] \in Transaction /\ tx \in [Workers -> Transaction \union {Idle}]
    BY <2>1, OpenTransaction DEF HeldInv, IInv, TypeOK
  <2>3. tx'[w] = [tx[w] EXCEPT !.called = TRUE]
    BY <2>1, <2>2
  <2>4. /\ tx'[w].op = tx[w].op /\ tx'[w].order = tx[w].order /\ tx'[w].view = tx[w].view
        /\ \A v \in Workers \ {w} : tx'[v] = tx[v]
    BY <2>1, <2>2, <2>3 DEF Transaction
  <2>5. ASSUME NEW o \in Orders, NEW c \in Coupons, Holds(o, c) PROVE Holds(o, c)'
    BY <2>1, <2>4, <2>5 DEF Holds
  <2> QED
    BY <1>0, <2>1, <2>5, HolderKept
<1>5. ASSUME NEW w \in Workers, Rollback(w) PROVE HeldInv'
  BY <1>0, <1>5, CloseHeld DEF Rollback, dbVars, Holds
<1>6. CASE UNCHANGED vars
  BY <1>0, <1>6, HolderKept DEF vars, Holds
<1> QED
  BY <1>1, <1>2, <1>3, <1>4, <1>5, <1>6 DEF Next

(* A coupon marked used is held by a live order, whatever requests         *)
(* overlap, whatever answers are lost and whatever rolls back: a modify    *)
(* that writes back a stale order row never takes the coupon's order away  *)
(* without the cancel that gives the coupon back (OrderService.ordering    *)
(* 147-155, cancel 266-269, modify 192-202).                               *)
THEOREM UsedCouponIsHeld == Spec => []UsedCouponHeld
<1>1. Init => HeldInv
  BY InitIInv DEF HeldInv, Init
<1>2. HeldInv => UsedCouponHeld
  BY DEF HeldInv, Holds, UsedCouponHeld
<1> QED
  BY <1>1, <1>2, NextHeld, PTL DEF Spec

-----------------------------------------------------------------------------
(***************************************************************************)
(* One request of a member at a time.                                      *)
(***************************************************************************)
OpenCheckout(o) == client[o] \in {"paid", "sent", "failed"}
OpenRequest(w) == tx[w] # Idle /\ tx[w].op \in OrderOps \ {"ordering"}

(* Two requests under way are of different members. *)
OneSession ==
    /\ \A o, p \in Orders :
        OpenCheckout(o) /\ OpenCheckout(p) /\ form[o].member = form[p].member => o = p
    /\ \A v, w \in Workers :
        OpenRequest(v) /\ OpenRequest(w) /\ form[tx[v].order].member = form[tx[w].order].member
            => v = w
    /\ \A o \in Orders, w \in Workers :
        OpenCheckout(o) /\ OpenRequest(w) => form[o].member # form[tx[w].order].member

(* So what a request has read of its order stays true, but for deliveries. *)
ViewKept ==
    \A w \in Workers : OpenRequest(w) =>
        tx[w].view.order = orders[tx[w].order] /\ tx[w].view.ledger = ledger[tx[w].order]

SessionInv == IInv /\ OneSession /\ ViewKept

(* Where the money is when no answer is lost and no cancel rolls back      *)
(* after it has called the gateway.                                        *)
Called(w) == tx[w] # Idle /\ tx[w].called
CalledFor(o) == \E w \in Workers : Called(w) /\ tx[w].op = "cancel" /\ tx[w].order = o
Settled(o) ==
    /\ client[o] = "none" => payment[o] = "none"
    /\ client[o] \in {"failed", "closed"} => orders[o] = "none"
    /\ OpenCheckout(o) /\ orders[o] = "none" => payment[o] = "paid"
    /\ orders[o] = "live" => Len(ledger[o]) = 1 /\ (payment[o] = "paid" \/ CalledFor(o))
    /\ orders[o] = "cancelled" => Len(ledger[o]) = 2
    /\ orders[o] # "none" => payment[o] # "none"
SettledInv ==
    /\ SessionInv
    /\ \A o \in Orders : Settled(o)
    /\ \A w \in Workers : Called(w) => tx[w].op = "cancel"
    /\ \A w \in Workers : Runs(w, "ordering") => client[tx[w].order] = "sent"

-----------------------------------------------------------------------------
(* Who may start has no request under way. *)
LEMMA MayStartAlone ==
    ASSUME SessionLimit = 1, OneSession, NEW m, MayStart(m)
    PROVE  /\ \A o \in Orders : OpenCheckout(o) => form[o].member # m
           /\ \A w \in Workers : OpenRequest(w) => form[tx[w].order].member # m
<1>1. ASSUME NEW s, Sessions(m) = {s} PROVE FALSE
  <2>1. Cardinality(Sessions(m)) = 1
    BY <1>1, FS_Singleton
  <2> QED
    BY <2>1 DEF MayStart
<1>2. ASSUME NEW o \in Orders, OpenCheckout(o), form[o].member = m PROVE FALSE
  <2>1. Sessions(m) = {<<"checkout", o>>}
    BY <1>2 DEF Sessions, OneSession, OpenCheckout, OpenRequest
  <2> QED
    BY <1>1, <2>1
<1>3. ASSUME NEW w \in Workers, OpenRequest(w), form[tx[w].order].member = m PROVE FALSE
  <2>1. Sessions(m) = {<<"request", w>>}
    BY <1>3 DEF Sessions, OneSession, OpenCheckout, OpenRequest
  <2> QED
    BY <1>1, <2>1
<1> QED
  BY <1>2, <1>3

(* Steps that begin no session and change no order and no history. *)
LEMMA SessionsShrink ==
    ASSUME SessionInv, IInv', UNCHANGED <<orders, ledger, form>>,
           \A o \in Orders : OpenCheckout(o)' => OpenCheckout(o),
           \A w \in Workers : OpenRequest(w)' =>
                /\ OpenRequest(w) /\ tx'[w].order = tx[w].order /\ tx'[w].view = tx[w].view
    PROVE  SessionInv'
<1>1. OneSession'
  BY DEF SessionInv, OneSession
<1>2. ViewKept'
  BY DEF SessionInv, ViewKept
<1> QED
  BY <1>1, <1>2 DEF SessionInv

LEMMA CheckoutSession ==
    ASSUME SessionLimit = 1, SessionInv, NEW o \in Orders, Checkout(o)
    PROVE  SessionInv'
<1>1. PICK f \in Form : MayStart(f.member) /\ form' = [form EXCEPT ![o] = f]
  BY ConstantsAssumption DEF Checkout, Form
<1>2. /\ client[o] = "none" /\ client' = [client EXCEPT ![o] = "paid"]
      /\ UNCHANGED <<orders, ledger, tx>>
  BY DEF Checkout, dbVars
<1>3. /\ orders[o] = "none" /\ TypeOK
      /\ \A w \in Workers : OpenRequest(w) => tx[w].order \in Orders \ {o}
  BY <1>2, OpenTransaction DEF SessionInv, IInv, OrderOK, TxOK, OpenRequest
<1>4. /\ form'[o] = f /\ \A p \in Orders : p # o => form'[p] = form[p]
      /\ \A p \in Orders : OpenCheckout(p)' => p = o \/ OpenCheckout(p)
      /\ \A w \in Workers : OpenRequest(w)' <=> OpenRequest(w)
  BY <1>1, <1>2, <1>3 DEF OpenCheckout, OpenRequest, TypeOK
<1>5. /\ \A p \in Orders : OpenCheckout(p) => form[p].member # f.member /\ p # o
      /\ \A w \in Workers : OpenRequest(w) => form[tx[w].order].member # f.member
  BY <1>1, <1>2, MayStartAlone DEF SessionInv, OpenCheckout
<1>6. OneSession'
  BY <1>2, <1>3, <1>4, <1>5 DEF SessionInv, OneSession
<1>7. ViewKept'
  BY <1>2, <1>4 DEF SessionInv, ViewKept
<1>9. IInv'
  BY CheckoutIInv DEF SessionInv
<1> QED
  BY <1>6, <1>7, <1>9 DEF SessionInv

LEMMA PageSession ==
    ASSUME SessionLimit = 1, SessionInv, NEW o \in Orders, Page(o)
    PROVE  SessionInv'
<1>1. CASE Checkout(o)
  BY <1>1, CheckoutSession
<1>2. CASE Respond(o) \/ LoseResponse(o) \/ Compensate(o)
  <2>1. PICK c \in {"done", "failed", "closed"} : client' = [client EXCEPT ![o] = c]
    BY <1>2 DEF Respond, LoseResponse, Compensate
  <2>2. client[o] \in {"sent", "failed"} /\ UNCHANGED <<orders, ledger, form, tx>>
    BY <1>2 DEF Respond, LoseResponse, Compensate, dbVars
  <2>3. IInv' /\ TypeOK
    BY PageIInv DEF SessionInv, IInv
  <2>4. \A p \in Orders : OpenCheckout(p)' => OpenCheckout(p)
    BY <2>1, <2>2, <2>3 DEF TypeOK, OpenCheckout
  <2>5. \A w \in Workers : OpenRequest(w)' => OpenRequest(w)
    BY <2>2 DEF OpenRequest
  <2> QED
    BY <2>2, <2>3, <2>4, <2>5, SessionsShrink
<1> QED
  BY <1>1, <1>2 DEF Page

(* A member's request reads the order it is about. *)
LEMMA RequestSession ==
    ASSUME SessionLimit = 1, SessionInv, IInv', NEW w \in Workers, NEW o \in Orders,
           MayStart(form[o].member), client[o] # "none",
           NEW op \in OrderOps \ {"ordering"}, NEW i \in Nat, NEW s \in Status,
           Open(w, op, o, i, s), UNCHANGED <<dbVars, payment, client, form>>
    PROVE  SessionInv'
<1>1. /\ tx'[w] # Idle /\ tx[w] = Idle
      /\ tx'[w].op = op /\ tx'[w].order = o /\ tx'[w].view = ViewOf(o)
      /\ \A v \in Workers \ {w} : tx'[v] = tx[v]
  BY OpenedTransaction DEF SessionInv
<1>2. UNCHANGED <<orders, ledger, client, form>>
  BY DEF dbVars
<1>3. /\ \A p \in Orders : OpenCheckout(p)' <=> OpenCheckout(p)
      /\ \A v \in Workers : OpenRequest(v)' => v = w \/ (OpenRequest(v) /\ tx'[v] = tx[v])
  BY <1>1, <1>2 DEF OpenCheckout, OpenRequest
<1>4. /\ \A p \in Orders : OpenCheckout(p) => form[p].member # form[o].member
      /\ \A v \in Workers : OpenRequest(v) => form[tx[v].order].member # form[o].member
  BY MayStartAlone DEF SessionInv
<1>5. OneSession'
  BY <1>1, <1>2, <1>3, <1>4 DEF SessionInv, OneSession
<1>6. ViewKept'
  BY <1>1, <1>2, <1>3 DEF SessionInv, ViewKept, ViewOf
<1> QED
  BY <1>5, <1>6 DEF SessionInv

LEMMA BeginSession ==
    ASSUME SessionLimit = 1, SessionInv, NEW w \in Workers, NEW o \in Orders, Begin(w, o)
    PROVE  SessionInv'
<1>0. IInv' /\ TypeOK
  BY BeginIInv DEF SessionInv, IInv
<1>1. ASSUME NEW op \in {"ordering"} \union AdminOps, NEW i \in Nat, NEW s \in Status,
             Open(w, op, o, i, s), client[o] # "none",
             UNCHANGED <<dbVars, payment, form>>,
             client' = client \/ (client[o] = "paid" /\ client' = [client EXCEPT ![o] = "sent"])
      PROVE  SessionInv'
  <2>1. /\ tx[w] = Idle /\ tx'[w].op = op
        /\ \A v \in Workers \ {w} : tx'[v] = tx[v]
    BY <1>1, OpenedTransaction DEF SessionInv, OrderOps
  <2>2. \A v \in Workers : OpenRequest(v)' => OpenRequest(v) /\ tx'[v] = tx[v]
    BY <2>1 DEF OpenRequest, OrderOps, AdminOps
  <2>3. \A p \in Orders : OpenCheckout(p)' => OpenCheckout(p)
    BY <1>0, <1>1 DEF OpenCheckout, TypeOK
  <2>4. UNCHANGED <<orders, ledger, form>>
    BY <1>1 DEF dbVars
  <2> QED
    BY <1>0, <2>2, <2>3, <2>4, SessionsShrink
<1>2. CASE BeginOrdering(w, o)
  BY <1>1, <1>2 DEF BeginOrdering, Status
<1>3. CASE BeginCancel(w, o)
  <2>1. client[o] # "none"
    BY <1>3 DEF BeginCancel, SessionInv, IInv, OrderOK
  <2> QED
    BY <1>0, <1>3, <2>1, RequestSession DEF BeginCancel, OrderOps, Status
<1>4. ASSUME NEW op \in {"modifyOrder", "modifyDelivery"}, BeginModify(w, op, o)
      PROVE  SessionInv'
  <2>1. client[o] # "none"
    BY <1>4 DEF BeginModify, SessionInv, IInv, OrderOK
  <2> QED
    BY <1>0, <1>4, <2>1, RequestSession DEF BeginModify, OrderOps, Status
<1>5. ASSUME NEW i \in 1..MaxDeliveries, NEW s \in AdminStatuses,
             BeginModifyStatus(w, o, i, s)
      PROVE  SessionInv'
  <2>1. client[o] # "none"
    BY <1>5 DEF BeginModifyStatus, SessionInv, IInv, OrderOK
  <2>2. i \in Nat /\ s \in Status
    BY ConstantsAssumption
  <2> QED
    BY <1>1, <1>5, <2>1, <2>2 DEF BeginModifyStatus, AdminOps
<1>6. CASE BeginAddDelivery(w, o)
  <2>1. client[o] # "none"
    BY <1>6 DEF BeginAddDelivery, SessionInv, IInv, OrderOK
  <2> QED
    BY <1>1, <1>6, <2>1 DEF BeginAddDelivery, AdminOps, Status
<1> QED
  BY <1>2, <1>3, <1>4, <1>5, <1>6 DEF Begin

(* A transaction that closes without writing an order or a history. *)
LEMMA CloseSession ==
    ASSUME SessionInv, IInv', NEW w \in Workers, Close(w),
           UNCHANGED <<orders, ledger, form>>,
           \A o \in Orders : client'[o] = client[o] \/ (client[o] = "sent" /\ client'[o] = "failed")
    PROVE  SessionInv'
<1>1. tx'[w] = Idle /\ \A v \in Workers \ {w} : tx'[v] = tx[v]
  BY ClosedTransaction DEF SessionInv, IInv
<1>2. \A v \in Workers : OpenRequest(v)' => OpenRequest(v) /\ tx'[v] = tx[v]
  BY <1>1 DEF OpenRequest
<1>3. \A o \in Orders : OpenCheckout(o)' => OpenCheckout(o)
  BY DEF OpenCheckout
<1> QED
  BY <1>2, <1>3, SessionsShrink

LEMMA GatewaySession ==
    ASSUME SessionInv, NEW w \in Workers, CallGateway(w)
    PROVE  SessionInv'
<1>1. /\ tx[w] # Idle /\ tx' = [tx EXCEPT ![w].called = TRUE]
      /\ UNCHANGED <<orders, ledger, client, form>>
  BY DEF CallGateway, Runs, dbVars
<1>2. tx[w] \in Transaction /\ tx \in [Workers -> Transaction \union {Idle}]
  BY <1>1, OpenTransaction DEF SessionInv, IInv, TypeOK
<1>3. tx'[w] = [tx[w] EXCEPT !.called = TRUE]
  BY <1>1, <1>2
<1>4. /\ tx'[w].op = tx[w].op /\ tx'[w].order = tx[w].order /\ tx'[w].view = tx[w].view
      /\ \A v \in Workers \ {w} : tx'[v] = tx[v]
  BY <1>1, <1>2, <1>3 DEF Transaction
<1>5. \A v \in Workers : OpenRequest(v)' =>
          OpenRequest(v) /\ tx'[v].order = tx[v].order /\ tx'[v].view = tx[v].view
  BY <1>1, <1>4 DEF OpenRequest
<1>6. \A o \in Orders : OpenCheckout(o)' => OpenCheckout(o)
  BY <1>1 DEF OpenCheckout
<1> QED
  BY <1>1, <1>5, <1>6, SessionsShrink, GatewayIInv DEF SessionInv

LEMMA RollbackSession ==
    ASSUME SessionInv, NEW w \in Workers, Rollback(w)
    PROVE  SessionInv'
<1>1. Close(w) /\ UNCHANGED <<orders, ledger, form>>
  BY DEF Rollback, dbVars
<1>2. \A o \in Orders : client'[o] = client[o] \/ (client[o] = "sent" /\ client'[o] = "failed")
  BY DEF Rollback, SessionInv, IInv, TypeOK
<1> QED
  BY <1>1, <1>2, CloseSession, RollbackIInv DEF SessionInv

(* A modify writes the order as it still is. *)
LEMMA ModifyOrderKeeps ==
    ASSUME SessionInv, NEW w \in Workers, CommitModifyOrder(w)
    PROVE  orders' = orders
<1>1. OpenRequest(w)
  BY DEF CommitModifyOrder, Runs, OpenRequest, OrderOps
<1>2. tx[w].view.order = orders[tx[w].order]
  BY <1>1 DEF SessionInv, ViewKept
<1> QED
  BY <1>2 DEF CommitModifyOrder, SessionInv, IInv, TypeOK

LEMMA CommitOrderingSession ==
    ASSUME SessionInv, NEW w \in Workers, CommitOrdering(w)
    PROVE  SessionInv'
<1> DEFINE o == tx[w].order
           f == form[o]
<1>1. /\ tx[w] # Idle /\ tx[w].op = "ordering"
      /\ orders' = [orders EXCEPT ![o] = "live"]
      /\ Close(w) /\ UNCHANGED <<client, form>>
  BY DEF CommitOrdering, Runs
<1>2. o \in Orders /\ orders[o] = "none" /\ TypeOK
  BY <1>1, OpenTransaction DEF SessionInv, IInv, TxOK
<1>3. \A p \in Orders : p # o => ledger'[p] = ledger[p]
  BY <1>2 DEF CommitOrdering, TypeOK
<1>4. orders'[o] = "live" /\ \A p \in Orders : p # o => orders'[p] = orders[p]
  BY <1>1, <1>2 DEF TypeOK
<1>5. tx'[w] = Idle /\ \A v \in Workers \ {w} : tx'[v] = tx[v]
  BY <1>1, <1>2, ClosedTransaction
<1>6. \A v \in Workers : OpenRequest(v)' =>
          OpenRequest(v) /\ tx'[v] = tx[v] /\ tx[v].order # o /\ tx[v].order \in Orders
  BY <1>2, <1>5, OpenTransaction DEF OpenRequest, SessionInv, IInv, TxOK
<1>7. \A p \in Orders : OpenCheckout(p)' <=> OpenCheckout(p)
  BY <1>1 DEF OpenCheckout
<1>8. OneSession'
  BY <1>1, <1>6, <1>7 DEF SessionInv, OneSession
<1>9. ViewKept'
  BY <1>3, <1>4, <1>6 DEF SessionInv, ViewKept
<1>12. IInv'
  BY CommitOrderingIInv DEF SessionInv
<1> QED
  BY <1>8, <1>9, <1>12 DEF SessionInv

(* No other request is about the order a cancel writes. *)
LEMMA CommitCancelSession ==
    ASSUME SessionInv, NEW w \in Workers, CommitCancel(w)
    PROVE  SessionInv'
<1> DEFINE o == tx[w].order
           f == form[o]
<1>1. /\ tx[w] # Idle /\ tx[w].op = "cancel"
      /\ orders' = [orders EXCEPT ![o] = CancelledRow(o, tx[w].view)]
      /\ Close(w) /\ UNCHANGED <<client, form>>
  BY DEF CommitCancel, Runs
<1>2. o \in Orders /\ TypeOK
  BY <1>1, OpenTransaction DEF SessionInv, IInv
<1>3. \A p \in Orders : p # o => ledger'[p] = ledger[p] /\ orders'[p] = orders[p]
  BY <1>1, <1>2 DEF CommitCancel, TypeOK
<1>4. tx'[w] = Idle /\ \A v \in Workers \ {w} : tx'[v] = tx[v]
  BY <1>1, <1>2, ClosedTransaction
<1>5. OpenRequest(w)
  BY <1>1 DEF OpenRequest, OrderOps
<1>6. \A v \in Workers : OpenRequest(v)' =>
          OpenRequest(v) /\ tx'[v] = tx[v] /\ tx[v].order # o /\ tx[v].order \in Orders
  BY <1>2, <1>4, <1>5, OpenTransaction DEF OpenRequest, SessionInv, OneSession
<1>7. \A p \in Orders : OpenCheckout(p)' <=> OpenCheckout(p)
  BY <1>1 DEF OpenCheckout
<1>8. OneSession'
  BY <1>1, <1>6, <1>7 DEF SessionInv, OneSession
<1>9. ViewKept'
  BY <1>3, <1>6 DEF SessionInv, ViewKept
<1>12. IInv'
  BY CommitCancelIInv DEF SessionInv
<1> QED
  BY <1>8, <1>9, <1>12 DEF SessionInv

LEMMA CommitSession ==
    ASSUME SessionInv, NEW w \in Workers, Commit(w)
    PROVE  SessionInv'
<1>1. IInv'
  BY CommitIInv DEF SessionInv
<1>2. CASE CommitOrdering(w) \/ CommitCancel(w)
  BY <1>2, CommitOrderingSession, CommitCancelSession
<1>3. CASE CommitModifyOrder(w)
  BY <1>1, <1>3, ModifyOrderKeeps, CloseSession DEF CommitModifyOrder
<1>4. CASE CommitModifyDelivery(w)
  BY <1>1, <1>4, CloseSession DEF CommitModifyDelivery
<1>5. CASE CommitModifyStatus(w)
  BY <1>1, <1>5, CloseSession DEF CommitModifyStatus
<1>6. CASE CommitAddDelivery(w)
  BY <1>1, <1>6, CloseSession DEF CommitAddDelivery
<1> QED
  BY <1>2, <1>3, <1>4, <1>5, <1>6 DEF Commit

LEMMA InitSession == Init => SessionInv
<1> SUFFICES ASSUME Init PROVE SessionInv
  OBVIOUS
<1>1. \A w \in Workers : ~OpenRequest(w)
  BY DEF Init, OpenRequest
<1>2. \A o \in Orders : ~OpenCheckout(o)
  BY DEF Init, OpenCheckout
<1> QED
  BY <1>1, <1>2, InitIInv DEF SessionInv, OneSession, ViewKept

LEMMA NextSession ==
    ASSUME SessionLimit = 1, SessionInv, [Next]_vars
    PROVE  SessionInv'
<1>1. ASSUME NEW o \in Orders, Page(o) PROVE SessionInv'
  BY <1>1, PageSession
<1>2. ASSUME NEW w \in Workers, NEW o \in Orders, Begin(w, o) PROVE SessionInv'
  BY <1>2, BeginSession
<1>3. ASSUME NEW w \in Workers, Commit(w) \/ CallGateway(w) \/ Rollback(w)
      PROVE  SessionInv'
  BY <1>3, CommitSession, GatewaySession, RollbackSession
<1>4. CASE UNCHANGED vars
  <2>1. IInv'
    BY <1>4, NextIInv DEF SessionInv
  <2>2. UNCHANGED <<orders, ledger, client, form, tx>>
    BY <1>4 DEF vars
  <2> QED
    BY <2>1, <2>2, SessionsShrink DEF OpenCheckout, OpenRequest
<1> QED
  BY <1>1, <1>2, <1>3, <1>4 DEF Next

-----------------------------------------------------------------------------
(***************************************************************************)
(* Where the money is.                                                     *)
(***************************************************************************)

(* A step that moves neither money nor rows and leaves alone every request *)
(* that has called the gateway or is about to order.                       *)
LEMMA SettledKept ==
    ASSUME SettledInv, SessionInv', UNCHANGED <<orders, ledger, payment, client>>,
           \A w \in Workers : Called(w)' => Called(w) /\ tx'[w].op = tx[w].op,
           \A w \in Workers : Called(w) => /\ Called(w)' /\ tx'[w].op = tx[w].op
                                           /\ tx'[w].order = tx[w].order,
           \A w \in Workers : Runs(w, "ordering")' =>
                                Runs(w, "ordering") /\ tx'[w].order = tx[w].order
    PROVE  SettledInv'
<1>1. ASSUME NEW o \in Orders PROVE Settled(o)'
  <2>1. CalledFor(o) => CalledFor(o)'
    BY DEF CalledFor
  <2> QED
    BY <2>1 DEF SettledInv, Settled, OpenCheckout
<1>2. \A w \in Workers : Called(w)' => tx'[w].op = "cancel"
  BY DEF SettledInv
<1>3. \A w \in Workers : Runs(w, "ordering")' => client'[tx'[w].order] = "sent"
  BY DEF SettledInv
<1> QED
  BY <1>1, <1>2, <1>3 DEF SettledInv

(* A page step moves money or closes the checkout; requests go on. *)
LEMMA PageSettled ==
    ASSUME SessionLimit = 1, ResponseMayFail = FALSE, SettledInv, NEW o \in Orders, Page(o)
    PROVE  SettledInv'
<1>1. SessionInv' /\ IInv /\ TypeOK
  BY PageSession DEF SettledInv, SessionInv, IInv
<1>2. UNCHANGED <<orders, ledger, tx>>
  BY DEF Page, Checkout, Respond, LoseResponse, Compensate, dbVars
<1>3. /\ \A p \in Orders \ {o} : client'[p] = client[p] /\ payment'[p] = payment[p]
      /\ \A w \in Workers : Runs(w, "ordering") => client[tx[w].order] = "sent"
                                                    /\ orders[tx[w].order] = "none"
                                                    /\ tx[w].order \in Orders
  <2>1. \A p \in Orders \ {o} : client'[p] = client[p] /\ payment'[p] = payment[p]
    BY <1>1 DEF Page, Checkout, Respond, LoseResponse, Compensate, CancelPayment, TypeOK
  <2> QED
    BY <1>1, <2>1, OpenTransaction DEF SettledInv, IInv, TxOK, Runs
<1>4. \/ client[o] = "none" /\ client'[o] = "paid" /\ payment'[o] = "paid"
      \/ client[o] = "sent" /\ client'[o] = "done" /\ payment'[o] = payment[o]
                            /\ orders[o] # "none"
      \/ client[o] = "failed" /\ client'[o] = "closed"
  BY <1>1 DEF Page, Checkout, Respond, LoseResponse, Compensate, TypeOK
<1>5. \A p \in Orders : CalledFor(p)' <=> CalledFor(p)
  BY <1>2 DEF CalledFor, Called
<1>6. Settled(o) /\ (orders[o] # "none" => client[o] # "none")
  BY <1>1 DEF SettledInv, IInv, OrderOK
<1>7. Settled(o)'
  BY <1>2, <1>4, <1>5, <1>6 DEF Settled, OpenCheckout
<1>8. ASSUME NEW p \in Orders \ {o} PROVE Settled(p)'
  BY <1>2, <1>3, <1>5 DEF SettledInv, Settled, OpenCheckout
<1>9. \A w \in Workers : Called(w)' => tx'[w].op = "cancel"
  BY <1>2 DEF SettledInv, Called
<1>10. ASSUME NEW w \in Workers, Runs(w, "ordering")' PROVE client'[tx'[w].order] = "sent"
  <2>1. Runs(w, "ordering") /\ tx'[w] = tx[w]
    BY <1>2, <1>10 DEF Runs
  <2>2. tx[w].order # o
    BY <1>3, <1>4, <2>1
  <2> QED
    BY <1>3, <2>1, <2>2
<1> QED
  BY <1>1, <1>7, <1>8, <1>9, <1>10 DEF SettledInv

LEMMA BeginSettled ==
    ASSUME SessionLimit = 1, SettledInv, NEW w \in Workers, NEW o \in Orders, Begin(w, o)
    PROVE  SettledInv'
<1>0. SessionInv' /\ IInv /\ TypeOK
  BY BeginSession DEF SettledInv, SessionInv, IInv
<1>1. ASSUME NEW op, NEW i, NEW s, Open(w, op, o, i, s)
      PROVE  /\ tx[w] = Idle /\ tx'[w].op = op /\ tx'[w].order = o /\ tx'[w].called = FALSE
             /\ \A v \in Workers \ {w} : tx'[v] = tx[v]
  BY <1>0, <1>1 DEF TypeOK, Open
<1>2. ASSUME NEW op, op # "ordering", NEW i, NEW s, Open(w, op, o, i, s),
             UNCHANGED <<dbVars, payment, client, form>>
      PROVE  SettledInv'
  <2>1. /\ tx[w] = Idle /\ tx'[w].op = op /\ tx'[w].called = FALSE
        /\ \A v \in Workers \ {w} : tx'[v] = tx[v]
    BY <1>1, <1>2
  <2>2. /\ \A v \in Workers : Called(v)' => Called(v) /\ tx'[v].op = tx[v].op
        /\ \A v \in Workers : Called(v) => /\ Called(v)' /\ tx'[v].op = tx[v].op
                                           /\ tx'[v].order = tx[v].order
    BY <2>1 DEF Called
  <2>3. \A v \in Workers : Runs(v, "ordering")' =>
                Runs(v, "ordering") /\ tx'[v].order = tx[v].order
    BY <1>2, <2>1 DEF Runs
  <2>4. UNCHANGED <<orders, ledger, payment, client>>
    BY <1>2 DEF dbVars
  <2> QED
    BY <1>0, <2>2, <2>3, <2>4, SettledKept
<1>3. CASE BeginOrdering(w, o)
  <2>1. /\ tx[w] = Idle /\ tx'[w].op = "ordering" /\ tx'[w].order = o /\ tx'[w].called = FALSE
        /\ \A v \in Workers \ {w} : tx'[v] = tx[v]
    BY <1>1, <1>3 DEF BeginOrdering
  <2>2. /\ client[o] = "paid" /\ client' = [client EXCEPT ![o] = "sent"]
        /\ UNCHANGED <<orders, ledger, payment>>
    BY <1>3 DEF BeginOrdering, dbVars
  <2>3. client'[o] = "sent" /\ \A p \in Orders \ {o} : client'[p] = client[p]
    BY <1>0, <2>2 DEF TypeOK
  <2>4. /\ \A v \in Workers : Called(v)' <=> Called(v)
        /\ \A v \in Workers : Called(v) => tx'[v] = tx[v]
    BY <2>1 DEF Called
  <2>5. \A p \in Orders : CalledFor(p) => CalledFor(p)'
    BY <2>4 DEF CalledFor
  <2>6. ASSUME NEW p \in Orders PROVE Settled(p)'
    <3>1. Settled(p)
      BY DEF SettledInv
    <3>2. orders'[p] = orders[p] /\ ledger'[p] = ledger[p] /\ payment'[p] = payment[p]
      BY <2>2
    <3> QED
      BY <2>2, <2>3, <2>5, <3>1, <3>2 DEF Settled, OpenCheckout
  <2>7. \A v \in Workers : Called(v)' => tx'[v].op = "cancel"
    BY <2>4 DEF SettledInv
  <2>8. ASSUME NEW v \in Workers, Runs(v, "ordering")' PROVE client'[tx'[v].order] = "sent"
    <3>1. CASE v = w
      BY <2>1, <2>3, <3>1
    <3>2. CASE v # w
      <4>1. Runs(v, "ordering") /\ tx'[v] = tx[v]
        BY <2>1, <2>8, <3>2 DEF Runs
      <4>2. client[tx[v].order] = "sent" /\ tx[v].order \in Orders
        BY <1>0, <4>1, OpenTransaction DEF SettledInv, Runs
      <4> QED
        BY <2>2, <2>3, <4>1, <4>2
    <3> QED
      BY <3>1, <3>2
  <2> QED
    BY <1>0, <2>6, <2>7, <2>8 DEF SettledInv
<1>4. CASE BeginCancel(w, o)
  BY <1>2, <1>4 DEF BeginCancel
<1>5. ASSUME NEW op \in {"modifyOrder", "modifyDelivery"}, BeginModify(w, op, o)
      PROVE  SettledInv'
  BY <1>2, <1>5 DEF BeginModify
<1>6. ASSUME NEW i \in 1..MaxDeliveries, NEW s \in AdminStatuses,
             BeginModifyStatus(w, o, i, s)
      PROVE  SettledInv'
  BY <1>2, <1>6 DEF BeginModifyStatus
<1>7. CASE BeginAddDelivery(w, o)
  BY <1>2, <1>7 DEF BeginAddDelivery
<1> QED
  BY <1>3, <1>4, <1>5, <1>6, <1>7 DEF Begin

(* The gateway is asked for the money of an order a cancel is about: from  *)
(* then on that cancel has called.                                         *)
LEMMA GatewaySettled ==
    ASSUME SettledInv, NEW w \in Workers, CallGateway(w)
    PROVE  SettledInv'
<1> DEFINE o == tx[w].order
<1>1. /\ tx[w] # Idle /\ tx[w].op = "cancel" /\ tx' = [tx EXCEPT ![w].called = TRUE]
      /\ UNCHANGED <<orders, ledger, client>>
      /\ CancelPayment(o)
  BY DEF CallGateway, Runs, dbVars
<1>2. SessionInv' /\ IInv /\ TypeOK /\ TypeOK'
  BY GatewaySession DEF SettledInv, SessionInv, IInv
<1>3. tx[w] \in Transaction /\ tx \in [Workers -> Transaction \union {Idle}] /\ o \in Orders
  BY <1>1, <1>2, OpenTransaction DEF TypeOK
<1>4. tx'[w] = [tx[w] EXCEPT !.called = TRUE]
  BY <1>1, <1>3
<1>5. /\ tx'[w].op = "cancel" /\ tx'[w].order = o /\ tx'[w].called
      /\ \A v \in Workers \ {w} : tx'[v] = tx[v]
  BY <1>1, <1>3, <1>4 DEF Transaction
<1>6. tx'[w] # Idle
  BY <1>5 DEF Idle
<1>7. /\ \A v \in Workers : Called(v)' => v = w \/ (Called(v) /\ tx'[v] = tx[v])
      /\ \A p \in Orders : p = o => CalledFor(p)'
      /\ \A p \in Orders : p # o /\ CalledFor(p) => CalledFor(p)'
  BY <1>5, <1>6 DEF CalledFor, Called
<1>8. orders[o] # "none" /\ client[o] \notin {"none", "paid"}
  BY <1>1, <1>2, <1>3 DEF IInv, TxOK, OrderOK
<1>9. \A p \in Orders \ {o} : payment'[p] = payment[p]
  BY <1>1, <1>2 DEF CancelPayment, TypeOK
<1>10. payment'[o] \in {payment[o], "cancelled"}
  BY <1>1, <1>2, <1>3 DEF CancelPayment, TypeOK
<1>11. ASSUME NEW p \in Orders PROVE Settled(p)'
  <2>1. Settled(p) /\ orders'[p] = orders[p] /\ ledger'[p] = ledger[p] /\ client'[p] = client[p]
    BY <1>1 DEF SettledInv
  <2>2. CASE p # o
    <3>1. payment'[p] = payment[p] /\ (CalledFor(p) => CalledFor(p)')
      BY <1>7, <1>9, <2>2
    <3> QED
      BY <2>1, <3>1 DEF Settled, OpenCheckout
  <2>3. CASE p = o
    <3>1. CalledFor(p)' /\ orders[p] # "none" /\ client[p] # "none"
      BY <1>7, <1>8, <2>3
    <3>2. payment'[p] # "none"
      BY <1>10, <2>1, <2>3, <3>1 DEF Settled
    <3> QED
      BY <2>1, <3>1, <3>2 DEF Settled, OpenCheckout
  <2> QED
    BY <2>2, <2>3
<1>12. \A v \in Workers : Called(v)' => tx'[v].op = "cancel"
  BY <1>5, <1>7 DEF SettledInv
<1>13. ASSUME NEW v \in Workers, Runs(v, "ordering")' PROVE client'[tx'[v].order] = "sent"
  <2>1. v # w /\ tx'[v] = tx[v] /\ Runs(v, "ordering")
    BY <1>5, <1>13 DEF Runs
  <2> QED
    BY <1>1, <2>1 DEF SettledInv
<1> QED
  BY <1>2, <1>11, <1>12, <1>13 DEF SettledInv

(* A transaction that has not called the gateway closes without a trace. *)
LEMMA CloseSettled ==
    ASSUME SettledInv, SessionInv', NEW w \in Workers, Close(w), ~Called(w),
           UNCHANGED <<orders, ledger, payment, client>>
    PROVE  SettledInv'
<1>1. tx'[w] = Idle /\ \A v \in Workers \ {w} : tx'[v] = tx[v]
  BY ClosedTransaction DEF SettledInv, SessionInv, IInv
<1>2. /\ \A v \in Workers : Called(v)' => Called(v) /\ tx'[v].op = tx[v].op
      /\ \A v \in Workers : Called(v) => /\ Called(v)' /\ tx'[v].op = tx[v].op
                                         /\ tx'[v].order = tx[v].order
  BY <1>1 DEF Called
<1>3. \A v \in Workers : Runs(v, "ordering")' =>
              Runs(v, "ordering") /\ tx'[v].order = tx[v].order
  BY <1>1 DEF Runs
<1> QED
  BY <1>2, <1>3, SettledKept

LEMMA RollbackSettled ==
    ASSUME ServerMayCrash = FALSE, SettledInv, NEW w \in Workers, Rollback(w)
    PROVE  SettledInv'
<1> DEFINE o == tx[w].order
<1>0. SessionInv' /\ IInv /\ TypeOK
  BY RollbackSession DEF SettledInv, SessionInv, IInv
<1>1. /\ tx[w] # Idle /\ ~Called(w) /\ Close(w)
      /\ UNCHANGED <<orders, ledger, payment>>
  BY DEF Rollback, Called, dbVars
<1>2. CASE client' = client
  BY <1>0, <1>1, <1>2, CloseSettled
<1>3. CASE tx[w].op = "ordering" /\ client[o] = "sent" /\ client' = [client EXCEPT ![o] = "failed"]
  <2>1. tx'[w] = Idle /\ \A v \in Workers \ {w} : tx'[v] = tx[v]
    BY <1>0, <1>1, ClosedTransaction
  <2>2. o \in Orders /\ orders[o] = "none"
    BY <1>0, <1>1, <1>3, OpenTransaction DEF IInv, TxOK
  <2>3. client'[o] = "failed" /\ \A p \in Orders \ {o} : client'[p] = client[p]
    BY <1>0, <1>3, <2>2 DEF TypeOK
  <2>4. /\ \A v \in Workers : Called(v)' <=> Called(v)
        /\ \A v \in Workers : Called(v) => tx'[v] = tx[v]
    BY <1>1, <2>1 DEF Called
  <2>5. \A p \in Orders : CalledFor(p) => CalledFor(p)'
    BY <2>4 DEF CalledFor
  <2>6. ASSUME NEW p \in Orders PROVE Settled(p)'
    <3>1. Settled(p) /\ orders'[p] = orders[p] /\ ledger'[p] = ledger[p] /\ payment'[p] = payment[p]
      BY <1>1 DEF SettledInv
    <3>2. \/ client'[p] = client[p]
          \/ client[p] = "sent" /\ client'[p] = "failed" /\ orders[p] = "none"
      BY <1>3, <2>2, <2>3
    <3> QED
      BY <2>5, <3>1, <3>2 DEF Settled, OpenCheckout
  <2>7. \A v \in Workers : Called(v)' => tx'[v].op = "cancel"
    BY <2>4 DEF SettledInv
  <2>8. ASSUME NEW v \in Workers, Runs(v, "ordering")' PROVE client'[tx'[v].order] = "sent"
    <3>1. v # w /\ Runs(v, "ordering") /\ tx'[v] = tx[v]
      BY <2>1, <2>8 DEF Runs
    <3>2. client[tx[v].order] = "sent" /\ tx[v].order \in Orders
      BY <1>0, <3>1, OpenTransaction DEF SettledInv, Runs
    <3>3. tx[v].order # o
      BY <1>0, <1>1, <1>3, <3>1 DEF IInv, TxOK, Runs
    <3> QED
      BY <2>3, <3>1, <3>2, <3>3
  <2> QED
    BY <1>0, <2>6, <2>7, <2>8 DEF SettledInv
<1> QED
  BY <1>2, <1>3 DEF Rollback

(* An order is stored while its payment stands. *)
LEMMA CommitOrderingSettled ==
    ASSUME SettledInv, NEW w \in Workers, CommitOrdering(w)
    PROVE  SettledInv' /\ orders[tx[w].order] = "none" /\ payment[tx[w].order] = "paid"
<1> DEFINE o == tx[w].order
<1>0. SessionInv' /\ IInv /\ TypeOK /\ TypeOK' /\ Settled(o)
  <2>1. o \in Orders
    BY OpenTransaction DEF SettledInv, SessionInv, IInv, CommitOrdering, Runs
  <2> QED
    BY <2>1, CommitOrderingSession DEF SettledInv, SessionInv, IInv
<1>1. /\ tx[w] # Idle /\ tx[w].op = "ordering" /\ Runs(w, "ordering")
      /\ orders' = [orders EXCEPT ![o] = "live"]
      /\ Close(w) /\ UNCHANGED <<payment, client>>
  BY DEF CommitOrdering, Runs
<1>2. o \in Orders /\ orders[o] = "none" /\ tx[w].view.ledger = <<>> /\ ledger[o] = <<>>
  BY <1>0, <1>1, OpenTransaction DEF IInv, TxOK, CancelReversesPlacement
<1>3. ~Exists(tx[w].view.ledger, "ORDER")
  BY <1>2 DEF Exists
<1>4. PICK row : ledger' = [ledger EXCEPT ![o] = Append(@, row)]
  BY <1>3 DEF CommitOrdering
<1>5. ledger'[o] = Append(<<>>, row) /\ \A p \in Orders \ {o} : ledger'[p] = ledger[p]
  BY <1>0, <1>2, <1>4 DEF TypeOK
<1>6. Len(ledger'[o]) = 1
  BY <1>5
<1>7. tx'[w] = Idle /\ \A v \in Workers \ {w} : tx'[v] = tx[v]
  BY <1>0, <1>1, ClosedTransaction
<1>8. /\ client[o] = "sent" /\ payment[o] = "paid"
  BY <1>0, <1>1, <1>2 DEF SettledInv, Settled, OpenCheckout
<1>9. orders'[o] = "live" /\ \A p \in Orders \ {o} : orders'[p] = orders[p]
  BY <1>0, <1>1, <1>2 DEF TypeOK
<1>10. \A v \in Workers : Called(v) => v # w /\ tx'[v] = tx[v] /\ Called(v)'
  BY <1>1, <1>7 DEF Called, SettledInv
<1>11. ASSUME NEW p \in Orders PROVE Settled(p)'
  <2>1. CASE p = o
    BY <1>1, <1>6, <1>8, <1>9, <2>1 DEF Settled
  <2>2. CASE p # o
    <3>1. CalledFor(p) => CalledFor(p)'
      BY <1>10 DEF CalledFor
    <3> QED
      BY <1>1, <1>5, <1>9, <2>2, <3>1 DEF SettledInv, Settled, OpenCheckout
  <2> QED
    BY <2>1, <2>2
<1>12. \A v \in Workers : Called(v)' => tx'[v].op = "cancel"
  BY <1>7 DEF SettledInv, Called
<1>13. ASSUME NEW v \in Workers, Runs(v, "ordering")' PROVE client'[tx'[v].order] = "sent"
  BY <1>1, <1>7, <1>13 DEF SettledInv, Runs
<1> QED
  BY <1>0, <1>2, <1>8, <1>11, <1>12, <1>13 DEF SettledInv

(* A cancel makes a live order a cancelled one and reverses its points; of *)
(* a cancelled order it changes neither row nor history.                   *)
LEMMA CommitCancelMoves ==
    ASSUME SettledInv, NEW w \in Workers, CommitCancel(w)
    PROVE  /\ tx[w].order \in Orders
           /\ orders[tx[w].order] \in {"live", "cancelled"}
           /\ orders[tx[w].order] = "live" =>
                /\ orders' = [orders EXCEPT ![tx[w].order] = "cancelled"]
                /\ \E row \in LedgerRow : ledger' = [ledger EXCEPT ![tx[w].order] = Append(@, row)]
           /\ orders[tx[w].order] = "cancelled" => UNCHANGED <<orders, ledger>>
<1> DEFINE o == tx[w].order
           v == tx[w].view
<1>1. /\ tx[w] # Idle /\ tx[w].op = "cancel" /\ OpenRequest(w)
      /\ orders' = [orders EXCEPT ![o] = CancelledRow(o, v)]
  BY DEF CommitCancel, Runs, OpenRequest, OrderOps
<1>2. o \in Orders /\ IInv /\ TypeOK
  BY <1>1, OpenTransaction DEF SettledInv, SessionInv, IInv
<1>3. v.order = orders[o] /\ v.ledger = ledger[o]
  BY <1>1 DEF SettledInv, SessionInv, ViewKept
<1>4. orders[o] \in {"live", "cancelled"}
  BY <1>1, <1>2 DEF IInv, TypeOK, TxOK, OrderState
<1>5. Reverses(form[o], ledger[o]) /\ ledger[o] \in Seq(LedgerRow) /\ Settled(o)
  BY <1>2, <1>4 DEF IInv, CancelReversesPlacement, TypeOK, SettledInv
<1>6. ASSUME orders[o] = "live"
      PROVE  /\ orders' = [orders EXCEPT ![o] = "cancelled"]
             /\ \E row \in LedgerRow : ledger' = [ledger EXCEPT ![o] = Append(@, row)]
  <2>1. Len(ledger[o]) = 1
    BY <1>5, <1>6 DEF Settled
  <2>2. DOMAIN ledger[o] = {1}
    BY <1>5, <2>1
  <2>3. ledger[o][1].type # "ORDER_CANCEL"
    BY <1>5 DEF Reverses
  <2>4. ~Exists(v.ledger, "ORDER_CANCEL")
    BY <1>3, <2>2, <2>3 DEF Exists
  <2>5. ledger' = [ledger EXCEPT ![o] = Append(@, CancelRow(form[o], v.ledger))]
    BY <2>4 DEF CommitCancel
  <2>6. form[o] \in Form
    BY <1>2, <1>6 DEF IInv, OrderOK
  <2>7. CancelRow(form[o], v.ledger) \in LedgerRow
    BY <1>3, <1>5, <2>6, CancelAppends
  <2> QED
    BY <1>1, <1>3, <1>6, <2>5, <2>7 DEF CancelledRow
<1>7. ASSUME orders[o] = "cancelled" PROVE UNCHANGED <<orders, ledger>>
  <2>1. Len(ledger[o]) = 2
    BY <1>5, <1>7 DEF Settled
  <2>2. 2 \in DOMAIN ledger[o] \ {1}
    BY <1>5, <2>1
  <2>3. ledger[o][2].type = "ORDER_CANCEL"
    BY <1>5, <2>2 DEF Reverses
  <2>4. Exists(v.ledger, "ORDER_CANCEL")
    BY <1>3, <2>2, <2>3 DEF Exists
  <2>5. ledger' = ledger
    BY <2>4 DEF CommitCancel
  <2>6. orders' = orders
    BY <1>1, <1>2, <1>3, <1>7 DEF CancelledRow, TypeOK
  <2> QED
    BY <2>5, <2>6
<1> QED
  BY <1>2, <1>4, <1>6, <1>7

LEMMA CommitCancelSettled ==
    ASSUME SettledInv, NEW w \in Workers, CommitCancel(w)
    PROVE  SettledInv'
<1> DEFINE o == tx[w].order
<1>0. SessionInv' /\ IInv /\ TypeOK /\ TypeOK'
  BY CommitCancelSession DEF SettledInv, SessionInv, IInv
<1>1. /\ tx[w] # Idle /\ tx[w].op = "cancel" /\ Close(w) /\ UNCHANGED <<payment, client>>
  BY DEF CommitCancel, Runs
<1>2. tx'[w] = Idle /\ \A v \in Workers \ {w} : tx'[v] = tx[v]
  BY <1>0, <1>1, ClosedTransaction
<1>3. /\ \A v \in Workers : Called(v)' => Called(v) /\ tx'[v] = tx[v]
      /\ \A v \in Workers : Called(v) /\ v # w => Called(v)' /\ tx'[v] = tx[v]
  BY <1>2 DEF Called
<1>4. /\ o \in Orders /\ orders[o] \in {"live", "cancelled"}
      /\ \A p \in Orders \ {o} : orders'[p] = orders[p] /\ ledger'[p] = ledger[p]
      /\ orders'[o] = "cancelled" /\ Len(ledger'[o]) = 2
  <2>1. /\ o \in Orders /\ orders[o] \in {"live", "cancelled"} /\ Settled(o)
    BY CommitCancelMoves DEF SettledInv
  <2>2. CASE orders[o] = "cancelled"
    <3>1. UNCHANGED <<orders, ledger>>
      BY <2>2, CommitCancelMoves
    <3> QED
      BY <2>1, <2>2, <3>1 DEF Settled
  <2>3. CASE orders[o] = "live"
    <3>1. PICK row \in LedgerRow : ledger' = [ledger EXCEPT ![o] = Append(@, row)]
      BY <2>3, CommitCancelMoves
    <3>2. orders' = [orders EXCEPT ![o] = "cancelled"]
      BY <2>3, CommitCancelMoves
    <3>3. /\ \A p \in Orders \ {o} : orders'[p] = orders[p] /\ ledger'[p] = ledger[p]
          /\ orders'[o] = "cancelled" /\ ledger'[o] = Append(ledger[o], row)
      BY <1>0, <2>1, <3>1, <3>2 DEF TypeOK
    <3>4. Len(ledger[o]) = 1 /\ ledger[o] \in Seq(LedgerRow)
      BY <1>0, <2>1, <2>3 DEF Settled, TypeOK
    <3>5. Len(Append(ledger[o], row)) = 2
      <4> HIDE DEF o
      <4>1. Len(Append(ledger[o], row)) = Len(ledger[o]) + 1
        BY <3>4, AppendProperties
      <4> QED
        BY <3>4, <4>1
    <3> QED
      BY <2>1, <3>3, <3>5
  <2> QED
    BY <2>1, <2>2, <2>3
<1>5. ASSUME NEW p \in Orders PROVE Settled(p)'
  <2>1. CASE p = o
    <3>1. Settled(p)
      BY DEF SettledInv
    <3> QED
      BY <1>1, <1>4, <2>1, <3>1 DEF Settled, OpenCheckout
  <2>2. CASE p # o
    <3>1. CalledFor(p) => CalledFor(p)'
      BY <1>3, <2>2 DEF CalledFor
    <3> QED
      BY <1>1, <1>4, <2>2, <3>1 DEF SettledInv, Settled, OpenCheckout
  <2> QED
    BY <2>1, <2>2
<1>6. \A v \in Workers : Called(v)' => tx'[v].op = "cancel"
  BY <1>3 DEF SettledInv
<1>7. ASSUME NEW v \in Workers, Runs(v, "ordering")' PROVE client'[tx'[v].order] = "sent"
  BY <1>1, <1>2, <1>7 DEF SettledInv, Runs
<1> QED
  BY <1>0, <1>5, <1>6, <1>7 DEF SettledInv

LEMMA CommitSettled ==
    ASSUME SettledInv, NEW w \in Workers, Commit(w)
    PROVE  SettledInv'
<1>1. SessionInv'
  BY CommitSession DEF SettledInv
<1>2. CASE CommitOrdering(w) \/ CommitCancel(w)
  BY <1>2, CommitOrderingSettled, CommitCancelSettled
<1>3. ASSUME Runs(w, "modifyOrder") \/ Runs(w, "modifyDelivery") \/ Runs(w, "modifyStatus")
                \/ Runs(w, "addDelivery")
      PROVE  ~Called(w)
  BY <1>3 DEF SettledInv, Called, Runs
<1>4. CASE CommitModifyOrder(w)
  BY <1>1, <1>3, <1>4, ModifyOrderKeeps, CloseSettled DEF CommitModifyOrder, SettledInv
<1>5. CASE CommitModifyDelivery(w)
  BY <1>1, <1>3, <1>5, CloseSettled DEF CommitModifyDelivery
<1>6. CASE CommitModifyStatus(w)
  BY <1>1, <1>3, <1>6, CloseSettled DEF CommitModifyStatus
<1>7. CASE CommitAddDelivery(w)
  BY <1>1, <1>3, <1>7, CloseSettled DEF CommitAddDelivery
<1> QED
  BY <1>2, <1>4, <1>5, <1>6, <1>7 DEF Commit

LEMMA InitSettled == Init => SettledInv
<1> SUFFICES ASSUME Init PROVE SettledInv
  OBVIOUS
<1>1. \A o \in Orders : Settled(o)
  BY DEF Init, Settled, OpenCheckout
<1>2. \A w \in Workers : tx[w] = Idle
  BY DEF Init
<1> QED
  BY <1>1, <1>2, InitSession DEF SettledInv, Called, Runs

LEMMA NextSettled ==
    ASSUME SessionLimit = 1, ResponseMayFail = FALSE, ServerMayCrash = FALSE,
           SettledInv, [Next]_vars
    PROVE  SettledInv'
<1>1. ASSUME NEW o \in Orders, Page(o) PROVE SettledInv'
  BY <1>1, PageSettled
<1>2. ASSUME NEW w \in Workers, NEW o \in Orders, Begin(w, o) PROVE SettledInv'
  BY <1>2, BeginSettled
<1>3. ASSUME NEW w \in Workers, Commit(w) \/ CallGateway(w) \/ Rollback(w)
      PROVE  SettledInv'
  BY <1>3, CommitSettled, GatewaySettled, RollbackSettled
<1>4. CASE UNCHANGED vars
  <2>1. SessionInv'
    BY <1>4, NextSession DEF SettledInv
  <2>2. UNCHANGED <<orders, ledger, payment, client, tx>>
    BY <1>4 DEF vars
  <2> QED
    BY <2>1, <2>2, SettledKept DEF Called, Runs
<1> QED
  BY <1>1, <1>2, <1>3, <1>4 DEF Next

-----------------------------------------------------------------------------
(***************************************************************************)
(* The contract of an order.                                               *)
(***************************************************************************)

(* What the refinement mapping shows, read off the order row and the       *)
(* payment alone.                                                          *)
MoneyOf == [o \in Orders |-> IF orders[o] = "live" THEN "paid" ELSE payment[o]]
PointsOf == [o \in Orders |-> IF orders[o] = "none" THEN "none"
                              ELSE IF orders[o] = "live" THEN "placed" ELSE "reversed"]
Seen == MoneySeen = MoneyOf /\ PointsSeen = PointsOf

LEMMA SettledSeen ==
    ASSUME SettledInv
    PROVE  Seen
<1>1. ASSUME NEW o \in Orders PROVE MoneySeen[o] = MoneyOf[o]
  <2>1. CASE orders[o] = "live"
    <3>1. payment[o] = "paid" \/ CalledFor(o)
      BY <2>1 DEF SettledInv, Settled
    <3>2. CalledFor(o) => \E w \in Workers :
                Runs(w, "cancel") /\ tx[w].order = o /\ tx[w].called
      BY DEF CalledFor, Called, Runs
    <3> QED
      BY <2>1, <3>1, <3>2 DEF MoneySeen, MoneyOf
  <2>2. CASE orders[o] # "live"
    BY <2>2 DEF MoneySeen, MoneyOf
  <2> QED
    BY <2>1, <2>2
<1>2. ASSUME NEW o \in Orders PROVE PointsSeen[o] = PointsOf[o]
  <2>1. /\ orders[o] \in {"none", "live", "cancelled"} /\ ledger[o] \in Seq(LedgerRow)
        /\ orders[o] = "none" => ledger[o] = <<>>
        /\ orders[o] = "live" => Len(ledger[o]) = 1
        /\ orders[o] = "cancelled" => Len(ledger[o]) = 2
    BY DEF SettledInv, SessionInv, IInv, TypeOK, OrderState, CancelReversesPlacement, Settled
  <2> DEFINE rows == ledger[o]
  <2>2. PointsSeen[o] = CASE rows = <<>> -> "none"
                          [] Len(rows) = 1 -> "placed"
                          [] Len(rows) = 2 -> "reversed"
                          [] OTHER -> "reversed twice"
    BY DEF PointsSeen
  <2>3. Len(<<>>) = 0
    OBVIOUS
  <2> HIDE DEF rows
  <2>4. CASE orders[o] = "none"
    <3>1. rows = <<>>
      BY <2>1, <2>4 DEF rows
    <3>2. PointsSeen[o] = "none"
      BY <2>2, <2>3, <3>1
    <3> QED
      BY <2>4, <3>2 DEF PointsOf
  <2>5. CASE orders[o] = "live"
    <3>1. Len(rows) = 1
      BY <2>1, <2>5 DEF rows
    <3>2. rows # <<>>
      BY <2>3, <3>1
    <3>3. PointsSeen[o] = "placed"
      BY <2>2, <3>1, <3>2
    <3> QED
      BY <2>5, <3>3 DEF PointsOf
  <2>6. CASE orders[o] = "cancelled"
    <3>1. Len(rows) = 2
      BY <2>1, <2>6 DEF rows
    <3>2. rows # <<>>
      BY <2>3, <3>1
    <3>3. PointsSeen[o] = "reversed"
      BY <2>2, <3>1, <3>2
    <3> QED
      BY <2>6, <3>3 DEF PointsOf
  <2> QED
    BY <2>1, <2>4, <2>5, <2>6
<1> QED
  BY <1>1, <1>2 DEF Seen, MoneySeen, MoneyOf, PointsSeen, PointsOf

(* Steps that move neither the order row nor the payment are not seen. *)
LEMMA Unseen ==
    ASSUME Seen, Seen', UNCHANGED <<orders, payment>>
    PROVE  UNCHANGED Contract!vars
<1>1. MoneyOf' = MoneyOf /\ PointsOf' = PointsOf
  BY DEF MoneyOf, PointsOf
<1> QED
  BY <1>1 DEF Seen, Contract!vars

(* Giving money back for an order that is not live is a refund, or nothing. *)
LEMMA RefundSeen ==
    ASSUME Seen, Seen', TypeOK, NEW o \in Orders, orders[o] # "live", payment[o] # "none",
           CancelPayment(o), orders' = orders
    PROVE  Contract!Refund(o) \/ UNCHANGED Contract!vars
<1>1. PointsOf' = PointsOf
  BY DEF PointsOf
<1>2. CASE payment' = payment
  BY <1>2, Unseen
<1>3. CASE payment' = [payment EXCEPT ![o] = "cancelled"] /\ payment[o] = "cancelled"
  <2>1. payment' = payment
    BY <1>3 DEF TypeOK
  <2> QED
    BY <2>1, Unseen
<1>4. CASE payment' = [payment EXCEPT ![o] = "cancelled"] /\ payment[o] = "paid"
  <2>1. MoneyOf' = [MoneyOf EXCEPT ![o] = "cancelled"] /\ MoneyOf[o] = "paid"
    BY <1>4 DEF TypeOK, MoneyOf
  <2> QED
    BY <1>1, <2>1 DEF Seen, Contract!Refund, Contract!Refunded
<1> QED
  BY <1>2, <1>3, <1>4 DEF CancelPayment, TypeOK

LEMMA PageSeen ==
    ASSUME SettledInv, Seen, Seen', NEW o \in Orders, Page(o)
    PROVE  Contract!Next \/ UNCHANGED Contract!vars
<1>1. /\ TypeOK /\ OrderOK(o) /\ Settled(o)
  BY DEF SettledInv, SessionInv, IInv
<1>2. CASE Checkout(o)
  <2>1. /\ orders[o] = "none" /\ payment[o] = "none"
        /\ orders' = orders /\ payment' = [payment EXCEPT ![o] = "paid"]
    BY <1>1, <1>2 DEF Checkout, OrderOK, Settled, dbVars
  <2>2. MoneyOf' = [MoneyOf EXCEPT ![o] = "paid"] /\ MoneyOf[o] = "none" /\ PointsOf' = PointsOf
    <3>1. \A p \in Orders \ {o} : payment'[p] = payment[p]
      BY <1>1, <2>1 DEF TypeOK
    <3>2. payment'[o] = "paid"
      BY <1>1, <2>1 DEF TypeOK
    <3> QED
      BY <2>1, <3>1, <3>2 DEF MoneyOf, PointsOf
  <2>3. Contract!Pay(o)
    BY <2>1, <2>2 DEF Seen, Contract!Pay
  <2> QED
    BY <2>3 DEF Contract!Next
<1>3. CASE Respond(o) \/ LoseResponse(o)
  BY <1>3, Unseen DEF Respond, LoseResponse, dbVars
<1>4. CASE Compensate(o)
  <2>1. orders[o] = "none" /\ payment[o] = "paid" /\ orders' = orders /\ CancelPayment(o)
    BY <1>1, <1>4 DEF Compensate, Settled, OpenCheckout, dbVars
  <2> QED
    BY <1>1, <2>1, RefundSeen DEF Contract!Next
<1> QED
  BY <1>2, <1>3, <1>4 DEF Page

LEMMA GatewaySeen ==
    ASSUME SettledInv, Seen, Seen', NEW w \in Workers, CallGateway(w)
    PROVE  Contract!Next \/ UNCHANGED Contract!vars
<1> DEFINE o == tx[w].order
<1>1. /\ tx[w] # Idle /\ tx[w].op = "cancel" /\ CancelPayment(o) /\ orders' = orders
  BY DEF CallGateway, Runs, dbVars
<1>2. /\ o \in Orders /\ orders[o] # "none" /\ payment[o] # "none" /\ TypeOK
  BY <1>1, OpenTransaction DEF SettledInv, SessionInv, IInv, TxOK, Settled
<1>3. CASE orders[o] = "live"
  <2>1. MoneyOf' = MoneyOf /\ PointsOf' = PointsOf
    BY <1>1, <1>2, <1>3 DEF MoneyOf, PointsOf, CancelPayment, TypeOK
  <2> QED
    BY <1>1, <2>1 DEF Seen, Contract!vars
<1>4. CASE orders[o] # "live"
  BY <1>1, <1>2, <1>4, RefundSeen DEF Contract!Next
<1> QED
  BY <1>3, <1>4

LEMMA CommitSeen ==
    ASSUME SettledInv, Seen, Seen', NEW w \in Workers, Commit(w)
    PROVE  Contract!Next \/ UNCHANGED Contract!vars
<1> DEFINE o == tx[w].order
<1>1. TypeOK
  BY DEF SettledInv, SessionInv, IInv
<1>2. CASE CommitOrdering(w)
  <2>1. o \in Orders
    BY <1>1, <1>2, OpenTransaction DEF CommitOrdering, Runs
  <2>2. /\ orders[o] = "none" /\ payment[o] = "paid" /\ payment' = payment
        /\ orders' = [orders EXCEPT ![o] = "live"]
    BY <1>2, CommitOrderingSettled DEF CommitOrdering
  <2>3. /\ MoneyOf' = MoneyOf /\ MoneyOf[o] = "paid"
        /\ PointsOf' = [PointsOf EXCEPT ![o] = "placed"]
    <3>1. orders'[o] = "live" /\ \A p \in Orders \ {o} : orders'[p] = orders[p]
      BY <1>1, <2>1, <2>2 DEF TypeOK
    <3>2. MoneyOf' = MoneyOf /\ MoneyOf[o] = "paid"
      BY <2>1, <2>2, <3>1 DEF MoneyOf
    <3>3. PointsOf' = [PointsOf EXCEPT ![o] = "placed"]
      BY <2>1, <3>1 DEF PointsOf
    <3> QED
      BY <3>2, <3>3
  <2>4. Contract!Place(o)
    BY <2>2, <2>3 DEF Seen, Contract!Place
  <2> QED
    BY <2>1, <2>4 DEF Contract!Next
<1>3. CASE CommitCancel(w)
  <2>1. /\ o \in Orders /\ orders[o] \in {"live", "cancelled"} /\ payment' = payment
    BY <1>3, CommitCancelMoves DEF CommitCancel
  <2>2. CASE orders[o] = "cancelled"
    BY <1>3, <2>1, <2>2, CommitCancelMoves, Unseen
  <2>3. CASE orders[o] = "live"
    <3>1. orders' = [orders EXCEPT ![o] = "cancelled"]
      BY <1>3, <2>3, CommitCancelMoves
    <3>2. payment[o] \in {"paid", "cancelled"}
      BY <1>1, <2>1, <2>3 DEF SettledInv, Settled, TypeOK
    <3>3. PointsOf' = [PointsOf EXCEPT ![o] = "reversed"]
      <4>1. orders'[o] = "cancelled" /\ \A p \in Orders \ {o} : orders'[p] = orders[p]
        BY <1>1, <2>1, <3>1 DEF TypeOK
      <4> QED
        BY <2>1, <4>1 DEF PointsOf
    <3>4. MoneyOf' = MoneyOf \/ MoneyOf' = [MoneyOf EXCEPT ![o] = "cancelled"]
      <4>1. MoneyOf' = [MoneyOf EXCEPT ![o] = payment[o]] /\ MoneyOf[o] = "paid"
        BY <1>1, <2>1, <2>3, <3>1 DEF TypeOK, MoneyOf
      <4>2. MoneyOf = [MoneyOf EXCEPT ![o] = MoneyOf[o]]
        BY DEF MoneyOf
      <4> QED
        BY <3>2, <4>1, <4>2
    <3>5. Contract!Cancel(o)
      BY <2>3, <3>1, <3>3, <3>4 DEF Seen, Contract!Cancel, Contract!Refunded
    <3> QED
      BY <2>1, <3>5 DEF Contract!Next
  <2> QED
    BY <2>1, <2>2, <2>3
<1>4. CASE CommitModifyOrder(w)
  BY <1>4, ModifyOrderKeeps, Unseen DEF CommitModifyOrder, SettledInv
<1>5. CASE CommitModifyDelivery(w) \/ CommitModifyStatus(w) \/ CommitAddDelivery(w)
  BY <1>5, Unseen DEF CommitModifyDelivery, CommitModifyStatus, CommitAddDelivery
<1> QED
  BY <1>2, <1>3, <1>4, <1>5 DEF Commit

LEMMA NextSeen == SettledInv /\ Seen /\ Seen' /\ [Next]_vars => [Contract!Next]_(Contract!vars)
<1> SUFFICES ASSUME SettledInv, Seen, Seen', [Next]_vars
             PROVE  Contract!Next \/ UNCHANGED Contract!vars
  OBVIOUS
<1>1. ASSUME NEW o \in Orders, Page(o) PROVE Contract!Next \/ UNCHANGED Contract!vars
  BY <1>1, PageSeen
<1>2. ASSUME NEW w \in Workers, NEW o \in Orders, Begin(w, o) PROVE UNCHANGED Contract!vars
  BY <1>2, Unseen DEF Begin, BeginOrdering, BeginCancel, BeginModify, BeginModifyStatus,
                      BeginAddDelivery, dbVars
<1>3. ASSUME NEW w \in Workers, Commit(w) \/ CallGateway(w)
      PROVE  Contract!Next \/ UNCHANGED Contract!vars
  BY <1>3, CommitSeen, GatewaySeen
<1>4. ASSUME NEW w \in Workers, Rollback(w) PROVE UNCHANGED Contract!vars
  BY <1>4, Unseen DEF Rollback, dbVars
<1>5. CASE UNCHANGED vars
  BY <1>5, Unseen DEF vars
<1> QED
  BY <1>1, <1>2, <1>3, <1>4, <1>5 DEF Next

LEMMA InitSeen == Init => Contract!Init
<1> SUFFICES ASSUME Init PROVE Contract!Init
  OBVIOUS
<1>1. MoneySeen = [o \in Orders |-> "none"]
  BY DEF Init, MoneySeen
<1>2. PointsSeen = [o \in Orders |-> "none"]
  BY DEF Init, PointsSeen
<1> QED
  BY <1>1, <1>2 DEF Init, Contract!Init

(* Page, threads, gateway and admin implement the contract of an order for *)
(* any number of members, orders and threads, when a member has one        *)
(* request under way at a time, the answer to an order request arrives and *)
(* no cancel rolls back after it has called the gateway; the gateway       *)
(* itself may fail: a live order keeps the money and gives its points      *)
(* once, and a cancel takes row, points and money at one moment            *)
(* (OrderService.ordering, cancel, modify, OrderController.cancel,         *)
(* order.js).                                                              *)
THEOREM ContractImplemented ==
    ASSUME SessionLimit = 1, ResponseMayFail = FALSE, ServerMayCrash = FALSE
    PROVE  Spec => ImplementsContract
<1>1. SettledInv /\ [Next]_vars => SettledInv'
  BY NextSettled
<1>2. SettledInv => Seen
  BY SettledSeen
<1> QED
  BY <1>1, <1>2, InitSettled, InitSeen, NextSeen, PTL
     DEF Spec, ImplementsContract, Contract!Spec

(* A stored order is written by a cancel, or left as it is. *)
LEMMA OrderStays ==
    ASSUME SessionInv, [Next]_vars, NEW o \in Orders, orders[o] # "none"
    PROVE  orders'[o] \in {orders[o], "cancelled"}
<1>1. TypeOK
  BY DEF SessionInv, IInv
<1>2. ASSUME NEW w \in Workers, CommitOrdering(w) PROVE orders'[o] = orders[o]
  <2>1. tx[w].op = "ordering" /\ tx[w].order # o
    BY <1>2, OpenTransaction DEF CommitOrdering, Runs, SessionInv, IInv, TxOK
  <2> QED
    BY <1>1, <1>2, <2>1 DEF CommitOrdering, TypeOK
<1>3. ASSUME NEW w \in Workers, CommitCancel(w) PROVE orders'[o] \in {orders[o], "cancelled"}
  <2>1. CancelledRow(tx[w].order, tx[w].view) \in {orders[tx[w].order], "cancelled"}
    BY DEF CancelledRow
  <2> QED
    BY <1>1, <1>3, <2>1 DEF CommitCancel, TypeOK
<1>4. ASSUME NEW w \in Workers, Commit(w) PROVE orders'[o] \in {orders[o], "cancelled"}
  BY <1>2, <1>3, <1>4, ModifyOrderKeeps
     DEF Commit, CommitModifyDelivery, CommitModifyStatus, CommitAddDelivery
<1>5. \/ UNCHANGED orders
      \/ \E w \in Workers : Commit(w)
  BY DEF Next, Page, Checkout, Respond, LoseResponse, Compensate, Begin, BeginOrdering,
         BeginCancel, BeginModify, BeginModifyStatus, BeginAddDelivery, CallGateway, Rollback,
         dbVars, vars
<1> QED
  BY <1>4, <1>5

(* A cancelled order stays cancelled and no stored order disappears, for   *)
(* any number of members, orders and threads, when a member has one        *)
(* request under way at a time, whatever answers are lost and whatever     *)
(* rolls back: the row modify writes back is then the stored one           *)
(* (OrderService.modify, cancel).                                          *)
THEOREM CancelIsFinalHolds ==
    ASSUME SessionLimit = 1
    PROVE  Spec => CancelIsFinal
<1>1. SessionInv /\ [Next]_vars => SessionInv'
  BY NextSession
<1>2. ASSUME SessionInv, [Next]_vars
      PROVE  [\A o \in Orders : orders[o] # "none" =>
                orders'[o] \in {orders[o], "cancelled"}]_vars
  BY <1>2, OrderStays
<1> QED
  BY <1>1, <1>2, InitSession, PTL DEF Spec, CancelIsFinal

-----------------------------------------------------------------------------
(* The balance of a member.  SumFunctionOnSet sums the rows of a history   *)
(* through a CHOOSE; the lemmas take a finite set apart one member at a    *)
(* time, with the smallest subset on which a claim fails in the place of   *)
(* an induction.                                                           *)
-----------------------------------------------------------------------------
(* A set of subsets of a finite set has a smallest member. *)
LEMMA SmallestSet ==
    ASSUME NEW S, IsFiniteSet(S), NEW T, T \subseteq SUBSET S, T # {}
    PROVE  \E s \in T : \A t \in T : t \subseteq s => t = s
<1>1. IsWellFoundedOn(StrictSubsetOrdering(S), SUBSET S)
  BY FS_StrictSubsetOrderingWellFounded, FS_FiniteSubsetsOfFinite
<1>2. PICK s \in T : \A t \in T : ~(<<t, s>> \in StrictSubsetOrdering(S))
  BY <1>1, WFMin
<1>3. \A t \in T : t \subseteq s => t = s
  BY <1>2 DEF StrictSubsetOrdering
<1> QED
  BY <1>3

(* A set taken apart: one of its members, and the rest.                    *)
AnyOf(s) == CHOOSE x \in s : TRUE
Rest(s) == s \ {AnyOf(s)}

(* h gives the sum of f over each subset of S. *)
IsSum(h, f, S) ==
    h = [s \in SUBSET S |-> IF s = {} THEN 0 ELSE f[AnyOf(s)] + h[Rest(s)]]

(* What is left of a nonempty set without one of its members.             *)
LEMMA RestSmaller ==
    ASSUME NEW S, NEW s \in SUBSET S, s # {}
    PROVE  AnyOf(s) \in s /\ Rest(s) \in SUBSET S /\ Rest(s) \subseteq s /\ Rest(s) # s
  BY DEF AnyOf, Rest

(* Two functions that give the sums over the subsets of S are one: a        *)
(* smallest subset on which they differ has a smaller one.                 *)
LEMMA SumUnique ==
    ASSUME NEW S, IsFiniteSet(S), NEW f, NEW g, NEW h, IsSum(g, f, S), IsSum(h, f, S)
    PROVE  g = h
<1> DEFINE Differs == {s \in SUBSET S : g[s] # h[s]}
<1>0. /\ \A s \in SUBSET S : g[s] = IF s = {} THEN 0 ELSE f[AnyOf(s)] + g[Rest(s)]
      /\ \A s \in SUBSET S : h[s] = IF s = {} THEN 0 ELSE f[AnyOf(s)] + h[Rest(s)]
      /\ g = [s \in SUBSET S |-> g[s]] /\ h = [s \in SUBSET S |-> h[s]]
  BY Zenon DEF IsSum
<1>1. Differs = {}
  <2> SUFFICES ASSUME Differs # {} PROVE FALSE
    OBVIOUS
  <2>1. PICK s \in Differs : \A t \in Differs : t \subseteq s => t = s
    <3>1. Differs \subseteq SUBSET S
      OBVIOUS
    <3> HIDE DEF Differs
    <3> QED
      BY <3>1, SmallestSet
  <2>2. s # {}
    BY <1>0
  <2>3. Rest(s) \notin Differs
    BY <2>1, <2>2, RestSmaller
  <2>4. g[Rest(s)] = h[Rest(s)]
    BY <2>2, <2>3, RestSmaller
  <2> QED
    BY <1>0, <2>2, <2>4
<1>2. \A s \in SUBSET S : g[s] = h[s]
  BY <1>1
<1> QED
  BY <1>0, <1>2

(* The sums over the subsets of S are also those over the subsets of u.     *)
LEMMA SumRestricted ==
    ASSUME NEW S, NEW f, NEW h, IsSum(h, f, S), NEW u \in SUBSET S
    PROVE  IsSum([s \in SUBSET u |-> h[s]], f, u)
<1> DEFINE g == [s \in SUBSET u |-> h[s]]
<1>1. \A s \in SUBSET S : h[s] = IF s = {} THEN 0 ELSE f[AnyOf(s)] + h[Rest(s)]
  BY Zenon DEF IsSum
<1>2. ASSUME NEW s \in SUBSET u
      PROVE  h[s] = IF s = {} THEN 0 ELSE f[AnyOf(s)] + g[Rest(s)]
  <2>1. CASE s = {}
    BY <1>1, <2>1
  <2>2. CASE s # {}
    <3>1. Rest(s) \in SUBSET u
      BY <2>2, RestSmaller
    <3>2. g[Rest(s)] = h[Rest(s)]
      BY <3>1
    <3>3. h[s] = f[AnyOf(s)] + h[Rest(s)]
      BY <1>1, <2>2
    <3> QED
      BY <2>2, <3>2, <3>3
  <2> QED
    BY <2>1, <2>2
<1>3. g = [s \in SUBSET u |-> IF s = {} THEN 0 ELSE f[AnyOf(s)] + g[Rest(s)]]
  BY <1>2
<1> QED
  BY <1>3 DEF IsSum

(* The sums over the subsets of a finite set exist: a smallest subset      *)
(* without them is one member larger than a subset that has them.          *)
LEMMA SumExists ==
    ASSUME NEW S, IsFiniteSet(S), NEW f
    PROVE  \E h : IsSum(h, f, S)
<1> DEFINE Bad == {s \in SUBSET S : \A h : ~IsSum(h, f, s)}
<1> SUFFICES ASSUME Bad # {} PROVE FALSE
  OBVIOUS
<1>1. PICK s \in Bad : \A t \in Bad : t \subseteq s => t = s
  <2>1. Bad \subseteq SUBSET S
    OBVIOUS
  <2> HIDE DEF Bad
  <2> QED
    BY <2>1, SmallestSet
<1>2. \A t \in SUBSET s : IsFiniteSet(t)
  BY FS_Subset
<1> DEFINE Solution(t) == CHOOSE h : IsSum(h, f, t)
           V(t) == Solution(t)[t]
<1>3. ASSUME NEW t \in SUBSET s, t # s PROVE IsSum(Solution(t), f, t)
  <2>1. t \notin Bad /\ t \in SUBSET S
    BY <1>1, <1>3
  <2>2. \E h : IsSum(h, f, t)
    BY <2>1
  <2> QED
    BY <2>2
<1> HIDE DEF Solution
<1>4. ASSUME NEW t \in SUBSET s, t # s
      PROVE  V(t) = IF t = {} THEN 0 ELSE f[AnyOf(t)] + V(Rest(t))
  <2> DEFINE h == Solution(t)
  <2>1. IsSum(h, f, t)
    BY <1>3, <1>4
  <2> HIDE DEF h
  <2>2. h[t] = IF t = {} THEN 0 ELSE f[AnyOf(t)] + h[Rest(t)]
    BY <2>1, Zenon DEF IsSum
  <2>3. ASSUME t # {} PROVE h[Rest(t)] = V(Rest(t))
    <3> DEFINE r == Rest(t)
               g == [x \in SUBSET r |-> h[x]]
    <3>1. r \in SUBSET t /\ r \in SUBSET s /\ r # s
      BY <2>3, <1>4, RestSmaller
    <3> HIDE DEF r
    <3>2. IsSum(g, f, r)
      BY <2>1, <3>1, SumRestricted
    <3>3. IsSum(Solution(r), f, r)
      BY <1>3, <3>1
    <3> HIDE DEF g
    <3>4. g = Solution(r)
      BY <1>2, <3>1, <3>2, <3>3, SumUnique
    <3>5. g[r] = h[r]
      BY <3>1 DEF g
    <3> QED
      BY <3>4, <3>5 DEF r
  <2> QED
    BY <2>2, <2>3 DEF h
<1> DEFINE new == [t \in SUBSET s |-> IF t = {} THEN 0 ELSE f[AnyOf(t)] + V(Rest(t))]
<1>5. ASSUME NEW t \in SUBSET s, t # {} PROVE V(Rest(t)) = new[Rest(t)]
  <2>1. Rest(t) \in SUBSET s /\ Rest(t) # s
    BY <1>5, RestSmaller
  <2> QED
    BY <2>1, <1>4
<1> HIDE DEF V
<1>6. new = [t \in SUBSET s |-> IF t = {} THEN 0 ELSE f[AnyOf(t)] + new[Rest(t)]]
  BY <1>5
<1> HIDE DEF new
<1>7. IsSum(new, f, s)
  BY <1>6 DEF IsSum
<1> QED
  BY <1>1, <1>7

(* What SumFunctionOnSet gives for a finite set, one member at a time.     *)
LEMMA SumUnfolds ==
    ASSUME NEW S, IsFiniteSet(S), NEW f
    PROVE  /\ SumFunctionOnSet(f, {}) = 0
           /\ S # {} => SumFunctionOnSet(f, S) = f[AnyOf(S)] + SumFunctionOnSet(f, Rest(S))
<1>1. ASSUME NEW s, IsFiniteSet(s), NEW h, IsSum(h, f, s)
      PROVE  SumFunctionOnSet(f, s) = h[s]
  <2>1. SumFunctionOnSet(f, s) = (CHOOSE g : IsSum(g, f, s))[s]
    BY DEF SumFunctionOnSet, FoldFunctionOnSet, MapThenFoldSet, IsSum, AnyOf, Rest
  <2>2. \A g : IsSum(g, f, s) => g = h
    BY <1>1, SumUnique
  <2>3. (CHOOSE g : IsSum(g, f, s)) = h
    BY <1>1, <2>2
  <2> QED
    BY <2>1, <2>3
<1>2. PICK h : IsSum(h, f, S)
  BY SumExists
<1>3. \A s \in SUBSET S : h[s] = IF s = {} THEN 0 ELSE f[AnyOf(s)] + h[Rest(s)]
  BY <1>2, Zenon DEF IsSum
<1>4. SumFunctionOnSet(f, S) = h[S]
  BY <1>1, <1>2
<1>5. ASSUME NEW s \in SUBSET S PROVE SumFunctionOnSet(f, s) = h[s]
  <2> DEFINE g == [x \in SUBSET s |-> h[x]]
  <2>1. IsFiniteSet(s) /\ IsSum(g, f, s)
    BY <1>2, FS_Subset, SumRestricted
  <2>2. g[s] = h[s]
    OBVIOUS
  <2> HIDE DEF g
  <2> QED
    BY <1>1, <2>1, <2>2
<1>6. SumFunctionOnSet(f, {}) = 0
  BY <1>3, <1>5
<1>7. ASSUME S # {} PROVE SumFunctionOnSet(f, S) = f[AnyOf(S)] + SumFunctionOnSet(f, Rest(S))
  BY <1>3, <1>4, <1>5, <1>7, RestSmaller
<1> QED
  BY <1>6, <1>7

(* Sums of integers are integers, and depend on the summed values only. *)
LEMMA SumType ==
    ASSUME NEW S, IsFiniteSet(S), NEW f, \A x \in S : f[x] \in Int
    PROVE  SumFunctionOnSet(f, S) \in Int
<1> DEFINE Bad == {s \in SUBSET S : SumFunctionOnSet(f, s) \notin Int}
<1>2. Bad = {}
  <2> SUFFICES ASSUME Bad # {} PROVE FALSE
    OBVIOUS
  <2>1. PICK s \in Bad : \A t \in Bad : t \subseteq s => t = s
    <3>1. Bad \subseteq SUBSET S
      OBVIOUS
    <3> HIDE DEF Bad
    <3> QED
      BY <3>1, SmallestSet
  <2>2. IsFiniteSet(s)
    BY FS_Subset
  <2>3. s # {}
    <3>1. SumFunctionOnSet(f, {}) = 0
      BY FS_EmptySet, SumUnfolds
    <3> QED
      BY <3>1
  <2>4. Rest(s) \notin Bad /\ f[AnyOf(s)] \in Int /\ Rest(s) \in SUBSET S
    BY <2>1, <2>3, RestSmaller
  <2>5. SumFunctionOnSet(f, Rest(s)) \in Int
    BY <2>4
  <2>6. SumFunctionOnSet(f, s) = f[AnyOf(s)] + SumFunctionOnSet(f, Rest(s))
    BY <2>2, <2>3, SumUnfolds
  <2> QED
    BY <2>4, <2>5, <2>6
<1> QED
  BY <1>2

(* Functions that agree on the set have one sum.                           *)
LEMMA SumSame ==
    ASSUME NEW S, IsFiniteSet(S), NEW f, NEW g, \A x \in S : f[x] = g[x]
    PROVE  SumFunctionOnSet(f, S) = SumFunctionOnSet(g, S)
<1> DEFINE Bad == {s \in SUBSET S : SumFunctionOnSet(f, s) # SumFunctionOnSet(g, s)}
<1>2. Bad = {}
  <2> SUFFICES ASSUME Bad # {} PROVE FALSE
    OBVIOUS
  <2>1. PICK s \in Bad : \A t \in Bad : t \subseteq s => t = s
    <3>1. Bad \subseteq SUBSET S
      OBVIOUS
    <3> HIDE DEF Bad
    <3> QED
      BY <3>1, SmallestSet
  <2>2. IsFiniteSet(s)
    BY FS_Subset
  <2>3. s # {}
    BY <2>2, SumUnfolds
  <2>4. Rest(s) \notin Bad /\ f[AnyOf(s)] = g[AnyOf(s)] /\ Rest(s) \in SUBSET S
    BY <2>1, <2>3, RestSmaller
  <2>5. SumFunctionOnSet(f, Rest(s)) = SumFunctionOnSet(g, Rest(s))
    BY <2>4
  <2>6. /\ SumFunctionOnSet(f, s) = f[AnyOf(s)] + SumFunctionOnSet(f, Rest(s))
        /\ SumFunctionOnSet(g, s) = g[AnyOf(s)] + SumFunctionOnSet(g, Rest(s))
    BY <2>2, <2>3, SumUnfolds
  <2> QED
    BY <2>4, <2>5, <2>6
<1> QED
  BY <1>2

(* Any member of the set may be taken out of a sum. *)
LEMMA SumWithout ==
    ASSUME NEW S, IsFiniteSet(S), NEW f, \A x \in S : f[x] \in Int, NEW y \in S
    PROVE  SumFunctionOnSet(f, S) = f[y] + SumFunctionOnSet(f, S \ {y})
<1> DEFINE Bad == {s \in SUBSET S : \E z \in s :
                    SumFunctionOnSet(f, s) # f[z] + SumFunctionOnSet(f, s \ {z})}
<1>0. \A s \in SUBSET S : SumFunctionOnSet(f, s) \in Int /\ IsFiniteSet(s)
  BY FS_Subset, SumType
<1>2. Bad = {}
  <2> SUFFICES ASSUME Bad # {} PROVE FALSE
    OBVIOUS
  <2>1. PICK s \in Bad : \A t \in Bad : t \subseteq s => t = s
    <3>1. Bad \subseteq SUBSET S
      OBVIOUS
    <3> HIDE DEF Bad
    <3> QED
      BY <3>1, SmallestSet
  <2>2. PICK z \in s : SumFunctionOnSet(f, s) # f[z] + SumFunctionOnSet(f, s \ {z})
    OBVIOUS
  <2> DEFINE a == AnyOf(s)
             r == s \ {a, z}
  <2>3. a \in s /\ s # {} /\ Rest(s) = s \ {a}
    BY RestSmaller DEF Rest
  <2> HIDE DEF a, r
  <2>4. SumFunctionOnSet(f, s) = f[a] + SumFunctionOnSet(f, s \ {a})
    BY <1>0, <2>3, SumUnfolds DEF a
  <2>5. a # z
    BY <2>2, <2>4
  <2>6. s \ {a} \notin Bad /\ s \ {z} \notin Bad
    BY <2>1, <2>2, <2>3
  <2>7. (s \ {a}) \ {z} = r /\ (s \ {z}) \ {a} = r
    BY DEF r
  <2>8. SumFunctionOnSet(f, s \ {a}) = f[z] + SumFunctionOnSet(f, r)
    BY <2>2, <2>5, <2>6, <2>7
  <2>9. SumFunctionOnSet(f, s \ {z}) = f[a] + SumFunctionOnSet(f, r)
    BY <2>3, <2>5, <2>6, <2>7
  <2>10. f[a] \in Int /\ f[z] \in Int /\ SumFunctionOnSet(f, r) \in Int
    BY <1>0, <2>2, <2>3 DEF r
  <2> QED
    BY <2>2, <2>4, <2>8, <2>9, <2>10
<1> QED
  BY <1>2

(* The sums below are of integers over a finite set; adding a member y to  *)
(* the set adds its value to the sum.                                      *)
Summable(f, S) == IsFiniteSet(S) /\ \A x \in S : f[x] \in Int
Agree(f, g, S) == \A x \in S : f[x] = g[x]
GrowsBy(f, S, g, y) ==
    SumFunctionOnSet(g, S \union {y}) = SumFunctionOnSet(f, S) + g[y]

(* A new member adds its value. *)
LEMMA SumWith ==
    ASSUME NEW S, NEW f, NEW g, NEW y, Summable(f, S), Agree(f, g, S),
           y \notin S, g[y] \in Int
    PROVE  /\ Summable(g, S \union {y})
           /\ GrowsBy(f, S, g, y)
<1> DEFINE Q == S \union {y}
<1>1. IsFiniteSet(Q) /\ Q \ {y} = S /\ y \in Q
  BY FS_AddElement DEF Summable
<1>2. \A x \in Q : g[x] \in Int
  BY DEF Summable, Agree
<1> HIDE DEF Q
<1>3. SumFunctionOnSet(g, Q) = g[y] + SumFunctionOnSet(g, S)
  BY <1>1, <1>2, SumWithout
<1>4. SumFunctionOnSet(g, S) = SumFunctionOnSet(f, S) /\ SumFunctionOnSet(f, S) \in Int
  BY SumSame, SumType DEF Summable, Agree
<1> QED
  BY <1>1, <1>2, <1>3, <1>4 DEF Q, Summable, GrowsBy

-----------------------------------------------------------------------------
(* The inductive invariant of the balance.  While each member has one      *)
(* request open and no answer is lost, a transaction that will write the   *)
(* member's row was started by a page that still waits for it, and it read *)
(* the row as it is now; with that the row, its history and the rewards of *)
(* the cancelled orders move together.                                     *)
Amounts(m) == [r \in HistoryOf(m) |-> ledger[r[1]][r[2]].amount]
Rewards(m) == [o \in EarnedAndCancelled(m) |-> ledger[o][1].amount]

FiniteHistory ==
    \A m \in Members : IsFiniteSet(HistoryOf(m)) /\ IsFiniteSet(EarnedAndCancelled(m))

MemberRequest(w) == OpenRequest(w) \/ Runs(w, "ordering")
MemberSeen ==
    \A w \in Workers : MemberRequest(w) =>
        tx[w].view.member = member[form[tx[w].order].member]
OrderingSent ==
    \A w \in Workers : Runs(w, "ordering") => client[tx[w].order] = "sent"

BalanceInv == SessionInv /\ OrderingSent /\ MemberSeen /\ FiniteHistory /\ BalanceExplained

-----------------------------------------------------------------------------
(* What a row of a member's history is.                                    *)
LEMMA HistoryRow ==
    ASSUME TypeOK, NEW m, NEW r \in HistoryOf(m)
    PROVE  /\ r[1] \in Orders /\ form[r[1]] # NoForm /\ form[r[1]].member = m
           /\ r[2] \in DOMAIN ledger[r[1]] /\ r = <<r[1], r[2]>>
           /\ ledger[r[1]][r[2]].amount \in Int
<1>1. PICK o \in Orders : /\ form[o] # NoForm /\ form[o].member = m
                          /\ r \in {o} \X DOMAIN ledger[o]
  BY DEF HistoryOf
<1>2. r[1] = o /\ r[2] \in DOMAIN ledger[o] /\ r = <<r[1], r[2]>>
  BY <1>1
<1>3. ledger[o] \in Seq(LedgerRow)
  BY DEF TypeOK
<1>4. ledger[o][r[2]] \in LedgerRow
  BY <1>2, <1>3
<1> QED
  BY <1>1, <1>2, <1>4 DEF LedgerRow

(* What the first row of a cancelled order is.                             *)
LEMMA EarnedRow ==
    ASSUME TypeOK, NEW m, NEW o \in EarnedAndCancelled(m)
    PROVE  ledger[o] \in Seq(LedgerRow) /\ Len(ledger[o]) = 2 /\ ledger[o][1].amount \in Int
<1>1. ledger[o] \in Seq(LedgerRow) /\ Len(ledger[o]) = 2
  BY DEF EarnedAndCancelled, TypeOK
<1>2. ledger[o][1] \in LedgerRow
  BY <1>1
<1> QED
  BY <1>1, <1>2 DEF LedgerRow

(* Both sums of a member are integers.                                     *)
LEMMA SumTypes ==
    ASSUME TypeOK, FiniteHistory, NEW m \in Members
    PROVE  LedgerSum(m) \in Int /\ RewardSum(m) \in Int
<1>1. \A r \in HistoryOf(m) : Amounts(m)[r] \in Int
  BY HistoryRow DEF Amounts
<1>2. \A o \in EarnedAndCancelled(m) : Rewards(m)[o] \in Int
  BY EarnedRow DEF Rewards
<1>3. IsFiniteSet(HistoryOf(m)) /\ IsFiniteSet(EarnedAndCancelled(m))
  BY DEF FiniteHistory
<1>4. SumFunctionOnSet(Amounts(m), HistoryOf(m)) \in Int
  BY <1>1, <1>3, SumType
<1>5. SumFunctionOnSet(Rewards(m), EarnedAndCancelled(m)) \in Int
  BY <1>2, <1>3, SumType
<1> QED
  BY <1>4, <1>5 DEF LedgerSum, RewardSum, Amounts, Rewards

(* A row that is added to the history of an order adds its amount. *)
LEMMA HistoryGrows ==
    ASSUME TypeOK, NEW o \in Orders, NEW row \in LedgerRow, form[o] # NoForm,
           ledger' = [ledger EXCEPT ![o] = Append(@, row)], UNCHANGED form,
           NEW m \in Members, IsFiniteSet(HistoryOf(m))
    PROVE  /\ IsFiniteSet(HistoryOf(m)')
           /\ form[o].member # m => LedgerSum(m)' = LedgerSum(m)
           /\ form[o].member = m => LedgerSum(m)' = LedgerSum(m) + row.amount
<1> DEFINE n == Len(ledger[o]) + 1
           H == HistoryOf(m)
           A == Amounts(m)
           B == Amounts(m)'
<1>1. /\ ledger[o] \in Seq(LedgerRow) /\ ledger'[o] = Append(ledger[o], row)
      /\ \A p \in Orders : p # o => ledger'[p] = ledger[p]
  BY DEF TypeOK
<1>2. /\ DOMAIN ledger[o] = 1..Len(ledger[o]) /\ Len(ledger[o]) \in Nat
      /\ DOMAIN ledger'[o] = 1..(Len(ledger[o]) + 1)
      /\ ledger'[o][n] = row
      /\ \A i \in DOMAIN ledger[o] : ledger'[o][i] = ledger[o][i]
  BY <1>1
<1>3. DOMAIN ledger'[o] = DOMAIN ledger[o] \union {n} /\ n \notin DOMAIN ledger[o]
  BY <1>2
<1> HIDE DEF n
<1>4. \A r \in H : /\ r # <<o, n>> /\ A[r] \in Int
                   /\ ledger'[r[1]][r[2]].amount = A[r]
  <2> SUFFICES ASSUME NEW r \in H
               PROVE  /\ r # <<o, n>> /\ A[r] \in Int
                      /\ ledger'[r[1]][r[2]].amount = A[r]
    OBVIOUS
  <2>1. /\ r[1] \in Orders /\ r[2] \in DOMAIN ledger[r[1]]
        /\ ledger[r[1]][r[2]].amount \in Int
    BY HistoryRow
  <2>2. A[r] = ledger[r[1]][r[2]].amount
    BY DEF Amounts
  <2>3. ledger'[r[1]][r[2]] = ledger[r[1]][r[2]]
    BY <1>1, <1>2, <2>1
  <2>4. r # <<o, n>>
    BY <1>3, <2>1
  <2> QED
    BY <2>1, <2>2, <2>3, <2>4
<1>5. /\ LedgerSum(m) = SumFunctionOnSet(A, H)
      /\ LedgerSum(m)' = SumFunctionOnSet(B, H')
      /\ \A r \in H' : B[r] = ledger'[r[1]][r[2]].amount
  BY DEF LedgerSum, Amounts
<1>6. CASE form[o].member # m
  <2>1. H' = H
    BY <1>1, <1>6 DEF HistoryOf
  <2>2. \A r \in H : A[r] = B[r]
    BY <1>4, <1>5, <2>1
  <2> HIDE DEF H, A, B
  <2>3. SumFunctionOnSet(A, H) = SumFunctionOnSet(B, H)
    BY <2>2, SumSame DEF H
  <2> QED
    BY <1>5, <1>6, <2>1, <2>3 DEF H
<1>7. CASE form[o].member = m
  <2>1. H' = H \union {<<o, n>>}
    <3>1. \A p \in Orders : form'[p] = form[p]
      OBVIOUS
    <3>2. {o} \X DOMAIN ledger'[o] = ({o} \X DOMAIN ledger[o]) \union {<<o, n>>}
      BY <1>3
    <3> QED
      BY <1>1, <1>7, <3>1, <3>2 DEF HistoryOf
  <2>2. B[<<o, n>>] = row.amount /\ row.amount \in Int
    BY <1>2, <1>5, <2>1 DEF LedgerRow, n
  <2>3. Summable(A, H)
    BY <1>4 DEF Summable
  <2>4. Agree(A, B, H)
    BY <1>4, <1>5, <2>1 DEF Agree
  <2> DEFINE y == <<o, n>>
  <2>5. y \notin H
    BY <1>4
  <2>7. B[y] \in Int
    BY <2>2
  <2>8. B[y] = row.amount
    BY <2>2
  <2> HIDE DEF A, B, H, y
  <2>6. GrowsBy(A, H, B, y) /\ Summable(B, H \union {y})
    BY <2>3, <2>4, <2>5, <2>7, SumWith
  <2> QED
    BY <1>5, <1>7, <2>1, <2>6, <2>8 DEF H, y, Summable, GrowsBy
<1> QED
  BY <1>6, <1>7

(* Cancelled orders that had earned keep what they count for.              *)
LEMMA RewardsKept ==
    ASSUME NEW m \in Members, NEW o \in Orders, UNCHANGED form,
           \A p \in Orders : p # o => ledger'[p] = ledger[p],
           o \notin EarnedAndCancelled(m), o \notin EarnedAndCancelled(m)',
           IsFiniteSet(EarnedAndCancelled(m))
    PROVE  IsFiniteSet(EarnedAndCancelled(m)') /\ RewardSum(m)' = RewardSum(m)
<1> DEFINE E == EarnedAndCancelled(m)
           A == Rewards(m)
           B == Rewards(m)'
<1>1. E' = E
  BY DEF EarnedAndCancelled
<1>2. \A p \in E : A[p] = B[p]
  <2>1. \A p \in E : p \in Orders /\ p # o
    BY DEF EarnedAndCancelled
  <2> QED
    BY <1>1, <2>1 DEF Rewards
<1>3. RewardSum(m) = SumFunctionOnSet(A, E) /\ RewardSum(m)' = SumFunctionOnSet(B, E')
  BY DEF RewardSum, Rewards
<1> HIDE DEF E, A, B
<1>4. SumFunctionOnSet(A, E) = SumFunctionOnSet(B, E)
  BY <1>2, SumSame DEF E
<1> QED
  BY <1>1, <1>3, <1>4 DEF E

(* One more of them counts for its reward. *)
LEMMA RewardsGrow ==
    ASSUME TypeOK, TypeOK', NEW m \in Members, NEW o \in Orders, UNCHANGED form,
           \A p \in Orders : p # o => ledger'[p] = ledger[p],
           o \notin EarnedAndCancelled(m), o \in EarnedAndCancelled(m)',
           IsFiniteSet(EarnedAndCancelled(m))
    PROVE  /\ IsFiniteSet(EarnedAndCancelled(m)')
           /\ RewardSum(m)' = RewardSum(m) + ledger'[o][1].amount
<1> DEFINE E == EarnedAndCancelled(m)
           A == Rewards(m)
           B == Rewards(m)'
<1>1. E' = E \union {o}
  BY DEF EarnedAndCancelled
<1>2. ledger'[o] \in Seq(LedgerRow) /\ Len(ledger'[o]) = 2
  BY DEF EarnedAndCancelled, TypeOK
<1>3. ledger'[o][1].amount \in Int
  <2>1. ledger'[o][1] \in LedgerRow
    BY <1>2
  <2> QED
    BY <2>1 DEF LedgerRow
<1>4. B[o] = ledger'[o][1].amount
  BY DEF Rewards
<1>5. B[o] \in Int
  BY <1>3, <1>4
<1>6. \A p \in E : p \in Orders /\ p # o
  BY DEF EarnedAndCancelled
<1>7. Summable(A, E)
  BY EarnedRow DEF Rewards, Summable
<1>8. Agree(A, B, E)
  BY <1>1, <1>6 DEF Rewards, Agree
<1>9. RewardSum(m) = SumFunctionOnSet(A, E) /\ RewardSum(m)' = SumFunctionOnSet(B, E')
  BY DEF RewardSum, Rewards
<1> HIDE DEF E, A, B
<1>10. GrowsBy(A, E, B, o) /\ Summable(B, E \union {o})
  BY <1>7, <1>8, <1>5, SumWith DEF E
<1> QED
  BY <1>1, <1>9, <1>10, <1>4 DEF E, Summable, GrowsBy

-----------------------------------------------------------------------------
(* A submitted form is not the absent one.                                 *)
LEMMA FormReal ==
    ASSUME NEW f \in Form
    PROVE  f # NoForm
<1>1. DOMAIN f = {"member", "total", "used", "coupon"}
  BY DEF Form
<1>2. DOMAIN NoForm = {}
  BY DEF NoForm
<1> QED
  BY <1>1, <1>2

(* The requests of a member that read the member's row are one. *)
LEMMA OthersMember ==
    ASSUME SessionInv, OrderingSent, NEW v \in Workers, NEW w \in Workers, v # w,
           MemberRequest(v), MemberRequest(w)
    PROVE  form[tx[v].order].member # form[tx[w].order].member
<1>1. TypeOK /\ OneSession /\ \A u \in Workers : TxOK(u)
  BY DEF SessionInv, IInv
<1>2. \A u \in Workers : Runs(u, "ordering") =>
          tx[u].order \in Orders /\ OpenCheckout(tx[u].order)
  BY <1>1, OpenTransaction DEF OrderingSent, OpenCheckout, Runs
<1>3. \A u \in Workers : MemberRequest(u) => OpenRequest(u) \/ Runs(u, "ordering")
  BY DEF MemberRequest
<1>4. CASE Runs(v, "ordering") /\ Runs(w, "ordering")
  <2>1. tx[v].order # tx[w].order
    BY <1>1, <1>4 DEF TxOK, Runs
  <2> QED
    BY <1>1, <1>2, <1>4, <2>1 DEF OneSession
<1>5. CASE Runs(v, "ordering") /\ OpenRequest(w)
  BY <1>1, <1>2, <1>5 DEF OneSession
<1>6. CASE OpenRequest(v) /\ Runs(w, "ordering")
  BY <1>1, <1>2, <1>6 DEF OneSession
<1>7. CASE OpenRequest(v) /\ OpenRequest(w)
  BY <1>1, <1>7 DEF OneSession
<1> QED
  BY <1>3, <1>4, <1>5, <1>6, <1>7

(* Steps that write no member row and no history. *)
LEMMA BalanceKept ==
    ASSUME BalanceInv, SessionInv', OrderingSent', MemberSeen', UNCHANGED <<member, ledger>>,
           \A m \in Members : HistoryOf(m)' = HistoryOf(m)
                              /\ EarnedAndCancelled(m)' = EarnedAndCancelled(m)
    PROVE  BalanceInv'
<1>1. FiniteHistory'
  BY DEF BalanceInv, FiniteHistory
<1>2. \A m \in Members : LedgerSum(m)' = LedgerSum(m) /\ RewardSum(m)' = RewardSum(m)
  BY DEF LedgerSum, RewardSum
<1>3. BalanceExplained'
  BY <1>2 DEF BalanceInv, BalanceExplained
<1> QED
  BY <1>1, <1>3 DEF BalanceInv

(* The histories read the forms and the rows of the orders only.           *)
LEMMA SameHistory ==
    ASSUME UNCHANGED <<ledger, form>>
    PROVE  \A m \in Members : HistoryOf(m)' = HistoryOf(m)
                              /\ EarnedAndCancelled(m)' = EarnedAndCancelled(m)
  BY DEF HistoryOf, EarnedAndCancelled

(* A step of the page writes no points; a retry is of a failed request.    *)
LEMMA PageBalance ==
    ASSUME SessionLimit = 1, ResponseMayFail = FALSE, BalanceInv, NEW o \in Orders, Page(o)
    PROVE  BalanceInv'
<1>1. /\ SessionInv' /\ SessionInv /\ TypeOK
      /\ \A p \in Orders : OrderOK(p)
      /\ CancelReversesPlacement
  BY PageSession DEF BalanceInv, SessionInv, IInv
<1>2. UNCHANGED <<member, orders, ledger, tx>>
  BY DEF Page, Checkout, Respond, LoseResponse, Compensate, dbVars
<1>3. \A p \in Orders \ {o} : client'[p] = client[p] /\ form'[p] = form[p]
  BY <1>1 DEF Page, Checkout, Respond, LoseResponse, Compensate, TypeOK
<1>4. \/ client[o] = "none" /\ orders[o] = "none"
      \/ client[o] = "sent" /\ orders[o] # "none" /\ form' = form
      \/ client[o] = "failed" /\ form' = form
  BY <1>1 DEF Page, Checkout, Respond, LoseResponse, Compensate, OrderOK
<1>5. \A w \in Workers : tx[w] # Idle =>
          /\ tx[w].order \in Orders /\ client[tx[w].order] # "none"
          /\ tx[w].op = "ordering" => orders[tx[w].order] = "none"
  BY <1>1, OpenTransaction DEF SessionInv, IInv, OrderOK, TxOK
<1>6. OrderingSent'
  <2> SUFFICES ASSUME NEW w \in Workers, Runs(w, "ordering")
               PROVE  client'[tx[w].order] = "sent"
    BY <1>2 DEF OrderingSent, Runs
  <2>1. client[tx[w].order] = "sent" /\ orders[tx[w].order] = "none" /\ tx[w].order \in Orders
    BY <1>5 DEF BalanceInv, OrderingSent, Runs
  <2>2. tx[w].order # o
    BY <1>4, <2>1
  <2> QED
    BY <1>3, <2>1, <2>2
<1>7. MemberSeen'
  <2> SUFFICES ASSUME NEW w \in Workers, MemberRequest(w)
               PROVE  tx[w].view.member = member[form'[tx[w].order].member]
    BY <1>2 DEF MemberSeen, MemberRequest, OpenRequest, Runs
  <2>1. tx[w] # Idle /\ tx[w].view.member = member[form[tx[w].order].member]
    BY DEF MemberRequest, OpenRequest, Runs, BalanceInv, MemberSeen
  <2>2. form'[tx[w].order] = form[tx[w].order]
    BY <1>3, <1>4, <1>5, <2>1
  <2> QED
    BY <2>1, <2>2
<1>8. CASE form' = form
  BY <1>1, <1>2, <1>6, <1>7, <1>8, SameHistory, BalanceKept
<1>9. CASE orders[o] = "none"
  <2>1. ledger[o] = <<>>
    BY <1>1, <1>9 DEF CancelReversesPlacement
  <2>2. DOMAIN ledger[o] = {} /\ Len(ledger[o]) = 0
    BY <2>1
  <2>3. {o} \X DOMAIN ledger[o] = {}
    BY <2>2
  <2>4. ASSUME NEW m \in Members
        PROVE  /\ HistoryOf(m)' = HistoryOf(m)
               /\ EarnedAndCancelled(m)' = EarnedAndCancelled(m)
    <3>1. HistoryOf(m)' = HistoryOf(m)
      BY <1>2, <1>3, <2>3 DEF HistoryOf
    <3>2. EarnedAndCancelled(m)' = EarnedAndCancelled(m)
      BY <1>2, <1>3, <2>2 DEF EarnedAndCancelled
    <3> QED
      BY <3>1, <3>2
  <2> QED
    BY <1>1, <1>2, <1>6, <1>7, <2>4, BalanceKept
<1> QED
  BY <1>4, <1>8, <1>9

(* A transaction that begins reads the row of its member as it is.         *)
LEMMA BeginBalance ==
    ASSUME SessionLimit = 1, BalanceInv, NEW w \in Workers, NEW o \in Orders, Begin(w, o)
    PROVE  BalanceInv'
<1>1. SessionInv' /\ SessionInv /\ TypeOK
  BY BeginSession DEF BalanceInv, SessionInv, IInv
<1>2. PICK op, i, s : /\ Open(w, op, o, i, s)
                      /\ op = "ordering" => client' = [client EXCEPT ![o] = "sent"]
                      /\ op # "ordering" => client' = client
  BY DEF Begin, BeginOrdering, BeginCancel, BeginModify, BeginModifyStatus, BeginAddDelivery
<1>3. UNCHANGED <<member, ledger, form>>
  BY DEF Begin, BeginOrdering, BeginCancel, BeginModify, BeginModifyStatus, BeginAddDelivery,
         dbVars
<1>4. /\ tx'[w].op = op /\ tx'[w].order = o
      /\ tx'[w].view.member = member[form[o].member]
      /\ \A v \in Workers \ {w} : tx'[v] = tx[v]
  BY <1>1, <1>2 DEF Open, ViewOf, TypeOK
<1>5. OrderingSent'
  <2> SUFFICES ASSUME NEW v \in Workers, Runs(v, "ordering")'
               PROVE  client'[tx'[v].order] = "sent"
    BY DEF OrderingSent
  <2>1. CASE v = w
    BY <1>1, <1>2, <1>4, <2>1 DEF Runs, TypeOK
  <2>2. CASE v # w
    <3>1. Runs(v, "ordering") /\ tx'[v] = tx[v]
      BY <1>4, <2>2 DEF Runs
    <3>2. client[tx[v].order] = "sent" /\ tx[v].order \in Orders
      BY <1>1, <3>1, OpenTransaction DEF BalanceInv, OrderingSent, Runs
    <3> QED
      BY <1>1, <1>2, <3>1, <3>2 DEF TypeOK
  <2> QED
    BY <2>1, <2>2
<1>6. MemberSeen'
  <2> SUFFICES ASSUME NEW v \in Workers, MemberRequest(v)'
               PROVE  tx'[v].view.member = member'[form'[tx'[v].order].member]
    BY DEF MemberSeen
  <2>1. CASE v = w
    BY <1>3, <1>4, <2>1
  <2>2. CASE v # w
    <3>1. MemberRequest(v) /\ tx'[v] = tx[v]
      BY <1>4, <2>2 DEF MemberRequest, OpenRequest, Runs
    <3> QED
      BY <1>3, <3>1 DEF BalanceInv, MemberSeen
  <2> QED
    BY <2>1, <2>2
<1> QED
  BY <1>1, <1>3, <1>5, <1>6, SameHistory, BalanceKept

(* A request that goes on, or ends without writing points. *)
LEMMA RequestBalance ==
    ASSUME BalanceInv, SessionInv', NEW w \in Workers, UNCHANGED <<member, ledger, form>>,
           \A v \in Workers : tx'[v] # Idle =>
                /\ tx[v] # Idle /\ tx'[v].op = tx[v].op /\ tx'[v].order = tx[v].order
                /\ tx'[v].view = tx[v].view,
           OrderingSent'
    PROVE  BalanceInv'
<1>1. MemberSeen'
  <2> SUFFICES ASSUME NEW v \in Workers, MemberRequest(v)'
               PROVE  tx'[v].view.member = member'[form'[tx'[v].order].member]
    BY DEF MemberSeen
  <2>1. MemberRequest(v)
    BY DEF MemberRequest, OpenRequest, Runs
  <2>2. tx'[v] # Idle
    BY DEF MemberRequest, OpenRequest, Runs
  <2> QED
    BY <2>1, <2>2 DEF BalanceInv, MemberSeen
<1> QED
  BY <1>1, SameHistory, BalanceKept

(* The call of the gateway changes the transaction only.                   *)
LEMMA GatewayBalance ==
    ASSUME BalanceInv, NEW w \in Workers, CallGateway(w)
    PROVE  BalanceInv'
<1>1. SessionInv' /\ TypeOK
  BY GatewaySession DEF BalanceInv, SessionInv, IInv
<1>2. /\ Runs(w, "cancel") /\ tx' = [tx EXCEPT ![w].called = TRUE]
      /\ UNCHANGED <<member, ledger, client, form>>
  BY DEF CallGateway, dbVars
<1>3. tx[w] \in Transaction /\ tx \in [Workers -> Transaction \union {Idle}]
  BY <1>1, <1>2, OpenTransaction DEF Runs, TypeOK
<1>4. tx'[w] = [tx[w] EXCEPT !.called = TRUE] /\ \A v \in Workers \ {w} : tx'[v] = tx[v]
  BY <1>2, <1>3
<1>5. tx'[w].op = tx[w].op /\ tx'[w].order = tx[w].order /\ tx'[w].view = tx[w].view
  BY <1>3, <1>4 DEF Transaction
<1>6. \A v \in Workers : tx'[v] # Idle =>
          /\ tx[v] # Idle /\ tx'[v].op = tx[v].op /\ tx'[v].order = tx[v].order
          /\ tx'[v].view = tx[v].view
  BY <1>2, <1>4, <1>5 DEF Runs
<1>7. OrderingSent'
  BY <1>2, <1>6 DEF BalanceInv, OrderingSent, Runs
<1> QED
  BY <1>1, <1>2, <1>6, <1>7, RequestBalance

(* A transaction that ends without writing points. *)
LEMMA CloseBalance ==
    ASSUME BalanceInv, SessionInv', NEW w \in Workers, Close(w),
           UNCHANGED <<member, ledger, form>>,
           \A v \in Workers : v # w /\ Runs(v, "ordering") =>
                client'[tx[v].order] = client[tx[v].order]
    PROVE  BalanceInv'
<1>1. tx'[w] = Idle /\ \A v \in Workers \ {w} : tx'[v] = tx[v]
  BY ClosedTransaction DEF BalanceInv, SessionInv, IInv
<1>2. \A v \in Workers : tx'[v] # Idle =>
          /\ tx[v] # Idle /\ tx'[v].op = tx[v].op /\ tx'[v].order = tx[v].order
          /\ tx'[v].view = tx[v].view
  BY <1>1
<1>3. OrderingSent'
  BY <1>1 DEF BalanceInv, OrderingSent, Runs
<1> QED
  BY <1>2, <1>3, RequestBalance

(* A rollback writes nothing; it answers the page of its own order.        *)
LEMMA RollbackBalance ==
    ASSUME BalanceInv, NEW w \in Workers, Rollback(w)
    PROVE  BalanceInv'
<1>1. SessionInv' /\ TypeOK /\ \A u \in Workers : TxOK(u)
  BY RollbackSession DEF BalanceInv, SessionInv, IInv
<1>2. Close(w) /\ UNCHANGED <<member, ledger, form>> /\ tx[w] # Idle
  BY DEF Rollback, dbVars
<1>3. ASSUME NEW v \in Workers, v # w, Runs(v, "ordering")
      PROVE  client'[tx[v].order] = client[tx[v].order]
  <2>1. CASE client' = client
    BY <2>1
  <2>2. CASE tx[w].op = "ordering" /\ client' = [client EXCEPT ![tx[w].order] = "failed"]
    <3>1. tx[v].order # tx[w].order /\ tx[v].order \in Orders
      BY <1>1, <1>2, <1>3, <2>2, OpenTransaction DEF TxOK, Runs
    <3> QED
      BY <1>1, <2>2, <3>1 DEF TypeOK
  <2> QED
    BY <2>1, <2>2 DEF Rollback
<1> QED
  BY <1>1, <1>2, <1>3, CloseBalance

(* A transaction that writes its member and a row of its history. *)
LEMMA WriteBalance ==
    ASSUME BalanceInv, SessionInv', NEW w \in Workers, MemberRequest(w), Close(w),
           UNCHANGED <<client, form>>,
           NEW o \in Orders, o = tx[w].order, form[o] \in Form,
           NEW me \in Members, form[o].member = me,
           NEW row \in MemberRow, NEW line \in LedgerRow, NEW gain \in Int,
           member' = [member EXCEPT ![me] = row],
           ledger' = [ledger EXCEPT ![o] = Append(@, line)],
           row.reserves = member[me].reserves + line.amount + 2 * gain,
           \A m \in Members : IsFiniteSet(EarnedAndCancelled(m)'),
           \A m \in Members : m # me => RewardSum(m)' = RewardSum(m),
           RewardSum(me)' = RewardSum(me) + gain
    PROVE  BalanceInv'
<1>1. TypeOK
  BY DEF BalanceInv, SessionInv, IInv
<1>2. tx'[w] = Idle /\ \A v \in Workers \ {w} : tx'[v] = tx[v]
  BY <1>1, ClosedTransaction
<1>3. OrderingSent'
  BY <1>2 DEF BalanceInv, OrderingSent, Runs
<1>4. member'[me] = row /\ \A m \in Members : m # me => member'[m] = member[m]
  BY <1>1 DEF TypeOK
<1>5. MemberSeen'
  <2> SUFFICES ASSUME NEW v \in Workers, MemberRequest(v)'
               PROVE  tx'[v].view.member = member'[form[tx'[v].order].member]
    BY DEF MemberSeen
  <2>1. v # w /\ MemberRequest(v) /\ tx'[v] = tx[v] /\ tx[v] # Idle
    BY <1>2 DEF MemberRequest, OpenRequest, Runs
  <2>2. form[tx[v].order].member # me
    BY <2>1, OthersMember DEF BalanceInv
  <2>3. tx[v].order \in Orders /\ client[tx[v].order] # "none"
    BY <1>1, <2>1, OpenTransaction DEF BalanceInv, SessionInv, IInv, OrderOK, TxOK
  <2>4. form[tx[v].order].member \in Members
    BY <2>3 DEF BalanceInv, SessionInv, IInv, OrderOK, Form
  <2>5. tx[v].view.member = member[form[tx[v].order].member]
    BY <2>1 DEF BalanceInv, MemberSeen
  <2> QED
    BY <1>4, <2>1, <2>2, <2>4, <2>5
<1>6. \A m \in Members : IsFiniteSet(HistoryOf(m))
  BY DEF BalanceInv, FiniteHistory
<1>7. form[o] # NoForm
  BY FormReal
<1>8. \A m \in Members : /\ IsFiniteSet(HistoryOf(m)')
                         /\ me # m => LedgerSum(m)' = LedgerSum(m)
                         /\ me = m => LedgerSum(m)' = LedgerSum(m) + line.amount
  BY <1>1, <1>6, <1>7, HistoryGrows
<1>9. FiniteHistory'
  BY <1>8 DEF FiniteHistory
<1>10. BalanceExplained'
  <2> SUFFICES ASSUME NEW m \in Members
               PROVE  member'[m].reserves = InitReserves + LedgerSum(m)' + 2 * RewardSum(m)'
    BY DEF BalanceExplained
  <2>1. /\ member[m].reserves = InitReserves + LedgerSum(m) + 2 * RewardSum(m)
        /\ FiniteHistory
    BY DEF BalanceInv, BalanceExplained
  <2>2. CASE m # me
    BY <1>4, <1>8, <2>1, <2>2
  <2>3. CASE m = me
    <3>1. /\ LedgerSum(m)' = LedgerSum(m) + line.amount
          /\ RewardSum(m)' = RewardSum(m) + gain
          /\ member'[m].reserves = member[m].reserves + line.amount + 2 * gain
      BY <1>4, <1>8, <2>3
    <3>2. LedgerSum(m) \in Int /\ RewardSum(m) \in Int
      BY <1>1, <2>1, SumTypes
    <3>3. line.amount \in Int /\ InitReserves \in Int
      BY ConstantsAssumption DEF LedgerRow
    <3> QED
      BY <2>1, <3>1, <3>2, <3>3
  <2> QED
    BY <2>2, <2>3
<1> QED
  BY <1>3, <1>5, <1>9, <1>10 DEF BalanceInv

(* Placing an order takes the points it uses, or adds those it earns.      *)
LEMMA CommitOrderingBalance ==
    ASSUME BalanceInv, NEW w \in Workers, CommitOrdering(w)
    PROVE  BalanceInv'
<1>1. SessionInv' /\ SessionInv /\ IInv /\ TypeOK /\ TypeOK'
  BY CommitOrderingSession DEF BalanceInv, SessionInv, IInv
<1>2. tx[w] # Idle /\ Runs(w, "ordering") /\ MemberRequest(w)
  BY DEF CommitOrdering, Runs, MemberRequest
<1>3. PICK o \in Orders : o = tx[w].order
  BY <1>1, <1>2, OpenTransaction
<1>4. orders[o] = "none" /\ client[o] # "none" /\ tx[w].view.ledger = <<>>
  BY <1>1, <1>2, <1>3 DEF IInv, TxOK, Runs
<1>5. /\ form[o] \in Form /\ ledger[o] = <<>>
      /\ tx[w].view.member = member[form[o].member]
  BY <1>1, <1>2, <1>3, <1>4
     DEF IInv, OrderOK, CancelReversesPlacement, BalanceInv, MemberSeen
<1>6. PICK me \in Members : form[o].member = me
  BY <1>5 DEF Form
<1>7. tx[w].view \in View
  BY <1>1, <1>2, OpenTransaction
<1>8. tx[w].view.member \in MemberRow
  BY <1>7 DEF View
<1>9. PICK line \in LedgerRow : line = PlacementRow(form[o], tx[w].view.member)
  BY <1>5, <1>8, PlacementReverses
<1>10. PICK row \in MemberRow : row = Placed(form[o], tx[w].view.member)
  BY <1>5, <1>8, PlacedType
<1>11. /\ member' = [member EXCEPT ![me] = row]
       /\ ledger' = [ledger EXCEPT ![o] = Append(@, line)]
       /\ Close(w) /\ UNCHANGED <<client, form>>
  BY <1>3, <1>4, <1>6, <1>9, <1>10 DEF CommitOrdering, Exists
<1>12. row.reserves = tx[w].view.member.reserves + line.amount
  <2>1. /\ Reserve(form[o], tx[w].view.member) \in Int
        /\ tx[w].view.member.reserves \in Int /\ form[o].used \in Nat
    BY <1>5, <1>8, ReserveType DEF MemberRow, Form
  <2>2. CASE form[o].used = 0
    BY <1>8, <1>9, <1>10, <2>1, <2>2
       DEF Placed, PlacementRow, AddReserves, AddOrderAmountAndUpdateRating, MemberRow
  <2>3. CASE form[o].used # 0
    BY <1>8, <1>9, <1>10, <2>1, <2>3
       DEF Placed, PlacementRow, FlushReserves, AddOrderAmountAndUpdateRating, MemberRow
  <2> QED
    BY <2>2, <2>3
<1>13. /\ \A p \in Orders : p # o => ledger'[p] = ledger[p]
       /\ ledger'[o] = Append(<<>>, line)
  BY <1>1, <1>5, <1>11 DEF TypeOK
<1>14. Len(ledger'[o]) = 1 /\ Len(ledger[o]) = 0
  BY <1>5, <1>13
<1>15. \A m \in Members : /\ o \notin EarnedAndCancelled(m)
                          /\ o \notin EarnedAndCancelled(m)'
  <2>1. Len(ledger'[o]) # 2 /\ Len(ledger[o]) # 2
    BY <1>14
  <2>2. \A m \in Members : \A p \in EarnedAndCancelled(m) : Len(ledger[p]) = 2
    BY DEF EarnedAndCancelled
  <2>3. \A m \in Members : \A p \in EarnedAndCancelled(m)' : Len(ledger'[p]) = 2
    BY DEF EarnedAndCancelled
  <2> QED
    BY <2>1, <2>2, <2>3
<1>16. \A m \in Members : IsFiniteSet(EarnedAndCancelled(m)') /\ RewardSum(m)' = RewardSum(m)
  BY <1>11, <1>13, <1>15, RewardsKept DEF BalanceInv, FiniteHistory
<1>17. RewardSum(me) \in Int
  BY <1>1, SumTypes DEF BalanceInv
<1>18. PICK gain \in Int : gain = 0
  OBVIOUS
<1>19. RewardSum(me)' = RewardSum(me) + gain
  BY <1>16, <1>17, <1>18
<1>20. tx[w].view.member.reserves \in Int /\ line.amount \in Int
  BY <1>8 DEF MemberRow, LedgerRow
<1>21. row.reserves = member[me].reserves + line.amount + 2 * gain
  BY <1>5, <1>6, <1>12, <1>20, <1>18
<1>22. /\ \A m \in Members : IsFiniteSet(EarnedAndCancelled(m)')
       /\ \A m \in Members : m # me => RewardSum(m)' = RewardSum(m)
  BY <1>16
<1> QED
  BY <1>1, <1>2, <1>3, <1>5, <1>6, <1>11, <1>19, <1>21, <1>22, WriteBalance

(* A cancel that writes points is the first one of its order. *)
LEMMA CommitCancelBalance ==
    ASSUME BalanceInv, NEW w \in Workers, CommitCancel(w)
    PROVE  BalanceInv'
<1>1. SessionInv' /\ SessionInv /\ IInv /\ TypeOK /\ TypeOK'
  BY CommitCancelSession DEF BalanceInv, SessionInv, IInv
<1>2. tx[w] # Idle /\ OpenRequest(w) /\ MemberRequest(w) /\ tx[w].op = "cancel"
  BY DEF CommitCancel, Runs, MemberRequest, OpenRequest, OrderOps
<1>3. PICK o \in Orders : o = tx[w].order
  BY <1>1, <1>2, OpenTransaction
<1>4. tx[w].view \in View
  BY <1>1, <1>2, OpenTransaction
<1>5. /\ tx[w].view.ledger = ledger[o] /\ tx[w].view.member = member[form[o].member]
      /\ orders[o] # "none" /\ client[o] # "none"
  BY <1>1, <1>2, <1>3 DEF SessionInv, ViewKept, BalanceInv, MemberSeen, IInv, TxOK, OrderOK
<1>6. form[o] \in Form /\ ledger[o] \in Seq(LedgerRow) /\ Reverses(form[o], ledger[o])
  BY <1>1, <1>3, <1>5 DEF IInv, OrderOK, CancelReversesPlacement, TypeOK
<1>7. PICK me \in Members : form[o].member = me
  BY <1>6 DEF Form
<1>8. Close(w) /\ UNCHANGED <<client, form>>
  BY DEF CommitCancel
<1>9. CASE Exists(tx[w].view.ledger, "ORDER_CANCEL")
  <2>1. UNCHANGED <<member, ledger>>
    BY <1>9 DEF CommitCancel
  <2> QED
    BY <1>1, <1>8, <2>1, CloseBalance
<1>10. CASE ~Exists(tx[w].view.ledger, "ORDER_CANCEL")
  <2>1. tx[w].view.member \in MemberRow
    BY <1>4 DEF View
  <2>2. PICK line \in LedgerRow : line = CancelRow(form[o], tx[w].view.ledger)
    BY <1>5, <1>6, <2>1, CancelAppends
  <2>3. PICK row \in MemberRow : row = Unplaced(form[o], tx[w].view.ledger, tx[w].view.member)
    BY <1>5, <1>6, <2>1, UnplacedType
  <2>4. /\ member' = [member EXCEPT ![me] = row]
        /\ ledger' = [ledger EXCEPT ![o] = Append(@, line)]
    BY <1>3, <1>7, <1>10, <2>2, <2>3 DEF CommitCancel
  <2>5. Len(ledger[o]) = 1
    <3>1. 2 \notin DOMAIN ledger[o]
      BY <1>5, <1>6, <1>10 DEF Exists, Reverses
    <3>2. Len(ledger[o]) \in Nat \ {0}
      BY <1>6 DEF Reverses
    <3>3. DOMAIN ledger[o] = 1..Len(ledger[o])
      BY <1>6
    <3>4. 2 \notin 1..Len(ledger[o])
      BY <3>1, <3>3
    <3>5. \A n \in Nat \ {0} : 2 \notin 1..n => n = 1
      OBVIOUS
    <3> QED
      BY <3>2, <3>4, <3>5, Zenon
  <2>6. ledger[o][1] \in LedgerRow
    BY <1>6, <2>5
  <2>7. PICK a \in Int : a = ledger[o][1].amount
    BY <2>6 DEF LedgerRow
  <2>8. CancelAmount(form[o], tx[w].view.ledger) = -a /\ line.amount = -a
    BY <1>5, <1>6, <2>2, <2>7, CancelAmountReverses DEF CancelRow
  <2>9. /\ \A p \in Orders : p # o => ledger'[p] = ledger[p]
        /\ ledger'[o] = Append(ledger[o], line)
    BY <1>1, <2>4 DEF TypeOK
  <2>10. Len(ledger'[o]) = 2 /\ ledger'[o][1] = ledger[o][1]
    BY <1>6, <2>5, <2>9
  <2>11. /\ \A m \in Members : o \notin EarnedAndCancelled(m)
         /\ \A m \in Members : o \in EarnedAndCancelled(m)' <=>
                me = m /\ ledger[o][1].type = "ORDER"
    <3>1. form[o] # NoForm
      BY <1>6, FormReal
    <3> QED
      BY <1>8, <1>7, <2>5, <2>10, <3>1 DEF EarnedAndCancelled
  <2>12. form[o].used \in Nat /\ tx[w].view.member.reserves \in Int
    BY <1>6, <2>1 DEF Form, MemberRow
  <2>13. \A m \in Members : IsFiniteSet(EarnedAndCancelled(m))
    BY DEF BalanceInv, FiniteHistory
  <2>14. ASSUME NEW m \in Members, o \notin EarnedAndCancelled(m)'
         PROVE  IsFiniteSet(EarnedAndCancelled(m)') /\ RewardSum(m)' = RewardSum(m)
    BY <1>8, <2>9, <2>11, <2>13, <2>14, RewardsKept
  <2>15. RewardSum(me) \in Int
    BY <1>1, SumTypes DEF BalanceInv
  <2>16. CASE form[o].used > 0
    <3>1. ledger[o][1].type # "ORDER"
      BY <1>6, <2>12, <2>16 DEF Reverses
    <3>2. \A m \in Members : IsFiniteSet(EarnedAndCancelled(m)') /\ RewardSum(m)' = RewardSum(m)
      BY <2>11, <2>14, <3>1
    <3>3. row.reserves = tx[w].view.member.reserves - a
      BY <2>1, <2>3, <2>7, <2>8, <2>12, <2>16 DEF Unplaced, AddReserves, MemberRow
    <3>4. PICK gain \in Int : gain = 0
      OBVIOUS
    <3>5. row.reserves = member[me].reserves + line.amount + 2 * gain
      BY <1>5, <1>7, <2>7, <2>8, <2>12, <3>3, <3>4
    <3>6. RewardSum(me)' = RewardSum(me) + gain
      BY <2>15, <3>2, <3>4
    <3>7. /\ \A m \in Members : IsFiniteSet(EarnedAndCancelled(m)')
          /\ \A m \in Members : m # me => RewardSum(m)' = RewardSum(m)
      BY <3>2
    <3> QED
      BY <1>1, <1>2, <1>3, <1>6, <1>7, <1>8, <2>4, <3>5, <3>6, <3>7, WriteBalance
  <2>17. CASE ~(form[o].used > 0)
    <3>1. ledger[o][1].type = "ORDER"
      BY <1>6, <2>12, <2>17 DEF Reverses
    <3>2. /\ IsFiniteSet(EarnedAndCancelled(me)')
          /\ RewardSum(me)' = RewardSum(me) + a
      BY <1>1, <1>8, <2>7, <2>9, <2>10, <2>11, <2>13, <3>1, RewardsGrow
    <3>3. \A m \in Members : m # me => o \notin EarnedAndCancelled(m)'
      BY <2>11
    <3>4. \A m \in Members : m # me =>
              IsFiniteSet(EarnedAndCancelled(m)') /\ RewardSum(m)' = RewardSum(m)
      BY <2>14, <3>3
    <3>5. row.reserves = tx[w].view.member.reserves + a
      BY <2>1, <2>3, <2>7, <2>8, <2>12, <2>17 DEF Unplaced, FlushReserves, MemberRow
    <3>6. row.reserves = member[me].reserves + line.amount + 2 * a
      BY <1>5, <1>7, <2>7, <2>8, <2>12, <3>5
    <3>7. /\ \A m \in Members : IsFiniteSet(EarnedAndCancelled(m)')
          /\ \A m \in Members : m # me => RewardSum(m)' = RewardSum(m)
      BY <3>2, <3>4
    <3> QED
      BY <1>1, <1>2, <1>3, <1>6, <1>7, <1>8, <2>4, <2>7, <3>2, <3>6, <3>7, WriteBalance
  <2> QED
    BY <2>16, <2>17
<1> QED
  BY <1>9, <1>10

(* The other commits write neither the member nor the history.             *)
LEMMA CommitBalance ==
    ASSUME BalanceInv, NEW w \in Workers, Commit(w)
    PROVE  BalanceInv'
<1>1. SessionInv'
  BY CommitSession DEF BalanceInv
<1>2. CASE CommitOrdering(w) \/ CommitCancel(w)
  BY <1>2, CommitOrderingBalance, CommitCancelBalance
<1>3. CASE \/ CommitModifyOrder(w) \/ CommitModifyDelivery(w)
           \/ CommitModifyStatus(w) \/ CommitAddDelivery(w)
  <2>1. Close(w) /\ UNCHANGED <<member, ledger, client, form>>
    BY <1>3 DEF CommitModifyOrder, CommitModifyDelivery, CommitModifyStatus, CommitAddDelivery
  <2> QED
    BY <1>1, <2>1, CloseBalance
<1> QED
  BY <1>2, <1>3 DEF Commit

(* No member has a history at the start.                                   *)
LEMMA InitBalance == Init => BalanceInv
<1> SUFFICES ASSUME Init PROVE BalanceInv
  OBVIOUS
<1>1. SessionInv
  BY InitSession
<1>2. \A w \in Workers : tx[w] = Idle
  BY DEF Init
<1>3. OrderingSent /\ MemberSeen
  BY <1>2 DEF OrderingSent, MemberSeen, MemberRequest, OpenRequest, Runs
<1>4. \A m \in Members : HistoryOf(m) = {} /\ EarnedAndCancelled(m) = {}
  BY DEF Init, HistoryOf, EarnedAndCancelled
<1>5. FiniteHistory
  BY <1>4, FS_EmptySet DEF FiniteHistory
<1>6. \A g : SumFunctionOnSet(g, {}) = 0
  BY FS_EmptySet, SumUnfolds
<1>7. \A m \in Members : LedgerSum(m) = 0 /\ RewardSum(m) = 0
  BY <1>4, <1>6 DEF LedgerSum, RewardSum
<1>8. \A m \in Members : member[m].reserves = InitReserves
  BY DEF Init
<1>9. BalanceExplained
  BY <1>7, <1>8, ConstantsAssumption DEF BalanceExplained
<1> QED
  BY <1>1, <1>3, <1>5, <1>9 DEF BalanceInv

(* Every step of the service keeps the invariant.                          *)
LEMMA NextBalance ==
    ASSUME SessionLimit = 1, ResponseMayFail = FALSE, BalanceInv, [Next]_vars
    PROVE  BalanceInv'
<1>1. ASSUME NEW o \in Orders, Page(o) PROVE BalanceInv'
  BY <1>1, PageBalance
<1>2. ASSUME NEW w \in Workers, NEW o \in Orders, Begin(w, o) PROVE BalanceInv'
  BY <1>2, BeginBalance
<1>3. ASSUME NEW w \in Workers, Commit(w) \/ CallGateway(w) \/ Rollback(w)
      PROVE  BalanceInv'
  BY <1>3, CommitBalance, GatewayBalance, RollbackBalance
<1>4. CASE UNCHANGED vars
  <2>1. SessionInv'
    BY <1>4, NextSession DEF BalanceInv
  <2>2. UNCHANGED <<member, ledger, client, form, tx>>
    BY <1>4 DEF vars
  <2>3. OrderingSent' /\ MemberSeen'
    BY <2>2 DEF BalanceInv, OrderingSent, MemberSeen, MemberRequest, OpenRequest, Runs
  <2> QED
    BY <2>1, <2>2, <2>3, SameHistory, BalanceKept
<1> QED
  BY <1>1, <1>2, <1>3, <1>4 DEF Next

(* A member in one tab whose answers arrive: however the transactions of   *)
(* orders, admins and the gateway interleave, fail and roll back, the      *)
(* points of the member are those of the start, what the rows of the       *)
(* history add up to, and twice the reward of every cancelled order that   *)
(* had earned one (ordering 123-145, cancel 244-264).                      *)
THEOREM BalanceExplainedHolds ==
    ASSUME SessionLimit = 1, ResponseMayFail = FALSE
    PROVE  Spec => []BalanceExplained
<1>1. BalanceInv /\ [Next]_vars => BalanceInv'
  BY NextBalance
<1>2. BalanceInv => BalanceExplained
  BY DEF BalanceInv
<1> QED
  BY <1>1, <1>2, InitBalance, PTL DEF Spec
=============================================================================
