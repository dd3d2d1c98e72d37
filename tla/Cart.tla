--------------------------------- MODULE Cart ---------------------------------
(***************************************************************************)
(* The carts of the shop: CartService, the rows an order takes out of them *)
(* (OrderService.saveOrderItems) and the cart and order pages of several   *)
(* tabs (cart.js, itemDetail.js, order.js).                                *)
(*                                                                         *)
(* add looks an option up in the carts of all members and inserts a row if *)
(* it finds none; nothing but that keeps an option from having two rows,   *)
(* and with two rows the lookup throws.  An order is charged at the counts *)
(* its page was opened with and takes the counts the rows have.            *)
(***************************************************************************)
EXTENDS Integers, FiniteSets

CONSTANTS
    Members,   \* members of the mall
    Tabs,      \* open shop pages
    Options,   \* item options on sale
    NoTab,     \* nobody
    MaxRows,   \* bound: rows ever inserted
    MaxCount   \* bound: count of a row

Ids == 1..MaxRows

ASSUME CartAssumption ==
    /\ NoTab \notin Tabs
    /\ MaxRows \in Nat /\ MaxCount \in Nat \ {0}

VARIABLES
    owner,    \* the member logged in in a tab
    cart,     \* rows of cart, by id
    inserted, \* ids given so far
    form,     \* the order page of a tab: the count a row is charged at, 0 if not on it
    tx,       \* the changing request of a tab that is under way
    ordered,  \* history: times a row was ordered, by whom, and if it was
              \* always charged at the count that was taken
    changers, \* history: tabs that have changed a row
    hurried,  \* history: tabs that went to the order page before an answer was there
    clash     \* history: options two inserts have met on

historyVars == <<ordered, changers, hurried>>
vars == <<owner, cart, inserted, form, tx, ordered, changers, hurried, clash>>

Counts == 0..MaxCount
Row == [member: Members, option: Options, count: 1..MaxCount]
Absent == [absent |-> TRUE]
NoRows == [i \in Ids |-> 0]

Idle == [op |-> "idle"]

(* rows are those it has found, count what it writes, read the counts an   *)
(* order has read.                                                         *)
Transaction ==
    [op: {"add", "modify", "delete", "order"}, option: Options, rows: SUBSET Ids,
     count: Counts, read: [Ids -> Counts]]

Present(i) == cart[i] # Absent

CartOf(m) == {i \in Ids : Present(i) /\ cart[i].member = m}

(* getByItemOptionId, which does not ask for the member. *)
RowsOf(o) == {i \in Ids : Present(i) /\ cart[i].option = o}

ReadCounts(S) == [i \in Ids |-> IF i \in S /\ Present(i) THEN cart[i].count ELSE 0]

Rows(f) == {i \in Ids : f[i] > 0}

AnOption == CHOOSE o \in Options : TRUE

-----------------------------------------------------------------------------
Init ==
    /\ owner \in [Tabs -> Members]
    /\ cart = [i \in Ids |-> Absent]
    /\ inserted = 0
    /\ form = [t \in Tabs |-> NoRows]
    /\ tx = [t \in Tabs |-> Idle]
    /\ ordered = [i \in Ids |-> [times |-> 0, by |-> NoTab, exact |-> TRUE]]
    /\ changers = [i \in Ids |-> {}]
    /\ hurried = {}
    /\ clash = {}

-----------------------------------------------------------------------------
(***************************************************************************)
(* The pages.  A tab may show the cart of any moment until now, and what   *)
(* is pressed on a row that is gone changes nothing.                       *)
(***************************************************************************)

ZeroToo == 0..MaxCount  \* mutant: the minus button does not stop at 1

(* What the plus and minus buttons leave in the field of a count. *)
AdjustedCounts == 1..MaxCount

AnyPage(t) == TRUE  \* mutant: the shop pages stay usable behind the order page

(* The item pages and the cart page are hidden by the order page. *)
OnShopPage(t) == form[t] = NoRows

(* btn-order: the checked rows, at the price drawn for their counts. *)
PressOrder(t, S) ==
    /\ OnShopPage(t)
    /\ S # {} /\ S \subseteq CartOf(owner[t])
    /\ form' = [form EXCEPT ![t] = ReadCounts(S)]
    /\ hurried' = IF tx[t] = Idle THEN hurried ELSE hurried \union {t}
    /\ UNCHANGED <<owner, cart, inserted, tx, ordered, changers, clash>>

(* goCart from the order page, before the payment. *)
LeaveOrder(t) ==
    /\ form[t] # NoRows /\ tx[t].op # "order"
    /\ form' = [form EXCEPT ![t] = NoRows]
    /\ UNCHANGED <<owner, cart, inserted, tx, historyVars, clash>>

-----------------------------------------------------------------------------
(***************************************************************************)
(* CartService.  A page has at most one changing request under way, which  *)
(* ends with the answer the cart is drawn from again.                      *)
(***************************************************************************)
Open(t, request) ==
    /\ tx[t] = Idle
    /\ tx' = [tx EXCEPT ![t] = request]
    /\ UNCHANGED <<owner, cart, inserted, form, historyVars>>

Request(op, S) == [op |-> op, option |-> AnOption, rows |-> S, count |-> 0,
                   read |-> IF op = "order" THEN ReadCounts(S) ELSE NoRows]

(* Bound: a tab changes the count of a row once. *)
ChangesOnce(t, S) == \A i \in S : t \notin changers[i]

Inserting(t, o) == tx[t].op = "add" /\ tx[t].option = o /\ tx[t].rows = {}

FoundNever(o) == {}  \* mutant: add always inserts

Found(o) == RowsOf(o)

(* addItems of one option: two rows make the lookup throw. *)
BeginAdd(t, o, n) ==
    /\ OnShopPage(t)
    /\ Cardinality(Found(o)) <= 1 /\ ChangesOnce(t, Found(o))
    /\ LET c == n + (IF Found(o) = {} THEN 0 ELSE cart[CHOOSE i \in Found(o) : TRUE].count)
       IN  /\ c <= MaxCount
           /\ Open(t, [Request("add", Found(o)) EXCEPT !.option = o, !.count = c])
    /\ clash' = IF Found(o) = {} /\ \E u \in Tabs : Inserting(u, o)
                   THEN clash \union {o} ELSE clash

BeginModify(t, i, n) ==
    /\ OnShopPage(t)
    /\ i \in CartOf(owner[t]) /\ ChangesOnce(t, {i})
    /\ Open(t, [Request("modify", {i}) EXCEPT !.count = n])
    /\ UNCHANGED clash

BeginDelete(t, i) ==
    /\ OnShopPage(t)
    /\ i \in CartOf(owner[t])
    /\ Open(t, Request("delete", {i}))
    /\ UNCHANGED clash

AllThere(t) == \A i \in Rows(form[t]) : Present(i)

(* ordering, once the payment is there: every row must be. *)
BeginOrder(t) ==
    /\ Rows(form[t]) # {} /\ AllThere(t)
    /\ Open(t, Request("order", Rows(form[t])))
    /\ UNCHANGED clash

-----------------------------------------------------------------------------
Done(t) ==
    /\ tx' = [tx EXCEPT ![t] = Idle]
    /\ UNCHANGED <<owner, hurried, clash>>

Changed(t, S) == changers' = [i \in Ids |-> IF i \in S THEN changers[i] \union {t} ELSE changers[i]]

(* An exception, a lock that is not granted, a server that goes down; an   *)
(* order that fails is paid back and its page left.                        *)
Rollback(t) ==
    /\ tx[t] # Idle
    /\ tx' = [tx EXCEPT ![t] = Idle]
    /\ form' = IF tx[t].op = "order" THEN [form EXCEPT ![t] = NoRows] ELSE form
    /\ UNCHANGED <<owner, cart, inserted, historyVars, clash>>

CommitInsert(t) ==
    /\ tx[t].op = "add" /\ tx[t].rows = {}
    /\ inserted < MaxRows
    /\ inserted' = inserted + 1
    /\ cart' = [cart EXCEPT ![inserted'] =
            [member |-> owner[t], option |-> tx[t].option, count |-> tx[t].count]]
    /\ Done(t)
    /\ UNCHANGED <<form, ordered, changers>>

UpdateAny(t) == TRUE  \* mutant: an update of no row is no failure

(* An update or a delete that meets no row fails the flush. *)
StillThere(t) == \A i \in tx[t].rows : Present(i)

CommitUpdate(t) ==
    /\ tx[t].op \in {"add", "modify"} /\ tx[t].rows # {}
    /\ StillThere(t)
    /\ cart' = [i \in Ids |-> IF i \in tx[t].rows THEN [cart[i] EXCEPT !.count = tx[t].count]
                                                  ELSE cart[i]]
    /\ Changed(t, tx[t].rows)
    /\ Done(t)
    /\ UNCHANGED <<inserted, form, ordered>>

Removed(S) == cart' = [i \in Ids |-> IF i \in S THEN Absent ELSE cart[i]]

CommitDelete(t) ==
    /\ tx[t].op = "delete"
    /\ StillThere(t)
    /\ Removed(tx[t].rows)
    /\ Done(t)
    /\ UNCHANGED <<inserted, form, ordered, changers>>

(* saveOrderItems: an order item per row at its count, and the rows go. *)
CommitOrder(t) ==
    /\ tx[t].op = "order"
    /\ StillThere(t)
    /\ Removed(tx[t].rows)
    /\ ordered' = [i \in Ids |->
            IF i \in tx[t].rows
               THEN [times |-> ordered[i].times + 1, by |-> t,
                     exact |-> ordered[i].exact /\ form[t][i] = tx[t].read[i]]
               ELSE ordered[i]]
    /\ form' = [form EXCEPT ![t] = NoRows]
    /\ Done(t)
    /\ UNCHANGED <<inserted, changers>>

-----------------------------------------------------------------------------
Begin(t) ==
    \/ \E o \in Options, n \in AdjustedCounts : BeginAdd(t, o, n)
    \/ \E i \in Ids, n \in AdjustedCounts : BeginModify(t, i, n)
    \/ \E i \in Ids : BeginDelete(t, i)
    \/ BeginOrder(t)

Commit(t) == CommitInsert(t) \/ CommitUpdate(t) \/ CommitDelete(t) \/ CommitOrder(t)

Next ==
    \E t \in Tabs :
        \/ \E S \in SUBSET Ids : PressOrder(t, S)
        \/ LeaveOrder(t)
        \/ Begin(t)
        \/ Commit(t)
        \/ Rollback(t)

Spec == Init /\ [][Next]_vars

-----------------------------------------------------------------------------
(* The rows, the pages and the requests hold values of their types. *)
TypeOK ==
    /\ owner \in [Tabs -> Members]
    /\ cart \in [Ids -> Row \union {Absent}]
    /\ inserted \in 0..MaxRows
    /\ form \in [Tabs -> [Ids -> Counts]]
    /\ tx \in [Tabs -> Transaction \union {Idle}]
    /\ ordered \in [Ids -> [times: Nat, by: Tabs \union {NoTab}, exact: BOOLEAN]]
    /\ changers \in [Ids -> SUBSET Tabs]
    /\ hurried \subseteq Tabs
    /\ clash \subseteq Options

(* An option has one row in all carts, unless two inserts met on it. *)
OneRowPerOption ==
    \A o \in Options \ clash : \A i, j \in RowsOf(o) : i = j

(* A row is ordered once, although two tabs may have it on their order     *)
(* pages, both paid for: the second one finds it gone or fails to delete   *)
(* it, and is paid back.                                                   *)
OrderedOnce == \A i \in Ids : ordered[i].times <= 1

(* A member is charged for the count that is ordered, unless another tab   *)
(* has changed the row, one of another member included, or the member went *)
(* to the order page before an answer was there.                           *)
ChargedAsOrdered ==
    \A i \in Ids : LET o == ordered[i] IN
        o.times > 0 /\ o.by \notin hurried /\ changers[i] \subseteq {o.by}
            => o.exact
=============================================================================
