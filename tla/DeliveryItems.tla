---------------------------- MODULE DeliveryItems ----------------------------
(***************************************************************************)
(* The items of an order's deliveries: the delivery operations of          *)
(* service/admin/OrderAdminService and the delivery detail of the admin's  *)
(* order page (deliveryDetail of order.js), opened in several tabs.        *)
(*                                                                         *)
(* A tab sends its requests for the delivery it has opened, while an       *)
(* answer asked for another one may still be on its way: it then shows     *)
(* that delivery's rows under the new id.  The server looks an item up     *)
(* under its delivery.                                                     *)
(***************************************************************************)
EXTENDS Integers, FiniteSets, Functions

CONSTANTS
    Deliveries,    \* delivery ids of one order
    First,         \* the delivery ordering created
    NoDelivery,    \* the page has opened none
    Items,         \* item options, each ordered once
    Counts,        \* counts of a delivery item
    Ordered,       \* count of an order item
    AdminStatuses, \* statuses the page may save
    Tabs,          \* open delivery details
    Workers,       \* request threads of the server
    MaxRows        \* bound: delivery items ever inserted

Status == {"REQUESTED", "CHECKED", "SHIPPED", "DELIVERED", "DELETED"}

Ids == 1..MaxRows

NoTab == "NoTab"

ASSUME ItemsAssumption ==
    /\ First \in Deliveries /\ NoDelivery \notin Deliveries
    /\ Counts \subseteq Nat /\ Ordered \in Nat
    /\ AdminStatuses \subseteq Status
    /\ NoTab \notin Tabs
    /\ IsFiniteSet(Items) /\ Items # {}
    /\ MaxRows \in Nat /\ Cardinality(Items) <= MaxRows

VARIABLES
    status,    \* delivery.status, "none" before it is inserted
    rows,      \* rows of delivery_item, by id
    inserted,  \* ids given so far
    page,      \* delivery detail of a tab
    loading,   \* deliveries a tab has asked for and not been shown
    tx,        \* open transaction of a request thread
    clash      \* history: deliveries two requests were open on at once

dbVars == <<status, rows, inserted>>
vars == <<status, rows, inserted, page, loading, tx, clash>>

Row == [delivery: Deliveries, item: Items, count: Nat]
Absent == [absent |-> TRUE]

(* rows are those drawn with their buttons. *)
Page == [id: Deliveries \union {NoDelivery}, status: Status \union {""},
         rows: SUBSET Ids]

ItemOps == {"addItem", "deleteItem", "modifyCount"}
DeliveryOps == {"addDelivery", "modifyStatus"}
Idle == [op |-> "idle"]

(* What a transaction is going to write; dirty if that differs from what   *)
(* it has read.                                                            *)
Transaction == [op: ItemOps \union DeliveryOps, tab: Tabs \union {NoTab},
                delivery: Deliveries, row: Ids, item: Items,
                count: Nat, status: Status, dirty: BOOLEAN]

Present(i) == rows[i] # Absent

RowsOf(d) == {i \in Ids : Present(i) /\ rows[i].delivery = d}

ExistsNever(d, item) == FALSE  \* mutant: the check is dropped

(* existsByDeliveryIdAndItemOptionId *)
Exists(d, item) == \E i \in RowsOf(d) : rows[i].item = item

FoundById(d, i) == Present(i)  \* mutant: findById(itemId)

(* findByDeliveryIdAndId *)
Found(d, i) == i \in RowsOf(d)

ChangeableAlways(d) == TRUE  \* mutant: the status is left to the page

(* StatusNotSatisfiedException otherwise. *)
Changeable(d) == status[d] = "REQUESTED"

(* table with a new row of d under the id f gives to each of its items. *)
Inserted(table, f, d, n) ==
    [i \in Ids |-> IF \E a \in DOMAIN f : f[a] = i
                      THEN [delivery |-> d, item |-> CHOOSE a \in DOMAIN f : f[a] = i,
                            count |-> n]
                      ELSE table[i]]

On(w, d) == tx[w] # Idle /\ tx[w].delivery = d

-----------------------------------------------------------------------------
(* ordering has created the first delivery, with the items of the order.   *)
Init ==
    /\ status = [d \in Deliveries |-> IF d = First THEN "REQUESTED" ELSE "none"]
    /\ \E f \in Bijection(Items, 1..Cardinality(Items)) :
            rows = Inserted([i \in Ids |-> Absent], f, First, Ordered)
    /\ inserted = Cardinality(Items)
    /\ page = [t \in Tabs |-> [id |-> NoDelivery, status |-> "", rows |-> {}]]
    /\ loading = [t \in Tabs |-> {}]
    /\ tx = [w \in Workers |-> Idle]
    /\ clash = {}

-----------------------------------------------------------------------------
(***************************************************************************)
(* The page.                                                               *)
(***************************************************************************)

(* goDeliveryDetail: the id changes at once, the rows with the answer. *)
OpenDelivery(t, d) ==
    /\ status[d] # "none"
    /\ page' = [page EXCEPT ![t].id = d]
    /\ loading' = [loading EXCEPT ![t] = @ \union {d}]
    /\ UNCHANGED <<dbVars, tx, clash>>

(* The answer of findById is shown whatever delivery is open by now; the   *)
(* rows of a delivery that has left get no buttons.  That the answer may   *)
(* be old when it is shown is the page's being old as long as it is open.  *)
Show(t, d) ==
    /\ d \in loading[t]
    /\ page' = [page EXCEPT ![t].status = status[d],
                            ![t].rows = IF Changeable(d) THEN RowsOf(d) ELSE {}]
    /\ loading' = [loading EXCEPT ![t] = @ \ {d}]
    /\ UNCHANGED <<dbVars, tx, clash>>

-----------------------------------------------------------------------------
(***************************************************************************)
(* OrderAdminService.                                                      *)
(***************************************************************************)

(* The handler of btn-save-delivery-item. *)
MayAddItem(t) == page[t].status = "REQUESTED"

(* The handlers of the rows' buttons, which stay whatever the status is    *)
(* changed to.                                                             *)
MayPress(t, i) == i \in page[t].rows

(* The select, once opened, stays open whatever delivery is shown, and the *)
(* comparison with DELETED reads a selector that matches nothing.          *)
MayUpdateStatus(t) == page[t].id # NoDelivery

AnItem == CHOOSE a \in Items : TRUE

Request(t, op, d) == [op |-> op, tab |-> t, delivery |-> d, row |-> 1, item |-> AnItem,
                      count |-> 0, status |-> "REQUESTED", dirty |-> TRUE]

(* A request reads the delivery and its items and makes its checks: one    *)
(* that fails them changes nothing.  That a delivery has not left is asked *)
(* of every change of its items but addItem.                               *)
Begin(w, request) ==
    /\ tx[w] = Idle
    /\ tx' = [tx EXCEPT ![w] = request]
    /\ clash' = IF \E v \in Workers : On(v, request.delivery)
                   THEN clash \union {request.delivery} ELSE clash
    /\ UNCHANGED <<dbVars, page, loading>>

BeginAddItem(w, t, item, n) ==
    /\ MayAddItem(t)
    /\ ~Exists(page[t].id, item)
    /\ Begin(w, [Request(t, "addItem", page[t].id) EXCEPT !.item = item, !.count = n])

BeginDeleteItem(w, t, i) ==
    /\ MayPress(t, i)
    /\ Found(page[t].id, i) /\ Changeable(page[t].id)
    /\ Begin(w, [Request(t, "deleteItem", page[t].id) EXCEPT !.row = i])

BeginModifyCount(w, t, i, n) ==
    /\ MayPress(t, i)
    /\ Found(page[t].id, i) /\ Changeable(page[t].id)
    /\ Begin(w, [Request(t, "modifyCount", page[t].id) EXCEPT
                    !.row = i, !.count = n, !.dirty = rows[i].count # n])

BeginUpdateStatus(w, t, s) ==
    /\ MayUpdateStatus(t)
    /\ Begin(w, [Request(t, "modifyStatus", page[t].id) EXCEPT
                    !.status = s, !.dirty = status[page[t].id] # s])

(* updateInvoice, uploadInvoice and modifyAddress write the whole row with *)
(* the status they read; a page that shows the delivery as it once was     *)
(* lets them.                                                              *)
BeginUpdateDetails(w, d) ==
    /\ status[d] # "none"
    /\ Begin(w, [Request(NoTab, "modifyStatus", d) EXCEPT !.status = status[d]])

(* The order detail cancels a delivery it once read as REQUESTED, as every *)
(* delivery was.                                                           *)
BeginDeleteDelivery(w, d) ==
    /\ status[d] # "none"
    /\ Begin(w, [Request(NoTab, "modifyStatus", d) EXCEPT
                    !.status = "DELETED", !.dirty = status[d] # "DELETED"])

BeginAddDelivery(w, d) ==
    /\ status[d] = "none"
    /\ ~\E v \in Workers : On(v, d)
    /\ Begin(w, Request(NoTab, "addDelivery", d))

Close(w) == tx' = [tx EXCEPT ![w] = Idle]

(* done of the item requests: the delivery that is open by now is loaded. *)
Reload(w) ==
    /\ Close(w)
    /\ loading' = [t \in Tabs |-> IF t = tx[w].tab THEN loading[t] \union {page[t].id}
                                                  ELSE loading[t]]
    /\ UNCHANGED <<page, clash>>

(* updateStatus' done: the page takes the status over, the rows stay.      *)
ShowSaved(w) ==
    /\ Close(w)
    /\ page' = [t \in Tabs |-> IF t = tx[w].tab THEN [page[t] EXCEPT !.status = tx[w].status]
                                                ELSE page[t]]
    /\ UNCHANGED <<loading, clash>>

(* An exception, a deadlock victim or a dying server: fail() shows it. *)
Rollback(w) ==
    /\ tx[w] # Idle
    /\ Close(w)
    /\ UNCHANGED <<dbVars, page, loading, clash>>

(* The new rows take the next ids. *)
Insert(d, new, n) ==
    /\ inserted' = inserted + Cardinality(new)
    /\ inserted' <= MaxRows
    /\ \E f \in Bijection(new, (inserted + 1)..inserted') : rows' = Inserted(rows, f, d, n)

NewDeliveryUnset == "UNSET"  \* mutant: the builder sets no status

(* DeliveryRequest.newDelivery. *)
NewDelivery == "REQUESTED"

(* A row for every order item of the page, without a link to it. *)
CommitAddDelivery(w) ==
    /\ tx[w] # Idle /\ tx[w].op = "addDelivery"
    /\ status' = [status EXCEPT ![tx[w].delivery] = NewDelivery]
    /\ Insert(tx[w].delivery, Items, Ordered)
    /\ Reload(w)

CommitAddItem(w) ==
    /\ tx[w] # Idle /\ tx[w].op = "addItem"
    /\ Insert(tx[w].delivery, {tx[w].item}, tx[w].count)
    /\ UNCHANGED status
    /\ Reload(w)

(* A row that is gone by now fails the flush. *)
CommitDeleteItem(w) ==
    /\ tx[w] # Idle /\ tx[w].op = "deleteItem"
    /\ Present(tx[w].row)
    /\ rows' = [rows EXCEPT ![tx[w].row] = Absent]
    /\ UNCHANGED <<status, inserted>>
    /\ Reload(w)

CommitModifyCount(w) ==
    /\ tx[w] # Idle /\ tx[w].op = "modifyCount"
    /\ IF tx[w].dirty
          THEN /\ Present(tx[w].row)
               /\ rows' = [rows EXCEPT ![tx[w].row].count = tx[w].count]
          ELSE UNCHANGED rows
    /\ UNCHANGED <<status, inserted>>
    /\ Reload(w)

CommitDelivery(w) ==
    /\ tx[w] # Idle /\ tx[w].op = "modifyStatus"
    /\ status' = IF tx[w].dirty THEN [status EXCEPT ![tx[w].delivery] = tx[w].status]
                                ELSE status
    /\ UNCHANGED <<rows, inserted>>
    /\ ShowSaved(w)

-----------------------------------------------------------------------------
Submit(w, t) ==
    \/ \E item \in Items, n \in Counts : BeginAddItem(w, t, item, n)
    \/ \E i \in Ids : BeginDeleteItem(w, t, i)
    \/ \E i \in Ids, n \in Counts : BeginModifyCount(w, t, i, n)
    \/ \E s \in AdminStatuses : BeginUpdateStatus(w, t, s)

SubmitElsewhere(w, d) ==
    BeginUpdateDetails(w, d) \/ BeginDeleteDelivery(w, d) \/ BeginAddDelivery(w, d)

Commit(w) ==
    \/ CommitAddDelivery(w)
    \/ CommitAddItem(w)
    \/ CommitDeleteItem(w)
    \/ CommitModifyCount(w)
    \/ CommitDelivery(w)

Next ==
    \/ \E t \in Tabs, d \in Deliveries : OpenDelivery(t, d) \/ Show(t, d)
    \/ \E w \in Workers, t \in Tabs : Submit(w, t)
    \/ \E w \in Workers, d \in Deliveries : SubmitElsewhere(w, d)
    \/ \E w \in Workers : Commit(w) \/ Rollback(w)

Spec == Init /\ [][Next]_vars

-----------------------------------------------------------------------------
(* The tables, the pages and the transactions hold values of their types.  *)
TypeOK ==
    /\ status \in [Deliveries -> Status \union {"none"}]
    /\ rows \in [Ids -> Row \union {Absent}]
    /\ inserted \in 0..MaxRows
    /\ page \in [Tabs -> Page]
    /\ loading \in [Tabs -> SUBSET (Deliveries \union {NoDelivery})]
    /\ tx \in [Workers -> Transaction \union {Idle}]
    /\ clash \subseteq Deliveries

(* A delivery holds an item once, as long as no two requests were open on  *)
(* it at the same time, whatever stale or late answers the tabs work from  *)
(* and whatever happens to other deliveries (addDeliveryItem 171-172).     *)
OneRowPerItem ==
    \A d \in Deliveries \ clash : \A i, j \in RowsOf(d) :
        rows[i].item = rows[j].item => i = j

(* What a delivery that has left holds is neither removed nor changed,     *)
(* although the buttons of its rows stay on every page that drew them      *)
(* before (deleteDeliveryItem 192, modifyDeliveryItemCount 210).           *)
FrozenOnceShipped ==
    [][\A i \in Ids : Present(i) => LET d == rows[i].delivery
        IN  status[d] # "REQUESTED" /\ d \notin clash => rows'[i] = rows[i]]_vars

(* A row is changed only by a request addressed to its own delivery, even  *)
(* when a late answer shows another delivery's rows under the open one     *)
(* (findByDeliveryIdAndId).                                                *)
OwnDelivery ==
    [][\A i \in Ids : Present(i) /\ rows'[i] # rows[i] =>
        \E w \in Workers : On(w, rows[i].delivery) /\ tx'[w] = Idle]_vars
=============================================================================
