----------------------------- MODULE ItemDisplays -----------------------------
(***************************************************************************)
(* An item on sale: the admin's display page (itemDisplay of admin/item.js) *)
(* and ItemDisplayService behind it, the detail images at the file store,  *)
(* and the listings of customers, which apply the events of the day:       *)
(* ItemService.findEventAndApplyEventPrice writes the row of the item and  *)
(* its price history in a GET.                                             *)
(*                                                                         *)
(* A listing is a transaction that flushes the whole rows as it read them; *)
(* one with several items is taken item by item.                           *)
(* Nothing in the schema keeps a master from having two displays; once it  *)
(* has, neither of them can be loaded (OneToOne on both sides).            *)
(***************************************************************************)
EXTENDS Integers, Sequences, SequencesExt, FiniteSets, FiniteSetsExt

CONSTANTS
    Masters,  \* item masters
    Prices,   \* prices a master may have or an admin may enter
    Ratio,    \* of the discount event, in percent
    Workers,  \* request threads that serve listings
    NoId,     \* the form is of no display
    MaxActs,  \* bound: what admin and customers begin
    MaxPending \* bound: requests of the page under way, of loads and of writes

ASSUME ItemAssumption ==
    /\ Prices \subseteq Nat \ {0} /\ Ratio \in 0..100 /\ MaxActs \in Nat /\ MaxPending \in Nat
    /\ NoId \notin Nat

VARIABLES
    price,    \* item_master.price
    display,  \* rows of item_display
    history,  \* rows of item_display_price_history of a display
    event,    \* displays on event today
    store,    \* detail images at the file store
    tx,       \* open listing of a thread
    page,     \* the master the page was opened for
    form,     \* the id in the form
    loading,  \* loads under way, by their master
    saving,   \* writes under way
    lost,     \* history: has an answer failed since the page was opened
    hasty,    \* history: has the admin gone on without waiting for an answer
    retried,  \* history: or pressed a button after one that failed
    made,     \* history: the master a display was made for
    entered,  \* history: displays whose price the admin has entered since it was last listed
    drifted,  \* history: displays whose price had another cause before a listing of it ended
    acts      \* what admin and customers have begun

pageVars == <<page, form, loading, saving, lost, hasty, retried>>
dbVars == <<price, display, history, event, store>>
ghosts == <<made, entered, drifted>>
vars == <<dbVars, tx, pageVars, ghosts, acts>>

Ids == 1..MaxActs
Row == [master: Masters, price: Nat, image: Nat]
PriceRow == [seq: Nat, price: Nat]
Write == [op: {"save", "update", "delete"}, master: Masters, id: Ids \union {NoId},
          price: Prices \union {0}, image: Nat]
Idle == [id |-> NoId]
NoMaster == <<>>

-----------------------------------------------------------------------------
Init ==
    /\ price \in [Masters -> Prices]
    /\ display = <<>> /\ history = <<>> /\ made = <<>>
    /\ event = {} /\ store = {}
    /\ tx = [w \in Workers |-> Idle]
    /\ page = NoMaster /\ form = NoId /\ loading = <<>> /\ saving = <<>>
    /\ lost = FALSE /\ hasty = FALSE /\ retried = FALSE
    /\ entered = {} /\ drifted = {}
    /\ acts = 0

Act == acts < MaxActs /\ acts' = acts + 1

Displays == DOMAIN display
DisplaysOf(m) == {d \in Displays : display[d].master = m}

(* The OneToOne of a master with two displays cannot be fetched. *)
Loadable(m) == Cardinality(DisplaysOf(m)) <= 1

With(f, x, y) == [z \in DOMAIN f \union {x} |-> IF z = x THEN y ELSE f[z]]
Without(f, x) == [z \in DOMAIN f \ {x} |-> f[z]]

Listed(d) == \E w \in Workers : tx[w].id = d

-----------------------------------------------------------------------------
(***************************************************************************)
(* Customers.                                                              *)
(***************************************************************************)
EventPrice(d) ==
    LET p == price[display[d].master]
    IN  IF d \in event THEN p - (p * Ratio) \div 100 ELSE p

(* What findByItemIdOrderBySeqDesc may return first. *)
TopRows(d) == {r \in Range(history[d]) : \A q \in Range(history[d]) : q.seq <= r.seq}

NewRowsSameSeq(d, top) ==  \* mutant: nextSeq is the number of rows
    IF top.price = EventPrice(d) THEN <<>>
       ELSE <<[seq |-> Len(history[d]), price |-> EventPrice(d)]>>

NewRows(d, top) ==
    IF top.price = EventPrice(d) THEN <<>>
       ELSE <<[seq |-> Len(history[d]) + 1, price |-> EventPrice(d)]>>

BeginListing(w, d) ==
    /\ Act
    /\ tx[w] = Idle
    /\ Loadable(display[d].master)
    /\ \E top \in TopRows(d) :
        tx' = [tx EXCEPT ![w] = [id |-> d, row |-> [display[d] EXCEPT !.price = EventPrice(d)],
                                 add |-> NewRows(d, top)]]
    /\ UNCHANGED <<dbVars, pageVars, ghosts>>

CommitListing(w) ==
    /\ tx[w] # Idle /\ tx[w].id \in Displays
    /\ LET d == tx[w].id
       IN  /\ display' = [display EXCEPT ![d] = tx[w].row]
           /\ history' = [history EXCEPT ![d] = @ \o tx[w].add]
           /\ entered' = entered \ {d}
    /\ tx' = [tx EXCEPT ![w] = Idle]
    /\ UNCHANGED <<price, event, store, pageVars, made, drifted, acts>>

(* The row is gone when it is flushed, or the request fails. *)
Rollback(w) ==
    /\ tx[w] # Idle
    /\ tx' = [tx EXCEPT ![w] = Idle]
    /\ UNCHANGED <<dbVars, pageVars, ghosts, acts>>

-----------------------------------------------------------------------------
(***************************************************************************)
(* The admin's other pages.                                                *)
(***************************************************************************)

(* ItemMasterService.modifyItemMaster, an event that begins or ends.       *)
ModifyMaster(m, p) ==
    /\ Act
    /\ price[m] # p /\ Loadable(m)
    /\ price' = [price EXCEPT ![m] = p]
    /\ drifted' = drifted \union {d \in DisplaysOf(m) : Listed(d)}
    /\ UNCHANGED <<display, history, event, store, tx, pageVars, made, entered>>

ChangeEvent(d) ==
    /\ Act
    /\ event' = IF d \in event THEN event \ {d} ELSE event \union {d}
    /\ drifted' = drifted \union {e \in {d} : Listed(e)}
    /\ UNCHANGED <<price, display, history, store, tx, pageVars, made, entered>>

-----------------------------------------------------------------------------
(***************************************************************************)
(* The display page.                                                       *)
(***************************************************************************)
ClearFormNothing == form  \* mutant: load does not clear the form

ClearForm == NoId

Load(m) ==
    /\ form' = ClearForm
    /\ loading' = Append(loading, m)

Waits == loading = <<>> /\ saving = <<>>

(* init, by a row of the masters. *)
Open(m) ==
    /\ Act
    /\ Len(loading) < MaxPending
    /\ page' = m
    /\ Load(m)
    /\ lost' = FALSE
    /\ hasty' = (hasty \/ ~Waits)
    /\ UNCHANGED <<dbVars, tx, saving, retried, ghosts>>

(* done of load: an item without a display leaves the form as it is.      *)
Answer(k) ==
    /\ Loadable(loading[k])
    /\ loading' = RemoveAt(loading, k)
    /\ LET shown == DisplaysOf(loading[k])
       IN  form' \in IF shown = {} THEN {form} ELSE shown
    /\ UNCHANGED <<dbVars, tx, page, saving, lost, hasty, retried, ghosts, acts>>

(* fail of load, which any request may come to: the form stays empty.      *)
FailLoad(k) ==
    /\ loading' = RemoveAt(loading, k)
    /\ lost' = TRUE
    /\ UNCHANGED <<dbVars, tx, page, form, saving, hasty, retried, ghosts, acts>>

(* A button of the page; image is the file that is chosen, 0 for none.      *)
Press(op, p, chosen) ==
    /\ Act
    /\ page # NoMaster
    /\ op = "save" <=> form = NoId
    /\ op = "delete" <=> p = 0
    /\ op = "delete" => ~chosen
    /\ Len(saving) < MaxPending
    /\ saving' = Append(saving, [op |-> op, master |-> page, id |-> form, price |-> p,
                                 image |-> IF chosen THEN acts' ELSE 0])
    /\ hasty' = (hasty \/ ~Waits)
    /\ retried' = (retried \/ lost)
    /\ UNCHANGED <<dbVars, tx, page, form, loading, lost, ghosts>>

NextId == Cardinality(DOMAIN made) + 1

NoHistory(r) == <<>>  \* mutant: saveHistory is missing

FirstHistory(r) == <<[seq |-> 1, price |-> r.price]>>

(* ItemDisplayService.save: without an image, or for a master that cannot   *)
(* be loaded, it throws.                                                   *)
Save(r) ==
    /\ r.op = "save"
    /\ r.image # 0 /\ Loadable(r.master)
    /\ display' = With(display, NextId, [master |-> r.master, price |-> r.price, image |-> r.image])
    /\ history' = With(history, NextId, FirstHistory(r))
    /\ made' = With(made, NextId, r.master)
    /\ store' = store \union {r.image}
    /\ UNCHANGED <<price, event, entered, drifted>>

Found(r) == r.id \in Displays /\ Loadable(display[r.id].master)

(* The addresses uploadDetailImage may answer with: the one of the file,   *)
(* or none when there is no file or the store fails.                       *)
Uploaded(r) == {r.image, 0}

(* ItemDisplayService.modify: the old image is deleted before the new one  *)
(* is uploaded.  Failures of the store are logged: the row then keeps the  *)
(* address it has, and a file that is not deleted stays.                   *)
Modify(r) ==
    /\ r.op = "update"
    /\ Found(r)
    /\ \E up \in Uploaded(r), gone \in SUBSET {display[r.id].image} :
        /\ display' = [display EXCEPT ![r.id] =
                         [master |-> r.master, price |-> r.price,
                          image |-> IF up # 0 THEN up ELSE @.image]]
        /\ store' = (store \ gone) \union ({up} \ {0})
    /\ entered' = entered \union {r.id}
    /\ drifted' = IF Listed(r.id) /\ r.master # display[r.id].master
                    THEN drifted \union {r.id} ELSE drifted
    /\ UNCHANGED <<price, history, event, made>>

(* ItemDisplayService.deleteItemById: the rest of it cascades.             *)
DeleteItem(r) ==
    /\ r.op = "delete"
    /\ Found(r)
    /\ display' = Without(display, r.id)
    /\ history' = Without(history, r.id)
    /\ event' = event \ {r.id}
    /\ \E gone \in SUBSET {display[r.id].image} : store' = store \ gone
    /\ UNCHANGED <<price, made, entered, drifted>>

Written(r) == Save(r) \/ Modify(r) \/ DeleteItem(r)

(* The request is served, and done loads the page's master.                *)
Serve(k) ==
    /\ saving' = RemoveAt(saving, k)
    /\ Written(saving[k])
    /\ Load(page)
    /\ UNCHANGED <<tx, page, lost, hasty, retried, acts>>

(* It is served, and its answer lost: fail shows a message.                *)
LoseAnswer(k) ==
    /\ saving' = RemoveAt(saving, k)
    /\ Written(saving[k])
    /\ lost' = TRUE
    /\ UNCHANGED <<tx, page, form, loading, hasty, retried, acts>>

(* It throws, or its transaction does not commit: by then the old image    *)
(* may be deleted and the new one uploaded.                                *)
Refuse(k) ==
    /\ saving' = RemoveAt(saving, k)
    /\ LET r == saving[k]
           old == IF r.op # "save" /\ Found(r) THEN {display[r.id].image} ELSE {}
       IN  \E gone \in SUBSET old, up \in SUBSET ({r.image} \ {0}) :
               store' = (store \ gone) \union up
    /\ UNCHANGED <<price, display, history, event, tx, page, form, loading, lost, hasty, retried,
                   ghosts, acts>>

Next ==
    \/ \E w \in Workers :
        \/ \E d \in Displays : BeginListing(w, d)
        \/ CommitListing(w)
        \/ Rollback(w)
    \/ \E m \in Masters : Open(m) \/ \E p \in Prices : ModifyMaster(m, p)
    \/ \E d \in Displays : ChangeEvent(d)
    \/ \E k \in DOMAIN loading : Answer(k) \/ FailLoad(k)
    \/ \E op \in {"save", "update", "delete"}, p \in Prices \union {0}, chosen \in BOOLEAN : Press(op, p, chosen)
    \/ \E k \in DOMAIN saving : Serve(k) \/ LoseAnswer(k) \/ Refuse(k)

Spec == Init /\ [][Next]_vars

-----------------------------------------------------------------------------
(* Rows, listings, form and requests have values of their types; every     *)
(* display has a price history, and an event discounts what exists.        *)
TypeOK ==
    /\ price \in [Masters -> Prices]
    /\ Displays \subseteq Ids /\ \A d \in Displays : display[d] \in Row
    /\ DOMAIN history = Displays
    /\ \A d \in Displays : history[d] # <<>> /\ history[d] \in Seq(PriceRow)
    /\ event \subseteq Displays /\ store \subseteq Nat
    /\ \A w \in Workers : tx[w] = Idle \/ /\ tx[w].id \in Ids /\ tx[w].row \in Row
                                          /\ tx[w].add \in Seq(PriceRow)
    /\ page \in Masters \union {NoMaster} /\ form \in Ids \union {NoId}
    /\ loading \in Seq(Masters) /\ saving \in Seq(Write)
    /\ lost \in BOOLEAN /\ hasty \in BOOLEAN /\ retried \in BOOLEAN
    /\ DOMAIN made \subseteq Ids /\ Displays \subseteq DOMAIN made
    /\ entered \union drifted \subseteq Ids
    /\ acts \in 0..MaxActs

(* An admin who waits for every answer, and opens the page again after one *)
(* that failed, never makes a second display of a master nor gives one to  *)
(* another master - either makes an item impossible to load - although     *)
(* listings write whole rows meanwhile (itemDisplay.load, save, update).   *)
OneDisplayPerMaster ==
    ~hasty /\ ~retried =>
        /\ \A m \in Masters : Loadable(m)
        /\ \A d \in Displays : display[d].master = made[d]

(* The last row of an item's price history says what it is sold at, even   *)
(* when listings overlap and number their rows alike, unless the admin     *)
(* entered a price, or the master's price, the event or the master itself  *)
(* changed during a listing (save, findEventAndApplyEventPrice).           *)
HistoryExplainsPrice ==
    \A d \in Displays \ (entered \union drifted) :
        \A r \in TopRows(d) : r.price = display[d].price
=============================================================================
