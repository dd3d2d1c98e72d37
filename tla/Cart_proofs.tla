----------------------------- MODULE Cart_proofs ------------------------------
(***************************************************************************)
(* TypeOK, OneRowPerOption, OrderedOnce and ChargedAsOrdered for any        *)
(* number of members, tabs, options and rows.                              *)
(*                                                                         *)
(* The argument: an id is given once, so a row that is gone stays gone and *)
(* a row that is there was never ordered; an insert that met no other one  *)
(* still finds no row of its option when it commits; and on an order page  *)
(* the count of a row is that of the table for as long as no other tab has *)
(* changed it, because the page itself sends nothing but the order.        *)
(***************************************************************************)
EXTENDS Cart, TLAPS

(* What an update writes is a count a row may have. *)
CountsPositive ==
    \A t \in Tabs : tx[t].op \in {"add", "modify"} => tx[t].count \in 1..MaxCount

(* An insert that met no other one is the only one of its option and finds *)
(* no row of it.                                                           *)
InsertAlone ==
    \A o \in Options \ clash : \A t, u \in Tabs :
        Inserting(t, o) /\ Inserting(u, o) => t = u

InsertFree ==
    \A o \in Options \ clash : \A t \in Tabs : Inserting(t, o) => RowsOf(o) = {}

(* Ids that were not given yet have no row, are on no page and in no order. *)
Fresh ==
    \A i \in Ids : i > inserted =>
        /\ ~Present(i)
        /\ ordered[i].times = 0
        /\ \A t \in Tabs : form[t][i] = 0

(* A row that is there was not ordered, and nothing is said of it yet. *)
NotYetOrdered ==
    \A i \in Ids : /\ Present(i) => ordered[i].times = 0
                   /\ ordered[i].times = 0 => ordered[i].exact

(* An order is of the rows of its page. *)
OrderOfItsPage ==
    \A t \in Tabs : tx[t].op = "order" =>
        tx[t].rows = Rows(form[t]) /\ form[t] # NoRows

(* An order page of a member who waited sends nothing else. *)
PageWaits ==
    \A t \in Tabs \ hurried : form[t] # NoRows => tx[t].op \in {"idle", "order"}

(* What is charged is what the row holds, and what the order has read. *)
FormCurrent ==
    \A t \in Tabs \ hurried : \A i \in Ids :
        form[t][i] > 0 /\ changers[i] \subseteq {t} =>
            /\ Present(i) => form[t][i] = cart[i].count
            /\ tx[t].op = "order" => form[t][i] = tx[t].read[i]

IInv ==
    /\ TypeOK /\ CountsPositive
    /\ InsertAlone /\ InsertFree /\ OneRowPerOption
    /\ Fresh /\ NotYetOrdered /\ OrderedOnce
    /\ OrderOfItsPage /\ PageWaits /\ FormCurrent /\ ChargedAsOrdered

-----------------------------------------------------------------------------
(***************************************************************************)
(* Facts about rows and requests.                                          *)
(***************************************************************************)

(* A row that is there has all its columns. *)
LEMMA PresentRow ==
    ASSUME TypeOK, NEW i \in Ids
    PROVE  /\ Present(i) <=> cart[i] \in Row
           /\ cart[i] \in Row => cart[i].count \in 1..MaxCount /\ cart[i].option \in Options
  BY DEF TypeOK, Present, Absent, Row

(* A tab has a request under way or is idle. *)
LEMMA RequestOrIdle ==
    ASSUME TypeOK, NEW t \in Tabs
    PROVE  /\ tx[t] = Idle \/ tx[t] \in Transaction
           /\ tx[t] = Idle <=> tx[t].op = "idle"
           /\ tx[t].op \in {"idle", "add", "modify", "delete", "order"}
           /\ tx[t].op # "idle" => tx[t] \in Transaction
<1>1. tx[t] = Idle \/ tx[t] \in Transaction
  BY DEF TypeOK
<1>2. Idle.op = "idle"
  BY DEF Idle
<1>3. \A r \in Transaction : r.op \in {"add", "modify", "delete", "order"}
  BY DEF Transaction
<1> QED
  BY <1>1, <1>2, <1>3

(* The counts a page or an order reads are counts. *)
LEMMA ReadCountsType ==
    ASSUME TypeOK, NEW S \in SUBSET Ids
    PROVE  /\ ReadCounts(S) \in [Ids -> Counts]
           /\ NoRows \in [Ids -> Counts]
<1>1. MaxCount \in Nat \ {0} /\ 0 \in Counts /\ 1..MaxCount \subseteq Counts
  BY CartAssumption DEF Counts
<1>2. ASSUME NEW i \in Ids
      PROVE  (IF i \in S /\ Present(i) THEN cart[i].count ELSE 0) \in Counts
  BY <1>1, PresentRow
<1> QED
  BY <1>1, <1>2 DEF ReadCounts, NoRows

(* A request of the rows S is one of the transactions there are. *)
LEMMA RequestType ==
    ASSUME TypeOK, NEW op \in {"add", "modify", "delete", "order"},
           NEW S \in SUBSET Ids, Options # {}
    PROVE  /\ Request(op, S) \in Transaction
           /\ Request(op, S).op = op /\ Request(op, S).rows = S
           /\ op = "order" => Request(op, S).read = ReadCounts(S)
<1>1. AnOption \in Options
  BY DEF AnOption
<1>2. 0 \in Counts
  BY CartAssumption DEF Counts
<1>3. (IF op = "order" THEN ReadCounts(S) ELSE NoRows) \in [Ids -> Counts]
  BY ReadCountsType
<1> QED
  BY <1>1, <1>2, <1>3 DEF Request, Transaction

-----------------------------------------------------------------------------
LEMMA InitIInv == Init => IInv
<1> SUFFICES ASSUME Init PROVE IInv
  OBVIOUS
<1>1. \A t \in Tabs : tx[t] = Idle /\ tx[t].op = "idle" /\ form[t] = NoRows
  BY DEF Init, Idle
<1>2. /\ \A i \in Ids : ~Present(i)
      /\ \A i \in Ids : ordered[i].times = 0 /\ ordered[i].exact
      /\ \A t \in Tabs, i \in Ids : form[t][i] = 0
  BY DEF Init, Present, NoRows
<1>3. TypeOK
  <2>1. NoRows \in [Ids -> Counts]
    BY CartAssumption DEF NoRows, Counts
  <2>2. inserted \in 0..MaxRows
    BY CartAssumption DEF Init
  <2> QED
    BY <2>1, <2>2 DEF Init, TypeOK
<1>4. \A o \in Options : RowsOf(o) = {} /\ \A t \in Tabs : ~Inserting(t, o)
  BY <1>1, <1>2 DEF RowsOf, Inserting
<1>5. CountsPositive /\ InsertAlone /\ InsertFree /\ OneRowPerOption
  BY <1>1, <1>4 DEF CountsPositive, InsertAlone, InsertFree, OneRowPerOption
<1>6. Fresh /\ NotYetOrdered /\ OrderedOnce
  BY <1>2 DEF Fresh, NotYetOrdered, OrderedOnce
<1>7. OrderOfItsPage /\ PageWaits /\ FormCurrent /\ ChargedAsOrdered
  BY <1>1, <1>2 DEF OrderOfItsPage, PageWaits, FormCurrent, ChargedAsOrdered
<1> QED
  BY <1>3, <1>5, <1>6, <1>7 DEF IInv

-----------------------------------------------------------------------------
(***************************************************************************)
(* The pages.                                                              *)
(***************************************************************************)

(* What speaks of rows, inserts and orders only is kept by the pages. *)
LEMMA PageStep ==
    ASSUME IInv, UNCHANGED <<owner, cart, inserted, tx, ordered, changers, clash>>,
           hurried \subseteq hurried'
    PROVE  /\ CountsPositive' /\ InsertAlone' /\ InsertFree' /\ OneRowPerOption'
           /\ NotYetOrdered' /\ OrderedOnce' /\ ChargedAsOrdered'
<1>1. \A o \in Options : RowsOf(o)' = RowsOf(o)
  BY DEF RowsOf, Present
<1>2. InsertAlone' /\ InsertFree' /\ OneRowPerOption'
  BY <1>1 DEF IInv, InsertAlone, InsertFree, OneRowPerOption, Inserting
<1>3. CountsPositive' /\ NotYetOrdered' /\ OrderedOnce'
  BY DEF IInv, CountsPositive, NotYetOrdered, OrderedOnce, Present
<1>4. ChargedAsOrdered'
  BY DEF IInv, ChargedAsOrdered
<1> QED
  BY <1>2, <1>3, <1>4

LEMMA PressOrderIInv ==
    ASSUME IInv, NEW t \in Tabs, NEW S \in SUBSET Ids, PressOrder(t, S)
    PROVE  IInv'
<1>1. /\ form[t] = NoRows /\ S \subseteq CartOf(owner[t])
      /\ form' = [form EXCEPT ![t] = ReadCounts(S)]
      /\ hurried' = IF tx[t] = Idle THEN hurried ELSE hurried \union {t}
      /\ UNCHANGED <<owner, cart, inserted, tx, ordered, changers, clash>>
  BY DEF PressOrder, OnShopPage
<1>2. /\ TypeOK /\ form \in [Tabs -> [Ids -> Counts]]
      /\ ReadCounts(S) \in [Ids -> Counts]
  BY ReadCountsType DEF IInv, TypeOK
<1>3. hurried \subseteq hurried' /\ hurried' \subseteq Tabs
  BY <1>1, <1>2 DEF TypeOK
<1>4. TypeOK'
  BY <1>1, <1>2, <1>3 DEF TypeOK
<1>5. \A u \in Tabs \ {t} : form'[u] = form[u]
  BY <1>1, <1>2
<1>6. form'[t] = ReadCounts(S)
  BY <1>1, <1>2
<1>7. tx[t].op # "order"
  BY <1>1 DEF IInv, OrderOfItsPage
<1>8. Fresh'
  <2> SUFFICES ASSUME NEW i \in Ids, i > inserted, NEW u \in Tabs
               PROVE  form'[u][i] = 0
    BY <1>1 DEF IInv, Fresh, Present
  <2>1. ~Present(i) /\ form[u][i] = 0
    BY DEF IInv, Fresh
  <2>2. ReadCounts(S)[i] = 0
    BY <2>1 DEF ReadCounts
  <2> QED
    BY <1>5, <1>6, <2>1, <2>2
<1>9. OrderOfItsPage'
  BY <1>1, <1>5, <1>7 DEF IInv, OrderOfItsPage, Rows
<1>10. t \notin hurried' => tx[t].op = "idle"
  BY <1>1, <1>2, RequestOrIdle
<1>11. PageWaits'
  BY <1>1, <1>3, <1>5, <1>10 DEF IInv, PageWaits
<1>12. FormCurrent'
  <2> SUFFICES ASSUME NEW u \in Tabs \ hurried', NEW i \in Ids,
                      form'[u][i] > 0, changers[i] \subseteq {u}
               PROVE  /\ Present(i) => form'[u][i] = cart[i].count
                      /\ tx[u].op = "order" => form'[u][i] = tx[u].read[i]
    BY <1>1 DEF FormCurrent, Present
  <2>1. CASE u = t
    BY <1>6, <1>7, <2>1 DEF ReadCounts
  <2>2. CASE u # t
    BY <1>3, <1>5, <2>2 DEF IInv, FormCurrent
  <2> QED
    BY <2>1, <2>2
<1> QED
  BY <1>1, <1>3, <1>4, <1>8, <1>9, <1>11, <1>12, PageStep DEF IInv

(* The page of a tab that sends no order is left. *)
LEMMA PageLeft ==
    ASSUME IInv, NEW t \in Tabs, tx[t].op # "order",
           form' = [form EXCEPT ![t] = NoRows],
           UNCHANGED <<owner, cart, inserted, tx, ordered, changers, hurried, clash>>
    PROVE  IInv'
<1>1. form \in [Tabs -> [Ids -> Counts]] /\ NoRows \in [Ids -> Counts] /\ TypeOK
  BY ReadCountsType DEF IInv, TypeOK
<1>2. TypeOK'
  BY <1>1 DEF TypeOK
<1>3. /\ \A u \in Tabs \ {t} : form'[u] = form[u]
      /\ form'[t] = NoRows /\ \A i \in Ids : form'[t][i] = 0
  BY <1>1 DEF NoRows
<1>4. Fresh'
  BY <1>3 DEF IInv, Fresh, Present
<1>5. OrderOfItsPage'
  BY <1>3 DEF IInv, OrderOfItsPage, Rows
<1>6. PageWaits'
  BY <1>3 DEF IInv, PageWaits
<1>7. FormCurrent'
  BY <1>3 DEF IInv, FormCurrent, Present
<1> QED
  BY <1>2, <1>4, <1>5, <1>6, <1>7, PageStep DEF IInv

LEMMA LeaveOrderIInv ==
    ASSUME IInv, NEW t \in Tabs, LeaveOrder(t)
    PROVE  IInv'
  BY PageLeft DEF LeaveOrder, historyVars

-----------------------------------------------------------------------------
(***************************************************************************)
(* The beginning of a request.                                             *)
(***************************************************************************)

(* A request whose read is true of the rows and of the page that sends it. *)
LEMMA OpenIInv ==
    ASSUME IInv, NEW t \in Tabs, NEW r \in Transaction, Open(t, r),
           clash \subseteq clash', clash' \subseteq Options,
           r.op \in {"add", "modify"} => r.count \in 1..MaxCount,
           form[t] # NoRows => r.op = "order",
           r.op = "order" => /\ form[t] # NoRows /\ r.rows = Rows(form[t])
                             /\ \A i \in Rows(form[t]) :
                                    Present(i) /\ r.read[i] = cart[i].count,
           r.op = "add" /\ r.rows = {} /\ r.option \notin clash' =>
               RowsOf(r.option) = {} /\ \A u \in Tabs : ~Inserting(u, r.option)
    PROVE  IInv'
<1>1. /\ tx[t] = Idle /\ tx' = [tx EXCEPT ![t] = r]
      /\ UNCHANGED <<owner, cart, inserted, form, ordered, changers, hurried>>
  BY DEF Open, historyVars
<1>2. TypeOK /\ tx \in [Tabs -> Transaction \union {Idle}]
  BY DEF IInv, TypeOK
<1>3. tx'[t] = r /\ \A u \in Tabs \ {t} : tx'[u] = tx[u]
  BY <1>1, <1>2
<1>4. TypeOK'
  BY <1>1, <1>2 DEF TypeOK
<1>5. CountsPositive'
  BY <1>3 DEF IInv, CountsPositive
<1>6. \A o \in Options : RowsOf(o)' = RowsOf(o)
  BY <1>1 DEF RowsOf, Present
<1>7. OneRowPerOption'
  BY <1>6 DEF IInv, OneRowPerOption
<1>8. /\ \A u \in Tabs \ {t}, o \in Options : Inserting(u, o)' <=> Inserting(u, o)
      /\ \A o \in Options : Inserting(t, o)' <=> r.op = "add" /\ r.option = o /\ r.rows = {}
  BY <1>3 DEF Inserting
<1>9. InsertAlone'
  <2> SUFFICES ASSUME NEW o \in Options \ clash', NEW u \in Tabs, NEW v \in Tabs,
                      Inserting(u, o)', Inserting(v, o)'
               PROVE  u = v
    BY DEF InsertAlone
  <2>1. CASE u = t /\ v # t
    BY <1>8, <2>1
  <2>2. CASE v = t /\ u # t
    BY <1>8, <2>2
  <2>3. CASE u # t /\ v # t
    BY <1>8, <2>3 DEF IInv, InsertAlone
  <2> QED
    BY <2>1, <2>2, <2>3
<1>10. InsertFree'
  BY <1>6, <1>8 DEF IInv, InsertFree
<1>11. Fresh' /\ NotYetOrdered' /\ OrderedOnce'
  BY <1>1 DEF IInv, Fresh, NotYetOrdered, OrderedOnce, Present
<1>12. OrderOfItsPage'
  BY <1>1, <1>3 DEF IInv, OrderOfItsPage, Rows
<1>13. PageWaits'
  BY <1>1, <1>3 DEF IInv, PageWaits
<1>14. FormCurrent'
  <2> SUFFICES ASSUME NEW u \in Tabs \ hurried, NEW i \in Ids,
                      form[u][i] > 0, changers[i] \subseteq {u}
               PROVE  /\ Present(i) => form[u][i] = cart[i].count
                      /\ tx'[u].op = "order" => form[u][i] = tx'[u].read[i]
    BY <1>1 DEF FormCurrent, Present
  <2>1. Present(i) => form[u][i] = cart[i].count
    BY DEF IInv, FormCurrent
  <2>2. CASE u = t
    <3>1. i \in Rows(form[t])
      BY <2>2 DEF Rows
    <3> QED
      BY <1>3, <2>1, <2>2, <3>1
  <2>3. CASE u # t
    BY <1>3, <2>1, <2>3 DEF IInv, FormCurrent
  <2> QED
    BY <2>2, <2>3
<1>15. ChargedAsOrdered'
  BY <1>1 DEF IInv, ChargedAsOrdered
<1> QED
  BY <1>4, <1>5, <1>7, <1>9, <1>10, <1>11, <1>12, <1>13, <1>14, <1>15 DEF IInv

LEMMA BeginAddIInv ==
    ASSUME IInv, NEW t \in Tabs, NEW o \in Options, NEW n \in AdjustedCounts,
           BeginAdd(t, o, n)
    PROVE  IInv'
<1> DEFINE S == Found(o)
           c == n + (IF S = {} THEN 0 ELSE cart[CHOOSE i \in S : TRUE].count)
           r == [Request("add", S) EXCEPT !.option = o, !.count = c]
<1>1. /\ form[t] = NoRows /\ c <= MaxCount /\ Open(t, r)
      /\ clash' = IF S = {} /\ \E u \in Tabs : Inserting(u, o)
                     THEN clash \union {o} ELSE clash
  BY DEF BeginAdd, OnShopPage
<1>2. TypeOK /\ S \in SUBSET Ids /\ S = RowsOf(o) /\ clash \subseteq Options
  BY DEF IInv, TypeOK, Found, RowsOf
<1>3. \A i \in S : cart[i].count \in 1..MaxCount
  BY <1>2, PresentRow DEF RowsOf
<1>4. c \in 1..MaxCount
  <2>1. S # {} => (CHOOSE i \in S : TRUE) \in S
    OBVIOUS
  <2> QED
    BY <1>1, <1>3, <2>1, CartAssumption DEF AdjustedCounts
<1>5. /\ Request("add", S) \in Transaction
      /\ Request("add", S).op = "add" /\ Request("add", S).rows = S
  BY <1>2, RequestType
<1>6. c \in Counts
  BY <1>4, CartAssumption DEF Counts
<1> HIDE DEF c
<1>7. /\ r \in Transaction
      /\ r.op = "add" /\ r.rows = S /\ r.option = o /\ r.count = c
  BY <1>5, <1>6 DEF Transaction
<1>8. S = {} /\ o \notin clash' => RowsOf(o) = {} /\ \A u \in Tabs : ~Inserting(u, o)
  BY <1>1, <1>2
<1>9. clash \subseteq clash' /\ clash' \subseteq Options
  BY <1>1, <1>2
<1> HIDE DEF r, S
<1> QED
  BY <1>1, <1>4, <1>7, <1>8, <1>9, OpenIInv

LEMMA BeginModifyIInv ==
    ASSUME IInv, NEW t \in Tabs, NEW i \in Ids, NEW n \in AdjustedCounts,
           BeginModify(t, i, n)
    PROVE  IInv'
<1> DEFINE r == [Request("modify", {i}) EXCEPT !.count = n]
<1>1. /\ form[t] = NoRows /\ Present(i) /\ Open(t, r) /\ clash' = clash
  BY DEF BeginModify, OnShopPage, CartOf
<1>2. TypeOK /\ clash \subseteq Options /\ Options # {}
  BY <1>1, PresentRow DEF IInv, TypeOK
<1>3. /\ Request("modify", {i}) \in Transaction
      /\ Request("modify", {i}).op = "modify"
  BY <1>2, RequestType
<1>4. n \in 1..MaxCount /\ n \in Counts
  BY CartAssumption DEF AdjustedCounts, Counts
<1>5. r \in Transaction /\ r.op = "modify" /\ r.count = n
  BY <1>3, <1>4 DEF Transaction
<1> HIDE DEF r
<1> QED
  BY <1>1, <1>2, <1>4, <1>5, OpenIInv

LEMMA BeginDeleteIInv ==
    ASSUME IInv, NEW t \in Tabs, NEW i \in Ids, BeginDelete(t, i)
    PROVE  IInv'
<1> DEFINE r == Request("delete", {i})
<1>1. /\ form[t] = NoRows /\ Present(i) /\ Open(t, r) /\ clash' = clash
  BY DEF BeginDelete, OnShopPage, CartOf
<1>2. TypeOK /\ clash \subseteq Options /\ Options # {}
  BY <1>1, PresentRow DEF IInv, TypeOK
<1>3. r \in Transaction /\ r.op = "delete"
  BY <1>2, RequestType
<1> HIDE DEF r
<1> QED
  BY <1>1, <1>2, <1>3, OpenIInv

LEMMA BeginOrderIInv ==
    ASSUME IInv, NEW t \in Tabs, BeginOrder(t)
    PROVE  IInv'
<1> DEFINE S == Rows(form[t])
           r == Request("order", S)
<1>1. S # {} /\ (\A i \in S : Present(i)) /\ Open(t, r) /\ clash' = clash
  BY DEF BeginOrder, AllThere
<1>2. TypeOK /\ clash \subseteq Options /\ S \in SUBSET Ids
  BY DEF IInv, TypeOK, Rows
<1>3. Options # {}
  BY <1>1, <1>2, PresentRow
<1>4. r \in Transaction /\ r.op = "order" /\ r.rows = S /\ r.read = ReadCounts(S)
  BY <1>2, <1>3, RequestType
<1>5. form[t] # NoRows
  BY <1>1 DEF Rows, NoRows
<1>6. \A i \in S : r.read[i] = cart[i].count
  BY <1>1, <1>2, <1>4 DEF ReadCounts
<1> HIDE DEF r
<1> QED
  BY <1>1, <1>2, <1>4, <1>5, <1>6, OpenIInv

-----------------------------------------------------------------------------
(***************************************************************************)
(* The end of a request.                                                   *)
(***************************************************************************)

(* The other requests go on. *)
LEMMA Closed ==
    ASSUME IInv, NEW t \in Tabs, tx' = [tx EXCEPT ![t] = Idle], clash' = clash
    PROVE  /\ tx' \in [Tabs -> Transaction \union {Idle}]
           /\ tx'[t] = Idle /\ tx'[t].op = "idle"
           /\ \A u \in Tabs \ {t} : tx'[u] = tx[u]
           /\ \A u \in Tabs, o \in Options : Inserting(u, o)' => u # t /\ Inserting(u, o)
           /\ CountsPositive' /\ InsertAlone'
<1>1. tx \in [Tabs -> Transaction \union {Idle}]
  BY DEF IInv, TypeOK
<1>2. /\ tx' \in [Tabs -> Transaction \union {Idle}]
      /\ tx'[t] = Idle /\ tx'[t].op = "idle"
      /\ \A u \in Tabs \ {t} : tx'[u] = tx[u]
  BY <1>1 DEF Idle
<1>3. \A u \in Tabs, o \in Options : Inserting(u, o)' => u # t /\ Inserting(u, o)
  BY <1>2 DEF Inserting
<1>4. CountsPositive'
  BY <1>2 DEF IInv, CountsPositive
<1>5. InsertAlone'
  BY <1>3 DEF IInv, InsertAlone
<1> QED
  BY <1>2, <1>3, <1>4, <1>5

LEMMA RollbackIInv ==
    ASSUME IInv, NEW t \in Tabs, Rollback(t)
    PROVE  IInv'
<1>1. /\ tx' = [tx EXCEPT ![t] = Idle]
      /\ form' = IF tx[t].op = "order" THEN [form EXCEPT ![t] = NoRows] ELSE form
      /\ UNCHANGED <<owner, cart, inserted, ordered, changers, hurried, clash>>
  BY DEF Rollback, historyVars
<1>2. /\ form \in [Tabs -> [Ids -> Counts]] /\ NoRows \in [Ids -> Counts] /\ TypeOK
  BY ReadCountsType DEF IInv, TypeOK
<1>3. /\ tx' \in [Tabs -> Transaction \union {Idle}]
      /\ tx'[t].op = "idle"
      /\ \A u \in Tabs \ {t} : tx'[u] = tx[u]
      /\ \A u \in Tabs, o \in Options : Inserting(u, o)' => Inserting(u, o)
      /\ CountsPositive' /\ InsertAlone'
  BY <1>1, Closed
<1>4. /\ \A u \in Tabs \ {t} : form'[u] = form[u]
      /\ form'[t] = NoRows \/ form'[t] = form[t]
      /\ \A i \in Ids : NoRows[i] = 0
  BY <1>1, <1>2 DEF NoRows
<1>5. TypeOK'
  BY <1>1, <1>2, <1>3 DEF TypeOK
<1>6. \A o \in Options : RowsOf(o)' = RowsOf(o)
  BY <1>1 DEF RowsOf, Present
<1>7. InsertFree' /\ OneRowPerOption'
  BY <1>1, <1>3, <1>6 DEF IInv, InsertFree, OneRowPerOption
<1>8. NotYetOrdered' /\ OrderedOnce' /\ ChargedAsOrdered'
  BY <1>1 DEF IInv, NotYetOrdered, OrderedOnce, ChargedAsOrdered, Present
<1>9. Fresh'
  BY <1>1, <1>4 DEF IInv, Fresh, Present
<1>10. OrderOfItsPage'
  BY <1>3, <1>4 DEF IInv, OrderOfItsPage, Rows
<1>11. PageWaits'
  BY <1>1, <1>3, <1>4 DEF IInv, PageWaits
<1>12. FormCurrent'
  <2> SUFFICES ASSUME NEW u \in Tabs \ hurried, NEW i \in Ids,
                      form'[u][i] > 0, changers[i] \subseteq {u}
               PROVE  /\ Present(i) => form'[u][i] = cart[i].count
                      /\ tx'[u].op = "order" => form'[u][i] = tx'[u].read[i]
    BY <1>1 DEF FormCurrent, Present
  <2>1. form'[u][i] = form[u][i]
    BY <1>4
  <2> QED
    BY <1>3, <2>1 DEF IInv, FormCurrent
<1> QED
  BY <1>3, <1>5, <1>7, <1>8, <1>9, <1>10, <1>11, <1>12 DEF IInv

LEMMA CommitInsertIInv ==
    ASSUME IInv, NEW t \in Tabs, CommitInsert(t)
    PROVE  IInv'
<1> DEFINE n == inserted + 1
           row == [member |-> owner[t], option |-> tx[t].option, count |-> tx[t].count]
<1>1. /\ tx[t].op = "add" /\ tx[t].rows = {}
      /\ inserted < MaxRows /\ inserted' = n
      /\ cart' = [cart EXCEPT ![n] = row]
      /\ tx' = [tx EXCEPT ![t] = Idle]
      /\ UNCHANGED <<owner, form, ordered, changers, hurried, clash>>
  BY DEF CommitInsert, Done
<1>2. /\ TypeOK /\ cart \in [Ids -> Row \union {Absent}] /\ inserted \in Nat
      /\ tx[t] \in Transaction
  BY <1>1, RequestOrIdle, CartAssumption DEF IInv, TypeOK
<1>3. n \in Ids /\ n > inserted
  BY <1>1, <1>2, CartAssumption DEF Ids
<1>4. row \in Row /\ tx[t].option \in Options /\ row.option = tx[t].option
  BY <1>1, <1>2 DEF IInv, CountsPositive, TypeOK, Transaction, Row
<1>5. /\ tx' \in [Tabs -> Transaction \union {Idle}]
      /\ tx'[t].op = "idle"
      /\ \A u \in Tabs \ {t} : tx'[u] = tx[u]
      /\ \A u \in Tabs, o \in Options : Inserting(u, o)' => u # t /\ Inserting(u, o)
      /\ CountsPositive' /\ InsertAlone'
  BY <1>1, Closed
<1> HIDE DEF row
<1>6. /\ cart'[n] = row /\ \A i \in Ids \ {n} : cart'[i] = cart[i]
      /\ cart' \in [Ids -> Row \union {Absent}]
  BY <1>1, <1>2, <1>3, <1>4
<1>7. TypeOK'
  BY <1>1, <1>2, <1>3, <1>5, <1>6, CartAssumption DEF TypeOK, Ids
<1>8. ~Present(n) /\ ordered[n].times = 0 /\ \A u \in Tabs : form[u][n] = 0
  BY <1>3 DEF IInv, Fresh
<1>9. \A i \in Ids \ {n} : Present(i)' <=> Present(i)
  BY <1>6 DEF Present
<1>10. \A o \in Options : RowsOf(o)' \subseteq RowsOf(o) \union (IF o = tx[t].option THEN {n} ELSE {})
  BY <1>3, <1>4, <1>6, <1>9 DEF RowsOf
<1>11. Inserting(t, tx[t].option)
  BY <1>1 DEF Inserting
<1>12. OneRowPerOption'
  <2> SUFFICES ASSUME NEW o \in Options \ clash, NEW i \in RowsOf(o)', NEW j \in RowsOf(o)'
               PROVE  i = j
    BY <1>1 DEF OneRowPerOption
  <2>1. CASE o = tx[t].option
    BY <1>10, <1>11, <2>1 DEF IInv, InsertFree
  <2>2. CASE o # tx[t].option
    BY <1>10, <2>2 DEF IInv, OneRowPerOption
  <2> QED
    BY <2>1, <2>2
<1>13. InsertFree'
  <2> SUFFICES ASSUME NEW o \in Options \ clash, NEW u \in Tabs, Inserting(u, o)'
               PROVE  RowsOf(o)' = {}
    BY <1>1 DEF InsertFree
  <2>1. u # t /\ Inserting(u, o)
    BY <1>5
  <2>2. o # tx[t].option
    BY <1>11, <2>1 DEF IInv, InsertAlone
  <2> QED
    BY <1>10, <2>1, <2>2 DEF IInv, InsertFree
<1>14. Fresh'
  BY <1>1, <1>2, <1>3, <1>9 DEF IInv, Fresh, Ids
<1>15. NotYetOrdered'
  BY <1>1, <1>8, <1>9 DEF IInv, NotYetOrdered
<1>16. OrderedOnce' /\ ChargedAsOrdered'
  BY <1>1 DEF IInv, OrderedOnce, ChargedAsOrdered
<1>17. OrderOfItsPage' /\ PageWaits'
  BY <1>1, <1>5 DEF IInv, OrderOfItsPage, PageWaits, Rows
<1>18. FormCurrent'
  <2> SUFFICES ASSUME NEW u \in Tabs \ hurried, NEW i \in Ids,
                      form[u][i] > 0, changers[i] \subseteq {u}
               PROVE  /\ Present(i)' => form[u][i] = cart'[i].count
                      /\ tx'[u].op = "order" => form[u][i] = tx'[u].read[i]
    BY <1>1 DEF FormCurrent
  <2>1. i # n
    BY <1>8
  <2> QED
    BY <1>5, <1>6, <1>9, <2>1 DEF IInv, FormCurrent
<1> QED
  BY <1>5, <1>7, <1>12, <1>13, <1>14, <1>15, <1>16, <1>17, <1>18 DEF IInv

LEMMA CommitUpdateIInv ==
    ASSUME IInv, NEW t \in Tabs, CommitUpdate(t)
    PROVE  IInv'
<1> DEFINE S == tx[t].rows
           c == tx[t].count
<1>1. /\ tx[t].op \in {"add", "modify"} /\ S # {}
      /\ \A i \in S : Present(i)
      /\ cart' = [i \in Ids |-> IF i \in S THEN [cart[i] EXCEPT !.count = c] ELSE cart[i]]
      /\ changers' = [i \in Ids |-> IF i \in S THEN changers[i] \union {t} ELSE changers[i]]
      /\ tx' = [tx EXCEPT ![t] = Idle]
      /\ UNCHANGED <<owner, inserted, form, ordered, hurried, clash>>
  BY DEF CommitUpdate, StillThere, Changed, Done
<1>2. TypeOK /\ tx[t] \in Transaction /\ S \in SUBSET Ids /\ c \in 1..MaxCount
  BY <1>1, RequestOrIdle DEF IInv, CountsPositive, Transaction
<1>3. \A i \in S : cart[i] \in Row
  BY <1>1, <1>2, PresentRow
<1>4. /\ tx' \in [Tabs -> Transaction \union {Idle}]
      /\ tx'[t].op = "idle"
      /\ \A u \in Tabs \ {t} : tx'[u] = tx[u]
      /\ \A u \in Tabs, o \in Options : Inserting(u, o)' => Inserting(u, o)
      /\ CountsPositive' /\ InsertAlone'
  BY <1>1, Closed
<1> HIDE DEF S, c
<1>5. \A i \in Ids : /\ i \in S => cart'[i] \in Row /\ cart'[i].option = cart[i].option
                     /\ i \notin S => cart'[i] = cart[i]
  BY <1>1, <1>2, <1>3 DEF Row
<1>6. \A i \in Ids : Present(i)' <=> Present(i)
  <2> TAKE i \in Ids
  <2>1. \A r \in Row : r # Absent
    BY DEF Row, Absent
  <2> QED
    BY <1>1, <1>5, <2>1 DEF Present
<1>7. TypeOK'
  <2>1. cart' \in [Ids -> Row \union {Absent}]
    BY <1>1, <1>2, <1>5 DEF TypeOK
  <2>2. changers' \in [Ids -> SUBSET Tabs]
    BY <1>1, <1>2 DEF TypeOK
  <2> QED
    BY <1>1, <1>2, <1>4, <2>1, <2>2 DEF TypeOK
<1>8. \A o \in Options : RowsOf(o)' = RowsOf(o)
  BY <1>5, <1>6 DEF RowsOf
<1>9. InsertFree' /\ OneRowPerOption'
  BY <1>1, <1>4, <1>8 DEF IInv, InsertFree, OneRowPerOption
<1>10. Fresh' /\ NotYetOrdered' /\ OrderedOnce'
  BY <1>1, <1>6 DEF IInv, Fresh, NotYetOrdered, OrderedOnce
<1>11. OrderOfItsPage' /\ PageWaits'
  BY <1>1, <1>4 DEF IInv, OrderOfItsPage, PageWaits, Rows
<1>12. \A i \in Ids : changers[i] \subseteq changers'[i] /\ (i \in S => t \in changers'[i])
  BY <1>1
<1>13. FormCurrent'
  <2> SUFFICES ASSUME NEW u \in Tabs \ hurried, NEW i \in Ids,
                      form[u][i] > 0, changers'[i] \subseteq {u}
               PROVE  /\ Present(i)' => form[u][i] = cart'[i].count
                      /\ tx'[u].op = "order" => form[u][i] = tx'[u].read[i]
    BY <1>1 DEF FormCurrent
  <2>1. i \notin S
    <3> SUFFICES ASSUME i \in S PROVE FALSE
      OBVIOUS
    <3>1. u = t
      BY <1>12
    <3>2. form[t] # NoRows
      BY <3>1 DEF NoRows
    <3> QED
      BY <1>1, <3>1, <3>2 DEF IInv, PageWaits
  <2> QED
    BY <1>4, <1>5, <1>6, <1>12, <2>1 DEF IInv, FormCurrent
<1>14. ChargedAsOrdered'
  BY <1>1, <1>12 DEF IInv, ChargedAsOrdered
<1> QED
  BY <1>4, <1>7, <1>9, <1>10, <1>11, <1>13, <1>14 DEF IInv

(* Rows that go leave the others as they were. *)
LEMMA RowsRemoved ==
    ASSUME IInv, NEW S \in SUBSET Ids, Removed(S),
           clash' = clash, inserted' = inserted,
           \A u \in Tabs, o \in Options : Inserting(u, o)' => Inserting(u, o)
    PROVE  /\ cart' \in [Ids -> Row \union {Absent}]
           /\ \A i \in S : ~Present(i)'
           /\ \A i \in Ids \ S : cart'[i] = cart[i] /\ (Present(i)' <=> Present(i))
           /\ InsertFree' /\ OneRowPerOption'
<1>1. cart' = [i \in Ids |-> IF i \in S THEN Absent ELSE cart[i]]
  BY DEF Removed
<1>2. cart' \in [Ids -> Row \union {Absent}]
  BY <1>1 DEF IInv, TypeOK
<1>3. /\ \A i \in S : ~Present(i)'
      /\ \A i \in Ids \ S : cart'[i] = cart[i] /\ (Present(i)' <=> Present(i))
  BY <1>1 DEF Present
<1>4. \A o \in Options : RowsOf(o)' \subseteq RowsOf(o)
  BY <1>3 DEF RowsOf
<1>5. InsertFree' /\ OneRowPerOption'
  BY <1>4 DEF IInv, InsertFree, OneRowPerOption
<1> QED
  BY <1>2, <1>3, <1>5

LEMMA CommitDeleteIInv ==
    ASSUME IInv, NEW t \in Tabs, CommitDelete(t)
    PROVE  IInv'
<1>1. /\ tx[t].op = "delete" /\ Removed(tx[t].rows)
      /\ tx' = [tx EXCEPT ![t] = Idle]
      /\ UNCHANGED <<owner, inserted, form, ordered, changers, hurried, clash>>
  BY DEF CommitDelete, Done
<1>2. TypeOK /\ tx[t].rows \in SUBSET Ids
  BY <1>1, RequestOrIdle DEF IInv, Transaction
<1>3. /\ tx' \in [Tabs -> Transaction \union {Idle}]
      /\ tx'[t].op = "idle"
      /\ \A u \in Tabs \ {t} : tx'[u] = tx[u]
      /\ \A u \in Tabs, o \in Options : Inserting(u, o)' => Inserting(u, o)
      /\ CountsPositive' /\ InsertAlone'
  BY <1>1, Closed
<1>4. /\ cart' \in [Ids -> Row \union {Absent}]
      /\ \A i \in Ids : Present(i)' => Present(i) /\ cart'[i] = cart[i]
      /\ InsertFree' /\ OneRowPerOption'
  BY <1>1, <1>2, <1>3, RowsRemoved
<1>5. TypeOK'
  BY <1>1, <1>2, <1>3, <1>4 DEF TypeOK
<1>6. Fresh' /\ NotYetOrdered' /\ OrderedOnce' /\ ChargedAsOrdered'
  BY <1>1, <1>4 DEF IInv, Fresh, NotYetOrdered, OrderedOnce, ChargedAsOrdered
<1>7. OrderOfItsPage' /\ PageWaits'
  BY <1>1, <1>3 DEF IInv, OrderOfItsPage, PageWaits, Rows
<1>8. FormCurrent'
  BY <1>1, <1>3, <1>4 DEF IInv, FormCurrent
<1> QED
  BY <1>3, <1>4, <1>5, <1>6, <1>7, <1>8 DEF IInv

LEMMA CommitOrderIInv ==
    ASSUME IInv, NEW t \in Tabs, CommitOrder(t)
    PROVE  IInv'
<1> DEFINE S == tx[t].rows
<1>1. /\ tx[t].op = "order" /\ (\A i \in S : Present(i)) /\ Removed(S)
      /\ ordered' = [i \in Ids |->
            IF i \in S THEN [times |-> ordered[i].times + 1, by |-> t,
                             exact |-> ordered[i].exact /\ form[t][i] = tx[t].read[i]]
                       ELSE ordered[i]]
      /\ form' = [form EXCEPT ![t] = NoRows]
      /\ tx' = [tx EXCEPT ![t] = Idle]
      /\ UNCHANGED <<owner, inserted, changers, hurried, clash>>
  BY DEF CommitOrder, StillThere, Done
<1>2. TypeOK /\ S \in SUBSET Ids /\ S = Rows(form[t])
  BY <1>1, RequestOrIdle DEF IInv, OrderOfItsPage, Transaction
<1>3. /\ tx' \in [Tabs -> Transaction \union {Idle}]
      /\ tx'[t].op = "idle"
      /\ \A u \in Tabs \ {t} : tx'[u] = tx[u]
      /\ \A u \in Tabs, o \in Options : Inserting(u, o)' => Inserting(u, o)
      /\ CountsPositive' /\ InsertAlone'
  BY <1>1, Closed
<1>4. /\ cart' \in [Ids -> Row \union {Absent}]
      /\ \A i \in S : ~Present(i)'
      /\ \A i \in Ids \ S : Present(i)' => Present(i) /\ cart'[i] = cart[i]
      /\ InsertFree' /\ OneRowPerOption'
  BY <1>1, <1>2, <1>3, RowsRemoved
<1>5. /\ form \in [Tabs -> [Ids -> Counts]] /\ NoRows \in [Ids -> Counts]
      /\ form'[t] = NoRows /\ (\A i \in Ids : NoRows[i] = 0)
      /\ \A u \in Tabs \ {t} : form'[u] = form[u]
  BY <1>1, <1>2, ReadCountsType DEF TypeOK, NoRows
<1>6. \A i \in S : ordered[i].times = 0 /\ ordered[i].exact
  BY <1>1, <1>2 DEF IInv, NotYetOrdered
<1>7. /\ \A i \in S : /\ ordered'[i].times = 1 /\ ordered'[i].by = t
                      /\ ordered'[i].exact <=> form[t][i] = tx[t].read[i]
      /\ \A i \in Ids \ S : ordered'[i] = ordered[i]
  <2>1. ASSUME NEW i \in S
        PROVE  /\ ordered'[i].times = 1 /\ ordered'[i].by = t
               /\ ordered'[i].exact <=> form[t][i] = tx[t].read[i]
    <3>1. ordered'[i] = [times |-> ordered[i].times + 1, by |-> t,
                         exact |-> ordered[i].exact /\ form[t][i] = tx[t].read[i]]
      BY <1>1, <1>2
    <3>2. ordered'[i].exact = (ordered[i].exact /\ form[t][i] = tx[t].read[i])
      BY <3>1
    <3>3. ordered'[i].times = 1 /\ ordered'[i].by = t
      BY <1>6, <3>1
    <3>4. ordered'[i].exact <=> form[t][i] = tx[t].read[i]
      BY <1>6, <3>2, Zenon
    <3> QED
      BY <3>3, <3>4
  <2>2. \A i \in Ids \ S : ordered'[i] = ordered[i]
    BY <1>1
  <2> QED
    BY <2>1, <2>2
<1>8. TypeOK'
  <2>1. ordered' \in [Ids -> [times: Nat, by: Tabs \union {NoTab}, exact: BOOLEAN]]
    BY <1>1, <1>2 DEF TypeOK
  <2>2. form' \in [Tabs -> [Ids -> Counts]]
    BY <1>1, <1>5
  <2> QED
    BY <1>1, <1>2, <1>3, <1>4, <2>1, <2>2 DEF TypeOK
<1> HIDE DEF S
<1>9. Fresh'
  <2> SUFFICES ASSUME NEW i \in Ids, i > inserted
               PROVE  /\ ~Present(i)' /\ ordered'[i].times = 0
                      /\ \A u \in Tabs : form'[u][i] = 0
    BY <1>1 DEF Fresh
  <2>1. /\ ~Present(i) /\ ordered[i].times = 0 /\ \A u \in Tabs : form[u][i] = 0
    BY DEF IInv, Fresh
  <2>2. i \notin S
    BY <1>1, <2>1
  <2> QED
    BY <1>4, <1>5, <1>7, <2>1, <2>2
<1>10. NotYetOrdered'
  BY <1>4, <1>7 DEF IInv, NotYetOrdered
<1>11. OrderedOnce'
  BY <1>7 DEF IInv, OrderedOnce
<1>12. OrderOfItsPage' /\ PageWaits'
  BY <1>1, <1>3, <1>5 DEF IInv, OrderOfItsPage, PageWaits, Rows
<1>13. FormCurrent'
  <2> SUFFICES ASSUME NEW u \in Tabs \ hurried, NEW i \in Ids,
                      form'[u][i] > 0, changers[i] \subseteq {u}
               PROVE  /\ Present(i)' => form'[u][i] = cart'[i].count
                      /\ tx'[u].op = "order" => form'[u][i] = tx'[u].read[i]
    BY <1>1 DEF FormCurrent
  <2>1. u # t /\ form'[u] = form[u]
    BY <1>5
  <2> QED
    BY <1>3, <1>4, <2>1 DEF IInv, FormCurrent
<1>14. ChargedAsOrdered'
  <2> SUFFICES ASSUME NEW i \in Ids, ordered'[i].times > 0, ordered'[i].by \notin hurried,
                      changers[i] \subseteq {ordered'[i].by}
               PROVE  ordered'[i].exact
    BY <1>1 DEF ChargedAsOrdered
  <2>1. CASE i \in S
    <3>1. form[t][i] > 0 /\ t \notin hurried /\ changers[i] \subseteq {t}
      BY <1>2, <1>7, <2>1 DEF Rows
    <3> QED
      BY <1>1, <1>7, <2>1, <3>1 DEF IInv, FormCurrent
  <2>2. CASE i \notin S
    BY <1>7, <2>2 DEF IInv, ChargedAsOrdered
  <2> QED
    BY <2>1, <2>2
<1> QED
  BY <1>3, <1>4, <1>8, <1>9, <1>10, <1>11, <1>12, <1>13, <1>14 DEF IInv

-----------------------------------------------------------------------------
LEMMA NextIInv == IInv /\ [Next]_vars => IInv'
<1> SUFFICES ASSUME IInv, [Next]_vars PROVE IInv'
  OBVIOUS
<1>1. ASSUME NEW t \in Tabs, NEW S \in SUBSET Ids, PressOrder(t, S) PROVE IInv'
  BY <1>1, PressOrderIInv
<1>2. ASSUME NEW t \in Tabs, LeaveOrder(t) PROVE IInv'
  BY <1>2, LeaveOrderIInv
<1>3. ASSUME NEW t \in Tabs, Begin(t) PROVE IInv'
  BY <1>3, BeginAddIInv, BeginModifyIInv, BeginDeleteIInv, BeginOrderIInv DEF Begin
<1>4. ASSUME NEW t \in Tabs, Commit(t) PROVE IInv'
  BY <1>4, CommitInsertIInv, CommitUpdateIInv, CommitDeleteIInv, CommitOrderIInv DEF Commit
<1>5. ASSUME NEW t \in Tabs, Rollback(t) PROVE IInv'
  BY <1>5, RollbackIInv
<1>6. CASE UNCHANGED vars
  <2>1. UNCHANGED <<owner, cart, inserted, form, tx, ordered, changers, hurried, clash>>
    BY <1>6 DEF vars, historyVars
  <2>2. TypeOK' /\ Fresh' /\ OrderOfItsPage' /\ PageWaits' /\ FormCurrent'
    BY <2>1 DEF IInv, TypeOK, Fresh, OrderOfItsPage, PageWaits, FormCurrent, Present, Rows
  <2> QED
    BY <2>1, <2>2, PageStep DEF IInv
<1> QED
  BY <1>1, <1>2, <1>3, <1>4, <1>5, <1>6 DEF Next

(* The strengthened invariant holds in every reachable state. *)
THEOREM Invariance == Spec => []IInv
  BY InitIInv, NextIInv, PTL DEF Spec

(* The carts, the order pages and the requests hold values of their types: *)
(* no count below one comes into a cart (CartService.add, modify).         *)
THEOREM TypeCorrect == Spec => []TypeOK
<1>1. IInv => TypeOK
  BY DEF IInv
<1> QED
  BY <1>1, Invariance, PTL

(* An option two inserts never met on has one row in all carts, whatever   *)
(* is changed, deleted, ordered or rolled back meanwhile.                  *)
THEOREM OneRowPerOptionHolds == Spec => []OneRowPerOption
<1>1. IInv => OneRowPerOption
  BY DEF IInv
<1> QED
  BY <1>1, Invariance, PTL

(* A row is ordered once, however many tabs have paid for it. *)
THEOREM OrderedOnceHolds == Spec => []OrderedOnce
<1>1. IInv => OrderedOnce
  BY DEF IInv
<1> QED
  BY <1>1, Invariance, PTL

(* A member who waits for the answers, and whose rows no other tab has     *)
(* changed, pays for the counts that are ordered.                          *)
THEOREM ChargedAsOrderedHolds == Spec => []ChargedAsOrdered
<1>1. IInv => ChargedAsOrdered
  BY DEF IInv
<1> QED
  BY <1>1, Invariance, PTL
=============================================================================
