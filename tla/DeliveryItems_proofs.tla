------------------------- MODULE DeliveryItems_proofs -------------------------
(***************************************************************************)
(* TypeOK, OneRowPerItem, FrozenOnceShipped and OwnDelivery for any number *)
(* of tabs, request threads and deliveries.                                *)
(*                                                                         *)
(* The argument: while a delivery is not in clash at most one transaction  *)
(* is open on it, so what that transaction found when it began still holds *)
(* when it commits.  Ids are never given twice, so a row found under its   *)
(* delivery stays there as long as it exists.                              *)
(***************************************************************************)
EXTENDS DeliveryItems, FiniteSetTheorems, TLAPS

(* Types of what the argument uses. *)
Types ==
    /\ rows \in [Ids -> Row \union {Absent}]
    /\ status \in [Deliveries -> Status \union {"none"}]
    /\ inserted \in Nat
    /\ tx \in [Workers -> Transaction \union {Idle}]
    /\ page \in [Tabs -> Page]
    /\ loading \in [Tabs -> SUBSET (Deliveries \union {NoDelivery})]

(* Ids beyond the counter are free. *)
FreshIds == \A i \in Ids : i > inserted => ~Present(i)

(* A delivery that is not inserted yet has no rows and is on no page. *)
NoneYet ==
    \A d \in Deliveries : status[d] = "none" =>
        /\ RowsOf(d) = {}
        /\ \A t \in Tabs : page[t].id # d /\ d \notin loading[t]

(* A page that loads, shows or asks for something has opened a delivery.   *)
OpenedBeforeShown ==
    \A t \in Tabs : /\ loading[t] # {} => page[t].id # NoDelivery
                    /\ page[t].status # "" => page[t].id # NoDelivery
                    /\ page[t].rows # {} => page[t].id # NoDelivery
                    /\ \A w \in Workers : tx[w] # Idle /\ tx[w].tab = t
                            => page[t].id # NoDelivery

(* What the transaction of w on d found still holds. *)
Holds(w) ==
    LET d == tx[w].delivery
        i == tx[w].row
    IN  /\ tx[w].op = "addItem" => ~Exists(d, tx[w].item)
        /\ tx[w].op = "deleteItem" => Found(d, i) /\ Changeable(d)
        /\ tx[w].op = "modifyCount" => Found(d, i) /\ Changeable(d)

(* At most one transaction is open on a delivery that is not in clash. *)
Alone ==
    \A d \in Deliveries \ clash : \A v, w \in Workers : On(v, d) /\ On(w, d) => v = w

(* The transaction that adds a delivery is alone on it, and the others are *)
(* on deliveries that are inserted.                                        *)
AddsNew ==
    \A w \in Workers :
        /\ tx[w].op = "addDelivery" =>
              /\ status[tx[w].delivery] = "none"
              /\ \A v \in Workers : On(v, tx[w].delivery) => v = w
        /\ tx[w] # Idle /\ tx[w].op # "addDelivery" => status[tx[w].delivery] # "none"

FoundHolds ==
    \A w \in Workers : tx[w] # Idle /\ tx[w].delivery \notin clash => Holds(w)

(* The row an open transaction is to change is under its delivery, if it   *)
(* still exists, and its id has been given.                                *)
RowsStay ==
    \A w \in Workers : tx[w].op \in {"deleteItem", "modifyCount"} =>
        /\ tx[w].row <= inserted
        /\ Present(tx[w].row) => rows[tx[w].row].delivery = tx[w].delivery

Inv == /\ Types /\ FreshIds /\ NoneYet /\ OpenedBeforeShown
       /\ Alone /\ AddsNew /\ FoundHolds /\ RowsStay /\ OneRowPerItem

-----------------------------------------------------------------------------
(***************************************************************************)
(* Rows that are inserted.                                                 *)
(***************************************************************************)

(* A row whose id is not in f's range is left alone. *)
LEMMA OldRow ==
    ASSUME NEW table, NEW d, NEW n, NEW S, NEW T,
           NEW f \in Bijection(S, T), NEW i \in Ids, i \notin T
    PROVE  Inserted(table, f, d, n)[i] = table[i]
<1>1. f \in [S -> T]
  BY DEF Bijection, Injection
<1>. QED  BY <1>1 DEF Inserted

(* An id in f's range gets the row of the item that f gives it to. *)
LEMMA NewRow ==
    ASSUME NEW table, NEW d, NEW n, NEW S, NEW T,
           NEW f \in Bijection(S, T), NEW i \in Ids, i \in T
    PROVE  \E a \in S : /\ f[a] = i
                       /\ Inserted(table, f, d, n)[i] =
                               [delivery |-> d, item |-> a, count |-> n]
<1>1. f \in [S -> T] /\ (\A a, b \in S : f[a] = f[b] => a = b)
                     /\ (\A t \in T : \E a \in S : f[a] = t)
  BY DEF Bijection, Injection, Surjection, IsInjective
<1>2. DOMAIN f = S
  BY <1>1
<1>3. PICK a \in S : f[a] = i
  BY <1>1
<1>4. (CHOOSE b \in DOMAIN f : f[b] = i) = a
  BY <1>1, <1>2, <1>3
<1>. QED  BY <1>2, <1>3, <1>4 DEF Inserted

(* What Insert does to the table: the rows there were stay, and the new    *)
(* ones are rows of d, one for each new item.                              *)
LEMMA InsertKeeps ==
    ASSUME Types, FreshIds,
           NEW d \in Deliveries, NEW new \in SUBSET Items, NEW n \in Nat,
           Insert(d, new, n)
    PROVE  /\ rows' \in [Ids -> Row \union {Absent}]
           /\ inserted' \in Nat /\ inserted <= inserted'
           /\ \A i \in Ids : i <= inserted => rows'[i] = rows[i]
           /\ \A i \in Ids : i > inserted' => rows'[i] = Absent
           /\ \A i \in Ids : i > inserted /\ rows'[i] # Absent =>
                 rows'[i].delivery = d /\ rows'[i].item \in new
           /\ \A i, j \in Ids : /\ i > inserted /\ j > inserted
                               /\ rows'[i] # Absent /\ rows'[j] # Absent
                               /\ rows'[i].item = rows'[j].item => i = j
<1>1. IsFiniteSet(new) /\ Cardinality(new) \in Nat
  BY ItemsAssumption, FS_Subset, FS_CardinalityType
<1>2. inserted' = inserted + Cardinality(new) /\ inserted' <= MaxRows
  BY DEF Insert
<1>3. inserted \in Nat /\ inserted' \in Nat /\ inserted <= inserted' /\ MaxRows \in Nat
  BY <1>1, <1>2, ItemsAssumption DEF Types
<1> DEFINE T == (inserted + 1)..inserted'
<1>4. T \in SUBSET Ids
  BY <1>2, <1>3 DEF Ids
<1>5. PICK f \in Bijection(new, T) : rows' = Inserted(rows, f, d, n)
  BY DEF Insert
<1>6. f \in [new -> T] /\ (\A a, b \in new : f[a] = f[b] => a = b)
  BY <1>5 DEF Bijection, Injection, IsInjective
<1>9. \A i \in Ids : (i \in T) <=> (i > inserted /\ i <= inserted')
  BY <1>3 DEF Ids
<1>. HIDE DEF T
<1>7. ASSUME NEW i \in Ids, i \notin T PROVE rows'[i] = rows[i]
  BY <1>5, <1>7, OldRow
<1>8. ASSUME NEW i \in Ids, i \in T
      PROVE  \E a \in new : f[a] = i /\ rows'[i] =
                                     [delivery |-> d, item |-> a, count |-> n]
  BY <1>5, <1>8, NewRow
<1>10. \A i \in Ids : i > inserted => rows[i] = Absent
  BY DEF FreshIds, Present
<1>11. rows' \in [Ids -> Row \union {Absent}]
  <2>1. ASSUME NEW i \in Ids PROVE rows'[i] \in Row \union {Absent}
    <3>1. CASE i \in T
      <4>1. PICK a \in new : rows'[i] = [delivery |-> d, item |-> a, count |-> n]
        BY <1>8, <3>1
      <4>. QED  BY <4>1 DEF Row
    <3>2. CASE i \notin T
      BY <1>7, <3>2 DEF Types
    <3>. QED  BY <3>1, <3>2
  <2>2. rows' = [i \in Ids |-> rows'[i]]
    BY <1>5 DEF Inserted
  <2>. QED  BY <2>1, <2>2
<1>12. \A i \in Ids : i <= inserted => rows'[i] = rows[i]
  BY <1>7, <1>9, <1>3 DEF Ids
<1>13. \A i \in Ids : i > inserted' => rows'[i] = Absent
  BY <1>7, <1>9, <1>10, <1>3 DEF Ids
<1>14. ASSUME NEW i \in Ids, i > inserted, rows'[i] # Absent
       PROVE  \E a \in new : f[a] = i /\ rows'[i] =
                                     [delivery |-> d, item |-> a, count |-> n]
  <2>1. i \in T
    BY <1>7, <1>10, <1>14
  <2>. QED  BY <1>8, <2>1
<1>15. \A i \in Ids : i > inserted /\ rows'[i] # Absent =>
          rows'[i].delivery = d /\ rows'[i].item \in new
  <2>1. ASSUME NEW i \in Ids, i > inserted, rows'[i] # Absent
        PROVE  rows'[i].delivery = d /\ rows'[i].item \in new
    <3>1. PICK a \in new : rows'[i] = [delivery |-> d, item |-> a, count |-> n]
      BY <1>14, <2>1
    <3>. QED  BY <3>1
  <2>. QED  BY <2>1
<1>16. ASSUME NEW i \in Ids, NEW j \in Ids, i > inserted, j > inserted,
              rows'[i] # Absent, rows'[j] # Absent, rows'[i].item = rows'[j].item
       PROVE  i = j
  <2>1. PICK a \in new : f[a] = i /\ rows'[i] = [delivery |-> d, item |-> a, count |-> n]
    BY <1>14, <1>16
  <2>2. PICK b \in new : f[b] = j /\ rows'[j] = [delivery |-> d, item |-> b, count |-> n]
    BY <1>14, <1>16
  <2>3. a = b
    BY <1>16, <2>1, <2>2
  <2>. QED  BY <2>1, <2>2, <2>3
<1>. QED  BY <1>3, <1>11, <1>12, <1>13, <1>15, <1>16

-----------------------------------------------------------------------------
(***************************************************************************)
(* The invariant.                                                          *)
(***************************************************************************)

LEMMA FillerTypes == AnItem \in Items /\ 1 \in Ids
<1>1. AnItem \in Items
  BY ItemsAssumption DEF AnItem
<1>2. Cardinality(Items) \in Nat /\ Cardinality(Items) # 0
  BY ItemsAssumption, FS_CardinalityType, FS_EmptySet
<1>. QED  BY <1>1, <1>2, ItemsAssumption DEF Ids

LEMMA IdleIsNone == \A w \in Workers : Idle \notin Transaction /\ Idle.op = "idle"
  BY DEF Idle, Transaction, ItemOps, DeliveryOps

LEMMA InitInv == Init => Inv
<1> SUFFICES ASSUME Init PROVE Inv
  OBVIOUS
<1> DEFINE T == 1..Cardinality(Items)
<1>1. PICK f \in Bijection(Items, T) :
          rows = Inserted([i \in Ids |-> Absent], f, First, Ordered)
  BY DEF Init
<1>2. Cardinality(Items) \in Nat
  BY ItemsAssumption, FS_CardinalityType
<1>3. inserted = Cardinality(Items)
  BY DEF Init
<1>. HIDE DEF T
<1>4. ASSUME NEW i \in Ids, i \notin T PROVE rows[i] = Absent
  BY <1>1, <1>4, OldRow
<1>5. ASSUME NEW i \in Ids, i \in T
      PROVE  \E a \in Items : f[a] = i /\ rows[i] =
                   [delivery |-> First, item |-> a, count |-> Ordered]
  BY <1>1, <1>5, NewRow
<1>6. ASSUME NEW i \in Ids, rows[i] # Absent
      PROVE  \E a \in Items : f[a] = i /\ rows[i] =
                   [delivery |-> First, item |-> a, count |-> Ordered]
  BY <1>4, <1>5, <1>6
<1>7. Types
  <2>1. ASSUME NEW i \in Ids PROVE rows[i] \in Row \union {Absent}
    <3>1. CASE rows[i] # Absent
      <4>1. PICK a \in Items : rows[i] = [delivery |-> First, item |-> a, count |-> Ordered]
        BY <1>6, <3>1
      <4>. QED  BY <4>1, ItemsAssumption DEF Row
    <3>. QED  BY <3>1
  <2>2. rows = [i \in Ids |-> rows[i]]
    BY <1>1 DEF Inserted
  <2>3. rows \in [Ids -> Row \union {Absent}]
    BY <2>1, <2>2
  <2>. QED  BY <2>3, <1>2, <1>3 DEF Types, Init, Page, Status
<1>8. FreshIds
  BY <1>2, <1>3, <1>4 DEF FreshIds, Present, T, Ids
<1>9. NoneYet
  <2>1. ASSUME NEW d \in Deliveries, status[d] = "none", NEW i \in RowsOf(d) PROVE FALSE
    <3>1. d # First
      BY <2>1 DEF Init
    <3>2. PICK a \in Items : rows[i] = [delivery |-> First, item |-> a, count |-> Ordered]
      BY <1>6 DEF RowsOf, Present
    <3>3. rows[i].delivery = d
      BY DEF RowsOf
    <3>. QED  BY <3>1, <3>2, <3>3
  <2>. QED  BY <2>1, ItemsAssumption DEF NoneYet, Init
<1>10. OneRowPerItem
  <2>1. ASSUME NEW d \in Deliveries, NEW i \in RowsOf(d), NEW j \in RowsOf(d),
               rows[i].item = rows[j].item
        PROVE  i = j
    <3>1. PICK a \in Items : f[a] = i /\ rows[i] =
                   [delivery |-> First, item |-> a, count |-> Ordered]
      BY <1>6 DEF RowsOf, Present
    <3>2. PICK b \in Items : f[b] = j /\ rows[j] =
                   [delivery |-> First, item |-> b, count |-> Ordered]
      BY <1>6 DEF RowsOf, Present
    <3>3. a = b
      BY <2>1, <3>1, <3>2
    <3>. QED  BY <3>1, <3>2, <3>3
  <2>. QED  BY <2>1 DEF OneRowPerItem
<1>11. OpenedBeforeShown /\ Alone /\ AddsNew /\ FoundHolds /\ RowsStay
  BY DEF Init, OpenedBeforeShown, Alone, AddsNew, FoundHolds, RowsStay, On, Idle
<1>. QED  BY <1>7, <1>8, <1>9, <1>10, <1>11 DEF Inv

(* A request that begins with its checks made keeps the invariant.         *)
LEMMA BeginKeeps ==
    ASSUME Inv, NEW w \in Workers, NEW q \in Transaction, Begin(w, q),
           \A t \in Tabs : q.tab = t => page[t].id # NoDelivery,
           q.op = "addDelivery" => /\ status[q.delivery] = "none"
                                   /\ ~\E v \in Workers : On(v, q.delivery),
           q.op # "addDelivery" => status[q.delivery] # "none",
           q.op = "addItem" => ~Exists(q.delivery, q.item),
           q.op \in {"deleteItem", "modifyCount"} =>
                Found(q.delivery, q.row) /\ Changeable(q.delivery)
    PROVE  Inv'
<1>1. /\ tx[w] = Idle /\ tx' = [tx EXCEPT ![w] = q]
      /\ UNCHANGED <<status, rows, inserted, page, loading>>
      /\ clash' = IF \E v \in Workers : On(v, q.delivery)
                     THEN clash \union {q.delivery} ELSE clash
  BY DEF Begin, dbVars
<1>2. tx'[w] = q /\ (\A v \in Workers \ {w} : tx'[v] = tx[v]) /\ q # Idle
  BY <1>1, IdleIsNone DEF Inv, Types
<1>3. Types'
  BY <1>1, <1>2 DEF Inv, Types
<1>4. FreshIds' /\ NoneYet'
  BY <1>1 DEF Inv, FreshIds, NoneYet, Present, RowsOf
<1>10. OpenedBeforeShown'
  BY <1>1, <1>2 DEF Inv, OpenedBeforeShown
<1>5. Alone'
  BY <1>1, <1>2 DEF Inv, Alone, On
<1>6. AddsNew'
  <2>1. ASSUME NEW u \in Workers, tx'[u].op = "addDelivery"
        PROVE  /\ status'[tx'[u].delivery] = "none"
               /\ \A v \in Workers : On(v, tx[u].delivery)' => v = u
    <3>1. CASE u = w
      BY <1>1, <1>2, <2>1, <3>1 DEF On
    <3>2. CASE u # w
      <4>1. tx'[u] = tx[u] /\ tx[u] # Idle /\ On(u, tx[u].delivery)
        BY <1>2, <2>1, <3>2 DEF Idle, On
      <4>2. status[tx[u].delivery] = "none" /\ q.delivery # tx[u].delivery
        BY <2>1, <4>1 DEF Inv, AddsNew
      <4>. QED  BY <1>1, <1>2, <2>1, <4>1, <4>2 DEF Inv, AddsNew, On
    <3>. QED  BY <3>1, <3>2
  <2>2. ASSUME NEW u \in Workers, tx'[u] # Idle, tx'[u].op # "addDelivery"
        PROVE  status'[tx'[u].delivery] # "none"
    BY <1>1, <1>2, <2>2 DEF Inv, AddsNew
  <2>. QED  BY <2>1, <2>2 DEF AddsNew
<1>7. FoundHolds'
  BY <1>1, <1>2 DEF Inv, FoundHolds, Holds, Exists, Found, Changeable, RowsOf, Present
<1>8. RowsStay'
  <2>1. q.op \in {"deleteItem", "modifyCount"} =>
            /\ q.row <= inserted
            /\ Present(q.row) => rows[q.row].delivery = q.delivery
    BY DEF Inv, FreshIds, Types, Found, RowsOf, Transaction, Ids
  <2>. QED  BY <1>1, <1>2, <2>1 DEF Inv, RowsStay, Present
<1>9. OneRowPerItem'
  BY <1>1 DEF Inv, OneRowPerItem, RowsOf, Present
<1>. QED  BY <1>3, <1>4, <1>5, <1>6, <1>7, <1>8, <1>9, <1>10 DEF Inv

(* What a commit of w on d may do to the tables.                           *)
Touches(d) ==
    /\ inserted' \in Nat /\ inserted <= inserted'
    /\ rows' \in [Ids -> Row \union {Absent}]
    /\ status' \in [Deliveries -> Status \union {"none"}]
    /\ status'[d] # "none"
    /\ \A e \in Deliveries \ {d} : status'[e] = status[e]
    /\ \A i \in Ids : i <= inserted =>
          \/ rows'[i] = rows[i]
          \/ /\ Present(i) /\ rows[i].delivery = d
             /\ \/ rows'[i] = Absent
                \/ rows'[i] # Absent /\ rows'[i].delivery = d /\ rows'[i].item = rows[i].item
    /\ \A i \in Ids : i > inserted => rows'[i] = Absent \/ rows'[i].delivery = d
    /\ \A i \in Ids : i > inserted' => rows'[i] = Absent

(* A commit that touches its own delivery only, and leaves no item there   *)
(* twice if it was alone on it, keeps the invariant.                       *)
LEMMA CommitKeeps ==
    ASSUME Inv, NEW w \in Workers, tx[w] # Idle, Close(w), clash' = clash,
           NEW d \in Deliveries, d = tx[w].delivery, Touches(d),
           page' \in [Tabs -> Page] /\ \A t \in Tabs : page'[t].id = page[t].id,
           \A t \in Tabs : page'[t].rows = page[t].rows,
           \A t \in Tabs : page'[t] # page[t] => page[t].id # NoDelivery,
           loading' \in [Tabs -> SUBSET (Deliveries \union {NoDelivery})],
           \A t \in Tabs : /\ loading'[t] # loading[t] => page[t].id # NoDelivery
                           /\ loading'[t] \subseteq loading[t] \union {page[t].id},
           d \notin clash => \A i, j \in RowsOf(d)' :
                    rows'[i].item = rows'[j].item => i = j
    PROVE  Inv'
<1>2. tx'[w] = Idle /\ (\A v \in Workers \ {w} : tx'[v] = tx[v])
      /\ tx' \in [Workers -> Transaction \union {Idle}]
  BY DEF Close, Inv, Types
<1>3. inserted \in Nat /\ (\A i \in Ids : i \in Nat)
  BY DEF Inv, Types, Ids
<1>4. \A e \in Deliveries \ {d} : RowsOf(e)' = RowsOf(e)
            /\ (\A i \in RowsOf(e) : rows'[i] = rows[i])
  <2>1. ASSUME NEW e \in Deliveries \ {d}, NEW i \in Ids
        PROVE  /\ i \in RowsOf(e)' <=> i \in RowsOf(e)
               /\ i \in RowsOf(e) => rows'[i] = rows[i]
    <3>1. CASE i <= inserted
      BY <3>1 DEF Touches, RowsOf, Present
    <3>2. CASE i > inserted
      BY <3>2 DEF Touches, RowsOf, Present, Inv, FreshIds
    <3>. QED  BY <1>3, <3>1, <3>2
  <2>. QED  BY <2>1 DEF RowsOf
<1>5. \A v \in Workers \ {w} : tx[v] # Idle /\ tx[v].delivery \notin clash
            => tx[v].delivery # d /\ tx[v].delivery \in Deliveries
  BY DEF Inv, Alone, On, Types, Transaction
<1>6. Types'
  BY <1>2 DEF Types, Touches
<1>7. FreshIds'
  BY DEF FreshIds, Present, Touches
<1>8. NoneYet'
  <2>1. ASSUME NEW e \in Deliveries, status'[e] = "none" PROVE e # d
    BY <2>1 DEF Touches
  <2>. QED  BY <1>4, <2>1 DEF Inv, NoneYet, Touches
<1>9. OpenedBeforeShown'
  <2>1. ASSUME NEW t \in Tabs
        PROVE  /\ loading'[t] # {} => page'[t].id # NoDelivery
               /\ page'[t].status # "" => page'[t].id # NoDelivery
               /\ page'[t].rows # {} => page'[t].id # NoDelivery
    BY DEF Inv, OpenedBeforeShown
  <2>2. ASSUME NEW t \in Tabs, NEW v \in Workers, tx'[v] # Idle, tx'[v].tab = t
        PROVE  page'[t].id # NoDelivery
    <3>1. v # w /\ tx'[v] = tx[v]
      BY <1>2, <2>2
    <3>. QED  BY <2>2, <3>1 DEF Inv, OpenedBeforeShown
  <2>. QED  BY <2>1, <2>2 DEF OpenedBeforeShown
<1>10. Alone'
  BY <1>2 DEF Inv, Alone, On
<1>11. AddsNew'
  <2>1. ASSUME NEW u \in Workers, tx'[u].op = "addDelivery"
        PROVE  /\ status'[tx'[u].delivery] = "none"
               /\ \A v \in Workers : On(v, tx[u].delivery)' => v = u
    <3>1. u # w /\ tx'[u] = tx[u]
      BY <1>2, <2>1 DEF Idle
    <3>2. tx[u].delivery # d /\ tx[u].delivery \in Deliveries
      BY <2>1, <3>1 DEF Inv, AddsNew, On, Types, Transaction, Idle
    <3>3. status'[tx'[u].delivery] = "none"
      BY <2>1, <3>1, <3>2 DEF Inv, AddsNew, Touches
    <3>. QED  BY <1>2, <2>1, <3>1, <3>3 DEF Inv, AddsNew, On
  <2>2. ASSUME NEW u \in Workers, tx'[u] # Idle, tx'[u].op # "addDelivery"
        PROVE  status'[tx'[u].delivery] # "none"
    <3>1. u # w /\ tx'[u] = tx[u] /\ tx[u].delivery \in Deliveries
      BY <1>2, <2>2 DEF Inv, Types, Transaction
    <3>. QED  BY <2>2, <3>1 DEF Inv, AddsNew, Touches
  <2>. QED  BY <2>1, <2>2 DEF AddsNew
<1>12. FoundHolds'
  <2>1. ASSUME NEW v \in Workers, tx'[v] # Idle, tx'[v].delivery \notin clash
        PROVE  Holds(v)'
    <3>1. v # w /\ tx'[v] = tx[v]
      BY <1>2, <2>1
    <3>2. tx[v].delivery \in Deliveries \ {d} /\ Holds(v)
      BY <1>5, <2>1, <3>1 DEF Inv, FoundHolds
    <3>3. RowsOf(tx[v].delivery)' = RowsOf(tx[v].delivery)
      BY <1>4, <3>1, <3>2
    <3>4. status'[tx[v].delivery] = status[tx[v].delivery]
      BY <3>2 DEF Touches
    <3>. QED  BY <1>4, <3>1, <3>2, <3>3, <3>4 DEF Holds, Exists, Found, Changeable
  <2>. QED  BY <2>1 DEF FoundHolds
<1>13. RowsStay'
  <2>1. ASSUME NEW v \in Workers, tx'[v].op \in {"deleteItem", "modifyCount"}
        PROVE  /\ tx'[v].row <= inserted'
               /\ Present(tx[v].row)' => rows'[tx'[v].row].delivery = tx'[v].delivery
    <3>1. v # w /\ tx'[v] = tx[v] /\ tx[v].row \in Ids
      BY <1>2, <2>1 DEF Idle, Inv, Types, Transaction
    <3>2. tx[v].row <= inserted /\ (Present(tx[v].row) =>
                                      rows[tx[v].row].delivery = tx[v].delivery)
      BY <2>1, <3>1 DEF Inv, RowsStay
    <3>. QED  BY <1>3, <3>1, <3>2 DEF Touches, Present
  <2>. QED  BY <2>1 DEF RowsStay
<1>14. OneRowPerItem'
  <2>1. ASSUME NEW e \in Deliveries \ clash, NEW i \in RowsOf(e)', NEW j \in RowsOf(e)',
               rows'[i].item = rows'[j].item
        PROVE  i = j
    <3>1. CASE e = d
      BY <2>1, <3>1
    <3>2. CASE e # d
      BY <1>4, <2>1, <3>2 DEF Inv, OneRowPerItem
    <3>. QED  BY <3>1, <3>2
  <2>. QED  BY <2>1 DEF OneRowPerItem
<1>. QED
  BY <1>6, <1>7, <1>8, <1>9, <1>10, <1>11, <1>12, <1>13, <1>14 DEF Inv

-----------------------------------------------------------------------------
(***************************************************************************)
(* The steps.                                                              *)
(***************************************************************************)

(* What a page can ask for is a delivery that exists. *)
LEMMA OpenedExists ==
    ASSUME Inv, NEW t \in Tabs, page[t].id # NoDelivery
    PROVE  page[t].id \in Deliveries /\ status[page[t].id] # "none"
  BY DEF Inv, Types, Page, NoneYet

LEMMA RequestTypes ==
    ASSUME NEW t \in Tabs \union {NoTab}, NEW op \in ItemOps \union DeliveryOps,
           NEW d \in Deliveries
    PROVE  Request(t, op, d) \in Transaction
  BY FillerTypes DEF Request, Transaction, Status

LEMMA SubmitKeeps ==
    ASSUME Inv, NEW w \in Workers, NEW t \in Tabs, Submit(w, t)
    PROVE  Inv'
<1>1. ASSUME NEW item \in Items, NEW n \in Counts, BeginAddItem(w, t, item, n)
      PROVE  Inv'
  <2>1. page[t].id # NoDelivery
    BY <1>1 DEF BeginAddItem, MayAddItem, Inv, OpenedBeforeShown
  <2> DEFINE q == [Request(t, "addItem", page[t].id) EXCEPT !.item = item, !.count = n]
  <2>2. q \in Transaction /\ q.op = "addItem" /\ q.delivery = page[t].id /\ q.item = item
      /\ q.tab = t
    BY <2>1, OpenedExists, RequestTypes, ItemsAssumption DEF Transaction, ItemOps, Request
  <2>3. Begin(w, q) /\ ~Exists(page[t].id, item)
    BY <1>1 DEF BeginAddItem
  <2>. QED  BY <2>1, <2>2, <2>3, OpenedExists, BeginKeeps
<1>2. ASSUME NEW i \in Ids, BeginDeleteItem(w, t, i) PROVE Inv'
  <2>1. page[t].id # NoDelivery
    BY <1>2 DEF BeginDeleteItem, MayPress, Inv, OpenedBeforeShown
  <2> DEFINE q == [Request(t, "deleteItem", page[t].id) EXCEPT !.row = i]
  <2>2. q \in Transaction /\ q.op = "deleteItem" /\ q.delivery = page[t].id /\ q.row = i
      /\ q.tab = t
    BY <2>1, OpenedExists, RequestTypes DEF Transaction, ItemOps, Request
  <2>3. Begin(w, q) /\ Found(page[t].id, i) /\ Changeable(page[t].id)
    BY <1>2 DEF BeginDeleteItem
  <2>. QED  BY <2>1, <2>2, <2>3, OpenedExists, BeginKeeps
<1>3. ASSUME NEW i \in Ids, NEW n \in Counts, BeginModifyCount(w, t, i, n) PROVE Inv'
  <2>1. page[t].id # NoDelivery
    BY <1>3 DEF BeginModifyCount, MayPress, Inv, OpenedBeforeShown
  <2> DEFINE q == [Request(t, "modifyCount", page[t].id) EXCEPT
                     !.row = i, !.count = n, !.dirty = rows[i].count # n]
  <2>2. q \in Transaction /\ q.op = "modifyCount" /\ q.delivery = page[t].id /\ q.row = i
      /\ q.tab = t
    BY <2>1, OpenedExists, RequestTypes, ItemsAssumption DEF Transaction, ItemOps, Request
  <2>3. Begin(w, q) /\ Found(page[t].id, i) /\ Changeable(page[t].id)
    BY <1>3 DEF BeginModifyCount
  <2>. QED  BY <2>1, <2>2, <2>3, OpenedExists, BeginKeeps
<1>4. ASSUME NEW s \in AdminStatuses, BeginUpdateStatus(w, t, s) PROVE Inv'
  <2>1. page[t].id # NoDelivery
    BY <1>4 DEF BeginUpdateStatus, MayUpdateStatus
  <2> DEFINE q == [Request(t, "modifyStatus", page[t].id) EXCEPT
                     !.status = s, !.dirty = status[page[t].id] # s]
  <2>2. q \in Transaction /\ q.op = "modifyStatus" /\ q.delivery = page[t].id
      /\ q.tab = t
    BY <2>1, OpenedExists, RequestTypes, ItemsAssumption DEF Transaction, DeliveryOps, Request
  <2>3. Begin(w, q)
    BY <1>4 DEF BeginUpdateStatus
  <2>. QED  BY <2>1, <2>2, <2>3, OpenedExists, BeginKeeps
<1>. QED  BY <1>1, <1>2, <1>3, <1>4 DEF Submit

LEMMA SubmitElsewhereKeeps ==
    ASSUME Inv, NEW w \in Workers, NEW d \in Deliveries, SubmitElsewhere(w, d)
    PROVE  Inv'
<1>1. CASE BeginUpdateDetails(w, d)
  <2> DEFINE q == [Request(NoTab, "modifyStatus", d) EXCEPT !.status = status[d]]
  <2>1. status[d] # "none" /\ status[d] \in Status
    BY <1>1 DEF BeginUpdateDetails, Inv, Types
  <2>2. q \in Transaction /\ q.op = "modifyStatus" /\ q.delivery = d
      /\ q.tab = NoTab
    BY <2>1, RequestTypes DEF Transaction, DeliveryOps, Request
  <2>3. Begin(w, q)
    BY <1>1 DEF BeginUpdateDetails
  <2>. QED  BY <2>1, <2>2, <2>3, BeginKeeps, ItemsAssumption
<1>2. CASE BeginDeleteDelivery(w, d)
  <2> DEFINE q == [Request(NoTab, "modifyStatus", d) EXCEPT
                    !.status = "DELETED", !.dirty = status[d] # "DELETED"]
  <2>2. q \in Transaction /\ q.op = "modifyStatus" /\ q.delivery = d
      /\ q.tab = NoTab
    BY RequestTypes DEF Transaction, DeliveryOps, Request, Status
  <2>3. Begin(w, q) /\ status[d] # "none"
    BY <1>2 DEF BeginDeleteDelivery
  <2>. QED  BY <2>2, <2>3, BeginKeeps, ItemsAssumption
<1>3. CASE BeginAddDelivery(w, d)
  <2> DEFINE q == Request(NoTab, "addDelivery", d)
  <2>2. q \in Transaction /\ q.op = "addDelivery" /\ q.delivery = d
      /\ q.tab = NoTab
    BY RequestTypes DEF Transaction, DeliveryOps, Request
  <2>3. Begin(w, q) /\ status[d] = "none" /\ ~\E v \in Workers : On(v, d)
    BY <1>3 DEF BeginAddDelivery
  <2>. QED  BY <2>2, <2>3, BeginKeeps, ItemsAssumption
<1>. QED  BY <1>1, <1>2, <1>3 DEF SubmitElsewhere

(* A commit touches the delivery its request was addressed to. *)
LEMMA CommitTouches ==
    ASSUME Inv, NEW w \in Workers, Commit(w), NEW d \in Deliveries, d = tx[w].delivery
    PROVE  Touches(d)
<1>1. tx[w] \in Transaction
  BY DEF Commit, CommitAddDelivery, CommitAddItem, CommitDeleteItem, CommitModifyCount,
         CommitDelivery, Inv, Types
<1>2. inserted \in Nat /\ rows \in [Ids -> Row \union {Absent}]
      /\ status \in [Deliveries -> Status \union {"none"}] /\ Types /\ FreshIds
  BY DEF Inv, Types
<1>3. CASE CommitAddDelivery(w)
  <2>1. Insert(d, Items, Ordered) /\ status' = [status EXCEPT ![d] = NewDelivery]
    BY <1>3 DEF CommitAddDelivery
  <2>. QED  BY <1>2, <2>1, InsertKeeps, ItemsAssumption DEF Touches, NewDelivery, Status, Ids
<1>4. CASE CommitAddItem(w)
  <2>1. Insert(d, {tx[w].item}, tx[w].count) /\ status' = status /\ status[d] # "none"
    BY <1>4, <1>1, IdleIsNone DEF CommitAddItem, Inv, AddsNew
  <2>2. {tx[w].item} \in SUBSET Items /\ tx[w].count \in Nat
    BY <1>1 DEF Transaction
  <2>. QED  BY <1>2, <2>1, <2>2, InsertKeeps DEF Touches, Ids
<1>5. CASE CommitDeleteItem(w)
  <2>1. /\ rows' = [rows EXCEPT ![tx[w].row] = Absent] /\ inserted' = inserted
        /\ status' = status /\ status[d] # "none" /\ Present(tx[w].row)
        /\ rows[tx[w].row].delivery = d /\ tx[w].row \in Ids /\ tx[w].row <= inserted
    BY <1>5, <1>1, IdleIsNone DEF CommitDeleteItem, Inv, AddsNew, RowsStay, Transaction
  <2>. QED  BY <1>2, <2>1 DEF Touches, Ids, FreshIds, Present
<1>6. CASE CommitModifyCount(w)
  <2>1. /\ inserted' = inserted /\ status' = status /\ status[d] # "none"
        /\ tx[w].row \in Ids /\ tx[w].row <= inserted /\ tx[w].count \in Nat
    BY <1>6, <1>1, IdleIsNone DEF CommitModifyCount, Inv, AddsNew, RowsStay, Transaction
  <2>2. CASE tx[w].dirty
    <3>1. /\ rows' = [rows EXCEPT ![tx[w].row].count = tx[w].count]
          /\ Present(tx[w].row) /\ rows[tx[w].row].delivery = d
      BY <1>6, <2>2 DEF CommitModifyCount, Inv, RowsStay
    <3>2. rows[tx[w].row] \in Row
      BY <1>2, <2>1, <3>1 DEF Present
    <3>3. /\ rows'[tx[w].row] \in Row /\ rows'[tx[w].row].delivery = d
          /\ rows'[tx[w].row].item = rows[tx[w].row].item
          /\ rows'[tx[w].row] # Absent
          /\ rows' \in [Ids -> Row \union {Absent}]
          /\ \A i \in Ids : i # tx[w].row => rows'[i] = rows[i]
      BY <1>2, <2>1, <3>1, <3>2 DEF Row, Absent
    <3>. QED  BY <1>2, <2>1, <3>1, <3>3 DEF Touches, Ids, FreshIds, Present
  <2>3. CASE ~tx[w].dirty
    <3>1. rows' = rows
      BY <1>6, <2>3 DEF CommitModifyCount
    <3>. QED  BY <1>2, <2>1, <3>1 DEF Touches, Ids, FreshIds, Present
  <2>. QED  BY <2>2, <2>3
<1>7. CASE CommitDelivery(w)
  <2>1. /\ inserted' = inserted /\ rows' = rows /\ status[d] # "none"
        /\ tx[w].status \in Status
    BY <1>7, <1>1, IdleIsNone DEF CommitDelivery, Inv, AddsNew, Transaction
  <2>2. status' = status \/ status' = [status EXCEPT ![d] = tx[w].status]
    BY <1>7 DEF CommitDelivery
  <2>. QED  BY <1>2, <2>1, <2>2 DEF Touches, Ids, FreshIds, Present, Status
<1>. QED  BY <1>3, <1>4, <1>5, <1>6, <1>7 DEF Commit

(* A commit that was alone on its delivery leaves no item there twice.     *)
LEMMA CommitOnePerItem ==
    ASSUME Inv, NEW w \in Workers, Commit(w), NEW d \in Deliveries, d = tx[w].delivery,
           d \notin clash
    PROVE  \A i, j \in RowsOf(d)' : rows'[i].item = rows'[j].item => i = j
<1>1. Touches(d) /\ FreshIds /\ Types /\ inserted \in Nat
  BY CommitTouches DEF Inv, Types
<1>2. \A i, j \in RowsOf(d) : rows[i].item = rows[j].item => i = j
  BY DEF Inv, OneRowPerItem
<1>3. tx[w] \in Transaction
  BY DEF Commit, CommitAddDelivery, CommitAddItem, CommitDeleteItem, CommitModifyCount,
         CommitDelivery, Inv, Types
<1>4. \A i \in Ids : i <= inserted /\ i \in RowsOf(d)' =>
            i \in RowsOf(d) /\ rows'[i].item = rows[i].item
  BY <1>1 DEF Touches, RowsOf, Present
<1>5. ASSUME \A i \in RowsOf(d)' : i <= inserted
      PROVE  \A i, j \in RowsOf(d)' : rows'[i].item = rows'[j].item => i = j
  BY <1>2, <1>4, <1>5 DEF RowsOf
<1>6. CASE CommitAddDelivery(w)
  <2>1. Insert(d, Items, Ordered) /\ RowsOf(d) = {}
    BY <1>3, <1>6 DEF CommitAddDelivery, Inv, AddsNew, NoneYet
  <2>2. \A i \in RowsOf(d)' : i \in Ids /\ i > inserted /\ rows'[i] # Absent
    BY <1>1, <1>4, <2>1 DEF RowsOf, Present, Ids
  <2>. QED  BY <1>1, <2>1, <2>2, InsertKeeps, ItemsAssumption
<1>7. CASE CommitAddItem(w)
  <2> DEFINE item == tx[w].item
  <2>1. Insert(d, {item}, tx[w].count) /\ item \in Items /\ tx[w].count \in Nat
    BY <1>3, <1>7 DEF CommitAddItem, Transaction
  <2>2. ~Exists(d, item)
    BY <1>3, <1>7, IdleIsNone DEF CommitAddItem, Inv, FoundHolds, Holds
  <2>3. \A i \in RowsOf(d)' : i \in Ids /\ rows'[i] # Absent
    BY DEF RowsOf, Present
  <2>4. \A i \in RowsOf(d)' : i <= inserted => rows'[i].item # item
    BY <1>4, <2>2, <2>3 DEF Exists
  <2>5. \A i \in RowsOf(d)' : i > inserted => rows'[i].item = item
    <3>1. \A i \in Ids : i > inserted /\ rows'[i] # Absent => rows'[i].item \in {item}
      BY <1>1, <2>1, InsertKeeps
    <3>. QED  BY <2>3, <3>1
  <2>6. \A i, j \in RowsOf(d)' : i > inserted /\ j > inserted
              /\ rows'[i].item = rows'[j].item => i = j
    BY <1>1, <2>1, <2>3, InsertKeeps
  <2>7. \A i \in RowsOf(d)' : i <= inserted \/ i > inserted
    BY <1>1, <2>3 DEF Ids
  <2>8. \A i, j \in RowsOf(d)' : i <= inserted /\ j <= inserted
              /\ rows'[i].item = rows'[j].item => i = j
    BY <1>2, <1>4, <2>3
  <2>. QED  BY <2>4, <2>5, <2>6, <2>7, <2>8
<1>8. CASE CommitDeleteItem(w) \/ CommitModifyCount(w) \/ CommitDelivery(w)
  <2>1. inserted' = inserted
    BY <1>8 DEF CommitDeleteItem, CommitModifyCount, CommitDelivery
  <2>2. \A i \in RowsOf(d)' : i <= inserted
    BY <1>1, <2>1 DEF Touches, RowsOf, Present, Ids
  <2>. QED  BY <1>5, <2>2
<1>. QED  BY <1>6, <1>7, <1>8 DEF Commit

LEMMA CommitInv ==
    ASSUME Inv, NEW w \in Workers, Commit(w)
    PROVE  Inv'
<1>1. tx[w] # Idle /\ Close(w) /\ clash' = clash
  BY DEF Commit, CommitAddDelivery, CommitAddItem, CommitDeleteItem, CommitModifyCount,
         CommitDelivery, Reload, ShowSaved
<1>2. tx[w] \in Transaction
  BY <1>1 DEF Inv, Types
<1>3. PICK d \in Deliveries : d = tx[w].delivery
  BY <1>2 DEF Transaction
<1>4. Touches(d)
  BY <1>3, CommitTouches
<1>5. d \notin clash => \A i, j \in RowsOf(d)' : rows'[i].item = rows'[j].item => i = j
  BY <1>3, CommitOnePerItem
<1>6. \A t \in Tabs : tx[w].tab = t => page[t].id # NoDelivery
  BY <1>1 DEF Inv, OpenedBeforeShown
<1>7. CASE ShowSaved(w)
  <2>1. tx[w].status \in Status /\ page \in [Tabs -> Page]
    BY <1>2 DEF Transaction, Inv, Types
  <2>2. loading' = loading /\ page' = [t \in Tabs |->
            IF t = tx[w].tab THEN [page[t] EXCEPT !.status = tx[w].status] ELSE page[t]]
    BY <1>7 DEF ShowSaved
  <2>3. /\ page' \in [Tabs -> Page]
        /\ \A t \in Tabs : /\ page'[t].id = page[t].id /\ page'[t].rows = page[t].rows
                           /\ page'[t] # page[t] => t = tx[w].tab
    <3>1. ASSUME NEW t \in Tabs
          PROVE  /\ page'[t] \in Page
                 /\ page'[t].id = page[t].id /\ page'[t].rows = page[t].rows
                 /\ page'[t] # page[t] => t = tx[w].tab
      <4>1. page[t] \in Page
        BY <2>1
      <4>. QED  BY <2>1, <2>2, <4>1 DEF Page
    <3>. QED  BY <2>2, <3>1
  <2>. QED  BY <1>1, <1>3, <1>4, <1>5, <1>6, <2>2, <2>3, CommitKeeps DEF Inv, Types
<1>8. CASE Reload(w)
  <2>1. page' = page /\ loading' = [t \in Tabs |->
            IF t = tx[w].tab THEN loading[t] \union {page[t].id} ELSE loading[t]]
    BY <1>8 DEF Reload
  <2>2. loading' \in [Tabs -> SUBSET (Deliveries \union {NoDelivery})]
    <3>1. ASSUME NEW t \in Tabs
          PROVE  /\ page[t].id \in Deliveries \union {NoDelivery}
                 /\ loading[t] \in SUBSET (Deliveries \union {NoDelivery})
      BY DEF Inv, Types, Page
    <3>. QED  BY <2>1, <3>1
  <2>3. \A t \in Tabs : /\ loading'[t] # loading[t] => page[t].id # NoDelivery
                         /\ loading'[t] \subseteq loading[t] \union {page[t].id}
    BY <1>6, <2>1
  <2>4. page \in [Tabs -> Page]
    BY DEF Inv, Types
  <2>. QED  BY <1>1, <1>3, <1>4, <1>5, <2>1, <2>2, <2>3, <2>4, CommitKeeps
<1>. QED
  BY <1>7, <1>8 DEF Commit, CommitAddDelivery, CommitAddItem, CommitDeleteItem,
         CommitModifyCount, CommitDelivery

LEMMA PageInv ==
    ASSUME Inv, NEW t \in Tabs, NEW d \in Deliveries, OpenDelivery(t, d) \/ Show(t, d)
    PROVE  Inv'
<1>1. UNCHANGED <<status, rows, inserted, tx, clash>>
  BY DEF OpenDelivery, Show, dbVars
<1>2. /\ page[t] \in Page /\ d # NoDelivery
      /\ page \in [Tabs -> Page]
      /\ loading \in [Tabs -> SUBSET (Deliveries \union {NoDelivery})]
  BY ItemsAssumption DEF Inv, Types
<1>3. status[d] \in Status
  BY DEF OpenDelivery, Show, Inv, Types, NoneYet
<1>4. /\ page' \in [Tabs -> Page]
      /\ loading' \in [Tabs -> SUBSET (Deliveries \union {NoDelivery})]
      /\ \A u \in Tabs : u # t => page'[u] = page[u] /\ loading'[u] = loading[u]
      /\ page'[t].id = page[t].id \/ page'[t].id = d
      /\ page'[t].id # NoDelivery
      /\ loading'[t] \subseteq loading[t] \union {d}
  <2>1. CASE OpenDelivery(t, d)
    <3> DEFINE p == [page[t] EXCEPT !.id = d]
    <3>1. p \in Page /\ p.id = d
      BY <1>2 DEF Page
    <3>2. page' = [page EXCEPT ![t] = p] /\ loading' = [loading EXCEPT ![t] = @ \union {d}]
      BY <2>1 DEF OpenDelivery
    <3>. HIDE DEF p
    <3>. QED  BY <1>2, <3>1, <3>2
  <2>2. CASE Show(t, d)
    <3> DEFINE new == IF Changeable(d) THEN RowsOf(d) ELSE {}
               p == [page[t] EXCEPT !.status = status[d], !.rows = new]
    <3>1. page[t].id # NoDelivery
      BY <2>2 DEF Show, Inv, OpenedBeforeShown
    <3>2. p \in Page /\ p.id = page[t].id
      BY <1>2, <1>3 DEF Page, RowsOf
    <3>3. page' = [page EXCEPT ![t] = p] /\ loading' = [loading EXCEPT ![t] = @ \ {d}]
      BY <2>2 DEF Show
    <3>. HIDE DEF p
    <3>. QED  BY <1>2, <3>1, <3>2, <3>3
  <2>. QED  BY <2>1, <2>2
<1>5. Types'
  BY <1>1, <1>4 DEF Inv, Types
<1>6. NoneYet'
  BY <1>1, <1>3, <1>4 DEF Inv, NoneYet, RowsOf, Present, Status
<1>7. OpenedBeforeShown'
  BY <1>1, <1>4 DEF Inv, OpenedBeforeShown
<1>8. (FreshIds /\ Alone /\ AddsNew /\ FoundHolds /\ RowsStay /\ OneRowPerItem)'
  BY <1>1 DEF Inv, FreshIds, Alone, AddsNew, FoundHolds, RowsStay, OneRowPerItem, On,
              Holds, Exists, Found, Changeable, RowsOf, Present
<1>. QED  BY <1>5, <1>6, <1>7, <1>8 DEF Inv

LEMMA RollbackInv ==
    ASSUME Inv, NEW w \in Workers, Rollback(w)
    PROVE  Inv'
<1>1. UNCHANGED <<status, rows, inserted, page, loading, clash>> /\ Close(w)
  BY DEF Rollback, dbVars
<1>2. /\ tx'[w] = Idle /\ \A v \in Workers \ {w} : tx'[v] = tx[v]
      /\ tx' \in [Workers -> Transaction \union {Idle}]
  BY <1>1 DEF Close, Inv, Types
<1>3. Types' /\ FreshIds' /\ NoneYet' /\ OneRowPerItem'
  BY <1>1, <1>2 DEF Inv, Types, FreshIds, NoneYet, OneRowPerItem, RowsOf, Present
<1>4. OpenedBeforeShown'
  <2>1. ASSUME NEW t \in Tabs, NEW v \in Workers, tx'[v] # Idle, tx'[v].tab = t
        PROVE  page[t].id # NoDelivery
    <3>1. v # w /\ tx'[v] = tx[v]
      BY <1>2, <2>1
    <3>. QED  BY <2>1, <3>1 DEF Inv, OpenedBeforeShown
  <2>. QED  BY <1>1, <2>1 DEF Inv, OpenedBeforeShown
<1>7. Alone'
  BY <1>1, <1>2 DEF Inv, Alone, On
<1>5. AddsNew' /\ RowsStay'
  BY <1>1, <1>2 DEF Inv, AddsNew, RowsStay, On, Present, Idle
<1>6. FoundHolds'
  BY <1>1, <1>2 DEF Inv, FoundHolds, Holds, Exists, Found, Changeable, RowsOf, Present
<1>. QED  BY <1>3, <1>4, <1>5, <1>6, <1>7 DEF Inv

LEMMA StutterInv == Inv /\ UNCHANGED vars => Inv'
<1> SUFFICES ASSUME Inv, UNCHANGED vars PROVE Inv'
  OBVIOUS
<1>1. Types' /\ FreshIds' /\ NoneYet' /\ OneRowPerItem'
  BY DEF Inv, vars, Types, FreshIds, NoneYet, OneRowPerItem, RowsOf, Present
<1>2. OpenedBeforeShown' /\ Alone'
  BY DEF Inv, vars, OpenedBeforeShown, Alone, On
<1>3. AddsNew' /\ RowsStay'
  BY DEF Inv, vars, AddsNew, RowsStay, On, Present
<1>4. FoundHolds'
  BY DEF Inv, vars, FoundHolds, Holds, Exists, Found, Changeable, RowsOf, Present
<1>. QED  BY <1>1, <1>2, <1>3, <1>4 DEF Inv

LEMMA StepInv == Inv /\ [Next]_vars => Inv'
<1>1. ASSUME Inv, NEW t \in Tabs, NEW d \in Deliveries, OpenDelivery(t, d) \/ Show(t, d)
      PROVE  Inv'
  BY <1>1, PageInv
<1>2. ASSUME Inv, NEW w \in Workers, NEW t \in Tabs, Submit(w, t) PROVE Inv'
  BY <1>2, SubmitKeeps
<1>3. ASSUME Inv, NEW w \in Workers, NEW d \in Deliveries, SubmitElsewhere(w, d) PROVE Inv'
  BY <1>3, SubmitElsewhereKeeps
<1>4. ASSUME Inv, NEW w \in Workers, Commit(w) PROVE Inv'
  BY <1>4, CommitInv
<1>5. ASSUME Inv, NEW w \in Workers, Rollback(w) PROVE Inv'
  BY <1>5, RollbackInv
<1>. QED  BY <1>1, <1>2, <1>3, <1>4, <1>5, StutterInv DEF Next

LEMMA SpecInv == Spec => []Inv
<1>1. Init => Inv
  BY InitInv
<1>2. Inv /\ [Next]_vars => Inv'
  BY StepInv
<1>. QED  BY <1>1, <1>2, PTL DEF Spec

-----------------------------------------------------------------------------
(* Whatever tabs, stale pages and request threads there are, a delivery    *)
(* no two requests met on holds an item once (addDeliveryItem).            *)
THEOREM OneRowPerItemHolds == Spec => []OneRowPerItem
<1>1. Inv => OneRowPerItem
  BY DEF Inv
<1>. QED  BY <1>1, SpecInv, PTL

(* Only a commit changes the rows. *)
LEMMA OnlyCommits ==
    ASSUME Next, rows' # rows
    PROVE  \E w \in Workers : Commit(w)
<1>1. ASSUME NEW t \in Tabs, NEW d \in Deliveries PROVE ~OpenDelivery(t, d) /\ ~Show(t, d)
  BY DEF OpenDelivery, Show, dbVars
<1>2. ASSUME NEW w \in Workers, NEW q PROVE ~Begin(w, q)
  BY DEF Begin, dbVars
<1>3. ASSUME NEW w \in Workers, NEW t \in Tabs PROVE ~Submit(w, t)
  BY <1>2 DEF Submit, BeginAddItem, BeginDeleteItem, BeginModifyCount, BeginUpdateStatus
<1>4. ASSUME NEW w \in Workers, NEW d \in Deliveries PROVE ~SubmitElsewhere(w, d)
  BY <1>2 DEF SubmitElsewhere, BeginUpdateDetails, BeginDeleteDelivery, BeginAddDelivery
<1>5. ASSUME NEW w \in Workers PROVE ~Rollback(w)
  BY DEF Rollback, dbVars
<1>. QED  BY <1>1, <1>3, <1>4, <1>5 DEF Next

(* A row changes only by the commit of a request addressed to its own      *)
(* delivery (findByDeliveryIdAndId).                                       *)
THEOREM OwnDeliveryHolds == Spec => OwnDelivery
<1>1. ASSUME Inv, [Next]_vars, NEW i \in Ids, Present(i), rows'[i] # rows[i]
      PROVE  \E w \in Workers : On(w, rows[i].delivery) /\ tx'[w] = Idle
  <2>1. PICK w \in Workers : Commit(w)
    BY <1>1, OnlyCommits DEF vars
  <2>2. tx[w] # Idle /\ Close(w) /\ tx[w] \in Transaction
    BY <1>1, <2>1 DEF Commit, CommitAddDelivery, CommitAddItem, CommitDeleteItem,
       CommitModifyCount, CommitDelivery, Reload, ShowSaved, Inv, Types
  <2>3. PICK d \in Deliveries : d = tx[w].delivery
    BY <2>2 DEF Transaction
  <2>4. Touches(d) /\ i <= inserted
    BY <1>1, <2>1, <2>3, CommitTouches DEF Inv, FreshIds, Types, Ids
  <2>5. rows[i].delivery = d
    BY <1>1, <2>4 DEF Touches
  <2>. QED  BY <1>1, <2>2, <2>3, <2>5 DEF On, Close, Inv, Types
<1>2. Inv /\ [Next]_vars => [\A i \in Ids : Present(i) /\ rows'[i] # rows[i] =>
        \E w \in Workers : On(w, rows[i].delivery) /\ tx'[w] = Idle]_vars
  BY <1>1
<1>. QED  BY <1>2, SpecInv, PTL DEF Spec, OwnDelivery

(* Rows of a delivery that has left are neither removed nor changed unless *)
(* two requests met on it (deleteDeliveryItem, modifyDeliveryItemCount).   *)
THEOREM FrozenOnceShippedHolds == Spec => FrozenOnceShipped
<1>1. ASSUME Inv, [Next]_vars, NEW i \in Ids, Present(i),
             status[rows[i].delivery] # "REQUESTED", rows[i].delivery \notin clash
      PROVE  rows'[i] = rows[i]
  <2>1. SUFFICES ASSUME rows'[i] # rows[i] PROVE FALSE
    OBVIOUS
  <2>2. PICK w \in Workers : Commit(w)
    BY <2>1, <1>1, OnlyCommits DEF vars
  <2>3. tx[w] # Idle /\ tx[w] \in Transaction
    BY <1>1, <2>2 DEF Commit, CommitAddDelivery, CommitAddItem, CommitDeleteItem,
       CommitModifyCount, CommitDelivery, Inv, Types
  <2>4. PICK d \in Deliveries : d = tx[w].delivery
    BY <2>3 DEF Transaction
  <2>5. Touches(d) /\ i <= inserted /\ Types /\ FreshIds
    BY <1>1, <2>2, <2>4, CommitTouches DEF Inv, FreshIds, Types, Ids
  <2>6. rows[i].delivery = d
    BY <1>1, <2>1, <2>5 DEF Touches
  <2>7. Holds(w)
    BY <1>1, <2>3, <2>4, <2>6 DEF Inv, FoundHolds
  <2>8. CASE CommitAddDelivery(w)
    BY <2>1, <2>4, <2>5, <2>8, InsertKeeps, ItemsAssumption DEF CommitAddDelivery
  <2>9. CASE CommitAddItem(w)
    BY <2>1, <2>3, <2>4, <2>5, <2>9, InsertKeeps DEF CommitAddItem, Transaction
  <2>10. CASE CommitDeleteItem(w) \/ CommitModifyCount(w)
    BY <1>1, <2>4, <2>6, <2>7, <2>10
       DEF CommitDeleteItem, CommitModifyCount, Holds, Changeable
  <2>11. CASE CommitDelivery(w)
    BY <2>1, <2>11 DEF CommitDelivery
  <2>. QED  BY <2>2, <2>8, <2>9, <2>10, <2>11 DEF Commit
<1>2. Inv /\ [Next]_vars => [\A i \in Ids : Present(i) => LET d == rows[i].delivery
        IN  status[d] # "REQUESTED" /\ d \notin clash => rows'[i] = rows[i]]_vars
  BY <1>1
<1>. QED  BY <1>2, SpecInv, PTL DEF Spec, FrozenOnceShipped

-----------------------------------------------------------------------------
(* Ids are given up to MaxRows, and requests meet on deliveries only. *)
Bounds == inserted <= MaxRows /\ clash \subseteq Deliveries

LEMMA CommitBounds == ASSUME Inv, Bounds, NEW w \in Workers, Commit(w) PROVE Bounds'
<1>1. UNCHANGED clash
  BY DEF Commit, CommitAddDelivery, CommitAddItem, CommitDeleteItem, CommitModifyCount,
         CommitDelivery, Reload, ShowSaved
<1>2. inserted' <= MaxRows
  <2>1. CASE CommitAddDelivery(w) \/ CommitAddItem(w)
    BY <2>1 DEF CommitAddDelivery, CommitAddItem, Insert
  <2>2. CASE CommitDeleteItem(w) \/ CommitModifyCount(w) \/ CommitDelivery(w)
    BY <2>2 DEF CommitDeleteItem, CommitModifyCount, CommitDelivery, Bounds
  <2>. QED  BY <2>1, <2>2 DEF Commit
<1>. QED  BY <1>1, <1>2 DEF Bounds

LEMMA NextBounds == Inv /\ Bounds /\ [Next]_vars => Bounds'
<1> SUFFICES ASSUME Inv, Bounds, [Next]_vars PROVE Bounds'
  OBVIOUS
<1>1. ASSUME NEW w \in Workers, NEW q, q.delivery \in Deliveries, Begin(w, q) PROVE Bounds'
  BY <1>1 DEF Begin, dbVars, Bounds
<1>2. ASSUME NEW w \in Workers, NEW t \in Tabs, Submit(w, t) PROVE Bounds'
  <2>1. page[t].id # NoDelivery
    BY <1>2 DEF Submit, BeginAddItem, BeginDeleteItem, BeginModifyCount, BeginUpdateStatus,
                MayAddItem, MayPress, MayUpdateStatus, Inv, OpenedBeforeShown
  <2>2. page[t].id \in Deliveries
    BY <2>1, OpenedExists
  <2>. QED  BY <1>1, <1>2, <2>2
    DEF Submit, BeginAddItem, BeginDeleteItem, BeginModifyCount, BeginUpdateStatus, Request
<1>3. ASSUME NEW w \in Workers, NEW d \in Deliveries, SubmitElsewhere(w, d) PROVE Bounds'
  BY <1>1, <1>3
  DEF SubmitElsewhere, BeginUpdateDetails, BeginDeleteDelivery, BeginAddDelivery, Request
<1>4. ASSUME NEW t \in Tabs, NEW d \in Deliveries, OpenDelivery(t, d) \/ Show(t, d) PROVE Bounds'
  BY <1>4 DEF OpenDelivery, Show, dbVars, Bounds
<1>5. ASSUME NEW w \in Workers, Rollback(w) PROVE Bounds'
  BY <1>5 DEF Rollback, dbVars, Bounds
<1>6. CASE UNCHANGED vars
  BY <1>6 DEF vars, dbVars, Bounds
<1>. QED  BY <1>2, <1>3, <1>4, <1>5, <1>6, CommitBounds DEF Next

(* The tables, the pages and the transactions hold values of their types.  *)
THEOREM TypeOKHolds == Spec => []TypeOK
<1>1. Init => Bounds
  BY ItemsAssumption DEF Init, Bounds
<1>2. Inv /\ Bounds /\ [Next]_vars => Bounds'
  BY NextBounds
<1>3. Inv /\ Bounds => TypeOK
  BY ItemsAssumption DEF Inv, Types, Bounds, TypeOK
<1>. QED  BY <1>1, <1>2, <1>3, SpecInv, PTL DEF Spec
===============================================================================
