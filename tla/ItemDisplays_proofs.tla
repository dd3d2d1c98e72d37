-------------------------- MODULE ItemDisplays_proofs --------------------------
(***************************************************************************)
(* Proofs about the display page and the listings: for any masters,        *)
(* prices, discount, number of request threads and bounds, the types hold, *)
(* an admin who waits leaves one display to a master, and the price        *)
(* history explains the price.                                             *)
(*                                                                         *)
(* None of the invariants is inductive: they hold because of what open     *)
(* listings and requests under way hold in their hands. The parts of IInv  *)
(* say that.                                                               *)
(***************************************************************************)
EXTENDS ItemDisplays, SequenceTheorems, FiniteSetTheorems, TLAPS

Made == Cardinality(DOMAIN made)
Listing == [id: DOMAIN made, row: Row, add: Seq(PriceRow)]
Open_tx == {w \in Workers : tx[w] # Idle}

-----------------------------------------------------------------------------
DataTypes ==
    /\ price \in [Masters -> Prices]
    /\ display \in [Displays -> Row]
    /\ history \in [Displays -> Seq(PriceRow)]
    /\ event \subseteq Displays /\ store \subseteq Nat
    /\ tx \in [Workers -> {Idle} \union Listing]
    /\ made \in [DOMAIN made -> Masters]
    /\ entered \subseteq Ids /\ drifted \subseteq Ids
    /\ saving \in Seq(Write) /\ acts \in 0..MaxActs
PageTypes ==
    /\ page \in Masters \union {NoMaster} /\ form \in Ids \union {NoId}
    /\ loading \in Seq(Masters)
    /\ lost \in BOOLEAN /\ hasty \in BOOLEAN /\ retried \in BOOLEAN

(* Ids are given out one after the other, never twice, one for each request *)
(* at most; only an open page sends any.                                    *)
IdsOnce ==
    /\ Made \in Nat /\ DOMAIN made = 1..Made
    /\ Displays \subseteq DOMAIN made
    /\ Made + Len(saving) <= acts
    /\ saving # <<>> => page \in Masters

(* What an admin who waits has under way, and what the form then says. *)
FormFits ==
    \/ form = NoId /\ DisplaysOf(page) = {}
    \/ form \in DisplaysOf(page)
Waiting ==
    ~hasty /\ ~retried =>
        /\ Len(loading) + Len(saving) <= 1
        /\ loading # <<>> => loading[1] = page /\ form = NoId
        /\ saving # <<>> => /\ ~lost
                            /\ saving[1].master = page /\ saving[1].id = form
                            /\ saving[1].op = "save" <=> form = NoId
        /\ loading = <<>> /\ ~lost => FormFits

(* A master's displays are one, and rows in hand keep the master. *)
OneEach ==
    ~hasty /\ ~retried =>
        /\ \A d \in Displays : display[d].master = made[d]
        /\ \A d, e \in Displays : display[d].master = display[e].master => d = e
        /\ \A w \in Open_tx : tx[w].row.master = made[tx[w].id]

(* The rows of a price history are numbered up to their number at most, by *)
(* those in hand as well.                                                  *)
Bounded(h) == Len(h) > 0 /\ \A k \in DOMAIN h : h[k].seq <= Len(h)
AddsOne(t, h) == Len(t.add) = 1 /\ t.add[1].seq <= Len(h) + 1 /\ t.add[1].price = t.row.price
Numbered ==
    /\ \A d \in Displays : Bounded(history[d])
    /\ \A w \in Open_tx :
        tx[w].id \in Displays /\ tx[w].add # <<>> => AddsOne(tx[w], history[tx[w].id])

(* The top rows of a history agree; an open listing of a display sells it  *)
(* at the price of the event, and what it adds leaves that price on top.   *)
Top(h, k) == \A j \in DOMAIN h : h[j].seq <= h[k].seq
TopIs(h, p) == \A k \in DOMAIN h : Top(h, k) => h[k].price = p
FromOnIs(h, s, p) == \A k \in DOMAIN h : h[k].seq >= s => h[k].price = p
Agreeing(h) == \A j, k \in DOMAIN h : Top(h, j) /\ Top(h, k) => h[j].price = h[k].price
Sells(t, h) ==
    IF t.add = <<>> THEN TopIs(h, t.row.price)
                    ELSE FromOnIs(h, t.add[1].seq, t.row.price)
Agree ==
    /\ \A d \in Displays \ drifted : Agreeing(history[d])
    /\ \A w \in Open_tx : tx[w].id \in Displays \ drifted =>
        /\ tx[w].row.master = display[tx[w].id].master
        /\ tx[w].row.price = EventPrice(tx[w].id)
        /\ Sells(tx[w], history[tx[w].id])
Explained ==
    \A d \in Displays \ (entered \union drifted) : TopIs(history[d], display[d].price)

DataInv ==
    /\ DataTypes /\ IdsOnce /\ OneEach
    /\ Numbered /\ Agree /\ Explained

IInv == DataInv /\ PageTypes /\ Waiting

-----------------------------------------------------------------------------
(* A sequence without one of its entries. *)
LEMMA RemovedEntry ==
    ASSUME NEW S, NEW s \in Seq(S), NEW k \in DOMAIN s
    PROVE  /\ RemoveAt(s, k) \in Seq(S)
           /\ Len(RemoveAt(s, k)) = Len(s) - 1
           /\ \A j \in DOMAIN RemoveAt(s, k) :
                /\ j \in DOMAIN s /\ j + 1 \in DOMAIN s
                /\ RemoveAt(s, k)[j] = IF j < k THEN s[j] ELSE s[j + 1]
<1> DEFINE l == SubSeq(s, 1, k - 1)
           r == SubSeq(s, k + 1, Len(s))
<1>1. /\ k \in 1..Len(s) /\ DOMAIN s = 1..Len(s) /\ Len(s) \in Nat
  BY LenProperties
<1>2. /\ l \in Seq(S) /\ Len(l) = k - 1
      /\ \A j \in 1..(k - 1) : l[j] = s[j]
  BY <1>1, SubSeqProperties
<1>3. /\ r \in Seq(S) /\ Len(r) = Len(s) - k
      /\ \A j \in 1..(Len(s) - k) : r[j] = s[k + j]
  BY <1>1, SubSeqProperties
<1> HIDE DEF l, r
<1>4. /\ l \o r \in Seq(S) /\ Len(l \o r) = Len(s) - 1
      /\ \A j \in 1..(Len(s) - 1) : (l \o r)[j] = IF j <= Len(l) THEN l[j] ELSE r[j - Len(l)]
  <2>1. /\ l \o r \in Seq(S) /\ Len(l \o r) = Len(l) + Len(r)
        /\ \A j \in 1..(Len(l) + Len(r)) :
              (l \o r)[j] = IF j <= Len(l) THEN l[j] ELSE r[j - Len(l)]
    BY <1>2, <1>3, ConcatProperties
  <2>2. Len(l) + Len(r) = Len(s) - 1
    BY <1>1, <1>2, <1>3
  <2> QED
    BY <2>1, <2>2
<1>5. RemoveAt(s, k) = l \o r
  BY DEF RemoveAt, l, r
<1>6. ASSUME NEW j \in 1..(Len(s) - 1)
      PROVE  (l \o r)[j] = IF j < k THEN s[j] ELSE s[j + 1]
  <2>1. CASE j < k
    <3>1. j <= Len(l) /\ j \in 1..(k - 1)
      BY <1>1, <1>2, <2>1
    <3> QED
      BY <1>2, <1>4, <2>1, <3>1
  <2>2. CASE ~(j < k)
    <3>1. (l \o r)[j] = r[j - (k - 1)] /\ j - (k - 1) \in 1..(Len(s) - k)
      BY <1>1, <1>2, <1>4, <2>2
    <3>2. r[j - (k - 1)] = s[k + (j - (k - 1))] /\ k + (j - (k - 1)) = j + 1
      BY <1>1, <1>3, <3>1
    <3> QED
      BY <1>1, <2>2, <3>1, <3>2
  <2> QED
    BY <2>1, <2>2
<1>7. DOMAIN (l \o r) = 1..(Len(s) - 1)
  BY <1>4, LenProperties
<1>8. \A j \in 1..(Len(s) - 1) : j \in DOMAIN s /\ j + 1 \in DOMAIN s
  BY <1>1
<1> QED
  BY <1>4, <1>5, <1>6, <1>7, <1>8

(* A sequence with one entry more. *)
LEMMA AddedEntry ==
    ASSUME NEW S, NEW s \in Seq(S), NEW e \in S
    PROVE  /\ s \o <<e>> \in Seq(S) /\ Len(s \o <<e>>) = Len(s) + 1
           /\ DOMAIN (s \o <<e>>) = DOMAIN s \union {Len(s) + 1}
           /\ Len(s) + 1 \notin DOMAIN s
           /\ (s \o <<e>>)[Len(s) + 1] = e
           /\ \A k \in DOMAIN s : (s \o <<e>>)[k] = s[k]
<1>1. <<e>> \in Seq(S) /\ Len(<<e>>) = 1 /\ <<e>>[1] = e
  OBVIOUS
<1>2. DOMAIN s = 1..Len(s) /\ Len(s) \in Nat
  BY LenProperties
<1> DEFINE f == <<e>>
<1> HIDE DEF f
<1>3. f \in Seq(S) /\ Len(f) = 1 /\ f[1] = e
  BY <1>1 DEF f
<1>4. /\ s \o f \in Seq(S) /\ Len(s \o f) = Len(s) + 1
      /\ \A k \in 1..(Len(s) + 1) : (s \o f)[k] = IF k <= Len(s) THEN s[k] ELSE f[k - Len(s)]
  <2>1. /\ s \o f \in Seq(S) /\ Len(s \o f) = Len(s) + Len(f)
        /\ \A k \in 1..(Len(s) + Len(f)) :
              (s \o f)[k] = IF k <= Len(s) THEN s[k] ELSE f[k - Len(s)]
    BY <1>3, ConcatProperties
  <2> QED
    BY <1>3, <2>1
<1>5. DOMAIN (s \o f) = 1..(Len(s) + 1)
  BY <1>4, LenProperties
<1>6. (s \o f)[Len(s) + 1] = e
  BY <1>2, <1>3, <1>4
<1>7. DOMAIN (s \o f) = DOMAIN s \union {Len(s) + 1} /\ Len(s) + 1 \notin DOMAIN s
  BY <1>2, <1>5
<1>8. \A k \in DOMAIN s : (s \o f)[k] = s[k]
  BY <1>2, <1>4
<1> QED
  BY <1>4, <1>6, <1>7, <1>8 DEF f

-----------------------------------------------------------------------------
(* What a listing adds to a history. *)
LEMMA Adding ==
    ASSUME NEW h \in Seq(PriceRow), NEW t, t.add \in Seq(PriceRow), t.add # <<>>, AddsOne(t, h)
    PROVE  /\ h \o t.add \in Seq(PriceRow) /\ Len(h \o t.add) = Len(h) + 1
           /\ DOMAIN (h \o t.add) = DOMAIN h \union {Len(h) + 1}
           /\ Len(h) + 1 \notin DOMAIN h
           /\ (h \o t.add)[Len(h) + 1] = t.add[1]
           /\ \A k \in DOMAIN h : (h \o t.add)[k] = h[k]
           /\ t.add[1] \in PriceRow /\ Len(h) \in Nat
<1>1. t.add = <<t.add[1]>> /\ t.add[1] \in PriceRow
  BY DEF AddsOne
<1>2. Len(h) \in Nat
  OBVIOUS
<1> DEFINE e == t.add[1]
<1>3. e \in PriceRow /\ t.add = <<e>>
  BY <1>1
<1> HIDE DEF e
<1>4. /\ h \o <<e>> \in Seq(PriceRow) /\ Len(h \o <<e>>) = Len(h) + 1
      /\ DOMAIN (h \o <<e>>) = DOMAIN h \union {Len(h) + 1}
      /\ Len(h) + 1 \notin DOMAIN h
      /\ (h \o <<e>>)[Len(h) + 1] = e
      /\ \A k \in DOMAIN h : (h \o <<e>>)[k] = h[k]
  BY <1>3, AddedEntry
<1> QED
  BY <1>2, <1>3, <1>4 DEF e

LEMMA AddingNothing ==
    ASSUME NEW h \in Seq(PriceRow), NEW t, t.add = <<>>
    PROVE  h \o t.add = h
  BY ConcatEmptySeq

(* Numbers stay within the number of rows. *)
LEMMA AddBounded ==
    ASSUME NEW h \in Seq(PriceRow), NEW t, t.add \in Seq(PriceRow),
           Bounded(h), t.add # <<>> => AddsOne(t, h)
    PROVE  /\ h \o t.add \in Seq(PriceRow) /\ Bounded(h \o t.add)
           /\ \A u : u.add[1].seq \in Nat /\ AddsOne(u, h) => AddsOne(u, h \o t.add)
<1>1. CASE t.add = <<>>
  BY <1>1, AddingNothing
<1>2. CASE t.add # <<>>
  <2> DEFINE g == h \o t.add
  <2>1. /\ g \in Seq(PriceRow) /\ Len(g) = Len(h) + 1 /\ Len(h) \in Nat
        /\ DOMAIN g = DOMAIN h \union {Len(h) + 1}
        /\ g[Len(h) + 1] = t.add[1] /\ \A k \in DOMAIN h : g[k] = h[k]
    BY <1>2, Adding
  <2> HIDE DEF g
  <2>2. \A k \in DOMAIN h : h[k] \in PriceRow
    OBVIOUS
  <2>3. Bounded(g)
    <3>1. \A k \in DOMAIN h : g[k].seq \in Nat /\ g[k].seq <= Len(h)
      BY <2>1, <2>2 DEF Bounded, PriceRow
    <3>2. g[Len(h) + 1].seq <= Len(h) + 1
      BY <1>2, <2>1 DEF AddsOne
    <3>3. \A k \in DOMAIN g : g[k].seq <= Len(h) + 1
      BY <2>1, <3>1, <3>2
    <3> QED
      BY <2>1, <3>3 DEF Bounded
  <2>4. \A u : u.add[1].seq \in Nat /\ AddsOne(u, h) => AddsOne(u, g)
    BY <2>1 DEF AddsOne
  <2> QED
    BY <2>1, <2>3, <2>4 DEF g
<1> QED
  BY <1>1, <1>2

(* The price a listing sells at is on top once its row is added. *)
LEMMA AddTop ==
    ASSUME NEW h \in Seq(PriceRow), NEW t, t.add \in Seq(PriceRow),
           t.add # <<>> => AddsOne(t, h), Sells(t, h)
    PROVE  TopIs(h \o t.add, t.row.price)
<1>1. CASE t.add = <<>>
  BY <1>1, AddingNothing DEF Sells
<1>2. CASE t.add # <<>>
  <2> DEFINE g == h \o t.add
  <2>1. /\ DOMAIN g = DOMAIN h \union {Len(h) + 1} /\ Len(h) \in Nat
        /\ g[Len(h) + 1] = t.add[1] /\ \A k \in DOMAIN h : g[k] = h[k]
        /\ t.add[1] \in PriceRow
    BY <1>2, Adding
  <2> HIDE DEF g
  <2>2. \A k \in DOMAIN h : h[k] \in PriceRow
    OBVIOUS
  <2>3. FromOnIs(h, t.add[1].seq, t.row.price) /\ t.add[1].price = t.row.price
    BY <1>2 DEF Sells, AddsOne
  <2>4. TopIs(g, t.row.price)
    BY <2>1, <2>2, <2>3 DEF TopIs, Top, FromOnIs, PriceRow
  <2> QED
    BY <2>4 DEF g
<1> QED
  BY <1>1, <1>2

(* So it is with the listings that are open meanwhile. *)
LEMMA AddSells ==
    ASSUME NEW h \in Seq(PriceRow), NEW t, t.add \in Seq(PriceRow),
           t.add # <<>> => AddsOne(t, h),
           NEW u, Sells(u, h), u.row.price = t.row.price
    PROVE  Sells(u, h \o t.add)
<1>1. CASE t.add = <<>>
  BY <1>1, AddingNothing
<1>2. CASE t.add # <<>>
  <2> DEFINE g == h \o t.add
  <2>1. /\ DOMAIN g = DOMAIN h \union {Len(h) + 1} /\ Len(h) \in Nat
        /\ g[Len(h) + 1] = t.add[1] /\ \A k \in DOMAIN h : g[k] = h[k]
        /\ t.add[1].price = u.row.price
    BY <1>2, Adding DEF AddsOne
  <2> HIDE DEF g
  <2>2. ASSUME u.add = <<>> PROVE Sells(u, g)
    BY <2>1, <2>2 DEF Sells, TopIs, Top
  <2>3. ASSUME u.add # <<>> PROVE Sells(u, g)
    BY <2>1, <2>3 DEF Sells, FromOnIs
  <2>4. Sells(u, g)
    BY <2>2, <2>3
  <2> QED
    BY <2>4 DEF g
<1> QED
  BY <1>1, <1>2
-----------------------------------------------------------------------------
LEMMA EventPriceNat ==
    ASSUME DataTypes, NEW d \in Displays
    PROVE  EventPrice(d) \in Nat
<1> DEFINE p == price[display[d].master]
<1>1. p \in Nat /\ Ratio \in 0..100
  BY ItemAssumption DEF DataTypes, Row
<1> HIDE DEF p
<1>2. p * Ratio \in Nat /\ p * Ratio <= p * 100
  BY <1>1
<1> DEFINE x == p * Ratio
<1>3. x \in Nat /\ x <= p * 100
  BY <1>2
<1> HIDE DEF x
<1>4. x \div 100 \in Nat /\ x \div 100 <= p
  BY <1>1, <1>3
<1>5. p - x \div 100 \in Nat
  BY <1>1, <1>4
<1> QED
  BY <1>1, <1>5 DEF EventPrice, p, x

(* An open listing is one of a display that was made. *)
LEMMA OpenListing ==
    ASSUME DataTypes, IdsOnce, NEW w \in Open_tx
    PROVE  /\ w \in Workers /\ tx[w] \in Listing
           /\ tx[w].id \in DOMAIN made /\ tx[w].id \in Ids
           /\ tx[w].row \in Row /\ tx[w].add \in Seq(PriceRow)
           /\ tx[w].add # <<>> => tx[w].add[1].seq \in Nat
           /\ Listed(tx[w].id)
<1>1. w \in Workers /\ tx[w] \in Listing
  BY DEF DataTypes, Open_tx
<1>2. DOMAIN made \subseteq Ids
  <2>1. Len(saving) \in Nat /\ MaxActs \in Nat /\ acts \in 0..MaxActs
    BY ItemAssumption DEF DataTypes
  <2> QED
    BY <2>1 DEF IdsOnce, Ids
<1>3. tx[w].add \in Seq(PriceRow)
  BY <1>1 DEF Listing
<1>4. tx[w].add # <<>> => tx[w].add[1] \in PriceRow
  BY <1>3
<1> QED
  BY <1>1, <1>2, <1>3, <1>4 DEF Listing, Listed, PriceRow

LEMMA ListedOpen ==
    ASSUME DataTypes, NEW w \in Workers, tx[w].id \in Nat
    PROVE  w \in Open_tx
  BY ItemAssumption DEF Open_tx, Idle

(* The next id is new. *)
LEMMA NextIdFresh ==
    ASSUME DataTypes, IdsOnce
    PROVE  /\ NextId = Made + 1 /\ NextId \notin DOMAIN made /\ NextId \notin Displays
           /\ \A w \in Open_tx : tx[w].id # NextId
           /\ saving # <<>> => NextId \in Ids
<1>1. NextId = Made + 1 /\ Made \in Nat /\ DOMAIN made = 1..Made /\ Displays \subseteq DOMAIN made
  BY DEF NextId, IdsOnce, Made
<1>2. NextId \notin DOMAIN made
  BY <1>1
<1>3. ASSUME saving # <<>> PROVE NextId \in Ids
  <2>1. Len(saving) \in Nat /\ Len(saving) > 0 /\ MaxActs \in Nat
    BY <1>3, ItemAssumption DEF DataTypes
  <2> QED
    BY <1>1, <2>1 DEF IdsOnce, DataTypes, Ids
<1> QED
  BY <1>1, <1>2, <1>3, OpenListing

(* When one each is left, every master can be loaded. *)
LEMMA OneLoadable ==
    ASSUME OneEach, ~hasty /\ ~retried, NEW m
    PROVE  Loadable(m)
<1>1. \A d, e \in DisplaysOf(m) : d = e
  BY DEF OneEach, DisplaysOf
<1>2. CASE DisplaysOf(m) = {}
  BY <1>2, FS_EmptySet DEF Loadable
<1>3. ASSUME NEW d \in DisplaysOf(m) PROVE Loadable(m)
  <2>1. DisplaysOf(m) = {d}
    BY <1>1
  <2>2. Cardinality(DisplaysOf(m)) = 1
    BY <2>1, FS_Singleton
  <2> QED
    BY <2>2 DEF Loadable
<1> QED
  BY <1>2, <1>3

(* What is under way once a request is answered. *)
LEMMA AfterAnswer ==
    ASSUME DataTypes, NEW k \in DOMAIN saving, saving' = RemoveAt(saving, k)
    PROVE  /\ saving' \in Seq(Write) /\ Len(saving') = Len(saving) - 1
<1>1. saving \in Seq(Write)
  BY DEF DataTypes
<1> QED
  BY <1>1, RemovedEntry

-----------------------------------------------------------------------------
LEMMA InitIInv == Init => IInv
<1> SUFFICES ASSUME Init PROVE IInv
  OBVIOUS
<1>1. /\ price \in [Masters -> Prices]
      /\ display = <<>> /\ history = <<>> /\ made = <<>>
      /\ event = {} /\ store = {}
      /\ tx = [w \in Workers |-> Idle]
      /\ page = NoMaster /\ form = NoId /\ loading = <<>> /\ saving = <<>>
      /\ lost = FALSE /\ hasty = FALSE /\ retried = FALSE
      /\ entered = {} /\ drifted = {}
      /\ acts = 0
  BY DEF Init
<1>2. Displays = {} /\ DOMAIN made = {} /\ DOMAIN history = {} /\ Open_tx = {}
  <2>1. Displays = {} /\ DOMAIN made = {} /\ DOMAIN history = {}
    BY <1>1 DEF Displays
  <2>2. Open_tx = {}
    BY <1>1 DEF Open_tx
  <2> QED
    BY <2>1, <2>2
<1>3. Made = 0
  BY <1>2, FS_EmptySet DEF Made
<1>4. Len(saving) = 0 /\ Len(loading) = 0 /\ DOMAIN saving = {}
  BY <1>1
<1>5. /\ price \in [Masters -> Prices]
      /\ display \in [Displays -> Row]
      /\ history \in [Displays -> Seq(PriceRow)]
      /\ made \in [DOMAIN made -> Masters]
  BY <1>1, <1>2
<1>6. tx \in [Workers -> {Idle} \union Listing] /\ saving \in Seq(Write)
      /\ acts \in 0..MaxActs
  BY <1>1, ItemAssumption
<1>7. DataTypes /\ PageTypes
  <2>1. PageTypes
    <3>1. loading \in Seq(Masters)
      BY <1>1
    <3>2. lost \in BOOLEAN /\ hasty \in BOOLEAN /\ retried \in BOOLEAN
      BY <1>1
    <3>3. page \in Masters \union {NoMaster} /\ form \in Ids \union {NoId}
      BY <1>1
    <3> QED
      BY <3>1, <3>2, <3>3 DEF PageTypes
  <2>2. /\ event \subseteq Displays /\ store \subseteq Nat
        /\ entered \subseteq Ids /\ drifted \subseteq Ids
    BY <1>1
  <2>3. DataTypes
    BY <1>5, <1>6, <2>2 DEF DataTypes
  <2> QED
    BY <2>1, <2>3
<1>8. IdsOnce
  BY <1>1, <1>2, <1>3, <1>4 DEF IdsOnce
<1>9. OneEach /\ Numbered /\ Agree /\ Explained
  BY <1>2 DEF OneEach, Numbered, Agree, Explained
<1>10. Waiting
  BY <1>1, <1>2, <1>4 DEF Waiting, FormFits, DisplaysOf
<1> QED
  BY <1>7, <1>8, <1>9, <1>10 DEF IInv, DataInv

-----------------------------------------------------------------------------
(* A listing begins. *)
LEMMA BeginData ==
    ASSUME IInv, NEW w \in Workers, NEW d \in Displays, BeginListing(w, d)
    PROVE  DataInv'
<1>1. /\ acts < MaxActs /\ acts' = acts + 1 /\ tx[w] = Idle
      /\ UNCHANGED <<price, display, history, event, store, saving, hasty, retried, page, made, entered,
                     drifted>>
  BY DEF BeginListing, Act, dbVars, pageVars, ghosts
<1>2. /\ DataTypes /\ IdsOnce /\ OneEach /\ Numbered /\ Agree /\ Explained
  BY DEF IInv, DataInv
<1>3. PICK top \in TopRows(d) :
        tx' = [tx EXCEPT ![w] = [id |-> d, row |-> [display[d] EXCEPT !.price = EventPrice(d)],
                                 add |-> NewRows(d, top)]]
  BY DEF BeginListing
<1> DEFINE n == [id |-> d, row |-> [display[d] EXCEPT !.price = EventPrice(d)],
                 add |-> NewRows(d, top)]
           h == history[d]
           e == EventPrice(d)
<1>4. e \in Nat /\ display[d] \in Row /\ h \in Seq(PriceRow) /\ d \in DOMAIN made
  BY <1>2, EventPriceNat DEF DataTypes, IdsOnce
<1>5. /\ n.id = d /\ n.row \in Row /\ n.row.master = display[d].master
      /\ n.row.image = display[d].image /\ n.row.price = e
      /\ n.add = NewRows(d, top)
  BY <1>4 DEF Row
<1>6. PICK j \in DOMAIN h : top = h[j] /\ Top(h, j)
  <2>1. PICK j \in DOMAIN h : top = h[j]
    BY DEF TopRows, Range
  <2>2. \A i \in DOMAIN h : h[i].seq <= top.seq
    BY DEF TopRows, Range
  <2> QED
    BY <2>1, <2>2 DEF Top
<1>7. n.add = IF top.price = e THEN <<>> ELSE <<[seq |-> Len(h) + 1, price |-> e]>>
  BY <1>5 DEF NewRows
<1> HIDE DEF e
<1>8. n.add \in Seq(PriceRow)
  <2> DEFINE r == [seq |-> Len(h) + 1, price |-> e]
  <2>1. r \in PriceRow
    BY <1>4 DEF PriceRow
  <2>2. n.add = <<>> \/ n.add = <<r>>
    BY <1>7
  <2> HIDE DEF r, n
  <2>3. <<r>> \in Seq(PriceRow)
    BY <2>1
  <2>4. <<>> \in Seq(PriceRow)
    OBVIOUS
  <2> QED
    BY <2>2, <2>3, <2>4, Zenon
<1>9. n.add # <<>> => AddsOne(n, h)
  BY <1>4, <1>5, <1>7 DEF AddsOne
<1>10. d \notin drifted => Sells(n, h)
  <2> SUFFICES ASSUME d \notin drifted PROVE Sells(n, h)
    OBVIOUS
  <2>1. CASE top.price = e
    <3>1. TopIs(h, e)
      BY <1>2, <1>6, <2>1 DEF Agree, Agreeing, TopIs
    <3> QED
      BY <1>5, <1>7, <2>1, <3>1 DEF Sells
  <2>2. CASE top.price # e
    <3>1. n.add # <<>> /\ n.add[1].seq = Len(h) + 1
      BY <1>7, <2>2
    <3>2. \A i \in DOMAIN h : h[i] \in PriceRow /\ h[i].seq <= Len(h)
      BY <1>2, <1>4 DEF Numbered, Bounded
    <3>3. FromOnIs(h, n.add[1].seq, e)
      BY <1>4, <3>1, <3>2 DEF FromOnIs, PriceRow
    <3> QED
      BY <1>5, <3>1, <3>3 DEF Sells
  <2> QED
    BY <2>1, <2>2
<1>11. n \in Listing /\ n # Idle
  <2>1. n \in Listing
    BY <1>4, <1>5, <1>8 DEF Listing
  <2>2. n.id # NoId
    BY <1>4, <1>2, <1>5, ItemAssumption DEF IdsOnce
  <2> QED
    BY <2>1, <2>2 DEF Idle
<1> HIDE DEF n
<1>12. /\ tx' = [tx EXCEPT ![w] = n]
       /\ tx \in [Workers -> {Idle} \union Listing]
  BY <1>2, <1>3 DEF n, e, DataTypes
<1>13. /\ tx'[w] = n /\ \A v \in Workers : v # w => tx'[v] = tx[v]
       /\ tx' \in [Workers -> {Idle} \union Listing]
  BY <1>11, <1>12
<1>14. Open_tx' = Open_tx \union {w} /\ \A v \in Open_tx : v \in Workers /\ v # w /\ tx'[v] = tx[v]
  BY <1>1, <1>11, <1>13 DEF Open_tx
<1>15. Displays' = Displays /\ Made' = Made /\ \A c : EventPrice(c)' = EventPrice(c)
  BY <1>1 DEF Displays, Made, EventPrice
<1>16. DataTypes'
  BY <1>1, <1>2, <1>13, <1>15, ItemAssumption DEF DataTypes, Listing
<1>17. IdsOnce'
  BY <1>1, <1>2, <1>15 DEF IdsOnce, DataTypes
<1>18. OneEach'
  BY <1>1, <1>2, <1>5, <1>13, <1>14, <1>15 DEF OneEach
<1>19. Numbered'
  BY <1>1, <1>2, <1>5, <1>9, <1>13, <1>14, <1>15 DEF Numbered
<1>20. Agree'
  BY <1>1, <1>2, <1>5, <1>10, <1>13, <1>14, <1>15 DEF Agree, e
<1>21. Explained'
  BY <1>1, <1>2, <1>15 DEF Explained
<1> QED
  BY <1>16, <1>17, <1>18, <1>19, <1>20, <1>21 DEF DataInv
(* A listing ends without writing. *)
LEMMA RollbackData ==
    ASSUME IInv, NEW w \in Workers, Rollback(w)
    PROVE  DataInv'
<1>1. /\ tx' = [tx EXCEPT ![w] = Idle]
      /\ UNCHANGED <<price, display, history, event, store, saving, hasty, retried, page, made, entered,
                     drifted, acts>>
  BY DEF Rollback, dbVars, pageVars, ghosts
<1>2. /\ DataTypes /\ IdsOnce /\ OneEach /\ Numbered /\ Agree /\ Explained
  BY DEF IInv, DataInv
<1>3. /\ tx \in [Workers -> {Idle} \union Listing]
      /\ tx' \in [Workers -> {Idle} \union Listing]
      /\ tx'[w] = Idle /\ \A v \in Workers : v # w => tx'[v] = tx[v]
  BY <1>1, <1>2 DEF DataTypes
<1>4. \A v \in Open_tx' : v \in Open_tx /\ tx'[v] = tx[v]
  BY <1>3 DEF Open_tx
<1>5. Displays' = Displays /\ Made' = Made /\ \A c : EventPrice(c)' = EventPrice(c)
  BY <1>1 DEF Displays, Made, EventPrice
<1>6. DataTypes' /\ IdsOnce'
  <2>1. DataTypes'
    BY <1>1, <1>2, <1>3, <1>5 DEF DataTypes, Listing
  <2> QED
    BY <2>1, <1>1, <1>2, <1>5 DEF IdsOnce
<1>7. OneEach' /\ Numbered' /\ Agree'
  <2>1. OneEach'
    BY <1>1, <1>2, <1>4, <1>5 DEF OneEach
  <2>2. Numbered' /\ Agree'
    BY <1>1, <1>2, <1>4, <1>5 DEF Numbered, Agree
  <2> QED
    BY <2>1, <2>2
<1>8. Explained'
  BY <1>1, <1>2, <1>5 DEF Explained
<1> QED
  BY <1>2, <1>6, <1>7, <1>8 DEF DataInv

(* A listing writes its row and what it adds to the history. *)
LEMMA CommitData ==
    ASSUME IInv, NEW w \in Workers, CommitListing(w)
    PROVE  /\ DataInv'
           /\ ~hasty /\ ~retried => \A m : DisplaysOf(m)' = DisplaysOf(m)
<1> DEFINE t == tx[w]
           d == tx[w].id
<1>1. /\ t # Idle /\ d \in Displays
      /\ display' = [display EXCEPT ![d] = t.row]
      /\ history' = [history EXCEPT ![d] = @ \o t.add]
      /\ entered' = entered \ {d}
      /\ tx' = [tx EXCEPT ![w] = Idle]
      /\ UNCHANGED <<price, event, store, saving, hasty, retried, page, made, drifted, acts>>
  BY DEF CommitListing, pageVars
<1>2. /\ DataTypes /\ IdsOnce /\ OneEach /\ Numbered /\ Agree /\ Explained
  BY DEF IInv, DataInv
<1>3. /\ tx \in [Workers -> {Idle} \union Listing]
      /\ tx' \in [Workers -> {Idle} \union Listing]
      /\ tx'[w] = Idle /\ \A v \in Workers : v # w => tx'[v] = tx[v]
  BY <1>1, <1>2 DEF DataTypes
<1>4. w \in Open_tx /\ \A v \in Open_tx' : v \in Open_tx /\ tx'[v] = tx[v]
  BY <1>1, <1>3 DEF Open_tx
<1>5. t.row \in Row /\ t.add \in Seq(PriceRow)
  BY <1>2, <1>4, OpenListing
<1>6. display \in [Displays -> Row] /\ history \in [Displays -> Seq(PriceRow)]
  BY <1>2 DEF DataTypes
<1> DEFINE h == history[d]
           g == h \o t.add
<1>7. h \in Seq(PriceRow) /\ Bounded(h) /\ (t.add # <<>> => AddsOne(t, h))
  BY <1>1, <1>2, <1>4, <1>6 DEF Numbered
<1>8. /\ g \in Seq(PriceRow) /\ Bounded(g)
      /\ \A u : u.add[1].seq \in Nat /\ AddsOne(u, h) => AddsOne(u, g)
  BY <1>5, <1>7, AddBounded
<1>9. /\ Displays' = Displays
      /\ display'[d] = t.row /\ history'[d] = g
      /\ \A c \in Displays : c # d => display'[c] = display[c] /\ history'[c] = history[c]
      /\ display' \in [Displays -> Row] /\ history' \in [Displays -> Seq(PriceRow)]
  BY <1>1, <1>5, <1>6, <1>8 DEF Displays
<1>10. /\ ~hasty /\ ~retried => t.row.master = display[d].master
       /\ d \notin drifted => /\ t.row.master = display[d].master
                              /\ t.row.price = EventPrice(d) /\ Sells(t, h)
  BY <1>1, <1>2, <1>4 DEF OneEach, Agree
<1>11. d \notin drifted => TopIs(g, t.row.price)
  BY <1>5, <1>7, <1>10, AddTop
<1>12. ASSUME d \notin drifted, NEW u, Sells(u, h), u.row.price = EventPrice(d)
       PROVE  Sells(u, g)
  BY <1>5, <1>7, <1>10, <1>12, AddSells
<1>13. Made' = Made /\ \A c \in Displays \ drifted : EventPrice(c)' = EventPrice(c)
  BY <1>1, <1>9, <1>10 DEF Made, EventPrice
<1> HIDE DEF h, g, t, d
<1>14. DataTypes'
  <2>1. \A v \in Open_tx' : tx'[v] \in Listing
    BY <1>2, <1>4, OpenListing
  <2>2. price' \in [Masters -> Prices] /\ event' \subseteq Displays' /\ store' \subseteq Nat
    BY <1>1, <1>2, <1>9 DEF DataTypes
  <2> QED
    BY <1>1, <1>2, <1>3, <1>9, <2>2 DEF DataTypes, Listing
<1>15. IdsOnce'
  BY <1>1, <1>2, <1>9, <1>13 DEF IdsOnce
<1>16. OneEach'
  BY <1>1, <1>2, <1>4, <1>9, <1>10 DEF OneEach
<1>17. Numbered'
  <2>1. \A c \in Displays : Bounded(history'[c])
    BY <1>2, <1>8, <1>9 DEF Numbered
  <2>2. ASSUME NEW v \in Open_tx, tx[v].id \in Displays, tx[v].add # <<>>
        PROVE  AddsOne(tx[v], history'[tx[v].id])
    <3>1. AddsOne(tx[v], history[tx[v].id]) /\ tx[v].add[1].seq \in Nat
      BY <1>2, <2>2, OpenListing DEF Numbered
    <3>2. CASE tx[v].id = d
      BY <1>8, <1>9, <3>1, <3>2 DEF h
    <3>3. CASE tx[v].id # d
      BY <1>9, <2>2, <3>1, <3>3
    <3> QED
      BY <3>2, <3>3
  <2> QED
    BY <1>4, <1>9, <2>1, <2>2 DEF Numbered
<1>18. Agree'
  <2>1. \A c \in Displays \ drifted : Agreeing(history'[c])
    <3> SUFFICES ASSUME NEW c \in Displays \ drifted PROVE Agreeing(history'[c])
      OBVIOUS
    <3>1. ASSUME c = d PROVE Agreeing(g)
      BY <1>11, <3>1 DEF TopIs, Agreeing
    <3> QED
      BY <1>2, <1>9, <3>1 DEF Agree
  <2>2. ASSUME NEW v \in Open_tx, tx[v].id \in Displays \ drifted
        PROVE  /\ tx[v].row.master = display'[tx[v].id].master
               /\ tx[v].row.price = EventPrice(tx[v].id)
               /\ Sells(tx[v], history'[tx[v].id])
    <3>1. /\ tx[v].row.master = display[tx[v].id].master
          /\ tx[v].row.price = EventPrice(tx[v].id)
          /\ Sells(tx[v], history[tx[v].id])
      BY <1>2, <2>2 DEF Agree
    <3>2. CASE tx[v].id = d
      BY <1>9, <1>10, <1>12, <2>2, <3>1, <3>2 DEF h
    <3>3. CASE tx[v].id # d
      BY <1>9, <2>2, <3>1, <3>3
    <3> QED
      BY <3>2, <3>3
  <2> QED
    BY <1>1, <1>4, <1>9, <1>13, <2>1, <2>2 DEF Agree
<1>19. Explained'
  BY <1>1, <1>2, <1>9, <1>11 DEF Explained
<1>20. ~hasty /\ ~retried => \A m : DisplaysOf(m)' = DisplaysOf(m)
  BY <1>9, <1>10 DEF DisplaysOf
<1> QED
  BY <1>14, <1>15, <1>16, <1>17, <1>18, <1>19, <1>20 DEF DataInv
-----------------------------------------------------------------------------
(* The price of a master, or an event, changes. *)
LEMMA PricesData ==
    ASSUME IInv, UNCHANGED <<display, history, store, tx, saving, hasty, retried, page, made, entered>>,
           price' \in [Masters -> Prices], event' \subseteq Displays,
           acts' = acts + 1, acts < MaxActs,
           drifted \subseteq drifted', drifted' \subseteq drifted \union Displays,
           \A c \in Displays \ drifted' : Listed(c) => EventPrice(c)' = EventPrice(c)
    PROVE  DataInv'
<1>1. /\ DataTypes /\ IdsOnce /\ OneEach /\ Numbered /\ Agree /\ Explained
  BY DEF IInv, DataInv
<1>2. Displays' = Displays /\ Made' = Made /\ Open_tx' = Open_tx
  BY DEF Displays, Made, Open_tx
<1>3. Displays \subseteq Ids
  <2>1. Len(saving) \in Nat /\ MaxActs \in Nat /\ acts \in 0..MaxActs
    BY <1>1, ItemAssumption DEF DataTypes
  <2> QED
    BY <1>1, <2>1 DEF IdsOnce, Ids
<1>4. DataTypes'
  BY <1>1, <1>2, <1>3, ItemAssumption DEF DataTypes, Listing
<1>5. IdsOnce'
  BY <1>1, <1>2 DEF IdsOnce, DataTypes
<1>6. OneEach' /\ Numbered' /\ Explained'
  BY <1>1, <1>2 DEF OneEach, Numbered, Explained
<1>7. Agree'
  BY <1>1, <1>2, OpenListing DEF Agree
<1> QED
  BY <1>4, <1>5, <1>6, <1>7 DEF DataInv

LEMMA ModifyMasterData ==
    ASSUME IInv, NEW m \in Masters, NEW p \in Prices, ModifyMaster(m, p)
    PROVE  DataInv'
<1>1. /\ price' = [price EXCEPT ![m] = p] /\ acts < MaxActs /\ acts' = acts + 1
      /\ drifted' = drifted \union {d \in DisplaysOf(m) : Listed(d)}
      /\ UNCHANGED <<display, history, event, store, tx, saving, hasty, retried, page, made, entered>>
  BY DEF ModifyMaster, Act, pageVars
<1>2. DataTypes
  BY DEF IInv, DataInv
<1>3. price' \in [Masters -> Prices] /\ \A n \in Masters : n # m => price'[n] = price[n]
  BY <1>1, <1>2 DEF DataTypes
<1>4. ASSUME NEW c \in Displays \ drifted', Listed(c) PROVE EventPrice(c)' = EventPrice(c)
  <2>1. display[c].master # m /\ display[c].master \in Masters
    BY <1>1, <1>2, <1>4 DEF DisplaysOf, DataTypes, Row
  <2> QED
    BY <1>1, <1>3, <2>1 DEF EventPrice
<1> QED
  BY <1>1, <1>2, <1>3, <1>4, PricesData DEF DataTypes, DisplaysOf

LEMMA ChangeEventData ==
    ASSUME IInv, NEW d \in Displays, ChangeEvent(d)
    PROVE  DataInv'
<1>1. /\ event' = IF d \in event THEN event \ {d} ELSE event \union {d}
      /\ acts < MaxActs /\ acts' = acts + 1
      /\ drifted' = drifted \union {e \in {d} : Listed(e)}
      /\ UNCHANGED <<price, display, history, store, tx, saving, hasty, retried, page, made, entered>>
  BY DEF ChangeEvent, Act, pageVars
<1>2. DataTypes
  BY DEF IInv, DataInv
<1>3. ASSUME NEW c \in Displays \ drifted', Listed(c) PROVE EventPrice(c)' = EventPrice(c)
  BY <1>1, <1>3 DEF EventPrice
<1> QED
  BY <1>1, <1>2, <1>3, PricesData DEF DataTypes

-----------------------------------------------------------------------------
(* The page alone. *)
LEMMA PageData ==
    ASSUME IInv, UNCHANGED <<price, display, history, event, store, tx, made, entered, drifted>>,
           hasty \/ retried => hasty' \/ retried', acts' \in 0..MaxActs, saving' \in Seq(Write), IdsOnce'
    PROVE  DataInv'
<1>1. /\ DataTypes /\ IdsOnce /\ OneEach /\ Numbered /\ Agree /\ Explained
  BY DEF IInv, DataInv
<1>2. /\ Displays' = Displays /\ Open_tx' = Open_tx
      /\ \A c \in Displays : EventPrice(c)' = EventPrice(c)
  BY DEF Displays, Open_tx, EventPrice
<1>3. DataTypes'
  BY <1>1, <1>2 DEF DataTypes, Listing
<1>4. OneEach' /\ Numbered' /\ Explained' /\ Agree'
  BY <1>1, <1>2 DEF OneEach, Numbered, Explained, Agree
<1> QED
  BY <1>3, <1>4 DEF DataInv

LEMMA OpenIInv ==
    ASSUME IInv, NEW m \in Masters, Open(m)
    PROVE  IInv'
<1>1. /\ acts < MaxActs /\ acts' = acts + 1 /\ page' = m /\ form' = NoId
      /\ loading' = Append(loading, m) /\ lost' = FALSE
      /\ hasty' = (hasty \/ ~Waits)
      /\ UNCHANGED <<price, display, history, event, store, tx, saving, retried, made, entered, drifted>>
  BY DEF Open, Act, Load, ClearForm, dbVars, ghosts
<1>2. DataTypes /\ IdsOnce  /\ PageTypes /\ Waiting
  BY DEF IInv, DataInv
<1>3. /\ loading \in Seq(Masters) /\ loading' \in Seq(Masters) /\ saving \in Seq(Write)
      /\ acts' \in 0..MaxActs
  BY <1>1, <1>2, ItemAssumption DEF DataTypes, PageTypes
<1>4. IdsOnce'
  BY <1>1, <1>2, <1>3 DEF IdsOnce, Made, Displays, DataTypes
<1>5. PageTypes'
  BY <1>1, <1>2, <1>3 DEF PageTypes
<1>6. Waiting'
  <2>1. ASSUME ~hasty'
        PROVE  loading = <<>> /\ saving = <<>> /\ loading' = <<m>>
    <3>1. Waits
      BY <1>1, <2>1, Zenon
    <3>2. loading = <<>> /\ saving = <<>>
      BY <3>1 DEF Waits
    <3> QED
      BY <1>1, <3>2
  <2> QED
    BY <1>1, <2>1 DEF Waiting
<1>7. DataInv'
  BY <1>1, <1>3, <1>4, PageData
<1> QED
  BY <1>5, <1>6, <1>7 DEF IInv

LEMMA AnswerIInv ==
    ASSUME IInv, NEW k \in DOMAIN loading, Answer(k)
    PROVE  IInv'
<1> DEFINE D == DisplaysOf(loading[k])
<1>1. /\ loading' = RemoveAt(loading, k)
      /\ form' \in IF D = {} THEN {form} ELSE D
      /\ UNCHANGED <<price, display, history, event, store, tx, saving, made, entered, drifted,
                     page, lost, hasty, retried, acts>>
  BY DEF Answer, dbVars, ghosts
<1>2. DataTypes /\ IdsOnce /\ OneEach /\ PageTypes /\ Waiting
  BY DEF IInv, DataInv
<1>3. /\ loading \in Seq(Masters) /\ loading' \in Seq(Masters) /\ Len(loading') = Len(loading) - 1
      /\ saving \in Seq(Write)
  BY <1>1, <1>2, RemovedEntry DEF DataTypes, PageTypes
<1>4. IdsOnce'
  BY <1>1, <1>2 DEF IdsOnce, Made, Displays, DataTypes
<1>5. Displays' = Displays
  BY <1>1 DEF Displays
<1>6. D \subseteq Ids
  <2>1. Len(saving) \in Nat /\ MaxActs \in Nat /\ acts \in 0..MaxActs
    BY <1>2, ItemAssumption DEF DataTypes
  <2> QED
    BY <1>2, <2>1 DEF IdsOnce, Ids, DisplaysOf
<1>7. PageTypes'
  BY <1>1, <1>2, <1>3, <1>6 DEF PageTypes
<1>8. Waiting'
  <2> SUFFICES ASSUME ~hasty /\ ~retried PROVE Waiting'
    BY <1>1 DEF Waiting
  <2>1. Len(loading) = 1 /\ Len(saving) = 0 /\ k = 1
    BY <1>2, <1>3 DEF Waiting
  <2>2. loading # <<>> /\ saving = <<>> /\ loading' = <<>>
    <3>1. saving = <<>>
      BY <1>3, <2>1, EmptySeq
    <3>2. loading' = <<>>
      BY <1>3, <2>1, EmptySeq
    <3>3. loading # <<>>
      BY <2>1
    <3> QED
      BY <3>1, <3>2, <3>3
  <2>3. loading[k] = page /\ form = NoId
    BY <1>2, <2>1, <2>2 DEF Waiting
  <2>4. FormFits'
    BY <1>1, <1>5, <2>3 DEF FormFits, DisplaysOf
  <2> QED
    BY <1>1, <1>3, <2>1, <2>2, <2>4 DEF Waiting
<1>9. DataInv'
  BY <1>1, <1>2, <1>3, <1>4, PageData DEF DataTypes
<1> QED
  BY <1>7, <1>8, <1>9 DEF IInv

(* A load that fails leaves the form as it is; who waits opens again. *)
LEMMA FailLoadIInv ==
    ASSUME IInv, NEW k \in DOMAIN loading, FailLoad(k)
    PROVE  IInv'
<1>1. /\ loading' = RemoveAt(loading, k) /\ lost' = TRUE
      /\ UNCHANGED <<price, display, history, event, store, tx, saving, made, entered, drifted,
                     page, form, hasty, retried, acts>>
  BY DEF FailLoad, dbVars, ghosts
<1>2. DataTypes /\ IdsOnce /\ PageTypes /\ Waiting
  BY DEF IInv, DataInv
<1>3. /\ loading \in Seq(Masters) /\ loading' \in Seq(Masters) /\ Len(loading') = Len(loading) - 1
      /\ saving \in Seq(Write)
  BY <1>1, <1>2, RemovedEntry DEF DataTypes, PageTypes
<1>4. IdsOnce'
  BY <1>1, <1>2 DEF IdsOnce, Made, Displays, DataTypes
<1>5. PageTypes'
  BY <1>1, <1>2, <1>3 DEF PageTypes
<1>6. Waiting'
  <2> SUFFICES ASSUME ~hasty /\ ~retried PROVE Waiting'
    BY <1>1 DEF Waiting
  <2>1. Len(loading') = 0 /\ Len(saving) = 0
    <3>1. Len(loading) + Len(saving) <= 1 /\ Len(loading) \in 1..1 /\ Len(saving) \in Nat
      BY <1>2, <1>3 DEF Waiting
    <3> QED
      BY <1>3, <3>1
  <2>2. loading' = <<>> /\ saving = <<>>
    BY <1>3, <2>1, EmptySeq
  <2> QED
    BY <1>1, <2>1, <2>2 DEF Waiting
<1>7. DataInv'
  BY <1>1, <1>2, <1>3, <1>4, PageData DEF DataTypes
<1> QED
  BY <1>5, <1>6, <1>7 DEF IInv

(* A button is pressed: the request gets what the form says. *)
LEMMA PressIInv ==
    ASSUME IInv, NEW op \in {"save", "update", "delete"}, NEW p \in Prices \union {0},
           NEW chosen \in BOOLEAN, Press(op, p, chosen)
    PROVE  IInv'
<1> DEFINE r == [op |-> op, master |-> page, id |-> form, price |-> p,
                 image |-> IF chosen THEN acts' ELSE 0]
<1>1. /\ acts < MaxActs /\ acts' = acts + 1 /\ page # NoMaster
      /\ op = "save" <=> form = NoId
      /\ saving' = Append(saving, r)
      /\ hasty' = (hasty \/ ~Waits) /\ retried' = (retried \/ lost)
      /\ UNCHANGED <<price, display, history, event, store, tx, made, entered, drifted,
                     page, form, loading, lost>>
  BY DEF Press, Act, dbVars, ghosts
<1>2. DataTypes /\ IdsOnce  /\ PageTypes /\ Waiting
  BY DEF IInv, DataInv
<1>3. saving \in Seq(Write) /\ acts \in Nat /\ acts' \in 0..MaxActs /\ acts' \in Nat
  BY <1>1, <1>2, ItemAssumption DEF DataTypes
<1>4. page \in Masters /\ form \in Ids \union {NoId}
  BY <1>1, <1>2 DEF PageTypes
<1>5. r \in Write /\ (r.image = 0 \/ r.image = acts + 1)
  BY <1>1, <1>3, <1>4 DEF Write
<1>6. r.master = page /\ r.id = form /\ r.op = op
  OBVIOUS
<1> HIDE DEF r
<1>7. /\ saving' \in Seq(Write) /\ Len(saving') = Len(saving) + 1 /\ Len(saving) \in Nat
      /\ DOMAIN saving' = DOMAIN saving \union {Len(saving) + 1}
      /\ saving'[Len(saving) + 1] = r
      /\ \A j \in DOMAIN saving : saving'[j] = saving[j]
  BY <1>1, <1>3, <1>5, AppendProperties
<1>8. IdsOnce'
  BY <1>1, <1>2, <1>3, <1>4, <1>7 DEF IdsOnce, Made, Displays, DataTypes
<1>9. Displays' = Displays
  BY <1>1 DEF Displays
<1>10. DataInv'
  BY <1>1, <1>3, <1>7, <1>8, PageData
<1>11. PageTypes'
  <2>1. hasty' \in BOOLEAN /\ retried' \in BOOLEAN
    BY <1>1, <1>2 DEF PageTypes, Waits
  <2> QED
    BY <1>1, <1>2, <2>1 DEF PageTypes
<1>12. Waiting'
  <2> SUFFICES ASSUME ~hasty' /\ ~retried' PROVE Waiting'
    BY DEF Waiting
  <2>1. ~hasty /\ Waits /\ ~retried /\ ~lost
    BY <1>1, Zenon
  <2>2. loading = <<>> /\ saving = <<>> /\ ~lost
    BY <2>1 DEF Waits
  <2>3. Len(loading) = 0 /\ Len(saving') = 1 /\ saving'[1] = r
    BY <1>7, <2>2
  <2>4. FormFits'
    BY <1>1, <1>2, <1>9, <2>1, <2>2 DEF Waiting, FormFits, DisplaysOf
  <2> QED
    BY <1>1, <1>6, <2>2, <2>3, <2>4 DEF Waiting
<1> QED
  BY <1>10, <1>11, <1>12 DEF IInv

-----------------------------------------------------------------------------
(* What the request of an admin who waits is about. *)
LEMMA WaitingRequest ==
    ASSUME IInv, ~hasty /\ ~retried, NEW k \in DOMAIN saving
    PROVE  /\ Len(saving) = 1 /\ loading = <<>> /\ ~lost
           /\ saving[k].op = "save" => DisplaysOf(saving[k].master) = {}
           /\ saving[k].op # "save" /\ saving[k].id \in Displays
                => display[saving[k].id].master = saving[k].master
<1>1. DataTypes /\ IdsOnce /\ PageTypes /\ Waiting
  BY DEF IInv, DataInv
<1>2. saving \in Seq(Write) /\ loading \in Seq(Masters)
  BY <1>1 DEF DataTypes, PageTypes
<1>3. saving # <<>> /\ Len(saving) = 1 /\ Len(loading) = 0 /\ k = 1
  <2>1. Len(loading) + Len(saving) <= 1 /\ Len(loading) \in Nat /\ Len(saving) \in Nat
    BY <1>1, <1>2 DEF Waiting
  <2>2. k \in 1..Len(saving)
    BY <1>2
  <2>3. Len(saving) >= 1
    BY <2>1, <2>2
  <2>4. Len(saving) = 1 /\ Len(loading) = 0
    <3>1. \A a, b \in Nat : a + b <= 1 /\ b >= 1 => b = 1 /\ a = 0
      OBVIOUS
    <3> QED
      BY <2>1, <2>3, <3>1
  <2>5. k = 1
    BY <2>2, <2>4
  <2> QED
    BY <2>4, <2>5
<1>4. loading = <<>>
  BY <1>2, <1>3, EmptySeq
<1>5. /\ ~lost /\ saving[k].master = page /\ saving[k].id = form
      /\ saving[k].op = "save" <=> form = NoId
      /\ page \in Masters /\ FormFits
  BY <1>1, <1>3, <1>4 DEF Waiting, IdsOnce
<1>6. NoId \notin Displays
  BY <1>1, ItemAssumption DEF IdsOnce
<1> QED
  BY <1>3, <1>4, <1>5, <1>6 DEF FormFits, DisplaysOf

LEMMA RequestValues ==
    ASSUME NEW r \in Write
    PROVE  r.master \in Masters /\ r.price \in Nat /\ r.image \in Nat
<1>1. Prices \union {0} \subseteq Nat
  BY ItemAssumption
<1> QED
  BY <1>1 DEF Write

(* A display is made. *)
LEMMA SaveData ==
    ASSUME IInv, NEW k \in DOMAIN saving, saving' = RemoveAt(saving, k), Save(saving[k]),
           UNCHANGED <<tx, page, hasty, retried, acts>>
    PROVE  DataInv'
<1> DEFINE r == saving[k]
           i == NextId
           v == [master |-> r.master, price |-> r.price, image |-> r.image]
           h == FirstHistory(r)
<1>1. /\ r.op = "save" /\ r.image # 0 /\ Loadable(r.master)
      /\ display' = With(display, i, v) /\ history' = With(history, i, h)
      /\ made' = With(made, i, r.master) /\ store' = store \union {r.image}
      /\ UNCHANGED <<price, event, entered, drifted>>
  BY DEF Save
<1>2. /\ DataTypes /\ IdsOnce /\ OneEach /\ Numbered /\ Agree /\ Explained
  BY DEF IInv, DataInv
<1>3. saving \in Seq(Write) /\ r \in Write /\ saving # <<>>
  BY <1>2 DEF DataTypes
<1>4. r.master \in Masters /\ r.price \in Nat /\ r.image \in Nat
  BY <1>3, RequestValues
<1>5. /\ i = Made + 1 /\ i \notin DOMAIN made /\ i \notin Displays /\ i \in Ids
      /\ \A w \in Open_tx : tx[w].id # i
  BY <1>2, <1>3, NextIdFresh
<1>6. v \in Row /\ v.master = r.master /\ v.image = r.image /\ v.price = r.price
  BY <1>4 DEF Row
<1>7. h \in Seq(PriceRow) /\ Bounded(h) /\ Agreeing(h) /\ TopIs(h, v.price)
  <2> DEFINE q == [seq |-> 1, price |-> r.price]
  <2>1. q \in PriceRow /\ q.seq = 1 /\ q.price = r.price
    BY <1>4 DEF PriceRow
  <2>2. h = <<q>>
    BY DEF FirstHistory
  <2> HIDE DEF q, h
  <2>3. h \in Seq(PriceRow) /\ Len(h) = 1 /\ DOMAIN h = {1} /\ h[1] = q
    BY <2>1, <2>2
  <2> QED
    BY <1>6, <2>1, <2>3 DEF Bounded, Agreeing, TopIs
<1> HIDE DEF v, h, i
<1>8. /\ Displays' = Displays \union {i} /\ display'[i] = v /\ history'[i] = h
      /\ \A c \in Displays : display'[c] = display[c] /\ history'[c] = history[c] /\ c # i
      /\ display' \in [Displays' -> Row] /\ history' \in [Displays' -> Seq(PriceRow)]
  BY <1>1, <1>2, <1>5, <1>6, <1>7 DEF With, Displays, DataTypes
<1>9. /\ DOMAIN made' = DOMAIN made \union {i} /\ made'[i] = r.master
      /\ \A c \in DOMAIN made : made'[c] = made[c]
      /\ made' \in [DOMAIN made' -> Masters]
  BY <1>1, <1>2, <1>4, <1>5 DEF With, DataTypes
<1>10. Made' = Made + 1 /\ DOMAIN made' = 1..(Made + 1) /\ Made \in Nat
  <2>1. DOMAIN made' = 1..(Made + 1) /\ Made \in Nat
    BY <1>2, <1>5, <1>9 DEF IdsOnce
  <2>2. Cardinality(1..(Made + 1)) = Made + 1
    BY <2>1, FS_Interval
  <2> QED
    BY <2>1, <2>2 DEF Made
<1>11. /\ Open_tx' = Open_tx /\ \A w \in Open_tx : tx[w].id # i
       /\ \A c \in Displays : EventPrice(c)' = EventPrice(c)
  BY <1>1, <1>5, <1>8 DEF Open_tx, EventPrice
<1>12. saving' \in Seq(Write) /\ Len(saving') = Len(saving) - 1 /\ Len(saving) \in Nat
  BY <1>2, <1>3, AfterAnswer
<1>13. DataTypes'
  <2>1. Listing \subseteq Listing'
    BY <1>9 DEF Listing
  <2>2. tx' \in [Workers -> {Idle} \union Listing']
    BY <1>2, <2>1 DEF DataTypes
  <2>3. store' \subseteq Nat /\ event' \subseteq Displays'
    BY <1>1, <1>2, <1>4, <1>8 DEF DataTypes
  <2> QED
    BY <1>1, <1>2, <1>8, <1>9, <1>12, <2>2, <2>3 DEF DataTypes
<1>14. IdsOnce'
  <2>1. Displays' \subseteq DOMAIN made'
    BY <1>2, <1>8, <1>9 DEF IdsOnce
  <2>2. Made' + Len(saving') <= acts'
    BY <1>2, <1>10, <1>12 DEF IdsOnce
  <2> QED
    BY <1>2, <1>3, <1>10, <2>1, <2>2 DEF IdsOnce
<1>15. OneEach'
  <2> SUFFICES ASSUME ~hasty /\ ~retried PROVE OneEach'
    BY DEF OneEach
  <2>1. \A c \in Displays : display[c].master # r.master
    BY <1>1, WaitingRequest DEF DisplaysOf
  <2>2. Displays \subseteq DOMAIN made
    BY <1>2 DEF IdsOnce
  <2>3. /\ \A c \in Displays' : display'[c].master = made'[c]
        /\ \A c, d \in Displays' : display'[c].master = display'[d].master => c = d
    <3>1. \A c \in Displays : c \in DOMAIN made /\ display'[c].master = made[c]
      BY <1>2, <1>8, <2>2 DEF OneEach
    <3>2. \A c \in Displays' : display'[c].master = made'[c]
      BY <1>6, <1>8, <1>9, <3>1
    <3>3. \A c, d \in Displays : display'[c].master = display'[d].master => c = d
      BY <1>2, <1>8 DEF OneEach
    <3>4. \A c \in Displays : display'[c].master # display'[i].master
      BY <1>6, <1>8, <2>1
    <3> QED
      BY <1>8, <3>2, <3>3, <3>4
  <2>4. \A w \in Open_tx : tx[w].row.master = made'[tx[w].id]
    BY <1>2, <1>9, OpenListing DEF OneEach
  <2> QED
    BY <1>11, <2>3, <2>4 DEF OneEach
<1>16. Numbered'
  BY <1>2, <1>7, <1>8, <1>11 DEF Numbered
<1>17. Agree'
  <2>1. \A c \in Displays' \ drifted' : Agreeing(history'[c])
    BY <1>1, <1>2, <1>7, <1>8 DEF Agree
  <2> QED
    BY <1>1, <1>2, <1>8, <1>11, <2>1 DEF Agree
<1>18. Explained'
  BY <1>1, <1>2, <1>7, <1>8 DEF Explained
<1> QED
  BY <1>13, <1>14, <1>15, <1>16, <1>17, <1>18 DEF DataInv
(* A display is changed. *)
LEMMA ModifyData ==
    ASSUME IInv, NEW k \in DOMAIN saving, saving' = RemoveAt(saving, k), Modify(saving[k]),
           UNCHANGED <<tx, page, hasty, retried, acts>>
    PROVE  DataInv'
<1> DEFINE r == saving[k]
           i == r.id
<1>1. /\ r.op = "update" /\ i \in Displays
      /\ entered' = entered \union {i}
      /\ drifted' = IF Listed(i) /\ r.master # display[i].master
                      THEN drifted \union {i} ELSE drifted
      /\ UNCHANGED <<price, history, event, made>>
  BY DEF Modify, Found
<1>2. /\ DataTypes /\ IdsOnce /\ OneEach /\ Numbered /\ Agree /\ Explained
  BY DEF IInv, DataInv
<1>3. saving \in Seq(Write) /\ r \in Write /\ saving # <<>>
  BY <1>2 DEF DataTypes
<1>4. r.master \in Masters /\ r.price \in Nat /\ r.image \in Nat
  BY <1>3, RequestValues
<1>5. display \in [Displays -> Row] /\ store \subseteq Nat
  BY <1>2 DEF DataTypes
<1>6. PICK v \in Row :
        /\ v.master = r.master
        /\ display' = [display EXCEPT ![i] = v]
        /\ store' \subseteq Nat
  <2>1. PICK up \in Uploaded(r), gone \in SUBSET {display[i].image} :
          /\ display' = [display EXCEPT ![i] =
                           [master |-> r.master, price |-> r.price,
                            image |-> IF up # 0 THEN up ELSE display[i].image]]
          /\ store' = (store \ gone) \union ({up} \ {0})
    BY <1>1 DEF Modify
  <2>2. up \in Nat /\ display[i].image \in Nat
    BY <1>1, <1>4, <1>5 DEF Uploaded, Row
  <2> DEFINE v == [master |-> r.master, price |-> r.price,
                   image |-> IF up # 0 THEN up ELSE display[i].image]
  <2>3. v \in Row /\ v.master = r.master
    BY <1>4, <2>2 DEF Row
  <2>4. display' = [display EXCEPT ![i] = v] /\ store' \subseteq Nat
    BY <1>5, <2>1, <2>2
  <2> HIDE DEF v
  <2> QED
    BY <2>3, <2>4
<1>7. /\ Displays' = Displays /\ display'[i] = v
      /\ \A c \in Displays : c # i => display'[c] = display[c]
      /\ display' \in [Displays' -> Row]
  BY <1>1, <1>5, <1>6 DEF Displays
<1>8. Made' = Made /\ Open_tx' = Open_tx
  BY <1>1 DEF Made, Open_tx
<1>9. saving' \in Seq(Write) /\ Len(saving') = Len(saving) - 1 /\ Len(saving) \in Nat
  BY <1>2, <1>3, AfterAnswer
<1>10. i \in Ids
  <2>1. MaxActs \in Nat /\ acts \in 0..MaxActs
    BY <1>2, ItemAssumption DEF DataTypes
  <2> QED
    BY <1>1, <1>2, <1>9, <2>1 DEF IdsOnce, Ids
<1> HIDE DEF i, r
<1>11. DataTypes'
  <2>1. entered' \subseteq Ids /\ drifted' \subseteq Ids /\ store' \subseteq Nat
    BY <1>1, <1>2, <1>6, <1>10 DEF DataTypes
  <2> QED
    BY <1>1, <1>2, <1>7, <1>9, <2>1 DEF DataTypes, Listing
<1>12. IdsOnce'
  <2>1. acts \in Nat
    BY <1>2, ItemAssumption DEF DataTypes
  <2> QED
    BY <2>1, <1>1, <1>2, <1>3, <1>7, <1>8, <1>9 DEF IdsOnce
<1>13. OneEach'
  <2> SUFFICES ASSUME ~hasty /\ ~retried PROVE OneEach'
    BY DEF OneEach
  <2>1. v.master = display[i].master
    BY <1>1, <1>6, WaitingRequest DEF r, i
  <2>2. \A c \in Displays : display'[c].master = display[c].master
    BY <1>7, <2>1
  <2> QED
    BY <1>1, <1>2, <1>7, <1>8, <2>2 DEF OneEach
<1>14. Numbered'
  BY <1>1, <1>2, <1>7, <1>8 DEF Numbered
<1>15. Agree'
  <2>1. ASSUME NEW w \in Open_tx, tx[w].id \in Displays \ drifted'
        PROVE  /\ tx[w].row.master = display'[tx[w].id].master
               /\ EventPrice(tx[w].id)' = EventPrice(tx[w].id)
    <3>1. Listed(tx[w].id)
      BY <1>2, OpenListing
    <3>2. tx[w].row.master = display[tx[w].id].master
      BY <1>1, <1>2, <2>1 DEF Agree
    <3>3. display'[tx[w].id].master = display[tx[w].id].master
      BY <1>1, <1>6, <1>7, <2>1, <3>1
    <3> QED
      BY <1>1, <3>2, <3>3 DEF EventPrice
  <2>2. \A c \in Displays' \ drifted' : Agreeing(history'[c])
    BY <1>1, <1>2, <1>7 DEF Agree
  <2>3. drifted \subseteq drifted'
    BY <1>1
  <2> QED
    BY <1>1, <1>2, <1>7, <1>8, <2>1, <2>2, <2>3 DEF Agree
<1>16. Explained'
  BY <1>1, <1>2, <1>7 DEF Explained
<1> QED
  BY <1>11, <1>12, <1>13, <1>14, <1>15, <1>16 DEF DataInv

(* A display is deleted. *)
LEMMA DeleteData ==
    ASSUME IInv, NEW k \in DOMAIN saving, saving' = RemoveAt(saving, k), DeleteItem(saving[k]),
           UNCHANGED <<tx, page, hasty, retried, acts>>
    PROVE  DataInv'
<1> DEFINE i == saving[k].id
<1>1. /\ i \in Displays
      /\ display' = Without(display, i) /\ history' = Without(history, i)
      /\ event' = event \ {i} /\ store' \subseteq store
      /\ UNCHANGED <<price, made, entered, drifted>>
  BY DEF DeleteItem, Found
<1>2. /\ DataTypes /\ IdsOnce /\ OneEach /\ Numbered /\ Agree /\ Explained
  BY DEF IInv, DataInv
<1> HIDE DEF i
<1>3. saving \in Seq(Write) /\ saving # <<>>
  BY <1>2 DEF DataTypes
<1>4. /\ Displays' = Displays \ {i}
      /\ \A c \in Displays' : display'[c] = display[c] /\ history'[c] = history[c]
      /\ display' \in [Displays' -> Row] /\ history' \in [Displays' -> Seq(PriceRow)]
  BY <1>1, <1>2 DEF Without, Displays, DataTypes
<1>5. /\ Made' = Made /\ Open_tx' = Open_tx
      /\ \A c \in Displays' : EventPrice(c)' = EventPrice(c)
  BY <1>1, <1>4 DEF Made, Open_tx, EventPrice
<1>6. saving' \in Seq(Write) /\ Len(saving') = Len(saving) - 1 /\ Len(saving) \in Nat
  BY <1>2, <1>3, AfterAnswer
<1>7. DataTypes'
  <2>1. event' \subseteq Displays' /\ store' \subseteq Nat
    BY <1>1, <1>2, <1>4 DEF DataTypes
  <2> QED
    BY <1>1, <1>2, <1>4, <1>6, <2>1 DEF DataTypes, Listing
<1>8. IdsOnce'
  <2>1. acts \in Nat
    BY <1>2, ItemAssumption DEF DataTypes
  <2> QED
    BY <2>1, <1>1, <1>2, <1>3, <1>4, <1>5, <1>6 DEF IdsOnce
<1>9. OneEach'
  BY <1>1, <1>2, <1>4, <1>5 DEF OneEach
<1>10. Numbered' /\ Explained'
  BY <1>1, <1>2, <1>4, <1>5 DEF Numbered, Explained
<1>11. Agree'
  BY <1>1, <1>2, <1>4, <1>5 DEF Agree
<1> QED
  BY <1>7, <1>8, <1>9, <1>10, <1>11 DEF DataInv
-----------------------------------------------------------------------------
LEMMA WrittenData ==
    ASSUME IInv, NEW k \in DOMAIN saving, saving' = RemoveAt(saving, k), Written(saving[k]),
           UNCHANGED <<tx, page, hasty, retried, acts>>
    PROVE  DataInv'
  BY SaveData, ModifyData, DeleteData DEF Written

LEMMA ServeIInv ==
    ASSUME IInv, NEW k \in DOMAIN saving, Serve(k)
    PROVE  IInv'
<1>1. /\ saving' = RemoveAt(saving, k) /\ Written(saving[k])
      /\ form' = NoId /\ loading' = Append(loading, page)
      /\ UNCHANGED <<tx, page, lost, hasty, retried, acts>>
  BY DEF Serve, Load, ClearForm
<1>2. DataTypes /\ IdsOnce  /\ PageTypes
  BY DEF IInv, DataInv
<1>3. /\ saving \in Seq(Write) /\ saving # <<>> /\ page \in Masters /\ loading \in Seq(Masters)
      /\ loading' \in Seq(Masters)
      /\ saving' \in Seq(Write) /\ Len(saving') = Len(saving) - 1
  BY <1>1, <1>2, AfterAnswer DEF DataTypes, PageTypes, IdsOnce
<1>4. PageTypes'
  BY <1>1, <1>2, <1>3 DEF PageTypes
<1>5. Waiting'
  <2> SUFFICES ASSUME ~hasty /\ ~retried PROVE Waiting'
    BY <1>1 DEF Waiting
  <2>1. Len(saving) = 1 /\ loading = <<>>
    BY WaitingRequest
  <2>2. saving' = <<>>
    BY <1>3, <2>1, EmptySeq
  <2>3. loading' = <<page>>
    BY <1>1, <2>1
  <2> QED
    BY <1>1, <2>2, <2>3 DEF Waiting
<1> QED
  BY <1>1, <1>4, <1>5, WrittenData DEF IInv

LEMMA LoseAnswerIInv ==
    ASSUME IInv, NEW k \in DOMAIN saving, LoseAnswer(k)
    PROVE  IInv'
<1>1. /\ saving' = RemoveAt(saving, k) /\ Written(saving[k]) /\ lost' = TRUE
      /\ UNCHANGED <<tx, page, form, loading, hasty, retried, acts>>
  BY DEF LoseAnswer
<1>2. DataTypes /\ IdsOnce  /\ PageTypes
  BY DEF IInv, DataInv
<1>3. /\ saving \in Seq(Write) /\ saving' \in Seq(Write) /\ Len(saving') = Len(saving) - 1
  BY <1>1, <1>2, AfterAnswer DEF DataTypes
<1>4. PageTypes'
  BY <1>1, <1>2 DEF PageTypes
<1>5. Waiting'
  <2> SUFFICES ASSUME ~hasty /\ ~retried PROVE Waiting'
    BY <1>1 DEF Waiting
  <2>1. Len(saving) = 1 /\ loading = <<>>
    BY WaitingRequest
  <2>2. saving' = <<>>
    BY <1>3, <2>1, EmptySeq
  <2> QED
    BY <1>1, <2>1, <2>2 DEF Waiting
<1> QED
  BY <1>1, <1>4, <1>5, WrittenData DEF IInv

(* A request that is refused changes no row. *)
LEMMA RefuseIInv ==
    ASSUME IInv, NEW k \in DOMAIN saving, Refuse(k)
    PROVE  IInv'
<1>1. /\ saving' = RemoveAt(saving, k)
      /\ UNCHANGED <<price, display, history, event, tx, page, form, loading, lost, hasty, retried,
                     made, entered, drifted, acts>>
  BY DEF Refuse, ghosts
<1>2. /\ DataTypes /\ IdsOnce /\ OneEach /\ Numbered /\ Agree /\ Explained
      /\ PageTypes /\ Waiting
  BY DEF IInv, DataInv
<1>3. store' \subseteq Nat
  <2> DEFINE r == saving[k]
           old == IF r.op # "save" /\ Found(r) THEN {display[r.id].image} ELSE {}
  <2>1. PICK gone \in SUBSET old, up \in SUBSET ({r.image} \ {0}) :
          store' = (store \ gone) \union up
    BY DEF Refuse
  <2>2. r.image \in Nat
    BY <1>2, RequestValues DEF DataTypes
  <2> QED
    BY <1>2, <2>1, <2>2 DEF DataTypes
<1>4. saving \in Seq(Write) /\ saving' \in Seq(Write) /\ Len(saving') = Len(saving) - 1
      /\ Len(saving) \in Nat /\ saving # <<>>
  BY <1>1, <1>2, AfterAnswer DEF DataTypes
<1>5. /\ Displays' = Displays /\ Made' = Made /\ Open_tx' = Open_tx
      /\ \A c \in Displays : EventPrice(c)' = EventPrice(c)
  BY <1>1 DEF Displays, Made, Open_tx, EventPrice
<1>6. acts \in Nat
  BY <1>2, ItemAssumption DEF DataTypes
<1>7. DataTypes'
  BY <1>1, <1>2, <1>3, <1>4, <1>5 DEF DataTypes, Listing
<1>8. IdsOnce'
  BY <1>1, <1>2, <1>4, <1>5, <1>6 DEF IdsOnce
<1>9. OneEach' /\ Numbered' /\ Agree' /\ Explained'
  BY <1>1, <1>2, <1>5 DEF OneEach, Numbered, Agree, Explained
<1>10. PageTypes'
  BY <1>1, <1>2 DEF PageTypes
<1>11. Waiting'
  <2> SUFFICES ASSUME ~hasty /\ ~retried PROVE Waiting'
    BY <1>1 DEF Waiting
  <2>1. Len(saving) = 1 /\ loading = <<>> /\ ~lost
    BY WaitingRequest
  <2>2. saving' = <<>>
    BY <1>4, <2>1, EmptySeq
  <2>3. FormFits'
    BY <1>1, <1>2, <1>5, <2>1 DEF Waiting, FormFits, DisplaysOf
  <2> QED
    BY <1>1, <2>1, <2>2, <2>3 DEF Waiting
<1> QED
  BY <1>7, <1>8, <1>9, <1>10, <1>11 DEF IInv, DataInv

-----------------------------------------------------------------------------
(* What others do while the admin waits leaves the form right. *)
LEMMA PageAlone ==
    ASSUME IInv, UNCHANGED pageVars, ~hasty /\ ~retried => \A m : DisplaysOf(m)' = DisplaysOf(m), DataInv'
    PROVE  IInv'
<1>1. UNCHANGED <<page, form, loading, saving, lost, hasty, retried>>
  BY DEF pageVars
<1>2. PageTypes'
  BY <1>1 DEF IInv, PageTypes
<1>3. Waiting'
  BY <1>1 DEF IInv, Waiting, FormFits
<1> QED
  BY <1>2, <1>3 DEF IInv

LEMMA NextIInv == IInv /\ [Next]_vars => IInv'
<1> SUFFICES ASSUME IInv, [Next]_vars PROVE IInv'
  OBVIOUS
<1>1. ASSUME NEW w \in Workers, NEW d \in Displays, BeginListing(w, d) PROVE IInv'
  <2>1. UNCHANGED <<pageVars, display>>
    BY <1>1 DEF BeginListing, dbVars
  <2> QED
    BY <1>1, <2>1, BeginData, PageAlone DEF DisplaysOf, Displays
<1>2. ASSUME NEW w \in Workers, CommitListing(w) PROVE IInv'
  <2>1. UNCHANGED pageVars
    BY <1>2 DEF CommitListing
  <2> QED
    BY <1>2, <2>1, CommitData, PageAlone
<1>3. ASSUME NEW w \in Workers, Rollback(w) PROVE IInv'
  <2>1. UNCHANGED <<pageVars, display>>
    BY <1>3 DEF Rollback, dbVars
  <2> QED
    BY <1>3, <2>1, RollbackData, PageAlone DEF DisplaysOf, Displays
<1>4. ASSUME NEW m \in Masters, Open(m) PROVE IInv'
  BY <1>4, OpenIInv
<1>5. ASSUME NEW m \in Masters, NEW p \in Prices, ModifyMaster(m, p) PROVE IInv'
  <2>1. UNCHANGED <<pageVars, display>>
    BY <1>5 DEF ModifyMaster
  <2> QED
    BY <1>5, <2>1, ModifyMasterData, PageAlone DEF DisplaysOf, Displays
<1>6. ASSUME NEW d \in Displays, ChangeEvent(d) PROVE IInv'
  <2>1. UNCHANGED <<pageVars, display>>
    BY <1>6 DEF ChangeEvent
  <2> QED
    BY <1>6, <2>1, ChangeEventData, PageAlone DEF DisplaysOf, Displays
<1>7. ASSUME NEW k \in DOMAIN loading, Answer(k) PROVE IInv'
  BY <1>7, AnswerIInv
<1>8. ASSUME NEW k \in DOMAIN loading, FailLoad(k) PROVE IInv'
  BY <1>8, FailLoadIInv
<1>9. ASSUME NEW op \in {"save", "update", "delete"}, NEW p \in Prices \union {0},
             NEW chosen \in BOOLEAN, Press(op, p, chosen)
      PROVE  IInv'
  BY <1>9, PressIInv
<1>10. ASSUME NEW k \in DOMAIN saving, Serve(k) \/ LoseAnswer(k) \/ Refuse(k) PROVE IInv'
  BY <1>10, ServeIInv, LoseAnswerIInv, RefuseIInv
<1>11. CASE UNCHANGED vars
  <2>1. UNCHANGED <<price, display, history, event, store, tx, page, form, loading, saving,
                    lost, hasty, retried, made, entered, drifted, acts>>
    BY <1>11 DEF vars, dbVars, pageVars, ghosts
  <2>2. /\ DataTypes /\ IdsOnce 
    BY DEF IInv, DataInv
  <2>3. IdsOnce' /\ acts' \in 0..MaxActs /\ saving' \in Seq(Write)
    BY <2>1, <2>2 DEF IdsOnce, Made, Displays, DataTypes
  <2>4. DataInv'
    BY <2>1, <2>3, PageData
  <2> QED
    BY <2>1, <2>4, PageAlone DEF pageVars, DisplaysOf, Displays
<1> QED
  BY <1>1, <1>2, <1>3, <1>4, <1>5, <1>6, <1>7, <1>9, <1>10, <1>11, <1>8 DEF Next

-----------------------------------------------------------------------------
(* The strengthened invariant holds in every reachable state. *)
THEOREM Invariance == Spec => []IInv
  BY InitIInv, NextIInv, PTL DEF Spec

(* Rows, listings, form and requests have values of their types, and every *)
(* display has a price history (ItemDisplay, ItemDisplayPriceHistory).     *)
THEOREM TypeCorrect == Spec => []TypeOK
<1>1. IInv => TypeOK
  <2> SUFFICES ASSUME IInv PROVE TypeOK
    OBVIOUS
  <2>1. DataTypes /\ IdsOnce /\ Numbered /\ PageTypes
    BY DEF IInv, DataInv
  <2>2. DOMAIN made \subseteq Ids
    <3>1. Len(saving) \in Nat /\ MaxActs \in Nat /\ acts \in 0..MaxActs
      BY <2>1, ItemAssumption DEF DataTypes
    <3> QED
      BY <2>1, <3>1 DEF IdsOnce, Ids
  <2>3. \A d \in Displays : history[d] # <<>>
    <3> SUFFICES ASSUME NEW d \in Displays PROVE Len(history[d]) > 0 /\ Len(<<>>) = 0
      OBVIOUS
    <3> QED
      BY <2>1 DEF Numbered, Bounded
  <2>4. \A w \in Workers : tx[w] = Idle \/ /\ tx[w].id \in Ids /\ tx[w].row \in Row
                                           /\ tx[w].add \in Seq(PriceRow)
    BY <2>1, OpenListing DEF Open_tx
  <2> QED
    BY <2>1, <2>2, <2>3, <2>4 DEF TypeOK, DataTypes, PageTypes, IdsOnce
<1> QED
  BY <1>1, Invariance, PTL

(* An admin who waits leaves one display to a master, and a display to the *)
(* master it was made for, whatever listings write meanwhile.              *)
THEOREM OneDisplayPerMasterHolds == Spec => []OneDisplayPerMaster
<1>1. IInv => OneDisplayPerMaster
  BY OneLoadable DEF IInv, DataInv, OneDisplayPerMaster, OneEach
<1> QED
  BY <1>1, Invariance, PTL

(* The last row of a price history says what the item is sold at, however  *)
(* many listings overlap.                                                  *)
THEOREM HistoryExplainsPriceHolds == Spec => []HistoryExplainsPrice
<1>1. IInv => HistoryExplainsPrice
  BY DEF IInv, DataInv, Explained, TopIs, Top, HistoryExplainsPrice, TopRows, Range
<1> QED
  BY <1>1, Invariance, PTL
=============================================================================
