-------------------------- MODULE CouponJobs_proofs --------------------------
(***************************************************************************)
(* Nobody is given two coupons of a target, a coupon an order may still    *)
(* give back is not offered, and the tables keep their types, for any      *)
(* members, ratings, events and page size.                                 *)
(*                                                                         *)
(* OneCouponPerTarget is not inductive: the issue job writes rows it       *)
(* selected earlier.  What it selected stays free of coupons, because only *)
(* the one execution adds any; what an expire job selected is still there  *)
(* unless its target is gone, because coupons go with their targets and a  *)
(* target never comes back.                                                *)
(***************************************************************************)
EXTENDS CouponJobs, FiniteSetTheorems, TLAPS

TargetIds == [event: Events, rating: Ratings, edit: Nat]

(* Every target was made by an edit of its event. *)
Made(t) == t \in TargetIds /\ t.edit <= event[t.event].edits

TargetsMade ==
    /\ event \in [Events -> [edits: Nat, type: {"COUPON", "DISCOUNT_PRODUCT"},
                             on: BOOLEAN, start: Days, end: Days]]
    /\ \A t \in target : Made(t)

CouponsKept == \A c \in DOMAIN coupon : c.target \in target

SelectedMade == \A c \in DOMAIN job.rows : Made(c.target)

SelectedFree ==
    job.op = "issue" =>
        /\ \A c \in DOMAIN job.rows, d \in DOMAIN coupon :
                ~(c.target = d.target /\ c.member = d.member)
        /\ \A c, d \in DOMAIN job.rows :
                c.target = d.target /\ c.member = d.member => c = d

SelectedKept ==
    job.op # "issue" => \A c \in DOMAIN job.rows : c.target \in target => c \in DOMAIN coupon

IInv ==
    /\ TargetsMade
    /\ CouponsKept
    /\ SelectedMade
    /\ SelectedFree
    /\ SelectedKept
    /\ OneCouponPerTarget

(* A step that touches neither targets nor coupons' keys nor the execution *)
(* keeps the invariant.                                                    *)
LEMMA KeysKept ==
    ASSUME IInv, DOMAIN coupon' = DOMAIN coupon, UNCHANGED <<event, target, job>>
    PROVE  IInv'
BY DEF IInv, TargetsMade, Made, CouponsKept, SelectedMade, SelectedFree, SelectedKept,
       OneCouponPerTarget

(* An edit of a coupon event removes coupons with their targets only, and  *)
(* what it adds is newer than every target known before.                   *)
LEMMA SaveEventIInv ==
    ASSUME IInv, NEW e \in Events, NEW f \in EventForms, NEW ratings \in SUBSET Ratings,
           SaveEvent(e, f, ratings)
    PROVE  IInv'
<1> DEFINE edit == event[e].edits + 1
           others == {t \in target : t.event # e \/ f.type # "COUPON"}
           new == {[event |-> e, rating |-> r, edit |-> edit] : r \in ratings}
<1>1. event[e].edits \in Nat /\ edit \in Nat /\ edit > event[e].edits
  BY DEF IInv, TargetsMade
<1>2. event' = [event EXCEPT ![e] = [edits |-> edit, type |-> f.type, on |-> f.on,
                                     start |-> f.start, end |-> f.end]]
  BY DEF SaveEvent
<1>3. target' \subseteq others \union new
  BY DEF SaveEvent
<1>4. others \subseteq target' /\ others \subseteq target
  BY DEF SaveEvent
<1>5. DOMAIN coupon' = {d \in DOMAIN coupon : d.target \in others}
  BY DEF SaveEvent
<1>6. UNCHANGED job
  BY DEF SaveEvent
<1>7. \A t \in TargetIds : t.edit <= event[t.event].edits => t.edit <= event'[t.event].edits
  BY <1>1, <1>2 DEF IInv, TargetsMade, TargetIds
<1>8. \A t : Made(t) => Made(t)'
  BY <1>7 DEF Made
<1>9. \A t \in target' : t \in others \/ t \in new
  BY <1>3
<1>10. \A t \in new : Made(t)'
  BY <1>1, <1>2 DEF Made, TargetIds, IInv, TargetsMade
<1>11. \A t \in new : ~Made(t)
  BY <1>1 DEF Made
<1>12. TargetsMade'
  <2>1. f \in [type: {"COUPON", "DISCOUNT_PRODUCT"}, on: BOOLEAN, start: Days, end: Days]
    BY CouponAssumption DEF CouponAssumption
  <2>2. event' \in [Events -> [edits: Nat, type: {"COUPON", "DISCOUNT_PRODUCT"},
                               on: BOOLEAN, start: Days, end: Days]]
    BY <2>1, <1>1, <1>2 DEF IInv, TargetsMade
  <2>3. \A t \in target' : Made(t)'
    BY <1>4, <1>8, <1>9, <1>10 DEF IInv, TargetsMade
  <2> QED BY <2>2, <2>3 DEF TargetsMade
<1>13. CouponsKept'
  BY <1>4, <1>5 DEF CouponsKept
<1>14. SelectedMade'
  BY <1>6, <1>8 DEF IInv, SelectedMade
<1>15. SelectedFree'
  BY <1>5, <1>6 DEF IInv, SelectedFree
<1>16. SelectedKept'
  <2>1. SUFFICES ASSUME job.op # "issue", NEW c \in DOMAIN job.rows, c.target \in target'
                 PROVE  c \in DOMAIN coupon'
    BY <1>6 DEF SelectedKept
  <2>2. c.target \in others
    BY <2>1, <1>9, <1>11 DEF IInv, SelectedMade
  <2>3. c \in DOMAIN coupon
    BY <2>1, <2>2, <1>4 DEF IInv, SelectedKept
  <2> QED BY <2>2, <2>3, <1>5
<1>17. OneCouponPerTarget'
  BY <1>5 DEF IInv, OneCouponPerTarget
<1> QED BY <1>12, <1>13, <1>14, <1>15, <1>16, <1>17 DEF IInv

(* A page is a part of the rows it is read from. *)
LEMMA PageOfRows == ASSUME NEW rows, NEW p \in Pages(rows) PROVE p \subseteq rows
BY DEF Pages, kSubset

(* The issue job selects members without a coupon, each once per target.   *)
LEMMA IssueIInv == ASSUME IInv, RunCouponIssueJob PROVE IInv'
<1>1. PICK p \in Pages(Issuable) : Start("issue", [c \in p |-> NewCoupon])
  BY DEF RunCouponIssueJob
<1>2. p \subseteq Issuable
  BY PageOfRows
<1>3. /\ job' = [op |-> "issue", rows |-> [c \in p |-> NewCoupon]]
      /\ UNCHANGED <<event, target, coupon>>
  BY <1>1 DEF Start
<1>4. job'.op = "issue" /\ DOMAIN job'.rows = p
  BY <1>3
<1>5. ASSUME NEW c \in p
      PROVE  /\ c.target \in target
             /\ CouponsOf(c.target, c.member) = {}
             /\ c = [target |-> c.target, member |-> c.member,
                     copy |-> Cardinality(CouponsOf(c.target, c.member))]
  <2>1. PICK q \in target \X Members :
            /\ NotIssued(q[1], q[2])
            /\ c = [target |-> q[1], member |-> q[2],
                    copy |-> Cardinality(CouponsOf(q[1], q[2]))]
    BY <1>2 DEF Issuable
  <2> QED BY <2>1 DEF NotIssued
<1>6. SelectedFree'
  <2>1. \A c \in p, d \in DOMAIN coupon : ~(c.target = d.target /\ c.member = d.member)
    BY <1>5 DEF CouponsOf
  <2>2. \A c, d \in p : c.target = d.target /\ c.member = d.member => c = d
    BY <1>5
  <2> QED BY <2>1, <2>2, <1>3, <1>4 DEF SelectedFree
<1>7. TargetsMade' /\ CouponsKept' /\ OneCouponPerTarget'
  BY <1>3 DEF IInv, TargetsMade, Made, CouponsKept, OneCouponPerTarget
<1>8. SelectedMade'
  BY <1>3, <1>4, <1>5 DEF IInv, TargetsMade, SelectedMade, Made
<1>9. SelectedKept'
  BY <1>4 DEF SelectedKept
<1> QED BY <1>6, <1>7, <1>8, <1>9 DEF IInv

(* The expire job selects coupons that exist. *)
LEMMA ExpireIInv == ASSUME IInv, RunCouponExpireJob PROVE IInv'
<1>1. PICK p \in Pages(EndedCoupons) : Start("expire", [c \in p |-> Expired(coupon[c])])
  BY DEF RunCouponExpireJob
<1>2. p \subseteq DOMAIN coupon
  BY PageOfRows DEF EndedCoupons
<1>3. /\ job' = [op |-> "expire", rows |-> [c \in p |-> Expired(coupon[c])]]
      /\ UNCHANGED <<event, target, coupon>>
  BY <1>1 DEF Start
<1>4. job'.op = "expire" /\ DOMAIN job'.rows = p
  BY <1>3
<1>5. TargetsMade' /\ CouponsKept' /\ OneCouponPerTarget'
  BY <1>3 DEF IInv, TargetsMade, Made, CouponsKept, OneCouponPerTarget
<1>6. SelectedMade'
  BY <1>2, <1>3, <1>4 DEF IInv, TargetsMade, CouponsKept, SelectedMade, Made
<1>7. SelectedFree' /\ SelectedKept'
  BY <1>2, <1>3, <1>4 DEF SelectedFree, SelectedKept
<1> QED BY <1>5, <1>6, <1>7 DEF IInv

(* The execution ends with nothing selected. *)
LEMMA EndedIInv ==
    ASSUME IInv, job' = NoJob, UNCHANGED <<event, target>>,
           CouponsKept', OneCouponPerTarget'
    PROVE  IInv'
<1>1. job'.op = "none" /\ DOMAIN job'.rows = {}
  BY DEF NoJob, NoCoupons
<1>2. SelectedMade' /\ SelectedFree' /\ SelectedKept'
  BY <1>1 DEF SelectedMade, SelectedFree, SelectedKept
<1>3. TargetsMade'
  BY DEF IInv, TargetsMade, Made
<1> QED BY <1>2, <1>3 DEF IInv

(* The chunk adds the coupons that were selected as missing, or rewrites   *)
(* coupons that are there.                                                 *)
LEMMA WriteChunkIInv == ASSUME IInv, NEW op \in JobOps, WriteChunk(op) PROVE IInv'
<1>1. /\ job' = NoJob
      /\ UNCHANGED <<event, target>>
      /\ DOMAIN coupon' = DOMAIN coupon \union DOMAIN job.rows
      /\ \A c \in DOMAIN job.rows : c.target \in target
  BY DEF WriteChunk, Merged, TargetExists
<1>2. CouponsKept'
  BY <1>1 DEF IInv, CouponsKept
<1>3. OneCouponPerTarget'
  <2>1. CASE job.op = "issue"
    BY <2>1, <1>1 DEF IInv, SelectedFree, OneCouponPerTarget
  <2>2. CASE job.op # "issue"
    BY <2>2, <1>1 DEF IInv, SelectedKept, OneCouponPerTarget
  <2> QED BY <2>1, <2>2
<1> QED BY <1>1, <1>2, <1>3, EndedIInv

LEMMA InitIInv == Init => IInv
<1> SUFFICES ASSUME Init PROVE IInv
  OBVIOUS
<1>1. DOMAIN coupon = {} /\ DOMAIN job.rows = {} /\ target = {}
  BY DEF Init, NoCoupons, NoJob
<1>2. event \in [Events -> [edits: Nat, type: {"COUPON", "DISCOUNT_PRODUCT"},
                            on: BOOLEAN, start: Days, end: Days]]
  BY CouponAssumption DEF Init, Days, CouponAssumption
<1> QED
  BY <1>1, <1>2 DEF IInv, TargetsMade, CouponsKept, SelectedMade, SelectedFree, SelectedKept,
                    OneCouponPerTarget

LEMMA NextIInv == ASSUME IInv, [Next]_vars PROVE IInv'
<1>1. ASSUME NEW e \in Events, NEW f \in EventForms, NEW ratings \in SUBSET Ratings \ {{}},
             SaveEvent(e, f, ratings)
      PROVE  IInv'
  BY <1>1, SaveEventIInv
<1>2. ASSUME NEW m \in Members, Promote(m) PROVE IInv'
  BY <1>2, KeysKept DEF Promote
<1>3. CASE Midnight \/ Miss
  BY <1>3, KeysKept DEF Midnight, Miss
<1>4. CASE RunCouponIssueJob
  BY <1>4, IssueIInv
<1>5. CASE RunCouponExpireJob
  BY <1>5, ExpireIInv
<1>6. ASSUME NEW op \in JobOps, WriteChunk(op) PROVE IInv'
  BY <1>6, WriteChunkIInv
<1>7. CASE Fail
  <2>1. CouponsKept' /\ OneCouponPerTarget'
    BY <1>7 DEF Fail, IInv, CouponsKept, OneCouponPerTarget
  <2> QED BY <1>7, <2>1, EndedIInv DEF Fail
<1>8. ASSUME NEW c, OpenPage(c) \/ LeavePage(c) PROVE IInv'
  BY <1>8, KeysKept DEF OpenPage, LeavePage
<1>9. ASSUME NEW w \in Workers, Order(w) PROVE IInv'
  BY <1>9, KeysKept DEF Order, BeginOrdering, BeginCancel, CommitOrdering, CommitCancel, Rollback
<1>10. CASE UNCHANGED vars
  BY <1>10, KeysKept DEF vars
<1> QED
  BY <1>1, <1>2, <1>3, <1>4, <1>5, <1>6, <1>7, <1>8, <1>9, <1>10 DEF Next

(* The inductive invariant holds in every reachable state. *)
THEOREM Invariance == Spec => []IInv
BY InitIInv, NextIInv, PTL DEF Spec

(* No member ever holds two coupons of a target, however late the issue    *)
(* job writes and whatever the admin, the orders and the expire job do     *)
(* meanwhile (couponIssueReader, EventService.modify).                     *)
THEOREM AtMostOneCoupon == Spec => []OneCouponPerTarget
<1>1. IInv => OneCouponPerTarget
  BY DEF IInv
<1> QED BY <1>1, Invariance, PTL

-----------------------------------------------------------------------------
(***************************************************************************)
(* Coupons that pay for an order.  The expire job may write back that a    *)
(* coupon is unused; it is not offered all the same, because all the job   *)
(* writes is expired, and the issue job writes no row that is there.       *)
(***************************************************************************)

RowsTyped ==
    /\ \A c \in DOMAIN coupon : coupon[c] \in CouponRow
    /\ \A c \in DOMAIN job.rows : job.rows[c] \in CouponRow
    /\ DOMAIN tx = Workers
    /\ \A w \in Workers : tx[w] # Idle => tx[w].row \in CouponRow

SelectedExpired == job.op # "issue" => \A c \in DOMAIN job.rows : job.rows[c].expired

HInv ==
    /\ RowsTyped
    /\ SelectedExpired
    /\ live \subseteq DOMAIN coupon
    /\ HeldIsNotOffered

LEMMA InitHInv == Init => HInv
BY DEF Init, HInv, RowsTyped, SelectedExpired, HeldIsNotOffered, NoCoupons, NoJob

(* A chunk leaves every held coupon as it is or expired. *)
LEMMA WriteChunkHInv == ASSUME IInv, HInv, NEW op \in JobOps, WriteChunk(op) PROVE HInv'
<1>1. /\ coupon' = Merged(coupon, job.rows)
      /\ job' = NoJob
      /\ UNCHANGED <<live, tx>>
      /\ \A c \in DOMAIN job.rows : c.target \in target
  BY DEF WriteChunk, TargetExists
<1>2. DOMAIN coupon' = DOMAIN coupon \union DOMAIN job.rows
  BY <1>1 DEF Merged
<1>3. \A c \in DOMAIN coupon' :
        coupon'[c] = IF c \in DOMAIN job.rows THEN job.rows[c] ELSE coupon[c]
  BY <1>1 DEF Merged
<1>4. DOMAIN job'.rows = {}
  BY <1>1 DEF NoJob, NoCoupons
<1>5. RowsTyped' /\ SelectedExpired'
  BY <1>1, <1>2, <1>3, <1>4 DEF HInv, RowsTyped, SelectedExpired
<1>6. ASSUME NEW c \in live PROVE coupon'[c] # NewCoupon
  <2>1. CASE job.op = "issue"
    <3>1. c \in DOMAIN coupon /\ c \notin DOMAIN job.rows
      BY <1>6, <2>1 DEF HInv, IInv, SelectedFree
    <3> QED BY <3>1, <1>2, <1>3, <1>6 DEF HInv, HeldIsNotOffered
  <2>2. CASE job.op # "issue"
    BY <2>2, <1>2, <1>3, <1>6 DEF HInv, SelectedExpired, HeldIsNotOffered, NewCoupon
  <2> QED BY <2>1, <2>2
<1> QED BY <1>1, <1>2, <1>5, <1>6 DEF HInv, HeldIsNotOffered

(* Both jobs select rows of their type; those of the expire job expired.   *)
LEMMA StartHInv ==
    ASSUME HInv, RunCouponIssueJob \/ RunCouponExpireJob
    PROVE  HInv'
<1>1. CASE RunCouponIssueJob
  <2>1. PICK p \in Pages(Issuable) : Start("issue", [c \in p |-> NewCoupon])
    BY <1>1 DEF RunCouponIssueJob
  <2>2. job'.op = "issue" /\ job'.rows = [c \in p |-> NewCoupon] /\ UNCHANGED <<coupon, live, tx>>
    BY <2>1 DEF Start
  <2> QED BY <2>2 DEF HInv, RowsTyped, SelectedExpired, HeldIsNotOffered, NewCoupon, CouponRow
<1>2. CASE RunCouponExpireJob
  <2>1. PICK p \in Pages(EndedCoupons) : Start("expire", [c \in p |-> Expired(coupon[c])])
    BY <1>2 DEF RunCouponExpireJob
  <2>2. /\ job'.rows = [c \in p |-> Expired(coupon[c])]
        /\ UNCHANGED <<coupon, live, tx>>
    BY <2>1 DEF Start
  <2>3. p \subseteq DOMAIN coupon
    BY PageOfRows DEF EndedCoupons
  <2>4. \A c \in p : Expired(coupon[c]) \in CouponRow /\ Expired(coupon[c]).expired
    BY <2>3 DEF HInv, RowsTyped, Expired, CouponRow
  <2> QED BY <2>2, <2>4 DEF HInv, RowsTyped, SelectedExpired, HeldIsNotOffered
<1> QED BY <1>1, <1>2

(* An order holds a coupon it marks used; a cancel releases the one it     *)
(* marks unused.                                                           *)
LEMMA OrderHInv == ASSUME HInv, NEW w \in Workers, Order(w) PROVE HInv'
<1>1. UNCHANGED job
  BY DEF Order, BeginOrdering, BeginCancel, CommitOrdering, CommitCancel, Rollback
<1>2. CASE \E c \in page : BeginOrdering(w, c)
  BY <1>1, <1>2 DEF BeginOrdering, HInv, RowsTyped, SelectedExpired, HeldIsNotOffered
<1>3. CASE \E c \in live : BeginCancel(w, c)
  BY <1>1, <1>3 DEF BeginCancel, HInv, RowsTyped, SelectedExpired, HeldIsNotOffered
<1>4. CASE CommitOrdering(w)
  <2>1. tx[w].row \in CouponRow
    BY <1>4 DEF CommitOrdering, HInv, RowsTyped
  <2>2. Used(tx[w].row) \in CouponRow /\ Used(tx[w].row) # NewCoupon
    BY <2>1 DEF Used, CouponRow, NewCoupon
  <2>3. /\ tx[w].coupon \in DOMAIN coupon
        /\ coupon' = [coupon EXCEPT ![tx[w].coupon] = Used(tx[w].row)]
        /\ live' = live \union {tx[w].coupon}
        /\ tx' = [tx EXCEPT ![w] = Idle]
    BY <1>4 DEF CommitOrdering
  <2> QED BY <1>1, <2>2, <2>3 DEF HInv, RowsTyped, SelectedExpired, HeldIsNotOffered
<1>5. CASE CommitCancel(w)
  <2>1. tx[w].row \in CouponRow
    BY <1>5 DEF CommitCancel, HInv, RowsTyped
  <2>2. [tx[w].row EXCEPT !.used = FALSE] \in CouponRow
    BY <2>1 DEF CouponRow
  <2>3. /\ coupon' = [coupon EXCEPT ![tx[w].coupon] = [tx[w].row EXCEPT !.used = FALSE]]
        /\ live' = live \ {tx[w].coupon}
        /\ tx' = [tx EXCEPT ![w] = Idle]
    BY <1>5 DEF CommitCancel
  <2> QED BY <1>1, <2>2, <2>3 DEF HInv, RowsTyped, SelectedExpired, HeldIsNotOffered
<1>6. CASE Rollback(w)
  BY <1>1, <1>6 DEF Rollback, HInv, RowsTyped, SelectedExpired, HeldIsNotOffered
<1> QED BY <1>2, <1>3, <1>4, <1>5, <1>6 DEF Order

LEMMA NextHInv == ASSUME IInv, HInv, [Next]_vars PROVE HInv'
<1>1. ASSUME NEW e, NEW f, NEW ratings, SaveEvent(e, f, ratings) PROVE HInv'
  <2>1. /\ DOMAIN coupon' \subseteq DOMAIN coupon
        /\ \A c \in DOMAIN coupon' : coupon'[c] = coupon[c]
        /\ live' = live \intersect DOMAIN coupon'
        /\ UNCHANGED <<job, tx>>
    BY <1>1 DEF SaveEvent
  <2> QED BY <2>1 DEF HInv, RowsTyped, SelectedExpired, HeldIsNotOffered
<1>2. ASSUME UNCHANGED <<coupon, live, tx, job>> PROVE HInv'
  BY <1>2 DEF HInv, RowsTyped, SelectedExpired, HeldIsNotOffered
<1>3. ASSUME NEW m \in Members, Promote(m) PROVE HInv'
  BY <1>2, <1>3 DEF Promote
<1>4. CASE Midnight \/ Miss \/ UNCHANGED vars
  BY <1>2, <1>4 DEF Midnight, Miss, vars
<1>5. CASE RunCouponIssueJob \/ RunCouponExpireJob
  BY <1>5, StartHInv
<1>6. ASSUME NEW op \in JobOps, WriteChunk(op) PROVE HInv'
  BY <1>6, WriteChunkHInv
<1>7. CASE Fail
  BY <1>7 DEF Fail, HInv, RowsTyped, SelectedExpired, HeldIsNotOffered, NoJob, NoCoupons
<1>8. ASSUME NEW c, OpenPage(c) \/ LeavePage(c) PROVE HInv'
  BY <1>2, <1>8 DEF OpenPage, LeavePage
<1>9. ASSUME NEW w \in Workers, Order(w) PROVE HInv'
  BY <1>9, OrderHInv
<1> QED BY <1>1, <1>3, <1>4, <1>5, <1>6, <1>7, <1>8, <1>9 DEF Next

(* A coupon that pays for a live order is never on offer, whatever the     *)
(* jobs write back and the admin edits (couponExpireProcessor, ordering,   *)
(* cancel).                                                                *)
THEOREM HeldNotOffered == Spec => []HeldIsNotOffered
<1>1. IInv /\ HInv /\ [Next]_vars => HInv'
  BY NextHInv
<1>2. HInv => HeldIsNotOffered
  BY DEF HInv
<1> QED BY InitHInv, Invariance, <1>1, <1>2, PTL DEF Spec

-----------------------------------------------------------------------------
(***************************************************************************)
(* Types.                                                                  *)
(***************************************************************************)

Keys == [target: Targets, member: Members, copy: Nat]

EventRows == [edits: 0..MaxEdits, type: {"COUPON", "DISCOUNT_PRODUCT"},
              on: BOOLEAN, start: Days, end: Days]

TInv ==
    /\ today \in Days
    /\ event \in [Events -> EventRows]
    /\ target \subseteq Targets
    /\ DOMAIN coupon \subseteq Keys
    /\ DOMAIN job.rows \subseteq Keys
    /\ page \subseteq Keys
    /\ rating \in [Members -> Ratings]
    /\ \A w \in Workers : tx[w] = Idle \/ tx[w].op \in {"ordering", "cancel"}
    /\ job.op \in JobOps \union {"none"}
    /\ due \subseteq JobOps

LEMMA InitTInv == Init => TInv
<1> SUFFICES ASSUME Init PROVE TInv
  OBVIOUS
<1>1. DOMAIN coupon = {} /\ DOMAIN job.rows = {} /\ job.op = "none"
  BY DEF Init, NoCoupons, NoJob
<1>2. 0 \in Days /\ 0 \in 0..MaxEdits /\ 0 \in Ratings
  BY CouponAssumption DEF Days, Ratings
<1>3. event \in [Events -> EventRows]
  BY <1>2 DEF Init, EventRows
<1> QED BY <1>1, <1>2, <1>3 DEF Init, TInv

(* A coupon event's edit makes targets that carry its number. *)
LEMMA SaveEventTInv ==
    ASSUME TInv, NEW e \in Events, NEW f \in EventForms, NEW ratings \in SUBSET Ratings,
           SaveEvent(e, f, ratings)
    PROVE  TInv'
<1> DEFINE edit == event[e].edits + 1
           row == [edits |-> edit, type |-> f.type, on |-> f.on, start |-> f.start, end |-> f.end]
           new == {[event |-> e, rating |-> r, edit |-> edit] : r \in ratings}
<1>1. edit \in 1..MaxEdits
  BY CouponAssumption DEF SaveEvent, TInv, EventRows
<1>2. row \in EventRows /\ event' = [event EXCEPT ![e] = row]
  BY <1>1, CouponAssumption DEF SaveEvent, EventRows
<1>3. event' \in [Events -> EventRows]
  <2> HIDE DEF row
  <2> QED BY <1>2 DEF TInv
<1>4. new \subseteq Targets
  BY <1>1 DEF Targets
<1>5. target' \subseteq target \union new
  BY DEF SaveEvent
<1>6. target' \subseteq Targets
  BY <1>4, <1>5 DEF TInv
<1>7. DOMAIN coupon' \subseteq DOMAIN coupon /\ UNCHANGED <<today, rating, page, tx, job, due>>
  BY DEF SaveEvent
<1> QED BY <1>3, <1>6, <1>7 DEF TInv

(* What the jobs select are coupons of targets and members. *)
LEMMA StartTInv == ASSUME TInv, RunCouponIssueJob \/ RunCouponExpireJob PROVE TInv'
<1>1. CASE RunCouponIssueJob
  <2>1. PICK p \in Pages(Issuable) : Start("issue", [c \in p |-> NewCoupon])
    BY <1>1 DEF RunCouponIssueJob
  <2>2. p \subseteq Issuable
    BY PageOfRows
  <2>3. ASSUME NEW c \in p PROVE c \in Keys
    <3>1. PICK q \in target \X Members :
              /\ NotIssued(q[1], q[2])
              /\ c = [target |-> q[1], member |-> q[2],
                      copy |-> Cardinality(CouponsOf(q[1], q[2]))]
      BY <2>2 DEF Issuable
    <3>2. Cardinality(CouponsOf(q[1], q[2])) = 0
      BY <3>1, FS_EmptySet DEF NotIssued
    <3> QED BY <3>1, <3>2 DEF Keys, TInv
  <2>4. /\ job'.op = "issue" /\ DOMAIN job'.rows = p
        /\ due' \subseteq due
        /\ UNCHANGED <<today, event, target, coupon, live, rating, page, tx>>
    BY <2>1 DEF Start
  <2> QED BY <2>3, <2>4 DEF TInv, JobOps
<1>2. CASE RunCouponExpireJob
  <2>1. PICK p \in Pages(EndedCoupons) : Start("expire", [c \in p |-> Expired(coupon[c])])
    BY <1>2 DEF RunCouponExpireJob
  <2>2. p \subseteq DOMAIN coupon
    BY PageOfRows DEF EndedCoupons
  <2>3. /\ job'.op = "expire" /\ DOMAIN job'.rows = p
        /\ due' \subseteq due
        /\ UNCHANGED <<today, event, target, coupon, live, rating, page, tx>>
    BY <2>1 DEF Start
  <2> QED BY <2>2, <2>3 DEF TInv, JobOps
<1> QED BY <1>1, <1>2

(* Orders change the coupons' rows, not their keys. *)
LEMMA OrderTInv == ASSUME TInv, HInv, NEW w \in Workers, Order(w) PROVE TInv'
<1>1. /\ UNCHANGED <<today, event, target, rating, job, due>>
      /\ DOMAIN coupon' = DOMAIN coupon /\ page' \subseteq page
  BY DEF Order, BeginOrdering, BeginCancel, CommitOrdering, CommitCancel, Rollback
<1>2. DOMAIN tx = Workers
  BY DEF HInv, RowsTyped
<1>3. \A v \in Workers : tx'[v] = Idle \/ tx'[v].op \in {"ordering", "cancel"}
  BY <1>2 DEF Order, BeginOrdering, BeginCancel, CommitOrdering, CommitCancel, Rollback, TInv
<1> QED BY <1>1, <1>3 DEF TInv

LEMMA NextTInv == ASSUME TInv, HInv, [Next]_vars PROVE TInv'
<1>1. ASSUME NEW e \in Events, NEW f \in EventForms, NEW ratings \in SUBSET Ratings \ {{}},
             SaveEvent(e, f, ratings)
      PROVE  TInv'
  BY <1>1, SaveEventTInv
<1>2. ASSUME NEW m \in Members, Promote(m) PROVE TInv'
  <2>1. rating[m] + 1 \in Ratings
    BY <1>2, CouponAssumption DEF Promote, TInv, Ratings
  <2>2. rating' \in [Members -> Ratings]
    BY <1>2, <2>1 DEF Promote, TInv
  <2> QED BY <1>2, <2>2 DEF Promote, TInv
<1>3. CASE Midnight
  <2>1. Min({today + 1, MaxDay}) \in Days
    BY CouponAssumption DEF TInv, Days, Min
  <2> QED BY <1>3, <2>1 DEF Midnight, TInv
<1>4. CASE Miss
  BY <1>4 DEF Miss, TInv
<1>5. CASE RunCouponIssueJob \/ RunCouponExpireJob
  BY <1>5, StartTInv
<1>6. ASSUME NEW op \in JobOps, WriteChunk(op) PROVE TInv'
  <2>1. /\ DOMAIN coupon' = DOMAIN coupon \union DOMAIN job.rows
        /\ job' = NoJob
        /\ UNCHANGED <<today, event, target, live, rating, page, tx, due>>
    BY <1>6 DEF WriteChunk, Merged
  <2> QED BY <2>1 DEF TInv, NoJob, NoCoupons
<1>7. CASE Fail
  BY <1>7 DEF Fail, TInv, NoJob, NoCoupons
<1>8. ASSUME NEW c \in DOMAIN coupon, OpenPage(c) PROVE TInv'
  BY <1>8 DEF OpenPage, TInv
<1>9. ASSUME NEW c \in page, LeavePage(c) PROVE TInv'
  BY <1>9 DEF LeavePage, TInv
<1>10. ASSUME NEW w \in Workers, Order(w) PROVE TInv'
  BY <1>10, OrderTInv
<1>11. CASE UNCHANGED vars
  BY <1>11 DEF vars, TInv
<1> QED
  BY <1>1, <1>2, <1>3, <1>4, <1>5, <1>6, <1>7, <1>8, <1>9, <1>10, <1>11 DEF Next

(* Every coupon belongs to a target that exists and every order that holds *)
(* one holds one that exists; rows have their types.                       *)
THEOREM TypeOKHolds == Spec => []TypeOK
<1>1. TInv /\ HInv /\ [Next]_vars => TInv'
  BY NextTInv
<1>2. IInv /\ HInv /\ [Next]_vars => HInv'
  BY NextHInv
<1>3. ASSUME IInv, HInv, TInv PROVE TypeOK
  <2>1. \A c \in DOMAIN coupon : c \in [target: target, member: Members, copy: Nat]
    BY <1>3 DEF IInv, CouponsKept, TInv, Keys
  <2>2. /\ DOMAIN coupon \subseteq [target: target, member: Members, copy: Nat]
        /\ \A w \in Workers : tx[w] = Idle \/ /\ tx[w].op \in {"ordering", "cancel"}
                                              /\ tx[w].row \in CouponRow
    BY <1>3, <2>1 DEF TInv, HInv, RowsTyped
  <2> QED BY <1>3, <2>2 DEF TypeOK, TInv, Keys, EventRows, HInv, RowsTyped
<1>4. IInv /\ HInv /\ TInv => TypeOK
  BY <1>3
<1> QED BY InitTInv, InitHInv, Invariance, <1>1, <1>2, <1>4, PTL DEF Spec
=============================================================================
