----------------------------- MODULE CouponJobs -----------------------------
(***************************************************************************)
(* Coupons from the event that grants them to the order that uses them:    *)
(* service/admin/EventService, the nightly batch/CouponIssueJobConfigure   *)
(* and batch/CouponExpireJobConfigure, and the use and release of a coupon *)
(* by service/order/OrderService.                                          *)
(*                                                                         *)
(* Both jobs read one page of at most Limit rows, in no order, and write   *)
(* it as one chunk; what they write are whole rows, as they were read.     *)
(***************************************************************************)
EXTENDS Integers, FiniteSets, FiniteSetsExt

CONSTANTS
    Members,     \* customers
    TopRating,   \* ordinal of the highest rating
    Events,      \* event.seq
    EventForms,  \* what the admin may submit: type, on, start, end
    Limit,       \* chunkSize, which is pageSize and maxItemCount too
    Workers,     \* request threads
    MaxEdits,    \* bound: times an event is saved
    MaxDay       \* bound: the last day that is told from its successors

Ratings == 0..TopRating
Days == 0..MaxDay

ASSUME CouponAssumption ==
    /\ TopRating \in Nat
    /\ MaxDay \in Nat
    /\ MaxEdits \in Nat
    /\ Limit \in Nat \ {0}
    /\ EventForms \subseteq [type: {"COUPON", "DISCOUNT_PRODUCT"}, on: BOOLEAN,
                             start: Days, end: Days]

VARIABLES
    today,   \* the date
    event,   \* rows of event; edits counts how often one was saved
    target,  \* rows of event_target
    coupon,  \* rows of coupon
    live,    \* coupons that orders hold: order_master.coupon_used
    rating,  \* member.rating
    page,    \* coupons chosen on open checkout pages
    tx,      \* open ordering or cancel of a thread
    job,     \* the batch execution
    due      \* jobs the cron trigger has fired for

vars == <<today, event, target, coupon, live, rating, page, tx, job, due>>

-----------------------------------------------------------------------------
Targets == [event: Events, rating: Ratings, edit: 1..MaxEdits]
CouponRow == [used: BOOLEAN, expired: BOOLEAN]

(* new Coupon(et, m) *)
NewCoupon == [used |-> FALSE, expired |-> FALSE]

JobOps == {"issue", "expire"}
Idle == [op |-> "idle"]
NoCoupons == [c \in {} |-> NewCoupon]
NoJob == [op |-> "none", rows |-> NoCoupons]

IsTargeted(t, m) ==
    /\ t \in target
    /\ event[t.event].type = "COUPON"
    /\ event[t.event].on
    /\ event[t.event].start <= today
    /\ rating[m] = t.rating

CouponsOf(t, m) == {c \in DOMAIN coupon : c.target = t /\ c.member = m}

AnyCopy(t, m) == TRUE  \* mutant: "and c.event is null" is missing

NobodyHas(t, m) ==  \* mutant: the join lacks "c.member = m"
    \A x \in Members : CouponsOf(t, x) = {}

NotIssued(t, m) == CouponsOf(t, m) = {}

(* What the reader of the issue job selects: a coupon for every member     *)
(* with the rating of a target that has none for this target yet.          *)
Issuable ==
    {[target |-> p[1], member |-> p[2], copy |-> Cardinality(CouponsOf(p[1], p[2]))] :
        p \in {q \in target \X Members : IsTargeted(q[1], q[2]) /\ NotIssued(q[1], q[2])}}

HasEnded(e) == event[e].end < today

(* What the reader of the expire job selects, the expired ones included. *)
EndedCoupons == {c \in DOMAIN coupon : HasEnded(c.target.event)}

(* One page of a query without "order by". *)
Pages(rows) == kSubset(Min({Limit, Cardinality(rows)}), rows)

NotExpired(row) == row  \* mutant: coupon.expire() is missing
Expired(row) == [row EXCEPT !.expired = TRUE]

(* The rows of a table after those of new were written. *)
Merged(rows, new) ==
    [c \in DOMAIN rows \union DOMAIN new |->
        IF c \in DOMAIN new THEN new[c] ELSE rows[c]]

AcceptStale(c) == TRUE  \* mutant: no foreign key holds the chunk back
TargetExists(c) == c.target \in target

(* A member has one checkout page or order request open at a time. *)
Busy(m) ==
    \/ \E c \in page : c.member = m
    \/ \E w \in Workers : tx[w] # Idle /\ tx[w].coupon.member = m

-----------------------------------------------------------------------------
Init ==
    /\ today = 0
    /\ event = [e \in Events |-> [edits |-> 0, type |-> "DISCOUNT_PRODUCT",
                                  on |-> FALSE, start |-> 0, end |-> 0]]
    /\ target = {}
    /\ coupon = NoCoupons
    /\ live = {}
    /\ rating = [m \in Members |-> 0]
    /\ page = {}
    /\ tx = [w \in Workers |-> Idle]
    /\ job = NoJob
    /\ due = {}

-----------------------------------------------------------------------------
(***************************************************************************)
(* EventService.                                                           *)
(***************************************************************************)

(* EventService.save and modify: a coupon event gets new targets.  Those   *)
(* it had are deleted, and "on delete cascade" takes their coupons and the *)
(* orders that hold them along.                                            *)
SaveEvent(e, f, ratings) ==
    LET edit == event[e].edits + 1
        others == {t \in target : t.event # e \/ f.type # "COUPON"}
    IN  /\ edit <= MaxEdits
        /\ event' = [event EXCEPT ![e] = [edits |-> edit, type |-> f.type, on |-> f.on,
                                          start |-> f.start, end |-> f.end]]
        /\ target' = IF f.type = "COUPON"
                        THEN others \union {[event |-> e, rating |-> r, edit |-> edit] : r \in ratings}
                        ELSE target
        /\ coupon' = [c \in {d \in DOMAIN coupon : d.target \in others} |-> coupon[c]]
        /\ live' = live \intersect DOMAIN coupon'
        /\ UNCHANGED <<today, rating, page, tx, job, due>>

(* Member.addOrderAmountAndUpdateRating *)
Promote(m) ==
    /\ rating[m] < TopRating
    /\ rating' = [rating EXCEPT ![m] = @ + 1]
    /\ UNCHANGED <<today, event, target, coupon, live, page, tx, job, due>>

-----------------------------------------------------------------------------
(***************************************************************************)
(* The jobs: one scheduler thread, triggered at midnight.                  *)
(***************************************************************************)

Midnight ==
    /\ today' = Min({today + 1, MaxDay})
    /\ due' = JobOps
    /\ UNCHANGED <<event, target, coupon, live, rating, page, tx, job>>

(* Nobody runs what a server that is down at midnight has missed. *)
Miss ==
    /\ due # {}
    /\ due' = {}
    /\ UNCHANGED <<today, event, target, coupon, live, rating, page, tx, job>>

Start(op, rows) ==
    /\ job = NoJob
    /\ op \in due
    /\ due' = due \ {op}
    /\ job' = [op |-> op, rows |-> rows]
    /\ UNCHANGED <<today, event, target, coupon, live, rating, page, tx>>

RunCouponIssueJob == \E p \in Pages(Issuable) : Start("issue", [c \in p |-> NewCoupon])

RunCouponExpireJob ==
    \E p \in Pages(EndedCoupons) : Start("expire", [c \in p |-> Expired(coupon[c])])

(* The chunk is merged row by row; a row whose target is gone fails it all. *)
WriteChunk(op) ==
    /\ job.op = op
    /\ \A c \in DOMAIN job.rows : TargetExists(c)
    /\ coupon' = Merged(coupon, job.rows)
    /\ job' = NoJob
    /\ UNCHANGED <<today, event, target, live, rating, page, tx, due>>

Fail ==
    /\ job # NoJob
    /\ job' = NoJob
    /\ UNCHANGED <<today, event, target, coupon, live, rating, page, tx, due>>

-----------------------------------------------------------------------------
(***************************************************************************)
(* Orders.  The page lists the coupons that are neither used nor expired;  *)
(* the server looks the coupon up and does not check it again.             *)
(***************************************************************************)

OpenPage(c) ==
    /\ coupon[c] = NewCoupon
    /\ ~Busy(c.member)
    /\ page' = page \union {c}
    /\ UNCHANGED <<today, event, target, coupon, live, rating, tx, job, due>>

LeavePage(c) ==
    /\ page' = page \ {c}
    /\ UNCHANGED <<today, event, target, coupon, live, rating, tx, job, due>>

BeginOrdering(w, c) ==
    /\ tx[w] = Idle
    /\ c \in DOMAIN coupon
    /\ page' = page \ {c}
    /\ tx' = [tx EXCEPT ![w] = [op |-> "ordering", coupon |-> c, row |-> coupon[c]]]
    /\ UNCHANGED <<today, event, target, coupon, live, rating, job, due>>

BeginCancel(w, c) ==
    /\ tx[w] = Idle
    /\ ~Busy(c.member)
    /\ tx' = [tx EXCEPT ![w] = [op |-> "cancel", coupon |-> c, row |-> coupon[c]]]
    /\ UNCHANGED <<today, event, target, coupon, live, rating, page, job, due>>

Unused(row) == row  \* mutant: coupon.use() is missing
Used(row) == [row EXCEPT !.used = TRUE]

CommitOrdering(w) ==
    /\ tx[w] # Idle /\ tx[w].op = "ordering"
    /\ tx[w].coupon \in DOMAIN coupon
    /\ coupon' = [coupon EXCEPT ![tx[w].coupon] = Used(tx[w].row)]
    /\ live' = live \union {tx[w].coupon}
    /\ tx' = [tx EXCEPT ![w] = Idle]
    /\ UNCHANGED <<today, event, target, rating, page, job, due>>

CommitCancel(w) ==
    /\ tx[w] # Idle /\ tx[w].op = "cancel"
    /\ tx[w].coupon \in DOMAIN coupon
    /\ coupon' = [coupon EXCEPT ![tx[w].coupon] = [tx[w].row EXCEPT !.used = FALSE]]
    /\ live' = live \ {tx[w].coupon}
    /\ tx' = [tx EXCEPT ![w] = Idle]
    /\ UNCHANGED <<today, event, target, rating, page, job, due>>

(* An exception, or a row that is gone when it is written. *)
Rollback(w) ==
    /\ tx[w] # Idle
    /\ tx' = [tx EXCEPT ![w] = Idle]
    /\ UNCHANGED <<today, event, target, coupon, live, rating, page, job, due>>

-----------------------------------------------------------------------------
Order(w) ==
    \/ \E c \in page : BeginOrdering(w, c)
    \/ \E c \in live : BeginCancel(w, c)
    \/ CommitOrdering(w)
    \/ CommitCancel(w)
    \/ Rollback(w)

Next ==
    \/ \E e \in Events, f \in EventForms, ratings \in SUBSET Ratings \ {{}} :
            SaveEvent(e, f, ratings)
    \/ \E m \in Members : Promote(m)
    \/ Midnight \/ Miss
    \/ RunCouponIssueJob \/ RunCouponExpireJob
    \/ \E op \in JobOps : WriteChunk(op)
    \/ Fail
    \/ \E c \in DOMAIN coupon : OpenPage(c)
    \/ \E c \in page : LeavePage(c)
    \/ \E w \in Workers : Order(w)

Spec == Init /\ [][Next]_vars

(* Days pass, a job is not missed on every day, an execution ends, and no  *)
(* job fails on every day.                                                 *)
Fairness ==
    /\ WF_vars(Midnight)
    /\ SF_vars(RunCouponIssueJob)
    /\ SF_vars(RunCouponExpireJob)
    /\ WF_vars(Fail \/ \E op \in JobOps : WriteChunk(op))
    /\ \A op \in JobOps : SF_vars(WriteChunk(op))

FairSpec == Spec /\ Fairness

-----------------------------------------------------------------------------
(* Rows have their types, every coupon belongs to a target that exists,    *)
(* and every order that holds a coupon holds one that exists.              *)
TypeOK ==
    /\ today \in Days
    /\ event \in [Events -> [edits: 0..MaxEdits, type: {"COUPON", "DISCOUNT_PRODUCT"},
                             on: BOOLEAN, start: Days, end: Days]]
    /\ target \subseteq Targets
    /\ DOMAIN coupon \subseteq [target: target, member: Members, copy: Nat]
    /\ \A c \in DOMAIN coupon : coupon[c] \in CouponRow
    /\ live \subseteq DOMAIN coupon
    /\ rating \in [Members -> Ratings]
    /\ page \subseteq [target: Targets, member: Members, copy: Nat]
    /\ \A w \in Workers : tx[w] = Idle \/ /\ tx[w].op \in {"ordering", "cancel"}
                                          /\ tx[w].row \in CouponRow
    /\ job.op \in JobOps \union {"none"}
    /\ \A c \in DOMAIN job.rows : job.rows[c] \in CouponRow
    /\ due \subseteq JobOps

(* However late or often the issue job runs, and whoever is promoted or    *)
(* edits the event meanwhile, no member holds two coupons of a target      *)
(* (couponIssueReader).                                                    *)
OneCouponPerTarget ==
    \A c, d \in DOMAIN coupon : c.target = d.target /\ c.member = d.member => c = d

(* A coupon that pays for a live order is never on offer, although the     *)
(* expire job writes back the used_yn it read before the order: it loses   *)
(* the use, but only of a coupon it expires (couponExpireProcessor).       *)
HeldIsNotOffered == \A c \in live : coupon[c] # NewCoupon

(* A member who keeps the rating of a running coupon event's target gets   *)
(* its coupon some night, however many wait for one and whatever chunks    *)
(* fail.                                                                   *)
EveryTargetedIssued ==
    \A t \in Targets, m \in Members :
        <>[]IsTargeted(t, m) => <>(CouponsOf(t, m) # {})

Lapsed(c) ==
    c \in DOMAIN coupon /\ HasEnded(c.target.event) /\ ~coupon[c].expired

(* Each coupon of an event that has ended is expired some night, unless    *)
(* there come to be more of them than one page holds: the expired ones     *)
(* stay selected, and the page has no order (couponExpireReader).          *)
EveryEndedExpired ==
    \A c \in [target: Targets, member: Members, copy: {0}] :
        Lapsed(c) ~> (~Lapsed(c) \/ Cardinality(EndedCoupons) > Limit)
=============================================================================
