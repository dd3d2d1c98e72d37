# Verification of academy-demo

academy-demo is a web shop: a Spring Boot server with JPA entities on MariaDB
(H2 in development), pages in Mustache and jQuery, nightly and half-hourly Spring
Batch jobs, a payment gateway (Iamport) and a file store (S3). Orders are placed
and cancelled by members, delivered and edited by admins, and paid with money,
points and coupons.

This directory holds TLA+ models of the parts whose steps interleave, TLC runs
that check them on small instances, and TLAPS proofs of the facts that hold for
every instance. `PROJECT.json` maps every definition to the source lines it
stands for and lists the runs, the mutants that show each property can fail, the
hazards and the theorems.

## The system

`B` is `src/src/main/java/my/myungjin/academyDemo`, `JS` and `AJS` the scripts of
the mall (`templates/static/js`) and of the admin pages (`templates/admin/static/js`).

| Component | State | Operations | Module |
|---|---|---|---|
| Orders (`B/service/order/OrderService`, `B/web/controller/OrderController`) | order_master, delivery_status, member (points, ordered amount, rating), reserves_history, coupon.used_yn, the payment | ordering, cancel, modify the contact or the address, pay and refund | `OrderService`, abstractly `OrderContract` |
| Order page (`JS/order.js`, `B/web/response/OrderResponse`, `CouponSetResponse`) | the amounts, the coupon select, the points field, the stored amounts | open, choose a coupon, type points, pay | `OrderForm` |
| Cart (`B/service/order/CartService`, `JS/cart.js`, `itemDetail.js`, `order.js`) | cart, the order page of each tab | add, change, delete, order | `Cart` |
| Payment gateway | the payment | pay, cancelPaymentByImpUid | `OrderService` (external) |
| Admin orders (`B/service/admin/OrderAdminService`, `AJS/order.js`) | delivery_status, delivery_item, the delivery detail of each tab | status, add, delete, invoice, address, items | `OrderService`, `DeliveryItems` |
| Delivery status job (`B/batch/DeliveryStatusJobConfigure`) | received_delivery_status, delivery.status, the execution | read a page, apply, write a chunk | `DeliveryStatusJob`, abstractly `StatusFeed` |
| Coupons (`B/batch/Coupon*JobConfigure`, `B/service/admin/EventService`) | event, event_target, coupon, the execution | save and edit an event, issue, expire, use, release | `CouponJobs` |
| Scheduler (`B/batch/JobScheduler`) | one thread, triggers | start a job | guards of `RunDeliveryJob`, `RunCouponIssueJob`, `RunCouponExpireJob` |
| Reviews and points (`B/service/review/ReviewService`, `B/service/admin/ReviewAdminService`, `MemberAdminService`, `B/service/member/MemberService`, `AJS/review.js`, `member.js`) | review, member.reserves, reserves_history, the detail pages | write, change, pay for a review, give and take points, order and cancel, change the account | `MemberPoints` |
| Items on sale (`B/service/item/ItemService`, `B/service/admin/item/ItemDisplayService`, `AJS/item.js`) | item_display, its price history, the image at the store, the admin's form | list, save, change, delete, change a price or an event | `ItemDisplays` |
| List and detail pages (`JS/myOrder.js`, `myQna.js`, `itemDetail.js`, `AJS/*.js`) | what is asked for, drawn, linked and shown, the handlers | open, turn a page or window, search, open a detail, press its button | `Pages` |
| Questions, common codes, item master and options, members' accounts | one row per operation | edit | their lists in `Pages` |

### How the parts meet

- *Requests* are threads of one server. Every service call is a transaction. No
  entity has a `@Version`, none locks a row when it reads it, and Hibernate writes
  whole rows: two requests that read the same row and both write it lose one
  write. `open-in-view` is off, so an entity is read at the start of the call.
- *Pages* are single objects of one shop or admin window. They keep what a field,
  a variable or a handler had before, and answers arrive in any order. Several
  tabs of one member or admin act side by side.
- *The order page* shows a part of the cart, charges what it computed, and posts
  the order from the callback of the gateway's dialog. If the post fails, or seems
  to, the page asks for a refund. The server takes the cart's rows as they are then.
- *A cancel* calls the gateway from the controller, inside the transaction that
  the service has already filled with changes. Nothing has been flushed then, so
  nothing is locked. A failed call is a checked exception, on which Spring commits.
- *The jobs* run on the one scheduler thread, never two at a time. They read
  pages with one EntityManager and write chunks with another, next to the
  requests of members and admins that change the same rows.
- *Listings* of customers are GET requests that write: they compute the price of
  the day, write the whole row of the item and number a row of its history.
- *The schema* links a coupon to its event target and, in the H2 schema, an order
  to its coupon, with `ON DELETE CASCADE`; editing an event deletes its targets.
- *The file store* takes no part in transactions; a changed display deletes its
  old image first.

### What is hard

Stale rows written back, the order of gateway call and commit, answers that come
late, pages that shift under a reader, chunks that fail as a whole, bounded pages
that starve what does not fit, lookups that another insert overtakes, page objects
that remember the last customer action, and rules that only a page enforces.
`hazards` in `PROJECT.json` lists them at the line where they bite, with the
properties that cover them. A note says which part of a hazard no property
covers, or which accident its property excuses.

## The modules

A transaction of the production database (MariaDB at its default isolation,
REPEATABLE READ, with consistent reads) is everywhere `Begin…`, which takes the
rows as they were when it started, and `Commit…`, which writes what the code
computes from them. `Rollback` ends one without writing.

Several rules of the code hold only while requests do not meet on a row, because
nothing locks, or only for a user who waits, because pages keep what they had. The
models allow the meeting and the haste; a *history variable* records them, and the
property speaks of the rest:

| Variable | Module | Excuses |
|---|---|---|
| `clash` | `MemberPoints`, `DeliveryItems`, `Cart` | rows on which two requests were open at once |
| `changers`, `hurried` | `Cart` | rows another tab or member changed, and a member who goes to the order page before an answer is there |
| `doubts` | `OrderForm` | what a form still holds from the checkout before, and lists that are late |
| `hurried`, `strayed` | `Pages` | lists asked for before the last one was answered or that failed; windows kept from another list |
| `mixed`, `served` | `Pages` | two details under way at once; a press before the opened detail was shown or after its load failed |
| `hasty`, `retried` | `ItemDisplays` | an admin who does not wait, or presses again after an answer that failed |
| `entered`, `drifted` | `ItemDisplays` | prices an admin entered, and what changed during a listing |

So these stale pages, late answers and repeats *are* excused where the table says
so: the code goes wrong there. "Where the code and its words part" says how, and which
message, declaration or test of the repository says otherwise.

### OrderService, OrderContract

| Code | Actions |
|---|---|
| `JS/order.js` 206–247: pay, post the order, wait, refund after a failure | `Checkout`, `BeginOrdering`, `Respond`, `LoseResponse`, `Compensate` |
| `OrderService.ordering` 109–161 | `BeginOrdering`, `CommitOrdering` |
| `OrderController.cancel` 214–224 and `OrderService.cancel` 225–272 | `BeginCancel`, `CallGateway`, `CommitCancel` |
| `OrderService.modify` 191–223 | `BeginModify`, `CommitModifyOrder`, `CommitModifyDelivery` |
| `OrderAdminService.modifyStatus`, `deleteDelivery`, `addDelivery` | `BeginModifyStatus`, `CommitModifyStatus`, `BeginAddDelivery`, `CommitAddDelivery` |

The page lists coupons of the member, which another tab or an earlier checkout may
have used since: `Offered` does not ask, as the server does not.

The helpers (`AddReserves`, `FlushReserves`, `AddOrderAmountAndUpdateRating`,
`Placed`, `Unplaced`, …) are the entity methods. The sign error of `cancel` and
the off-by-one rating of `addOrderAmountAndUpdateRating` are in the model because
they are in the code. Four constants choose the environment: `FreshAdminPage`
(the admin acts on the status that is stored), `GatewayMayFail`, `ResponseMayFail`
and `ServerMayCrash` (a cancel may die after its gateway call). `SessionLimit` is
the number of requests of one member that may be open; 1 is a member in one tab,
and a session lasts from the loading of the checkout page to its end.

`OrderContract` is an order as its customer sees it: money, order and points,
and the steps Pay, Place, Refund and Cancel. A cancel is one step, of all three.
`OrderService` implements it under the mapping `MoneySeen` (a refund inside a
cancel that has not committed is not seen yet) and `PointsSeen` (the rows of the
history that belong to the order): `ImplementsContract == Contract!Spec`.

### OrderForm

`order.js` 10–249 as one object that outlives a checkout: `NewOrder` sets the
basket's amounts and leaves the discount, the points and the select; the answer
with the member's data empties the form (`ShowOrderInfo`), the answer with the
coupons fills the select (`ShowCoupons`), in either order. `ChooseCoupon`,
`RejectCoupon` and `ChoosePoints` are the two change handlers, `Exec` pays and
posts an order that is stored (`Accepted`: an option is selected, or the controller
fails for want of the field, and the points are not below zero, which
`@PositiveOrZero` refuses). `GoToLogin` is every request that fails: the shop is
left for the login page. The points field takes any text; the model types any
integer into it, and a text that is none becomes NaN, which the server refuses as
no number. `PayAmountShown` is what `OrderResponse.of` later says was paid. `doubts`
records what a form still holds from before.

### Cart

The carts of all members as one table, because `getByItemOptionId` looks an option
up without its member. `PressOrder` and `LeaveOrder` are the cart and order pages
of a tab, `Begin…`/`Commit…` the service calls; an order reads the rows it was paid
for and deletes them, and a delete or update of a row that is gone fails
(`StillThere`).

### DeliveryItems

The delivery detail of the admin's order page in several tabs: `OpenDelivery` sets
the id at once, `Show` draws an answer whenever it comes, so rows of one delivery
may be shown under another. `addDeliveryItem`, `deleteDeliveryItem`,
`modifyDeliveryItemCount`, `modifyStatus`, `updateInvoice`, `modifyAddress`,
`deleteDelivery` and `addDelivery` are the transactions.

### DeliveryStatusJob, StatusFeed

`ReadPage` is `JpaPagingItemReader.doReadPage`: it flushes and clears the
reader's EntityManager, which writes the last page's deliveries again (`Flushed`),
and asks for page n of the rows that are pending *now* (`Pages`). The query orders
by `createAt` alone, which has whole seconds: rows of one second come in any order,
another one in each query. `Receive` adds rows in the order of their seconds - no
code of `src` writes the table, so that is an assumption about the import. `WriteChunk` merges the
page's rows and deliveries and commits. `ModifyStatus` stands for every other
transaction that saves a delivery, `Receive` for the import of the carrier's file
(a TODO at `JobScheduler.java:35`), `Fail` for an exception or a dying server.

`StatusFeed` is what the job promises: a pass applies sets of pending rows, none
older than any it has applied, gives each delivery one of the latest statuses they
bring, and rewrites at most one of the latest it applied.
`ImplementsFeed == Feed!Spec` maps the rows an execution has applied to `passed`.

### CouponJobs

`SaveEvent` is `EventService.save` and `modify` with the cascade of the schema.
`RunCouponIssueJob` and `RunCouponExpireJob` read one page, `WriteChunk` writes
it later, whole or (a deleted target) not at all. `Midnight` fires both cron
triggers, in either order on the one thread; `Miss` is a server that is down.
`OpenPage`, `BeginOrdering`, `CommitOrdering`, `BeginCancel` and `CommitCancel`
are the parts of an order that touch its coupon; `Promote` changes a rating. Two
edits of one event at the same time are one after the other: the second finds
the targets it deletes gone and is rolled back.

### MemberPoints

One member's points and all that writes them. Writing and changing a review,
`payReserves`, `updateReserves`, orders, cancels and changes of the account
(`MemberService`) are transactions on whole rows, the member's with its points.
An order uses what its page showed (`OpenOrder`), which `flushReserves` does not
compare with what there is; a cancel gives an earning order its reward a second
time. The member detail attaches its button's handler once more at each opening, so
a click sends `handlers` requests. The review detail's `isPhotoReview` is never
reset, so a review is paid either amount: `Pays` is a free choice.

### ItemDisplays

`BeginListing`/`CommitListing` are `findEventAndApplyEventPrice`, taken item by
item; `Open`, `Answer`, `FailLoad` and `Press` are the admin's display page, whose
hidden id decides between create and change; `Serve`, `LoseAnswer` and `Refuse` are
the requests. `Modify` and `DeleteItem` delete the image before they commit;
an upload or a deletion that fails at the store is logged and swallowed
(`Uploaded`), and a refused request may have deleted the old image already.
`Loadable` says that a master with two displays cannot be loaded, which
is what the two-sided `OneToOne` makes of it.

### Pages

Twelve list pages written alike, as twelve records of one module: when the table
is cleared, whether the handler of the links is attached once, once more each
time, or removed by the next `.off('click')`, with which page and window it opens,
whether a search starts at the first window, and what its detail page does. The
actions are the user's (`OpenPage`, `ClickPage`, `ClickWindow`, `Type`, `Search`,
`ListCodes`, `Refresh`, `OpenDetail`, `Press`) and the answers (`Answer`,
`FailList`, `ShowDetail`, `FailDetail`, `Saved`). The specification is `PagesSpec`;
its initial and next predicates are named apart from the other modules' because its
proofs stand beside those of `MemberPoints` in one module.

## The runs

| Run | Instance | Shows |
|---|---|---|
| `order_session` | 2 members in one tab each, 2 orders of up to 2 deliveries, 2 threads, unreliable gateway, stale admin page | types; balances are explained by the history plus cancel's sign error; a cancel after any failed calls reverses the placement; the order contract is implemented; no later request undoes a cancel |
| `order_tabs` | fair, 1 member in 2 tabs, 2 orders, 1 coupon, lost answers, cancels that die after their gateway call, a gateway that answers | the points of an order are its placement and exact reversals; a used coupon is a live order's; money taken becomes an order or is refunded |
| `delivery_job` | fair, chunk of 1, 4 rows of 1 delivery in 2 seconds | the feed is implemented; an execution leaves no more of what it found than it applied; skipped rows are applied by a later execution |
| `delivery_left` | chunk of 1, 3 rows | *violated*: a completed execution leaves rows pending |
| `coupon_jobs` | fair, 2 members, 2 ratings, page of 1, 2 edits | nobody is given a coupon of a target twice; everyone entitled gets one |
| `coupon_orders` | fair, 1 member who orders and cancels, 2 ratings, page of 1 | types; a coupon that pays is never offered by a list loaded anew; ended coupons expire unless there are more than a page |
| `delivery_items` | 1 tab on 2 deliveries, 2 threads, 1 item ordered twice | types; one row per item; what has left is not changed; a row is changed under its own delivery only |
| `points` | 2 order items, 2 reviews, 1 order with its cancel, 2 clicks or account changes, 2 handlers, 2 threads | types; a review is paid for once; one review per order item; points are what the history says plus twice the rewards of cancelled orders |
| `cart` | 2 tabs of 1 or 2 members, 1 option, 2 rows, counts to 2 | types; one row per option; a row is ordered once, at the count that was charged |
| `form` | 2 checkouts of 1 shop page, 4 coupons (amount, all that a basket costs, no minimum, ratio), 3 baskets, one of them free, points typed below zero to more than there are | the stored order says what was paid; the discount is the coupon's; a coupon is used once; points and charge are sound |
| `pages` | all 12 pages, 5 actions, a result of 7 pages and an empty one, 2 details, requests that fail | the table is the list asked for last; its page is among the links; a button writes to what is shown |
| `item_displays` | 2 masters, 2 listings, 6 actions, loads and writes that fail | types; a master has one display, its own; the history explains the price |

The bounds. Two orders are enough for an order to see the coupon, points and
rating another one changed, and two threads for every race of the code, which
are all between two transactions. The total of an order is above the first rating
amount, so an order changes what the next one earns; 900 of 1000 points can be spent once and not twice. A chunk of one
row, with four of them, gives an execution two pages, each a row further than the
last, and rows it skips; two seconds give rows that tie across its pages. Rows of one
page are what larger chunks add, and the proofs are for any chunk. Two deliveries add nothing to one, whose rows are the only ones
that order matters for, and the proof covers any number. A page that is one coupon too small makes a
member wait or a coupon stay. Two deliveries, items or masters are one that is
shown and one that was asked for. Two inserts, two tabs and two rows are what it
takes to make a lookup miss; seven pages are two windows of five. Five and six
actions of a user are open, ask again, answer, turn, press: every mutant fails
within them. `MaxDeliveries`, `MaxReceived`, `MaxEdits`, `MaxDay`, `MaxRows`,
`MaxReviews`, `MaxPayRows`, `MaxClash`, `MaxUpdates`, `MaxHandlers`, `MaxCount`,
`MaxCheckouts`, `MaxActs` and `MaxPending` bound what the code does not; at
`MaxDay` days go on but are no longer told apart. In the order runs, `form`,
`pages` and `item_displays` everything may be done in the end, hence
`CHECK_DEADLOCK FALSE`; the others are checked for deadlock. The admin of
`order_session` adds deliveries and saves `REQUESTED`, which lets an order be changed
and cancelled again; any other status only keeps members from it, as the `DELETED` of
a cancel does there. The proofs are for any statuses. Threads, tabs, members
and orders that nothing tells apart are symmetric where no liveness is checked.

Fairness. Orders: a request that runs ends (WF of the commits and of the gateway
call), a posted order gets a thread though others want it (SF of
`BeginOrdering`), and the browser stays open (WF of `Respond` and `Compensate`).
Nothing is assumed of the starts of anything else. Delivery job: `fixedDelay`
starts it again (WF), and neither reading nor writing fails for ever (SF).
Coupons: days pass (WF of `Midnight`), not every midnight is missed (SF of the
starts), an execution ends (WF), and no job fails every night (SF of the writes).
The pages promise nothing that must happen: a user may leave, an answer may stay
away.

## The proofs

Each module of proofs shows `Init => IInv`, one lemma per action that the action
keeps `IInv`, and reads the theorems off it. TLC checks what they say on the runs'
instances, and evaluates every assumption in the runs of its module.

`OrderService_proofs` (`ConstantsAssumption`) is about any members, orders,
coupons, threads, amounts and ratings.

| Theorem | For | Inductive invariant |
|---|---|---|
| `TypeCorrect`, `CancelReverses` | every environment | `IInv` |
| `UsedCouponIsHeld` | every environment | `HeldInv` |
| `BalanceExplainedHolds` | one tab per member, no answer lost | `BalanceInv` |
| `CancelIsFinalHolds` | one tab per member | `SessionInv` |
| `ContractImplemented` | one tab per member, no answer lost, and no cancel dies after its gateway call | `SettledInv` |

A cancel commits a reversal of the amount it *read*, so one must know that the
row it read is the row that is there. `IInv` says that an order is stored only
after its page has paid and posted it; that one ordering of it is open at most,
and only before it is stored; and that every other open transaction was opened on
a stored order, so its view holds the placement row, which no step changes. The
hypotheses of the others are not conveniences: they are what the run
`order_session` fixes, and without them the code does not do it (two tabs of a
member write one row back over the other; a modify that was open during a cancel
revives the order).

- `SessionInv` adds that what is under way is of different members, so what a
  request read of its order is still true (`ViewKept`), and the order row that
  `modify` writes back whole is the one that is stored: no cancel is undone, though
  answers are lost and transactions roll back (`CancelIsFinal`). `SettledInv` locates
  the money at each point of a checkout and a cancel; with it each step of pages,
  requests and gateway is one of `OrderContract`, or a stutter.
- `BalanceInv` adds that a request that will write the member's row read it as it
  is (`MemberSeen`), and that an open ordering is one its page still waits for.
  The balance is then a fact about sums over the member's history. They are
  `SumFunctionOnSet`, a `CHOOSE` of a recursive function; that it takes one member
  of the set after the other (`SumUnfolds`), in any order (`SumWithout`), is shown
  with the smallest subset on which it would fail (`SmallestSet`) in the place of
  an induction.

`OrderForm_proofs` (`OrderFormAssumption`) proves `PaidAsRecorded`,
`DiscountOfItsCoupon`, `CouponOncePerPage` and `ChargeIsSound` for any baskets,
coupons, points and number of checkouts. `IInv` says of the page what the
properties say of the stored orders: while no doubt is recorded, the amount to pay
is what is held as points and discount, and the discount is the selected coupon's;
a list of coupons that the open page asked for is one of unused coupons; of the
first checkout never more is taken than there is, unless a coupon worth all
it asks for does. Such coupons are not assumed away: nothing in the event's form
keeps an admin from entering one. Points below zero are typed, limited and posted;
that no stored order has them is the server's check, `Accepted`.

`Cart_proofs` (`CartAssumption`) proves `TypeOK`, `OneRowPerOption`, `OrderedOnce`
and `ChargedAsOrdered` for any tabs, members and options. An id is given once, so
ids beyond the counter are on no page and in no order (`Fresh`) and a row that is
there was not ordered (`NotYetOrdered`); an insert that met no other still finds no
row of its option (`InsertFree`); and the count on an order page is that of the
table, and then what the order read, until another tab changes it (`FormCurrent`).

`ItemDisplays_proofs` (`ItemAssumption`) proves `TypeOK`, `OneDisplayPerMaster` and
`HistoryExplainsPrice` for any masters, prices, threads and number of actions. The
display page has at most one request under way while the admin waits and reopens
it after a failed answer, and its form then says what the table says (`Waiting`,
`FormFits`); a row that a listing holds in its hands keeps its master (`OneEach`);
rows of a price history are numbered up to their count, in an open listing's hands
too (`Numbered`), and the top ones agree on the price (`Agree`).

`CouponJobs_proofs` (`CouponAssumption`) proves, for any members, ratings, events
and page size, `OneCouponPerTarget`, `HeldIsNotOffered` and `TypeOK`. The first is
not inductive: the issue job writes rows it selected earlier. Its `IInv` says that a
target carries an edit number its event has reached, so a target that was deleted
never comes back; that coupons belong to stored targets; that what an issue
execution selected is one row per member and target and still free of coupons,
because the one execution is the only one that adds any; and that what an expire
execution selected is still there unless its target is gone. The others need `HInv`
and `TInv`: rows have their types, the rows of an expire execution are all expired,
and the coupons an order may still give back are stored.

`DeliveryStatusJob_proofs` (`JobAssumption`) proves the refinement
`Spec => ImplementsFeed`, `LeavesNoMoreThanApplied` and `TypeOK`, for any deliveries,
seconds, chunk size and number of rows, in whatever order a query gives the rows of
one second. The invariant counts: `page * ChunkSize` pending rows at most are
older than any row the execution has applied, because there were so few when its
page was read and rows only stop being pending (`PagesBehind`); the next page skips
so many pending rows, the oldest ones, so none it holds is older than a row applied
(`NextPage`). The reader's flush rewrites a latest status because its page is the
last part of what is applied (`PageLast`, `PageBrought`). For the count of what is
left, `Counted` says that before page `n` is read the execution has applied `n` full
chunks: a page that is not full leaves no more rows than the pages
before it have applied.

`DeliveryItems_proofs` (`ItemsAssumption`) proves `TypeOK`, `OneRowPerItem`,
`FrozenOnceShipped` and `OwnDelivery` for any tabs, threads and deliveries: on a
delivery that is not in `clash` at most one transaction is open, so what it found
still holds; ids beyond the counter are free; what a page shows was opened.
`MemberPoints_proofs` (`PointsAssumption`) proves `TypeOK`, `ReviewPaidOnce`,
`PointsExplained` and `OneReviewPerItem` in the same way: as long as two requests
have not met on the points, whoever is going to write the member read what is
there (`PointsRead`), be it an order, a cancel or a change of the account.

`MemberPoints_proofs` also holds the proofs about `Pages` (`PagesAssumption`):
`ListIsLastAsked`, `PagerHoldsPage` and `WritesWhatIsShown` for any of the twelve
pages, any queries, any number of result pages and of details, and any number of
actions. The twelve scripts enter only through what `KindFacts` says they have in
common. `ListInv` says: as long as a page's links have one handler at most and one
list is asked for at a time, a list is asked for in the window whose links are drawn
(`PagerInWindow`), which starts at a page (`WindowStarts`), and for a page of that
window, unless a search or a second opening strayed (`PageInWindow`); so its answer
draws links that hold it (`PagerOfLast`), and what is in the table is what was last
asked for (`OneUnderWay`, `QueryAsked`). `DetailInv` says the same of the detail
page: unless two details were under way at once, what is under way is the page's
detail, and once it has been shown since it was opened (`served`), it stays shown
while it is loaded again, by answers that come or fail, so a button writes to it.

Every safety property that a passing run checks is proved. Only model-checked is
all liveness, `PaidIsSettled`, `EveryStatusApplied`, `EveryTargetedIssued` and
`EveryEndedExpired`: TLAPS does not prove it under fairness.

## Where the code and its words part

Met while modelling; the models follow the code.

The first is a run that expects the violation; the others were seen while the
properties above were stated, and are the reason for what these leave out.

- *The delivery job leaves rows* (`delivery_left`). Every second page is skipped,
  although `DeliveryStatusJobTest.java:46` expects a completed job to leave none
  pending. `LeavesNoMoreThanApplied` bounds what is left, `EveryStatusApplied` says
  that it is applied later - a row left behind perhaps after newer ones.
- *An order whose delivery has left is cancelled*, if it is shipped while the cancel
  waits for the gateway; `OrderService.java:234` refuses the cancel of such an order.
- *A cancelled order that earned points* is paid them again, although its history row
  takes them back (`cancel` 251-254); `src/README.md:474` announces that points are
  restored. `BalanceExplained` and `PointsExplained` have a term for it.
- *Points fall below zero*: only the page of the admin, or of the order, holds what is
  taken against what it shows. A member detail opened twice sends each click twice;
  `member.js:177` tells the admin that points cannot be below zero.
- *A coupon is used below its minimum*, by points typed after it (`order.js` 39-40
  refuses such a coupon when it is chosen). No property is about minimums.
- *A master gets two displays*, after which neither can be loaded: a load or a save
  whose answer fails leaves the form without an id (`item.js` 479, 510). The entities
  declare one display per master. `OneDisplayPerMaster` excuses that press (`retried`).
- *A display refers to a deleted image*: the old one is deleted before anything is
  stored, for an update without a file, a failed upload and a refused request alike.
  No property is about images; `ItemDisplays` has the steps.
- *The expire job* reads at most 100 coupons, expired ones included, in no order:
  with more than 100 of ended events some may stay (`EveryEndedExpired` is about
  those that fit).
- *A rating* is reached with the amount that the current one, not the next, asks for.
- *A shipped delivery* can be deleted.
- *A coupon* can be used twice, from two tabs or from a select that keeps the list of
  an earlier checkout; a *modify* in a second tab undoes a cancel. Nothing in the
  repository says otherwise.
- *A ratio coupon* comes to the page without an amount and discounts nothing, yet
  is used up (`DiscountOfItsCoupon`); a select without options posts no coupon
  field, which the server answers with an exception and the page with a refund.
- *The order page* keeps discount and points of the checkout before.
- *Cart rows* of other members are found and increased by add.
- *Page links* of the admin's reviews, members and events, and of an item's
  reviews, are dead: `.off('click')` removes their handler. Those of the member's
  orders and questions and of options move as many windows as the page was opened.
- *The options of a display* are saved by a request that has no endpoint and from
  another page's form.
- *A listing* overrides the price an admin entered and reverts an edit it overlaps.

## Not modelled

- The top seller job: one aggregate query into a table only a page reads. Mail:
  one library call; the retry loop around it is a hazard without a property.
  Security and configuration: no state.
- Join, login, codes, item masters, options, comments and questions: each operation
  writes one row, or a row and its reply. Changes of a member's account write the
  whole member row with its points, and are in `MemberPoints` for that; rating and
  ordered amount, which they write back too, are in `OrderService` without them.
  Their pages are in `Pages`.
- The answer to a change of a cart's count that is lost after the change was stored
  (`cart.js` 169): the cart page then shows the old count.
- Orders an admin enters or uploads as a sheet: one transaction without points,
  coupons or payment. Options copied to a new display; `discount()` and
  `deleteAllByMember`, which nothing calls.
- The shop front's "Load More" list, and what pages only display.
- The vendored scripts. Of 35,285 lines of JavaScript in the repository 31,098 are
  jQuery and Bootstrap and 62 the gateway's: no behaviour of this system. The
  models cover more than 60 % of the other 4,100; the share of the whole stays
  near 7 % for that reason. The server's Java, which most definitions translate, is
  not in that count.

## The plan

The safety properties of every module's passing runs are proved, and so are both
refinements.
What is left, in this order:

1. The order contract for a member in several tabs: which of its steps remain when
   a modify may undo a cancel, TLC first, and with which bound on what is taken twice.
2. What orders, cart and form share: one module that composes them, so that the
   rows an order takes are those its page charged.
3. The shop front's "Load More" list, whose answers may arrive in another order.
