--------------------------------- MODULE Pages ---------------------------------
(***************************************************************************)
(* The pages with a list in windows of five pages and the detail page a    *)
(* row of it opens: the member's orders and questions, the reviews of an   *)
(* item, and the admin pages of orders, reviews, members, events, codes    *)
(* and items.                                                              *)
(*                                                                         *)
(* Their scripts are written alike and differ in what they forget: when    *)
(* the rows are cleared (when they are asked for, when the answer is there *)
(* or both), whether the handler of the page links is attached once, once  *)
(* more each time the page is opened, or taken off with the rows' handler  *)
(* that is attached after it, and whether a search starts at the first     *)
(* window.  Answers arrive in any order, and a request may fail.           *)
(***************************************************************************)
EXTENDS Integers, FiniteSets, Sequences, SequencesExt

CONSTANTS
    Kinds,      \* the pages that are looked at, out of AllKinds
    Queries,    \* what may be searched for
    TotalPages, \* pages of the result of a query
    Details,    \* what has a detail page
    NoDetail,   \* an empty detail page
    MaxActs     \* bound: what the user does

(* Of a detail page: is the handler of its button attached once, or once   *)
(* more each time; and what may be asked for when a write is answered:     *)
(* nothing for one that failed, or that was of a comment only.  A write    *)
(* that fails on the member's own page leaves for the login.               *)
myOrderDetail == [handlers |-> "once", after |-> {"detail"}]

orderDetail == [handlers |-> "once", after |-> {"detail", "nothing"}]

reviewDetail == [handlers |-> "once", after |-> {"detail", "nothing"}]

memberDetail == [handlers |-> "added", after |-> {"detail", "nothing"}]

eventDetail == [handlers |-> "once", after |-> {"list", "nothing"}]

NoDetailPage == [handlers |-> "none", after |-> {}]

myOrder ==
    [name |-> "myOrder", handlers |-> "added", opensAgain |-> TRUE, opensWith |-> "page 1",
     clears |-> {"answer"}, search |-> "none", pagerWhenEmpty |-> TRUE, detail |-> myOrderDetail]

myQna ==
    [name |-> "myQna", handlers |-> "added", opensAgain |-> TRUE, opensWith |-> "page 1",
     clears |-> {"answer"}, search |-> "none", pagerWhenEmpty |-> TRUE, detail |-> NoDetailPage]

orderList ==
    [name |-> "orderList", handlers |-> "once", opensAgain |-> FALSE, opensWith |-> "nothing",
     clears |-> {"ask"}, search |-> "first window", pagerWhenEmpty |-> FALSE,
     detail |-> orderDetail]

reviewList ==
    [name |-> "reviewList", handlers |-> "removed", opensAgain |-> FALSE, opensWith |-> "page 1",
     clears |-> {"ask"}, search |-> "same window", pagerWhenEmpty |-> FALSE,
     detail |-> reviewDetail]

memberList == [reviewList EXCEPT !.name = "memberList", !.detail = memberDetail]

eventList ==
    [name |-> "eventList", handlers |-> "removed", opensAgain |-> FALSE, opensWith |-> "page 1",
     clears |-> {"ask", "answer"}, search |-> "none", pagerWhenEmpty |-> FALSE,
     detail |-> eventDetail]

codeGroup == [orderList EXCEPT !.name = "codeGroup", !.detail = NoDetailPage]

(* Its groups are the queries; its list is asked for by a group's row. *)
commonCode == [codeGroup EXCEPT !.name = "commonCode", !.search = "same window"]

itemMaster == [codeGroup EXCEPT !.name = "itemMaster"]

(* Its items are the queries: it is opened for one, in the window of the    *)
(* last one.                                                               *)
itemOption ==
    [name |-> "itemOption", handlers |-> "added", opensAgain |-> TRUE, opensWith |-> "its window",
     clears |-> {"ask"}, search |-> "none", pagerWhenEmpty |-> TRUE, detail |-> NoDetailPage]

itemDisplayOption == [itemOption EXCEPT !.name = "itemDisplayOption"]

(* The reviews on an item's page; its items are the queries, too. *)
itemReview ==
    [name |-> "itemReview", handlers |-> "removed", opensAgain |-> TRUE,
     opensWith |-> "its window", clears |-> {"answer"}, search |-> "none",
     pagerWhenEmpty |-> FALSE, detail |-> NoDetailPage]

AllKinds ==
    {myOrder, myQna, orderList, reviewList, memberList, eventList, codeGroup, commonCode,
     itemMaster, itemOption, itemDisplayOption, itemReview}

ASSUME PagesAssumption ==
    /\ Kinds \subseteq AllKinds
    /\ TotalPages \in [Queries -> Nat] /\ MaxActs \in Nat
    /\ NoDetail \notin Details

VARIABLES
    kind,      \* the page
    opened,    \* has it been opened
    handlers,  \* handlers of its page links
    firstPage, \* its window is firstPage .. firstPage + 4
    query,     \* what is in its search field
    asked,     \* lists under way, with the page and the query
    rows,      \* lists drawn in the table, one after the other
    pager,     \* the links that are drawn: of the pages first .. last, with page marked,
               \* and to the next window
    last,      \* history: the list asked for last, if any
    hurried,   \* history: was it asked for while another one was under way, or has one failed
    strayed,   \* history: may the window be another one than that of the page
    id,        \* what the detail page is of
    presses,   \* handlers of its button
    loading,   \* details under way
    shown,     \* what its fields and its rows are of
    saving,    \* writes under way
    mixed,     \* history: was a detail asked for while another one was under way
    served,    \* history: has the detail that was opened last been shown
    written,   \* history: what was written, with what was shown
    acts       \* what the user has done

listVars == <<handlers, firstPage, query, asked, rows, pager, last, hurried, strayed>>
detailVars == <<id, presses, loading, shown, saving, mixed, served, written>>
pagesVars == <<kind, opened, listVars, detailVars, acts>>

NoPager == [first |-> 1, last |-> 0, page |-> 0, next |-> FALSE]

-----------------------------------------------------------------------------
PagesInit ==
    /\ kind \in Kinds
    /\ opened = FALSE
    /\ handlers = 0 /\ firstPage = 1
    /\ query \in Queries
    /\ asked = <<>> /\ rows = <<>> /\ pager = NoPager
    /\ last = <<>>
    /\ hurried = FALSE /\ strayed = FALSE
    /\ id = NoDetail /\ presses = 0 /\ loading = <<>> /\ shown = NoDetail /\ saving = 0
    /\ mixed = FALSE /\ served = FALSE
    /\ written = {}
    /\ acts = 0

Act == acts < MaxActs /\ acts' = acts + 1

-----------------------------------------------------------------------------
ClearedNever == rows  \* mutant: clearTable is missing

ClearedByAsking == IF "ask" \in kind.clears THEN <<>> ELSE rows

(* list, or search: the pages ps of a query, one request for each handler. *)
Ask(q, ps) ==
    /\ rows' = ClearedByAsking
    /\ asked' = asked \o [k \in DOMAIN ps |-> [query |-> q, page |-> ps[k]]]
    /\ last' = <<[query |-> q, page |-> ps[Len(ps)]]>>
    /\ hurried' = (asked # <<>>)

Attached ==
    CASE kind.handlers = "added" -> handlers + 1
      [] kind.handlers = "once" -> 1
      [] kind.handlers = "removed" -> 0

(* init. *)
OpenList ==
    /\ handlers' = Attached
    /\ CASE kind.opensWith = "page 1" ->
                Ask(query, <<1>>) /\ strayed' = (strayed \/ firstPage # 1) /\ UNCHANGED query
         [] kind.opensWith = "its window" ->
                query' \in Queries /\ Ask(query', <<firstPage>>) /\ UNCHANGED strayed
         [] kind.opensWith = "nothing" ->
                UNCHANGED <<query, rows, asked, last, hurried, strayed>>
    /\ UNCHANGED <<firstPage, pager>>

OpenPage ==
    /\ Act
    /\ ~opened \/ kind.opensAgain
    /\ opened' = TRUE
    /\ OpenList
    /\ UNCHANGED <<kind, detailVars>>

(* A link of a page. *)
ClickPage(p) ==
    /\ Act
    /\ handlers > 0 /\ p \in pager.first..pager.last
    /\ Ask(query, [k \in 1..handlers |-> p])
    /\ strayed' = (strayed \/ asked # <<>>)
    /\ UNCHANGED <<kind, opened, handlers, firstPage, query, pager, detailVars>>

WindowSize == 5

(* prev or next: every handler moves the window, and asks for its page. *)
ClickWindow(direction) ==
    /\ Act
    /\ handlers > 0
    /\ IF direction = 1 THEN pager.next ELSE pager.first > WindowSize
    /\ firstPage' = firstPage + direction * WindowSize * handlers
    /\ Ask(query, [k \in 1..handlers |-> firstPage + direction * WindowSize * k])
    /\ strayed' = (strayed \/ asked # <<>>)
    /\ UNCHANGED <<kind, opened, handlers, query, pager, detailVars>>

(* The search field, which a page link reads, too. *)
Type(q) ==
    /\ Act
    /\ kind.search # "none" /\ kind.name # "commonCode" /\ q # query
    /\ query' = q /\ strayed' = TRUE
    /\ UNCHANGED <<kind, opened, handlers, firstPage, asked, rows, pager, last, hurried, detailVars>>

SameWindow == firstPage  \* mutant: a search stays in the window of the last one

StartWindow == IF kind.search = "first window" THEN 1 ELSE firstPage

(* btn-search. *)
Search ==
    /\ Act
    /\ opened /\ kind.search # "none" /\ kind.name # "commonCode"
    /\ firstPage' = StartWindow
    /\ Ask(query, <<1>>)
    /\ strayed' = (kind.search # "first window" /\ firstPage # 1)
    /\ UNCHANGED <<kind, opened, handlers, query, pager, detailVars>>

(* The codes of another group. *)
ListCodes(q) ==
    /\ Act
    /\ opened /\ kind.name = "commonCode"
    /\ query' = q
    /\ Ask(q, <<1>>)
    /\ strayed' = (strayed \/ firstPage # 1)
    /\ UNCHANGED <<kind, opened, handlers, firstPage, pager, detailVars>>

(* The page that is listed anew when something was saved or changed.       *)
RefreshedPages ==
    CASE kind.name \in {"codeGroup", "commonCode"} -> {1}
      [] kind.name = "itemMaster" -> {1, firstPage}
      [] kind.name \in {"itemOption", "itemDisplayOption"} -> {1, last[1].page}
      [] OTHER -> {}

(* btn-load-groups, btn-load-item-masters, and done of the save, update    *)
(* and delete of a code, a group, an item or an option.                    *)
Refresh ==
    /\ Act
    /\ opened
    /\ \E p \in RefreshedPages :
        /\ Ask(query, <<p>>)
        /\ strayed' = (strayed \/ (p = 1 /\ firstPage # 1))
    /\ UNCHANGED <<kind, opened, handlers, firstPage, query, pager, detailVars>>

AtMost(a, b) == IF a > b THEN b ELSE a

(* setPagination. *)
PagerOf(a) ==
    LET end == AtMost(TotalPages[a.query], firstPage + WindowSize - 1)
    IN  [first |-> firstPage, last |-> end, page |-> a.page, next |-> end < TotalPages[a.query]]

(* PageRequest.setPage. *)
Requested(a) == [a EXCEPT !.page = IF a.page <= 0 THEN 1 ELSE a.page]

HasRows(a) == a.page <= TotalPages[a.query]

Content(a) == IF HasRows(Requested(a)) THEN <<Requested(a)>> ELSE <<>>

(* done of list. *)
Answer(k) ==
    /\ asked' = RemoveAt(asked, k)
    /\ LET a == asked[k]
           cleared == IF "answer" \in kind.clears THEN <<>> ELSE rows
       IN  /\ rows' = cleared \o Content(a)
           /\ pager' = IF TotalPages[a.query] > 0 \/ kind.pagerWhenEmpty THEN PagerOf(a) ELSE pager
    /\ UNCHANGED <<kind, opened, handlers, firstPage, query, last, hurried, strayed, detailVars, acts>>

(* fail of list: an alert, and the table and its links stay as they are. *)
FailList(k) ==
    /\ asked' = RemoveAt(asked, k)
    /\ hurried' = TRUE /\ strayed' = TRUE
    /\ UNCHANGED <<kind, opened, handlers, firstPage, query, rows, pager, last, detailVars, acts>>

-----------------------------------------------------------------------------
(***************************************************************************)
(* The detail page.                                                        *)
(***************************************************************************)
Load(d) ==
    /\ loading' = Append(loading, d)
    /\ mixed' = ((loading # <<>> /\ mixed) \/ \E k \in DOMAIN loading : loading[k] # d)
    /\ served' = (served /\ ~mixed /\ d = id)

(* init of the detail page, by a link of a row. *)
OpenDetail(d) ==
    /\ Act
    /\ kind.detail # NoDetailPage /\ rows # <<>>
    /\ id' = d
    /\ Load(d)
    /\ presses' = IF kind.detail.handlers = "added" THEN presses + 1 ELSE 1
    /\ UNCHANGED <<kind, opened, listVars, shown, saving, written>>

(* done of load: empties the fields and fills them. *)
ShowDetail(k) ==
    /\ loading' = RemoveAt(loading, k)
    /\ shown' = loading[k]
    /\ served' = (served \/ loading[k] = id)
    /\ UNCHANGED <<kind, opened, listVars, id, presses, saving, mixed, written, acts>>

(* fail of load: an alert, and the fields stay what they were. *)
FailDetail(k) ==
    /\ loading' = RemoveAt(loading, k)
    /\ UNCHANGED <<kind, opened, listVars, id, presses, shown, saving, mixed, served, written, acts>>

FirstOpened ==  \* mutant: the handler keeps the id it was attached with
    IF written = {} THEN id ELSE (CHOOSE w \in written : TRUE).target

Target == id

(* Its button: what is written has the id of the page and the fields that  *)
(* are there.                                                              *)
Press ==
    /\ Act
    /\ presses > 0 /\ saving = 0
    /\ saving' = presses
    /\ written' = written \union
            {[target |-> Target, fields |-> shown, patient |-> served /\ ~mixed]}
    /\ UNCHANGED <<kind, opened, listVars, id, presses, loading, shown, mixed, served>>

(* The write is answered: the detail is loaded again, the list opened, or  *)
(* nothing of both.                                                        *)
Saved ==
    /\ saving > 0
    /\ saving' = saving - 1
    /\ \/ "detail" \in kind.detail.after /\ Load(id) /\ UNCHANGED listVars
       \/ "list" \in kind.detail.after /\ OpenList /\ UNCHANGED <<loading, mixed, served>>
       \/ "nothing" \in kind.detail.after /\ UNCHANGED <<listVars, loading, mixed, served>>
    /\ UNCHANGED <<kind, opened, id, presses, shown, written, acts>>

PagesNext ==
    \/ OpenPage
    \/ \E p \in pager.first..pager.last : ClickPage(p)
    \/ ClickWindow(1) \/ ClickWindow(-1)
    \/ \E q \in Queries : Type(q) \/ ListCodes(q)
    \/ Search
    \/ Refresh
    \/ \E k \in DOMAIN asked : Answer(k) \/ FailList(k)
    \/ \E d \in Details : OpenDetail(d)
    \/ \E k \in DOMAIN loading : ShowDetail(k) \/ FailDetail(k)
    \/ Press
    \/ Saved

PagesSpec == PagesInit /\ [][PagesNext]_pagesVars

-----------------------------------------------------------------------------
Quiet == last # <<>> /\ asked = <<>> /\ ~hurried /\ handlers <= 1

(* When the answers are there, a user who waited for each sees the rows of *)
(* the list asked for last and no others, unless it failed or the handler  *)
(* of the links has been attached twice.                                   *)
ListIsLastAsked == Quiet => rows = Content(last[1])

(* Its page is one of the links, and marked, as long as the window was     *)
(* started anew with the list.                                             *)
PagerHoldsPage ==
    Quiet /\ ~strayed /\ rows # <<>> =>
        /\ pager.first >= 1 /\ pager.page = last[1].page
        /\ last[1].page \in pager.first..pager.last

(* Once the detail that was opened has been shown, a button of its page    *)
(* writes to what the page shows, also while it is loaded again or that    *)
(* has failed, unless another detail was under way beside it.  Before that *)
(* it writes to the new detail what the fields hold of the old one, and    *)
(* when the load of an opening fails, it goes on doing so (event.js 275).  *)
WritesWhatIsShown == \A w \in written : w.patient => w.target = w.fields
=============================================================================
