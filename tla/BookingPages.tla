----------------------------- MODULE BookingPages ----------------------------
(***************************************************************************)
(* The pages of one booking in one tab: My Bookings, the booking's page,   *)
(* the booking form and the administrators' list, which share the cache of *)
(* queries, against a server on which others act too.  The table of        *)
(* actions a page offers depends on the status it shows, which may be old. *)
(*                                                                         *)
(* The pages compare with the spelling of lib/types/booking.ts ("PENDING"),*)
(* the enums of the backend say "pending": dialect says which one the API  *)
(* speaks.  The server is the backend's table of transitions, one step a   *)
(* request.  A behaviour keeps to the pages of one side, since a page that *)
(* is opened always fetches.  Text, pagination and the price estimate are  *)
(* left out.                                                               *)
(***************************************************************************)
EXTENDS QueryCache, FiniteSets

CONSTANTS
    Dialects,           \* {"types", "enums"}
    MaxBookingVersion,  \* bound on the writes to the booking
    MaxBookingCalls     \* bound on the mutations under way

VARIABLES
    side,           \* whose pages are visited
    dialect,
    booking,        \* the row on the server, NoData before it is created
    bookingCache,   \* the queries
    bookingView,    \* the page shown and the state of its components
    bookingCalls,   \* mutations: op, at, and whether the page that sent it is there
    bookingDebt,    \* the version that own writes reported to the page shown
    createdByForm   \* bookings created since the form was opened, without those
                    \* whose answer was lost

bookingVars == <<side, dialect, booking, bookingCache, bookingView, bookingCalls, bookingDebt,
                 createdByForm>>
bookingServer == <<side, dialect, booking, createdByForm>>
bookingRest == <<bookingServer, bookingDebt>>

BookingStatuses == {"PENDING", "CONFIRMED", "COMPLETED", "CANCELLED", "EXPIRED"}
Filters == {"", "PENDING"}
BookingKeys == {"mine", "detail", "admin", "adminPending"}
PagesOf(s) ==
    CASE s = "admin" -> {"admin"}
      [] s = "member" -> {"list", "detail"}
      [] s = "newcomer" -> {"list", "form"}
FreshView(p) == [page |-> p, filter |-> "", step |-> 0, armed |-> "none", popup |-> "none"]

\* useGetMyBookings, useGetBooking, useGetAllBookings: the query a page shows
GetMyBookings(v) == IF v.page = "list" THEN {"mine"} ELSE {}
GetBooking(v) == IF v.page = "detail" THEN {"detail"} ELSE {}
GetAllBookings(v) ==
    IF v.page = "admin" THEN {IF v.filter = "PENDING" THEN "adminPending" ELSE "admin"} ELSE {}
QueriesOf(v) == GetMyBookings(v) \cup GetBooking(v) \cup GetAllBookings(v)

BookingPagesInit ==
    /\ side \in {"member", "newcomer", "admin"} /\ dialect \in Dialects
    /\ \/ booking = NoData /\ bookingView = FreshView("form")
       \/ booking = [status |-> "PENDING", ver |-> 1] /\ bookingView \in {FreshView("list"), FreshView("admin")}
    /\ bookingView.page \in PagesOf(side)
    /\ bookingCache = [k \in BookingKeys |->
          IF k \in QueriesOf(bookingView) THEN StartFetch(EmptyQuery, FALSE) ELSE EmptyQuery]
    /\ bookingCalls = {}
    /\ bookingDebt = 0 /\ createdByForm = 0

\* A row of the administrators' list, which keeps its rows when a fetch fails.
AdminRow(q) == q.seen.status
\* The list and the page of a booking show an error instead.
OwnRow(q) == IF q.failed THEN "none" ELSE q.seen.status

\* The status the page compares with: what its query holds, in this dialect.
Shown ==
    LET q == bookingCache[CHOOSE k \in QueriesOf(bookingView) : TRUE] IN
    IF QueriesOf(bookingView) = {} \/ dialect # "types" THEN "none"
    ELSE IF bookingView.page = "admin" THEN AdminRow(q) ELSE OwnRow(q)

IsPending(op) == \E c \in bookingCalls : c.op = op /\ c.live
MutateBooking(op) ==
    /\ Cardinality(bookingCalls) < MaxBookingCalls
    /\ bookingCalls' = bookingCalls \cup {[op |-> op, at |-> "sent", live |-> TRUE]}

\* The observers of a new set of queries.
Show(v) ==
    /\ bookingView' = v /\ bookingDebt' = 0
    /\ bookingCache' = [k \in BookingKeys |->
          IF k \in QueriesOf(v) \ QueriesOf(bookingView)
          THEN OnMount(bookingCache[k], FALSE)
          ELSE IF k \notin QueriesOf(v) THEN [bookingCache[k] EXCEPT !.stale = TRUE]
          ELSE bookingCache[k]]

\* Leaving a page unmounts its components, not the calls they made.
OpenPage(p) ==
    /\ p # bookingView.page /\ p \in PagesOf(side)
    /\ Show([FreshView(p) EXCEPT !.popup = bookingView.popup])
    /\ bookingCalls' = {[c EXCEPT !.live = FALSE] : c \in bookingCalls}
    /\ createdByForm' = IF p = "form" THEN 0 ELSE createdByForm
    /\ UNCHANGED <<side, dialect, booking>>

Armed(a) == bookingView' = [bookingView EXCEPT !.armed = a]

-----------------------------------------------------------------------------
\* My Bookings and the booking's page

\* handleCancel: the first click arms the button, the second sends.
HandleCancel ==
    /\ bookingView.page \in {"list", "detail"} /\ Shown \in {"PENDING", "CONFIRMED"}
    /\ ~IsPending("cancel")
    /\ IF bookingView.armed # "cancel" THEN Armed("cancel") /\ UNCHANGED bookingCalls
       ELSE MutateBooking("cancel") /\ UNCHANGED bookingView
    /\ UNCHANGED <<bookingCache, bookingRest>>

KeepBooking ==
    /\ bookingView.page \in {"list", "detail"} /\ bookingView.armed = "cancel"
    /\ Armed("none")
    /\ UNCHANGED <<bookingCache, bookingCalls, bookingRest>>

\* handlePay of a row
HandlePayRow ==
    /\ bookingView.page = "list" /\ Shown = "PENDING" /\ ~IsPending("payRow")
    /\ MutateBooking("payRow")
    /\ UNCHANGED <<bookingCache, bookingView, bookingRest>>

\* The Paystack window: closed, or a charge, after which the row that opened it
\* refetches its list and the form goes there.
PaystackClosed ==
    /\ bookingView.popup # "none"
    /\ bookingView' = [bookingView EXCEPT !.popup = "none"]
    /\ UNCHANGED <<bookingCache, bookingCalls, bookingRest>>

PaystackCallback ==
    /\ bookingView.popup # "none"
    /\ IF bookingView.popup = "payForm" /\ bookingView.page # "list"
       THEN Show(FreshView("list"))
       ELSE /\ bookingView' = [bookingView EXCEPT !.popup = "none"]
            /\ bookingCache' = IF bookingView.popup = "payForm" THEN bookingCache
                               ELSE [bookingCache EXCEPT !["mine"] = StartFetch(@, TRUE)]
            /\ UNCHANGED bookingDebt
    /\ bookingCalls' = {[c EXCEPT !.live = c.live /\ bookingView'.page = bookingView.page] :
                           c \in bookingCalls}
    /\ UNCHANGED bookingServer

-----------------------------------------------------------------------------
\* The booking form

ContinueToReview ==
    /\ bookingView.page = "form" /\ bookingView.step = 0
    /\ bookingView' = [bookingView EXCEPT !.step = 1]
    /\ UNCHANGED <<bookingCache, bookingCalls, bookingRest>>

\* Back stays enabled while the booking is being created.
BackToDetails ==
    /\ bookingView.page = "form" /\ bookingView.step = 1
    /\ bookingView' = [bookingView EXCEPT !.step = 0]
    /\ UNCHANGED <<bookingCache, bookingCalls, bookingRest>>

HandleConfirmBooking ==
    /\ bookingView.page = "form" /\ bookingView.step = 1 /\ ~IsPending("create")
    /\ MutateBooking("create")
    /\ UNCHANGED <<bookingCache, bookingView, bookingRest>>

HandlePayForm ==
    /\ bookingView.page = "form" /\ bookingView.step = 2 /\ ~IsPending("payForm")
    /\ MutateBooking("payForm")
    /\ UNCHANGED <<bookingCache, bookingView, bookingRest>>

-----------------------------------------------------------------------------
\* The administrators' list

SetStatusFilter(f) ==
    /\ bookingView.page = "admin" /\ bookingView.filter # f
    /\ Show([bookingView EXCEPT !.filter = f])
    /\ UNCHANGED <<bookingCalls, bookingServer>>

\* The select offers what the status shown allows, and arms it.
Offered ==
    {a \in {"confirm", "complete", "cancelAny"} :
        \/ a \in {"confirm", "cancelAny"} /\ Shown = "PENDING"
        \/ a \in {"complete", "cancelAny"} /\ Shown = "CONFIRMED"}

ChooseAction(a) ==
    /\ bookingView.page = "admin" /\ bookingView.armed = "none" /\ a \in Offered
    /\ Armed(a)
    /\ UNCHANGED <<bookingCache, bookingCalls, bookingRest>>

DropAction ==
    /\ bookingView.page = "admin" /\ bookingView.armed # "none" /\ Armed("none")
    /\ UNCHANGED <<bookingCache, bookingCalls, bookingRest>>

\* handleAction, whatever the row has become; it is shown while it is listed.
HandleAction ==
    /\ bookingView.page = "admin" /\ bookingView.armed # "none"
    /\ Shown \notin {"none", "absent"}
    /\ \A c \in bookingCalls : c.live => c.op \notin {"confirm", "complete", "cancelAny"}
    /\ MutateBooking(bookingView.armed)
    /\ UNCHANGED <<bookingCache, bookingView, bookingRest>>

-----------------------------------------------------------------------------
\* The server

Write(status) ==
    /\ booking.ver < MaxBookingVersion
    /\ booking' = [status |-> status, ver |-> booking.ver + 1]
Answer(c, at) == bookingCalls' = (bookingCalls \ {c}) \cup {[c EXCEPT !.at = at]}

\* The statuses from which a call is accepted, and the one it leads to.
From(op) ==
    CASE op \in {"cancel", "cancelAny"} -> {"PENDING", "CONFIRMED"}
      [] op \in {"confirm", "payRow", "payForm"} -> {"PENDING"}
      [] op = "complete" -> {"CONFIRMED"}
To(op) ==
    CASE op \in {"cancel", "cancelAny"} -> "CANCELLED"
      [] op = "confirm" -> "CONFIRMED"
      [] op = "complete" -> "COMPLETED"

UpdateStatus(c) ==
    /\ c.at = "sent" /\ c.op \in {"cancel", "cancelAny", "confirm", "complete"}
    /\ IF booking.status \in From(c.op) THEN Write(To(c.op)) /\ Answer(c, "done")
       ELSE UNCHANGED booking /\ Answer(c, "refused")
    /\ UNCHANGED <<side, dialect, bookingCache, bookingView, bookingDebt, createdByForm>>

\* A plan spelt in capitals fails the validation of the enum.
CreateOnServer(c) ==
    /\ c.at = "sent" /\ c.op = "create"
    /\ \/ /\ dialect = "types" /\ Write("PENDING") /\ Answer(c, "done")
          /\ createdByForm' = createdByForm + (IF c.live THEN 1 ELSE 0)
       \/ UNCHANGED <<booking, createdByForm>> /\ Answer(c, "refused")
    /\ UNCHANGED <<side, dialect, bookingCache, bookingView, bookingDebt>>

InitializeOnServer(c) ==
    /\ c.at = "sent" /\ c.op \in {"payRow", "payForm"}
    /\ Answer(c, IF booking.status \in From(c.op) THEN "done" ELSE "refused")
    /\ UNCHANGED <<bookingCache, bookingView, bookingRest>>

\* Others: webhook, sweep, administrators and the member in another tab.
OthersWrite(status) ==
    /\ booking # NoData /\ Write(status)
    /\ \/ booking.status = "PENDING" /\ status \in {"CONFIRMED", "CANCELLED", "EXPIRED"}
       \/ booking.status = "CONFIRMED" /\ status \in {"COMPLETED", "CANCELLED"}
       \/ booking.status = "EXPIRED" /\ status = "CONFIRMED"
    /\ UNCHANGED <<side, dialect, bookingCache, bookingView, bookingCalls, bookingDebt,
                   createdByForm>>

-----------------------------------------------------------------------------
\* Answers

\* invalidateQueries
Invalidate(c, keys) ==
    /\ bookingCache' = [k \in BookingKeys |->
          IF k \in keys THEN Invalidated(bookingCache[k], k \in QueriesOf(bookingView))
          ELSE bookingCache[k]]
    \* A query without data keeps the fetch it has, whatever that reads.
    /\ bookingDebt' =
          IF c.live /\ \A k \in QueriesOf(bookingView) : bookingCache[k].seen # NoData
          THEN booking.ver ELSE bookingDebt

MineAndDetail == {"mine", "detail"}
Received(c) == bookingCalls' = bookingCalls \ {c}
Reported == UNCHANGED <<side, dialect, booking, createdByForm>>

\* Variant: only the list is invalidated.
ListOnly == {"mine"}
\* queryKeys.bookings.all is a prefix of both queries.
CancelInvalidates == MineAndDetail

\* useCancelBooking, then the row's setConfirmCancel and refetch
CancelAnswered(c) ==
    /\ c.op = "cancel" /\ c.at = "done" /\ Received(c)
    /\ Invalidate(c, CancelInvalidates)
    /\ bookingView' = IF c.live THEN [bookingView EXCEPT !.armed = "none"] ELSE bookingView
    /\ Reported

\* useUpdateBookingStatus
UpdateAnswered(c) ==
    /\ c.op \in {"cancelAny", "confirm", "complete"} /\ c.at = "done" /\ Received(c)
    /\ Invalidate(c, MineAndDetail \cup {"admin", "adminPending"})
    /\ bookingView' = IF c.live THEN [bookingView EXCEPT !.armed = "none"] ELSE bookingView
    /\ Reported

\* useCreateBooking: the form goes to the payment, from whatever step it shows.
CreateAnswered(c) ==
    /\ c.op = "create" /\ c.at = "done" /\ Received(c)
    /\ Invalidate(c, MineAndDetail)
    /\ bookingView' = IF c.live THEN [bookingView EXCEPT !.step = 2] ELSE bookingView
    /\ Reported

\* useInitializePayment: the continuation runs also when its page was left.
PaymentInitialized(c) ==
    /\ c.op \in {"payRow", "payForm"} /\ c.at = "done" /\ Received(c)
    /\ bookingView' = [bookingView EXCEPT !.popup = c.op]
    /\ UNCHANGED <<bookingCache, bookingRest>>

\* A refusal, or no answer to a call that the server may have done: a toast;
\* what is armed stays armed, and nothing is fetched.
CallFails(c) ==
    /\ Received(c)
    /\ createdByForm' =
          IF c.op = "create" /\ c.at = "done" /\ c.live THEN createdByForm - 1 ELSE createdByForm
    /\ UNCHANGED <<side, dialect, booking, bookingCache, bookingView, bookingDebt>>

-----------------------------------------------------------------------------
\* Fetches

Absent == [status |-> "absent", ver |-> IF booking = NoData THEN 1 ELSE booking.ver]

\* findAll, whose status filter is left out when it is empty, and findById
FindAll(wanted) ==
    IF booking # NoData /\ wanted \in {"", booking.status} THEN booking ELSE Absent
\* The administrators' list keeps its rows.
FetchOfPageFailed(k, q) ==
    IF k \in MineAndDetail THEN ShownAsFailed(FetchFailed(q)) ELSE FetchFailed(q)
FindById == IF booking # NoData THEN booking ELSE Absent

Snapshot(k) ==
    CASE k = "detail" -> FindById
      [] k = "adminPending" -> FindAll("PENDING")
      [] OTHER -> FindAll("")

\* My Bookings replaces its rows, and their state, by a message when a fetch
\* failed; a status filter in capitals always fails.
FetchBookings(k) ==
    /\ \/ /\ bookingCache[k].fetch = "sent"
          /\ bookingCache' = [bookingCache EXCEPT ![k] =
                IF k = "adminPending" /\ dialect # "types" THEN FetchOfPageFailed(k, @)
                ELSE ReadByServer(@, Snapshot(k))]
       \/ /\ bookingCache[k].fetch = "read"
          /\ bookingCache' = [bookingCache EXCEPT ![k] =
                [Arrived(@) EXCEPT !.stale = k \notin QueriesOf(bookingView)]]
       \/ /\ bookingCache[k].fetch = "sent"
          /\ bookingCache' = [bookingCache EXCEPT ![k] = FetchOfPageFailed(k, @)]
    /\ IF bookingCache'[k].failed /\ bookingView.page = "list" /\ k = "mine"
       THEN /\ Armed("none")
            /\ bookingCalls' = {[c EXCEPT !.live = FALSE] : c \in bookingCalls}
       ELSE UNCHANGED <<bookingView, bookingCalls>>
    /\ UNCHANGED bookingRest

\* refetchOnWindowFocus
Refocus ==
    /\ bookingCache' = [k \in BookingKeys |->
          IF k \in QueriesOf(bookingView) THEN StartFetch(bookingCache[k], FALSE)
          ELSE bookingCache[k]]
    /\ bookingCache' # bookingCache
    /\ UNCHANGED <<bookingView, bookingCalls, bookingRest>>

BookingPagesNext ==
    \/ \E p \in {"list", "detail", "form", "admin"} : OpenPage(p)
    \/ HandleCancel \/ KeepBooking \/ HandlePayRow \/ PaystackClosed \/ PaystackCallback
    \/ ContinueToReview \/ BackToDetails \/ HandleConfirmBooking \/ HandlePayForm
    \/ \E f \in Filters : SetStatusFilter(f)
    \/ \E a \in {"confirm", "complete", "cancelAny"} : ChooseAction(a)
    \/ DropAction \/ HandleAction
    \/ \E c \in bookingCalls :
          \/ UpdateStatus(c) \/ CreateOnServer(c) \/ InitializeOnServer(c)
          \/ CancelAnswered(c) \/ UpdateAnswered(c) \/ CreateAnswered(c)
          \/ PaymentInitialized(c) \/ CallFails(c)
    \/ \E s \in BookingStatuses : OthersWrite(s)
    \/ \E k \in BookingKeys : FetchBookings(k)
    \/ Refocus

BookingPagesSpec == BookingPagesInit /\ [][BookingPagesNext]_bookingVars

-----------------------------------------------------------------------------
\* What the pages promise, whatever others do to the booking, in whatever order
\* fetches and answers come and whichever page they find: a write that was
\* reported to a page is not hidden by what the page shows as current; unless
\* an answer was lost, a pass through the form creates one booking at most, and
\* a form that asks for the payment has created it; and to an API that spells
\* the statuses like the enums of the backend only a new booking is ever sent.
BookingPagesAgree ==
    /\ \A k \in QueriesOf(bookingView) : UpToDate(bookingCache[k], bookingDebt)
    /\ bookingView.page = "form" =>
          /\ createdByForm <= 1
          /\ bookingView.step = 2 => createdByForm = 1
    /\ dialect # "types" => /\ \A c \in bookingCalls : c.op = "create"
                            /\ bookingView.step < 2
=============================================================================
