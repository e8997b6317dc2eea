------------------------------ MODULE MoneyPages -----------------------------
(***************************************************************************)
(* Payments and invoices as administrators and customers see them: the     *)
(* list of payments with its number of pending ones and its refunds, the   *)
(* list of invoices with its totals, and the page of one invoice, in one   *)
(* tab.                                                                    *)
(*                                                                         *)
(* moneyApi says whether API and routes are what the pages were written    *)
(* for ("typed"), or what they are ("built"): GET /payments refuses every  *)
(* query, statuses of invoices are in lower case, and the page of an       *)
(* invoice is at /invoices, without an id.  Later pages, dates, providers, *)
(* search and the download, which links to no page, are left out.          *)
(***************************************************************************)
EXTENDS QueryCache, FiniteSets, Sequences

CONSTANTS
    MoneyApis,          \* {"typed", "built"}
    Charges,            \* payments
    InvoiceIds,         \* ids in the address of an invoice; "404" is refused
    MaxCharged,         \* bound on the writes to the payments
    MaxRefundCalls,     \* bound on the refunds the tab asked for
    MaxAsked            \* bound on the refunds Paystack is asked for

VARIABLES
    moneyApi,
    charges,            \* the status of every payment
    invoiced,           \* the payments with an invoice, which is paid
    asked,              \* how often Paystack was asked to refund a payment
    moneyVer,           \* the writes so far
    moneyPage,          \* "payments", "invoices" or "sheet"
    moneyTab,           \* the status filter: "all", or successful and paid ones
    refundTarget,       \* the payment in the modal
    refundCalls,
    moneyCache,
    moneyDebt,          \* the version that refunds reported to the tab
    sheet,              \* the page of one invoice
    doubtful            \* history: payments whose refunds overlapped or got no answer

moneyServer == <<moneyApi, charges, invoiced, asked, moneyVer, doubtful>>
moneyVars == <<moneyPage, moneyTab, refundTarget, refundCalls, moneyCache, moneyDebt, sheet,
               moneyServer>>

NoCharge == "none"
MoneyKeys == {"list", "pending"}
MoneyShown(page) == CASE page = "payments" -> MoneyKeys [] page = "invoices" -> {"list"}
                      [] page = "sheet" -> {}
OpenedLists(page) == [k \in MoneyKeys |->
                   IF k \in MoneyShown(page) THEN OnMount(EmptyQuery, FALSE) ELSE EmptyQuery]

\* hasty: an address was left before its timer was over
NoSheet == [id |-> "none", loading |-> TRUE, error |-> FALSE, shown |-> "none",
            timers |-> <<>>, hasty |-> FALSE]

MoneyPagesInit ==
    /\ moneyApi \in MoneyApis
    /\ charges = [c \in Charges |-> "pending"] /\ invoiced = {}
    /\ asked = [c \in Charges |-> 0] /\ moneyVer = 1 /\ doubtful = {}
    /\ moneyPage = "payments" /\ moneyTab = "all" /\ moneyCache = OpenedLists("payments")
    /\ refundTarget = NoCharge /\ refundCalls = {} /\ moneyDebt = 0 /\ sheet = NoSheet

\* Another page, which forgets modal and filter, or another tab of the list.
ShowMoney(page, tab) ==
    /\ page # moneyPage \/ tab # moneyTab
    /\ page # moneyPage => tab = "all"
    /\ page = moneyPage => refundTarget = NoCharge /\ page # "sheet"
    /\ moneyPage' = page /\ moneyTab' = tab
    /\ moneyCache' = IF page # moneyPage THEN OpenedLists(page)
                     ELSE [moneyCache EXCEPT !["list"] = OnMount(EmptyQuery, FALSE)]
    /\ refundTarget' = NoCharge
    /\ refundCalls' = IF page = moneyPage THEN refundCalls
                      ELSE {[r EXCEPT !.live = FALSE] : r \in refundCalls}
    /\ sheet' = NoSheet
    /\ UNCHANGED <<moneyDebt, moneyServer>>

-----------------------------------------------------------------------------
\* The lists

\* PaymentQuery has no decorators, so that the validation refuses every query;
\* InvoiceQueryDto takes the statuses of the enum.
Accepted(k) == moneyApi = "typed" \/ (moneyPage = "invoices" /\ moneyTab = "all")

PaidLabel == IF moneyApi = "typed" THEN "PAID" ELSE "paid"

PaymentRows == [c \in Charges |-> IF moneyTab = "all" \/ charges[c] = "success"
                                  THEN charges[c] ELSE NoCharge]
InvoiceRows == [c \in Charges |-> IF c \in invoiced THEN PaidLabel ELSE NoCharge]
MoneyRows(k) ==
    CASE k = "pending" -> [c \in Charges |-> NoCharge]
      [] moneyPage = "payments" -> PaymentRows
      [] OTHER -> InvoiceRows

FetchMoney(k) ==
    LET q == moneyCache[k] IN
    /\ \/ /\ q.fetch = "sent" /\ Accepted(k)
          /\ moneyCache' = [moneyCache EXCEPT ![k] =
                ReadByServer(@, [status |-> "rows", ver |-> moneyVer, rows |-> MoneyRows(k)])]
       \/ q.fetch = "read" /\ moneyCache' = [moneyCache EXCEPT ![k] = Arrived(@)]
       \/ q.fetch = "sent" /\ moneyCache' = [moneyCache EXCEPT ![k] = FetchFailed(@)]
    /\ UNCHANGED <<moneyPage, moneyTab, refundTarget, refundCalls, moneyDebt, sheet, moneyServer>>

\* The focus of the window.
RefocusMoney ==
    /\ moneyCache' = [k \in MoneyKeys |->
          IF k \in MoneyShown(moneyPage) THEN StartFetch(moneyCache[k], FALSE) ELSE moneyCache[k]]
    /\ UNCHANGED <<moneyPage, moneyTab, refundTarget, refundCalls, moneyDebt, sheet, moneyServer>>

RowsShown == IF moneyCache["list"].seen = NoData THEN [c \in Charges |-> NoCharge]
             ELSE moneyCache["list"].seen.rows
\* The table of AdminInvoicesPage, and paid and totalRevenue above it.
InvoicesShown == {c \in Charges : moneyPage = "invoices" /\ RowsShown[c] # NoCharge}
PaidShown == {c \in InvoicesShown : RowsShown[c] = "PAID"}

-----------------------------------------------------------------------------
\* Refunds

PickRefund(c) ==
    /\ moneyPage = "payments" /\ refundTarget = NoCharge /\ RowsShown[c] = "success"
    /\ refundTarget' = c
    /\ UNCHANGED <<moneyPage, moneyTab, refundCalls, moneyCache, moneyDebt, sheet, moneyServer>>

CancelRefund ==
    /\ refundTarget # NoCharge /\ refundTarget' = NoCharge
    /\ UNCHANGED <<moneyPage, moneyTab, refundCalls, moneyCache, moneyDebt, sheet, moneyServer>>

\* handleRefund; the button is disabled while an answer is awaited.
ConfirmRefund ==
    /\ refundTarget # NoCharge /\ ~\E r \in refundCalls : r.live
    /\ Cardinality(refundCalls) < MaxRefundCalls
    /\ refundCalls' = refundCalls \cup {[of |-> refundTarget, at |-> "sent", live |-> TRUE]}
    /\ UNCHANGED <<moneyPage, moneyTab, refundTarget, moneyCache, moneyDebt, sheet, moneyServer>>

RefundAt(r, at) == refundCalls' = (refundCalls \ {r}) \cup {[r EXCEPT !.at = at]}

\* Variant: what was refunded may be refunded.
AnyPaid == {"success", "refunded"}
Refundable == {"success"}

\* RefundPaymentProvider: the row is read, Paystack is asked, the row is marked.
FindCharge(r) ==
    /\ r.at = "sent" /\ charges[r.of] \in Refundable /\ RefundAt(r, "found")
    /\ doubtful' = IF \E s \in refundCalls \ {r} : s.of = r.of /\ s.at \in {"found", "asked"}
                   THEN doubtful \cup {r.of} ELSE doubtful
    /\ UNCHANGED <<moneyApi, charges, invoiced, asked, moneyVer, moneyPage, moneyTab,
                   refundTarget, moneyCache, moneyDebt, sheet>>

AskPaystack(r, answered) ==
    /\ r.at = "found" /\ asked[r.of] < MaxAsked
    /\ asked' = [asked EXCEPT ![r.of] = @ + 1]
    /\ IF answered THEN RefundAt(r, "asked") /\ UNCHANGED doubtful
       ELSE refundCalls' = refundCalls \ {r} /\ doubtful' = doubtful \cup {r.of}
    /\ UNCHANGED <<moneyApi, charges, invoiced, moneyVer, moneyPage, moneyTab, refundTarget,
                   moneyCache, moneyDebt, sheet>>

\* UPDATE ... WHERE status = SUCCESS; who comes second gets the refunded row.
MarkRefunded(r) ==
    /\ r.at = "asked" /\ RefundAt(r, "done")
    /\ charges' = [charges EXCEPT ![r.of] = "refunded"]
    /\ moneyVer' = IF charges[r.of] = "success" THEN moneyVer + 1 ELSE moneyVer
    /\ UNCHANGED <<moneyApi, invoiced, asked, doubtful, moneyPage, moneyTab, refundTarget,
                   moneyCache, moneyDebt, sheet>>

\* useRefundPayment invalidates both lists of payments; then the modal is
\* closed, whichever payment it is about by now.
RefundAnswered(r) ==
    /\ r.at = "done" /\ refundCalls' = refundCalls \ {r}
    /\ LET shown == IF moneyPage = "payments" THEN MoneyKeys ELSE {} IN
       /\ moneyCache' = [k \in MoneyKeys |->
             IF k \in shown THEN Invalidated(moneyCache[k], TRUE) ELSE moneyCache[k]]
       \* A query without data keeps the fetch it has, whatever that reads.
       /\ moneyDebt' = IF shown # {} /\ \A k \in shown : moneyCache[k].seen # NoData
                       THEN moneyVer ELSE moneyDebt
    /\ refundTarget' = IF r.live THEN NoCharge ELSE refundTarget
    /\ UNCHANGED <<moneyPage, moneyTab, sheet, moneyServer>>

\* Refused, or the answer is lost: handleRefund throws and the modal stays.
RefundFailed(r) ==
    /\ r.at = "done" \/ (r.at = "sent" /\ charges[r.of] \notin Refundable) \/ r.at = "found"
    /\ refundCalls' = refundCalls \ {r}
    /\ UNCHANGED <<moneyPage, moneyTab, refundTarget, moneyCache, moneyDebt, sheet, moneyServer>>

\* The webhook: what becomes of a payment, and the invoice that follows.
Settle(c, status) ==
    /\ charges[c] = "pending" /\ moneyVer < MaxCharged
    /\ charges' = [charges EXCEPT ![c] = status] /\ moneyVer' = moneyVer + 1
    /\ UNCHANGED <<moneyApi, invoiced, asked, doubtful, moneyPage, moneyTab, refundTarget,
                   refundCalls, moneyCache, moneyDebt, sheet>>

IssueInvoice(c) ==
    /\ charges[c] \in {"success", "refunded"} /\ c \notin invoiced
    /\ invoiced' = invoiced \cup {c}
    /\ UNCHANGED <<moneyApi, charges, asked, moneyVer, doubtful, moneyPage, moneyTab, refundTarget,
                   refundCalls, moneyCache, moneyDebt, sheet>>

-----------------------------------------------------------------------------
\* The page of one invoice, which waits 800 ms and shows a sample

\* The effect of an address with an id.
FollowInvoice(i) ==
    /\ moneyPage = "sheet" /\ moneyApi = "typed" /\ i # sheet.id /\ Len(sheet.timers) < 2
    /\ sheet' = [sheet EXCEPT !.id = i, !.loading = TRUE, !.error = FALSE,
                              !.timers = Append(@, i), !.hasty = sheet.timers # <<>>]
    /\ UNCHANGED <<moneyPage, moneyTab, refundTarget, refundCalls, moneyCache, moneyDebt, moneyServer>>

\* A timer is over, also one of an address that was left.
SheetLoads ==
    /\ sheet.timers # <<>>
    /\ LET i == Head(sheet.timers) IN
       sheet' = [sheet EXCEPT !.loading = FALSE, !.timers = Tail(@),
                              !.error = @ \/ i = "404",
                              !.shown = IF i = "404" THEN @ ELSE i]
    /\ UNCHANGED <<moneyPage, moneyTab, refundTarget, refundCalls, moneyCache, moneyDebt, moneyServer>>

MoneyPagesNext ==
    \/ \E page \in {"payments", "invoices", "sheet"}, tab \in {"all", "settled"} :
          ShowMoney(page, tab)
    \/ \E k \in MoneyKeys : FetchMoney(k)
    \/ RefocusMoney \/ CancelRefund \/ ConfirmRefund \/ SheetLoads
    \/ \E c \in Charges :
          PickRefund(c) \/ IssueInvoice(c) \/ \E s \in {"success", "failed"} : Settle(c, s)
    \/ \E r \in refundCalls :
          \/ FindCharge(r) \/ MarkRefunded(r) \/ RefundAnswered(r) \/ RefundFailed(r)
          \/ \E answered \in BOOLEAN : AskPaystack(r, answered)
    \/ \E i \in InvoiceIds : FollowInvoice(i)

MoneyPagesSpec == MoneyPagesInit /\ [][MoneyPagesNext]_moneyVars

-----------------------------------------------------------------------------
\* What administrators rely on: Paystack is asked twice for a payment only if
\* requests overlapped or an answer of Paystack was lost, and a payment counts
\* as refunded only after it was asked; no list shows as current what is older
\* than a refund reported to the tab.  As things are built, nobody refunds from
\* the page, no invoice counts as paid and no invoice is ever shown; else the
\* page of an invoice ends up with it, unless addresses changed in haste.
MoneyPagesAgree ==
    /\ \A c \in Charges : /\ asked[c] > 1 => c \in doubtful
                          /\ charges[c] = "refunded" => asked[c] > 0
    /\ \A k \in MoneyShown(moneyPage) : UpToDate(moneyCache[k], moneyDebt)
    /\ moneyApi = "built" => /\ refundTarget = NoCharge /\ PaidShown = {}
                             /\ sheet.loading
    /\ sheet.id # "none" /\ sheet.timers = <<>> /\ ~sheet.hasty =>
          ~sheet.loading /\ (sheet.error <=> sheet.id = "404")
          /\ (sheet.id # "404" => sheet.shown = sheet.id)
=============================================================================
