--------------------------- MODULE BookingPayments --------------------------
(***************************************************************************)
(* The booking and payment lifecycle of the NestJS backend: HTTP handlers, *)
(* the Paystack webhook and the hourly expiry sweep, interleaved at their  *)
(* await points, over the bookings of one workspace (handlers take no      *)
(* state of another).  Each worker runs one handler at a time; call[w]     *)
(* holds its program counter and the locals it carries over an await.      *)
(***************************************************************************)
EXTENDS SeatMath

CONSTANTS
    Payments,         \* payment ids
    BookingOf,        \* [Payments -> Bookings], the booking a payment id is for
    Users,
    Owner,            \* [Bookings -> Users \cup {None}], None for a guest
    PlanOf,           \* [Bookings -> Plans]
    Plans,
    LongTermPlans,    \* MONTHLY, QUARTERLY, YEARLY
    Workers,          \* concurrent handler invocations
    SeatChoices,      \* the totalSeats an administrator may set
    MaxRefundCalls,   \* bound on initiateRefund calls per payment
    None

ASSUME PaymentsAssumption == BookingOf \in [Payments -> Bookings]
ASSUME OwnerAssumption == Owner \in [Bookings -> Users \cup {None}]
ASSUME GuestAssumption ==
    \A b \in Bookings : Owner[b] = None =>
        SeatCount[b] = 1 /\ StartDate[b] = EndDate[b] /\ PlanOf[b] \notin LongTermPlans
ASSUME PlanAssumption == PlanOf \in [Bookings -> Plans]
ASSUME SeatChoicesAssumption == SeatChoices \subseteq Nat
ASSUME MaxRefundCallsAssumption == MaxRefundCalls \in Nat
ASSUME NoneAssumption == None \notin Bookings \cup Payments \cup Workers \cup Users

VARIABLES
    status,       \* bookings.status, "none" before the row exists
    escrowId,     \* bookings.sorobanEscrowId is set
    due,          \* bookings whose effective payment deadline has passed
    payStatus,    \* payments.status, "none" before the row exists
    payRef,       \* payments.providerReference is set
    members,      \* users whose memberSince is set
    totalSeats,   \* workspaces.totalSeats
    lock,         \* holder of the FOR UPDATE lock on the workspace row
    invoiced,     \* payments whose invoice generation was launched
    stale,        \* staleIds of the running sweep, {} when none runs
    charge,       \* the transaction at Paystack: "none", "open" or "paid"
    failedEvents, \* payments with a charge.failed event Paystack may deliver
    refundCalls,  \* initiateRefund calls Paystack accepted, per payment
    onChain,      \* bookings with an escrow in the payment_escrow contract
    call          \* the handler each worker is running

bookingVars == <<status, escrowId, due, members, totalSeats, invoiced>>
paymentVars == <<payStatus, payRef, stale>>
externalVars == <<charge, failedEvents, refundCalls, onChain>>
vars == <<bookingVars, paymentVars, externalVars, lock, call>>

BookingStatus ==
    {"none", "pending", "confirmed", "cancelled", "completed", "expired"}
PaymentStatus == {"none", "pending", "success", "failed", "refunded"}
Labels ==
    {"idle", "createSave", "dayPassSave", "cancelSave", "completeSave",
     "confirm", "activate", "initFind", "initSave", "initOpen", "initRef",
     "resolve", "reviveRead", "reviveCheck", "reviveSave", "escrowCall",
     "escrowStore", "invoice", "refundCall", "refundMark"}
Calls == [pc : Labels, bk : Bookings \cup {None}, pay : Payments \cup {None},
          snap : BOOLEAN]

IdleCall == [pc |-> "idle", bk |-> None, pay |-> None, snap |-> FALSE]
At(w, label) == call[w].pc = label
Go(w, label, b, p, s) ==
    call' = [call EXCEPT ![w] = [pc |-> label, bk |-> b, pay |-> p, snap |-> s]]
Continue(w, label) == Go(w, label, call[w].bk, call[w].pay, call[w].snap)
Return(w) == call' = [call EXCEPT ![w] = IdleCall]

Holders == {b \in Bookings : status[b] \in {"pending", "confirmed"}}

Init ==
    /\ status = [b \in Bookings |-> "none"]
    /\ escrowId = [b \in Bookings |-> FALSE]
    /\ due = {} /\ members = {} /\ invoiced = {} /\ stale = {}
    /\ payStatus = [p \in Payments |-> "none"]
    /\ payRef = [p \in Payments |-> FALSE]
    /\ totalSeats = InitialSeats
    /\ lock = None
    /\ charge = [p \in Payments |-> "none"]
    /\ failedEvents = {} /\ onChain = {}
    /\ refundCalls = [p \in Payments |-> 0]
    /\ call = [w \in Workers |-> IdleCall]

-----------------------------------------------------------------------------
\* Bookings: POST /bookings, POST /bookings/public/day-pass, cancel, complete

\* Variant: the capacity check counts paid bookings only.
FitsCountingPaid(b) ==
    BookedSeats(Overlapping({a \in Holders : status[a] = "confirmed"}, b) \ {b})
        + SeatCount[b] <= totalSeats

\* The capacity check of both creation paths and of the reactivation, over
\* the PENDING and CONFIRMED rows that overlap b.
Fits(b) ==
    BookedSeats(Overlapping(Holders, b) \ {b}) + SeatCount[b] <= totalSeats

\* Variant: the workspace is read without FOR UPDATE.
WorkspaceRowUnlocked == TRUE

\* SELECT ... FOR UPDATE on the workspace row returns once nobody holds it.
WorkspaceRowFree == lock = None

\* Takes the workspace row lock and passes the capacity check; a request that
\* does not fit rolls back, which leaves no trace.
CreateCheck(w, b) ==
    /\ At(w, "idle") /\ Owner[b] # None /\ status[b] = "none"
    /\ WorkspaceRowFree /\ Fits(b)
    /\ lock' = w
    /\ Go(w, "createSave", b, None, FALSE)
    /\ UNCHANGED <<bookingVars, paymentVars, externalVars>>

CreateSave(w) ==
    /\ At(w, "createSave")
    /\ status' = [status EXCEPT ![call[w].bk] = "pending"]
    /\ lock' = None
    /\ Return(w)
    /\ UNCHANGED <<escrowId, due, members, totalSeats, invoiced, paymentVars,
                   externalVars>>

\* The guest path calls Paystack inside the transaction: the checkout is open
\* before booking and payment rows are visible to any other connection.
DayPassCheck(w, p) ==
    LET b == BookingOf[p] IN
    /\ At(w, "idle") /\ Owner[b] = None /\ status[b] = "none"
    /\ payStatus[p] = "none" /\ charge[p] = "none"
    /\ WorkspaceRowFree /\ Fits(b)
    /\ lock' = w
    /\ charge' = [charge EXCEPT ![p] = "open"]
    /\ Go(w, "dayPassSave", b, p, FALSE)
    /\ UNCHANGED <<bookingVars, paymentVars, failedEvents, refundCalls, onChain>>

DayPassSave(w) ==
    /\ At(w, "dayPassSave")
    /\ status' = [status EXCEPT ![call[w].bk] = "pending"]
    /\ payStatus' = [payStatus EXCEPT ![call[w].pay] = "pending"]
    /\ payRef' = [payRef EXCEPT ![call[w].pay] = TRUE]
    /\ lock' = None
    /\ Return(w)
    /\ UNCHANGED <<escrowId, due, members, totalSeats, invoiced, stale,
                   externalVars>>

\* cancel and complete read the row, test its status, and save the entity they
\* read: TypeORM selects the row again and writes the columns that differ then,
\* so that an escrow id stored since the read is wiped or, after that SELECT, kept.
CancelRead(w, b) ==
    /\ At(w, "idle") /\ status[b] \in {"pending", "confirmed"}
    /\ Go(w, "cancelSave", b, None, escrowId[b])
    /\ UNCHANGED <<bookingVars, paymentVars, externalVars, lock>>

CompleteRead(w, b) ==
    /\ At(w, "idle") /\ status[b] = "confirmed"
    /\ Go(w, "completeSave", b, None, escrowId[b])
    /\ UNCHANGED <<bookingVars, paymentVars, externalVars, lock>>

SaveSnapshot(w, newStatus) ==
    /\ status' = [status EXCEPT ![call[w].bk] = newStatus]
    /\ escrowId' \in {escrowId, [escrowId EXCEPT ![call[w].bk] = call[w].snap]}

CancelSave(w) ==
    /\ At(w, "cancelSave")
    /\ SaveSnapshot(w, "cancelled")
    /\ Return(w)
    /\ UNCHANGED <<due, members, totalSeats, invoiced, paymentVars,
                   externalVars, lock>>

CompleteSave(w) ==
    /\ At(w, "completeSave")
    /\ SaveSnapshot(w, "completed")
    /\ Return(w)
    /\ UNCHANGED <<due, members, totalSeats, invoiced, paymentVars,
                   externalVars, lock>>

\* PATCH /workspaces/:id.  The UPDATE waits for a FOR UPDATE holder.
UpdateWorkspace(n) ==
    /\ lock = None /\ n # totalSeats
    /\ totalSeats' = n
    /\ UNCHANGED <<status, escrowId, due, members, invoiced, paymentVars,
                   externalVars, lock, call>>

-----------------------------------------------------------------------------
\* Confirmation: by staff (no payment) or on behalf of a paid charge

StaffConfirm(w, b) ==
    /\ At(w, "idle") /\ status[b] = "pending"
    /\ Go(w, "confirm", b, None, FALSE)
    /\ UNCHANGED <<bookingVars, paymentVars, externalVars, lock>>

\* Where a handler goes once its booking is confirmed and read back with
\* escrow column e: long-term payments get an escrow, then an invoice.
Honoured(w, e) ==
    LET b == call[w].bk IN
    IF call[w].pay = None THEN Return(w)
    ELSE IF PlanOf[b] \in LongTermPlans /\ ~e
         THEN Go(w, "escrowCall", b, call[w].pay, e)
         ELSE Go(w, "invoice", b, call[w].pay, e)

\* Variant: a booking that cannot be confirmed is treated as honoured.
ConfirmRefused(w) == Honoured(w, FALSE)

\* confirm() throws and the payment is kept without honouring the booking.
ConfirmThrows(w) == Return(w)

\* UPDATE ... SET status = CONFIRMED WHERE status = PENDING; when no row
\* matches, an already CONFIRMED booking counts as confirmed.
ConfirmUpdate(w) ==
    LET b == call[w].bk IN
    /\ At(w, "confirm")
    /\ \/ /\ status[b] = "pending"
          /\ status' = [status EXCEPT ![b] = "confirmed"]
          /\ Go(w, "activate", b, call[w].pay, escrowId[b])
       \/ /\ status[b] = "confirmed"
          /\ Honoured(w, escrowId[b])
          /\ UNCHANGED status
       \/ /\ status[b] \notin {"pending", "confirmed"}
          /\ ConfirmThrows(w)
          /\ UNCHANGED status
    /\ UNCHANGED <<escrowId, due, members, totalSeats, invoiced, paymentVars,
                   externalVars, lock>>

ActivateMembershipIfNeeded(b) == members' = members \cup ({Owner[b]} \ {None})

Activate(w) ==
    /\ At(w, "activate")
    /\ ActivateMembershipIfNeeded(call[w].bk)
    /\ Honoured(w, call[w].snap)
    /\ UNCHANGED <<status, escrowId, due, totalSeats, invoiced, paymentVars,
                   externalVars, lock>>

-----------------------------------------------------------------------------
\* Payments: POST /payments/initialize

InitializeRead(w, b) ==
    /\ At(w, "idle") /\ Owner[b] # None /\ status[b] = "pending"
    /\ Go(w, "initFind", b, None, FALSE)
    /\ UNCHANGED <<bookingVars, paymentVars, externalVars, lock>>

PendingPayments(b) ==
    {p \in Payments : BookingOf[p] = b /\ payStatus[p] = "pending"}

OpenCheckout(p) ==
    charge' = [charge EXCEPT ![p] = IF @ = "none" THEN "open" ELSE @]

\* An existing PENDING payment is initialised again at Paystack under its id;
\* its row is not written.
InitializeReuse(w, p) ==
    /\ At(w, "initFind") /\ p \in PendingPayments(call[w].bk)
    /\ OpenCheckout(p)
    /\ Return(w)
    /\ UNCHANGED <<bookingVars, paymentVars, failedEvents, refundCalls, onChain,
                   lock>>

InitializeFindNone(w) ==
    /\ At(w, "initFind") /\ PendingPayments(call[w].bk) = {}
    /\ Continue(w, "initSave")
    /\ UNCHANGED <<bookingVars, paymentVars, externalVars, lock>>

FreshPayments(b) ==
    {p \in Payments : BookingOf[p] = b /\ payStatus[p] = "none"}

\* Bound: with no fresh payment id left the request ends.
InitializeSave(w) ==
    LET b == call[w].bk IN
    /\ At(w, "initSave")
    /\ \/ \E p \in FreshPayments(b) :
             /\ payStatus' = [payStatus EXCEPT ![p] = "pending"]
             /\ Go(w, "initOpen", b, p, FALSE)
       \/ /\ FreshPayments(b) = {}
          /\ Return(w)
          /\ UNCHANGED payStatus
    /\ UNCHANGED <<bookingVars, payRef, stale, externalVars, lock>>

InitializeOpen(w) ==
    /\ At(w, "initOpen")
    /\ OpenCheckout(call[w].pay)
    /\ Continue(w, "initRef")
    /\ UNCHANGED <<bookingVars, paymentVars, failedEvents, refundCalls, onChain,
                   lock>>

\* The second save writes the entity of the first one, status included.
InitializeRef(w) ==
    /\ At(w, "initRef")
    /\ payRef' = [payRef EXCEPT ![call[w].pay] = TRUE]
    /\ payStatus' = [payStatus EXCEPT ![call[w].pay] = "pending"]
    /\ Return(w)
    /\ UNCHANGED <<bookingVars, stale, externalVars, lock>>

-----------------------------------------------------------------------------
\* Payments: the Paystack webhook.  An event is delivered at least once, in any
\* order and at any time after it was raised; deliveries for an unknown
\* reference answer 400, and those that lose the conditional UPDATE answer
\* 200: neither writes a row.

\* Variant: the transition is not conditional on the row still being PENDING.
SuccessOverwrites(p) == payStatus[p] \in {"pending", "success"}

\* Variant: a charge is only recorded while its booking waits for it.
SuccessForPendingBooking(p) ==
    payStatus[p] = "pending" /\ status[BookingOf[p]] = "pending"

\* UPDATE ... SET status = SUCCESS WHERE id = p AND status = PENDING matches.
SuccessApplies(p) == payStatus[p] = "pending"

ChargeSuccess(w, p) ==
    /\ At(w, "idle") /\ charge[p] = "paid" /\ payRef[p]
    /\ SuccessApplies(p)
    /\ payStatus' = [payStatus EXCEPT ![p] = "success"]
    /\ Go(w, "resolve", BookingOf[p], p, FALSE)
    /\ UNCHANGED <<bookingVars, payRef, stale, externalVars, lock>>

\* Variant: charge.failed overwrites whatever the row says.
FailureOverwrites(p) == payStatus[p] # "failed"

\* UPDATE ... SET status = FAILED WHERE id = p AND status = PENDING matches.
FailureApplies(p) == payStatus[p] = "pending"

ChargeFailed(p) ==
    /\ p \in failedEvents /\ payRef[p] /\ FailureApplies(p)
    /\ payStatus' = [payStatus EXCEPT ![p] = "failed"]
    /\ UNCHANGED <<bookingVars, payRef, stale, externalVars, lock, call>>

Resolve(w) ==
    /\ At(w, "resolve")
    /\ Continue(w, IF status[call[w].bk] = "expired" THEN "reviveRead"
                                                    ELSE "confirm")
    /\ UNCHANGED <<bookingVars, paymentVars, externalVars, lock>>

\* reactivateExpired: the row is read before the workspace lock is taken.
ReviveRead(w) ==
    LET b == call[w].bk IN
    /\ At(w, "reviveRead")
    /\ \/ /\ status[b] = "expired"
          /\ Go(w, "reviveCheck", b, call[w].pay, escrowId[b])
       \/ /\ status[b] = "confirmed"
          /\ Honoured(w, escrowId[b])
       \/ /\ status[b] \notin {"expired", "confirmed"}
          /\ Return(w)
    /\ UNCHANGED <<bookingVars, paymentVars, externalVars, lock>>

ReviveCheck(w) ==
    /\ At(w, "reviveCheck") /\ WorkspaceRowFree
    /\ \/ /\ Fits(call[w].bk)
          /\ lock' = w
          /\ Continue(w, "reviveSave")
       \/ /\ ~Fits(call[w].bk)
          /\ Return(w)
          /\ UNCHANGED lock
    /\ UNCHANGED <<bookingVars, paymentVars, externalVars>>

ReviveSave(w) ==
    /\ At(w, "reviveSave")
    /\ SaveSnapshot(w, "confirmed")
    /\ ActivateMembershipIfNeeded(call[w].bk)
    /\ lock' = None
    /\ Honoured(w, call[w].snap)
    /\ UNCHANGED <<due, totalSeats, invoiced, paymentVars, externalVars>>

\* createEscrow submits the transaction and waits for it; the contract takes
\* an escrow id once.  The call may also report a failure for a transaction
\* that lands.
EscrowCall(w) ==
    LET b == call[w].bk IN
    /\ At(w, "escrowCall")
    /\ \/ /\ b \notin onChain
          /\ onChain' = onChain \cup {b}
          /\ Continue(w, "escrowStore") \/ Continue(w, "invoice")
       \/ /\ Continue(w, "invoice")
          /\ UNCHANGED onChain
    /\ UNCHANGED <<bookingVars, paymentVars, charge, failedEvents, refundCalls,
                   lock>>

\* A failing UPDATE is caught and logged like a failing call.
EscrowStore(w) ==
    /\ At(w, "escrowStore")
    /\ escrowId' \in {escrowId, [escrowId EXCEPT ![call[w].bk] = TRUE]}
    /\ Continue(w, "invoice")
    /\ UNCHANGED <<status, due, members, totalSeats, invoiced, paymentVars,
                   externalVars, lock>>

LaunchInvoice(w) ==
    /\ At(w, "invoice")
    /\ invoiced' = invoiced \cup {call[w].pay}
    /\ Return(w)
    /\ UNCHANGED <<status, escrowId, due, members, totalSeats, paymentVars,
                   externalVars, lock>>

-----------------------------------------------------------------------------
\* Payments: POST /payments/:id/refund

Refundable(p) == payStatus[p] = "success"

RefundRead(w, p) ==
    /\ At(w, "idle") /\ Refundable(p)
    /\ Go(w, "refundCall", None, p, FALSE)
    /\ UNCHANGED <<bookingVars, paymentVars, externalVars, lock>>

\* Bound: Paystack refuses a refund beyond MaxRefundCalls, and the call throws.
RefundCall(w) ==
    LET p == call[w].pay IN
    /\ At(w, "refundCall")
    /\ \/ /\ refundCalls[p] < MaxRefundCalls
          /\ refundCalls' = [refundCalls EXCEPT ![p] = @ + 1]
          /\ Continue(w, "refundMark")
       \/ /\ refundCalls[p] = MaxRefundCalls
          /\ Return(w)
          /\ UNCHANGED refundCalls
    /\ UNCHANGED <<bookingVars, paymentVars, charge, failedEvents, onChain, lock>>

RefundMark(w) ==
    LET p == call[w].pay IN
    /\ At(w, "refundMark")
    /\ payStatus' = [payStatus EXCEPT ![p] = IF @ = "success" THEN "refunded" ELSE @]
    /\ Return(w)
    /\ UNCHANGED <<bookingVars, payRef, stale, externalVars, lock>>

-----------------------------------------------------------------------------
\* The hourly sweep

\* Variant: a row without a stamped deadline never becomes due.
DeadlinePassesIfStamped(b) ==
    /\ status[b] = "pending" /\ b \notin due /\ Owner[b] = None
    /\ due' = due \cup {b}
    /\ UNCHANGED <<status, escrowId, members, totalSeats, invoiced, paymentVars,
                   externalVars, lock, call>>

DeadlinePasses(b) ==
    /\ status[b] = "pending" /\ b \notin due
    /\ due' = due \cup {b}
    /\ UNCHANGED <<status, escrowId, members, totalSeats, invoiced, paymentVars,
                   externalVars, lock, call>>

\* The SELECT of one plan's overdue PENDING rows, outside the transaction.
SweepSelect(plan) ==
    /\ stale = {}
    /\ stale' = {b \in due : status[b] = "pending" /\ PlanOf[b] = plan}
    /\ stale' # {}
    /\ UNCHANGED <<bookingVars, payStatus, payRef, externalVars, lock, call>>

\* Variant: the UPDATE trusts the ids selected before the transaction.
OverdueWhenSelected(b) == b \in stale

\* The rows the guarded UPDATE of the sweep matches.
StillOverdue(b) == b \in stale /\ status[b] = "pending"

SweepExpire ==
    /\ stale # {}
    /\ status' = [b \in Bookings |->
         IF StillOverdue(b) THEN "expired" ELSE status[b]]
    /\ payStatus' = [p \in Payments |->
         IF BookingOf[p] \in stale /\ payStatus[p] = "pending"
         THEN "failed" ELSE payStatus[p]]
    /\ stale' = {}
    /\ UNCHANGED <<escrowId, due, members, totalSeats, invoiced, payRef,
                   externalVars, lock, call>>

\* The transaction fails and is logged, or the process restarts.
SweepAbort ==
    /\ stale # {} /\ stale' = {}
    /\ UNCHANGED <<bookingVars, payStatus, payRef, externalVars, lock, call>>

-----------------------------------------------------------------------------
\* The environment

\* The customer pays, or an attempt on the open checkout is declined.
CustomerPays(p) ==
    /\ charge[p] = "open"
    /\ charge' = [charge EXCEPT ![p] = "paid"]
    /\ UNCHANGED <<bookingVars, paymentVars, failedEvents, refundCalls, onChain,
                   lock, call>>

AttemptDeclined(p) ==
    /\ charge[p] = "open" /\ p \notin failedEvents
    /\ failedEvents' = failedEvents \cup {p}
    /\ UNCHANGED <<bookingVars, paymentVars, charge, refundCalls, onChain, lock,
                   call>>

\* A handler dies at an await: an exception from the database or from Paystack,
\* or a process restart.  Its open transaction rolls back.
HandlerFails(w) ==
    /\ ~At(w, "idle")
    /\ Return(w)
    /\ lock' = IF lock = w THEN None ELSE lock
    /\ UNCHANGED <<bookingVars, paymentVars, externalVars>>

-----------------------------------------------------------------------------
Step(w) ==
    \/ InitializeSave(w) \/ CreateSave(w) \/ DayPassSave(w) \/ CancelSave(w) \/ CompleteSave(w)
    \/ ConfirmUpdate(w) \/ Activate(w)
    \/ InitializeFindNone(w) \/ InitializeOpen(w) \/ InitializeRef(w)
    \/ \E p \in Payments : InitializeReuse(w, p)
    \/ Resolve(w) \/ ReviveRead(w) \/ ReviveCheck(w) \/ ReviveSave(w)
    \/ EscrowCall(w) \/ EscrowStore(w) \/ LaunchInvoice(w)
    \/ RefundCall(w) \/ RefundMark(w)

Request(w) ==
    \/ \E b \in Bookings : \/ CreateCheck(w, b) \/ CancelRead(w, b)
                           \/ CompleteRead(w, b) \/ StaffConfirm(w, b)
                           \/ InitializeRead(w, b)
    \/ \E p \in Payments : \/ DayPassCheck(w, p) \/ ChargeSuccess(w, p)
                           \/ RefundRead(w, p)

Environment ==
    \/ \E b \in Bookings : DeadlinePasses(b)
    \/ \E p \in Payments : ChargeFailed(p) \/ CustomerPays(p) \/ AttemptDeclined(p)
    \/ \E n \in SeatChoices : UpdateWorkspace(n)
    \/ \E plan \in Plans : SweepSelect(plan)
    \/ SweepExpire \/ SweepAbort

Next ==
    \/ \E w \in Workers : Step(w) \/ Request(w) \/ HandlerFails(w)
    \/ Environment

Spec == Init /\ [][Next]_vars

\* A worker always takes the next step of its handler; a handler waiting for
\* the row lock gets it in the end (PostgreSQL queues lock requests); Paystack
\* redelivers until it is answered 200; the cron fires every hour.
Fairness ==
    /\ \A w \in Workers : WF_vars(Step(w)) /\ SF_vars(ReviveCheck(w))
    /\ \A p \in Payments : SF_vars(\E w \in Workers : ChargeSuccess(w, p))
    /\ \A b \in Bookings : WF_vars(DeadlinePasses(b))
    /\ \A plan \in Plans : SF_vars(SweepSelect(plan))
    /\ SF_vars(SweepExpire)

FairSpec == Spec /\ Fairness

-----------------------------------------------------------------------------
\* Properties

\* Every row, lock and handler keeps its type, and each handler label carries
\* the ids its later steps use.
TypeOK ==
    /\ status \in [Bookings -> BookingStatus]
    /\ escrowId \in [Bookings -> BOOLEAN]
    /\ due \subseteq Bookings /\ stale \subseteq Bookings
    /\ onChain \subseteq Bookings
    /\ payStatus \in [Payments -> PaymentStatus]
    /\ payRef \in [Payments -> BOOLEAN]
    /\ members \subseteq Users
    /\ totalSeats \in Nat
    /\ lock \in Workers \cup {None}
    /\ invoiced \subseteq Payments /\ failedEvents \subseteq Payments
    /\ charge \in [Payments -> {"none", "open", "paid"}]
    /\ refundCalls \in [Payments -> 0..MaxRefundCalls]
    /\ call \in [Workers -> Calls]

ResolvingLabels ==
    {"resolve", "reviveRead", "reviveCheck", "reviveSave", "escrowCall",
     "escrowStore", "invoice"}
Settled(p) == payStatus[p] \in {"success", "refunded"}
Resolves(w, p) ==
    /\ call[w].pay = p
    /\ call[w].pc \in ResolvingLabels \cup {"confirm", "activate"}

\* Seats: the locked check-then-save of the creation and reactivation
\* transactions implements the one-step admission of SeatLedger, whatever
\* cancel, complete, confirm and the sweep do in between.
Ledger == INSTANCE SeatLedger WITH held <- Holders, seats <- totalSeats
SeatsAdmittedAtomically == Ledger!LedgerSpec

\* A transaction that passed the capacity check and has not saved yet holds the
\* workspace lock, and its check would still pass now.
CheckedSeatsStillFree ==
    \A w \in Workers :
        call[w].pc \in {"createSave", "dayPassSave", "reviveSave"} =>
            lock = w /\ Fits(call[w].bk)

\* A CONFIRMED booking is never expired nor returned to PENDING: neither by a
\* sweep that selected it while it was PENDING nor by a stale save.
ConfirmedNeverExpires ==
    [][\A b \in Bookings : status[b] = "confirmed" =>
           status'[b] \in {"confirmed", "cancelled", "completed"}]_vars

\* A SUCCESS payment only ever becomes REFUNDED, and REFUNDED is final: no late
\* charge.failed, sweep, redelivery or stale save of initialize changes it.
SettledNeverReverts ==
    [][\A p \in Payments :
          /\ payStatus[p] = "success" => payStatus'[p] \in {"success", "refunded"}
          /\ payStatus[p] = "refunded" => payStatus'[p] = "refunded"]_vars

\* However often charge.success is delivered, one delivery at most performs the
\* side effects of a payment, and only for a payment that is settled.
OneDeliveryResolves ==
    \A p \in Payments : \A w \in Workers :
        Resolves(w, p) =>
            /\ Settled(p)
            /\ \A v \in Workers : Resolves(v, p) => v = w

\* A refund is only requested for money Paystack has captured and the backend
\* has recorded.
RefundOnlyCaptured ==
    \A p \in Payments : refundCalls[p] > 0 => charge[p] = "paid" /\ Settled(p)

\* Whatever is delivered twice or raced, money moves once and only if it is
\* there: see the two parts.
MoneyMovesOnce == OneDeliveryResolves /\ RefundOnlyCaptured

\* An invoice is only launched for a settled payment whose booking was honoured.
InvoiceOnlyWhenHonoured ==
    \A p \in invoiced :
        /\ Settled(p)
        /\ status[BookingOf[p]] \in {"confirmed", "cancelled", "completed"}

\* Funds are only locked on chain for an honoured long-term booking with a
\* settled payment, and an escrow id is only stored for such an escrow.
EscrowOnlyWhenHonoured ==
    /\ \A b \in Bookings : escrowId[b] => b \in onChain
    /\ \A b \in onChain :
        /\ PlanOf[b] \in LongTermPlans
        /\ status[b] \in {"confirmed", "cancelled", "completed"}
        /\ \E p \in Payments : BookingOf[p] = b /\ Settled(p)

\* A payment has effects only if its booking was honoured: see the two parts.
OnlyHonouredIsFulfilled == InvoiceOnlyWhenHonoured /\ EscrowOnlyWhenHonoured

\* The seats of a checkout abandoned past its deadline are released.
AbandonedIsReleased ==
    \A b \in Bookings : status[b] = "pending" ~> status[b] # "pending"

\* A captured charge whose reference is stored is eventually decided in the
\* payments table, however often handlers fail and deliveries repeat.
PaidIsDecided ==
    \A p \in Payments :
        (charge[p] = "paid" /\ payRef[p]) ~> payStatus[p] # "pending"

-----------------------------------------------------------------------------
\* Statements of the repository that the code does not keep

\* refund-payment.provider.ts:51-53: a concurrent refund request does not
\* initiate the Paystack refund a second time.
RefundInitiatedOnce == \A p \in Payments : refundCalls[p] <= 1
=============================================================================
