------------------------ MODULE BookingPaymentsProofs -----------------------
(***************************************************************************)
(* Proofs about BookingPayments: type correctness, the exactly-once        *)
(* settlement of payments, and the seat admission promised by SeatLedger;  *)
(* and about PaymentEscrow, where payments on the ledger are held: type    *)
(* correctness, the accounting of the contract and of every account, and   *)
(* the fixed terms of an escrow, for any escrows, accounts and amounts.    *)
(***************************************************************************)
EXTENDS BookingPayments, PaymentEscrow

BookingLabels == Labels \ {"idle", "refundCall", "refundMark"}
PaymentLabels ==
    ResolvingLabels \cup
        {"dayPassSave", "initOpen", "initRef", "refundCall", "refundMark"}

\* The ids a handler carries are there when its label uses them, and belong
\* to each other.
CarriesIds(c) ==
    /\ c.pc \in BookingLabels => c.bk \in Bookings
    /\ c.pc \in PaymentLabels => c.pay \in Payments
    /\ c.bk \in Bookings /\ c.pay \in Payments => BookingOf[c.pay] = c.bk

TypeInv == TypeOK /\ \A w \in Workers : CarriesIds(call[w])

\* The empty tables and idle workers are well typed.
LEMMA InitTypeInv == Init => TypeInv
  BY NoneAssumption, InitialSeatsAssumption, MaxRefundCallsAssumption
  DEF Init, TypeInv, TypeOK, CarriesIds, IdleCall, BookingStatus, PaymentStatus,
      Labels, Calls, BookingLabels, PaymentLabels, ResolvingLabels

CallsInv == call \in [Workers -> Calls] /\ \A w \in Workers : CarriesIds(call[w])

\* Entering or leaving a handler step keeps the handlers well-typed.
LEMMA GoCallsInv ==
  ASSUME CallsInv, NEW w \in Workers, NEW l \in Labels,
         NEW b \in Bookings \cup {None}, NEW p \in Payments \cup {None},
         NEW s \in BOOLEAN, Go(w, l, b, p, s),
         CarriesIds([pc |-> l, bk |-> b, pay |-> p, snap |-> s])
  PROVE  CallsInv'
<1> DEFINE c == [pc |-> l, bk |-> b, pay |-> p, snap |-> s]
<1>1. c \in Calls
  BY DEF Calls
<1>2. call' = [call EXCEPT ![w] = c]
  BY DEF Go
<1>3. CarriesIds(c)
  OBVIOUS
<1> HIDE DEF c
<1> QED
  BY <1>1, <1>2, <1>3 DEF CallsInv

\* A handler that goes on to its next await keeps the ids it works on.
LEMMA ContinueCallsInv ==
  ASSUME CallsInv, NEW w \in Workers, NEW l \in Labels, Continue(w, l),
         l \in BookingLabels => call[w].bk \in Bookings,
         l \in PaymentLabels => call[w].pay \in Payments
  PROVE  CallsInv'
<1> DEFINE c == call[w]
<1>1. /\ c.bk \in Bookings \cup {None} /\ c.pay \in Payments \cup {None}
      /\ c.snap \in BOOLEAN
  BY DEF CallsInv, Calls
<1>2. CarriesIds([pc |-> l, bk |-> c.bk, pay |-> c.pay, snap |-> c.snap])
  BY DEF CallsInv, CarriesIds
<1> QED
  BY <1>1, <1>2, GoCallsInv DEF Continue

\* A handler that returns leaves an idle worker, which carries no ids.
LEMMA ReturnCallsInv ==
  ASSUME CallsInv, NEW w \in Workers, Return(w)
  PROVE  CallsInv'
<1>1. IdleCall \in Calls /\ CarriesIds(IdleCall)
  BY NoneAssumption DEF IdleCall, Calls, Labels, CarriesIds, BookingLabels,
     PaymentLabels, ResolvingLabels
<1> QED
  BY <1>1 DEF CallsInv, Return

\* The continuation of a handler whose booking is honoured.
LEMMA HonouredCallsInv ==
  ASSUME CallsInv, NEW w \in Workers, NEW e \in BOOLEAN, Honoured(w, e),
         call[w].bk \in Bookings
  PROVE  CallsInv'
<1> DEFINE b == call[w].bk  p == call[w].pay
<1>1. CASE p = None
  BY <1>1, ReturnCallsInv DEF Honoured
<1>2. CASE p # None
  <2>1. p \in Payments /\ BookingOf[p] = b
    BY <1>2 DEF CallsInv, Calls, CarriesIds
  <2>2. PICK l \in {"escrowCall", "invoice"} : Go(w, l, b, p, e)
    BY <1>2 DEF Honoured
  <2>3. CarriesIds([pc |-> l, bk |-> b, pay |-> p, snap |-> e])
    BY <2>1 DEF CarriesIds
  <2> QED
    BY <2>1, <2>2, <2>3, GoCallsInv DEF Labels
<1> QED
  BY <1>1, <1>2

\* The confirmation goes on to the membership, to what follows an honoured
\* booking, or ends.
LEMMA ConfirmCallsInv ==
  ASSUME CallsInv, NEW w \in Workers, ConfirmUpdate(w), escrowId \in [Bookings -> BOOLEAN]
  PROVE  CallsInv'
<1> DEFINE b == call[w].bk  p == call[w].pay
<1>1. b \in Bookings /\ p \in Payments \cup {None} /\ escrowId[b] \in BOOLEAN
  BY DEF ConfirmUpdate, At, CallsInv, Calls, CarriesIds, BookingLabels
<1>2. CASE Go(w, "activate", b, p, escrowId[b])
  <2>1. CarriesIds([pc |-> "activate", bk |-> b, pay |-> p, snap |-> escrowId[b]])
    BY <1>1 DEF CallsInv, CarriesIds, PaymentLabels, ResolvingLabels
  <2>2. "activate" \in Labels
    BY DEF Labels
  <2> HIDE DEF b, p
  <2> QED
    BY <1>1, <1>2, <2>1, <2>2, GoCallsInv
<1>3. CASE Honoured(w, escrowId[b])
  BY <1>1, <1>3, HonouredCallsInv
<1>4. CASE Return(w)
  BY <1>4, ReturnCallsInv
<1> QED
  BY <1>2, <1>3, <1>4 DEF ConfirmUpdate, ConfirmThrows

\* The escrow call goes on to storing the id or to the invoice.
LEMMA EscrowCallsInv ==
  ASSUME CallsInv, NEW w \in Workers, EscrowCall(w)
  PROVE  CallsInv'
<1>1. call[w].bk \in Bookings /\ call[w].pay \in Payments
  BY DEF EscrowCall, At, CallsInv, Calls, CarriesIds, BookingLabels, PaymentLabels,
     ResolvingLabels
<1>2. PICK l \in {"escrowStore", "invoice"} : Continue(w, l)
  BY DEF EscrowCall
<1>3. l \in Labels
  BY DEF Labels
<1> QED
  BY <1>1, <1>2, <1>3, ContinueCallsInv

\* A handler that stores the escrow id goes on to the invoice.
LEMMA EscrowStoreCallsInv ==
  ASSUME CallsInv, NEW w \in Workers, EscrowStore(w)
  PROVE  CallsInv'
<1>1. call[w].bk \in Bookings /\ call[w].pay \in Payments
  BY DEF EscrowStore, At, CallsInv, Calls, CarriesIds, BookingLabels, PaymentLabels,
     ResolvingLabels
<1>2. Continue(w, "invoice") /\ "invoice" \in Labels
  BY DEF EscrowStore, Labels
<1> QED
  BY <1>1, <1>2, ContinueCallsInv

\* A refund that Paystack accepts is marked next, a refused one ends.
LEMMA RefundCallsInv ==
  ASSUME CallsInv, NEW w \in Workers, RefundCall(w)
  PROVE  CallsInv'
<1>1. call[w].pay \in Payments
  BY DEF RefundCall, At, CallsInv, Calls, CarriesIds, PaymentLabels
<1>2. CASE Continue(w, "refundMark")
  <2>1. "refundMark" \in Labels /\ "refundMark" \notin BookingLabels
    BY DEF Labels, BookingLabels
  <2> QED
    BY <1>1, <1>2, <2>1, ContinueCallsInv
<1>3. CASE Return(w)
  BY <1>3, ReturnCallsInv
<1> QED
  BY <1>2, <1>3 DEF RefundCall

\* The number of refund calls stays within its bound.
LEMMA RefundCallType ==
  ASSUME TypeInv, NEW w \in Workers, RefundCall(w)
  PROVE  refundCalls' \in [Payments -> 0..MaxRefundCalls]
<1> DEFINE p == call[w].pay
<1>1. p \in Payments
  BY DEF RefundCall, At, TypeInv, TypeOK, CarriesIds, PaymentLabels
<1>2. refundCalls \in [Payments -> 0..MaxRefundCalls]
  BY DEF TypeInv, TypeOK
<1>3. CASE refundCalls' = [refundCalls EXCEPT ![p] = @ + 1] /\ refundCalls[p] < MaxRefundCalls
  <2> HIDE DEF p
  <2>1. refundCalls[p] + 1 \in 0..MaxRefundCalls
    BY <1>1, <1>2, <1>3, MaxRefundCallsAssumption
  <2> QED
    BY <1>1, <1>2, <1>3, <2>1
<1>4. CASE UNCHANGED refundCalls
  BY <1>2, <1>4
<1> QED
  BY <1>3, <1>4 DEF RefundCall

\* Every step of a running handler keeps the type invariant.
LEMMA StepTypeInv ==
  ASSUME TypeInv, NEW w \in Workers, Step(w)
  PROVE  TypeInv'
<1> USE NoneAssumption, PaymentsAssumption, OwnerAssumption, MaxRefundCallsAssumption
    DEF TypeInv, TypeOK, CarriesIds, IdleCall, Labels, Calls, BookingLabels,
        PaymentLabels, ResolvingLabels, BookingStatus, PaymentStatus, vars,
        bookingVars, paymentVars, externalVars, At, Go, Continue, Return
<1>1. CASE CreateSave(w)
  BY <1>1 DEF CreateSave
<1>2. CASE DayPassSave(w)
  BY <1>2 DEF DayPassSave
<1>3. CASE CancelSave(w)
  BY <1>3 DEF CancelSave, SaveSnapshot
<1>4. CASE ConfirmUpdate(w)
  <2>1. CallsInv'
    BY <1>4, ConfirmCallsInv DEF CallsInv
  <2>2. call[w].bk \in Bookings
    BY <1>4 DEF ConfirmUpdate
  <2>3. status' \in [Bookings -> BookingStatus]
    BY <1>4, <2>2 DEF ConfirmUpdate
  <2> QED
    BY <1>4, <2>1, <2>3 DEF ConfirmUpdate, CallsInv
<1>5. CASE Activate(w)
  <2>1. CallsInv /\ call[w].bk \in Bookings /\ call[w].snap \in BOOLEAN
    BY <1>5 DEF Activate, CallsInv
  <2>2. CallsInv'
    BY <2>1, <1>5, HonouredCallsInv DEF Activate
  <2>3. members' \subseteq Users
    BY <2>1, <1>5 DEF Activate, ActivateMembershipIfNeeded
  <2> QED
    BY <2>2, <2>3, <1>5 DEF Activate, CallsInv
<1>6. CASE InitializeSave(w)
  <2> DEFINE b == call[w].bk
  <2>1. b \in Bookings /\ CallsInv
    BY <1>6 DEF InitializeSave, CallsInv
  <2>2. CASE FreshPayments(b) = {}
    <3>1. Return(w) /\ UNCHANGED payStatus
      BY <2>2, <1>6 DEF InitializeSave
    <3>2. CallsInv'
      BY <2>1, <3>1, ReturnCallsInv
    <3> QED
      BY <3>1, <3>2, <1>6 DEF InitializeSave, CallsInv
  <2>3. ASSUME NEW p \in FreshPayments(b),
               payStatus' = [payStatus EXCEPT ![p] = "pending"],
               Go(w, "initOpen", b, p, FALSE)
        PROVE  TypeInv'
    <3>1. p \in Payments /\ BookingOf[p] = b
      BY DEF FreshPayments
    <3>2. CarriesIds([pc |-> "initOpen", bk |-> b, pay |-> p, snap |-> FALSE])
      BY <2>1, <3>1
    <3>3. CallsInv'
      BY <2>1, <3>1, <3>2, <2>3, GoCallsInv
    <3> QED
      BY <2>3, <3>1, <3>3, <1>6 DEF InitializeSave, CallsInv
  <2> QED
    BY <2>2, <2>3, <1>6 DEF InitializeSave
<1>7. CASE ReviveSave(w)
  BY <1>7 DEF ReviveSave, SaveSnapshot, ActivateMembershipIfNeeded, Honoured
<1>8. CASE RefundCall(w)
  <2>1. refundCalls' \in [Payments -> 0..MaxRefundCalls]
    BY <1>8, RefundCallType
  <2>2. CallsInv'
    BY <1>8, RefundCallsInv DEF CallsInv
  <2> QED
    BY <1>8, <2>1, <2>2 DEF RefundCall, CallsInv
<1>9. CASE CompleteSave(w)
  BY <1>9 DEF CompleteSave, SaveSnapshot
<1>10. CASE InitializeFindNone(w)
  BY <1>10 DEF InitializeFindNone
<1>11. CASE InitializeOpen(w)
  BY <1>11 DEF InitializeOpen, OpenCheckout
<1>12. CASE InitializeRef(w)
  BY <1>12 DEF InitializeRef
<1>13. ASSUME NEW p \in Payments, InitializeReuse(w, p)
       PROVE  TypeInv'
  BY <1>13 DEF InitializeReuse, OpenCheckout
<1>14. CASE Resolve(w)
  BY <1>14 DEF Resolve
<1>15. CASE ReviveRead(w)
  <2> DEFINE b == call[w].bk  p == call[w].pay
  <2>1. b \in Bookings /\ p \in Payments /\ CallsInv
    BY <1>15 DEF ReviveRead, CallsInv
  <2>2. CASE status[b] = "expired"
    <3>1. CarriesIds([pc |-> "reviveCheck", bk |-> b, pay |-> p, snap |-> escrowId[b]])
      BY <2>1
    <3>2. Go(w, "reviveCheck", b, p, escrowId[b])
      BY <2>2, <1>15 DEF ReviveRead
    <3>3. CallsInv'
      BY <2>1, <3>1, <3>2, GoCallsInv
    <3> QED
      BY <3>3, <1>15 DEF ReviveRead, CallsInv
  <2>3. CASE status[b] = "confirmed"
    <3>1. CallsInv'
      BY <2>1, <2>3, <1>15, HonouredCallsInv DEF ReviveRead
    <3> QED
      BY <3>1, <1>15 DEF ReviveRead, CallsInv
  <2>4. CASE status[b] \notin {"expired", "confirmed"}
    <3>1. CallsInv'
      BY <2>1, <2>4, <1>15, ReturnCallsInv DEF ReviveRead
    <3> QED
      BY <3>1, <1>15 DEF ReviveRead, CallsInv
  <2> QED
    BY <2>2, <2>3, <2>4
<1>16. CASE ReviveCheck(w)
  <2>1. CallsInv /\ call[w].bk \in Bookings /\ call[w].pay \in Payments
    BY <1>16 DEF ReviveCheck, CallsInv
  <2>2. CallsInv'
    <3>1. Continue(w, "reviveSave") \/ Return(w)
      BY <1>16 DEF ReviveCheck
    <3> QED
      BY <2>1, <3>1, ContinueCallsInv, ReturnCallsInv
  <2>3. lock' \in Workers \cup {None}
    BY <1>16 DEF ReviveCheck
  <2> QED
    BY <2>2, <2>3, <1>16 DEF ReviveCheck, CallsInv
<1>17. CASE EscrowCall(w)
  <2>1. CallsInv'
    BY <1>17, EscrowCallsInv DEF CallsInv
  <2>2. onChain' \subseteq Bookings
    BY <1>17 DEF EscrowCall
  <2> QED
    BY <1>17, <2>1, <2>2 DEF EscrowCall, CallsInv
<1>18. CASE EscrowStore(w)
  <2>1. CallsInv'
    BY <1>18, EscrowStoreCallsInv DEF CallsInv
  <2>2. escrowId' \in [Bookings -> BOOLEAN]
    BY <1>18 DEF EscrowStore
  <2> QED
    BY <1>18, <2>1, <2>2 DEF EscrowStore, CallsInv
<1>19. CASE LaunchInvoice(w)
  BY <1>19 DEF LaunchInvoice
<1>20. CASE RefundMark(w)
  BY <1>20 DEF RefundMark
<1> QED
  BY <1>1, <1>2, <1>3, <1>4, <1>5, <1>6, <1>7, <1>8, <1>9, <1>10, <1>11, <1>12,
     <1>13, <1>14, <1>15, <1>16, <1>17, <1>18, <1>19, <1>20 DEF Step

\* Accepting a request keeps the type invariant.
LEMMA RequestTypeInv ==
  ASSUME TypeInv, NEW w \in Workers, Request(w)
  PROVE  TypeInv'
<1> USE NoneAssumption, PaymentsAssumption
    DEF TypeInv, TypeOK, CarriesIds, IdleCall, Labels, Calls, BookingLabels,
        PaymentLabels, ResolvingLabels, BookingStatus, PaymentStatus, vars,
        bookingVars, paymentVars, externalVars, At, Go, Continue, Return
<1>1. ASSUME NEW b \in Bookings, CreateCheck(w, b)
      PROVE  TypeInv'
  BY <1>1 DEF CreateCheck
<1>2. ASSUME NEW b \in Bookings, CancelRead(w, b)
      PROVE  TypeInv'
  BY <1>2 DEF CancelRead
<1>3. ASSUME NEW b \in Bookings, CompleteRead(w, b)
      PROVE  TypeInv'
  BY <1>3 DEF CompleteRead
<1>4. ASSUME NEW b \in Bookings, StaffConfirm(w, b)
      PROVE  TypeInv'
  BY <1>4 DEF StaffConfirm
<1>5. ASSUME NEW b \in Bookings, InitializeRead(w, b)
      PROVE  TypeInv'
  BY <1>5 DEF InitializeRead
<1>6. ASSUME NEW p \in Payments, DayPassCheck(w, p)
      PROVE  TypeInv'
  BY <1>6 DEF DayPassCheck
<1>7. ASSUME NEW p \in Payments, ChargeSuccess(w, p)
      PROVE  TypeInv'
  BY <1>7 DEF ChargeSuccess
<1>8. ASSUME NEW p \in Payments, RefundRead(w, p)
      PROVE  TypeInv'
  BY <1>8 DEF RefundRead
<1> QED
  BY <1>1, <1>2, <1>3, <1>4, <1>5, <1>6, <1>7, <1>8 DEF Request

\* The sweep, the charge.failed webhook, the workspace form and the environment
\* keep the type invariant.
LEMMA EnvironmentTypeInv ==
  ASSUME TypeInv, Environment
  PROVE  TypeInv'
<1> USE SeatChoicesAssumption
    DEF TypeInv, TypeOK, BookingStatus, PaymentStatus, vars, bookingVars,
        paymentVars, externalVars
<1>1. ASSUME NEW b \in Bookings, DeadlinePasses(b)
      PROVE  TypeInv'
  BY <1>1 DEF DeadlinePasses
<1>2. ASSUME NEW p \in Payments, ChargeFailed(p)
      PROVE  TypeInv'
  BY <1>2 DEF ChargeFailed
<1>3. ASSUME NEW p \in Payments, CustomerPays(p) \/ AttemptDeclined(p)
      PROVE  TypeInv'
  BY <1>3 DEF CustomerPays, AttemptDeclined
<1>4. ASSUME NEW n \in SeatChoices, UpdateWorkspace(n)
      PROVE  TypeInv'
  BY <1>4 DEF UpdateWorkspace
<1>5. ASSUME NEW plan \in Plans, SweepSelect(plan)
      PROVE  TypeInv'
  BY <1>5 DEF SweepSelect
<1>6. CASE SweepExpire
  BY <1>6 DEF SweepExpire, StillOverdue
<1>7. CASE SweepAbort
  BY <1>7 DEF SweepAbort
<1> QED
  BY <1>1, <1>2, <1>3, <1>4, <1>5, <1>6, <1>7 DEF Environment

\* A handler that dies keeps the type invariant.
LEMMA FailTypeInv ==
  ASSUME TypeInv, NEW w \in Workers, HandlerFails(w)
  PROVE  TypeInv'
<1>1. CallsInv'
  BY ReturnCallsInv DEF TypeInv, TypeOK, CallsInv, HandlerFails
<1>2. lock' \in Workers \cup {None}
  BY DEF TypeInv, TypeOK, HandlerFails
<1> QED
  BY <1>1, <1>2 DEF HandlerFails, TypeInv, TypeOK, CallsInv, bookingVars,
     paymentVars, externalVars

\* Every step, of a handler, of a remote service or a failure, preserves the types.
LEMMA NextTypeInv == TypeInv /\ [Next]_vars => TypeInv'
<1> SUFFICES ASSUME TypeInv, [Next]_vars
             PROVE  TypeInv'
  OBVIOUS
<1>1. CASE Next
  BY <1>1, StepTypeInv, RequestTypeInv, FailTypeInv, EnvironmentTypeInv DEF Next
<1>2. CASE UNCHANGED vars
  BY <1>2 DEF vars, bookingVars, paymentVars, externalVars, TypeInv, TypeOK,
     CarriesIds
<1> QED
  BY <1>1, <1>2

\* The type invariant holds in every reachable state, for any bookings,
\* payments and number of concurrent handlers.
THEOREM TypeCorrect == Spec => []TypeOK
<1>1. TypeInv => TypeOK
  BY DEF TypeInv
<1> QED
  BY <1>1, InitTypeInv, NextTypeInv, PTL DEF Spec

-----------------------------------------------------------------------------
\* Settlement.  A handler of initialize works on a row without reference, which
\* no webhook can find and so no charge can settle: that is what keeps its
\* second, unconditional save from overwriting SUCCESS.

SaveLabels == {"createSave", "dayPassSave", "reviveSave"}
InitLabels == {"initOpen", "initRef"}
MemberLabels == InitLabels \cup {"initFind", "initSave"}
RefundLabels == {"refundCall", "refundMark"}
Resolving(c) ==
    c.pay \in Payments /\ c.pc \in ResolvingLabels \cup {"confirm", "activate"}

\* What the handler w may rely on about the rows it works on.
HandlerSound(w) ==
    /\ call[w].pc \in SaveLabels => lock = w
    /\ call[w].pc \in MemberLabels => Owner[call[w].bk] # None
    /\ call[w].pc \in InitLabels =>
          payStatus[call[w].pay] \in {"pending", "failed"} /\ ~payRef[call[w].pay]
    /\ call[w].pc = "dayPassSave" =>
          Owner[call[w].bk] = None /\ payStatus[call[w].pay] = "none"
    /\ call[w].pc \in RefundLabels => Settled(call[w].pay)
    /\ Resolving(call[w]) => Settled(call[w].pay)

\* No two handlers work on the same payment in the same role.
HandlersApart(v, w) ==
    v # w /\ call[v].pay = call[w].pay =>
        /\ ~(call[v].pc \in InitLabels /\ call[w].pc \in InitLabels)
        /\ ~(Resolving(call[v]) /\ Resolving(call[w]))

PaymentSound(p) ==
    /\ payRef[p] => payStatus[p] # "none"
    /\ Settled(p) => charge[p] = "paid"
    /\ refundCalls[p] > 0 => Settled(p)

SettleInv ==
    /\ TypeInv
    /\ \A w \in Workers : HandlerSound(w)
    /\ \A v, w \in Workers : HandlersApart(v, w)
    /\ \A p \in Payments : PaymentSound(p)

\* Initially no handler runs, so that no two can meet on one payment.
LEMMA InitSettleInv == Init => SettleInv
<1> SUFFICES ASSUME Init PROVE SettleInv
  OBVIOUS
<1>1. TypeInv
  BY InitTypeInv
<1> QED
  BY <1>1, NoneAssumption
  DEF Init, SettleInv, HandlerSound, HandlersApart, PaymentSound, IdleCall,
      SaveLabels, InitLabels, MemberLabels, RefundLabels, Resolving,
      ResolvingLabels, Settled

\* Every step of a running handler keeps the settlement invariant.
LEMMA StepSettleInv ==
  ASSUME SettleInv, NEW w \in Workers, Step(w)
  PROVE  SettleInv'
<1>0. TypeInv'
  BY StepTypeInv DEF SettleInv
<1> USE <1>0 DEF SettleInv, HandlerSound, HandlersApart, PaymentSound, IdleCall,
      SaveLabels, InitLabels, MemberLabels, RefundLabels, Resolving,
      ResolvingLabels, Settled, TypeInv, TypeOK, CarriesIds, Labels, Calls,
      BookingLabels, PaymentLabels, At, Go, Continue, Return,
      bookingVars, paymentVars, externalVars
<1>1. CASE CreateSave(w)
  BY <1>1 DEF CreateSave
<1>2. CASE DayPassSave(w)
  BY <1>2 DEF DayPassSave
<1>3. CASE CancelSave(w)
  BY <1>3 DEF CancelSave, SaveSnapshot
<1>4. CASE CompleteSave(w)
  BY <1>4 DEF CompleteSave, SaveSnapshot
<1>5. CASE ConfirmUpdate(w)
  <2> DEFINE b == call[w].bk
  <2>0. call[w].pc = "confirm" /\ UNCHANGED <<lock, payStatus, payRef, charge, refundCalls>>
    BY <1>5 DEF ConfirmUpdate
  <2>1. CASE Go(w, "activate", b, call[w].pay, escrowId[b])
    BY <2>0, <2>1
  <2>2. CASE Honoured(w, escrowId[b])
    <3>1. CASE Return(w)
      BY <2>0, <3>1
    <3>2. CASE \E l \in {"escrowCall", "invoice"} : Go(w, l, b, call[w].pay, escrowId[b])
      BY <2>0, <3>2
    <3> QED
      BY <2>2, <3>1, <3>2 DEF Honoured
  <2>3. CASE Return(w)
    BY <2>0, <2>3
  <2> QED
    BY <1>5, <2>1, <2>2, <2>3 DEF ConfirmUpdate, ConfirmThrows
<1>6. CASE Activate(w)
  <2> DEFINE b == call[w].bk
  <2>0. call[w].pc = "activate" /\ UNCHANGED <<lock, payStatus, payRef, charge, refundCalls>>
    BY <1>6 DEF Activate
  <2>1. CASE Return(w)
    BY <2>0, <2>1
  <2>2. CASE \E l \in {"escrowCall", "invoice"} : Go(w, l, b, call[w].pay, call[w].snap)
    BY <2>0, <2>2
  <2> QED
    BY <1>6, <2>1, <2>2 DEF Activate, Honoured
<1>7. CASE InitializeFindNone(w)
  BY <1>7 DEF InitializeFindNone
<1>8. CASE InitializeSave(w)
  <2>1. CASE \E p \in FreshPayments(call[w].bk) :
               /\ payStatus' = [payStatus EXCEPT ![p] = "pending"]
               /\ Go(w, "initOpen", call[w].bk, p, FALSE)
    <3>1. PICK p \in FreshPayments(call[w].bk) :
               /\ payStatus' = [payStatus EXCEPT ![p] = "pending"]
               /\ Go(w, "initOpen", call[w].bk, p, FALSE)
      BY <2>1
    <3>2. /\ p \in Payments /\ payStatus[p] = "none" /\ ~payRef[p]
          /\ BookingOf[p] = call[w].bk
      BY DEF FreshPayments
    <3>3. /\ call[w].pc = "initSave"
          /\ UNCHANGED <<lock, payRef, charge, refundCalls>>
      BY <1>8 DEF InitializeSave
    <3>4. \A v \in Workers : HandlerSound(v)'
      BY <3>1, <3>2, <3>3
    <3>5. \A u, v \in Workers : HandlersApart(u, v)'
      BY <3>1, <3>2, <3>3
    <3> QED
      BY <3>1, <3>2, <3>3, <3>4, <3>5
  <2>2. CASE Return(w) /\ UNCHANGED payStatus
    BY <1>8, <2>2 DEF InitializeSave
  <2> QED
    BY <1>8, <2>1, <2>2 DEF InitializeSave
<1>9. CASE InitializeOpen(w)
  BY <1>9 DEF InitializeOpen, OpenCheckout
<1>10. CASE InitializeRef(w)
  BY <1>10 DEF InitializeRef
<1>11. CASE Resolve(w)
  BY <1>11 DEF Resolve
<1>12. CASE ReviveRead(w)
  <2> DEFINE b == call[w].bk
  <2>0. call[w].pc = "reviveRead" /\ UNCHANGED <<lock, payStatus, payRef, charge, refundCalls>>
    BY <1>12 DEF ReviveRead
  <2>1. CASE Go(w, "reviveCheck", b, call[w].pay, escrowId[b])
    BY <2>0, <2>1
  <2>2. CASE Honoured(w, escrowId[b])
    <3>1. CASE Return(w)
      BY <2>0, <3>1
    <3>2. CASE \E l \in {"escrowCall", "invoice"} : Go(w, l, b, call[w].pay, escrowId[b])
      <4> PICK l \in {"escrowCall", "invoice"} : Go(w, l, b, call[w].pay, escrowId[b])
        BY <3>2
      <4>1. CASE l = "escrowCall"
        BY <2>0, <4>1
      <4>2. CASE l = "invoice"
        BY <2>0, <4>2
      <4> QED
        BY <4>1, <4>2
    <3> QED
      BY <2>2, <3>1, <3>2 DEF Honoured
  <2>3. CASE Return(w)
    BY <2>0, <2>3
  <2> QED
    BY <1>12, <2>1, <2>2, <2>3 DEF ReviveRead
<1>13. CASE ReviveCheck(w)
  <2>0. /\ call[w].pc = "reviveCheck" /\ lock = None
        /\ UNCHANGED <<payStatus, payRef, charge, refundCalls>>
    BY <1>13 DEF ReviveCheck, WorkspaceRowFree
  <2>1. CASE lock' = w /\ Continue(w, "reviveSave")
    BY <2>0, <2>1, NoneAssumption
  <2>2. CASE Return(w) /\ UNCHANGED lock
    BY <2>0, <2>2
  <2> QED
    BY <1>13, <2>1, <2>2 DEF ReviveCheck
<1>14. CASE ReviveSave(w)
  <2> DEFINE b == call[w].bk
  <2>0. /\ call[w].pc = "reviveSave" /\ lock' = None
        /\ UNCHANGED <<payStatus, payRef, charge, refundCalls>>
    BY <1>14 DEF ReviveSave
  <2>1. CASE Return(w)
    BY <2>0, <2>1
  <2>2. CASE \E l \in {"escrowCall", "invoice"} : Go(w, l, b, call[w].pay, call[w].snap)
    BY <2>0, <2>2
  <2> QED
    BY <1>14, <2>1, <2>2 DEF ReviveSave, Honoured
<1>15. CASE EscrowCall(w)
  <2>0. /\ call[w].pc = "escrowCall"
        /\ UNCHANGED <<lock, payStatus, payRef, charge, refundCalls>>
    BY <1>15 DEF EscrowCall
  <2>1. PICK l \in {"escrowStore", "invoice"} : Continue(w, l)
    BY <1>15 DEF EscrowCall
  <2> QED
    BY <2>0, <2>1
<1>16. CASE EscrowStore(w)
  BY <1>16 DEF EscrowStore
<1>17. CASE LaunchInvoice(w)
  BY <1>17 DEF LaunchInvoice
<1>18. CASE RefundCall(w)
  <2> DEFINE p == call[w].pay
  <2>0. call[w].pc = "refundCall" /\ UNCHANGED <<lock, payStatus, payRef, charge>>
    BY <1>18 DEF RefundCall
  <2>1. CASE refundCalls' = [refundCalls EXCEPT ![p] = @ + 1] /\ Continue(w, "refundMark")
    BY <2>0, <2>1
  <2>2. CASE Return(w) /\ UNCHANGED refundCalls
    BY <2>0, <2>2
  <2> QED
    BY <1>18, <2>1, <2>2 DEF RefundCall
<1>19. CASE RefundMark(w)
  BY <1>19 DEF RefundMark
<1>20. ASSUME NEW p \in Payments, InitializeReuse(w, p)
      PROVE  SettleInv'
  BY <1>20 DEF InitializeReuse, OpenCheckout
<1> QED
  BY <1>1, <1>2, <1>3, <1>4, <1>5, <1>6, <1>7, <1>8, <1>9, <1>10, <1>11, <1>12, <1>13, <1>14, <1>15, <1>16, <1>17, <1>18, <1>19, <1>20 DEF Step

\* A request that starts a handler keeps the settlement invariant: the webhook
\* finds a payment PENDING only while nobody resolves it.
LEMMA RequestSettleInv ==
  ASSUME SettleInv, NEW w \in Workers, Request(w)
  PROVE  SettleInv'
<1>0. TypeInv'
  BY RequestTypeInv DEF SettleInv
<1> USE <1>0, NoneAssumption DEF SettleInv, HandlerSound, HandlersApart, PaymentSound,
      SaveLabels, InitLabels, MemberLabels, RefundLabels, Resolving,
      ResolvingLabels, Settled, TypeInv, TypeOK, CarriesIds, Labels, Calls,
      BookingLabels, PaymentLabels, At, Go,
      bookingVars, paymentVars, externalVars
<1>1. ASSUME NEW b \in Bookings, CreateCheck(w, b)
      PROVE  SettleInv'
  BY <1>1 DEF CreateCheck, WorkspaceRowFree
<1>2. ASSUME NEW b \in Bookings, CancelRead(w, b) \/ CompleteRead(w, b)
      PROVE  SettleInv'
  BY <1>2 DEF CancelRead, CompleteRead
<1>3. ASSUME NEW b \in Bookings, StaffConfirm(w, b) \/ InitializeRead(w, b)
      PROVE  SettleInv'
  <2>0. UNCHANGED <<lock, payStatus, payRef, charge, refundCalls>>
    BY <1>3 DEF StaffConfirm, InitializeRead
  <2>1. CASE Go(w, "confirm", b, None, FALSE)
    BY <2>0, <2>1
  <2>2. CASE Owner[b] # None /\ Go(w, "initFind", b, None, FALSE)
    BY <2>0, <2>2
  <2> QED
    BY <1>3, <2>1, <2>2 DEF StaffConfirm, InitializeRead
<1>4. ASSUME NEW p \in Payments, DayPassCheck(w, p)
      PROVE  SettleInv'
  BY <1>4 DEF DayPassCheck, WorkspaceRowFree
<1>5. ASSUME NEW p \in Payments, ChargeSuccess(w, p)
      PROVE  SettleInv'
  <2>0. /\ call[w].pc = "idle" /\ charge[p] = "paid" /\ payRef[p] /\ payStatus[p] = "pending"
        /\ payStatus' = [payStatus EXCEPT ![p] = "success"]
        /\ Go(w, "resolve", BookingOf[p], p, FALSE)
        /\ UNCHANGED <<lock, payRef, charge, refundCalls>>
    BY <1>5 DEF ChargeSuccess, SuccessApplies
  <2>1. \A v \in Workers : HandlerSound(v)'
    BY <2>0
  <2>2. \A u, v \in Workers : HandlersApart(u, v)'
    BY <2>0
  <2>3. \A q \in Payments : PaymentSound(q)'
    BY <2>0
  <2> QED
    BY <2>1, <2>2, <2>3
<1>6. ASSUME NEW p \in Payments, RefundRead(w, p)
      PROVE  SettleInv'
  BY <1>6 DEF RefundRead, Refundable
<1> QED
  BY <1>1, <1>2, <1>3, <1>4, <1>5, <1>6 DEF Request

\* Neither the sweep nor Paystack nor an administrator disturbs it.
LEMMA EnvironmentSettleInv ==
  ASSUME SettleInv, Environment
  PROVE  SettleInv'
<1>0. TypeInv'
  BY EnvironmentTypeInv DEF SettleInv
<1> USE <1>0 DEF SettleInv, HandlerSound, HandlersApart, PaymentSound,
      SaveLabels, InitLabels, MemberLabels, RefundLabels, Resolving,
      ResolvingLabels, Settled, TypeInv, TypeOK, CarriesIds, Labels, Calls,
      BookingLabels, PaymentLabels, bookingVars, paymentVars, externalVars
<1>1. ASSUME NEW b \in Bookings, DeadlinePasses(b)
      PROVE  SettleInv'
  BY <1>1 DEF DeadlinePasses
<1>2. ASSUME NEW p \in Payments, ChargeFailed(p)
      PROVE  SettleInv'
  BY <1>2 DEF ChargeFailed, FailureApplies
<1>3. ASSUME NEW p \in Payments, CustomerPays(p)
      PROVE  SettleInv'
  BY <1>3 DEF CustomerPays
<1>4. ASSUME NEW p \in Payments, AttemptDeclined(p)
      PROVE  SettleInv'
  BY <1>4 DEF AttemptDeclined
<1>5. ASSUME NEW n \in SeatChoices, UpdateWorkspace(n)
      PROVE  SettleInv'
  BY <1>5 DEF UpdateWorkspace
<1>6. ASSUME NEW plan \in Plans, SweepSelect(plan)
      PROVE  SettleInv'
  BY <1>6 DEF SweepSelect
<1>7. CASE SweepExpire
  BY <1>7 DEF SweepExpire
<1>8. CASE SweepAbort
  BY <1>8 DEF SweepAbort
<1> QED
  BY <1>1, <1>2, <1>3, <1>4, <1>5, <1>6, <1>7, <1>8 DEF Environment

\* A handler that dies keeps the settlement invariant.
LEMMA FailSettleInv ==
  ASSUME SettleInv, NEW w \in Workers, HandlerFails(w)
  PROVE  SettleInv'
<1>1. TypeInv'
  BY FailTypeInv DEF SettleInv
<1> QED
  BY <1>1, NoneAssumption
  DEF SettleInv, HandlerSound, HandlersApart, PaymentSound, IdleCall,
      SaveLabels, InitLabels, MemberLabels, RefundLabels, Resolving,
      ResolvingLabels, Settled, TypeInv, TypeOK, CarriesIds, Labels, Calls,
      BookingLabels, PaymentLabels, HandlerFails, At, Return,
      bookingVars, paymentVars, externalVars

\* The settlement invariant is inductive.
LEMMA NextSettleInv == SettleInv /\ [Next]_vars => SettleInv'
<1> SUFFICES ASSUME SettleInv, [Next]_vars
             PROVE  SettleInv'
  OBVIOUS
<1>1. CASE Next
  BY <1>1, StepSettleInv, RequestSettleInv, FailSettleInv, EnvironmentSettleInv
  DEF Next
<1>2. CASE UNCHANGED vars
  <2>1. TypeInv'
    BY NextTypeInv DEF SettleInv
  <2> QED
    BY <1>2, <2>1 DEF vars, bookingVars, paymentVars, externalVars, SettleInv,
       HandlerSound, HandlersApart, PaymentSound, Resolving, Settled
<1> QED
  BY <1>1, <1>2

\* The settlement invariant holds in every reachable state.
LEMMA SettleInvAlways == Spec => []SettleInv
  BY InitSettleInv, NextSettleInv, PTL DEF Spec

\* One resolution per payment, only once it is settled: for every number of
\* concurrent deliveries and handlers.
THEOREM DeliveryResolvesOnce == Spec => []OneDeliveryResolves
<1>1. SettleInv => OneDeliveryResolves
  BY DEF SettleInv, HandlerSound, HandlersApart, OneDeliveryResolves, Resolves,
     Resolving, ResolvingLabels
<1> QED
  BY <1>1, SettleInvAlways, PTL

\* Refunds are only requested for captured and recorded money.
THEOREM RefundsAreCaptured == Spec => []RefundOnlyCaptured
<1>1. SettleInv => RefundOnlyCaptured
  BY DEF SettleInv, PaymentSound, RefundOnlyCaptured
<1> QED
  BY <1>1, SettleInvAlways, PTL

\* One delivery resolves a payment, and refunds follow captured money.
THEOREM PaymentsMoveOnce == Spec => []MoneyMovesOnce
<1>1. OneDeliveryResolves /\ RefundOnlyCaptured => MoneyMovesOnce
  BY DEF MoneyMovesOnce
<1> QED
  BY <1>1, DeliveryResolvesOnce, RefundsAreCaptured, PTL

Monotone(p) ==
    /\ payStatus[p] = "success" => payStatus'[p] \in {"success", "refunded"}
    /\ payStatus[p] = "refunded" => payStatus'[p] = "refunded"

\* No step takes a payment back from SUCCESS or REFUNDED.
LEMMA NextMonotone ==
  ASSUME SettleInv, [Next]_vars, NEW p \in Payments
  PROVE  Monotone(p)
<1> USE DEF Monotone, SettleInv, TypeInv, TypeOK, bookingVars, paymentVars, externalVars
<1>1. CASE UNCHANGED vars
  BY <1>1 DEF vars
<1>2. ASSUME NEW w \in Workers, Step(w)
      PROVE  Monotone(p)
  <2>1. CASE DayPassSave(w)
    BY <2>1 DEF DayPassSave, HandlerSound, At
  <2>2. CASE InitializeSave(w)
    BY <2>2 DEF InitializeSave, FreshPayments
  <2>3. CASE InitializeRef(w)
    BY <2>3 DEF InitializeRef, HandlerSound, InitLabels, At
  <2>4. CASE RefundMark(w)
    BY <2>4 DEF RefundMark
  <2>5. CASE UNCHANGED payStatus
    BY <2>5
  <2> QED
    BY <1>2, <2>1, <2>2, <2>3, <2>4, <2>5
    DEF Step, CreateSave, CancelSave, CompleteSave, ConfirmUpdate, Activate,
        InitializeFindNone, InitializeOpen, InitializeReuse, Resolve, ReviveRead,
        ReviveCheck, ReviveSave, EscrowCall, EscrowStore, LaunchInvoice, RefundCall
<1>3. ASSUME NEW w \in Workers, Request(w)
      PROVE  Monotone(p)
  BY <1>3 DEF Request, CreateCheck, CancelRead, CompleteRead, StaffConfirm,
     InitializeRead, DayPassCheck, ChargeSuccess, SuccessApplies, RefundRead
<1>4. ASSUME NEW w \in Workers, HandlerFails(w)
      PROVE  Monotone(p)
  BY <1>4 DEF HandlerFails
<1>5. CASE Environment
  BY <1>5 DEF Environment, DeadlinePasses, ChargeFailed, FailureApplies,
     CustomerPays, AttemptDeclined, UpdateWorkspace, SweepSelect, SweepExpire,
     SweepAbort
<1> QED
  BY <1>1, <1>2, <1>3, <1>4, <1>5 DEF Next

\* A settled payment never reverts, whatever late charge.failed events, sweeps,
\* redeliveries and stale saves of initialize do.
THEOREM SettlementIsFinal == Spec => SettledNeverReverts
<1>1. SettleInv /\ [Next]_vars =>
        [\A p \in Payments :
          /\ payStatus[p] = "success" => payStatus'[p] \in {"success", "refunded"}
          /\ payStatus[p] = "refunded" => payStatus'[p] = "refunded"]_vars
  BY NextMonotone DEF Monotone
<1> QED
  BY <1>1, SettleInvAlways, PTL DEF Spec, SettledNeverReverts

-----------------------------------------------------------------------------
\* The seat sum: facts for every set of bookings.

\* A seat sum is a natural number.
LEMMA BookedSeatsType ==
  ASSUME NEW B, B \subseteq Bookings
  PROVE  BookedSeats(B) \in Nat
<1>1. IsFiniteSet(B)
  BY BookingsFinite, FS_Subset
<1> QED
  BY <1>1, TotalType, SeatCountAssumption DEF BookedSeats

\* Fewer bookings never ask for more seats.
LEMMA BookedSeatsMonotone ==
  ASSUME NEW A, NEW B, A \subseteq B, B \subseteq Bookings
  PROVE  BookedSeats(A) <= BookedSeats(B)
<1>1. IsFiniteSet(B) /\ \A b \in B : SeatCount[b] \in Nat
  BY BookingsFinite, FS_Subset, SeatCountAssumption
<1> QED
  BY <1>1, TotalMonotone DEF BookedSeats

\* One more booking asks for at most its own seat count more.
LEMMA BookedSeatsAdd ==
  ASSUME NEW B, B \subseteq Bookings, NEW b \in Bookings
  PROVE  BookedSeats(B \cup {b}) <= BookedSeats(B) + SeatCount[b]
<1>1. IsFiniteSet(B) /\ \A c \in B \cup {b} : SeatCount[c] \in Nat
  BY BookingsFinite, FS_Subset, SeatCountAssumption
<1>2. Total(B, SeatCount) \in Nat /\ SeatCount[b] \in Nat
  BY <1>1, TotalType
<1>3. CASE b \in B
  <2>1. B \cup {b} = B
    BY <1>3
  <2> QED
    BY <1>2, <2>1 DEF BookedSeats
<1>4. CASE b \notin B
  <2>1. Total(B \cup {b}, SeatCount) = Total(B, SeatCount) + SeatCount[b]
    BY <1>1, <1>4, TotalAdd
  <2> QED
    BY <1>2, <2>1 DEF BookedSeats
<1> QED
  BY <1>3, <1>4

\* The check over all bookings that overlap the window of b is at least as
\* strict as a check day by day.
LEMMA FitsEveryDay ==
  ASSUME NEW B, B \subseteq Bookings, NEW b \in Bookings, NEW n \in Nat,
         BookedSeats(Overlapping(B, b) \ {b}) + SeatCount[b] <= n,
         NEW d \in Days(b)
  PROVE  BookedSeats(On(B \cup {b}, d)) <= n
<1> DEFINE O == Overlapping(B, b) \ {b}
<1>1. O \subseteq Bookings
  BY DEF Overlapping
<1>2. On(B \cup {b}, d) \subseteq O \cup {b}
  <2> SUFFICES ASSUME NEW a \in B, a # b, d \in Days(a)
               PROVE  a \in O
    BY DEF On
  <2>1. /\ StartDate[a] \in Int /\ EndDate[a] \in Int
        /\ StartDate[b] \in Int /\ EndDate[b] \in Int
    BY WindowAssumption
  <2> QED
    BY <2>1 DEF Overlapping, Days
<1>3. BookedSeats(On(B \cup {b}, d)) <= BookedSeats(O \cup {b})
  BY <1>1, <1>2, BookedSeatsMonotone
<1>4. BookedSeats(O \cup {b}) <= BookedSeats(O) + SeatCount[b]
  BY <1>1, BookedSeatsAdd
<1>5. /\ BookedSeats(O) \in Nat /\ BookedSeats(O \cup {b}) \in Nat
      /\ BookedSeats(On(B \cup {b}, d)) \in Nat /\ SeatCount[b] \in Nat
  BY <1>1, <1>2, BookedSeatsType, SeatCountAssumption
<1>6. BookedSeats(O) + SeatCount[b] <= n
  OBVIOUS
<1> HIDE DEF O
<1> QED
  BY <1>3, <1>4, <1>5, <1>6

-----------------------------------------------------------------------------
\* Seats: a capacity check made under the workspace lock is still true when
\* its booking is saved, so that the locked check-then-save implements the
\* one-step admission of SeatLedger.

ReadLabels == {"cancelSave", "completeSave"}

\* What a handler may rely on between its capacity check, or its read of an
\* existing row, and its save.
SeatSound(w) ==
    /\ call[w].pc \in {"createSave", "dayPassSave"} => status[call[w].bk] = "none"
    /\ call[w].pc \in ReadLabels => status[call[w].bk] # "none"
    /\ call[w].pc \in SaveLabels => Fits(call[w].bk)

SeatInv == SettleInv /\ \A w \in Workers : SeatSound(w)

\* A step that admits nobody, resizes nothing and starts no save.
Quiet ==
    /\ Holders' \subseteq Holders
    /\ UNCHANGED totalSeats
    /\ \A b \in Bookings : status'[b] = "none" <=> status[b] = "none"
    /\ \A v \in Workers : \/ call'[v] = call[v]
                          \/ call'[v].pc \notin SaveLabels \cup ReadLabels

Saves(w) == CreateSave(w) \/ DayPassSave(w) \/ ReviveSave(w)
Checks(w) ==
    \/ \E b \in Bookings : CreateCheck(w, b) \/ CancelRead(w, b) \/ CompleteRead(w, b)
    \/ \E p \in Payments : DayPassCheck(w, p)
    \/ ReviveCheck(w)

\* A passed check stays true while bookings only leave and nobody resizes.
LEMMA FitsKept ==
  ASSUME TypeOK, NEW b \in Bookings, Fits(b),
         Holders' \subseteq Holders, totalSeats' = totalSeats
  PROVE  Fits(b)'
<1> DEFINE A == Overlapping(Holders', b) \ {b}
           B == Overlapping(Holders, b) \ {b}
<1>1. A \subseteq B /\ B \subseteq Bookings
  BY DEF Overlapping, Holders
<1>2. BookedSeats(A) <= BookedSeats(B)
  BY <1>1, BookedSeatsMonotone
<1>3. /\ BookedSeats(A) \in Nat /\ BookedSeats(B) \in Nat
      /\ SeatCount[b] \in Nat /\ totalSeats \in Nat
  BY <1>1, BookedSeatsType, SeatCountAssumption DEF TypeOK
<1>4. BookedSeats(B) + SeatCount[b] <= totalSeats
  BY DEF Fits
<1> HIDE DEF A, B
<1>5. BookedSeats(A) + SeatCount[b] <= totalSeats'
  BY <1>2, <1>3, <1>4
<1> QED
  BY <1>5 DEF A, Fits

\* Every other step is quiet.
LEMMA StepQuiet ==
  ASSUME SeatInv, NEW w \in Workers, Step(w)
  PROVE  Quiet \/ Saves(w) \/ Checks(w)
<1> USE DEF SeatInv, SettleInv, TypeInv, TypeOK, Quiet, Holders, SaveLabels,
       ReadLabels, Go, Continue, Return, IdleCall, At, bookingVars, paymentVars,
       externalVars
<1>1. CASE CancelSave(w)
  BY <1>1 DEF CancelSave, SaveSnapshot, SeatSound
<1>2. CASE CompleteSave(w)
  BY <1>2 DEF CompleteSave, SaveSnapshot, SeatSound
<1>3. CASE ConfirmUpdate(w)
  <2>1. \/ call' = [call EXCEPT ![w] = IdleCall]
        \/ \E l \in {"activate", "escrowCall", "invoice"} :
              call'[w].pc = l /\ \A v \in Workers \ {w} : call'[v] = call[v]
    BY <1>3 DEF ConfirmUpdate, ConfirmThrows, Honoured
  <2>2. \A v \in Workers : \/ call'[v] = call[v]
                           \/ call'[v].pc \notin SaveLabels \cup ReadLabels
    BY <2>1
  <2>3. UNCHANGED totalSeats /\
        \/ status[call[w].bk] = "pending" /\ status' = [status EXCEPT ![call[w].bk] = "confirmed"]
        \/ UNCHANGED status
    BY <1>3 DEF ConfirmUpdate
  <2> QED
    BY <2>2, <2>3
<1>4. CASE UNCHANGED <<status, totalSeats>>
  <2>1. ASSUME ~Checks(w)
        PROVE  \A v \in Workers : \/ call'[v] = call[v]
                                  \/ call'[v].pc \notin SaveLabels \cup ReadLabels
    <3>1. CASE Activate(w) \/ ReviveRead(w)
      BY <3>1 DEF Activate, ReviveRead, Honoured
    <3>2. CASE InitializeFindNone(w) \/ InitializeOpen(w) \/ InitializeRef(w)
      BY <3>2 DEF InitializeFindNone, InitializeOpen, InitializeRef
    <3>3. CASE InitializeSave(w)
      BY <3>3 DEF InitializeSave
    <3>4. CASE \E p \in Payments : InitializeReuse(w, p)
      BY <3>4 DEF InitializeReuse
    <3>5. CASE Resolve(w) \/ EscrowCall(w) \/ EscrowStore(w) \/ LaunchInvoice(w)
      BY <3>5 DEF Resolve, EscrowCall, EscrowStore, LaunchInvoice
    <3>6. CASE RefundCall(w) \/ RefundMark(w)
      BY <3>6 DEF RefundCall, RefundMark
    <3>7. CASE CreateSave(w) \/ DayPassSave(w) \/ CancelSave(w) \/ CompleteSave(w) \/ ReviveSave(w)
      BY <3>7 DEF CreateSave, DayPassSave, CancelSave, CompleteSave, ReviveSave, Honoured
    <3>8. CASE ConfirmUpdate(w)
      BY <3>8 DEF ConfirmUpdate, ConfirmThrows, Honoured
    <3> QED
      BY <2>1, <3>1, <3>2, <3>3, <3>4, <3>5, <3>6, <3>7, <3>8 DEF Step, Checks
  <2> QED
    BY <1>4, <2>1
<1> QED
  BY <1>1, <1>2, <1>3, <1>4
  DEF Step, Saves, Checks, Activate, InitializeFindNone, InitializeSave,
      InitializeOpen, InitializeRef, InitializeReuse, Resolve, ReviveRead,
      EscrowCall, EscrowStore, LaunchInvoice, RefundCall, RefundMark

\* So is every request that does not check seats or read a row to save it, and
\* everything outside the handlers but a resize.
LEMMA OtherQuiet ==
  ASSUME SeatInv, [Next]_vars
  PROVE  \/ Quiet
         \/ \E w \in Workers : Saves(w) \/ Checks(w)
         \/ \E n \in SeatChoices : UpdateWorkspace(n)
<1> USE DEF SeatInv, SettleInv, TypeInv, TypeOK, Quiet, Holders, SaveLabels,
       ReadLabels, Go, Return, IdleCall, bookingVars, paymentVars, externalVars
<1>1. CASE UNCHANGED vars
  BY <1>1 DEF vars
<1>2. ASSUME NEW w \in Workers, Request(w)
      PROVE  Quiet \/ Checks(w)
  BY <1>2 DEF Request, Checks, StaffConfirm, InitializeRead, ChargeSuccess, RefundRead
<1>3. ASSUME NEW w \in Workers, HandlerFails(w)
      PROVE  Quiet
  BY <1>3 DEF HandlerFails
<1>4. ASSUME Environment, ~ \E n \in SeatChoices : UpdateWorkspace(n)
      PROVE  Quiet
  <2>1. CASE SweepExpire
    BY <2>1 DEF SweepExpire, StillOverdue
  <2>2. CASE UNCHANGED <<status, totalSeats, call>>
    BY <2>2
  <2> QED
    BY <1>4, <2>1, <2>2 DEF Environment, DeadlinePasses, ChargeFailed,
       CustomerPays, AttemptDeclined, SweepSelect, SweepAbort
<1>5. ASSUME NEW w \in Workers, Step(w)
      PROVE  Quiet \/ Saves(w) \/ Checks(w)
  BY <1>5, StepQuiet
<1> HIDE DEF Quiet
<1> QED
  BY <1>1, <1>2, <1>3, <1>4, <1>5 DEF Next

\* Every row, handler and check is as SeatInv says: initially, ...
LEMMA InitSeatInv == Init => SeatInv
  BY InitSettleInv DEF Init, SeatInv, SeatSound, IdleCall, SaveLabels, ReadLabels

\* ... and after every step.
LEMMA NextSeatInv ==
  ASSUME SeatInv, [Next]_vars
  PROVE  SeatInv'
<1>0. SettleInv'
  BY NextSettleInv DEF SeatInv
<1>1. TypeOK /\ TypeInv /\ TypeInv' /\ TypeOK'
  BY <1>0 DEF SeatInv, SettleInv, TypeInv
<1>2. ASSUME NEW v \in Workers, SeatSound(v), call'[v] = call[v],
             Holders' \subseteq Holders, UNCHANGED totalSeats,
             \A b \in Bookings : status'[b] = "none" <=> status[b] = "none"
      PROVE  SeatSound(v)'
  <2>1. call[v].pc \in SaveLabels \cup ReadLabels => call[v].bk \in Bookings
    BY <1>1 DEF TypeInv, CarriesIds, BookingLabels, Labels, SaveLabels, ReadLabels
  <2>2. call[v].pc \in SaveLabels => Fits(call[v].bk)'
    <3> SUFFICES ASSUME call[v].pc \in SaveLabels
                 PROVE  Fits(call[v].bk)'
      OBVIOUS
    <3> DEFINE b == call[v].bk
    <3>1. b \in Bookings /\ Fits(b)
      BY <1>2, <2>1 DEF SeatSound
    <3>2. call'[v].bk = b
      BY <1>2
    <3>3. BookedSeats(Overlapping(Holders', b) \ {b}) + SeatCount[b] <= totalSeats'
      BY <1>1, <1>2, <3>1, FitsKept DEF Fits
    <3> QED
      BY <3>2, <3>3 DEF Fits
  <2> QED
    BY <1>2, <2>1, <2>2 DEF SeatSound, SaveLabels, ReadLabels
<1>3. CASE Quiet
  <2> SUFFICES ASSUME NEW v \in Workers
               PROVE  SeatSound(v)'
    BY <1>0 DEF SeatInv
  <2>1. CASE call'[v] = call[v]
    BY <1>2, <1>3, <2>1 DEF Quiet, SeatInv
  <2>2. CASE call'[v].pc \notin SaveLabels \cup ReadLabels
    BY <2>2 DEF SeatSound, SaveLabels, ReadLabels
  <2> QED
    BY <1>3, <2>1, <2>2 DEF Quiet
<1>4. ASSUME NEW w \in Workers, Saves(w)
      PROVE  SeatInv'
  <2>1. call[w].pc \in SaveLabels /\ call'[w].pc \notin SaveLabels \cup ReadLabels
    BY <1>1, <1>4 DEF Saves, CreateSave, DayPassSave, ReviveSave, At, Return,
       IdleCall, Honoured, Go, SaveLabels, ReadLabels, TypeOK
  <2>2. \A v \in Workers \ {w} : call'[v] = call[v] /\ call[v].pc \notin SaveLabels
    <3>1. \A v \in Workers : call[v].pc \in SaveLabels => lock = v
      BY DEF SeatInv, SettleInv, HandlerSound
    <3> QED
      BY <1>1, <1>4, <2>1, <3>1 DEF Saves, CreateSave, DayPassSave, ReviveSave,
         Return, Honoured, Go, TypeOK
  <2>3. \A b \in Bookings : status[b] # "none" => status'[b] # "none"
    BY <1>1, <1>4 DEF Saves, CreateSave, DayPassSave, ReviveSave, SaveSnapshot, TypeOK
  <2> SUFFICES ASSUME NEW v \in Workers
               PROVE  SeatSound(v)'
    BY <1>0 DEF SeatInv
  <2>4. CASE v = w
    BY <2>1, <2>4 DEF SeatSound, SaveLabels, ReadLabels
  <2>5. CASE v # w
    <3>1. call[v].pc \in ReadLabels =>
             call[v].bk \in Bookings /\ status[call[v].bk] # "none"
      BY <1>1 DEF SeatInv, SeatSound, ReadLabels, TypeInv, CarriesIds, BookingLabels, Labels
    <3> QED
      BY <2>2, <2>3, <2>5, <3>1 DEF SeatSound, SaveLabels
  <2> QED
    BY <2>4, <2>5
<1>5. ASSUME NEW w \in Workers, Checks(w)
      PROVE  SeatInv'
  <2>1. UNCHANGED <<status, totalSeats>>
    BY <1>5 DEF Checks, CreateCheck, CancelRead, CompleteRead, DayPassCheck,
       ReviveCheck, bookingVars
  <2>2. \A v \in Workers \ {w} : call'[v] = call[v]
    BY <1>1, <1>5 DEF Checks, CreateCheck, CancelRead, CompleteRead, DayPassCheck,
       ReviveCheck, Continue, Go, Return, TypeOK
  <2>3. Holders' = Holders
    BY <2>1 DEF Holders
  <2>4. SeatSound(w)'
    <3> DEFINE c == call'[w]
    <3>1. \/ c.pc \notin SaveLabels \cup ReadLabels
          \/ c.pc \in ReadLabels /\ status[c.bk] # "none"
          \/ c.pc = "reviveSave" /\ Fits(c.bk)
          \/ c.pc \in {"createSave", "dayPassSave"} /\ status[c.bk] = "none" /\ Fits(c.bk)
      <4>1. ASSUME NEW b \in Bookings, CreateCheck(w, b)
            PROVE  c.pc = "createSave" /\ c.bk = b /\ status[b] = "none" /\ Fits(b)
        BY <1>1, <4>1 DEF CreateCheck, Go, TypeOK
      <4>2. ASSUME NEW p \in Payments, DayPassCheck(w, p)
            PROVE  /\ c.pc = "dayPassSave" /\ c.bk = BookingOf[p]
                   /\ status[BookingOf[p]] = "none" /\ Fits(BookingOf[p])
        BY <1>1, <4>2 DEF DayPassCheck, Go, TypeOK
      <4>3. ASSUME NEW b \in Bookings, CancelRead(w, b) \/ CompleteRead(w, b)
            PROVE  c.pc \in ReadLabels /\ c.bk = b /\ status[b] # "none"
        BY <1>1, <4>3 DEF CancelRead, CompleteRead, Go, TypeOK, ReadLabels
      <4>4. CASE ReviveCheck(w)
        BY <1>1, <4>4 DEF ReviveCheck, Continue, Go, Return, IdleCall, TypeOK,
           SaveLabels, ReadLabels
      <4> QED
        BY <1>5, <4>1, <4>2, <4>3, <4>4 DEF Checks
    <3>2. /\ c.pc \in {"createSave", "dayPassSave"} => status[c.bk] = "none"
          /\ c.pc \in ReadLabels => status[c.bk] # "none"
          /\ c.pc \in SaveLabels => Fits(c.bk)
      BY <3>1 DEF SaveLabels, ReadLabels
    <3> HIDE DEF c
    <3>3. Fits(c.bk) =>
            BookedSeats(Overlapping(Holders', c.bk) \ {c.bk}) + SeatCount[c.bk] <= totalSeats'
      BY <2>1, <2>3 DEF Fits
    <3> QED
      BY <2>1, <3>2, <3>3 DEF c, SeatSound, Fits
  <2> SUFFICES ASSUME NEW v \in Workers, v # w
               PROVE  SeatSound(v)'
    BY <1>0, <2>4 DEF SeatInv
  <2> QED
    BY <1>2, <2>1, <2>2, <2>3 DEF SeatInv
<1>6. ASSUME NEW n \in SeatChoices, UpdateWorkspace(n)
      PROVE  SeatInv'
  <2>1. \A v \in Workers : call[v].pc \notin SaveLabels
    BY <1>6, NoneAssumption DEF UpdateWorkspace, SeatInv, SettleInv, HandlerSound
  <2> QED
    BY <1>0, <1>6, <2>1 DEF UpdateWorkspace, SeatInv, SeatSound, SaveLabels
<1> QED
  BY <1>3, <1>4, <1>5, <1>6, OtherQuiet

\* The check of the lock holder stays true in every reachable state.
LEMMA SeatInvAlways == Spec => []SeatInv
<1>1. SeatInv /\ [Next]_vars => SeatInv'
  BY NextSeatInv
<1> QED
  BY <1>1, InitSeatInv, PTL DEF Spec

\* The capacity check of a creation or reactivation still passes at its save,
\* for every set of bookings, window, seat count and number of handlers.
THEOREM ChecksStayTrue == Spec => []CheckedSeatsStillFree
<1>1. SeatInv => CheckedSeatsStillFree
  BY DEF SeatInv, SettleInv, HandlerSound, SeatSound, CheckedSeatsStillFree, SaveLabels
<1> QED
  BY <1>1, SeatInvAlways, PTL

\* A save that is not the first one of its booking gives nothing back; a first
\* one is an admission of the ledger.
LEMMA SavesAdmit ==
  ASSUME SeatInv, NEW w \in Workers, Saves(w)
  PROVE  [Ledger!LedgerNext]_<<Holders, totalSeats>>
<1> DEFINE b == call[w].bk
<1>1. /\ TypeOK /\ b \in Bookings /\ Fits(b)
      /\ UNCHANGED totalSeats
      /\ Holders' = Holders \cup {b}
  <2>1. TypeOK /\ call[w].pc \in SaveLabels /\ UNCHANGED totalSeats
    BY DEF SeatInv, SettleInv, TypeInv, Saves, CreateSave, DayPassSave,
       ReviveSave, SaveLabels, At
  <2>2. b \in Bookings /\ Fits(b)
    BY <2>1 DEF SeatInv, SettleInv, SeatSound, TypeInv, CarriesIds,
       BookingLabels, Labels, SaveLabels
  <2>3. status' = [status EXCEPT ![b] = "pending"]
        \/ status' = [status EXCEPT ![b] = "confirmed"]
    BY DEF Saves, CreateSave, DayPassSave, ReviveSave, SaveSnapshot
  <2>4. Holders' = Holders \cup {b}
    BY <2>1, <2>2, <2>3 DEF Holders, TypeOK
  <2> QED
    BY <2>1, <2>2, <2>4
<1>2. CASE b \in Holders
  BY <1>1, <1>2
<1>3. CASE b \notin Holders
  <2>1. \A d \in Days(b) : BookedSeats(On(Holders \cup {b}, d)) <= totalSeats
    BY <1>1, FitsEveryDay DEF Fits, Holders, TypeOK
  <2>2. \A S : Ledger!Cardinality(S) = Cardinality(S)
    BY DEF Ledger!Cardinality, Cardinality
  <2>3. Ledger!Admit(b)
    BY <1>1, <1>3, <2>1, <2>2 DEF Ledger!Admit, Ledger!Days, Ledger!BookedSeats,
       Ledger!Total, Ledger!Units, Ledger!On, Days, BookedSeats, Total, Units, On
  <2> QED
    BY <1>1, <2>3 DEF Ledger!LedgerNext
<1> QED
  BY <1>2, <1>3

\* Every step of the backend is a step of the ledger or leaves it alone.
LEMMA NextLedger ==
  ASSUME SeatInv, [Next]_vars
  PROVE  [Ledger!LedgerNext]_<<Holders, totalSeats>>
<1>1. CASE Quiet
  BY <1>1 DEF Quiet, Ledger!LedgerNext, Ledger!GiveBack
<1>2. ASSUME NEW w \in Workers, Checks(w)
      PROVE  UNCHANGED <<Holders, totalSeats>>
  BY <1>2 DEF Checks, CreateCheck, CancelRead, CompleteRead, DayPassCheck,
     ReviveCheck, bookingVars, Holders
<1>3. ASSUME NEW n \in SeatChoices, UpdateWorkspace(n)
      PROVE  Ledger!Resize
  BY <1>3, SeatChoicesAssumption DEF UpdateWorkspace, Ledger!Resize, Holders
<1> QED
  BY <1>1, <1>2, <1>3, SavesAdmit, OtherQuiet DEF Ledger!LedgerNext

\* The locked check-then-save of the three admitting transactions implements
\* the one-step admission of SeatLedger.
THEOREM SeatsRefineLedger == Spec => SeatsAdmittedAtomically
<1>1. Init => Ledger!LedgerInit
  BY DEF Init, Ledger!LedgerInit, Holders
<1>2. SeatInv /\ [Next]_vars => [Ledger!LedgerNext]_(Ledger!ledgerVars)
  BY NextLedger DEF Ledger!ledgerVars
<1> QED
  BY <1>1, <1>2, SeatInvAlways, PTL DEF Spec, SeatsAdmittedAtomically, Ledger!LedgerSpec

\* A confirmed booking is never expired and never pending again.
THEOREM ConfirmedIsKept == Spec => ConfirmedNeverExpires
<1>1. ASSUME SeatInv, [Next]_vars, NEW b \in Bookings, status[b] = "confirmed"
      PROVE  status'[b] \in {"confirmed", "cancelled", "completed"}
  <2> USE <1>1 DEF SeatInv, SettleInv, TypeInv, TypeOK, bookingVars, paymentVars,
          externalVars
  <2>1. CASE UNCHANGED vars
    BY <2>1 DEF vars
  <2>2. ASSUME NEW w \in Workers, Step(w)
        PROVE  status'[b] \in {"confirmed", "cancelled", "completed"}
    <3>1. CASE CreateSave(w) \/ DayPassSave(w)
      BY <3>1 DEF CreateSave, DayPassSave, SeatSound, At
    <3>2. CASE CancelSave(w) \/ CompleteSave(w) \/ ReviveSave(w)
      BY <3>2 DEF CancelSave, CompleteSave, ReviveSave, SaveSnapshot
    <3>3. CASE ConfirmUpdate(w)
      BY <3>3 DEF ConfirmUpdate
    <3>4. CASE UNCHANGED status
      BY <3>4
    <3> QED
      BY <2>2, <3>1, <3>2, <3>3, <3>4
      DEF Step, Activate, InitializeFindNone, InitializeSave, InitializeOpen,
          InitializeRef, InitializeReuse, Resolve, ReviveRead, ReviveCheck,
          EscrowCall, EscrowStore, LaunchInvoice, RefundCall, RefundMark
  <2>3. ASSUME NEW w \in Workers, Request(w) \/ HandlerFails(w)
        PROVE  UNCHANGED status
    BY <2>3 DEF Request, HandlerFails, CreateCheck, CancelRead, CompleteRead,
       StaffConfirm, InitializeRead, DayPassCheck, ChargeSuccess, RefundRead
  <2>4. CASE Environment
    BY <2>4 DEF Environment, DeadlinePasses, ChargeFailed, CustomerPays,
       AttemptDeclined, UpdateWorkspace, SweepSelect, SweepExpire, StillOverdue,
       SweepAbort
  <2> QED
    BY <2>1, <2>2, <2>3, <2>4 DEF Next
<1>2. SeatInv /\ [Next]_vars =>
        [\A b \in Bookings : status[b] = "confirmed" =>
           status'[b] \in {"confirmed", "cancelled", "completed"}]_vars
  BY <1>1
<1> QED
  BY <1>2, SeatInvAlways, PTL DEF Spec, ConfirmedNeverExpires
-----------------------------------------------------------------------------
\* Fulfilment.  A handler past the confirmation works on a booking that was
\* honoured and never leaves the honoured statuses; the escrow column it read
\* may be written back late, but it only ever names an escrow on chain.

HonouredStatus == {"confirmed", "cancelled", "completed"}
EscrowLabels == {"escrowCall", "escrowStore"}
FulfillingLabels == EscrowLabels \cup {"activate", "invoice"}

\* What a handler past the confirmation may rely on, and what the escrow
\* column in its hands says.
HandlerFulfils(c) ==
    /\ c.pc \in FulfillingLabels => status[c.bk] \in HonouredStatus
    /\ c.pc \in EscrowLabels => PlanOf[c.bk] \in LongTermPlans
    /\ c.pc = "escrowStore" => c.bk \in onChain
    /\ c.snap => c.bk \in onChain

FulfilInv ==
    /\ SeatInv
    /\ OnlyHonouredIsFulfilled
    /\ \A w \in Workers : HandlerFulfils(call[w])

\* Initially nothing is fulfilled and nobody works on it.
LEMMA InitFulfilInv == Init => FulfilInv
  BY InitSeatInv
  DEF Init, FulfilInv, OnlyHonouredIsFulfilled, InvoiceOnlyWhenHonoured,
      EscrowOnlyWhenHonoured, HandlerFulfils, IdleCall, FulfillingLabels, EscrowLabels

\* An honoured booking stays honoured: neither the sweep nor a stale save takes
\* it back to PENDING or lets it expire.
LEMMA HonouredIsKept ==
  ASSUME SeatInv, [Next]_vars, NEW b \in Bookings, status[b] \in HonouredStatus
  PROVE  status'[b] \in HonouredStatus
<1> USE DEF SeatInv, SettleInv, TypeInv, TypeOK, bookingVars, paymentVars,
        externalVars, HonouredStatus
<1>1. CASE UNCHANGED vars
  BY <1>1 DEF vars
<1>2. ASSUME NEW w \in Workers, Step(w)
      PROVE  status'[b] \in HonouredStatus
  <2>1. CASE CreateSave(w) \/ DayPassSave(w)
    BY <2>1 DEF CreateSave, DayPassSave, SeatSound, At
  <2>2. CASE CancelSave(w) \/ CompleteSave(w) \/ ReviveSave(w)
    BY <2>2 DEF CancelSave, CompleteSave, ReviveSave, SaveSnapshot
  <2>3. CASE ConfirmUpdate(w)
    BY <2>3 DEF ConfirmUpdate
  <2>4. CASE UNCHANGED status
    BY <2>4
  <2> QED
    BY <1>2, <2>1, <2>2, <2>3, <2>4
    DEF Step, Activate, InitializeFindNone, InitializeSave, InitializeOpen,
        InitializeRef, InitializeReuse, Resolve, ReviveRead, ReviveCheck,
        EscrowCall, EscrowStore, LaunchInvoice, RefundCall, RefundMark
<1>3. ASSUME NEW w \in Workers, Request(w) \/ HandlerFails(w)
      PROVE  UNCHANGED status
  BY <1>3 DEF Request, HandlerFails, CreateCheck, CancelRead, CompleteRead,
     StaffConfirm, InitializeRead, DayPassCheck, ChargeSuccess, RefundRead
<1>4. CASE Environment
  BY <1>4 DEF Environment, DeadlinePasses, ChargeFailed, CustomerPays,
     AttemptDeclined, UpdateWorkspace, SweepSelect, SweepExpire, StillOverdue,
     SweepAbort
<1> QED
  BY <1>1, <1>2, <1>3, <1>4 DEF Next

\* The steps that write the escrow column, the chain or the invoices.
WritesBack(w) ==
    /\ escrowId' \in {escrowId, [escrowId EXCEPT ![call[w].bk] = call[w].snap]}
    /\ UNCHANGED <<onChain, invoiced>>
StoresId(w) ==
    /\ call[w].pc = "escrowStore"
    /\ escrowId' \in {escrowId, [escrowId EXCEPT ![call[w].bk] = TRUE]}
    /\ UNCHANGED <<onChain, invoiced>>
Submits(w) ==
    /\ call[w].pc = "escrowCall"
    /\ onChain' \in {onChain, onChain \cup {call[w].bk}}
    /\ UNCHANGED <<escrowId, invoiced>>
Invoices(w) ==
    /\ call[w].pc = "invoice"
    /\ invoiced' = invoiced \cup {call[w].pay}
    /\ UNCHANGED <<escrowId, onChain>>
FulfilsNothing == UNCHANGED <<escrowId, onChain, invoiced>>

\* Every step is one of them or fulfils nothing.
LEMMA NextEffects ==
  ASSUME [Next]_vars
  PROVE  \/ FulfilsNothing
         \/ \E w \in Workers : WritesBack(w) \/ StoresId(w) \/ Submits(w) \/ Invoices(w)
<1> USE DEF FulfilsNothing, bookingVars, paymentVars, externalVars
<1>1. CASE UNCHANGED vars
  BY <1>1 DEF vars
<1>2. ASSUME NEW w \in Workers, Step(w)
      PROVE  FulfilsNothing \/ WritesBack(w) \/ StoresId(w) \/ Submits(w) \/ Invoices(w)
  <2>1. CASE CancelSave(w) \/ CompleteSave(w) \/ ReviveSave(w)
    BY <2>1 DEF CancelSave, CompleteSave, ReviveSave, SaveSnapshot, WritesBack
  <2>2. CASE EscrowStore(w)
    BY <2>2 DEF EscrowStore, StoresId, At
  <2>3. CASE EscrowCall(w)
    BY <2>3 DEF EscrowCall, Submits, At
  <2>4. CASE LaunchInvoice(w)
    BY <2>4 DEF LaunchInvoice, Invoices, At
  <2>5. CASE FulfilsNothing
    BY <2>5
  <2> QED
    BY <1>2, <2>1, <2>2, <2>3, <2>4, <2>5
    DEF Step, CreateSave, DayPassSave, ConfirmUpdate, Activate, InitializeFindNone,
        InitializeSave, InitializeOpen, InitializeRef, InitializeReuse, Resolve,
        ReviveRead, ReviveCheck, RefundCall, RefundMark
<1>3. ASSUME NEW w \in Workers, Request(w) \/ HandlerFails(w)
      PROVE  FulfilsNothing
  BY <1>3 DEF Request, HandlerFails, CreateCheck, CancelRead, CompleteRead,
     StaffConfirm, InitializeRead, DayPassCheck, ChargeSuccess, RefundRead
<1>4. CASE Environment
  BY <1>4 DEF Environment, DeadlinePasses, ChargeFailed, CustomerPays,
     AttemptDeclined, UpdateWorkspace, SweepSelect, SweepExpire, SweepAbort
<1> QED
  BY <1>1, <1>2, <1>3, <1>4 DEF Next

\* What is fulfilled stays a consequence of an honoured booking.
LEMMA NextFulfilled ==
  ASSUME FulfilInv, [Next]_vars
  PROVE  OnlyHonouredIsFulfilled' /\ onChain \subseteq onChain'
<1>0. TypeInv /\ TypeOK /\ SeatInv /\ SettleInv
  BY DEF FulfilInv, SeatInv, SettleInv, TypeInv
<1>1. \A p \in Payments : Settled(p) => Settled(p)'
  BY <1>0, NextMonotone DEF Monotone, Settled
<1>2. \A b \in Bookings : status[b] \in HonouredStatus => status'[b] \in HonouredStatus
  BY <1>0, HonouredIsKept
<1>3. /\ \A p \in invoiced : Settled(p) /\ status[BookingOf[p]] \in HonouredStatus
      /\ \A b \in Bookings : escrowId[b] => b \in onChain
      /\ \A b \in onChain : /\ PlanOf[b] \in LongTermPlans /\ status[b] \in HonouredStatus
                            /\ \E p \in Payments : BookingOf[p] = b /\ Settled(p)
  BY DEF FulfilInv, OnlyHonouredIsFulfilled, InvoiceOnlyWhenHonoured,
     EscrowOnlyWhenHonoured, HonouredStatus
<1>4. onChain \subseteq Bookings /\ invoiced \subseteq Payments
      /\ escrowId \in [Bookings -> BOOLEAN] /\ BookingOf \in [Payments -> Bookings]
  BY <1>0, PaymentsAssumption DEF TypeOK
<1>5. ASSUME NEW w \in Workers, call[w].pc \in {"escrowCall", "invoice"}
      PROVE  /\ call[w].pay \in Payments /\ Settled(call[w].pay)
             /\ BookingOf[call[w].pay] = call[w].bk /\ call[w].bk \in Bookings
             /\ status[call[w].bk] \in HonouredStatus
  <2>1. /\ call[w].bk \in Bookings /\ call[w].pay \in Payments
        /\ BookingOf[call[w].pay] = call[w].bk
    BY <1>0, <1>5 DEF TypeInv, CarriesIds, BookingLabels, PaymentLabels, ResolvingLabels,
       Labels
  <2>2. Settled(call[w].pay)
    BY <1>0, <1>5, <2>1 DEF SettleInv, HandlerSound, Resolving, ResolvingLabels
  <2>3. status[call[w].bk] \in HonouredStatus
    BY <1>5 DEF FulfilInv, HandlerFulfils, FulfillingLabels, EscrowLabels
  <2> QED
    BY <2>1, <2>2, <2>3
<1> DEFINE Fulfilled ==
        /\ \A p \in invoiced' : Settled(p)' /\ status'[BookingOf[p]] \in HonouredStatus
        /\ \A b \in Bookings : escrowId'[b] => b \in onChain'
        /\ \A b \in onChain' : /\ PlanOf[b] \in LongTermPlans /\ status'[b] \in HonouredStatus
                               /\ \E p \in Payments : BookingOf[p] = b /\ Settled(p)'
        /\ onChain \subseteq onChain'
<1>6. Fulfilled
  <2>1. CASE FulfilsNothing
    BY <1>1, <1>2, <1>3, <1>4, <2>1 DEF FulfilsNothing
  <2>2. ASSUME NEW w \in Workers, WritesBack(w)
        PROVE  Fulfilled
    <3>1. call[w].snap => call[w].bk \in onChain
      BY DEF FulfilInv, HandlerFulfils
    <3>2. \A b \in Bookings : escrowId'[b] => b \in onChain'
      BY <1>3, <1>4, <2>2, <3>1 DEF WritesBack
    <3> QED
      BY <1>1, <1>2, <1>3, <1>4, <2>2, <3>2 DEF WritesBack
  <2>3. ASSUME NEW w \in Workers, StoresId(w)
        PROVE  Fulfilled
    <3>1. call[w].bk \in onChain
      BY <2>3 DEF FulfilInv, HandlerFulfils, StoresId
    <3>2. \A b \in Bookings : escrowId'[b] => b \in onChain'
      BY <1>3, <1>4, <2>3, <3>1 DEF StoresId
    <3> QED
      BY <1>1, <1>2, <1>3, <1>4, <2>3, <3>2 DEF StoresId
  <2>4. ASSUME NEW w \in Workers, Submits(w)
        PROVE  Fulfilled
    <3>1. PlanOf[call[w].bk] \in LongTermPlans
      BY <2>4 DEF Submits, FulfilInv, HandlerFulfils, EscrowLabels
    <3> QED
      BY <1>1, <1>2, <1>3, <1>4, <1>5, <2>4, <3>1 DEF Submits
  <2>5. ASSUME NEW w \in Workers, Invoices(w)
        PROVE  Fulfilled
    BY <1>1, <1>2, <1>3, <1>4, <1>5, <2>5 DEF Invoices
  <2> QED
    BY <2>1, <2>2, <2>3, <2>4, <2>5, NextEffects
<1> QED
  BY <1>6 DEF OnlyHonouredIsFulfilled, InvoiceOnlyWhenHonoured, EscrowOnlyWhenHonoured,
     HonouredStatus

\* A handler that waits keeps what it relies on.
LEMMA WaitingFulfils ==
  ASSUME FulfilInv, [Next]_vars, NEW v \in Workers, call'[v] = call[v]
  PROVE  HandlerFulfils(call[v])'
<1> DEFINE c == call[v]
<1>1. TypeInv /\ SeatInv
  BY DEF FulfilInv, SeatInv, SettleInv
<1>2. c.pc \in FulfillingLabels => c.bk \in Bookings
  BY <1>1 DEF TypeInv, CarriesIds, BookingLabels, FulfillingLabels, EscrowLabels, Labels
<1>3. c.pc \in FulfillingLabels => status'[c.bk] \in HonouredStatus
  BY <1>1, <1>2, HonouredIsKept DEF FulfilInv, HandlerFulfils
<1>4. onChain \subseteq onChain'
  BY NextFulfilled
<1> QED
  BY <1>3, <1>4 DEF FulfilInv, HandlerFulfils

\* So does one that goes on with a booking that is honoured by now.
LEMMA HonouredFulfils ==
  ASSUME FulfilInv, NEW w \in Workers, NEW e \in BOOLEAN, Honoured(w, e),
         status'[call[w].bk] \in HonouredStatus, e => call[w].bk \in onChain'
  PROVE  HandlerFulfils(call[w])'
<1>1. call \in [Workers -> Calls]
  BY DEF FulfilInv, SeatInv, SettleInv, TypeInv, TypeOK
<1>2. CASE call'[w] = IdleCall
  BY <1>2 DEF IdleCall, HandlerFulfils, FulfillingLabels, EscrowLabels
<1>3. CASE /\ call'[w].pc \in {"escrowCall", "invoice"} /\ call'[w].bk = call[w].bk
           /\ call'[w].snap = e
           /\ call'[w].pc = "escrowCall" => PlanOf[call[w].bk] \in LongTermPlans
  BY <1>3 DEF HandlerFulfils, FulfillingLabels, EscrowLabels
<1> QED
  BY <1>1, <1>2, <1>3 DEF Honoured, Go, Return

\* The steps of a handler lead to its booking being honoured before they lead
\* to what an honoured booking gets.
LEMMA SteppingFulfils ==
  ASSUME FulfilInv, [Next]_vars, NEW w \in Workers, Step(w)
  PROVE  HandlerFulfils(call[w])'
<1> DEFINE c == call[w]
<1>1. TypeInv /\ TypeOK /\ SeatInv /\ onChain \subseteq onChain'
  BY NextFulfilled DEF FulfilInv, SeatInv, SettleInv, TypeInv
<1>2. /\ call \in [Workers -> Calls] /\ escrowId \in [Bookings -> BOOLEAN]
      /\ status \in [Bookings -> BookingStatus]
      /\ c.snap \in BOOLEAN
      /\ c.pc \in BookingLabels => c.bk \in Bookings
  BY <1>1 DEF TypeInv, TypeOK, CarriesIds, Calls
<1>3. /\ c.snap => c.bk \in onChain'
      /\ \A b \in Bookings : escrowId[b] => b \in onChain'
  BY <1>1 DEF FulfilInv, HandlerFulfils, OnlyHonouredIsFulfilled, EscrowOnlyWhenHonoured
<1>4. /\ c.pc \in FulfillingLabels => status[c.bk] \in HonouredStatus
      /\ c.pc \in EscrowLabels => PlanOf[c.bk] \in LongTermPlans
  BY DEF FulfilInv, HandlerFulfils
<1>5. ASSUME call'[w] = IdleCall
      PROVE  HandlerFulfils(call[w])'
  BY <1>5 DEF IdleCall, HandlerFulfils, FulfillingLabels, EscrowLabels
<1>6. ASSUME call'[w].pc \notin FulfillingLabels, ~call'[w].snap
      PROVE  HandlerFulfils(call[w])'
  BY <1>6 DEF HandlerFulfils, FulfillingLabels, EscrowLabels
<1>7. ASSUME call'[w].pc \notin FulfillingLabels, call'[w].bk = c.bk, call'[w].snap = c.snap
      PROVE  HandlerFulfils(call[w])'
  BY <1>3, <1>7 DEF HandlerFulfils, FulfillingLabels, EscrowLabels
<1>8. CASE ConfirmUpdate(w)
  <2>1. c.bk \in Bookings
    BY <1>2, <1>8 DEF ConfirmUpdate, At, BookingLabels, Labels
  <2>2. CASE /\ status' = [status EXCEPT ![c.bk] = "confirmed"]
             /\ Go(w, "activate", c.bk, c.pay, escrowId[c.bk])
    BY <1>2, <1>3, <2>1, <2>2 DEF Go, HandlerFulfils, FulfillingLabels, EscrowLabels,
       HonouredStatus
  <2>3. CASE status[c.bk] = "confirmed" /\ Honoured(w, escrowId[c.bk]) /\ UNCHANGED status
    BY <1>2, <1>3, <2>1, <2>3, HonouredFulfils DEF HonouredStatus
  <2>4. CASE Return(w)
    BY <1>2, <1>5, <2>4 DEF Return
  <2> QED
    BY <1>8, <2>2, <2>3, <2>4 DEF ConfirmUpdate, ConfirmThrows
<1>9. CASE Activate(w)
  BY <1>2, <1>3, <1>4, <1>9, HonouredFulfils DEF Activate, At, FulfillingLabels
<1>10. CASE ReviveRead(w)
  <2>1. c.bk \in Bookings
    BY <1>2, <1>10 DEF ReviveRead, At, BookingLabels, Labels
  <2>2. CASE Go(w, "reviveCheck", c.bk, c.pay, escrowId[c.bk])
    BY <1>2, <1>3, <2>1, <2>2 DEF Go, HandlerFulfils, FulfillingLabels, EscrowLabels
  <2>3. CASE status[c.bk] = "confirmed" /\ Honoured(w, escrowId[c.bk]) /\ UNCHANGED status
    BY <1>2, <1>3, <2>1, <2>3, HonouredFulfils DEF HonouredStatus
  <2>4. CASE Return(w)
    BY <1>2, <1>5, <2>4 DEF Return
  <2> QED
    BY <1>10, <2>2, <2>3, <2>4 DEF ReviveRead, bookingVars
<1>11. CASE ReviveSave(w)
  <2>1. c.bk \in Bookings
    BY <1>2, <1>11 DEF ReviveSave, At, BookingLabels, Labels
  <2>2. status'[c.bk] \in HonouredStatus
    BY <1>2, <1>11, <2>1 DEF ReviveSave, SaveSnapshot, HonouredStatus
  <2>3. Honoured(w, c.snap)
    BY <1>11 DEF ReviveSave
  <2> QED
    BY <1>2, <1>3, <2>2, <2>3, HonouredFulfils
<1>12. CASE EscrowCall(w) \/ EscrowStore(w)
  <2>1. /\ c.pc \in EscrowLabels /\ c.bk \in Bookings /\ UNCHANGED status
    BY <1>2, <1>12 DEF EscrowCall, EscrowStore, At, EscrowLabels, BookingLabels, Labels,
       bookingVars
  <2>2. \/ Continue(w, "invoice")
        \/ Continue(w, "escrowStore") /\ c.bk \in onChain'
    BY <1>12 DEF EscrowCall, EscrowStore
  <2> QED
    BY <1>2, <1>3, <1>4, <2>1, <2>2 DEF Continue, Go, HandlerFulfils, FulfillingLabels,
       EscrowLabels
<1>13. CASE Resolve(w) \/ ReviveCheck(w) \/ InitializeFindNone(w) \/ InitializeOpen(w)
  BY <1>2, <1>5, <1>7, <1>13 DEF Resolve, ReviveCheck, InitializeFindNone, InitializeOpen,
     Continue, Go, Return, FulfillingLabels, EscrowLabels
<1>14. CASE InitializeSave(w)
  BY <1>2, <1>5, <1>6, <1>14 DEF InitializeSave, Go, Return, FulfillingLabels, EscrowLabels
<1>15. CASE RefundCall(w)
  BY <1>2, <1>5, <1>7, <1>15 DEF RefundCall, Continue, Go, Return, FulfillingLabels,
     EscrowLabels
<1>16. CASE Return(w)
  BY <1>2, <1>5, <1>16 DEF Return
<1> QED
  BY <1>8, <1>9, <1>10, <1>11, <1>12, <1>13, <1>14, <1>15, <1>16
  DEF Step, CreateSave, DayPassSave, CancelSave, CompleteSave, InitializeRef,
      InitializeReuse, LaunchInvoice, RefundMark

\* A handler that starts is not past the confirmation, and one that fails is gone.
LEMMA AcceptingFulfils ==
  ASSUME FulfilInv, NEW w \in Workers, Request(w) \/ HandlerFails(w)
  PROVE  HandlerFulfils(call[w])'
<1>1. call \in [Workers -> Calls] /\ escrowId \in [Bookings -> BOOLEAN]
  BY DEF FulfilInv, SeatInv, SettleInv, TypeInv, TypeOK
<1>2. \A b \in Bookings : escrowId[b] => b \in onChain
  BY DEF FulfilInv, OnlyHonouredIsFulfilled, EscrowOnlyWhenHonoured
<1>3. CASE HandlerFails(w)
  BY <1>1, <1>3 DEF HandlerFails, Return, IdleCall, HandlerFulfils, FulfillingLabels,
     EscrowLabels
<1>4. ASSUME NEW b \in Bookings, CancelRead(w, b) \/ CompleteRead(w, b)
      PROVE  HandlerFulfils(call[w])'
  BY <1>1, <1>2, <1>4 DEF CancelRead, CompleteRead, Go, HandlerFulfils, FulfillingLabels,
     EscrowLabels, externalVars
<1>5. ASSUME NEW l \in Labels \ FulfillingLabels, NEW b, NEW p, Go(w, l, b, p, FALSE)
      PROVE  HandlerFulfils(call[w])'
  BY <1>1, <1>5 DEF Go, HandlerFulfils, FulfillingLabels, EscrowLabels
<1>6. {"createSave", "confirm", "initFind", "dayPassSave", "resolve", "refundCall"}
        \subseteq Labels \ FulfillingLabels
  BY DEF Labels, FulfillingLabels, EscrowLabels
<1> QED
  BY <1>3, <1>4, <1>5, <1>6
  DEF Request, CreateCheck, StaffConfirm, InitializeRead, DayPassCheck, ChargeSuccess,
      RefundRead

\* The fulfilment invariant is inductive.
LEMMA NextFulfilInv == FulfilInv /\ [Next]_vars => FulfilInv'
<1> SUFFICES ASSUME FulfilInv, [Next]_vars
             PROVE  FulfilInv'
  OBVIOUS
<1>1. SeatInv' /\ OnlyHonouredIsFulfilled'
  BY NextSeatInv, NextFulfilled DEF FulfilInv
<1>2. ASSUME NEW v \in Workers
      PROVE  HandlerFulfils(call[v])'
  <2>1. CASE call'[v] = call[v]
    BY <2>1, WaitingFulfils
  <2>2. CASE Step(v)
    BY <2>2, SteppingFulfils
  <2>3. CASE Request(v) \/ HandlerFails(v)
    BY <2>3, AcceptingFulfils
  <2>4. \/ call'[v] = call[v]
        \/ Step(v) \/ Request(v) \/ HandlerFails(v)
    <3>1. call \in [Workers -> Calls]
      BY DEF FulfilInv, SeatInv, SettleInv, TypeInv, TypeOK
    <3>2. CASE UNCHANGED call
      BY <3>2
    <3>3. ASSUME NEW w \in Workers, w # v, Step(w)
          PROVE  call'[v] = call[v]
      BY <3>1, <3>3 DEF Step, CreateSave, DayPassSave, CancelSave, CompleteSave,
         ConfirmUpdate, ConfirmThrows, Activate, InitializeFindNone, InitializeSave,
         InitializeOpen, InitializeRef, InitializeReuse, Resolve, ReviveRead,
         ReviveCheck, ReviveSave, EscrowCall, EscrowStore, LaunchInvoice, RefundCall,
         RefundMark, Honoured, Continue, Go, Return
    <3>4. ASSUME NEW w \in Workers, w # v, Request(w) \/ HandlerFails(w)
          PROVE  call'[v] = call[v]
      BY <3>1, <3>4 DEF Request, HandlerFails, CreateCheck, CancelRead, CompleteRead,
         StaffConfirm, InitializeRead, DayPassCheck, ChargeSuccess, RefundRead, Go, Return
    <3>5. Environment \/ UNCHANGED vars => UNCHANGED call
      BY DEF Environment, DeadlinePasses, ChargeFailed, CustomerPays, AttemptDeclined,
         UpdateWorkspace, SweepSelect, SweepExpire, SweepAbort, vars
    <3> QED
      BY <3>2, <3>3, <3>4, <3>5 DEF Next
  <2> QED
    BY <2>1, <2>2, <2>3, <2>4
<1> QED
  BY <1>1, <1>2 DEF FulfilInv

\* Invoices and escrows exist only for bookings that were honoured on a settled
\* payment, for every number of bookings, payments and handlers.
THEOREM HonouredIsFulfilled == Spec => []OnlyHonouredIsFulfilled
<1>1. FulfilInv => OnlyHonouredIsFulfilled
  BY DEF FulfilInv
<1> QED
  BY <1>1, InitFulfilInv, NextFulfilInv, PTL DEF Spec

-----------------------------------------------------------------------------
\* The escrow contract

\* What a successful decision does to the record of e.
Decided(e, outcome) ==
    /\ escrow[e].status \in {"Pending", "Disputed"}
    /\ escrow' = [escrow EXCEPT ![e] = [@ EXCEPT !.status = outcome, !.resolved_at = now]]
    /\ vault' = vault - escrow[e].amount /\ escrow[e].amount <= vault
    /\ UNCHANGED <<admin, disputeWindow, now, byDepositor, byBeneficiary>>

Paid(e) ==
    /\ Decided(e, "Released")
    /\ balance' = [balance EXCEPT ![escrow[e].beneficiary] = @ + escrow[e].amount]
Returned(e) ==
    /\ Decided(e, "Refunded")
    /\ balance' = [balance EXCEPT ![escrow[e].depositor] = @ + escrow[e].amount]

\* Every step is a configuration, a creation, a payment, a return, a dispute or
\* the passing of time.
LEMMA NextCases ==
  ASSUME EscrowNext
  PROVE  \/ \E a \in Accounts, window \in DisputeWindows : Initialize(a, window)
         \/ \E window \in DisputeWindows : SetDisputeWindow(window)
         \/ \E e \in Escrows, a, b \in Accounts, amount \in Amounts, t \in ReleaseTimes :
               CreateEscrow(e, a, b, amount, t)
         \/ \E e \in Escrows : Paid(e) \/ Returned(e) \/ RaiseDispute(e)
         \/ Tick
<1>1. ASSUME NEW e \in Escrows, Release(e) \/ Claim(e)
      PROVE  Paid(e)
  BY <1>1 DEF Release, Claim, Decide, Paid, Decided, IsPending
<1>2. ASSUME NEW e \in Escrows, Refund(e)
      PROVE  Returned(e)
  BY <1>2 DEF Refund, Decide, Returned, Decided, IsPending
<1>3. ASSUME NEW e \in Escrows, NEW r \in BOOLEAN, ResolveDispute(e, r)
      PROVE  Paid(e) \/ Returned(e)
  BY <1>3 DEF ResolveDispute, Decide, Paid, Returned, Decided
<1> QED
  BY <1>1, <1>2, <1>3 DEF EscrowNext

\* A record of an escrow in use has the fields of types::Escrow.
LEMMA UsedRecord ==
  ASSUME EscrowTypeOK, NEW e \in Escrows, escrow[e].status # "unused"
  PROVE  escrow[e] \in Escrow
BY DEF EscrowTypeOK, Unused

\* Its status and its times may change without leaving the type.
LEMMA RecordExcept ==
  ASSUME NEW r \in Escrow, NEW s \in EscrowStatus, NEW t \in Timestamps
  PROVE  /\ [r EXCEPT !.status = s, !.resolved_at = t] \in Escrow
         /\ [r EXCEPT !.status = s, !.dispute_raised_at = t] \in Escrow
BY DEF Escrow

\* No step corrupts a record, a balance or an index.
LEMMA NextType == EscrowTypeOK /\ [EscrowNext]_escrowVars => EscrowTypeOK'
<1> SUFFICES ASSUME EscrowTypeOK, [EscrowNext]_escrowVars
             PROVE  EscrowTypeOK'
  OBVIOUS
<1>0. /\ now \in Timestamps /\ DisputeWindows \subseteq Timestamps
      /\ ReleaseTimes \subseteq Timestamps
  BY TimesAssumption DEF EscrowTypeOK, Timestamps
<1> USE <1>0, NothingAssumption DEF EscrowTypeOK
<1>1. CASE UNCHANGED escrowVars
  BY <1>1 DEF escrowVars
<1>2. ASSUME NEW a \in Accounts, NEW window \in DisputeWindows, Initialize(a, window)
      PROVE  EscrowTypeOK'
  BY <1>2 DEF Initialize
<1>3. ASSUME NEW window \in DisputeWindows, SetDisputeWindow(window)
      PROVE  EscrowTypeOK'
  BY <1>3 DEF SetDisputeWindow
<1>4. ASSUME NEW e \in Escrows, NEW a \in Accounts, NEW b \in Accounts,
             NEW amount \in Amounts, NEW t \in ReleaseTimes, CreateEscrow(e, a, b, amount, t)
      PROVE  EscrowTypeOK'
  <2>1. amount \in Nat \ {0}
    <3>1. AmountValid(amount)
      BY <1>4 DEF CreateEscrow
    <3> QED
      BY <3>1, AmountsAssumption DEF AmountValid
  <2>2. \E r \in Escrow : escrow' = [escrow EXCEPT ![e] = r]
    <3> DEFINE r == [status |-> "Pending", depositor |-> a, beneficiary |-> b,
                     amount |-> amount, created_at |-> now, release_after |-> t,
                     dispute_window |-> disputeWindow, dispute_raised_at |-> Nothing,
                     resolved_at |-> Nothing]
    <3>1. r \in Escrow
      BY <2>1 DEF Escrow, EscrowStatus
    <3>2. escrow' = [escrow EXCEPT ![e] = r]
      BY <1>4 DEF CreateEscrow
    <3> HIDE DEF r
    <3> QED
      BY <3>1, <3>2
  <2>3. balance' \in [Accounts -> Nat] /\ vault' \in Nat
    <3>1. /\ balance \in [Accounts -> Nat] /\ vault \in Nat /\ amount <= balance[a]
          /\ vault' = vault + amount /\ balance' = [balance EXCEPT ![a] = @ - amount]
      BY <1>4 DEF CreateEscrow
    <3> DEFINE left == balance[a] - amount
    <3>2. left \in Nat /\ balance' = [balance EXCEPT ![a] = left]
      BY <2>1, <3>1
    <3>3. vault' \in Nat
      BY <2>1, <3>1
    <3> HIDE DEF left
    <3> QED
      BY <3>1, <3>2, <3>3
  <2>4. byDepositor' \in [Accounts -> Seq(Escrows)] /\ byBeneficiary' \in [Accounts -> Seq(Escrows)]
    BY <1>4 DEF CreateEscrow
  <2> QED
    BY <1>4, <2>2, <2>3, <2>4 DEF CreateEscrow
<1>5. ASSUME NEW e \in Escrows, Paid(e) \/ Returned(e)
      PROVE  EscrowTypeOK'
  <2>1. escrow[e] \in Escrow
    BY <1>5, UsedRecord DEF Paid, Returned, Decided
  <2>2. PICK s \in {"Released", "Refunded"} : Decided(e, s)
    BY <1>5 DEF Paid, Returned
  <2>3. [escrow[e] EXCEPT !.status = s, !.resolved_at = now] \in Escrow
    BY <2>1, <2>2, RecordExcept DEF EscrowStatus
  <2>4. escrow' \in [Escrows -> Escrow \cup {Unused}]
    BY <2>2, <2>3 DEF Decided
  <2>5. vault' \in Nat /\ balance' \in [Accounts -> Nat]
    <3> DEFINE n == escrow[e].amount
    <3>1. n \in Nat /\ escrow[e].depositor \in Accounts /\ escrow[e].beneficiary \in Accounts
      BY <2>1 DEF Escrow
    <3>2. PICK a \in Accounts : balance' = [balance EXCEPT ![a] = @ + n]
      <4>1. CASE Paid(e)
        BY <3>1, <4>1 DEF Paid
      <4>2. CASE Returned(e)
        BY <3>1, <4>2 DEF Returned
      <4> QED
        BY <1>5, <4>1, <4>2
    <3>3. vault' \in Nat
      <4>1. n <= vault /\ vault' = vault - n
        BY <2>2 DEF Decided
      <4> HIDE DEF n
      <4> QED
        BY <3>1, <4>1
    <3> HIDE DEF n
    <3>4. balance' \in [Accounts -> Nat]
      <4> DEFINE more == balance[a] + n
      <4>1. balance \in [Accounts -> Nat]
        BY DEF EscrowTypeOK
      <4>2. more \in Nat /\ balance' = [balance EXCEPT ![a] = more]
        BY <3>1, <3>2, <4>1
      <4> HIDE DEF more
      <4> QED
        BY <4>1, <4>2
    <3> QED
      BY <3>3, <3>4
  <2> QED
    BY <2>2, <2>4, <2>5 DEF Decided
<1>6. ASSUME NEW e \in Escrows, RaiseDispute(e)
      PROVE  EscrowTypeOK'
  <2>1. escrow[e] \in Escrow
    BY <1>6, UsedRecord DEF RaiseDispute, IsPending
  <2>2. [escrow[e] EXCEPT !.status = "Disputed", !.dispute_raised_at = now] \in Escrow
    BY <2>1, RecordExcept DEF EscrowStatus
  <2> QED
    BY <1>6, <2>2 DEF RaiseDispute
<1>7. CASE Tick
  BY <1>7, TimesAssumption DEF Tick
<1> QED
  BY <1>1, <1>2, <1>3, <1>4, <1>5, <1>6, <1>7, NextCases

\* The initialised contract without escrows is well typed.
LEMMA InitType == EscrowInit => EscrowTypeOK
  BY TimesAssumption, InitialBalanceAssumption DEF EscrowInit, EscrowTypeOK, Timestamps

\* Type correctness.
THEOREM EscrowTypeCorrect == EscrowSpec => []EscrowTypeOK
  BY InitType, NextType, PTL DEF EscrowSpec

Accounting == EscrowTypeOK /\ FundsBacked /\ BalancesExplained

\* Amounts are natural numbers and sets of escrows are finite, so sums are too.
LEMMA Summable ==
  ASSUME EscrowTypeOK
  PROVE  /\ \A e \in Escrows : Amount[e] \in Nat
         /\ \A S \in SUBSET Escrows : IsFiniteSet(S) /\ Total(S, Amount) \in Nat
<1>1. \A e \in Escrows : Amount[e] \in Nat
  BY DEF EscrowTypeOK, Amount, Escrow, Unused
<1>2. \A S \in SUBSET Escrows : IsFiniteSet(S)
  BY EscrowsFinite, FS_Subset
<1>3. ASSUME NEW S \in SUBSET Escrows
      PROVE  Total(S, Amount) \in Nat
  BY <1>1, <1>2, TotalType
<1> QED
  BY <1>1, <1>2, <1>3

\* No escrow is open initially, and the contract holds nothing.
LEMMA InitAccounting == EscrowInit => Accounting
<1> SUFFICES ASSUME EscrowInit PROVE Accounting
  OBVIOUS
<1>1. EscrowTypeOK
  BY InitType
<1>2. Open = {}
  BY DEF EscrowInit, Open, Unused
<1>3. \A a \in Accounts : Deposited(a) = {} /\ Received(a) = {}
  BY NothingAssumption DEF EscrowInit, Deposited, Received, Unused
<1>4. \A a \in Accounts : balance[a] \in Nat /\ balance[a] = InitialBalance[a]
  BY InitialBalanceAssumption DEF EscrowInit
<1> QED
  BY <1>1, <1>2, <1>3, <1>4, TotalEmpty
  DEF Accounting, FundsBacked, BalancesExplained, EscrowInit

\* A creation adds its amount to the vault and to the depositor's deposits.
LEMMA CreateAccounting ==
  ASSUME Accounting, EscrowTypeOK', NEW e \in Escrows, NEW a \in Accounts, NEW b \in Accounts,
         NEW amount \in Amounts, NEW t \in ReleaseTimes, CreateEscrow(e, a, b, amount, t)
  PROVE  FundsBacked' /\ BalancesExplained'
<1> DEFINE f == Amount
           g == [x \in Escrows |-> escrow'[x].amount]
<1>1. /\ EscrowTypeOK /\ escrow[e].status = "unused" /\ amount \in Nat
      /\ vault' = vault + amount /\ balance' = [balance EXCEPT ![a] = @ - amount]
      /\ escrow'[e].status = "Pending" /\ escrow'[e].depositor = a
      /\ escrow'[e].beneficiary = b /\ escrow'[e].amount = amount
      /\ \A d \in Escrows \ {e} : escrow'[d] = escrow[d]
  <2>1. EscrowTypeOK /\ e \in DOMAIN escrow
    BY DEF Accounting, EscrowTypeOK
  <2>2. escrow[e].status = "unused" /\ amount \in Nat
    BY AmountsAssumption DEF CreateEscrow, AmountValid, IdFree
  <2>3. vault' = vault + amount /\ balance' = [balance EXCEPT ![a] = @ - amount]
    BY DEF CreateEscrow
  <2>4. /\ escrow'[e].status = "Pending" /\ escrow'[e].depositor = a
        /\ escrow'[e].beneficiary = b /\ escrow'[e].amount = amount
    BY <2>1 DEF CreateEscrow
  <2>5. \A d \in Escrows \ {e} : escrow'[d] = escrow[d]
    BY <2>1 DEF CreateEscrow, EscrowTypeOK
  <2> QED
    BY <2>1, <2>2, <2>3, <2>4, <2>5
<1>2. escrow[e] = Unused
  BY <1>1 DEF EscrowTypeOK, Escrow, EscrowStatus
<1>3. /\ Open' = Open \cup {e} /\ e \notin Open /\ Open \in SUBSET Escrows
  BY <1>1 DEF Open
<1>4. /\ \A x \in Escrows : f[x] \in Nat /\ g[x] \in Nat
      /\ \A x \in Escrows \ {e} : g[x] = f[x]
      /\ g[e] = amount /\ Amount' = g
      /\ \A S \in SUBSET Escrows : IsFiniteSet(S) /\ Total(S, f) \in Nat
  BY <1>1, Summable DEF Amount, EscrowTypeOK, Escrow, Unused
<1> HIDE DEF f, g
<1>5. ASSUME NEW S \in SUBSET Escrows, e \notin S
      PROVE  Total(S, g) = Total(S, f) /\ Total(S \cup {e}, g) = Total(S, f) + amount
  <2>1. \A x \in S : g[x] = f[x]
    BY <1>4, <1>5
  <2>2. Total(S, g) = Total(S, f)
    BY <2>1, TotalAgree
  <2>3. Total(S \cup {e}, g) = Total(S, g) + g[e]
    BY <1>4, <1>5, TotalAdd
  <2> QED
    BY <1>4, <2>2, <2>3
<1>6. FundsBacked'
  BY <1>1, <1>3, <1>4, <1>5 DEF Accounting, FundsBacked, f
<1>7. ASSUME NEW c \in Accounts
      PROVE  balance'[c] + Total(Deposited(c)', g)
               = InitialBalance[c] + Total(Received(c)', g)
  <2>1. /\ e \notin Deposited(c) /\ e \notin Received(c)
        /\ Deposited(c) \in SUBSET Escrows /\ Received(c) \in SUBSET Escrows
    BY <1>2, NothingAssumption DEF Deposited, Received, Unused
  <2>2. Deposited(c)' = IF c = a THEN Deposited(c) \cup {e} ELSE Deposited(c)
    BY <1>1, <2>1 DEF Deposited
  <2>3. Received(c)' = Received(c)
    BY <1>1, <2>1 DEF Received
  <2>4. /\ balance[c] + Total(Deposited(c), f) = InitialBalance[c] + Total(Received(c), f)
        /\ balance[c] \in Nat /\ InitialBalance[c] \in Nat
    BY <1>1, InitialBalanceAssumption DEF Accounting, BalancesExplained, f, EscrowTypeOK
  <2>5. balance'[c] = IF c = a THEN balance[c] - amount ELSE balance[c]
    BY <1>1 DEF EscrowTypeOK
  <2>6. /\ Total(Received(c)', g) = Total(Received(c), f)
        /\ Total(Deposited(c)', g) =
             IF c = a THEN Total(Deposited(c), f) + amount ELSE Total(Deposited(c), f)
    BY <1>5, <2>1, <2>2, <2>3
  <2>7. Total(Deposited(c), f) \in Nat /\ Total(Received(c), f) \in Nat
    BY <1>4, <2>1
  <2> QED
    BY <1>1, <2>4, <2>5, <2>6, <2>7
<1> QED
  BY <1>4, <1>6, <1>7 DEF BalancesExplained

\* A decision takes its amount from the vault and settles it with one party.
LEMMA DecideAccounting ==
  ASSUME Accounting, NEW e \in Escrows, Paid(e) \/ Returned(e)
  PROVE  FundsBacked' /\ BalancesExplained'
<1> DEFINE n == escrow[e].amount
           f == Amount
<1>1. /\ EscrowTypeOK /\ e \in Open /\ escrow[e] \in Escrow
      /\ n \in Nat /\ f[e] = n
      /\ \A x \in Escrows : f[x] \in Nat
      /\ \A S \in SUBSET Escrows : IsFiniteSet(S) /\ Total(S, f) \in Nat
  <2>1. EscrowTypeOK /\ e \in Open /\ escrow[e] \in Escrow
    BY UsedRecord DEF Accounting, Paid, Returned, Decided, Open
  <2> QED
    BY <2>1, Summable DEF Amount, Escrow
<1>2. PICK s \in {"Released", "Refunded"} :
        /\ Decided(e, s)
        /\ s = "Released" =>
             balance' = [balance EXCEPT ![escrow[e].beneficiary] = @ + escrow[e].amount]
        /\ s = "Refunded" =>
             balance' = [balance EXCEPT ![escrow[e].depositor] = @ + escrow[e].amount]
  BY DEF Paid, Returned
<1>3. /\ \A d \in Escrows \ {e} : escrow'[d] = escrow[d]
      /\ escrow'[e].status = s /\ escrow'[e].depositor = escrow[e].depositor
      /\ escrow'[e].beneficiary = escrow[e].beneficiary
      /\ escrow'[e].amount = escrow[e].amount
      /\ vault' = vault - n
  BY <1>1, <1>2 DEF Decided, EscrowTypeOK, Escrow
<1>4. Amount' = f /\ Open' = Open \ {e} /\ Open \in SUBSET Escrows
  BY <1>2, <1>3 DEF Amount, Open
<1>5. FundsBacked'
  <2>1. Total(Open \ {e}, f) = Total(Open, f) - f[e]
    BY <1>1, <1>4, TotalRemove
  <2> QED
    BY <1>1, <1>3, <1>4, <2>1 DEF Accounting, FundsBacked
<1> HIDE DEF f
<1>6. ASSUME NEW c \in Accounts
      PROVE  balance'[c] + Total(Deposited(c)', f)
               = InitialBalance[c] + Total(Received(c)', f)
  <2>1. /\ Deposited(c) \in SUBSET Escrows /\ Received(c) \in SUBSET Escrows
        /\ e \notin Received(c)
        /\ e \in Deposited(c) <=> c = escrow[e].depositor
    BY <1>1 DEF Deposited, Received, Open
  <2>2. /\ balance[c] + Total(Deposited(c), f) = InitialBalance[c] + Total(Received(c), f)
        /\ balance[c] \in Nat /\ InitialBalance[c] \in Nat
        /\ Total(Deposited(c), f) \in Nat /\ Total(Received(c), f) \in Nat
    BY <1>1, <2>1, InitialBalanceAssumption DEF Accounting, BalancesExplained, f, EscrowTypeOK
  <2>3. CASE s = "Released"
    <3>1. Deposited(c)' = Deposited(c)
      BY <1>3, <2>1, <2>3 DEF Deposited
    <3>2. Received(c)' = IF c = escrow[e].beneficiary THEN Received(c) \cup {e}
                                                      ELSE Received(c)
      BY <1>3, <2>1, <2>3 DEF Received
    <3>3. balance'[c] = IF c = escrow[e].beneficiary THEN balance[c] + n ELSE balance[c]
      BY <1>1, <1>2, <2>3 DEF EscrowTypeOK
    <3>4. Total(Received(c) \cup {e}, f) = Total(Received(c), f) + f[e]
      BY <1>1, <2>1, TotalAdd
    <3> QED
      BY <1>1, <2>2, <3>1, <3>2, <3>3, <3>4
  <2>4. CASE s = "Refunded"
    <3>1. Deposited(c)' = IF c = escrow[e].depositor THEN Deposited(c) \ {e}
                                                     ELSE Deposited(c)
      BY <1>3, <2>1, <2>4 DEF Deposited
    <3>2. Received(c)' = Received(c)
      BY <1>3, <2>1, <2>4 DEF Received
    <3>3. balance'[c] = IF c = escrow[e].depositor THEN balance[c] + n ELSE balance[c]
      BY <1>1, <1>2, <2>4 DEF EscrowTypeOK
    <3>4. c = escrow[e].depositor =>
            Total(Deposited(c) \ {e}, f) = Total(Deposited(c), f) - f[e]
      BY <1>1, <2>1, TotalRemove
    <3> QED
      BY <1>1, <2>2, <3>1, <3>2, <3>3, <3>4
  <2> QED
    BY <2>3, <2>4
<1> QED
  BY <1>4, <1>5, <1>6 DEF BalancesExplained

\* The accounting is inductive.
LEMMA NextAccounting == Accounting /\ [EscrowNext]_escrowVars => Accounting'
<1> SUFFICES ASSUME Accounting, [EscrowNext]_escrowVars
             PROVE  Accounting'
  OBVIOUS
<1>1. EscrowTypeOK /\ EscrowTypeOK'
  BY NextType DEF Accounting
<1>2. ASSUME UNCHANGED <<balance, vault>>,
             \A e \in Escrows :
                /\ escrow'[e].amount = escrow[e].amount
                /\ escrow'[e].depositor = escrow[e].depositor
                /\ escrow'[e].beneficiary = escrow[e].beneficiary
                /\ \/ escrow'[e].status = escrow[e].status
                   \/ escrow[e].status = "Pending" /\ escrow'[e].status = "Disputed"
      PROVE  Accounting'
  <2>1. Amount' = Amount /\ Open' = Open
    BY <1>2 DEF Amount, Open
  <2>2. \A a \in Accounts : Deposited(a)' = Deposited(a) /\ Received(a)' = Received(a)
    BY <1>2 DEF Deposited, Received
  <2> QED
    BY <1>1, <1>2, <2>1, <2>2 DEF Accounting, FundsBacked, BalancesExplained
<1>3. CASE UNCHANGED <<balance, vault, escrow>>
  BY <1>2, <1>3
<1>4. ASSUME NEW e \in Escrows, RaiseDispute(e)
      PROVE  Accounting'
  BY <1>1, <1>2, <1>4 DEF RaiseDispute, IsPending, EscrowTypeOK, Escrow, Unused
<1>5. ASSUME NEW e \in Escrows, NEW a \in Accounts, NEW b \in Accounts,
             NEW amount \in Amounts, NEW t \in ReleaseTimes, CreateEscrow(e, a, b, amount, t)
      PROVE  Accounting'
  BY <1>1, <1>5, CreateAccounting DEF Accounting
<1>6. ASSUME NEW e \in Escrows, Paid(e) \/ Returned(e)
      PROVE  Accounting'
  BY <1>1, <1>6, DecideAccounting DEF Accounting
<1> QED
  BY <1>3, <1>4, <1>5, <1>6, NextCases
  DEF Initialize, SetDisputeWindow, Tick, escrowVars

\* The accounts of the escrow contract agree in every reachable state.
LEMMA AccountingAlways == EscrowSpec => []Accounting
  BY InitAccounting, NextAccounting, PTL DEF EscrowSpec

\* The contract holds the funds of the undecided escrows, and every account what
\* the status of the escrows says it should.
THEOREM EscrowMoneyExplained == EscrowSpec => []MoneyExplained
<1>1. Accounting => MoneyExplained
  BY DEF Accounting, MoneyExplained
<1> QED
  BY <1>1, AccountingAlways, PTL

\* Terms are fixed at creation and decisions are final.
THEOREM EscrowTermsFixed == EscrowSpec => TermsNeverChange
<1>1. ASSUME EscrowTypeOK, [EscrowNext]_escrowVars, NEW e \in Escrows, escrow[e].status # "unused"
      PROVE  /\ Terms(escrow'[e]) = Terms(escrow[e])
             /\ escrow[e].status \in {"Released", "Refunded"} => escrow'[e] = escrow[e]
  <2>1. escrow[e] \in Escrow
    BY <1>1, UsedRecord
  <2>2. CASE escrow'[e] = escrow[e]
    BY <2>2
  <2>3. ASSUME NEW d \in Escrows, RaiseDispute(d) \/ Paid(d) \/ Returned(d)
        PROVE  \/ escrow'[e] = escrow[e]
               \/ /\ escrow[e].status \in {"Pending", "Disputed"}
                  /\ Terms(escrow'[e]) = Terms(escrow[e])
    <3>1. CASE d # e
      BY <1>1, <2>3, <3>1 DEF RaiseDispute, Paid, Returned, Decided, EscrowTypeOK
    <3>2. CASE d = e /\ RaiseDispute(e)
      BY <1>1, <2>1, <3>2 DEF RaiseDispute, IsPending, EscrowTypeOK, Terms, Escrow
    <3>3. ASSUME d = e, NEW s, Decided(e, s)
          PROVE  /\ escrow[e].status \in {"Pending", "Disputed"}
                 /\ Terms(escrow'[e]) = Terms(escrow[e])
      BY <1>1, <2>1, <3>3 DEF Decided, EscrowTypeOK, Terms, Escrow
    <3> QED
      BY <2>3, <3>1, <3>2, <3>3 DEF Paid, Returned
  <2>4. ASSUME NEW d \in Escrows, NEW a \in Accounts, NEW b \in Accounts,
               NEW amount \in Amounts, NEW t \in ReleaseTimes, CreateEscrow(d, a, b, amount, t)
        PROVE  escrow'[e] = escrow[e]
    BY <1>1, <2>4 DEF CreateEscrow, IdFree, EscrowTypeOK
  <2>5. UNCHANGED escrow => escrow'[e] = escrow[e]
    OBVIOUS
  <2> QED
    BY <1>1, <2>2, <2>3, <2>4, <2>5, NextCases DEF Initialize, SetDisputeWindow, Tick, escrowVars
<1>2. EscrowTypeOK /\ [EscrowNext]_escrowVars =>
        [\A e \in Escrows : escrow[e].status # "unused" =>
          /\ Terms(escrow'[e]) = Terms(escrow[e])
          /\ escrow[e].status \in {"Released", "Refunded"} => escrow'[e] = escrow[e]]_escrowVars
  BY <1>1
<1> QED
  BY <1>2, EscrowTypeCorrect, PTL DEF EscrowSpec, TermsNeverChange
=============================================================================
