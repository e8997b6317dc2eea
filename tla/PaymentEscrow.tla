---------------------------- MODULE PaymentEscrow ----------------------------
(***************************************************************************)
(* The Soroban contract contracts/payment_escrow: funds locked between a   *)
(* depositor and a beneficiary, decided by the administrator, by a claim   *)
(* of the beneficiary after the release time, or through a dispute.  An    *)
(* invocation is atomic: one that fails or panics leaves no trace, so that *)
(* an action is an invocation that succeeds.                               *)
(***************************************************************************)
EXTENDS UnitSums, SequencesExt

CONSTANTS
    Escrows,         \* escrow ids callers may choose
    Accounts,        \* addresses: depositors, beneficiaries, the administrator
    InitialBalance,  \* [Accounts -> Nat], payment tokens held outside
    Amounts,         \* amounts passed to create_escrow
    DisputeWindows,  \* values passed to set_dispute_window (seconds)
    ReleaseTimes,    \* values passed as release_after, 0 disables claims
    MaxTime,         \* bound on the ledger timestamp
    MaxU64,          \* largest u64; overflow-checks makes a larger sum panic
    Nothing

ASSUME EscrowsFinite == IsFiniteSet(Escrows)
ASSUME InitialBalanceAssumption == InitialBalance \in [Accounts -> Nat]
ASSUME AmountsAssumption == Amounts \subseteq Int
ASSUME TimesAssumption ==
    /\ DisputeWindows \subseteq 0..MaxU64 /\ ReleaseTimes \subseteq 0..MaxU64
    /\ MaxU64 \in Nat /\ MaxTime \in 0..MaxU64
ASSUME NothingAssumption == Nothing \notin Accounts \cup Int

VARIABLES
    admin,          \* Nothing until initialize
    disputeWindow,  \* DataKey::DefaultDisputeWindow
    now,            \* ledger timestamp
    escrow,         \* records by id, "unused" before create_escrow
    balance,        \* payment tokens of the accounts
    vault,          \* payment tokens of the contract
    byDepositor,    \* DataKey::DepositorEscrows
    byBeneficiary   \* DataKey::BeneficiaryEscrows

escrowVars == <<admin, disputeWindow, now, escrow, balance, vault, byDepositor,
                byBeneficiary>>

EscrowStatus == {"Pending", "Released", "Refunded", "Disputed"}

\* The fields of types::Escrow that the entry points read; an unused id has
\* status "unused" and null fields.
Unused == [status |-> "unused", depositor |-> Nothing, beneficiary |-> Nothing,
           amount |-> 0, created_at |-> 0, release_after |-> 0,
           dispute_window |-> 0, dispute_raised_at |-> Nothing, resolved_at |-> Nothing]
Timestamps == 0..MaxU64
Escrow == [status : EscrowStatus, depositor : Accounts, beneficiary : Accounts,
           amount : Nat \ {0}, created_at : Timestamps, release_after : Timestamps,
           dispute_window : Timestamps, dispute_raised_at : Timestamps \cup {Nothing},
           resolved_at : Timestamps \cup {Nothing}]

EscrowInit ==
    /\ admin = Nothing /\ disputeWindow = 0 /\ now = 0
    /\ escrow = [e \in Escrows |-> Unused]
    /\ balance = InitialBalance /\ vault = 0
    /\ byDepositor = [a \in Accounts |-> <<>>]
    /\ byBeneficiary = [a \in Accounts |-> <<>>]

Initialize(a, window) ==
    /\ admin = Nothing
    /\ admin' = a /\ disputeWindow' = window
    /\ UNCHANGED <<now, escrow, balance, vault, byDepositor, byBeneficiary>>

\* Variant: the new default is applied to the escrows in flight.
SetDisputeWindowEverywhere(window) ==
    /\ admin # Nothing
    /\ disputeWindow' = window
    /\ escrow' = [e \in Escrows |->
         IF escrow[e].status = "Pending" THEN [escrow[e] EXCEPT !.dispute_window = window]
                                         ELSE escrow[e]]
    /\ UNCHANGED <<admin, now, balance, vault, byDepositor, byBeneficiary>>

SetDisputeWindow(window) ==
    /\ admin # Nothing
    /\ disputeWindow' = window
    /\ UNCHANGED <<admin, now, escrow, balance, vault, byDepositor, byBeneficiary>>

IdFree(e) == escrow[e].status = "unused"

AmountValid(amount) == amount > 0

\* get_payment_token fails before initialize; the token's transfer panics when
\* the depositor cannot pay.
CreateEscrow(e, depositor, beneficiary, amount, releaseAfter) ==
    /\ admin # Nothing /\ AmountValid(amount) /\ IdFree(e)
    /\ amount <= balance[depositor]
    /\ balance' = [balance EXCEPT ![depositor] = @ - amount]
    /\ vault' = vault + amount
    /\ escrow' = [escrow EXCEPT ![e] =
         [status |-> "Pending", depositor |-> depositor, beneficiary |-> beneficiary,
          amount |-> amount, created_at |-> now, release_after |-> releaseAfter,
          dispute_window |-> disputeWindow, dispute_raised_at |-> Nothing,
          resolved_at |-> Nothing]]
    /\ byDepositor' = [byDepositor EXCEPT ![depositor] = Append(@, e)]
    /\ byBeneficiary' = [byBeneficiary EXCEPT ![beneficiary] = Append(@, e)]
    /\ UNCHANGED <<admin, disputeWindow, now>>

\* The transfer out of the contract and the final state of the record.
Decide(e, recipient, status) ==
    /\ escrow[e].amount <= vault
    /\ vault' = vault - escrow[e].amount
    /\ balance' = [balance EXCEPT ![recipient] = @ + escrow[e].amount]
    /\ escrow' = [escrow EXCEPT ![e] = [@ EXCEPT !.status = status, !.resolved_at = now]]
    /\ UNCHANGED <<admin, disputeWindow, now, byDepositor, byBeneficiary>>

IsPending(e) == escrow[e].status = "Pending"

Release(e) == admin # Nothing /\ IsPending(e) /\ Decide(e, escrow[e].beneficiary, "Released")

\* Variant: the refund goes to the beneficiary.
RefundMisdirected(e) ==
    admin # Nothing /\ IsPending(e) /\ Decide(e, escrow[e].beneficiary, "Refunded")

Refund(e) == admin # Nothing /\ IsPending(e) /\ Decide(e, escrow[e].depositor, "Refunded")

\* created_at + dispute_window is computed in u64.
WindowOpen(e) ==
    /\ escrow[e].dispute_window # 0
    /\ escrow[e].created_at + escrow[e].dispute_window <= MaxU64
    /\ now <= escrow[e].created_at + escrow[e].dispute_window

RaiseDispute(e) ==
    /\ IsPending(e) /\ WindowOpen(e)
    /\ escrow' = [escrow EXCEPT ![e] =
         [@ EXCEPT !.status = "Disputed", !.dispute_raised_at = now]]
    /\ UNCHANGED <<admin, disputeWindow, now, balance, vault, byDepositor, byBeneficiary>>

ResolveDispute(e, releaseToBeneficiary) ==
    /\ admin # Nothing /\ escrow[e].status = "Disputed"
    /\ IF releaseToBeneficiary
       THEN Decide(e, escrow[e].beneficiary, "Released")
       ELSE Decide(e, escrow[e].depositor, "Refunded")

\* Variant: the comparison with release_after is inverted.
ClaimEarly(e) == escrow[e].release_after # 0 /\ now <= escrow[e].release_after

ClaimDue(e) == escrow[e].release_after # 0 /\ now >= escrow[e].release_after

Claim(e) == IsPending(e) /\ ClaimDue(e) /\ Decide(e, escrow[e].beneficiary, "Released")

\* A ledger closes with a later timestamp.
Tick ==
    /\ now < MaxTime /\ now' = now + 1
    /\ UNCHANGED <<admin, disputeWindow, escrow, balance, vault, byDepositor, byBeneficiary>>

EscrowNext ==
    \/ \E a \in Accounts, window \in DisputeWindows : Initialize(a, window)
    \/ \E window \in DisputeWindows : SetDisputeWindow(window)
    \/ \E e \in Escrows :
        \/ \E a, b \in Accounts, amount \in Amounts, t \in ReleaseTimes :
              CreateEscrow(e, a, b, amount, t)
        \/ Release(e) \/ Refund(e) \/ RaiseDispute(e) \/ Claim(e)
        \/ \E toBeneficiary \in BOOLEAN : ResolveDispute(e, toBeneficiary)
    \/ Tick

EscrowSpec == EscrowInit /\ [][EscrowNext]_escrowVars

\* Ledgers keep closing and a beneficiary who may claim does.
EscrowFairSpec == EscrowSpec /\ WF_escrowVars(Tick) /\ \A e \in Escrows : WF_escrowVars(Claim(e))

-----------------------------------------------------------------------------
Amount == [e \in Escrows |-> escrow[e].amount]
Open == {e \in Escrows : escrow[e].status \in {"Pending", "Disputed"}}

\* Records, balances and indexes keep their types.
EscrowTypeOK ==
    /\ admin \in Accounts \cup {Nothing}
    /\ disputeWindow \in Timestamps /\ now \in 0..MaxTime
    /\ escrow \in [Escrows -> Escrow \cup {Unused}]
    /\ balance \in [Accounts -> Nat] /\ vault \in Nat
    /\ byDepositor \in [Accounts -> Seq(Escrows)]
    /\ byBeneficiary \in [Accounts -> Seq(Escrows)]

\* The contract holds exactly the funds of the undecided escrows: no decision
\* pays twice and none pays from the funds of another escrow.
FundsBacked == vault = Total(Open, Amount)

\* Every account holds what the status of the escrows says it should: its
\* deposits are gone unless refunded, and released escrows have reached their
\* beneficiary.
Deposited(a) ==
    {e \in Escrows : escrow[e].depositor = a /\ escrow[e].status # "Refunded"}
Received(a) ==
    {e \in Escrows : escrow[e].beneficiary = a /\ escrow[e].status = "Released"}
BalancesExplained ==
    \A a \in Accounts :
        balance[a] + Total(Deposited(a), Amount)
            = InitialBalance[a] + Total(Received(a), Amount)

\* No sequence of releases, refunds, disputes and claims creates, loses or
\* misdirects a token: see the two parts.
MoneyExplained == FundsBacked /\ BalancesExplained

\* Each created escrow is listed once by its depositor, once by its beneficiary
\* and by nobody else.
IndexesExact ==
    \A a \in Accounts :
        /\ IsInjective(byDepositor[a]) /\ IsInjective(byBeneficiary[a])
        /\ ToSet(byDepositor[a]) = {e \in Escrows : escrow[e].depositor = a}
        /\ ToSet(byBeneficiary[a]) = {e \in Escrows : escrow[e].beneficiary = a}

\* The terms of an escrow are fixed at its creation, a later default window
\* included, and a decision is final.
Terms(r) == <<r.depositor, r.beneficiary, r.amount, r.created_at, r.release_after,
              r.dispute_window>>
TermsNeverChange ==
    [][\A e \in Escrows : escrow[e].status # "unused" =>
          /\ Terms(escrow'[e]) = Terms(escrow[e])
          /\ escrow[e].status \in {"Released", "Refunded"} => escrow'[e] = escrow[e]]_escrowVars

\* Undisputed funds with a release time do not stay in the contract.
UndisputedIsPaid ==
    \A e \in Escrows :
        (escrow[e].status = "Pending" /\ escrow[e].release_after \in 1..MaxTime)
            ~> escrow[e].status # "Pending"
=============================================================================
