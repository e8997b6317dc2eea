\* Two escrows and three ledger timestamps: an escrow is created before and
\* after a change of the default window, and both decided in either order.
SPECIFICATION EscrowFairSpec
CONSTANTS
    e1 = e1
    e2 = e2
    platform = platform
    hub = hub
    Nothing = Nothing
    MaxTime = 2
    MaxU64 = 2
    Escrows <- MCEscrows
    Accounts <- MCAccounts
    InitialBalance <- MCInitialBalance
    Amounts <- MCAmounts
    DisputeWindows <- MCWindows
    ReleaseTimes <- MCReleaseTimes
INVARIANTS MoneyExplained
PROPERTIES TermsNeverChange UndisputedIsPaid
CHECK_DEADLOCK FALSE
