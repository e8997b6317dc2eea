------------------------------ MODULE LedgerBase -----------------------------
(***************************************************************************)
(* What the contracts of the membership products share: addresses and the  *)
(* timestamp of the ledger, which only moves forward.                      *)
(***************************************************************************)
EXTENDS Integers, FiniteSets

CONSTANTS
    Accounts,   \* addresses
    TierIds,    \* ids of tiers
    Day,        \* 86400 s
    MaxTime,    \* bound
    None

ASSUME AccountsFinite == IsFiniteSet(Accounts)

VARIABLE now

Later(secs) == IF secs = None THEN None ELSE now + secs

Tick == now < MaxTime /\ now' = now + 1
=============================================================================
