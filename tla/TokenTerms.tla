----------------------------- MODULE TokenTerms ------------------------------
(***************************************************************************)
(* The terms of a membership token of contracts/manage_hub: status, expiry *)
(* and tier, as renewal, grace period, upgrade and rollback write them,    *)
(* and the emergency pauses.  Who owns the token is TokenOwnership's.  An  *)
(* action is an invocation that succeeds: a failed one is reverted, so     *)
(* that an automatic renewal refused for its payment token leaves no grace *)
(* period behind.  A batch upgrade is a sequence of upgrades.              *)
(***************************************************************************)
EXTENDS LedgerBase, SequencesExt

CONSTANTS
    Tokens,
    Tiers,          \* subscription tiers with a price
    Statuses,       \* values of MembershipStatus passed to upgrade_token
    Expiries,       \* expiry dates passed to issue_token and upgrade_token
    Month, Year,    \* durations of the two billing cycles
    Grace, Notice,  \* the renewal configuration
    MaxRollbacks,   \* max_rollbacks of the upgrade configuration, 0 is no limit
    PauseTimes,     \* values of auto_unpause_after and time_lock_duration
    MaxExpiry, MaxVersion, MaxRenewals  \* bounds

ASSUME TermsAssumption ==
    /\ Expiries \subseteq Nat /\ Month \in Nat /\ Year \in Nat
    /\ Grace \in Nat /\ MaxRollbacks \in Nat
    /\ MaxTime \in Nat /\ MaxVersion \in Nat
    /\ None \notin Nat

\* A version of a token as a snapshot keeps it.
Terms == [expiry : Nat, status : Statuses \cup {"Active", "GracePeriod"},
          tier : Tiers \cup {None}]

Versions == 0..MaxVersion

\* The token itself.
TokenRecords ==
    [status : Statuses \cup {"Active", "GracePeriod"}, expiry : Nat, tier : Tiers \cup {None},
     graceEntered : Nat \cup {None}, graceExpires : Nat \cup {None}, version : Versions]

ASSUME NoTermsAssumption == None \notin Terms /\ None \notin TokenRecords

VARIABLES
    token,        \* DataKey Token: the terms, None before the token is issued
    snapshot,     \* DataKey VersionSnapshot: terms by version
    history,      \* DataKey UpgradeHistory
    renewals,     \* DataKey RenewalHistory, each with the version it renewed
    auto,         \* tokens whose owner has automatic renewal in USDC enabled
    pause,        \* DataKey EmergencyPauseState
    tokenPaused   \* DataKey TokenPaused

termsVars == <<token, snapshot, history, renewals, auto, pause, tokenPaused, now>>
ledger == <<auto, pause, tokenPaused, now>>

NotPaused == [on |-> FALSE, autoUnpauseAt |-> None, timeLockUntil |-> None]

TermsInit ==
    /\ token = [t \in Tokens |-> None]
    /\ snapshot = [t \in Tokens |-> [v \in Versions |-> None]]
    /\ history = [t \in Tokens |-> <<>>]
    /\ renewals = [t \in Tokens |-> <<>>]
    /\ auto = {} /\ pause = NotPaused /\ tokenPaused = {} /\ now = 0

\* The pause lifts itself at its deadline without a write.
ContractPaused ==
    /\ pause.on
    /\ pause.autoUnpauseAt # None => now < pause.autoUnpauseAt

Blocked(t) == ContractPaused \/ t \in tokenPaused

-----------------------------------------------------------------------------
\* Renewal and grace period

IssueToken(t, expiry) ==
    /\ token[t] = None /\ ~ContractPaused /\ expiry > now
    /\ token' = [token EXCEPT ![t] =
          [status |-> "Active", expiry |-> expiry, tier |-> None,
           graceEntered |-> None, graceExpires |-> None, version |-> 0]]
    /\ UNCHANGED <<snapshot, history, renewals, ledger>>

\* Appends to the renewal history and stores the renewed token.
Renew(t, renewed) ==
    /\ Len(renewals[t]) < MaxRenewals /\ renewed.expiry <= MaxExpiry
    /\ token' = [token EXCEPT ![t] = renewed]
    /\ renewals' = [renewals EXCEPT ![t] = Append(@,
          [old |-> token[t].expiry, new |-> renewed.expiry, version |-> renewed.version])]
    /\ UNCHANGED <<snapshot, history, ledger>>

RenewalBase(expiry) == Max({expiry, now})

\* Renewal ends the grace period and keeps the version.
RenewedToken(k, tier, duration) ==
    [status |-> "Active", expiry |-> RenewalBase(k.expiry) + duration, tier |-> tier,
     graceEntered |-> None, graceExpires |-> None, version |-> k.version]

\* Signed by the owner, in any status.
RenewToken(t, tier, duration) ==
    /\ token[t] # None /\ ~Blocked(t)
    /\ Renew(t, RenewedToken(token[t], tier, duration))

Eligible(k) ==
    /\ k.expiry >= Notice /\ now >= k.expiry - Notice /\ now < k.expiry
    /\ k.status = "Active"

ProlongedToken(k, duration) == [k EXCEPT !.expiry = k.expiry + duration]

\* Called by anyone; no pause is looked at.
ProcessAutoRenewal(t) ==
    /\ token[t] # None /\ t \in auto
    /\ Eligible(token[t]) /\ token[t].tier # None
    /\ Renew(t, ProlongedToken(token[t], Month))

InGracePeriod(k) ==
    [k EXCEPT !.status = "GracePeriod", !.graceEntered = now, !.graceExpires = now + Grace]

\* Called by anyone; no pause is looked at.
CheckAndApplyGracePeriod(t) ==
    /\ token[t] # None /\ token[t].status = "Active" /\ now > token[t].expiry
    /\ token' = [token EXCEPT ![t] = InGracePeriod(token[t])]
    /\ UNCHANGED <<snapshot, history, renewals, ledger>>

-----------------------------------------------------------------------------
\* Versions

CaptureSnapshot(k) == [expiry |-> k.expiry, status |-> k.status, tier |-> k.tier]

\* The token with the terms s; the grace period is kept as it is.
WithTerms(k, s, version) ==
    [k EXCEPT !.expiry = s.expiry, !.status = s.status, !.tier = s.tier, !.version = version]

\* Stores the snapshot of the version that ends, the token of the next one
\* and the record of the step between them.
NextVersion(t, migrated, isRollback) ==
    LET from == token[t].version IN
    /\ migrated.version <= MaxVersion
    /\ snapshot' = [snapshot EXCEPT ![t][from] = CaptureSnapshot(token[t])]
    /\ token' = [token EXCEPT ![t] = migrated]
    /\ history' = [history EXCEPT ![t] = Append(@,
          [from |-> from, to |-> migrated.version, rollback |-> isRollback])]
    /\ UNCHANGED <<renewals, ledger>>

\* None keeps the value.
UpgradeToken(t, expiry, tier, status) ==
    LET k == token[t]
        s == [expiry |-> IF expiry = None THEN k.expiry ELSE expiry,
              tier |-> IF tier = None THEN k.tier ELSE tier,
              status |-> IF status = None THEN k.status ELSE status]
    IN
    /\ k # None
    /\ NextVersion(t, WithTerms(k, s, k.version + 1), FALSE)

\* Variant: the version goes back together with the terms.
TargetVersion(k, target) == target

VersionAfterRollback(k, target) == k.version + 1

CountRollbacks(t) == Cardinality({i \in 1..Len(history[t]) : history[t][i].rollback})

RollbackAllowed(t) == MaxRollbacks > 0 => CountRollbacks(t) < MaxRollbacks

RollbackTokenUpgrade(t, target) ==
    LET k == token[t]
        s == snapshot[t][target]
    IN
    /\ k # None /\ s # None /\ RollbackAllowed(t)
    /\ NextVersion(t, WithTerms(k, s, VersionAfterRollback(k, target)), TRUE)

-----------------------------------------------------------------------------
\* Pauses and settings

\* A pause replaces the deadline and the lock of the pause before it.
EmergencyPause(autoUnpauseAfter, timeLock) ==
    /\ pause' = [on |-> TRUE, autoUnpauseAt |-> Later(autoUnpauseAfter),
                 timeLockUntil |-> Later(timeLock)]
    /\ UNCHANGED <<token, snapshot, history, renewals, auto, tokenPaused, now>>

EmergencyUnpause ==
    /\ pause.timeLockUntil # None => now >= pause.timeLockUntil
    /\ pause' = NotPaused
    /\ UNCHANGED <<token, snapshot, history, renewals, auto, tokenPaused, now>>

PauseTokenOperations(t) ==
    /\ token[t] # None
    /\ tokenPaused' = tokenPaused \cup {t}
    /\ UNCHANGED <<token, snapshot, history, renewals, auto, pause, now>>

UnpauseTokenOperations(t) ==
    /\ token[t] # None
    /\ tokenPaused' = tokenPaused \ {t}
    /\ UNCHANGED <<token, snapshot, history, renewals, auto, pause, now>>

\* An owner has one setting, for one token, and a transfer brings the
\* setting of the new owner: any set of tokens may be left.
SetAutoRenewal(ts) ==
    /\ auto' = ts
    /\ UNCHANGED <<token, snapshot, history, renewals, pause, tokenPaused, now>>

TokenStep(t) ==
    \/ \E e \in Expiries : IssueToken(t, e)
    \/ \E tier \in Tiers, d \in {Month, Year} : RenewToken(t, tier, d)
    \/ ProcessAutoRenewal(t) \/ CheckAndApplyGracePeriod(t)
    \/ \E e \in Expiries \cup {None}, tier \in Tiers \cup {None},
          st \in Statuses \cup {None} : UpgradeToken(t, e, tier, st)
    \/ \E v \in Versions : RollbackTokenUpgrade(t, v)
    \/ PauseTokenOperations(t) \/ UnpauseTokenOperations(t)

TermsNext ==
    \/ \E t \in Tokens : TokenStep(t)
    \/ \E a, l \in PauseTimes \cup {None} : EmergencyPause(a, l)
    \/ EmergencyUnpause
    \/ \E ts \in SUBSET Tokens : SetAutoRenewal(ts)
    \/ Tick /\ UNCHANGED <<token, snapshot, history, renewals, auto, pause, tokenPaused>>

TermsSpec == TermsInit /\ [][TermsNext]_termsVars

-----------------------------------------------------------------------------
\* Types, and that what hangs on a token exists only with the token.
TermsTypeOK ==
    /\ \A t \in Tokens : token[t] # None =>
          /\ token[t] \in TokenRecords
          /\ token[t].graceEntered = None <=> token[t].graceExpires = None
    /\ \A t \in Tokens, v \in Versions : snapshot[t][v] \in Terms \cup {None}
    /\ \A t \in Tokens : token[t] = None => history[t] = <<>> /\ renewals[t] = <<>>
    /\ auto \subseteq Tokens /\ tokenPaused \subseteq Tokens /\ now \in 0..MaxTime

\* Nothing of a token's past is lost: its history is the chain of steps from
\* version 0 to the present one, rollbacks included, and every version it has
\* left, and no other, can be rolled back to.
HistoryComplete ==
    \A t \in Tokens : token[t] # None =>
        /\ Len(history[t]) = token[t].version
        /\ \A i \in 1..Len(history[t]) : history[t][i].from = i - 1 /\ history[t][i].to = i
        /\ {v \in Versions : snapshot[t][v] # None} = 0..(token[t].version - 1)

\* A version that was left is never written again: what a rollback restores
\* is what the token was when it left that version, however often it has been
\* renewed, upgraded and rolled back since.
SnapshotsImmutable ==
    \A t \in Tokens, v \in Versions : snapshot[t][v] # None => snapshot'[t][v] = snapshot[t][v]

\* At most max_rollbacks of a token's steps are rollbacks.
RollbacksBounded ==
    MaxRollbacks > 0 => \A t \in Tokens : CountRollbacks(t) <= MaxRollbacks

\* Paid time is kept: a renewal adds to the time left, and within a version
\* each renewal starts where the one before it ended or later, whatever grace
\* periods, pauses and automatic renewals came between.
RenewalsChain ==
    \A t \in Tokens : LET r == renewals[t] IN
        /\ \A i \in 1..Len(r) : r[i].new >= r[i].old + Min({Month, Year})
        /\ \A i \in 1..Len(r) - 1 : r[i].version = r[i + 1].version =>
              r[i + 1].old = r[i].new

\* A token's past and its paid time are kept: see the four parts.
TermsConsistent == TermsTypeOK /\ HistoryComplete /\ RollbacksBounded /\ RenewalsChain

\* And so is every version it left.
TermsKept == [][TermsConsistent' /\ SnapshotsImmutable]_termsVars
=============================================================================
