--------------------------- MODULE HubSubscriptions --------------------------
(***************************************************************************)
(* Subscriptions of contracts/manage_hub over time: creation, pause and    *)
(* resume by the member or the administrator, cancellation and renewal.    *)
(* Their tiers are HubTiers'.  Payments move no tokens (the code leaves    *)
(* the transfer out) and are not modelled.  account is a history variable: *)
(* what was bought, and how much of it an active subscription has used.    *)
(***************************************************************************)
EXTENDS LedgerBase, SequencesExt, UnitSums

CONSTANTS
    Subscriptions,
    Durations,                       \* durations bought at creation and renewal
    PauseConfigs,                    \* values of PauseConfig
    DefaultPauseConfig,
    MaxExpiresAt, MaxPauseHistory    \* bounds

\* The configurations there can be.
Configs == PauseConfigs \cup {DefaultPauseConfig}

\* An entry of the history; only a resumption states how long the pause was.
PauseEntries == [action : {"Pause", "Resume"}, at : Nat, byAdmin : BOOLEAN, duration : Nat \cup {None}]

Plans == [status : {"Active", "Paused", "Inactive"}, expiresAt : Nat, pausedAt : Nat \cup {None},
          lastResumedAt : Nat, pauseCount : Nat, totalPaused : Nat, history : Seq(PauseEntries)]

ASSUME SubscriptionsAssumption ==
    /\ Durations \subseteq Nat /\ MaxExpiresAt \in Nat
    /\ \A c \in Configs : c.maxDuration \in Nat /\ c.maxCount \in Nat /\ c.minActive \in Nat
    /\ None \notin Nat

ASSUME NoPlanAssumption == None \notin Plans

VARIABLES
    subscription,  \* SubscriptionDataKey Subscription
    pauseConfig,   \* SubscriptionDataKey PauseConfig
    account        \* per subscription: bought, used, whole (nothing forfeited)

subscriptionVars == <<subscription, pauseConfig, account, now>>

SubscriptionsInit ==
    /\ subscription = [s \in Subscriptions |-> None]
    /\ account = [s \in Subscriptions |-> [bought |-> 0, used |-> 0, whole |-> TRUE]]
    /\ pauseConfig = DefaultPauseConfig
    /\ now = 0

SetPauseConfig(config) ==
    /\ config.maxDuration > 0 /\ config.maxCount > 0
    /\ pauseConfig' = config
    /\ UNCHANGED <<subscription, account, now>>

Buy(s, duration) ==
    account' = [account EXCEPT ![s] = [account[s] EXCEPT !.bought = account[s].bought + duration]]

Forfeit(s) == account' = [account EXCEPT ![s] = [account[s] EXCEPT !.whole = FALSE]]

CreateSubscription(s, duration) ==
    /\ subscription[s] = None /\ now + duration <= MaxExpiresAt
    /\ subscription' = [subscription EXCEPT ![s] =
          [status |-> "Active", expiresAt |-> now + duration, pausedAt |-> None,
           lastResumedAt |-> now, pauseCount |-> 0, totalPaused |-> 0, history |-> <<>>]]
    /\ Buy(s, duration)
    /\ UNCHANGED <<pauseConfig, now>>

-----------------------------------------------------------------------------
\* Pausing

\* The limits of a member; pauses by the administrator count towards them.
MayPause(k) ==
    /\ k.pauseCount < pauseConfig.maxCount
    /\ now - k.lastResumedAt >= pauseConfig.minActive

PausedPlan(k, byAdmin) ==
    [k EXCEPT !.status = "Paused", !.pausedAt = now, !.pauseCount = k.pauseCount + 1,
              !.history = Append(k.history, [action |-> "Pause", at |-> now, byAdmin |-> byAdmin,
                                             duration |-> None])]

PauseSubscription(s, byAdmin) ==
    LET k == subscription[s] IN
    /\ k # None /\ k.status = "Active" /\ now < k.expiresAt
    /\ ~byAdmin => MayPause(k)
    /\ Len(k.history) < MaxPauseHistory
    /\ subscription' = [subscription EXCEPT ![s] = PausedPlan(k, byAdmin)]
    /\ UNCHANGED <<pauseConfig, account, now>>

PausedDuration(k) == now - k.pausedAt

AppliedExtension(k, byAdmin) ==
    IF byAdmin THEN PausedDuration(k) ELSE Min({PausedDuration(k), pauseConfig.maxDuration})

ResumedPlan(k, byAdmin, extension) ==
    [k EXCEPT !.status = "Active", !.pausedAt = None, !.lastResumedAt = now,
              !.expiresAt = k.expiresAt + extension,
              !.totalPaused = k.totalPaused + PausedDuration(k),
              !.history = Append(k.history, [action |-> "Resume", at |-> now, byAdmin |-> byAdmin,
                                             duration |-> PausedDuration(k)])]

ResumeSubscription(s, byAdmin) ==
    LET k == subscription[s]
        extension == AppliedExtension(k, byAdmin)
    IN
    /\ k # None /\ k.status = "Paused"
    /\ k.expiresAt + extension <= MaxExpiresAt
    /\ subscription' = [subscription EXCEPT ![s] = ResumedPlan(k, byAdmin, extension)]
    /\ IF extension = PausedDuration(k) THEN UNCHANGED account ELSE Forfeit(s)
    /\ UNCHANGED <<pauseConfig, now>>

-----------------------------------------------------------------------------
\* Cancellation, renewal, time

\* The extension for a pause that is still open is lost.
Cancelled(k) == [k EXCEPT !.status = "Inactive", !.pausedAt = None]

CancelSubscription(s) ==
    /\ subscription[s] # None
    /\ subscription' = [subscription EXCEPT ![s] = Cancelled(subscription[s])]
    /\ Forfeit(s)
    /\ UNCHANGED <<pauseConfig, now>>

\* Variant: time that passed after the expiry is charged.
FromExpiry(k) == k.expiresAt

SubscriptionBase(k) == Max({k.expiresAt, now})

RenewedPlan(k, duration) ==
    [k EXCEPT !.status = "Active", !.expiresAt = SubscriptionBase(k) + duration]

\* Revives a cancelled or expired subscription.
RenewSubscription(s, duration) ==
    LET k == subscription[s] IN
    /\ k # None /\ k.status # "Paused"
    /\ SubscriptionBase(k) + duration <= MaxExpiresAt
    /\ subscription' = [subscription EXCEPT ![s] = RenewedPlan(k, duration)]
    /\ Buy(s, duration)
    /\ UNCHANGED <<pauseConfig, now>>

Running(s) ==
    /\ subscription[s] # None
    /\ subscription[s].status = "Active" /\ now < subscription[s].expiresAt

UseTime ==
    /\ Tick
    /\ account' = [s \in Subscriptions |->
          IF Running(s) THEN [account[s] EXCEPT !.used = account[s].used + 1] ELSE account[s]]
    /\ UNCHANGED <<subscription, pauseConfig>>

SubscriptionsNext ==
    \/ \E config \in PauseConfigs : SetPauseConfig(config)
    \/ \E s \in Subscriptions, d \in Durations : CreateSubscription(s, d) \/ RenewSubscription(s, d)
    \/ \E s \in Subscriptions, byAdmin \in BOOLEAN :
          PauseSubscription(s, byAdmin) \/ ResumeSubscription(s, byAdmin)
    \/ \E s \in Subscriptions : CancelSubscription(s)
    \/ UseTime

SubscriptionsSpec == SubscriptionsInit /\ [][SubscriptionsNext]_subscriptionVars

-----------------------------------------------------------------------------
\* Types; a subscription has a pause to end exactly while it is paused.
SubscriptionsTypeOK ==
    \A s \in Subscriptions : LET k == subscription[s] IN k # None =>
        /\ k \in Plans /\ k.expiresAt <= MaxExpiresAt
        /\ k.lastResumedAt <= now /\ k.totalPaused <= now
        /\ k.pausedAt # None => k.pausedAt <= now
        /\ k.status = "Paused" <=> k.pausedAt # None

TimeLeft(k) ==
    LET at == IF k.status = "Paused" THEN k.pausedAt ELSE now IN
    IF k.expiresAt > at THEN k.expiresAt - at ELSE 0

\* Time that was paid for runs only while a subscription is active: what is
\* left and what was used never exceed what was bought, whoever pauses and
\* resumes, and nothing is lost unless a pause was longer than allowed or the
\* subscription was cancelled.
TimeIsConserved ==
    \A s \in Subscriptions : subscription[s] # None =>
        LET spent == account[s].used + TimeLeft(subscription[s]) IN
        /\ spent <= account[s].bought
        /\ account[s].whole => spent = account[s].bought

Of(h, action) == {i \in 1..Len(h) : h[i].action = action}

Own(h) == {i \in Of(h, "Pause") : ~h[i].byAdmin}

\* The history can be audited: every resumption directly follows the pause it
\* ends and states its length, and the pauses are as many as were counted.
Explained(k) ==
    LET h == k.history IN
    /\ Cardinality(Of(h, "Pause")) = k.pauseCount
    /\ k.status = "Paused" =>
          Len(h) > 0 /\ h[Len(h)].action = "Pause" /\ h[Len(h)].at = k.pausedAt
    /\ \A i \in Of(h, "Resume") :
          i > 1 /\ h[i - 1].action = "Pause" /\ h[i].duration = h[i].at - h[i - 1].at
    /\ k.totalPaused = Total(Of(h, "Resume"), [i \in 1..Len(h) |-> h[i].duration])

\* A member pauses no more often than the most generous configuration allows
\* and, once resumed, not before the shortest active time is over, whatever
\* the administrator paused, resumed or configured in between.
WithinLimits(h) ==
    /\ \E c \in Configs : Cardinality(Own(h)) <= c.maxCount
    /\ \A i \in Own(h) : i > 1 /\ h[i - 1].action = "Resume" =>
          \E c \in Configs : h[i].at - h[i - 1].at >= c.minActive

\* What a subscription records of its pauses agrees with its status, its
\* counters, the limits and the time left: see the four parts.
PausesConsistent ==
    /\ SubscriptionsTypeOK /\ TimeIsConserved
    /\ \A s \in Subscriptions : subscription[s] # None =>
          Explained(subscription[s]) /\ WithinLimits(subscription[s].history)
=============================================================================
