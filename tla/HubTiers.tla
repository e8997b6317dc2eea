------------------------------- MODULE HubTiers ------------------------------
(***************************************************************************)
(* Tiers of contracts/manage_hub.  In the first part, their life,          *)
(* promotions, the tier of each subscription, requests to change it and    *)
(* the counter of subscribers (TiersSpec).  In the second, for one         *)
(* subscription, what a tier costs and grants: its price under a           *)
(* promotion, the amount quoted for a change of tier, and the features it  *)
(* gives until it expires (PricingSpec).  The status of a subscription is  *)
(* HubSubscriptions': nothing here reads it but renewal, which a paused    *)
(* subscription refuses.  Time is in units of which Day make a day.        *)
(***************************************************************************)
EXTENDS LedgerBase, SequencesExt

CONSTANTS
    Subscribers,     \* ids of subscriptions
    Codes,           \* promotion codes
    PromoIds, PromoWindows, RedemptionLimits,  \* of the promotions created
    RequestIds,      \* change requests are numbered by timestamp modulo this
    MaxSubscribers,  \* bound
    Levels,               \* TierIds -> 0..3, the rank of TierLevel
    Features, Offers,     \* TierIds -> SUBSET Features
    Prices,               \* prices an administrator sets
    Discounts,            \* percentages of promotions
    MonthDays, YearDays,  \* 30 and 365
    MaxTerm               \* bound on the expiry of the subscription

\* Records of the storage, None where there is none.
Enrolments == [tier : TierIds \cup {None}, promotion : PromoIds \cup {None}]
Changes == [from : TierIds, to : TierIds, status : {"Pending", "Completed", "Cancelled"}]

Cycles == {"Monthly", "Annual"}
PriceRecords == [Monthly : Nat, Annual : Nat]
PlanRecords == [tier : TierIds, cycle : Cycles, active : BOOLEAN, expiresAt : Nat]

ASSUME PricingAssumption ==
    /\ Levels \in [TierIds -> Nat] /\ Prices \subseteq Int
    /\ Day \in Nat \ {0} /\ MonthDays \in Nat \ {0} /\ YearDays \in Nat \ {0}
    /\ None \notin PriceRecords /\ None \notin PlanRecords

ASSUME TiersAssumption ==
    /\ IsFiniteSet(Subscribers)
    /\ RequestIds \in Nat \ {0} /\ RedemptionLimits \subseteq Nat
    /\ None \notin TierIds /\ None \notin PromoIds /\ None \notin BOOLEAN
    /\ None \notin Enrolments /\ None \notin Changes

VARIABLES
    tierActive,   \* SubscriptionDataKey Tier: is_active, None before creation
    subscribers,  \* SubscriptionDataKey TierAnalytics: active_subscribers
    enrolled,     \* Subscription: tier and the promotion it was sold with
    promotions,   \* SubscriptionDataKey TierPromotionList
    request,      \* SubscriptionDataKey TierChangeRequest
    price,   \* SubscriptionDataKey Tier: price and annual_price, by cycle; None before creation
    plan     \* the subscription: tier, cycle, expiry and status; None before it

tierVars == <<tierActive, subscribers, enrolled, promotions, request, now>>

TiersInit ==
    /\ tierActive = [t \in TierIds |-> None]
    /\ subscribers = [t \in TierIds |-> 0]
    /\ enrolled = [s \in Subscribers |-> None]
    /\ promotions = <<>>
    /\ request = [i \in 0..RequestIds - 1 |-> None]
    /\ now = 0

-----------------------------------------------------------------------------
\* Tiers and promotions

CreateTier(t) ==
    /\ tierActive[t] = None
    /\ tierActive' = [tierActive EXCEPT ![t] = TRUE]
    /\ subscribers' = [subscribers EXCEPT ![t] = 0]
    /\ UNCHANGED <<enrolled, promotions, request, now>>

UpdateTier(t, active) ==
    /\ tierActive[t] # None
    /\ tierActive' = [tierActive EXCEPT ![t] = active]
    /\ UNCHANGED <<subscribers, enrolled, promotions, request, now>>

DeactivateTier(t) == UpdateTier(t, FALSE)

CreatePromotion(id, t, code, window, max) ==
    /\ tierActive[t] # None /\ window.end > window.start
    /\ \A i \in DOMAIN promotions : promotions[i].id # id
    /\ promotions' = Append(promotions, [id |-> id, tier |-> t, code |-> code,
          start |-> window.start, end |-> window.end, max |-> max, redemptions |-> 0])
    /\ UNCHANGED <<tierActive, subscribers, enrolled, request, now>>

Redeemable(p) == p.max > 0 => p.redemptions < p.max

\* Only the first promotion of the tier with this code is looked at.
Promotion(t, code) ==
    SelectInSeq(promotions, LAMBDA p : p.tier = t /\ p.code = code)

ApplyPromotion(i) ==
    /\ i > 0
    /\ now >= promotions[i].start /\ now <= promotions[i].end
    /\ Redeemable(promotions[i])
    /\ promotions' = [promotions EXCEPT ![i].redemptions = @ + 1]

-----------------------------------------------------------------------------
\* Subscriptions

IsActive(t) == tierActive[t] # None /\ tierActive[t]

CountSubscriber(t) ==
    /\ subscribers[t] < MaxSubscribers
    /\ subscribers' = [subscribers EXCEPT ![t] = @ + 1]

\* create_subscription, without a tier.
Enrol(s) ==
    /\ enrolled[s] = None
    /\ enrolled' = [enrolled EXCEPT ![s] = [tier |-> None, promotion |-> None]]
    /\ UNCHANGED <<tierActive, subscribers, promotions, request, now>>

CreateSubscriptionWithTier(s, t, code) ==
    LET i == Promotion(t, code) IN
    /\ enrolled[s] = None /\ IsActive(t)
    /\ IF code = None THEN UNCHANGED promotions ELSE ApplyPromotion(i)
    /\ CountSubscriber(t)
    /\ enrolled' = [enrolled EXCEPT ![s] = [tier |-> t,
          promotion |-> IF code = None THEN None ELSE promotions[i].id]]
    /\ UNCHANGED <<tierActive, request, now>>

\* A renewal counts its subscriber again.
CountRenewal(s) ==
    /\ enrolled[s] # None /\ enrolled[s].tier # None
    /\ CountSubscriber(enrolled[s].tier)
    /\ UNCHANGED <<tierActive, enrolled, promotions, request, now>>

-----------------------------------------------------------------------------
\* Change requests

\* Two requests of one second, or of one period of the numbering, share their
\* id: the later one replaces the other.
RequestTierChange(s, t) ==
    /\ enrolled[s] # None /\ enrolled[s].tier # None /\ IsActive(t)
    /\ request' = [request EXCEPT ![now % RequestIds] =
          [from |-> enrolled[s].tier, to |-> t, status |-> "Pending"]]
    /\ UNCHANGED <<tierActive, subscribers, enrolled, promotions, now>>

\* Variant: the tier the request names is the one that is left.
RequestedFrom(id, s) == request[id].from

TierLeft(id, s) == enrolled[s].tier

\* Called by the user of the request or the administrator for a subscription
\* they name; it need not be the one the request was made for, nor still have
\* the tier it had.
ProcessTierChange(id, s) ==
    LET from == TierLeft(id, s)
        to == request[id].to
        left == [t \in TierIds |-> IF t = from THEN Max({0, subscribers[t] - 1}) ELSE subscribers[t]]
    IN
    /\ request[id] # None /\ request[id].status = "Pending" /\ enrolled[s] # None
    /\ left[to] < MaxSubscribers
    /\ enrolled' = [enrolled EXCEPT ![s].tier = to]
    /\ subscribers' = [left EXCEPT ![to] = @ + 1]
    /\ request' = [request EXCEPT ![id].status = "Completed"]
    /\ UNCHANGED <<tierActive, promotions, now>>

CancelTierChange(id) ==
    /\ request[id] # None /\ request[id].status = "Pending"
    /\ request' = [request EXCEPT ![id].status = "Cancelled"]
    /\ UNCHANGED <<tierActive, subscribers, enrolled, promotions, now>>

TiersNext ==
    \/ \E t \in TierIds : CreateTier(t) \/ DeactivateTier(t) \/ UpdateTier(t, TRUE)
    \/ \E id \in PromoIds, t \in TierIds, c \in Codes, w \in PromoWindows, m \in RedemptionLimits :
          CreatePromotion(id, t, c, w, m)
    \/ \E s \in Subscribers :
          \/ Enrol(s)
          \/ \E t \in TierIds, c \in Codes \cup {None} : CreateSubscriptionWithTier(s, t, c)
    \/ \E s \in Subscribers, t \in TierIds : RequestTierChange(s, t)
    \/ \E s \in Subscribers : CountRenewal(s)
    \/ \E id \in DOMAIN request : CancelTierChange(id) \/ \E s \in Subscribers : ProcessTierChange(id, s)
    \/ Tick /\ UNCHANGED <<tierActive, subscribers, enrolled, promotions, request>>

TiersSpec == TiersInit /\ [][TiersNext]_tierVars

-----------------------------------------------------------------------------
\* Whatever names a tier names one that exists: tiers are deactivated, never
\* removed, so that a subscription, promotion or request finds its tier.
TiersExist ==
    \A t \in TierIds : tierActive[t] = None =>
        /\ subscribers[t] = 0
        /\ \A s \in Subscribers : enrolled[s] # None => enrolled[s].tier # t
        /\ \A i \in DOMAIN promotions : promotions[i].tier # t
        /\ \A i \in DOMAIN request : request[i] # None => t \notin {request[i].from, request[i].to}

\* The counter of a tier never misses one of its subscriptions, although it is
\* decremented with saturation, requests are stale when they are processed and
\* the subscription may be another one.
SubscribersCovered ==
    \A t \in TierIds :
        Cardinality({s \in Subscribers : enrolled[s] # None /\ enrolled[s].tier = t}) <= subscribers[t]

\* A promotion is granted no more often than its limit, each time to one
\* subscription, however its tier and the codes of others change.
PromotionsWithinLimits ==
    \A i \in DOMAIN promotions : LET p == promotions[i] IN
        /\ Cardinality({s \in Subscribers : enrolled[s] # None /\ enrolled[s].promotion = p.id})
              = p.redemptions
        /\ p.max > 0 => p.redemptions <= p.max

\* The records and counters of the tiers agree with the subscriptions: see the
\* three parts.
TiersConsistent == TiersExist /\ SubscribersCovered /\ PromotionsWithinLimits

-----------------------------------------------------------------------------
\* Prices and access of one subscription

pricingVars == <<price, plan, now>>
pricingState == <<price, plan>>

PricingInit ==
    /\ price = [t \in TierIds |-> None]
    /\ plan = None
    /\ now = 0

CycleDays(cycle) == IF cycle = "Monthly" THEN MonthDays ELSE YearDays

-----------------------------------------------------------------------------
\* Prices

\* create_tier and update_tier.
SetPrice(t, monthly, annual) ==
    /\ monthly >= 0 /\ annual >= 0
    /\ price' = [price EXCEPT ![t] = [Monthly |-> monthly, Annual |-> annual]]
    /\ UNCHANGED <<plan, now>>

\* apply_promotion without a promotional price; 0 % is no promotion.
Discounted(base, percent) == base - (base * percent) \div 100

\* create_subscription_with_tier; validate_payment refuses a price of 0, so
\* that neither a free tier nor a discount of 100 % can be sold.
Subscribe(t, cycle, percent) ==
    /\ plan = None /\ price[t] # None
    /\ Discounted(price[t][cycle], percent) > 0
    /\ now + CycleDays(cycle) * Day <= MaxTerm
    /\ plan' = [tier |-> t, cycle |-> cycle, active |-> TRUE,
                expiresAt |-> now + CycleDays(cycle) * Day]
    /\ UNCHANGED <<price, now>>

\* renew_subscription: any duration, from the expiry or from now.
RenewPlan(duration) ==
    LET base == IF plan.expiresAt > now THEN plan.expiresAt ELSE now IN
    /\ plan # None /\ base + duration <= MaxTerm
    /\ plan' = [plan EXCEPT !.expiresAt = base + duration, !.active = TRUE]
    /\ UNCHANGED <<price, now>>

CancelPlan ==
    /\ plan # None
    /\ plan' = [plan EXCEPT !.active = FALSE]
    /\ UNCHANGED <<price, now>>

\* process_tier_change, see HubTiers.
ChangeTier(t) ==
    /\ plan # None /\ price[t] # None
    /\ plan' = [plan EXCEPT !.tier = t]
    /\ UNCHANGED <<price, now>>

PricingNext ==
    \/ \E t \in TierIds, p, q \in Prices : SetPrice(t, p, q)
    \/ \E t \in TierIds, c \in Cycles, d \in Discounts : Subscribe(t, c, d)
    \/ \E d \in {CycleDays(c) * Day : c \in Cycles} : RenewPlan(d)
    \/ CancelPlan
    \/ \E t \in TierIds : ChangeTier(t)
    \/ Tick /\ UNCHANGED pricingState

PricingSpec == PricingInit /\ [][PricingNext]_pricingVars

-----------------------------------------------------------------------------
\* Quotes

\* determine_change_type
ChangeType(from, to) ==
    CASE Levels[to] > Levels[from] -> "Upgrade"
      [] Levels[to] < Levels[from] -> "Downgrade"
      [] OTHER -> "Lateral"

RemainingDays == (plan.expiresAt - now) \div Day

\* Variant: the days are those of the whole cycle.
ForCycle(p) == (p \div CycleDays(plan.cycle)) * CycleDays(plan.cycle)

\* The price of a day is rounded down first.
ForRemaining(p) == (p \div CycleDays(plan.cycle)) * RemainingDays

\* calculate_proration, from the monthly prices whatever the cycle; a negative
\* amount is a credit.
CalculateProration(from, to) ==
    IF plan.expiresAt <= now THEN price[to].Monthly
    ELSE ForRemaining(price[to].Monthly) - ForRemaining(price[from].Monthly)

-----------------------------------------------------------------------------
\* Access

\* get_user_subscription_info
IsExpired == plan.expiresAt < now
DaysRemaining == IF IsExpired THEN 0 ELSE RemainingDays

\* check_feature_access
CheckFeatureAccess(feature) ==
    plan.active /\ plan.expiresAt >= now /\ feature \in Offers[plan.tier]

-----------------------------------------------------------------------------
AbsoluteValue(n) == IF n < 0 THEN -n ELSE n

\* A quote is the difference of the two prices in proportion to the days left,
\* up to one unit a day, however prices and term have changed since the sale:
\* it has the sign of the difference, and changing back gives back as much.
\* Only a term that renewals made longer than a cycle can cost more than the
\* cycle.
QuoteIsFair(to) ==
    LET from == plan.tier
        quote == CalculateProration(from, to)
        difference == price[to].Monthly - price[from].Monthly
        days == CycleDays(plan.cycle)
    IN IF plan.expiresAt <= now THEN quote = price[to].Monthly
       ELSE /\ AbsoluteValue(quote * days - difference * RemainingDays)
                  <= RemainingDays * (days - 1)
            /\ quote * difference >= 0
            /\ CalculateProration(to, from) = -quote
            /\ RemainingDays <= days => quote <= price[to].Monthly /\ -quote <= price[from].Monthly

\* Quotes are fair, a downgrade is an upgrade taken back, and features are
\* granted only in a term that is not reported as expired, to its last instant.
PricingConsistent ==
    plan # None =>
        /\ price[plan.tier] # None
        /\ \A to \in TierIds : price[to] # None => QuoteIsFair(to)
        /\ \A to \in TierIds :
              ChangeType(plan.tier, to) = "Upgrade" <=> ChangeType(to, plan.tier) = "Downgrade"
        /\ \A f \in Features : CheckFeatureAccess(f) =>
              ~IsExpired /\ (plan.expiresAt - now < Day => DaysRemaining = 0)
=============================================================================
