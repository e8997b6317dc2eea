---------------------------- MODULE MCHubProducts ----------------------------
(***************************************************************************)
(* The membership products of the contracts on small instances.  They      *)
(* share ids and the clock but no state, so that a behaviour exercises one *)
(* of them: part says which, and the others stay as they are.              *)
(***************************************************************************)
EXTENDS TokenTerms, HubSubscriptions, HubTiers, HubStaking, TokenMetadata, ResourceCredits,
        Attendance

CONSTANTS t1, t2, s1, s2, a1, a2, Parts

VARIABLE part

OnePauseConfig == [maxDuration |-> 1, maxCount |-> 1, minActive |-> 1]
TwoPauseConfig == [maxDuration |-> 2, maxCount |-> 2, minActive |-> 1]
TestPauseConfigs == {OnePauseConfig, TwoPauseConfig}

PromoFirstDay == {[start |-> 0, end |-> 1]}

Shortest == [tier \in StakeTiers |-> 1]
SameRate == [tier \in StakeTiers |-> 1]
TestStakingConfigs == {[enabled |-> TRUE, penalty |-> 1, sameToken |-> FALSE],
                       [enabled |-> TRUE, penalty |-> 1, sameToken |-> TRUE],
                       [enabled |-> FALSE, penalty |-> 2, sameToken |-> FALSE]}

SameLength == [s \in Contracts |-> 1]
LevelOf == [t \in TierIds |-> IF t = "pro" THEN 2 ELSE 1]
OffersOf == [t \in TierIds |-> IF t = "pro" THEN Features ELSE {}]

termsState == <<token, snapshot, history, renewals, auto, pause, tokenPaused>>
subscriptionState == <<subscription, pauseConfig, account>>
tierState == <<tierActive, subscribers, enrolled, promotions, request>>
stakingState == <<stakingConfig, stakeTiers, stake, wallet, vault, rewardVault,
                  kept, paidOut, deposited>>

Init ==
    /\ part \in Parts
    /\ TermsInit /\ SubscriptionsInit /\ TiersInit /\ StakingInit /\ MetadataInit
    /\ CreditsInit /\ AttendanceInit /\ PricingInit

Next ==
    /\ UNCHANGED part
    /\ \/ /\ part = "terms" /\ TermsNext
          /\ UNCHANGED <<subscriptionState, tierState, stakingState, metadataVars,
                         creditVars, attendanceState, pricingState>>
       \/ /\ part = "subscriptions" /\ SubscriptionsNext
          /\ UNCHANGED <<termsState, tierState, stakingState, metadataVars,
                         creditVars, attendanceState, pricingState>>
       \/ /\ part = "tiers" /\ TiersNext
          /\ UNCHANGED <<termsState, subscriptionState, stakingState, metadataVars,
                         creditVars, attendanceState, pricingState>>
       \/ /\ part = "staking" /\ StakingNext
          /\ UNCHANGED <<termsState, subscriptionState, tierState, metadataVars,
                         creditVars, attendanceState, pricingState>>
       \/ /\ part = "metadata" /\ MetadataNext
          /\ UNCHANGED <<termsState, subscriptionState, tierState, stakingState,
                         creditVars, attendanceState, pricingState, now>>
       \/ /\ part = "credits" /\ CreditsNext
          /\ UNCHANGED <<termsState, subscriptionState, tierState, stakingState,
                         metadataVars, attendanceState, pricingState, now>>
       \/ /\ part = "attendance" /\ AttendanceNext
          /\ UNCHANGED <<termsState, subscriptionState, tierState, stakingState,
                         metadataVars, creditVars, pricingState>>
       \/ /\ part = "pricing" /\ PricingNext
          /\ UNCHANGED <<termsState, subscriptionState, tierState, stakingState,
                         metadataVars, creditVars, attendanceState>>

\* The ledgers of metadata and credits agree with their sums and indexes: see
\* the two modules.
LedgersConsistent == MetadataConsistent /\ SupplyIsSum

Spec == Init /\ [][Next]_<<part, now, termsState, subscriptionState, tierState, stakingState,
                          metadataVars, creditVars, attendanceState, pricingState>>
=============================================================================
