------------------------------ MODULE HubStaking -----------------------------
(***************************************************************************)
(* Staking in contracts/manage_hub.  The staking token stays the same (a   *)
(* change of it while stakes are open would pay them in the new token);    *)
(* rewards are paid in another token, or in the same one where the         *)
(* configuration says so.  A transfer that is not covered fails the whole  *)
(* invocation, and is therefore a guard.                                   *)
(***************************************************************************)
EXTENDS LedgerBase, UnitSums

CONSTANTS
    StakeTiers, MinStake, LockDuration, RewardRate,  \* functions of the tier
    RewardScale,      \* divisor of amount * rate * time
    StakeAmounts,
    PenaltyScale,     \* divisor of amount * penalty
    StakingConfigs,   \* [enabled, penalty, sameToken]
    InitialBalance, InitialRewards

\* create_staking_tier refuses a tier without a minimum; the rest are the
\* widths of the parameters.
ASSUME StakingAssumption ==
    /\ MinStake \in [StakeTiers -> Nat \ {0}]
    /\ LockDuration \in [StakeTiers -> Nat] /\ RewardRate \in [StakeTiers -> Nat]
    /\ StakeAmounts \subseteq Int
    /\ RewardScale \in Nat \ {0} /\ PenaltyScale \in Nat \ {0}
    /\ \A config \in StakingConfigs : config # None /\ config.penalty \in Nat
    /\ InitialBalance \in Nat /\ InitialRewards \in Nat

\* A UserStake, None without one.
Stakes == [amount : Nat \ {0}, tier : StakeTiers, stakedAt : Nat, unlockAt : Nat]

ASSUME NoStakeAssumption == None \notin Stakes

VARIABLES
    stakingConfig,  \* StakingDataKey Config, None before it is set
    stakeTiers,     \* StakingDataKey TierList
    stake,          \* StakingDataKey Stake, None without one
    wallet,         \* staking token of the accounts
    vault,          \* staking token of the contract
    rewardVault,    \* reward token of the contract
    kept,           \* history: penalties kept
    paidOut,        \* history: rewards paid in the staking token
    deposited       \* history: time of an account's last deposit

stakingVars == <<stakingConfig, stakeTiers, stake, wallet, vault, rewardVault,
                 kept, paidOut, deposited, now>>

StakingInit ==
    /\ stakingConfig = None /\ stakeTiers = {} /\ now = 0
    /\ stake = [a \in Accounts |-> None]
    /\ wallet = [a \in Accounts |-> InitialBalance]
    /\ vault = 0 /\ rewardVault = InitialRewards
    /\ kept = 0 /\ paidOut = 0
    /\ deposited = [a \in Accounts |-> 0]

SetStakingConfig(config) ==
    /\ config.penalty <= PenaltyScale
    /\ stakingConfig' = config
    /\ UNCHANGED <<stakeTiers, stake, wallet, vault, rewardVault, kept, paidOut, deposited, now>>

CreateStakingTier(tier) ==
    /\ tier \notin stakeTiers
    /\ stakeTiers' = stakeTiers \cup {tier}
    /\ UNCHANGED <<stakingConfig, stake, wallet, vault, rewardVault, kept, paidOut, deposited, now>>

-----------------------------------------------------------------------------
NewStake(tier, amount) ==
    [amount |-> amount, tier |-> tier, stakedAt |-> now, unlockAt |-> now + LockDuration[tier]]

\* Variant: an added amount is free with the first one.
AddedUnderOldLock(k, amount) == [k EXCEPT !.amount = @ + amount]

\* The lock starts again; the time of the first deposit is kept for the rewards.
Added(k, amount) == [NewStake(k.tier, k.amount + amount) EXCEPT !.stakedAt = k.stakedAt]

StakeTokens(a, tier, amount) ==
    /\ stakingConfig # None /\ stakingConfig.enabled
    /\ tier \in stakeTiers /\ amount >= MinStake[tier]
    /\ stake[a] # None => stake[a].tier = tier
    /\ wallet[a] >= amount
    /\ stake' = [stake EXCEPT ![a] =
          IF @ = None THEN NewStake(tier, amount) ELSE Added(@, amount)]
    /\ wallet' = [wallet EXCEPT ![a] = @ - amount]
    /\ vault' = vault + amount
    /\ deposited' = [deposited EXCEPT ![a] = now]
    /\ UNCHANGED <<stakingConfig, stakeTiers, rewardVault, kept, paidOut, now>>

PendingRewards(k) == (k.amount * RewardRate[k.tier] * (now - k.stakedAt)) \div RewardScale

\* Principal and rewards leave in one invocation: without cover for the
\* rewards the principal stays too.
UnstakeTokens(a) ==
    LET k == stake[a]
        rewards == PendingRewards(k)
        paid == IF stakingConfig.sameToken THEN rewards ELSE 0
    IN
    /\ stakingConfig # None /\ k # None /\ now >= k.unlockAt
    /\ vault >= k.amount + paid /\ rewardVault >= rewards - paid
    /\ stake' = [stake EXCEPT ![a] = None]
    /\ wallet' = [wallet EXCEPT ![a] = @ + k.amount + paid]
    /\ vault' = vault - k.amount - paid
    /\ rewardVault' = rewardVault - (rewards - paid)
    /\ paidOut' = paidOut + paid
    /\ UNCHANGED <<stakingConfig, stakeTiers, kept, deposited, now>>

Penalty(k) == (k.amount * stakingConfig.penalty) \div PenaltyScale

AfterPenalty(k) == k.amount - Penalty(k)

EmergencyUnstake(a) ==
    LET k == stake[a] IN
    /\ stakingConfig # None /\ k # None
    /\ vault >= AfterPenalty(k)
    /\ stake' = [stake EXCEPT ![a] = None]
    /\ wallet' = [wallet EXCEPT ![a] = @ + AfterPenalty(k)]
    /\ vault' = vault - AfterPenalty(k)
    /\ kept' = kept + Penalty(k)
    /\ UNCHANGED <<stakingConfig, stakeTiers, rewardVault, paidOut, deposited, now>>

StakingNext ==
    \/ \E config \in StakingConfigs : SetStakingConfig(config)
    \/ \E tier \in StakeTiers : CreateStakingTier(tier)
    \/ \E a \in Accounts :
          \/ \E tier \in StakeTiers, n \in StakeAmounts : StakeTokens(a, tier, n)
          \/ UnstakeTokens(a) \/ EmergencyUnstake(a)
    \/ Tick /\ UNCHANGED <<stakingConfig, stakeTiers, stake, wallet, vault, rewardVault,
                           kept, paidOut, deposited>>

StakingSpec == StakingInit /\ [][StakingNext]_stakingVars

-----------------------------------------------------------------------------
StakedAmount == [a \in Accounts |-> IF stake[a] = None THEN 0 ELSE stake[a].amount]

\* What the contract holds is exactly the open stakes and the penalties it
\* kept, less the rewards that were paid in the staking token: as long as
\* those do not exceed the penalties, everyone can leave at once.
StakesBacked ==
    /\ vault + paidOut = Total(Accounts, StakedAmount) + kept
    /\ vault >= 0 /\ rewardVault >= 0
    /\ paidOut <= kept => vault >= Total(Accounts, StakedAmount)

\* A stake leaves undiminished only when the lock of every deposit in it is
\* over, the last one included.
LocksHonoured ==
    \A a \in Accounts :
        stake[a] # None /\ stake'[a] = None =>
            \/ now >= deposited[a] + LockDuration[stake[a].tier]
            \/ kept' - kept = Penalty(stake[a]) /\ wallet'[a] = wallet[a] + AfterPenalty(stake[a])

\* Stakes are there, and leave when they may: see the two parts.
StakesKept == [][StakesBacked' /\ LocksHonoured]_stakingVars
=============================================================================
