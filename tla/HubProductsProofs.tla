-------------------------- MODULE HubProductsProofs --------------------------
(***************************************************************************)
(* What the run of the membership products shows on a few accounts, tiers  *)
(* and tokens, for any of them: that stakes are covered by the vault and   *)
(* leave when they may (StakesAreKept), that the supply of credits is the  *)
(* sum of the balances and the index of attributes agrees with the         *)
(* metadata (LedgersAgree), that the records and counters of the tiers     *)
(* agree with the subscriptions (TiersAgree), that quotes are fair         *)
(* (PricesAgree), that time is conserved over pauses (PausesAgree), and    *)
(* that paid time and past versions of a token are kept (TermsAreKept).    *)
(***************************************************************************)
EXTENDS MCHubProducts, SequenceTheorems

-----------------------------------------------------------------------------
\* Staking

StakeOK(a) ==
    stake[a] # None =>
        /\ stake[a] \in Stakes
        /\ stake[a].stakedAt <= now
        /\ stake[a].unlockAt = deposited[a] + LockDuration[stake[a].tier]

StakingTypes ==
    /\ now \in Nat
    /\ stakingConfig # None => stakingConfig.penalty \in 0..PenaltyScale
    /\ stakeTiers \subseteq StakeTiers
    /\ stake \in [Accounts -> Stakes \cup {None}]
    /\ wallet \in [Accounts -> Int] /\ deposited \in [Accounts -> Nat]
    /\ vault \in Nat /\ rewardVault \in Nat /\ kept \in Nat /\ paidOut \in Nat

StakingInv ==
    /\ StakingTypes
    /\ \A a \in Accounts : StakeOK(a)
    /\ vault + paidOut = Total(Accounts, StakedAmount) + kept

\* The rewards of a stake are never negative: the product and the quotient
\* of calculate_rewards stay in range.
LEMMA RewardsType ==
  ASSUME NEW k \in Stakes, now \in Nat, k.stakedAt <= now
  PROVE  PendingRewards(k) \in Nat
<1>1. k.amount \in Nat /\ RewardRate[k.tier] \in Nat /\ now - k.stakedAt \in Nat
  BY StakingAssumption DEF Stakes
<1>2. \A x, y, z \in Nat : x * y \in Nat /\ (x * y) * z \in Nat
  OBVIOUS
<1>3. \A n \in Nat : n \div RewardScale \in Nat
  BY StakingAssumption
<1> QED
  BY <1>1, <1>2, <1>3 DEF PendingRewards

\* A proportion of an amount is between nothing and all of it.
LEMMA Proportion ==
  ASSUME NEW a \in Nat, NEW c \in Nat \ {0}, NEW p \in 0..c
  PROVE  (a * p) \div c \in 0..a
<1>1. a * p \in Nat /\ c * a \in Nat /\ a * p <= c * a
  <2>1. a * (c - p) = c * a - a * p
    OBVIOUS
  <2>2. a * (c - p) \in Nat /\ a * p \in Nat /\ c * a \in Nat
    OBVIOUS
  <2> QED
    BY <2>1, <2>2
<1>2. \A x \in Nat : x \div c \in Nat /\ x % c \in 0..(c - 1) /\ x = c * (x \div c) + (x % c)
  BY Division
<1>3. \A x \in Nat, q \in Nat, r \in Nat : x <= c * a /\ x = c * q + r => ~(a < q)
  <2> SUFFICES ASSUME NEW x \in Nat, NEW q \in Nat, NEW r \in Nat,
                      x <= c * a, x = c * q + r, a < q
               PROVE  FALSE
    OBVIOUS
  <2>1. c * (q - a) = c * q - c * a /\ c * q \in Nat /\ c * a \in Nat
    OBVIOUS
  <2>2. c * (q - a) > 0
    <3>1. q - a \in Nat \ {0}
      OBVIOUS
    <3>2. \A d \in Nat \ {0} : c * d > 0
      OBVIOUS
    <3> QED
      BY <3>1, <3>2
  <2> QED
    BY <2>1, <2>2
<1>4. \A x \in Nat : x <= c * a => x \div c \in 0..a
  BY <1>2, <1>3
<1> QED
  BY <1>1, <1>4

\* The penalty is a part of the stake: leaving early never costs more.
LEMMA PenaltyType ==
  ASSUME NEW k \in Stakes, stakingConfig.penalty \in 0..PenaltyScale
  PROVE  Penalty(k) \in 0..k.amount /\ AfterPenalty(k) \in 0..k.amount
<1>1. k.amount \in Nat /\ PenaltyScale \in Nat \ {0}
  BY StakingAssumption DEF Stakes
<1>2. Penalty(k) \in 0..k.amount
  BY <1>1, Proportion DEF Penalty
<1> QED
  BY <1>1, <1>2 DEF AfterPenalty

\* Before anybody stakes there is nothing to cover.
LEMMA StakingInitInv == StakingInit => StakingInv
<1> SUFFICES ASSUME StakingInit PROVE StakingInv
  OBVIOUS
<1>1. StakingTypes
  BY StakingAssumption DEF StakingInit, StakingTypes
<1>2. \A a \in Accounts : StakeOK(a)
  BY DEF StakingInit, StakeOK
<1>3. Total(Accounts, StakedAmount) = 0
  <2>1. Units(Accounts, StakedAmount) = {}
    BY DEF Units, StakedAmount, StakingInit
  <2> QED
    BY <2>1, FS_EmptySet DEF Total
<1> QED
  BY <1>1, <1>2, <1>3 DEF StakingInv, StakingInit

\* The amounts are numbers, and a change of one stake changes their sum by
\* the difference.
LEMMA StakedType == StakingInv =>
    /\ \A a \in Accounts : StakedAmount[a] \in Nat
    /\ Total(Accounts, StakedAmount) \in Nat
<1> SUFFICES ASSUME StakingInv PROVE /\ \A a \in Accounts : StakedAmount[a] \in Nat
                                     /\ Total(Accounts, StakedAmount) \in Nat
  OBVIOUS
<1>1. \A a \in Accounts : StakedAmount[a] \in Nat
  BY DEF StakingInv, StakingTypes, Stakes, StakedAmount
<1> QED
  BY <1>1, AccountsFinite, TotalType

\* How the staked total follows one account's stake.
LEMMA StakedChange ==
  ASSUME StakingInv, NEW a \in Accounts, NEW k \in Stakes \cup {None},
         stake' = [stake EXCEPT ![a] = k]
  PROVE  /\ StakedAmount'[a] = IF k = None THEN 0 ELSE k.amount
         /\ Total(Accounts, StakedAmount') = Total(Accounts, StakedAmount) - StakedAmount[a] + StakedAmount'[a]
<1>1. /\ StakedAmount'[a] = IF k = None THEN 0 ELSE k.amount
      /\ StakedAmount'[a] \in Nat
      /\ \A b \in Accounts \ {a} : StakedAmount'[b] = StakedAmount[b]
  BY DEF StakingInv, StakingTypes, StakedAmount, Stakes
<1>2. \A b \in Accounts : StakedAmount[b] \in Nat /\ StakedAmount'[b] \in Nat
  BY <1>1, StakedType
<1> QED
  BY <1>1, <1>2, AccountsFinite, TotalExcept

\* What a change of the other variables leaves as it is.
LEMMA StakingKept ==
  ASSUME StakingInv, UNCHANGED <<stake, wallet, vault, rewardVault, kept, paidOut, deposited>>,
         stakeTiers' \subseteq StakeTiers, now' \in Nat, now' >= now,
         stakingConfig' # None => stakingConfig'.penalty \in 0..PenaltyScale
  PROVE  StakingInv' /\ LocksHonoured
<1>1. StakingTypes'
  BY DEF StakingInv, StakingTypes
<1>2. \A a \in Accounts : StakeOK(a)'
  <2> SUFFICES ASSUME NEW a \in Accounts, stake[a] # None PROVE StakeOK(a)'
    BY DEF StakeOK
  <2>1. stake[a].stakedAt \in Nat /\ stake[a].stakedAt <= now
    BY DEF StakingInv, StakeOK, Stakes
  <2> QED
    BY <2>1 DEF StakingInv, StakingTypes, StakeOK
<1>3. StakedAmount' = StakedAmount
  BY DEF StakedAmount
<1> QED
  BY <1>1, <1>2, <1>3 DEF StakingInv, LocksHonoured

\* A stake that is added to is longer locked and otherwise the same.
LEMMA AddedType ==
  ASSUME NEW k \in Stakes, NEW n \in Nat, now \in Nat
  PROVE  /\ Added(k, n) \in Stakes
         /\ Added(k, n).amount = k.amount + n
         /\ Added(k, n).tier = k.tier /\ Added(k, n).stakedAt = k.stakedAt
         /\ Added(k, n).unlockAt = now + LockDuration[k.tier]
<1>1. /\ k.amount + n \in Nat \ {0} /\ k.tier \in StakeTiers /\ k.stakedAt \in Nat
      /\ now + LockDuration[k.tier] \in Nat
  BY StakingAssumption DEF Stakes
<1>2. Added(k, n) = [amount |-> k.amount + n, tier |-> k.tier, stakedAt |-> k.stakedAt,
                     unlockAt |-> now + LockDuration[k.tier]]
  BY DEF Added, NewStake
<1> QED
  BY <1>1, <1>2 DEF Stakes

\* A deposit starts the lock again and is covered by the vault.
LEMMA StakeTokensInv ==
  ASSUME StakingInv, NEW a \in Accounts, NEW tier \in StakeTiers, NEW n \in StakeAmounts,
         StakeTokens(a, tier, n)
  PROVE  StakingInv' /\ LocksHonoured
<1> DEFINE k == IF stake[a] = None THEN NewStake(tier, n) ELSE Added(stake[a], n)
<1>1. /\ n \in Nat \ {0} /\ now \in Nat /\ now' = now
      /\ LockDuration \in [StakeTiers -> Nat]
      /\ stake \in [Accounts -> Stakes \cup {None}] /\ stake' = [stake EXCEPT ![a] = k]
      /\ deposited' = [deposited EXCEPT ![a] = now]
      /\ stake[a] # None => stake[a].tier = tier
  BY StakingAssumption DEF StakeTokens, StakingInv, StakingTypes
<1>2. /\ k \in Stakes /\ k # None
      /\ k.amount = StakedAmount[a] + n
      /\ k.stakedAt <= now /\ k.unlockAt = now + LockDuration[k.tier]
  <2>1. CASE stake[a] = None
    BY <1>1, <2>1, NoStakeAssumption DEF NewStake, Stakes, StakedAmount
  <2>2. CASE stake[a] # None
    <3>1. stake[a] \in Stakes /\ stake[a].stakedAt <= now
      BY <2>2, <1>1 DEF StakingInv, StakeOK
    <3>2. k = Added(stake[a], n) /\ StakedAmount[a] = stake[a].amount
      BY <2>2 DEF StakedAmount
    <3> DEFINE j == stake[a]
    <3> HIDE DEF j, k
    <3>3. k = Added(j, n) /\ StakedAmount[a] = j.amount /\ j \in Stakes /\ j.stakedAt <= now
      BY <3>1, <3>2 DEF j
    <3>4. /\ Added(j, n) \in Stakes
          /\ Added(j, n).amount = j.amount + n
          /\ Added(j, n).tier = j.tier /\ Added(j, n).stakedAt = j.stakedAt
          /\ Added(j, n).unlockAt = now + LockDuration[j.tier]
      BY <1>1, <3>3, AddedType
    <3> QED
      BY <3>3, <3>4, NoStakeAssumption
  <2> QED
    BY <2>1, <2>2
<1> HIDE DEF k
<1>3. Total(Accounts, StakedAmount') = Total(Accounts, StakedAmount) + n
  <2>1. StakedAmount'[a] = k.amount
    BY <1>1, <1>2, StakedChange
  <2>2. Total(Accounts, StakedAmount') = Total(Accounts, StakedAmount) - StakedAmount[a] + StakedAmount'[a]
    BY <1>1, <1>2, StakedChange
  <2>3. StakedAmount[a] \in Nat /\ Total(Accounts, StakedAmount) \in Nat
    BY StakedType
  <2> QED
    BY <1>1, <1>2, <2>1, <2>2, <2>3
<1>4. StakingTypes'
  BY <1>1, <1>2 DEF StakeTokens, StakingInv, StakingTypes
<1>5. \A b \in Accounts : StakeOK(b)'
  BY <1>1, <1>2 DEF StakeOK, StakingInv, StakingTypes
<1>6. vault' + paidOut' = Total(Accounts, StakedAmount') + kept'
  BY <1>1, <1>3, StakedType DEF StakeTokens, StakingInv, StakingTypes
<1>7. LocksHonoured
  BY <1>1, <1>2 DEF LocksHonoured
<1> QED
  BY <1>4, <1>5, <1>6, <1>7 DEF StakingInv

\* A stake that leaves takes its amount out of the sum, its lock is over, and
\* the rewards of the same token are accounted for.
LEMMA UnstakeTokensInv ==
  ASSUME StakingInv, NEW a \in Accounts, UnstakeTokens(a)
  PROVE  StakingInv' /\ LocksHonoured
<1> DEFINE k == stake[a]
           rewards == PendingRewards(k)
           paid == IF stakingConfig.sameToken THEN rewards ELSE 0
<1>1. /\ k \in Stakes /\ k.stakedAt <= now /\ now \in Nat /\ now' = now
      /\ k.unlockAt = deposited[a] + LockDuration[k.tier] /\ now >= k.unlockAt
      /\ stake' = [stake EXCEPT ![a] = None] /\ k # None
  BY DEF UnstakeTokens, StakingInv, StakingTypes, StakeOK
<1>2. rewards \in Nat /\ paid \in Nat /\ rewards - paid \in Nat
  BY <1>1, RewardsType
<1>3. /\ vault >= k.amount + paid /\ rewardVault >= rewards - paid
      /\ wallet' = [wallet EXCEPT ![a] = @ + k.amount + paid]
      /\ vault' = vault - k.amount - paid
      /\ rewardVault' = rewardVault - (rewards - paid)
      /\ paidOut' = paidOut + paid
      /\ UNCHANGED <<stakingConfig, stakeTiers, kept, deposited, now>>
  BY DEF UnstakeTokens
<1>4. k.amount \in Nat /\ StakedAmount[a] = k.amount
  BY <1>1 DEF Stakes, StakedAmount
<1> HIDE DEF k, rewards, paid
<1>5. Total(Accounts, StakedAmount') = Total(Accounts, StakedAmount) - k.amount
  <2>1. StakedAmount'[a] = 0
    BY <1>1, StakedChange
  <2>2. Total(Accounts, StakedAmount') = Total(Accounts, StakedAmount) - StakedAmount[a] + StakedAmount'[a]
    BY <1>1, StakedChange
  <2>3. Total(Accounts, StakedAmount) \in Nat
    BY StakedType
  <2> QED
    BY <1>4, <2>1, <2>2, <2>3
<1>6. StakingTypes'
  BY <1>1, <1>2, <1>3, <1>4 DEF StakingInv, StakingTypes
<1>7. \A b \in Accounts : StakeOK(b)'
  BY <1>1, <1>3 DEF StakeOK, StakingInv, StakingTypes
<1>8. vault' + paidOut' = Total(Accounts, StakedAmount') + kept'
  BY <1>2, <1>3, <1>4, <1>5, StakedType DEF StakingInv, StakingTypes
<1>9. LocksHonoured
  BY <1>1 DEF LocksHonoured, StakingInv, StakingTypes, k
<1> QED
  BY <1>6, <1>7, <1>8, <1>9 DEF StakingInv

\* A stake that leaves early leaves its penalty in the vault.
LEMMA EmergencyInv ==
  ASSUME StakingInv, NEW a \in Accounts, EmergencyUnstake(a)
  PROVE  StakingInv' /\ LocksHonoured
<1> DEFINE k == stake[a]
<1>1. /\ k \in Stakes /\ now \in Nat /\ now' = now /\ k # None
      /\ stake' = [stake EXCEPT ![a] = None]
      /\ stakingConfig.penalty \in 0..PenaltyScale
  BY DEF EmergencyUnstake, StakingInv, StakingTypes, StakeOK
<1>2. k.amount \in Nat /\ StakedAmount[a] = k.amount
  BY <1>1 DEF Stakes, StakedAmount
<1>3. Penalty(k) \in Nat /\ AfterPenalty(k) \in Nat /\ AfterPenalty(k) = k.amount - Penalty(k)
  BY <1>1, <1>2, PenaltyType DEF AfterPenalty
<1>4. /\ vault >= AfterPenalty(k)
      /\ wallet' = [wallet EXCEPT ![a] = @ + AfterPenalty(k)]
      /\ vault' = vault - AfterPenalty(k)
      /\ kept' = kept + Penalty(k)
      /\ UNCHANGED <<stakingConfig, stakeTiers, rewardVault, paidOut, deposited, now>>
  BY DEF EmergencyUnstake
<1> HIDE DEF k
<1>5. Total(Accounts, StakedAmount') = Total(Accounts, StakedAmount) - k.amount
  <2>1. StakedAmount'[a] = 0
    BY <1>1, StakedChange
  <2>2. Total(Accounts, StakedAmount') = Total(Accounts, StakedAmount) - StakedAmount[a] + StakedAmount'[a]
    BY <1>1, StakedChange
  <2>3. Total(Accounts, StakedAmount) \in Nat
    BY StakedType
  <2> QED
    BY <1>2, <2>1, <2>2, <2>3
<1>6. StakingTypes'
  BY <1>1, <1>2, <1>3, <1>4 DEF StakingInv, StakingTypes
<1>7. \A b \in Accounts : StakeOK(b)'
  BY <1>1, <1>4 DEF StakeOK, StakingInv, StakingTypes
<1>8. vault' + paidOut' = Total(Accounts, StakedAmount') + kept'
  BY <1>2, <1>3, <1>4, <1>5, StakedType DEF StakingInv, StakingTypes
<1>9. LocksHonoured
  <2>1. ASSUME NEW b \in Accounts, stake[b] # None, stake'[b] = None PROVE b = a
    BY <1>1, <2>1 DEF StakingInv, StakingTypes
  <2>2. wallet'[a] = wallet[a] + AfterPenalty(k) /\ kept' - kept = Penalty(k)
    BY <1>3, <1>4 DEF StakingInv, StakingTypes
  <2> QED
    BY <2>1, <2>2 DEF LocksHonoured, k
<1> QED
  BY <1>6, <1>7, <1>8, <1>9 DEF StakingInv

\* Every invocation keeps the stakes covered and their locks.
LEMMA StakingStep == StakingInv /\ [StakingNext]_stakingVars => StakingInv' /\ LocksHonoured
<1> SUFFICES ASSUME StakingInv, [StakingNext]_stakingVars PROVE StakingInv' /\ LocksHonoured
  OBVIOUS
<1>0. /\ now \in Nat /\ stakeTiers \subseteq StakeTiers
      /\ stakingConfig # None => stakingConfig.penalty \in 0..PenaltyScale
  BY DEF StakingInv, StakingTypes
<1>1. ASSUME NEW config \in StakingConfigs, SetStakingConfig(config)
      PROVE  StakingInv' /\ LocksHonoured
  <2>1. config.penalty \in 0..PenaltyScale
    BY <1>1, StakingAssumption DEF SetStakingConfig
  <2> QED
    BY <1>0, <1>1, <2>1, StakingKept DEF SetStakingConfig
<1>2. ASSUME NEW tier \in StakeTiers, CreateStakingTier(tier)
      PROVE  StakingInv' /\ LocksHonoured
  BY <1>0, <1>2, StakingKept DEF CreateStakingTier
<1>3. ASSUME NEW a \in Accounts, NEW tier \in StakeTiers, NEW n \in StakeAmounts, StakeTokens(a, tier, n)
      PROVE  StakingInv' /\ LocksHonoured
  BY <1>3, StakeTokensInv
<1>4. ASSUME NEW a \in Accounts, UnstakeTokens(a) PROVE StakingInv' /\ LocksHonoured
  BY <1>4, UnstakeTokensInv
<1>5. ASSUME NEW a \in Accounts, EmergencyUnstake(a) PROVE StakingInv' /\ LocksHonoured
  BY <1>5, EmergencyInv
<1>6. CASE Tick /\ UNCHANGED <<stakingConfig, stakeTiers, stake, wallet, vault, rewardVault,
                               kept, paidOut, deposited>>
  BY <1>0, <1>6, StakingKept DEF Tick
<1>7. CASE UNCHANGED stakingVars
  BY <1>0, <1>7, StakingKept DEF stakingVars
<1> QED
  BY <1>1, <1>2, <1>3, <1>4, <1>5, <1>6, <1>7 DEF StakingNext

\* What the invariant says of the vault.
LEMMA StakingInvBacked == StakingInv => StakesBacked
<1> SUFFICES ASSUME StakingInv PROVE StakesBacked
  OBVIOUS
<1>1. Total(Accounts, StakedAmount) \in Nat
  BY StakedType
<1> QED
  BY <1>1 DEF StakingInv, StakingTypes, StakesBacked

\* For any accounts, tiers and configurations, the contract holds what the
\* open stakes and the kept penalties come to, less the rewards paid in the
\* same token, and a stake leaves whole only when every lock in it is over:
\* stake_tokens, unstake_tokens and emergency_unstake of staking.rs.
THEOREM StakesAreKept == StakingSpec => StakesKept
<1>1. StakingInit => StakingInv
  BY StakingInitInv
<1>2. StakingInv /\ [StakingNext]_stakingVars => StakingInv'
  BY StakingStep
<1>3. StakingInv /\ StakingInv' /\ [StakingNext]_stakingVars => [StakesBacked' /\ LocksHonoured]_stakingVars
  <2>1. StakingInv' => StakesBacked'
    BY StakingInvBacked, PTL
  <2> QED
    BY <2>1, StakingStep
<1> QED
  BY <1>1, <1>2, <1>3, PTL DEF StakingSpec, StakesKept

-----------------------------------------------------------------------------
\* Credits

\* A change of one balance changes the sum by the difference.
LEMMA CreditChange ==
  ASSUME NEW f \in [Accounts -> Nat], NEW a \in Accounts, NEW n \in Nat
  PROVE  Total(Accounts, [f EXCEPT ![a] = n]) = Total(Accounts, f) - f[a] + n
<1> DEFINE g == [f EXCEPT ![a] = n]
<1>1. /\ g \in [Accounts -> Nat] /\ g[a] = n
      /\ \A b \in Accounts \ {a} : g[b] = f[b]
  OBVIOUS
<1> HIDE DEF g
<1>2. Total(Accounts, g) = Total(Accounts, f) - f[a] + g[a]
  BY <1>1, AccountsFinite, TotalExcept
<1> QED
  BY <1>1, <1>2 DEF g

\* No balance exceeds the sum.
LEMMA CreditCovered ==
  ASSUME NEW f \in [Accounts -> Nat], NEW a \in Accounts
  PROVE  f[a] <= Total(Accounts, f) /\ Total(Accounts, f) \in Nat
<1>1. Total(Accounts \ {a}, f) = Total(Accounts, f) - f[a]
  BY AccountsFinite, TotalRemove
<1>2. IsFiniteSet(Accounts \ {a})
  BY AccountsFinite, FS_Subset
<1>3. Total(Accounts \ {a}, f) \in Nat /\ Total(Accounts, f) \in Nat
  BY <1>2, AccountsFinite, TotalType
<1> QED
  BY <1>1, <1>3

\* A transfer keeps the sum, also one to oneself.
LEMMA CreditedSum ==
  ASSUME credit \in [Accounts -> Nat], NEW from \in Accounts, NEW to \in Accounts,
         NEW n \in Nat, credit[from] >= n
  PROVE  /\ Credited(from, to, n) \in [Accounts -> Nat]
         /\ Total(Accounts, Credited(from, to, n)) = Total(Accounts, credit)
<1> DEFINE f == [credit EXCEPT ![from] = @ - n]
           g == [f EXCEPT ![to] = f[to] + n]
<1>1. f \in [Accounts -> Nat] /\ credit[from] - n \in Nat
  OBVIOUS
<1>2. Total(Accounts, f) = Total(Accounts, credit) - credit[from] + (credit[from] - n)
  BY <1>1, CreditChange
<1>3. Credited(from, to, n) = g
  BY DEF Credited
<1> HIDE DEF f
<1>4. f[to] \in Nat /\ f[to] + n \in Nat /\ g \in [Accounts -> Nat]
  BY <1>1
<1>5. Total(Accounts, g) = Total(Accounts, f) - f[to] + (f[to] + n)
  BY <1>1, <1>4, CreditChange
<1>6. Total(Accounts, credit) \in Nat /\ Total(Accounts, f) \in Nat
  BY <1>1, CreditCovered
<1> QED
  BY <1>2, <1>3, <1>4, <1>5, <1>6

\* SupplyIsSum is kept by each invocation.
LEMMA CreditsStep == SupplyIsSum /\ [CreditsNext]_creditVars => SupplyIsSum'
<1> SUFFICES ASSUME SupplyIsSum, [CreditsNext]_creditVars PROVE SupplyIsSum'
  OBVIOUS
<1>0. /\ credit \in [Accounts -> Nat] /\ supply = Total(Accounts, credit) /\ supply \in Nat
      /\ creditsAdmin = None => supply = 0
      /\ \A a \in Accounts : credit[a] \in Nat /\ credit[a] <= supply
  BY CreditCovered, AccountsFinite, TotalType DEF SupplyIsSum
<1>1. ASSUME NEW a \in Accounts, Initialize(a) PROVE SupplyIsSum'
  BY <1>0, <1>1 DEF Initialize, SupplyIsSum
<1>2. ASSUME NEW a \in Accounts, NEW n \in CreditAmounts, MintCredits(a, n) PROVE SupplyIsSum'
  <2>1. n \in Nat /\ credit[a] + n \in Nat
    BY <1>0, <1>2, CreditAmountsAssumption DEF MintCredits
  <2>2. credit' = [credit EXCEPT ![a] = credit[a] + n]
    BY <1>2 DEF MintCredits
  <2>3. Total(Accounts, credit') = Total(Accounts, credit) - credit[a] + (credit[a] + n)
    BY <1>0, <2>1, <2>2, CreditChange
  <2> QED
    BY <1>0, <1>2, <2>1, <2>2, <2>3 DEF MintCredits, SupplyIsSum
<1>3. ASSUME NEW a \in Accounts, NEW b \in Accounts, NEW n \in CreditAmounts,
             TransferCredits(a, b, n)
      PROVE  SupplyIsSum'
  <2>1. n \in Nat /\ credit[a] >= n
    BY <1>3, CreditAmountsAssumption DEF TransferCredits
  <2> QED
    BY <1>0, <1>3, <2>1, CreditedSum DEF TransferCredits, SupplyIsSum
<1>4. ASSUME NEW a \in Accounts, NEW n \in CreditAmounts, SpendCredits(a, n) PROVE SupplyIsSum'
  <2>1. n \in Nat /\ n > 0 /\ credit[a] - n \in Nat
    BY <1>0, <1>4, CreditAmountsAssumption DEF SpendCredits
  <2>2. credit' = [credit EXCEPT ![a] = credit[a] - n]
    BY <1>4 DEF SpendCredits
  <2>3. Total(Accounts, credit') = Total(Accounts, credit) - credit[a] + (credit[a] - n)
    BY <1>0, <2>1, <2>2, CreditChange
  <2> QED
    BY <1>0, <1>4, <2>1, <2>2, <2>3 DEF SpendCredits, SupplyIsSum
<1>5. CASE UNCHANGED creditVars
  BY <1>5 DEF creditVars, SupplyIsSum
<1> QED
  BY <1>1, <1>2, <1>3, <1>4, <1>5 DEF CreditsNext

\* Before the first mint everything is zero.
LEMMA CreditsStart == CreditsInit => SupplyIsSum
<1> SUFFICES ASSUME CreditsInit PROVE SupplyIsSum
  OBVIOUS
<1>1. credit \in [Accounts -> Nat] /\ supply = 0
  BY DEF CreditsInit
<1>2. Units(Accounts, credit) = {}
  BY DEF CreditsInit, Units
<1> QED
  BY <1>1, <1>2, FS_EmptySet DEF SupplyIsSum, Total

-----------------------------------------------------------------------------
\* Metadata

Items == [version : Nat, changes : AttributeMaps]

MetadataTypes ==
    /\ metadata \in [Described -> Records \cup {None}]
    /\ metadataHistory \in [Described -> Seq(Items)]
    /\ metadataIndex \in [Entries -> SUBSET Described]

MetadataInv == MetadataTypes /\ IndexExact /\ HistoryExplains

\* The attributes of a map are among the attributes.
LEMMA MapType ==
  ASSUME NEW map \in AttributeMaps
  PROVE  DOMAIN map \subseteq Attributes /\ \A k \in DOMAIN map : map[k] \in Values
BY DEF AttributeMaps

\* What an update leaves of the attributes: its own values and the others.
LEMMA UpdatedType ==
  ASSUME NEW old \in AttributeMaps, NEW new \in AttributeMaps
  PROVE  /\ Updated(old, new) \in AttributeMaps
         /\ DOMAIN Updated(old, new) = DOMAIN old \cup DOMAIN new
         /\ \A k \in DOMAIN new : Updated(old, new)[k] = new[k]
         /\ \A k \in DOMAIN old \ DOMAIN new : Updated(old, new)[k] = old[k]
<1>1. Updated(old, new) =
        [k \in DOMAIN old \cup DOMAIN new |-> IF k \in DOMAIN new THEN new[k] ELSE old[k]]
  BY DEF Updated
<1>2. /\ DOMAIN old \subseteq Attributes /\ DOMAIN new \subseteq Attributes
      /\ \A k \in DOMAIN old : old[k] \in Values
      /\ \A k \in DOMAIN new : new[k] \in Values
  BY MapType
<1>3. Updated(old, new) \in [DOMAIN old \cup DOMAIN new -> Values]
  BY <1>1, <1>2
<1>4. Updated(old, new) \in AttributeMaps
  BY <1>2, <1>3 DEF AttributeMaps
<1> QED
  BY <1>1, <1>4

\* What a removal leaves of the attributes.
LEMMA RestrictType ==
  ASSUME NEW old \in AttributeMaps, NEW K, K \subseteq DOMAIN old
  PROVE  /\ Restrict(old, K) \in AttributeMaps
         /\ DOMAIN Restrict(old, K) = K
         /\ \A k \in K : Restrict(old, K)[k] = old[k]
<1>1. Restrict(old, K) = [k \in K |-> old[k]]
  BY DEF Restrict
<1>2. Restrict(old, K) \in [K -> Values] /\ K \subseteq Attributes
  BY <1>1, MapType
<1> QED
  BY <1>1, <1>2 DEF AttributeMaps

\* The index stays exact when the entries that go and come are those that a
\* write of the attributes ends and begins.
LEMMA ReindexedExact ==
  ASSUME MetadataTypes, IndexExact, NEW t \in Described, NEW m \in Records, NEW old, NEW new,
         metadata' = [metadata EXCEPT ![t] = m],
         metadataIndex' = Reindexed(t, old, new),
         \A e \in Entries :
            Listed(m.attributes, e) <=>
               \/ metadata[t] # None /\ Listed(metadata[t].attributes, e) /\ ~Listed(old, e)
               \/ Listed(new, e)
  PROVE  IndexExact' /\ metadataIndex' \in [Entries -> SUBSET Described]
<1> DEFINE entry(e) == (metadataIndex[e] \ {x \in {t} : Listed(old, e)})
                             \cup {x \in {t} : Listed(new, e)}
<1>1. metadataIndex' = [e \in Entries |-> entry(e)]
  BY DEF Reindexed
<1>2. \A e \in Entries : metadataIndex[e] \subseteq Described
  BY DEF MetadataTypes
<1>3. \A e \in Entries : entry(e) \subseteq Described
  BY <1>2
<1>4. \A e \in Entries : metadataIndex'[e] = entry(e)
  BY <1>1
<1>5. metadataIndex' \in [Entries -> SUBSET Described]
  BY <1>1, <1>3
<1>6. /\ metadata'[t] = m /\ m # None
      /\ \A s \in Described \ {t} : metadata'[s] = metadata[s]
  BY NoMetadataAssumption DEF MetadataTypes
<1>7. ASSUME NEW e \in Entries, NEW s \in Described
      PROVE  s \in entry(e) <=> metadata'[s] # None /\ Listed(metadata'[s].attributes, e)
  <2>1. s \in metadataIndex[e] <=> metadata[s] # None /\ Listed(metadata[s].attributes, e)
    BY DEF IndexExact, QueryTokensByAttribute
  <2>2. CASE s = t
    BY <2>1, <2>2, <1>6
  <2>3. CASE s # t
    BY <2>1, <2>3, <1>6
  <2> QED
    BY <2>2, <2>3
<1>8. \A e \in Entries :
        metadataIndex'[e] = {s \in Described : metadata'[s] # None /\ Listed(metadata'[s].attributes, e)}
  BY <1>3, <1>4, <1>7
<1> QED
  BY <1>5, <1>8 DEF IndexExact, QueryTokensByAttribute

\* A sequence that is not empty has a last element.
LEMMA LastElement ==
  ASSUME NEW S, NEW h \in Seq(S), h # <<>>
  PROVE  Len(h) \in Nat \ {0} /\ h[Len(h)] \in S
<1>1. Len(h) \in Nat \ {0}
  BY EmptySeq
<1>2. Len(h) \in 1..Len(h)
  BY <1>1
<1> QED
  BY <1>1, <1>2, ElementOfSeq

\* HistoryExplains for the record and the history of one token.
Explains(m, h) ==
    /\ h # <<>> => m # None /\ h[Len(h)].version <= m.version
    /\ \A i \in 1..Len(h) - 1 : h[i].version < h[i + 1].version
    /\ m # None => \A k \in DOMAIN m.attributes :
          \E i \in 1..Len(h) :
              /\ Listed(h[i].changes, <<k, m.attributes[k]>>)
              /\ \A j \in i + 1..Len(h) : k \notin DOMAIN h[j].changes

\* A write that is recorded, of a new version, explains what it wrote and
\* leaves the rest explained as before.
LEMMA ExplainsWrite ==
  ASSUME NEW old \in Records \cup {None}, NEW m \in Records, NEW changes \in AttributeMaps,
         NEW h \in Seq(Items), Explains(old, h),
         old # None => old.version < m.version,
         \A k \in DOMAIN m.attributes :
            \/ k \in DOMAIN changes /\ changes[k] = m.attributes[k]
            \/ /\ k \notin DOMAIN changes /\ old # None /\ k \in DOMAIN old.attributes
               /\ old.attributes[k] = m.attributes[k]
  PROVE  Explains(m, Append(h, [version |-> m.version, changes |-> changes]))
<1> DEFINE entry == [version |-> m.version, changes |-> changes]
           g == Append(h, entry)
           n == Len(h)
<1>1. /\ n \in Nat /\ Len(g) = n + 1 /\ g[n + 1] = entry
      /\ \A i \in 1..n : g[i] = h[i] /\ h[i].version \in Nat
      /\ entry.version = m.version /\ entry.changes = changes
      /\ m.version \in Nat /\ m # None
  <2>1. entry \in Items /\ m.version \in Nat /\ m # None
    BY NoMetadataAssumption DEF Records, Items
  <2>2. \A x \in Items : x.version \in Nat
    BY DEF Items
  <2> HIDE DEF entry
  <2>3. /\ n \in Nat /\ Len(g) = n + 1 /\ g[n + 1] = entry
        /\ \A i \in 1..n : g[i] = h[i] /\ h[i] \in Items
    BY <2>1, AppendProperties, ElementOfSeq
  <2> QED
    BY <2>1, <2>2, <2>3 DEF entry
<1>2. n # 0 => old # None /\ h[n].version <= old.version
  <2>1. n # 0 => h # <<>>
    OBVIOUS
  <2> QED
    BY <2>1 DEF Explains
<1>3. \A i \in 1..n - 1 : h[i].version < h[i + 1].version
  BY DEF Explains
<1>4. old # None => old.version \in Nat
  BY DEF Records
<1> HIDE DEF entry, g, n
<1>5. \A i \in 1..n : g[i].version < g[i + 1].version
  <2> SUFFICES ASSUME NEW i \in 1..n PROVE g[i].version < g[i + 1].version
    OBVIOUS
  <2>1. CASE i < n
    BY <1>1, <1>3, <2>1
  <2>2. CASE i = n
    BY <1>1, <1>2, <1>4, <2>2
  <2> QED
    BY <1>1, <2>1, <2>2
<1>6. ASSUME NEW k \in DOMAIN m.attributes
      PROVE  \E i \in 1..n + 1 :
                /\ Listed(g[i].changes, <<k, m.attributes[k]>>)
                /\ \A j \in i + 1..n + 1 : k \notin DOMAIN g[j].changes
  <2>1. CASE k \in DOMAIN changes /\ changes[k] = m.attributes[k]
    <3>1. Listed(g[n + 1].changes, <<k, m.attributes[k]>>)
      BY <1>1, <2>1 DEF Listed
    <3>2. n + 1 \in 1..n + 1 /\ (n + 1) + 1..n + 1 = {}
      BY <1>1
    <3> QED
      BY <3>1, <3>2
  <2>2. CASE /\ k \notin DOMAIN changes /\ old # None /\ k \in DOMAIN old.attributes
             /\ old.attributes[k] = m.attributes[k]
    <3>1. PICK i \in 1..n : /\ Listed(h[i].changes, <<k, m.attributes[k]>>)
                            /\ \A j \in i + 1..n : k \notin DOMAIN h[j].changes
      BY <2>2 DEF Explains, n
    <3>2. i \in 1..n + 1 /\ Listed(g[i].changes, <<k, m.attributes[k]>>)
      BY <1>1, <3>1
    <3>3. ASSUME NEW j \in i + 1..n + 1 PROVE k \notin DOMAIN g[j].changes
      <4>1. CASE j = n + 1
        BY <1>1, <2>2, <4>1
      <4>2. CASE j # n + 1
        BY <1>1, <3>1, <4>2
      <4> QED
        BY <4>1, <4>2
    <3> QED
      BY <3>2, <3>3
  <2> QED
    BY <2>1, <2>2
<1>7. Len(g) = n + 1 /\ Len(g) - 1 = n /\ g[Len(g)].version <= m.version
  BY <1>1
<1> QED
  BY <1>1, <1>5, <1>6, <1>7 DEF Explains, g, entry

\* A removal of attributes explains what is left as before.
LEMMA ExplainsRemoval ==
  ASSUME NEW old \in Records, NEW m \in Records,
         NEW h \in Seq(Items), Explains(old, h),
         old.version < m.version, old # None,
         \A k \in DOMAIN m.attributes :
            k \in DOMAIN old.attributes /\ old.attributes[k] = m.attributes[k]
  PROVE  Explains(m, h)
<1>1. m # None /\ old.version \in Nat /\ m.version \in Nat
  BY NoMetadataAssumption DEF Records
<1>2. h # <<>> => h[Len(h)].version <= m.version
  <2>1. ASSUME h # <<>> PROVE h[Len(h)].version \in Nat
    <3>1. h[Len(h)] \in Items
      BY <2>1, LastElement
    <3> QED
      BY <3>1 DEF Items
  <2> QED
    BY <1>1, <2>1 DEF Explains
<1> QED
  BY <1>1, <1>2 DEF Explains

\* The invariant after a write of the record m of a token.
LEMMA MetadataWrite ==
  ASSUME MetadataInv, NEW t \in Described, NEW m \in Records,
         NEW h \in Seq(Items), NEW old, NEW new,
         metadata' = [metadata EXCEPT ![t] = m],
         metadataHistory' = [metadataHistory EXCEPT ![t] = h],
         metadataIndex' = Reindexed(t, old, new),
         \A e \in Entries :
            Listed(m.attributes, e) <=>
               \/ metadata[t] # None /\ Listed(metadata[t].attributes, e) /\ ~Listed(old, e)
               \/ Listed(new, e),
         Explains(m, h)
  PROVE  MetadataInv'
<1>1. IndexExact' /\ metadataIndex' \in [Entries -> SUBSET Described]
  BY ReindexedExact DEF MetadataInv
<1>2. MetadataTypes'
  BY <1>1 DEF MetadataInv, MetadataTypes
<1>3. \A s \in Described : Explains(metadata'[s], metadataHistory'[s])
  <2> SUFFICES ASSUME NEW s \in Described PROVE Explains(metadata'[s], metadataHistory'[s])
    OBVIOUS
  <2>1. CASE s = t
    BY <2>1 DEF MetadataInv, MetadataTypes
  <2>2. CASE s # t
    <3>1. metadata'[s] = metadata[s] /\ metadataHistory'[s] = metadataHistory[s]
      BY <2>2 DEF MetadataInv, MetadataTypes
    <3>2. Explains(metadata[s], metadataHistory[s])
      BY DEF MetadataInv, HistoryExplains, Explains
    <3> QED
      BY <3>1, <3>2
  <2> QED
    BY <2>1, <2>2
<1>4. HistoryExplains'
  BY <1>3 DEF HistoryExplains, Explains, Listed
<1> QED
  BY <1>1, <1>2, <1>4 DEF MetadataInv

\* What Stored writes: a record of the next version.
LEMMA StoredRecord ==
  ASSUME MetadataInv, NEW t \in Described, NEW attributes \in AttributeMaps, Stored(t, attributes)
  PROVE  \E m \in Records :
            /\ m.attributes = attributes
            /\ metadata' = [metadata EXCEPT ![t] = m] /\ metadata'[t] = m
            /\ metadata[t] # None => metadata[t].version < m.version
<1> DEFINE version == IF metadata[t] = None THEN 1 ELSE metadata[t].version + 1
           m == [attributes |-> attributes, version |-> version]
<1>1. metadata[t] # None => metadata[t] \in Records /\ metadata[t].version \in Nat
  BY DEF MetadataInv, MetadataTypes, Records
<1>2. version \in Nat /\ (metadata[t] # None => metadata[t].version < version)
  BY <1>1
<1>3. metadata' = [metadata EXCEPT ![t] = m] /\ metadata'[t] = m
  BY DEF Stored, MetadataInv, MetadataTypes
<1> HIDE DEF version
<1>4. m \in Records /\ m.attributes = attributes /\ m.version = version
  BY <1>2 DEF Records
<1> QED
  BY <1>2, <1>3, <1>4

\* The history of a token that is written to and its record.
LEMMA MetadataOf ==
  ASSUME MetadataInv, NEW t \in Described
  PROVE  /\ metadata[t] \in Records \cup {None}
         /\ metadataHistory[t] \in Seq(Items) /\ Explains(metadata[t], metadataHistory[t])
         /\ metadata[t] # None => metadata[t].attributes \in AttributeMaps
BY DEF MetadataInv, MetadataTypes, HistoryExplains, Explains, Records

\* set_token_metadata
LEMMA SetMetadataStep ==
  ASSUME MetadataInv, NEW t \in Described, NEW map \in AttributeMaps, SetTokenMetadata(t, map)
  PROVE  MetadataInv'
<1> DEFINE o == IF metadata[t] = None THEN <<>> ELSE metadata[t].attributes
<1>1. PICK m \in Records : /\ m.attributes = map
                           /\ metadata' = [metadata EXCEPT ![t] = m] /\ metadata'[t] = m
                           /\ metadata[t] # None => metadata[t].version < m.version
  BY StoredRecord DEF SetTokenMetadata
<1> DEFINE item == [version |-> m.version, changes |-> map]
           h == Append(metadataHistory[t], item)
<1>2. metadataHistory' = [metadataHistory EXCEPT ![t] = h] /\ metadataIndex' = Reindexed(t, o, map)
  BY <1>1 DEF SetTokenMetadata, Recorded
<1>3. item \in Items /\ h \in Seq(Items)
  <2>1. item \in Items
    BY DEF Items, Records
  <2> HIDE DEF item
  <2> QED
    BY <2>1, MetadataOf, AppendProperties
<1>4. Explains(m, h)
  BY <1>1, MetadataOf, ExplainsWrite
<1>5. \A e \in Entries :
         Listed(m.attributes, e) <=>
            \/ metadata[t] # None /\ Listed(metadata[t].attributes, e) /\ ~Listed(o, e)
            \/ Listed(map, e)
  BY <1>1
<1> HIDE DEF h, o
<1> QED
  BY <1>1, <1>2, <1>3, <1>4, <1>5, MetadataWrite

\* update_token_metadata
LEMMA UpdateMetadataStep ==
  ASSUME MetadataInv, NEW t \in Described, NEW map \in AttributeMaps, UpdateTokenMetadata(t, map)
  PROVE  MetadataInv'
<1> DEFINE a == metadata[t].attributes
           o == Superseded(t, map)
           K == DOMAIN a \cap DOMAIN map
<1>0. metadata[t] # None /\ a \in AttributeMaps
  BY MetadataOf DEF UpdateTokenMetadata
<1>u. /\ Updated(a, map) \in AttributeMaps
      /\ DOMAIN Updated(a, map) = DOMAIN a \cup DOMAIN map
      /\ \A k \in DOMAIN map : Updated(a, map)[k] = map[k]
      /\ \A k \in DOMAIN a \ DOMAIN map : Updated(a, map)[k] = a[k]
  BY <1>0, UpdatedType
<1>1. PICK m \in Records : /\ m.attributes = Updated(a, map)
                           /\ metadata' = [metadata EXCEPT ![t] = m] /\ metadata'[t] = m
                           /\ metadata[t] # None => metadata[t].version < m.version
  BY <1>u, StoredRecord DEF UpdateTokenMetadata
<1> DEFINE item == [version |-> m.version, changes |-> map]
           h == Append(metadataHistory[t], item)
<1>2. metadataHistory' = [metadataHistory EXCEPT ![t] = h] /\ metadataIndex' = Reindexed(t, o, map)
  BY <1>1 DEF UpdateTokenMetadata, Recorded
<1>3. item \in Items /\ h \in Seq(Items)
  <2>1. item \in Items
    BY DEF Items, Records
  <2> HIDE DEF item
  <2> QED
    BY <2>1, MetadataOf, AppendProperties
<1>4. Explains(m, h)
  <2>1. \A k \in DOMAIN m.attributes :
            \/ k \in DOMAIN map /\ map[k] = m.attributes[k]
            \/ /\ k \notin DOMAIN map /\ metadata[t] # None /\ k \in DOMAIN metadata[t].attributes
               /\ metadata[t].attributes[k] = m.attributes[k]
    BY <1>0, <1>1, <1>u
  <2> QED
    BY <1>1, <2>1, MetadataOf, ExplainsWrite
<1>5. ASSUME NEW e \in Entries
      PROVE  Listed(m.attributes, e) <=>
                \/ metadata[t] # None /\ Listed(metadata[t].attributes, e) /\ ~Listed(o, e)
                \/ Listed(map, e)
  <2>1. /\ DOMAIN o = K /\ \A k \in K : o[k] = a[k]
    BY <1>0, RestrictType DEF Superseded
  <2> HIDE DEF o
  <2>2. Listed(o, e) <=> Listed(a, e) /\ e[1] \in DOMAIN map
    BY <2>1 DEF Listed
  <2>3. Listed(m.attributes, e) <=> (Listed(a, e) /\ e[1] \notin DOMAIN map) \/ Listed(map, e)
    BY <1>1, <1>u DEF Listed
  <2> QED
    BY <1>0, <2>2, <2>3
<1> HIDE DEF h, o, a
<1> QED
  BY <1>1, <1>2, <1>3, <1>4, <1>5, MetadataWrite

\* remove_metadata_attributes
LEMMA RemoveMetadataStep ==
  ASSUME MetadataInv, NEW t \in Described, NEW K \in SUBSET Attributes,
         RemoveMetadataAttributes(t, K)
  PROVE  MetadataInv'
<1> DEFINE a == metadata[t].attributes
           o == Restrict(a, DOMAIN a \cap K)
           r == Restrict(a, DOMAIN a \ K)
           nothing == <<>>
<1>0. metadata[t] # None /\ a \in AttributeMaps
  BY MetadataOf DEF RemoveMetadataAttributes
<1>r. r \in AttributeMaps /\ DOMAIN r = DOMAIN a \ K /\ \A k \in DOMAIN a \ K : r[k] = a[k]
  BY <1>0, RestrictType
<1>o. DOMAIN o = DOMAIN a \cap K /\ \A k \in DOMAIN a \cap K : o[k] = a[k]
  BY <1>0, RestrictType
<1>2. Stored(t, r) /\ metadataHistory' = metadataHistory /\ metadataIndex' = Reindexed(t, o, nothing)
  BY DEF RemoveMetadataAttributes
<1> HIDE DEF r, o
<1>1. PICK m \in Records : /\ m.attributes = r
                           /\ metadata' = [metadata EXCEPT ![t] = m] /\ metadata'[t] = m
                           /\ metadata[t] # None => metadata[t].version < m.version
  BY <1>r, <1>2, StoredRecord
<1> DEFINE h == metadataHistory[t]
<1>3. h \in Seq(Items) /\ metadataHistory' = [metadataHistory EXCEPT ![t] = h]
  BY <1>2 DEF MetadataInv, MetadataTypes
<1>4. Explains(m, h)
  BY <1>0, <1>1, <1>r, MetadataOf, ExplainsRemoval
<1>5. ASSUME NEW e \in Entries
      PROVE  Listed(m.attributes, e) <=>
                \/ metadata[t] # None /\ Listed(metadata[t].attributes, e) /\ ~Listed(o, e)
                \/ Listed(nothing, e)
  <2>1. Listed(o, e) <=> Listed(a, e) /\ e[1] \in K
    BY <1>o DEF Listed
  <2>2. Listed(m.attributes, e) <=> Listed(a, e) /\ e[1] \notin K
    BY <1>1, <1>r DEF Listed
  <2>3. ~Listed(nothing, e)
    BY DEF Listed
  <2> QED
    BY <1>0, <2>1, <2>2, <2>3
<1> HIDE DEF h, nothing, a
<1> QED
  BY <1>1, <1>2, <1>3, <1>4, <1>5, MetadataWrite

\* Every call keeps the index and the history.
LEMMA MetadataStep == MetadataInv /\ [MetadataNext]_metadataVars => MetadataInv'
<1> SUFFICES ASSUME MetadataInv, [MetadataNext]_metadataVars PROVE MetadataInv'
  OBVIOUS
<1>1. ASSUME NEW t \in Described, NEW map \in AttributeMaps, SetTokenMetadata(t, map)
      PROVE  MetadataInv'
  BY <1>1, SetMetadataStep
<1>2. ASSUME NEW t \in Described, NEW map \in AttributeMaps, UpdateTokenMetadata(t, map)
      PROVE  MetadataInv'
  BY <1>2, UpdateMetadataStep
<1>3. ASSUME NEW t \in Described, NEW K \in SUBSET Attributes, RemoveMetadataAttributes(t, K)
      PROVE  MetadataInv'
  BY <1>3, RemoveMetadataStep
<1>4. CASE UNCHANGED metadataVars
  BY <1>4 DEF metadataVars, MetadataInv, MetadataTypes, IndexExact, HistoryExplains,
              QueryTokensByAttribute, Listed
<1> QED
  BY <1>1, <1>2, <1>3, <1>4 DEF MetadataNext

\* Without a record there is nothing to find and nothing to explain.
LEMMA MetadataStart == MetadataInit => MetadataInv
<1> SUFFICES ASSUME MetadataInit PROVE MetadataInv
  OBVIOUS
<1>1. MetadataTypes
  BY EmptySeq DEF MetadataInit, MetadataTypes
<1>2. IndexExact
  BY DEF MetadataInit, IndexExact, QueryTokensByAttribute
<1>3. HistoryExplains
  <2>1. \A t \in Described : metadataHistory[t] = <<>> /\ metadata[t] = None
    BY DEF MetadataInit
  <2>2. Len(<<>>) = 0 /\ 1..0 - 1 = {}
    BY EmptySeq
  <2> QED
    BY <2>1, <2>2 DEF HistoryExplains
<1> QED
  BY <1>1, <1>2, <1>3 DEF MetadataInv

-----------------------------------------------------------------------------
\* The two together

LedgersInv == MetadataInv /\ SupplyIsSum

\* A step of one product leaves the records of the others alone.
LEMMA LedgersStep ==
  LedgersInv /\ [Next]_<<part, now, termsState, subscriptionState, tierState, stakingState,
                         metadataVars, creditVars, attendanceState, pricingState>>
     => LedgersInv'
<1> SUFFICES ASSUME LedgersInv,
                    [Next]_<<part, now, termsState, subscriptionState, tierState, stakingState,
                             metadataVars, creditVars, attendanceState, pricingState>>
             PROVE  LedgersInv'
  OBVIOUS
<1>1. \/ MetadataNext /\ UNCHANGED creditVars
      \/ CreditsNext /\ UNCHANGED metadataVars
      \/ UNCHANGED <<creditVars, metadataVars>>
  BY DEF Next
<1> QED
  BY <1>1, MetadataStep, CreditsStep DEF LedgersInv

\* For any tokens, attributes and accounts, in any sequence of calls, a query
\* by attribute finds exactly the tokens that carry it, the history explains
\* what a token says of itself (membership_token.rs), and the credits of the
\* members add up to the supply (resource_credits).
THEOREM LedgersAgree == Spec => []LedgersConsistent
<1>1. Init => LedgersInv
  BY MetadataStart, CreditsStart DEF Init, LedgersInv
<1>2. LedgersInv => LedgersConsistent
  BY DEF LedgersInv, MetadataInv, LedgersConsistent, MetadataConsistent
<1> QED
  BY <1>1, <1>2, LedgersStep, PTL DEF Spec

-----------------------------------------------------------------------------
\* Tiers

Promos == [id : PromoIds, tier : TierIds, code : Codes, start : {w.start : w \in PromoWindows},
           end : {w.end : w \in PromoWindows}, max : Nat, redemptions : Nat]

TiersTypes ==
    /\ now \in Nat
    /\ tierActive \in [TierIds -> BOOLEAN \cup {None}]
    /\ subscribers \in [TierIds -> Nat]
    /\ enrolled \in [Subscribers -> Enrolments \cup {None}]
    /\ promotions \in Seq(Promos)
    /\ request \in [0..RequestIds - 1 -> Changes \cup {None}]

\* A promotion is stored once, and only stored promotions were granted.
PromotionsDistinct ==
    /\ \A i, j \in DOMAIN promotions : promotions[i].id = promotions[j].id => i = j
    /\ \A s \in Subscribers : enrolled[s] # None /\ enrolled[s].promotion # None =>
          \E i \in DOMAIN promotions : promotions[i].id = enrolled[s].promotion

TiersInv == TiersTypes /\ PromotionsDistinct /\ TiersConsistent

\* The subscriptions with a tier, and those sold with a promotion.
OfTier(e, t) == {s \in Subscribers : e[s] # None /\ e[s].tier = t}
SoldWith(e, id) == {s \in Subscribers : e[s] # None /\ e[s].promotion = id}

\* What one element more or less does to the size of a set of subscriptions.
LEMMA OneChanged ==
  ASSUME NEW A \in SUBSET Subscribers, NEW B \in SUBSET Subscribers, NEW s \in Subscribers,
         \A r \in Subscribers \ {s} : r \in A <=> r \in B
  PROVE  /\ Cardinality(A) \in Nat /\ Cardinality(B) \in Nat
         /\ (s \in A <=> s \in B) => A = B
         /\ s \notin A /\ s \in B => Cardinality(B) = Cardinality(A) + 1
         /\ s \in A /\ s \notin B => Cardinality(B) = Cardinality(A) - 1
<1>1. IsFiniteSet(A) /\ IsFiniteSet(B)
  BY TiersAssumption, FS_Subset
<1>2. Cardinality(A) \in Nat /\ Cardinality(B) \in Nat
  BY <1>1, FS_CardinalityType
<1>3. (s \in A <=> s \in B) => A = B
  OBVIOUS
<1>4. ASSUME s \notin A, s \in B PROVE Cardinality(B) = Cardinality(A) + 1
  <2>1. B = A \cup {s}
    BY <1>4
  <2> QED
    BY <1>1, <1>4, <2>1, FS_AddElement
<1>5. ASSUME s \in A, s \notin B PROVE Cardinality(B) = Cardinality(A) - 1
  <2>1. A = B \cup {s}
    BY <1>5
  <2> QED
    BY <1>1, <1>2, <1>5, <2>1, FS_AddElement
<1> QED
  BY <1>2, <1>3, <1>4, <1>5

\* The saturating subtraction of the counter of subscribers.
LEMMA Saturated == ASSUME NEW n \in Nat PROVE Max({0, n - 1}) = IF n = 0 THEN 0 ELSE n - 1
<1>1. CASE n = 0
  <2>1. \A x \in {0, n - 1} : (\A y \in {0, n - 1} : x >= y) <=> x = 0
    BY <1>1
  <2> QED
    BY <1>1, <2>1 DEF Max
<1>2. CASE n # 0
  <2>1. \A x \in {0, n - 1} : (\A y \in {0, n - 1} : x >= y) <=> x = n - 1
    BY <1>2
  <2> QED
    BY <1>2, <2>1 DEF Max
<1> QED
  BY <1>1, <1>2

\* The promotion that is looked at is one of the list.
LEMMA PromotionType ==
  ASSUME promotions \in Seq(Promos), NEW t, NEW c, Promotion(t, c) > 0
  PROVE  Promotion(t, c) \in DOMAIN promotions
<1> DEFINE I == {i \in 1..Len(promotions) : promotions[i].tier = t /\ promotions[i].code = c}
<1>1. Promotion(t, c) = IF I # {} THEN Min(I) ELSE 0
  BY DEF Promotion, SelectInSeq
<1>2. I # {} /\ Promotion(t, c) = Min(I)
  BY <1>1
<1>3. I \subseteq Nat /\ I \subseteq DOMAIN promotions
  BY LenProperties
<1> HIDE DEF I
<1>4. \E i \in I : \A j \in I : ~(<<j, i>> \in OpToRel(<, Nat))
  BY <1>2, <1>3, NatLessThanWellFounded, WFMin
<1>5. PICK i \in I : \A j \in I : ~(j < i)
  BY <1>3, <1>4 DEF OpToRel
<1>6. \A j \in I : i =< j
  BY <1>3, <1>5
<1>7. Min(I) \in I
  BY <1>6 DEF Min
<1> QED
  BY <1>2, <1>3, <1>7

\* A request names two tiers that exist.
ChangeOK(r) == r # None => r \in Changes /\ tierActive[r.from] # None /\ tierActive[r.to] # None

\* The parts of the invariant, one tier, promotion and request at a time.
LEMMA TiersFacts ==
  ASSUME TiersInv
  PROVE  /\ \A t \in TierIds : /\ subscribers[t] \in Nat
                               /\ Cardinality(OfTier(enrolled, t)) <= subscribers[t]
                               /\ tierActive[t] = None => subscribers[t] = 0
         /\ \A s \in Subscribers : enrolled[s] # None =>
               /\ enrolled[s] \in Enrolments
               /\ enrolled[s].tier # None => tierActive[enrolled[s].tier] # None
         /\ \A i \in DOMAIN promotions :
               /\ promotions[i] \in Promos /\ tierActive[promotions[i].tier] # None
               /\ Cardinality(SoldWith(enrolled, promotions[i].id)) = promotions[i].redemptions
               /\ promotions[i].max > 0 => promotions[i].redemptions <= promotions[i].max
         /\ \A i \in 0..RequestIds - 1 : ChangeOK(request[i])
<1>1. \A s \in Subscribers : enrolled[s] # None => enrolled[s] \in Enrolments
  BY DEF TiersInv, TiersTypes
<1>2. \A i \in DOMAIN promotions : promotions[i] \in Promos
  BY ElementOfSeq, LenProperties DEF TiersInv, TiersTypes
<1>3. \A i \in 0..RequestIds - 1 : request[i] # None => request[i] \in Changes
  BY DEF TiersInv, TiersTypes
<1>4. DOMAIN request = 0..RequestIds - 1
  BY DEF TiersInv, TiersTypes
<1>5. \A t \in TierIds : subscribers[t] \in Nat /\ Cardinality(OfTier(enrolled, t)) <= subscribers[t]
  BY DEF TiersInv, TiersTypes, TiersConsistent, SubscribersCovered, OfTier
<1>6. \A t \in TierIds : tierActive[t] = None => subscribers[t] = 0
  BY DEF TiersInv, TiersConsistent, TiersExist
<1>7. \A s \in Subscribers : enrolled[s] # None /\ enrolled[s].tier # None =>
         tierActive[enrolled[s].tier] # None
  <2> SUFFICES ASSUME NEW s \in Subscribers, enrolled[s] # None, enrolled[s].tier # None
               PROVE  tierActive[enrolled[s].tier] # None
    OBVIOUS
  <2>1. enrolled[s].tier \in TierIds
    BY <1>1 DEF Enrolments
  <2> QED
    BY <2>1 DEF TiersInv, TiersConsistent, TiersExist
<1>8. \A i \in DOMAIN promotions : tierActive[promotions[i].tier] # None
  <2> SUFFICES ASSUME NEW i \in DOMAIN promotions PROVE tierActive[promotions[i].tier] # None
    OBVIOUS
  <2>1. promotions[i].tier \in TierIds
    BY <1>2 DEF Promos
  <2> QED
    BY <2>1 DEF TiersInv, TiersConsistent, TiersExist
<1>9. \A i \in DOMAIN promotions :
         /\ Cardinality(SoldWith(enrolled, promotions[i].id)) = promotions[i].redemptions
         /\ promotions[i].max > 0 => promotions[i].redemptions <= promotions[i].max
  BY DEF TiersInv, TiersConsistent, PromotionsWithinLimits, SoldWith
<1>10. \A i \in 0..RequestIds - 1 : ChangeOK(request[i])
  <2> SUFFICES ASSUME NEW i \in 0..RequestIds - 1, request[i] # None
               PROVE  tierActive[request[i].from] # None /\ tierActive[request[i].to] # None
    BY <1>3 DEF ChangeOK
  <2>1. request[i].from \in TierIds /\ request[i].to \in TierIds
    BY <1>3 DEF Changes
  <2> QED
    BY <1>4, <2>1 DEF TiersInv, TiersConsistent, TiersExist
<1> QED
  BY <1>1, <1>2, <1>5, <1>6, <1>7, <1>8, <1>9, <1>10

\* The same facts of the next state are the invariant of the next state.
LEMMA TiersBuilt ==
  ASSUME TiersTypes', PromotionsDistinct',
         \A t \in TierIds : /\ Cardinality(OfTier(enrolled', t)) <= subscribers'[t]
                            /\ tierActive'[t] = None => subscribers'[t] = 0,
         \A s \in Subscribers : enrolled'[s] # None /\ enrolled'[s].tier # None =>
            tierActive'[enrolled'[s].tier] # None,
         \A i \in DOMAIN promotions' :
            /\ tierActive'[promotions'[i].tier] # None
            /\ Cardinality(SoldWith(enrolled', promotions'[i].id)) = promotions'[i].redemptions
            /\ promotions'[i].max > 0 => promotions'[i].redemptions <= promotions'[i].max,
         \A i \in 0..RequestIds - 1 : ChangeOK(request[i])'
  PROVE  TiersInv'
<1>1. DOMAIN request' = 0..RequestIds - 1
  BY DEF TiersTypes
<1>2. TiersExist'
  <2> SUFFICES ASSUME NEW t \in TierIds, tierActive'[t] = None
               PROVE  /\ subscribers'[t] = 0
                      /\ \A s \in Subscribers : enrolled'[s] # None => enrolled'[s].tier # t
                      /\ \A i \in DOMAIN promotions' : promotions'[i].tier # t
                      /\ \A i \in DOMAIN request' : request'[i] # None =>
                            t \notin {request'[i].from, request'[i].to}
    BY DEF TiersExist
  <2>1. \A s \in Subscribers : enrolled'[s] # None => enrolled'[s].tier # t
    BY TiersAssumption
  <2>2. \A i \in DOMAIN request' : request'[i] # None => t \notin {request'[i].from, request'[i].to}
    BY <1>1 DEF ChangeOK
  <2> QED
    BY <2>1, <2>2
<1>3. SubscribersCovered'
  BY DEF SubscribersCovered, OfTier
<1>4. PromotionsWithinLimits'
  BY DEF PromotionsWithinLimits, SoldWith
<1> QED
  BY <1>2, <1>3, <1>4 DEF TiersInv, TiersConsistent

\* What does not change the subscriptions and promotions: tiers never go, and
\* their counters only grow.
LEMMA TiersKept ==
  ASSUME TiersInv, UNCHANGED <<enrolled, promotions>>, now' \in Nat,
         tierActive' \in [TierIds -> BOOLEAN \cup {None}],
         subscribers' \in [TierIds -> Nat],
         \A t \in TierIds : /\ tierActive'[t] = None => tierActive[t] = None /\ subscribers'[t] = 0
                            /\ subscribers[t] <= subscribers'[t],
         request' \in [0..RequestIds - 1 -> Changes \cup {None}],
         \A i \in 0..RequestIds - 1 : ChangeOK(request'[i])
  PROVE  TiersInv'
<1>1. TiersTypes'
  BY DEF TiersInv, TiersTypes
<1>2. PromotionsDistinct'
  BY DEF TiersInv, PromotionsDistinct
<1>3. enrolled' = enrolled
  OBVIOUS
<1>4. \A t \in TierIds : /\ Cardinality(OfTier(enrolled', t)) <= subscribers'[t]
                         /\ tierActive'[t] = None => subscribers'[t] = 0
  <2> SUFFICES ASSUME NEW t \in TierIds PROVE Cardinality(OfTier(enrolled', t)) <= subscribers'[t]
    OBVIOUS
  <2>1. Cardinality(OfTier(enrolled, t)) \in Nat
    BY TiersAssumption, FS_Subset, FS_CardinalityType DEF OfTier
  <2>2. subscribers[t] \in Nat /\ subscribers'[t] \in Nat /\ subscribers[t] <= subscribers'[t]
    BY TiersFacts
  <2> QED
    BY <1>3, <2>1, <2>2, TiersFacts
<1>5. \A s \in Subscribers : enrolled'[s] # None /\ enrolled'[s].tier # None =>
         tierActive'[enrolled'[s].tier] # None
  <2> SUFFICES ASSUME NEW s \in Subscribers, enrolled[s] # None, enrolled[s].tier # None
               PROVE  tierActive'[enrolled[s].tier] # None
    OBVIOUS
  <2>1. enrolled[s].tier \in TierIds /\ tierActive[enrolled[s].tier] # None
    BY TiersFacts DEF Enrolments
  <2> QED
    BY <2>1
<1>6. \A i \in DOMAIN promotions' :
         /\ tierActive'[promotions'[i].tier] # None
         /\ Cardinality(SoldWith(enrolled', promotions'[i].id)) = promotions'[i].redemptions
         /\ promotions'[i].max > 0 => promotions'[i].redemptions <= promotions'[i].max
  <2> SUFFICES ASSUME NEW i \in DOMAIN promotions
               PROVE  /\ tierActive'[promotions[i].tier] # None
                      /\ Cardinality(SoldWith(enrolled, promotions[i].id)) = promotions[i].redemptions
                      /\ promotions[i].max > 0 => promotions[i].redemptions <= promotions[i].max
    BY <1>3
  <2>1. promotions[i].tier \in TierIds
    BY TiersFacts DEF Promos
  <2> QED
    BY <2>1, TiersFacts
<1>7. \A i \in 0..RequestIds - 1 : ChangeOK(request[i])'
  <2> SUFFICES ASSUME NEW i \in 0..RequestIds - 1, request'[i] # None
               PROVE  /\ request'[i] \in Changes /\ tierActive'[request'[i].from] # None
                      /\ tierActive'[request'[i].to] # None
    BY DEF ChangeOK
  <2>1. /\ request'[i] \in Changes
        /\ tierActive[request'[i].from] # None /\ tierActive[request'[i].to] # None
    BY DEF ChangeOK
  <2>2. request'[i].from \in TierIds /\ request'[i].to \in TierIds
    BY <2>1 DEF Changes
  <2> QED
    BY <2>1, <2>2
<1> QED
  BY <1>1, <1>2, <1>4, <1>5, <1>6, <1>7, TiersBuilt

\* How the number of subscriptions of a tier follows the enrolment of one.
LEMMA TierCount ==
  ASSUME TiersInv, NEW s \in Subscribers, NEW r \in Enrolments, NEW t \in TierIds,
         enrolled' = [enrolled EXCEPT ![s] = r]
  PROVE  LET was == enrolled[s] # None /\ enrolled[s].tier = t
             is == r.tier = t
             before == Cardinality(OfTier(enrolled, t))
             after == Cardinality(OfTier(enrolled', t))
         IN /\ before \in Nat /\ after \in Nat
            /\ (was <=> is) => after = before
            /\ is /\ ~was => after = before + 1
            /\ was /\ ~is => after = before - 1
<1> DEFINE A == OfTier(enrolled, t)
           B == OfTier(enrolled', t)
<1>1. /\ enrolled'[s] = r /\ r # None /\ \A u \in Subscribers \ {s} : enrolled'[u] = enrolled[u]
  BY TiersAssumption DEF TiersInv, TiersTypes
<1>2. /\ A \in SUBSET Subscribers /\ B \in SUBSET Subscribers
      /\ \A u \in Subscribers \ {s} : u \in A <=> u \in B
      /\ s \in A <=> enrolled[s] # None /\ enrolled[s].tier = t
      /\ s \in B <=> r.tier = t
  BY <1>1 DEF OfTier
<1> HIDE DEF A, B
<1>3. /\ Cardinality(A) \in Nat /\ Cardinality(B) \in Nat
      /\ (s \in A <=> s \in B) => A = B
      /\ s \notin A /\ s \in B => Cardinality(B) = Cardinality(A) + 1
      /\ s \in A /\ s \notin B => Cardinality(B) = Cardinality(A) - 1
  BY <1>2, OneChanged
<1> QED
  BY <1>2, <1>3 DEF A, B

\* And the number of those that were sold with a promotion.
LEMMA SoldCount ==
  ASSUME TiersInv, NEW s \in Subscribers, NEW r \in Enrolments, NEW id \in PromoIds,
         enrolled' = [enrolled EXCEPT ![s] = r]
  PROVE  LET was == enrolled[s] # None /\ enrolled[s].promotion = id
             is == r.promotion = id
             before == Cardinality(SoldWith(enrolled, id))
             after == Cardinality(SoldWith(enrolled', id))
         IN /\ before \in Nat /\ after \in Nat
            /\ (was <=> is) => after = before
            /\ is /\ ~was => after = before + 1
            /\ was /\ ~is => after = before - 1
<1> DEFINE A == SoldWith(enrolled, id)
           B == SoldWith(enrolled', id)
<1>1. /\ enrolled'[s] = r /\ r # None /\ \A u \in Subscribers \ {s} : enrolled'[u] = enrolled[u]
  BY TiersAssumption DEF TiersInv, TiersTypes
<1>2. /\ A \in SUBSET Subscribers /\ B \in SUBSET Subscribers
      /\ \A u \in Subscribers \ {s} : u \in A <=> u \in B
      /\ s \in A <=> enrolled[s] # None /\ enrolled[s].promotion = id
      /\ s \in B <=> r.promotion = id
  BY <1>1 DEF SoldWith
<1> HIDE DEF A, B
<1>3. /\ Cardinality(A) \in Nat /\ Cardinality(B) \in Nat
      /\ (s \in A <=> s \in B) => A = B
      /\ s \notin A /\ s \in B => Cardinality(B) = Cardinality(A) + 1
      /\ s \in A /\ s \notin B => Cardinality(B) = Cardinality(A) - 1
  BY <1>2, OneChanged
<1> QED
  BY <1>2, <1>3 DEF A, B

\* The enrolments after one of them is written.
LEMMA EnrolledType ==
  ASSUME TiersInv, NEW s \in Subscribers, NEW r \in Enrolments,
         enrolled' = [enrolled EXCEPT ![s] = r]
  PROVE  /\ enrolled' \in [Subscribers -> Enrolments \cup {None}]
         /\ enrolled'[s] = r /\ \A u \in Subscribers \ {s} : enrolled'[u] = enrolled[u]
BY DEF TiersInv, TiersTypes

\* The tier of a subscription exists after the step when it did before.
LEMMA EnrolledTiers ==
  ASSUME TiersInv, NEW s \in Subscribers, NEW r \in Enrolments,
         enrolled' = [enrolled EXCEPT ![s] = r], tierActive' = tierActive,
         r.tier # None => tierActive[r.tier] # None
  PROVE  \A u \in Subscribers : enrolled'[u] # None /\ enrolled'[u].tier # None =>
            tierActive'[enrolled'[u].tier] # None
<1>1. enrolled'[s] = r /\ \A u \in Subscribers \ {s} : enrolled'[u] = enrolled[u]
  BY DEF TiersInv, TiersTypes
<1> QED
  BY <1>1, TiersFacts

\* create_subscription, without a tier.
LEMMA EnrolStep == ASSUME TiersInv, NEW s \in Subscribers, Enrol(s) PROVE TiersInv'
<1> DEFINE r == [tier |-> None, promotion |-> None]
<1>1. /\ enrolled[s] = None /\ enrolled' = [enrolled EXCEPT ![s] = r]
      /\ UNCHANGED <<tierActive, subscribers, promotions, request, now>>
  BY DEF Enrol
<1>2. r \in Enrolments /\ r.tier = None /\ r.promotion = None
  BY DEF Enrolments
<1> HIDE DEF r
<1>3. \A t \in TierIds : r.tier # t
  BY <1>2, TiersAssumption
<1>4. \A id \in PromoIds : r.promotion # id
  BY <1>2, TiersAssumption
<1>5. /\ enrolled' \in [Subscribers -> Enrolments \cup {None}]
      /\ \A t \in TierIds : Cardinality(OfTier(enrolled', t)) = Cardinality(OfTier(enrolled, t))
      /\ \A id \in PromoIds : Cardinality(SoldWith(enrolled', id)) = Cardinality(SoldWith(enrolled, id))
  <2>1. enrolled' \in [Subscribers -> Enrolments \cup {None}]
    BY <1>1, <1>2, EnrolledType
  <2>2. ASSUME NEW t \in TierIds
        PROVE  Cardinality(OfTier(enrolled', t)) = Cardinality(OfTier(enrolled, t))
    BY <1>1, <1>2, <1>3, TierCount
  <2>3. ASSUME NEW id \in PromoIds
        PROVE  Cardinality(SoldWith(enrolled', id)) = Cardinality(SoldWith(enrolled, id))
    BY <1>1, <1>2, <1>4, SoldCount
  <2> QED
    BY <2>1, <2>2, <2>3
<1>6. TiersTypes'
  BY <1>1, <1>5 DEF TiersInv, TiersTypes
<1>7. PromotionsDistinct'
  <2>1. enrolled'[s].promotion = None /\ \A u \in Subscribers \ {s} : enrolled'[u] = enrolled[u]
    BY <1>1, <1>2 DEF TiersInv, TiersTypes
  <2> QED
    BY <1>1, <2>1 DEF TiersInv, PromotionsDistinct
<1>8. \A t \in TierIds : /\ Cardinality(OfTier(enrolled', t)) <= subscribers'[t]
                         /\ tierActive'[t] = None => subscribers'[t] = 0
  BY <1>1, <1>5, TiersFacts
<1>9. \A u \in Subscribers : enrolled'[u] # None /\ enrolled'[u].tier # None =>
         tierActive'[enrolled'[u].tier] # None
  BY <1>1, <1>2, EnrolledTiers
<1>10. \A i \in DOMAIN promotions' :
         /\ tierActive'[promotions'[i].tier] # None
         /\ Cardinality(SoldWith(enrolled', promotions'[i].id)) = promotions'[i].redemptions
         /\ promotions'[i].max > 0 => promotions'[i].redemptions <= promotions'[i].max
  <2> SUFFICES ASSUME NEW i \in DOMAIN promotions
               PROVE  /\ tierActive[promotions[i].tier] # None
                      /\ Cardinality(SoldWith(enrolled', promotions[i].id)) = promotions[i].redemptions
                      /\ promotions[i].max > 0 => promotions[i].redemptions <= promotions[i].max
    BY <1>1
  <2>1. promotions[i].id \in PromoIds
    BY TiersFacts DEF Promos
  <2> QED
    BY <1>5, <2>1, TiersFacts
<1>11. \A i \in 0..RequestIds - 1 : ChangeOK(request[i])'
  BY <1>1, TiersFacts DEF ChangeOK
<1> QED
  BY <1>6, <1>7, <1>8, <1>9, <1>10, <1>11, TiersBuilt

\* A promotion redeemed once more.
LEMMA CounterRaised ==
  ASSUME NEW p \in Promos, NEW q, q = [p EXCEPT !.redemptions = @ + 1]
  PROVE  /\ q \in Promos /\ q.id = p.id /\ q.tier = p.tier /\ q.max = p.max
         /\ q.redemptions = p.redemptions + 1
<1> DEFINE Starts == {w.start : w \in PromoWindows}
           Ends == {w.end : w \in PromoWindows}
<1>1. Promos = [id : PromoIds, tier : TierIds, code : Codes, start : Starts, end : Ends,
                max : Nat, redemptions : Nat]
  BY DEF Promos
<1> HIDE DEF Starts, Ends
<1>2. p.redemptions + 1 \in Nat
  BY <1>1
<1> QED
  BY <1>1, <1>2

\* A redemption raises one counter, within the limit, and nothing else.
LEMMA Redeemed ==
  ASSUME TiersInv, NEW i, ApplyPromotion(i), i \in DOMAIN promotions
  PROVE  /\ promotions' \in Seq(Promos) /\ DOMAIN promotions' = DOMAIN promotions
         /\ \A j \in DOMAIN promotions :
               /\ promotions'[j].id = promotions[j].id
               /\ promotions'[j].tier = promotions[j].tier
               /\ promotions'[j].max = promotions[j].max
               /\ promotions'[j].redemptions =
                     promotions[j].redemptions + (IF j = i THEN 1 ELSE 0)
         /\ promotions[i].max > 0 => promotions[i].redemptions + 1 <= promotions[i].max
<1> DEFINE p == promotions[i]
           q == [p EXCEPT !.redemptions = @ + 1]
<1>1. /\ p \in Promos /\ promotions \in Seq(Promos)
      /\ i \in 1..Len(promotions) /\ DOMAIN promotions = 1..Len(promotions)
  BY TiersFacts, LenProperties DEF TiersInv, TiersTypes
<1>2. p.redemptions \in Nat /\ p.max \in Nat
  BY <1>1 DEF Promos
<1>3. promotions' = [promotions EXCEPT ![i] = q]
  BY DEF ApplyPromotion
<1>4. p.max > 0 => p.redemptions < p.max
  BY DEF ApplyPromotion, Redeemable
<1> HIDE DEF p
<1>5. /\ q \in Promos /\ q.id = p.id /\ q.tier = p.tier /\ q.max = p.max
      /\ q.redemptions = p.redemptions + 1
  BY <1>1, CounterRaised
<1> HIDE DEF q
<1>6. /\ promotions' \in Seq(Promos) /\ Len(promotions') = Len(promotions)
      /\ \A j \in 1..Len(promotions) : promotions'[j] = IF j = i THEN q ELSE promotions[j]
  BY <1>1, <1>3, <1>5, ExceptSeq
<1>7. DOMAIN promotions' = DOMAIN promotions
  BY <1>1, <1>6, LenProperties
<1>8. \A j \in DOMAIN promotions : promotions[j].redemptions \in Nat
  BY TiersFacts DEF Promos
<1>9. ASSUME NEW j \in DOMAIN promotions
      PROVE  /\ promotions'[j].id = promotions[j].id
             /\ promotions'[j].tier = promotions[j].tier
             /\ promotions'[j].max = promotions[j].max
             /\ promotions'[j].redemptions = promotions[j].redemptions + (IF j = i THEN 1 ELSE 0)
  <2>1. CASE j = i
    BY <1>1, <1>5, <1>6, <2>1 DEF p
  <2>2. CASE j # i
    BY <1>1, <1>6, <1>8, <2>2
  <2> QED
    BY <2>1, <2>2
<1> QED
  BY <1>2, <1>4, <1>6, <1>7, <1>9 DEF p

\* A sale counts one subscriber and, with a code, one redemption.
LEMMA SaleStep ==
  ASSUME TiersInv, NEW s \in Subscribers, NEW t \in TierIds, NEW code,
         CreateSubscriptionWithTier(s, t, code)
  PROVE  TiersInv'
<1> DEFINE i == Promotion(t, code)
           granted == IF code = None THEN None ELSE promotions[i].id
           r == [tier |-> t, promotion |-> granted]
<1>1. /\ enrolled[s] = None /\ tierActive[t] # None
      /\ IF code = None THEN UNCHANGED promotions ELSE ApplyPromotion(i)
      /\ subscribers' = [subscribers EXCEPT ![t] = @ + 1]
      /\ enrolled' = [enrolled EXCEPT ![s] = r]
      /\ UNCHANGED <<tierActive, request, now>>
  BY DEF CreateSubscriptionWithTier, IsActive, CountSubscriber
<1>2. code # None => i \in DOMAIN promotions
  <2>1. promotions \in Seq(Promos)
    BY DEF TiersInv, TiersTypes
  <2> QED
    BY <1>1, <2>1, PromotionType DEF ApplyPromotion
<1> HIDE DEF i
<1>3. \A j \in DOMAIN promotions : promotions[j] \in Promos /\ promotions[j].id \in PromoIds
  BY TiersFacts DEF Promos
<1>4. /\ r \in Enrolments /\ r.tier = t /\ r.promotion = granted
      /\ granted # None <=> code # None
      /\ code # None => granted = promotions[i].id
  BY <1>2, <1>3, TiersAssumption DEF Enrolments
<1> HIDE DEF r, granted
<1>5. /\ promotions' \in Seq(Promos) /\ DOMAIN promotions' = DOMAIN promotions
      /\ \A j \in DOMAIN promotions :
            /\ promotions'[j].id = promotions[j].id
            /\ promotions'[j].tier = promotions[j].tier
            /\ promotions'[j].max = promotions[j].max
            /\ promotions'[j].redemptions =
                  promotions[j].redemptions + (IF code # None /\ j = i THEN 1 ELSE 0)
            /\ promotions[j].max > 0 => promotions'[j].redemptions <= promotions[j].max
  <2>1. \A j \in DOMAIN promotions : /\ promotions[j].redemptions \in Nat /\ promotions[j].max \in Nat
                                     /\ promotions[j].max > 0 => promotions[j].redemptions <= promotions[j].max
    BY TiersFacts DEF Promos
  <2>2. CASE code = None
    BY <1>1, <2>1, <2>2 DEF TiersInv, TiersTypes
  <2>3. CASE code # None
    BY <1>1, <1>2, <2>1, <2>3, Redeemed
  <2> QED
    BY <2>2, <2>3
<1>6. /\ enrolled' \in [Subscribers -> Enrolments \cup {None}]
      /\ enrolled'[s] = r /\ \A u \in Subscribers \ {s} : enrolled'[u] = enrolled[u]
  BY <1>1, <1>4, EnrolledType
<1>7. /\ subscribers' \in [TierIds -> Nat] /\ subscribers'[t] = subscribers[t] + 1
      /\ \A u \in TierIds \ {t} : subscribers'[u] = subscribers[u]
  BY <1>1 DEF TiersInv, TiersTypes
<1>8. TiersTypes'
  BY <1>1, <1>5, <1>6, <1>7 DEF TiersInv, TiersTypes
<1>9. PromotionsDistinct'
  <2>1. \A j, k \in DOMAIN promotions' : promotions'[j].id = promotions'[k].id => j = k
    BY <1>5 DEF TiersInv, PromotionsDistinct
  <2>2. ASSUME NEW u \in Subscribers, enrolled'[u] # None, enrolled'[u].promotion # None
        PROVE  \E j \in DOMAIN promotions' : promotions'[j].id = enrolled'[u].promotion
    <3>1. CASE u = s
      BY <1>2, <1>4, <1>5, <1>6, <2>2, <3>1
    <3>2. CASE u # s
      BY <1>5, <1>6, <2>2, <3>2 DEF TiersInv, PromotionsDistinct
    <3> QED
      BY <3>1, <3>2
  <2> QED
    BY <2>1, <2>2 DEF PromotionsDistinct
<1>10. ASSUME NEW u \in TierIds
       PROVE  /\ Cardinality(OfTier(enrolled', u)) <= subscribers'[u]
              /\ tierActive'[u] = None => subscribers'[u] = 0
  <2>1. /\ Cardinality(OfTier(enrolled, u)) \in Nat
        /\ u = t => Cardinality(OfTier(enrolled', u)) = Cardinality(OfTier(enrolled, u)) + 1
        /\ u # t => Cardinality(OfTier(enrolled', u)) = Cardinality(OfTier(enrolled, u))
    BY <1>1, <1>4, TierCount
  <2>2. /\ subscribers[u] \in Nat /\ Cardinality(OfTier(enrolled, u)) <= subscribers[u]
        /\ tierActive[u] = None => subscribers[u] = 0
    BY TiersFacts
  <2> QED
    BY <1>1, <1>7, <2>1, <2>2
<1>11. \A u \in Subscribers : enrolled'[u] # None /\ enrolled'[u].tier # None =>
         tierActive'[enrolled'[u].tier] # None
  BY <1>1, <1>4, EnrolledTiers
<1>12. ASSUME NEW j \in DOMAIN promotions'
       PROVE  /\ tierActive'[promotions'[j].tier] # None
              /\ Cardinality(SoldWith(enrolled', promotions'[j].id)) = promotions'[j].redemptions
              /\ promotions'[j].max > 0 => promotions'[j].redemptions <= promotions'[j].max
  <2> DEFINE id == promotions[j].id
  <2>1. j \in DOMAIN promotions /\ id \in PromoIds /\ id # None
    BY <1>3, <1>5, TiersAssumption
  <2>2. /\ Cardinality(SoldWith(enrolled, id)) = promotions[j].redemptions
        /\ tierActive[promotions[j].tier] # None
    BY <2>1, TiersFacts
  <2>3. granted = id <=> code # None /\ j = i
    BY <1>2, <1>4, <2>1 DEF TiersInv, PromotionsDistinct
  <2>4. /\ Cardinality(SoldWith(enrolled, id)) \in Nat
        /\ granted # id => Cardinality(SoldWith(enrolled', id)) = Cardinality(SoldWith(enrolled, id))
        /\ granted = id => Cardinality(SoldWith(enrolled', id)) = Cardinality(SoldWith(enrolled, id)) + 1
    <3> HIDE DEF id
    <3> QED
      BY <1>1, <1>4, <2>1, SoldCount
  <2> QED
    BY <1>1, <1>5, <2>1, <2>2, <2>3, <2>4
<1>13. \A j \in 0..RequestIds - 1 : ChangeOK(request[j])'
  BY <1>1, TiersFacts DEF ChangeOK
<1> QED
  BY <1>8, <1>9, <1>10, <1>11, <1>12, <1>13, TiersBuilt

\* A change of tier moves one subscription from one count to another; the
\* counter it leaves was at least one.
LEMMA ChangeStep ==
  ASSUME TiersInv, NEW id \in DOMAIN request, NEW s \in Subscribers, ProcessTierChange(id, s)
  PROVE  TiersInv'
<1> DEFINE old == enrolled[s]
           from == old.tier
           to == request[id].to
           r == [old EXCEPT !.tier = to]
           left == [t \in TierIds |-> IF t = from THEN Max({0, subscribers[t] - 1}) ELSE subscribers[t]]
           done == [request[id] EXCEPT !.status = "Completed"]
<1>1. /\ request[id] # None /\ enrolled[s] # None
      /\ enrolled' = [enrolled EXCEPT ![s] = r]
      /\ subscribers' = [left EXCEPT ![to] = @ + 1]
      /\ request' = [request EXCEPT ![id] = done]
      /\ UNCHANGED <<tierActive, promotions, now>>
  BY DEF ProcessTierChange, TierLeft
<1>2. /\ id \in 0..RequestIds - 1 /\ request[id] \in Changes
      /\ to \in TierIds /\ tierActive[to] # None /\ tierActive[request[id].from] # None
  <2>1. id \in 0..RequestIds - 1
    BY DEF TiersInv, TiersTypes
  <2>2. request[id] \in Changes /\ tierActive[to] # None /\ tierActive[request[id].from] # None
    BY <1>1, <2>1, TiersFacts DEF ChangeOK
  <2> QED
    BY <2>1, <2>2 DEF Changes
<1>3. /\ done \in Changes /\ done.from = request[id].from /\ done.to = request[id].to
  BY <1>2 DEF Changes
<1>4. old \in Enrolments
  BY <1>1, TiersFacts
<1>5. r \in Enrolments /\ r.tier = to /\ r.promotion = old.promotion
  BY <1>2, <1>4 DEF Enrolments
<1>6. /\ left \in [TierIds -> Nat]
      /\ \A t \in TierIds : left[t] = IF t # from \/ subscribers[t] = 0 THEN subscribers[t]
                                      ELSE subscribers[t] - 1
  <2>1. \A t \in TierIds : subscribers[t] \in Nat
    BY TiersFacts
  <2>2. \A t \in TierIds : Max({0, subscribers[t] - 1}) =
                              IF subscribers[t] = 0 THEN 0 ELSE subscribers[t] - 1
    BY <2>1, Saturated
  <2> DEFINE fewer(t) == Max({0, subscribers[t] - 1})
             staying(t) == IF t = from THEN fewer(t) ELSE subscribers[t]
  <2>3. \A t \in TierIds : /\ fewer(t) = IF subscribers[t] = 0 THEN 0 ELSE subscribers[t] - 1
                           /\ fewer(t) \in Nat
    BY <2>1, <2>2
  <2>4. left = [t \in TierIds |-> staying(t)]
    OBVIOUS
  <2> HIDE DEF fewer, left, from
  <2>5. \A t \in TierIds : staying(t) \in Nat
    BY <2>1, <2>3
  <2>6. left \in [TierIds -> Nat] /\ \A t \in TierIds : left[t] = staying(t)
    BY <2>4, <2>5
  <2> QED
    BY <2>1, <2>3, <2>6
<1> HIDE DEF left, r, done, old, to
<1>7. /\ subscribers' \in [TierIds -> Nat]
      /\ \A t \in TierIds : subscribers'[t] = left[t] + (IF t = to THEN 1 ELSE 0)
  BY <1>1, <1>2, <1>6
<1>8. /\ enrolled' \in [Subscribers -> Enrolments \cup {None}]
      /\ enrolled'[s] = r /\ \A u \in Subscribers \ {s} : enrolled'[u] = enrolled[u]
  BY <1>1, <1>5, EnrolledType
<1>9. /\ request' \in [0..RequestIds - 1 -> Changes \cup {None}]
      /\ request'[id] = done /\ \A i \in 0..RequestIds - 1 : i # id => request'[i] = request[i]
  BY <1>1, <1>2, <1>3 DEF TiersInv, TiersTypes
<1>10. TiersTypes'
  BY <1>1, <1>7, <1>8, <1>9 DEF TiersInv, TiersTypes
<1>11. PromotionsDistinct'
  <2>1. ASSUME NEW u \in Subscribers, enrolled'[u] # None, enrolled'[u].promotion # None
        PROVE  \E j \in DOMAIN promotions : promotions[j].id = enrolled'[u].promotion
    BY <1>1, <1>5, <1>8, <2>1 DEF TiersInv, PromotionsDistinct, old
  <2> QED
    BY <1>1, <2>1 DEF TiersInv, PromotionsDistinct
<1>12. ASSUME NEW t \in TierIds
       PROVE  /\ Cardinality(OfTier(enrolled', t)) <= subscribers'[t]
              /\ tierActive'[t] = None => subscribers'[t] = 0
  <2>1. LET was == t = from
            is == t = to
            before == Cardinality(OfTier(enrolled, t))
            after == Cardinality(OfTier(enrolled', t))
        IN /\ before \in Nat /\ after \in Nat
           /\ (was <=> is) => after = before
           /\ is /\ ~was => after = before + 1
           /\ was /\ ~is => after = before - 1
    BY <1>1, <1>5, TierCount DEF old
  <2>2. /\ subscribers[t] \in Nat /\ Cardinality(OfTier(enrolled, t)) <= subscribers[t]
        /\ tierActive[t] = None => subscribers[t] = 0
    BY TiersFacts
  <2>3. t = from => Cardinality(OfTier(enrolled, t)) >= 1
    <3> SUFFICES ASSUME t = from PROVE Cardinality(OfTier(enrolled, t)) >= 1
      OBVIOUS
    <3>1. s \in OfTier(enrolled, t) /\ IsFiniteSet(OfTier(enrolled, t))
      BY <1>1, TiersAssumption, FS_Subset DEF OfTier, old
    <3>2. Cardinality(OfTier(enrolled, t)) # 0
      BY <3>1, FS_EmptySet
    <3> QED
      BY <2>1, <3>2
  <2>4. Cardinality(OfTier(enrolled', t)) <= subscribers'[t]
    BY <1>6, <1>7, <2>1, <2>2, <2>3
  <2>5. tierActive[t] = None => t # to
    BY <1>2
  <2> QED
    BY <1>1, <1>6, <1>7, <2>2, <2>4, <2>5
<1>13. \A u \in Subscribers : enrolled'[u] # None /\ enrolled'[u].tier # None =>
         tierActive'[enrolled'[u].tier] # None
  BY <1>1, <1>2, <1>5, EnrolledTiers
<1>14. ASSUME NEW j \in DOMAIN promotions'
       PROVE  /\ tierActive'[promotions'[j].tier] # None
              /\ Cardinality(SoldWith(enrolled', promotions'[j].id)) = promotions'[j].redemptions
              /\ promotions'[j].max > 0 => promotions'[j].redemptions <= promotions'[j].max
  <2>1. j \in DOMAIN promotions /\ promotions[j].id \in PromoIds
    BY <1>1, TiersFacts DEF Promos
  <2>2. Cardinality(SoldWith(enrolled', promotions[j].id)) = Cardinality(SoldWith(enrolled, promotions[j].id))
    BY <1>1, <1>5, <2>1, SoldCount DEF old
  <2> QED
    BY <1>1, <2>1, <2>2, TiersFacts
<1>15. \A i \in 0..RequestIds - 1 : ChangeOK(request[i])'
  <2> SUFFICES ASSUME NEW i \in 0..RequestIds - 1, request'[i] # None
               PROVE  /\ request'[i] \in Changes /\ tierActive[request'[i].from] # None
                      /\ tierActive[request'[i].to] # None
    BY <1>1 DEF ChangeOK
  <2>1. CASE i = id
    BY <1>2, <1>3, <1>9, <2>1 DEF to
  <2>2. CASE i # id
    BY <1>9, <2>2, TiersFacts DEF ChangeOK
  <2> QED
    BY <2>1, <2>2
<1> QED
  BY <1>10, <1>11, <1>12, <1>13, <1>14, <1>15, TiersBuilt

\* A promotion starts without a redemption, and nobody has its id.
LEMMA PromotionStep ==
  ASSUME TiersInv, NEW id \in PromoIds, NEW t \in TierIds, NEW c \in Codes,
         NEW w \in PromoWindows, NEW m \in RedemptionLimits, CreatePromotion(id, t, c, w, m)
  PROVE  TiersInv'
<1> DEFINE p == [id |-> id, tier |-> t, code |-> c, start |-> w.start, end |-> w.end,
                 max |-> m, redemptions |-> 0]
           n == Len(promotions)
<1>1. /\ tierActive[t] # None
      /\ \A i \in DOMAIN promotions : promotions[i].id # id
      /\ promotions' = Append(promotions, p)
      /\ UNCHANGED <<tierActive, subscribers, enrolled, request, now>>
  BY DEF CreatePromotion
<1>2. p \in Promos /\ p.id = id /\ p.tier = t /\ p.max = m /\ p.redemptions = 0 /\ m \in Nat
  BY TiersAssumption DEF Promos
<1>3. promotions \in Seq(Promos) /\ DOMAIN promotions = 1..n /\ n \in Nat
  BY LenProperties DEF TiersInv, TiersTypes
<1> HIDE DEF p, n
<1>4. /\ promotions' \in Seq(Promos) /\ Len(promotions') = n + 1
      /\ promotions'[n + 1] = p /\ \A i \in 1..n : promotions'[i] = promotions[i]
  BY <1>1, <1>2, <1>3, AppendProperties DEF n
<1>5. DOMAIN promotions' = 1..n + 1
  BY <1>4, LenProperties
<1>6. TiersTypes'
  BY <1>1, <1>4 DEF TiersInv, TiersTypes
<1>7. PromotionsDistinct'
  <2>1. ASSUME NEW i \in DOMAIN promotions', NEW j \in DOMAIN promotions',
               promotions'[i].id = promotions'[j].id
        PROVE  i = j
    <3>1. CASE i = n + 1
      BY <1>1, <1>2, <1>3, <1>4, <1>5, <2>1, <3>1
    <3>2. CASE j = n + 1
      BY <1>1, <1>2, <1>3, <1>4, <1>5, <2>1, <3>2
    <3>3. CASE i # n + 1 /\ j # n + 1
      BY <1>3, <1>4, <1>5, <2>1, <3>3 DEF TiersInv, PromotionsDistinct
    <3> QED
      BY <3>1, <3>2, <3>3
  <2>2. ASSUME NEW u \in Subscribers, enrolled'[u] # None, enrolled'[u].promotion # None
        PROVE  \E j \in DOMAIN promotions' : promotions'[j].id = enrolled'[u].promotion
    <3>1. PICK j \in DOMAIN promotions : promotions[j].id = enrolled[u].promotion
      BY <1>1, <2>2 DEF TiersInv, PromotionsDistinct
    <3> QED
      BY <1>1, <1>3, <1>4, <1>5, <3>1
  <2> QED
    BY <2>1, <2>2 DEF PromotionsDistinct
<1>8. SoldWith(enrolled, id) = {}
  <2>1. ASSUME NEW u \in Subscribers, enrolled[u] # None, enrolled[u].promotion = id PROVE FALSE
    BY <1>1, <2>1, TiersAssumption DEF TiersInv, PromotionsDistinct
  <2> QED
    BY <2>1 DEF SoldWith
<1>9. ASSUME NEW j \in DOMAIN promotions'
      PROVE  /\ tierActive'[promotions'[j].tier] # None
             /\ Cardinality(SoldWith(enrolled', promotions'[j].id)) = promotions'[j].redemptions
             /\ promotions'[j].max > 0 => promotions'[j].redemptions <= promotions'[j].max
  <2>1. CASE j = n + 1
    <3>1. promotions'[j] = p
      BY <1>4, <2>1
    <3>2. Cardinality(SoldWith(enrolled', id)) = 0
      BY <1>1, <1>8, FS_EmptySet
    <3> QED
      BY <1>1, <1>2, <3>1, <3>2
  <2>2. CASE j # n + 1
    <3>1. j \in DOMAIN promotions /\ promotions'[j] = promotions[j]
      BY <1>3, <1>4, <1>5, <2>2
    <3> QED
      BY <1>1, <3>1, TiersFacts
  <2> QED
    BY <2>1, <2>2
<1>10. \A u \in Subscribers : enrolled'[u] # None /\ enrolled'[u].tier # None =>
         tierActive'[enrolled'[u].tier] # None
  BY <1>1, TiersFacts
<1>11. \A i \in 0..RequestIds - 1 : ChangeOK(request[i])'
  BY <1>1, TiersFacts DEF ChangeOK
<1> QED
  BY <1>1, <1>6, <1>7, <1>9, <1>10, <1>11, TiersFacts, TiersBuilt

\* The remaining steps leave the subscriptions and promotions alone.
LEMMA TierLifeStep ==
  ASSUME TiersInv, NEW t \in TierIds,
         CreateTier(t) \/ DeactivateTier(t) \/ UpdateTier(t, TRUE)
  PROVE  TiersInv'
<1>1. /\ UNCHANGED <<enrolled, promotions, request, now>>
      /\ \E active \in BOOLEAN : tierActive' = [tierActive EXCEPT ![t] = active]
      /\ \/ tierActive[t] = None /\ subscribers' = [subscribers EXCEPT ![t] = 0]
         \/ tierActive[t] # None /\ subscribers' = subscribers
  BY DEF CreateTier, DeactivateTier, UpdateTier
<1>2. PICK active \in BOOLEAN : tierActive' = [tierActive EXCEPT ![t] = active]
  BY <1>1
<1>3. /\ now' \in Nat /\ request' \in [0..RequestIds - 1 -> Changes \cup {None}]
      /\ tierActive' \in [TierIds -> BOOLEAN \cup {None}]
      /\ subscribers' \in [TierIds -> Nat]
  BY <1>1, <1>2 DEF TiersInv, TiersTypes
<1>4. active # None
  BY TiersAssumption
<1>5. /\ tierActive'[t] = active
      /\ \A u \in TierIds \ {t} : tierActive'[u] = tierActive[u]
  BY <1>2 DEF TiersInv, TiersTypes
<1>6. ASSUME NEW u \in TierIds
      PROVE  /\ tierActive'[u] = None => tierActive[u] = None /\ subscribers'[u] = 0
             /\ subscribers[u] <= subscribers'[u]
  <2>1. subscribers[u] \in Nat /\ (tierActive[u] = None => subscribers[u] = 0)
    BY TiersFacts
  <2>2. subscribers'[u] = subscribers[u]
    BY <1>1, <2>1 DEF TiersInv, TiersTypes
  <2> QED
    BY <1>4, <1>5, <2>1, <2>2
<1>7. \A i \in 0..RequestIds - 1 : ChangeOK(request'[i])
  BY <1>1, TiersFacts
<1> QED
  BY <1>1, <1>3, <1>6, <1>7, TiersKept

\* A request or its cancellation stores what names two tiers that exist.
LEMMA RequestStep ==
  ASSUME TiersInv, NEW i \in 0..RequestIds - 1, NEW r \in Changes, ChangeOK(r),
         request' = [request EXCEPT ![i] = r],
         UNCHANGED <<tierActive, subscribers, enrolled, promotions, now>>
  PROVE  TiersInv'
<1>1. /\ now' \in Nat /\ request' \in [0..RequestIds - 1 -> Changes \cup {None}]
      /\ tierActive' \in [TierIds -> BOOLEAN \cup {None}]
      /\ subscribers' \in [TierIds -> Nat]
  BY DEF TiersInv, TiersTypes
<1>2. request'[i] = r /\ \A j \in (0..RequestIds - 1) \ {i} : request'[j] = request[j]
  BY DEF TiersInv, TiersTypes
<1>3. \A j \in 0..RequestIds - 1 : ChangeOK(request'[j])
  BY <1>2, TiersFacts
<1>4. \A t \in TierIds : /\ tierActive'[t] = None => tierActive[t] = None /\ subscribers'[t] = 0
                         /\ subscribers[t] <= subscribers'[t]
  BY TiersFacts
<1> QED
  BY <1>1, <1>3, <1>4, TiersKept

\* A new request names the tier the subscription has and an active one.
LEMMA ChangeRequested ==
  ASSUME TiersInv, NEW s \in Subscribers, NEW t \in TierIds, RequestTierChange(s, t)
  PROVE  TiersInv'
<1> DEFINE r == [from |-> enrolled[s].tier, to |-> t, status |-> "Pending"]
           i == now % RequestIds
<1>1. /\ enrolled[s] # None /\ enrolled[s].tier # None /\ tierActive[t] # None
      /\ request' = [request EXCEPT ![i] = r]
      /\ UNCHANGED <<tierActive, subscribers, enrolled, promotions, now>>
  BY DEF RequestTierChange, IsActive
<1>2. i \in 0..RequestIds - 1
  <2>1. now \in Nat /\ RequestIds \in Nat \ {0}
    BY TiersAssumption DEF TiersInv, TiersTypes
  <2> QED
    BY <2>1
<1>3. enrolled[s].tier \in TierIds /\ tierActive[enrolled[s].tier] # None
  BY <1>1, TiersFacts DEF Enrolments
<1>4. r \in Changes /\ r.from = enrolled[s].tier /\ r.to = t
  BY <1>3 DEF Changes
<1>5. ChangeOK(r)
  BY <1>1, <1>3, <1>4 DEF ChangeOK
<1> HIDE DEF r, i
<1> QED
  BY <1>1, <1>2, <1>4, <1>5, RequestStep

\* A cancelled request names the tiers it named.
LEMMA ChangeCancelled ==
  ASSUME TiersInv, NEW i \in DOMAIN request, CancelTierChange(i)
  PROVE  TiersInv'
<1> DEFINE q == request[i]
           r == [from |-> q.from, to |-> q.to, status |-> "Cancelled"]
<1>1. i \in 0..RequestIds - 1
  BY DEF TiersInv, TiersTypes
<1>2. /\ q # None /\ request' = [request EXCEPT ![i].status = "Cancelled"]
      /\ UNCHANGED <<tierActive, subscribers, enrolled, promotions, now>>
  BY DEF CancelTierChange
<1>3. /\ q \in Changes /\ tierActive[q.from] # None /\ tierActive[q.to] # None
  BY <1>1, <1>2, TiersFacts DEF ChangeOK
<1>4. r \in Changes /\ r.from = q.from /\ r.to = q.to
  BY <1>3 DEF Changes
<1>5. [q EXCEPT !.status = "Cancelled"] = r
  BY <1>3 DEF Changes
<1>6. request' = [request EXCEPT ![i] = r]
  BY <1>2, <1>5
<1>7. ChangeOK(r)
  BY <1>3, <1>4 DEF ChangeOK
<1> HIDE DEF q, r
<1> QED
  BY <1>1, <1>2, <1>4, <1>6, <1>7, RequestStep

\* A renewal raises the counter of a tier that exists; the clock changes nothing.
LEMMA RenewalStep ==
  ASSUME TiersInv,
         \/ \E s \in Subscribers : CountRenewal(s)
         \/ Tick /\ UNCHANGED <<tierActive, subscribers, enrolled, promotions, request>>
         \/ UNCHANGED tierVars
  PROVE  TiersInv'
<1>1. /\ UNCHANGED <<tierActive, enrolled, promotions, request>>
      /\ now' = now \/ now' = now + 1
      /\ \/ subscribers' = subscribers
         \/ \E t \in TierIds : /\ tierActive[t] # None
                               /\ subscribers' = [subscribers EXCEPT ![t] = @ + 1]
  <2>1. ASSUME NEW s \in Subscribers, CountRenewal(s)
        PROVE  /\ UNCHANGED <<tierActive, enrolled, promotions, request, now>>
               /\ \E t \in TierIds : /\ tierActive[t] # None
                                     /\ subscribers' = [subscribers EXCEPT ![t] = @ + 1]
    <3>1. /\ enrolled[s] # None /\ enrolled[s].tier # None
          /\ subscribers' = [subscribers EXCEPT ![enrolled[s].tier] = @ + 1]
          /\ UNCHANGED <<tierActive, enrolled, promotions, request, now>>
      BY <2>1 DEF CountRenewal, CountSubscriber
    <3>2. enrolled[s].tier \in TierIds /\ tierActive[enrolled[s].tier] # None
      BY <3>1, TiersFacts DEF Enrolments
    <3> QED
      BY <3>1, <3>2
  <2> QED
    BY <2>1 DEF Tick, tierVars
<1>2. /\ now' \in Nat /\ request' \in [0..RequestIds - 1 -> Changes \cup {None}]
      /\ tierActive' \in [TierIds -> BOOLEAN \cup {None}]
      /\ subscribers \in [TierIds -> Nat]
  BY <1>1 DEF TiersInv, TiersTypes
<1>3. /\ subscribers' \in [TierIds -> Nat]
      /\ \A t \in TierIds : /\ tierActive'[t] = None => subscribers'[t] = 0
                            /\ subscribers[t] <= subscribers'[t]
  <2>1. CASE subscribers' = subscribers
    BY <1>1, <1>2, <2>1, TiersFacts
  <2>2. ASSUME NEW t \in TierIds, tierActive[t] # None,
               subscribers' = [subscribers EXCEPT ![t] = @ + 1]
        PROVE  /\ subscribers' \in [TierIds -> Nat]
               /\ \A u \in TierIds : /\ tierActive'[u] = None => subscribers'[u] = 0
                                     /\ subscribers[u] <= subscribers'[u]
    <3>1. /\ subscribers'[t] = subscribers[t] + 1
          /\ \A u \in TierIds \ {t} : subscribers'[u] = subscribers[u]
      BY <1>2, <2>2
    <3>2. subscribers' \in [TierIds -> Nat]
      BY <1>2, <2>2
    <3> QED
      BY <1>1, <1>2, <2>2, <3>1, <3>2, TiersFacts
  <2> QED
    BY <1>1, <2>1, <2>2
<1>4. \A i \in 0..RequestIds - 1 : ChangeOK(request'[i])
  BY <1>1, TiersFacts
<1> QED
  BY <1>1, <1>2, <1>3, <1>4, TiersKept

\* Every step of the tiers keeps their invariant, and so does a stutter.
LEMMA TiersStep == TiersInv /\ [TiersNext]_tierVars => TiersInv'
<1> SUFFICES ASSUME TiersInv, [TiersNext]_tierVars PROVE TiersInv'
  OBVIOUS
<1>1. ASSUME NEW t \in TierIds, CreateTier(t) \/ DeactivateTier(t) \/ UpdateTier(t, TRUE)
      PROVE  TiersInv'
  BY <1>1, TierLifeStep
<1>2. ASSUME NEW id \in PromoIds, NEW t \in TierIds, NEW c \in Codes,
             NEW w \in PromoWindows, NEW m \in RedemptionLimits, CreatePromotion(id, t, c, w, m)
      PROVE  TiersInv'
  BY <1>2, PromotionStep
<1>3. ASSUME NEW s \in Subscribers, Enrol(s)
      PROVE  TiersInv'
  BY <1>3, EnrolStep
<1>4. ASSUME NEW s \in Subscribers, NEW t \in TierIds, NEW c \in Codes \cup {None},
             CreateSubscriptionWithTier(s, t, c)
      PROVE  TiersInv'
  BY <1>4, SaleStep
<1>5. ASSUME NEW s \in Subscribers, NEW t \in TierIds, RequestTierChange(s, t)
      PROVE  TiersInv'
  BY <1>5, ChangeRequested
<1>6. ASSUME NEW i \in DOMAIN request, CancelTierChange(i)
      PROVE  TiersInv'
  BY <1>6, ChangeCancelled
<1>7. ASSUME NEW i \in DOMAIN request, NEW s \in Subscribers, ProcessTierChange(i, s)
      PROVE  TiersInv'
  <2>1. i \in 0..RequestIds - 1
    BY DEF TiersInv, TiersTypes
  <2> QED
    BY <1>7, <2>1, ChangeStep
<1>8. CASE \/ \E s \in Subscribers : CountRenewal(s)
           \/ Tick /\ UNCHANGED <<tierActive, subscribers, enrolled, promotions, request>>
           \/ UNCHANGED tierVars
  BY <1>8, RenewalStep
<1> QED
  BY <1>1, <1>2, <1>3, <1>4, <1>5, <1>6, <1>7, <1>8 DEF TiersNext

\* Before the first tier there is nothing to name and nothing to count.
LEMMA TiersStart == TiersInit => TiersInv
<1> SUFFICES ASSUME TiersInit PROVE TiersInv
  OBVIOUS
<1>1. promotions = <<>> /\ DOMAIN promotions = {} /\ promotions \in Seq(Promos)
  BY EmptySeq, LenProperties DEF TiersInit
<1>2. TiersTypes
  BY <1>1 DEF TiersTypes, TiersInit
<1>3. \A s \in Subscribers : enrolled[s] = None
  BY DEF TiersInit
<1>4. \A t \in TierIds : subscribers[t] = 0 /\ tierActive[t] = None
  BY DEF TiersInit
<1>5. PromotionsDistinct
  BY <1>1, <1>3 DEF PromotionsDistinct
<1>6. TiersExist
  BY <1>1, <1>3, <1>4 DEF TiersExist, TiersInit
<1>7. SubscribersCovered
  <2> SUFFICES ASSUME NEW t \in TierIds PROVE Cardinality(OfTier(enrolled, t)) <= subscribers[t]
    BY DEF SubscribersCovered, OfTier
  <2>1. OfTier(enrolled, t) = {}
    BY <1>3 DEF OfTier
  <2> QED
    BY <1>4, <2>1, FS_EmptySet
<1>8. PromotionsWithinLimits
  BY <1>1 DEF PromotionsWithinLimits
<1> QED
  BY <1>2, <1>5, <1>6, <1>7, <1>8 DEF TiersInv, TiersConsistent

\* The counter of a tier never misses a subscription, a promotion is granted as
\* often as it counts and within its limit, and what names a tier names one that
\* was created: for any number of tiers, subscriptions and promotions, although
\* requests to change tier may be processed late, for other subscriptions than
\* they were made for, and the counter is lowered with saturation.
THEOREM TiersAgree == TiersSpec => []TiersConsistent
<1>1. TiersInit => TiersInv
  BY TiersStart
<1>2. TiersInv /\ [TiersNext]_tierVars => TiersInv'
  BY TiersStep
<1>3. TiersInv => TiersConsistent
  BY DEF TiersInv
<1> QED
  BY <1>1, <1>2, <1>3, PTL DEF TiersSpec

-----------------------------------------------------------------------------
\* Terms of a token

Steps == [from : Nat, to : Nat, rollback : BOOLEAN]

Renewals == [old : Nat, new : Nat, version : Nat]

Rollbacks(h) == {i \in 1..Len(h) : h[i].rollback}

\* What a token was is in its history and its snapshots.
PastKept(k, s, h) ==
    /\ Len(h) = k.version
    /\ \A i \in 1..Len(h) : h[i].from = i - 1 /\ h[i].to = i
    /\ \A v \in Versions : s[v] # None <=> v < k.version
    /\ MaxRollbacks > 0 => Cardinality(Rollbacks(h)) <= MaxRollbacks

\* What was paid for: the last renewal of the present version says when the
\* token expires.
PaidKept(k, r) ==
    /\ \A i \in 1..Len(r) : r[i].new >= r[i].old + Min({Month, Year}) /\ r[i].version <= k.version
    /\ \A i \in 1..Len(r) - 1 : r[i].version = r[i + 1].version => r[i + 1].old = r[i].new
    /\ Len(r) > 0 /\ r[Len(r)].version = k.version => r[Len(r)].new = k.expiry

Untouched(s, h, r) == h = <<>> /\ r = <<>> /\ \A v \in Versions : s[v] = None

TokenInv(k, s, h, r) ==
    /\ k = None => Untouched(s, h, r)
    /\ k # None => /\ k.graceEntered = None <=> k.graceExpires = None
                   /\ PastKept(k, s, h) /\ PaidKept(k, r)

TermsTypes ==
    /\ now \in 0..MaxTime
    /\ token \in [Tokens -> TokenRecords \cup {None}]
    /\ snapshot \in [Tokens -> [Versions -> Terms \cup {None}]]
    /\ history \in [Tokens -> Seq(Steps)]
    /\ renewals \in [Tokens -> Seq(Renewals)]
    /\ auto \subseteq Tokens /\ tokenPaused \subseteq Tokens

TermsInv ==
    /\ TermsTypes
    /\ \A t \in Tokens : TokenInv(token[t], snapshot[t], history[t], renewals[t])

\* The later of two times.
LEMMA LaterOfTwo ==
  ASSUME NEW x \in Nat, NEW y \in Nat
  PROVE  Max({x, y}) = IF x > y THEN x ELSE y
<1>1. \E m \in {x, y} : \A n \in {x, y} : m >= n
  OBVIOUS
<1>2. Max({x, y}) \in {x, y} /\ \A n \in {x, y} : Max({x, y}) >= n
  BY <1>1 DEF Max
<1> QED
  BY <1>2

\* The earlier of two times.
LEMMA EarlierOfTwo ==
  ASSUME NEW x \in Nat, NEW y \in Nat
  PROVE  Min({x, y}) = IF x < y THEN x ELSE y
<1>1. \E m \in {x, y} : \A n \in {x, y} : m <= n
  OBVIOUS
<1>2. Min({x, y}) \in {x, y} /\ \A n \in {x, y} : Min({x, y}) <= n
  BY <1>1 DEF Min
<1> QED
  BY <1>2

\* The shorter of the two billing cycles.
LEMMA ShorterCycle == Min({Month, Year}) \in Nat /\ Min({Month, Year}) <= Month /\ Min({Month, Year}) <= Year
BY TermsAssumption, EarlierOfTwo

\* Nothing is sold yet.
LEMMA TermsStart == TermsInit => TermsInv
<1> SUFFICES ASSUME TermsInit PROVE TermsInv
  OBVIOUS
<1>1. TermsTypes
  BY TermsAssumption DEF TermsInit, TermsTypes
<1>2. ASSUME NEW t \in Tokens
      PROVE  TokenInv(token[t], snapshot[t], history[t], renewals[t])
  BY DEF TermsInit, TokenInv, Untouched
<1> QED
  BY <1>1, <1>2 DEF TermsInv

\* A step that changes one token, its snapshots, history and renewals, keeps
\* the invariant if the four agree afterwards.
LEMMA OneTokenChanges ==
  ASSUME TermsInv, NEW t \in Tokens,
         NEW k \in TokenRecords, NEW s \in [Versions -> Terms \cup {None}],
         NEW h \in Seq(Steps), NEW r \in Seq(Renewals),
         token' = [token EXCEPT ![t] = k], snapshot' = [snapshot EXCEPT ![t] = s],
         history' = [history EXCEPT ![t] = h], renewals' = [renewals EXCEPT ![t] = r],
         UNCHANGED ledger,
         TokenInv(k, s, h, r)
  PROVE  TermsInv'
<1>1. TermsTypes'
  BY DEF TermsInv, TermsTypes, ledger
<1>2. ASSUME NEW u \in Tokens
      PROVE  TokenInv(token'[u], snapshot'[u], history'[u], renewals'[u])
  <2>1. CASE u = t
    <3>1. token'[u] = k /\ snapshot'[u] = s /\ history'[u] = h /\ renewals'[u] = r
      BY <2>1 DEF TermsInv, TermsTypes
    <3> QED
      BY <3>1
  <2>2. CASE u # t
    <3>1. token'[u] = token[u] /\ snapshot'[u] = snapshot[u] /\ history'[u] = history[u] /\ renewals'[u] = renewals[u]
      BY <2>2 DEF TermsInv, TermsTypes
    <3> QED
      BY <3>1 DEF TermsInv
  <2> QED
    BY <2>1, <2>2
<1> QED
  BY <1>1, <1>2 DEF TermsInv, TokenInv, PastKept, PaidKept, Untouched

\* A token is a record, and so is what a snapshot keeps of it.
LEMMA Captured ==
  ASSUME NEW k \in TokenRecords
  PROVE  /\ k # None /\ CaptureSnapshot(k) \in Terms /\ CaptureSnapshot(k) # None
         /\ k.version \in Versions /\ k.version \in Nat /\ k.expiry \in Nat
<1>1. k # None
  BY NoTermsAssumption
<1>2. CaptureSnapshot(k) \in Terms
  BY DEF TokenRecords, Terms, CaptureSnapshot
<1>3. CaptureSnapshot(k) # None
  BY <1>2, NoTermsAssumption
<1>4. k.version \in Versions /\ k.expiry \in Nat
  BY DEF TokenRecords
<1>5. \A v \in Versions : v \in Nat
  BY TermsAssumption DEF Versions
<1> QED
  BY <1>1, <1>2, <1>3, <1>4, <1>5

\* The records the steps build.
LEMMA RecordsBuilt ==
  ASSUME NEW k \in TokenRecords
  PROVE  /\ \A tier \in Tiers, d \in Nat : now \in Nat =>
               /\ RenewedToken(k, tier, d) \in TokenRecords
               /\ RenewedToken(k, tier, d).version = k.version
               /\ RenewedToken(k, tier, d).expiry >= k.expiry + d
               /\ RenewedToken(k, tier, d).graceEntered = None
               /\ RenewedToken(k, tier, d).graceExpires = None
         /\ \A s \in Terms, v \in Versions :
               /\ WithTerms(k, s, v) \in TokenRecords
               /\ WithTerms(k, s, v).version = v
               /\ WithTerms(k, s, v).graceEntered = k.graceEntered
               /\ WithTerms(k, s, v).graceExpires = k.graceExpires
<1>1. ASSUME NEW tier \in Tiers, NEW d \in Nat, now \in Nat
      PROVE  /\ RenewedToken(k, tier, d) \in TokenRecords
             /\ RenewedToken(k, tier, d).version = k.version
             /\ RenewedToken(k, tier, d).expiry >= k.expiry + d
             /\ RenewedToken(k, tier, d).graceEntered = None
             /\ RenewedToken(k, tier, d).graceExpires = None
  <2>1. RenewalBase(k.expiry) \in Nat /\ RenewalBase(k.expiry) >= k.expiry /\ k.expiry \in Nat
    BY <1>1, Captured, LaterOfTwo DEF RenewalBase
  <2>2. RenewalBase(k.expiry) + d \in Nat /\ RenewalBase(k.expiry) + d >= k.expiry + d
    BY <2>1
  <2> QED
    BY <2>2, Captured DEF RenewedToken, TokenRecords
<1>2. ASSUME NEW s \in Terms, NEW v \in Versions
      PROVE  /\ WithTerms(k, s, v) \in TokenRecords
             /\ WithTerms(k, s, v).version = v
             /\ WithTerms(k, s, v).graceEntered = k.graceEntered
             /\ WithTerms(k, s, v).graceExpires = k.graceExpires
  BY DEF WithTerms, TokenRecords, Terms
<1> QED
  BY <1>1, <1>2

\* An automatic renewal changes the expiry only.
LEMMA RecordsProlonged ==
  ASSUME NEW k \in TokenRecords, NEW d \in Nat
  PROVE  /\ ProlongedToken(k, d) \in TokenRecords /\ ProlongedToken(k, d).version = k.version
         /\ ProlongedToken(k, d).expiry = k.expiry + d
         /\ ProlongedToken(k, d).graceEntered = k.graceEntered
         /\ ProlongedToken(k, d).graceExpires = k.graceExpires
<1>1. k.expiry + d \in Nat
  BY Captured
<1> QED
  BY <1>1 DEF ProlongedToken, TokenRecords

\* A renewal in the present version leaves a record that starts where the
\* last one of this version ended, or that is the first one of it.
LEMMA PaidAfterRenewal ==
  ASSUME NEW k \in TokenRecords, NEW r \in Seq(Renewals), PaidKept(k, r),
         NEW g \in TokenRecords, g.version = k.version,
         g.expiry >= k.expiry + Min({Month, Year}),
         NEW q, q = Append(r, [old |-> k.expiry, new |-> g.expiry, version |-> g.version])
  PROVE  q \in Seq(Renewals) /\ PaidKept(g, q)
<1> DEFINE last == [old |-> k.expiry, new |-> g.expiry, version |-> g.version]
<1>1. last \in Renewals /\ k.expiry \in Nat /\ g.expiry \in Nat /\ k.version \in Nat
  BY Captured DEF Renewals
<1>2. /\ q \in Seq(Renewals) /\ Len(q) = Len(r) + 1 /\ q[Len(r) + 1] = last
      /\ \A i \in 1..Len(r) : q[i] = r[i]
      /\ Len(r) \in Nat
  BY <1>1, AppendProperties, LenProperties
<1>3. \A i \in 1..Len(q) : i = Len(r) + 1 \/ i \in 1..Len(r)
  BY <1>2
<1>4. \A i \in 1..Len(r) : r[i] \in Renewals
  BY ElementOfSeq
<1>5. ASSUME NEW i \in 1..Len(q)
      PROVE  q[i].new >= q[i].old + Min({Month, Year}) /\ q[i].version <= g.version
  <2>1. CASE i = Len(r) + 1
    <3>1. last.new = g.expiry /\ last.old = k.expiry /\ last.version = g.version
      OBVIOUS
    <3> HIDE DEF last
    <3> QED
      BY <3>1, <2>1, <1>2, <1>1
  <2>2. CASE i \in 1..Len(r)
    BY <2>2, <1>2 DEF PaidKept
  <2> QED
    BY <2>1, <2>2, <1>3
<1>6. ASSUME NEW i \in 1..Len(q) - 1, q[i].version = q[i + 1].version
      PROVE  q[i + 1].old = q[i].new
  <2>1. i \in 1..Len(r) /\ q[i] = r[i]
    BY <1>2
  <2>2. CASE i < Len(r)
    <3>1. i \in 1..Len(r) - 1 /\ i + 1 \in 1..Len(r)
      BY <2>1, <2>2, <1>2
    <3>2. q[i + 1] = r[i + 1]
      BY <3>1, <1>2
    <3> QED
      BY <3>1, <3>2, <2>1, <1>6 DEF PaidKept
  <2>3. CASE i = Len(r)
    <3>1. q[i + 1] = last
      BY <2>3, <1>2
    <3>2. last.version = k.version /\ last.old = k.expiry
      OBVIOUS
    <3> HIDE DEF last
    <3>3. Len(r) > 0 /\ r[Len(r)].version = k.version
      BY <3>1, <3>2, <2>1, <2>3, <1>2, <1>6
    <3> QED
      BY <3>1, <3>2, <3>3, <2>1, <2>3, <1>2 DEF PaidKept
  <2> QED
    BY <2>1, <2>2, <2>3, <1>2
<1>7. q[Len(q)].new = g.expiry
  BY <1>2
<1> QED
  BY <1>2, <1>5, <1>6, <1>7 DEF PaidKept

\* The history with one more step.
LEMMA PastAfterStep ==
  ASSUME NEW k \in TokenRecords, NEW s \in [Versions -> Terms \cup {None}], NEW h \in Seq(Steps),
         PastKept(k, s, h),
         NEW g \in TokenRecords, g.version = k.version + 1,
         NEW last \in Steps, last.from = k.version, last.to = g.version,
         last.rollback /\ MaxRollbacks > 0 => Cardinality(Rollbacks(h)) < MaxRollbacks
  PROVE  PastKept(g, [s EXCEPT ![k.version] = CaptureSnapshot(k)], Append(h, last))
<1> DEFINE z == [s EXCEPT ![k.version] = CaptureSnapshot(k)]
           q == Append(h, last)
<1>1. last \in Steps /\ k.version \in Versions /\ k.version \in Nat /\ g.version \in Nat
  BY Captured DEF Steps
<1>2. /\ q \in Seq(Steps) /\ Len(q) = Len(h) + 1 /\ q[Len(h) + 1] = last
      /\ \A i \in 1..Len(h) : q[i] = h[i]
      /\ Len(h) \in Nat
  BY <1>1, AppendProperties, LenProperties
<1>3. \A i \in 1..Len(q) : i = Len(h) + 1 \/ i \in 1..Len(h)
  BY <1>2
<1>4. z \in [Versions -> Terms \cup {None}]
  BY Captured
<1>5. Len(q) = g.version
  BY <1>1, <1>2 DEF PastKept
<1>6. ASSUME NEW i \in 1..Len(q)
      PROVE  q[i].from = i - 1 /\ q[i].to = i
  BY <1>1, <1>2, <1>3 DEF PastKept
<1>7. ASSUME NEW v \in Versions
      PROVE  z[v] # None <=> v < g.version
  <2>1. CASE v = k.version
    <3>1. z[v] = CaptureSnapshot(k)
      BY <2>1, <1>1
    <3> QED
      BY <3>1, <2>1, <1>1, Captured
  <2>2. CASE v # k.version
    <3>1. z[v] = s[v]
      BY <2>2
    <3>2. v \in Nat
      BY TermsAssumption DEF Versions
    <3> QED
      BY <3>1, <3>2, <2>2, <1>1 DEF PastKept
  <2> QED
    BY <2>1, <2>2
<1> HIDE DEF q
<1>8. ASSUME MaxRollbacks > 0
      PROVE  Cardinality(Rollbacks(q)) <= MaxRollbacks
  <2>1. IsFiniteSet(Rollbacks(h)) /\ Cardinality(Rollbacks(h)) \in Nat
    <3>1. IsFiniteSet(1..Len(h)) /\ Rollbacks(h) \subseteq 1..Len(h)
      BY <1>2, FS_Interval DEF Rollbacks
    <3> QED
      BY <3>1, FS_Subset, FS_CardinalityType
  <2>2. CASE last.rollback
    <3> DEFINE R == Rollbacks(h)
               x == Len(h) + 1
    <3>1. Rollbacks(q) = R \cup {x}
      BY <1>2, <1>3, <2>2 DEF Rollbacks
    <3>2. IsFiniteSet(R)
      BY <2>1
    <3>3. MaxRollbacks \in Nat /\ Cardinality(R) < MaxRollbacks
      BY <2>2, <1>8, TermsAssumption
    <3> HIDE DEF R, x
    <3>4. Cardinality(R \cup {x}) = IF x \in R THEN Cardinality(R) ELSE Cardinality(R) + 1
      BY <3>2, FS_AddElement
    <3>5. Cardinality(R) \in Nat
      BY <3>2, FS_CardinalityType
    <3> QED
      BY <3>1, <3>3, <3>4, <3>5
  <2>3. CASE ~last.rollback
    <3>1. Rollbacks(q) = Rollbacks(h)
      BY <1>2, <1>3, <2>3 DEF Rollbacks
    <3> QED
      BY <3>1, <1>8 DEF PastKept
  <2> QED
    BY <2>2, <2>3
<1> QED
  BY <1>5, <1>6, <1>7, <1>8 DEF PastKept, q

\* A later version leaves what was paid for as it is.
LEMMA PaidAfterStep ==
  ASSUME NEW k \in TokenRecords, NEW r \in Seq(Renewals), PaidKept(k, r),
         NEW g \in TokenRecords, g.version = k.version + 1
  PROVE  PaidKept(g, r)
<1>1. k.version \in Nat /\ Len(r) \in Nat
  BY Captured, LenProperties
<1>2. \A i \in 1..Len(r) : r[i].version \in Nat
  <2> TAKE i \in 1..Len(r)
  <2>1. r[i] \in Renewals
    BY ElementOfSeq
  <2> QED
    BY <2>1 DEF Renewals
<1>3. \A i \in 1..Len(r) : r[i].version <= g.version /\ r[i].version # g.version
  BY <1>1, <1>2 DEF PaidKept
<1>4. Len(r) > 0 => Len(r) \in 1..Len(r)
  BY <1>1
<1> QED
  BY <1>3, <1>4 DEF PaidKept

\* The parts of the invariant that concern one token.
LEMMA TermsFacts ==
  ASSUME TermsInv, NEW t \in Tokens, token[t] # None
  PROVE  /\ token[t] \in TokenRecords /\ now \in Nat
         /\ snapshot[t] \in [Versions -> Terms \cup {None}]
         /\ history[t] \in Seq(Steps) /\ renewals[t] \in Seq(Renewals)
         /\ token[t].graceEntered = None <=> token[t].graceExpires = None
         /\ PastKept(token[t], snapshot[t], history[t]) /\ PaidKept(token[t], renewals[t])
<1>1. now \in Nat
  BY TermsAssumption DEF TermsInv, TermsTypes
<1> QED
  BY <1>1 DEF TermsInv, TermsTypes, TokenInv

\* A variable of the tokens that is left alone may be written as changed to
\* what it was.
LEMMA Rewritten ==
  ASSUME TermsInv, NEW t \in Tokens
  PROVE  /\ snapshot = [snapshot EXCEPT ![t] = snapshot[t]]
         /\ history = [history EXCEPT ![t] = history[t]]
         /\ renewals = [renewals EXCEPT ![t] = renewals[t]]
BY DEF TermsInv, TermsTypes

\* A sold token has no past.
LEMMA IssueStep ==
  ASSUME TermsInv, NEW t \in Tokens, NEW e \in Expiries, IssueToken(t, e)
  PROVE  TermsInv'
<1> DEFINE k == [status |-> "Active", expiry |-> e, tier |-> None,
                 graceEntered |-> None, graceExpires |-> None, version |-> 0]
<1>1. k \in TokenRecords
  BY TermsAssumption DEF TokenRecords, Versions
<1>2. /\ snapshot[t] \in [Versions -> Terms \cup {None}]
      /\ history[t] = <<>> /\ renewals[t] = <<>> /\ \A v \in Versions : snapshot[t][v] = None
      /\ history[t] \in Seq(Steps) /\ renewals[t] \in Seq(Renewals)
  BY DEF TermsInv, TermsTypes, TokenInv, Untouched, IssueToken
<1>3. k.version = 0 /\ k.graceEntered = k.graceExpires
  OBVIOUS
<1>4. token' = [token EXCEPT ![t] = k] /\ UNCHANGED <<snapshot, history, renewals, ledger>>
  BY DEF IssueToken
<1> HIDE DEF k
<1>5. k # None
  BY <1>1, Captured
<1>6. PastKept(k, snapshot[t], history[t])
  <2>1. Rollbacks(<<>>) = {}
    BY DEF Rollbacks
  <2>2. Cardinality(Rollbacks(<<>>)) = 0
    BY <2>1, FS_EmptySet
  <2>3. \A v \in Versions : ~(v < 0)
    BY TermsAssumption DEF Versions
  <2> QED
    BY <1>2, <1>3, <2>2, <2>3, TermsAssumption DEF PastKept
<1>7. PaidKept(k, renewals[t])
  BY <1>2 DEF PaidKept
<1>8. TokenInv(k, snapshot[t], history[t], renewals[t])
  BY <1>3, <1>5, <1>6, <1>7 DEF TokenInv
<1>9. /\ snapshot' = [snapshot EXCEPT ![t] = snapshot[t]]
      /\ history' = [history EXCEPT ![t] = history[t]]
      /\ renewals' = [renewals EXCEPT ![t] = renewals[t]]
  BY <1>4, Rewritten
<1> DEFINE s == snapshot[t]
           h == history[t]
           r == renewals[t]
<1>10. /\ s \in [Versions -> Terms \cup {None}] /\ h \in Seq(Steps) /\ r \in Seq(Renewals)
       /\ snapshot' = [snapshot EXCEPT ![t] = s] /\ history' = [history EXCEPT ![t] = h]
       /\ renewals' = [renewals EXCEPT ![t] = r] /\ TokenInv(k, s, h, r)
  BY <1>2, <1>8, <1>9
<1> HIDE DEF s, h, r
<1>11. token' = [token EXCEPT ![t] = k] /\ UNCHANGED ledger
  BY <1>4
<1> QED
  BY <1>1, <1>10, <1>11, OneTokenChanges

\* A renewal, by its owner or automatic.
LEMMA RenewStep ==
  ASSUME TermsInv, NEW t \in Tokens, token[t] # None, NEW g \in TokenRecords,
         g.version = token[t].version, g.expiry >= token[t].expiry + Min({Month, Year}),
         g.graceEntered = None <=> g.graceExpires = None,
         Renew(t, g)
  PROVE  TermsInv'
<1> DEFINE k == token[t]
           q == Append(renewals[t], [old |-> k.expiry, new |-> g.expiry, version |-> g.version])
<1>1. q \in Seq(Renewals) /\ PaidKept(g, q)
  BY TermsFacts, PaidAfterRenewal
<1>2. PastKept(g, snapshot[t], history[t])
  BY TermsFacts DEF PastKept
<1>3. /\ token' = [token EXCEPT ![t] = g] /\ renewals' = [renewals EXCEPT ![t] = q]
      /\ UNCHANGED <<snapshot, history, ledger>>
  BY DEF Renew, TermsInv, TermsTypes
<1> HIDE DEF q
<1>4. TokenInv(g, snapshot[t], history[t], q)
  BY <1>1, <1>2, Captured DEF TokenInv
<1> QED
  BY <1>1, <1>3, <1>4, TermsFacts, Rewritten, OneTokenChanges

\* An upgrade or a rollback.
LEMMA VersionStep ==
  ASSUME TermsInv, NEW t \in Tokens, token[t] # None, NEW s \in Terms, NEW back \in BOOLEAN,
         back => RollbackAllowed(t),
         NextVersion(t, WithTerms(token[t], s, token[t].version + 1), back)
  PROVE  TermsInv'
<1> DEFINE k == token[t]
           g == WithTerms(k, s, k.version + 1)
           z == [snapshot[t] EXCEPT ![k.version] = CaptureSnapshot(k)]
           last == [from |-> k.version, to |-> g.version, rollback |-> back]
           q == Append(history[t], last)
<1>1. k \in TokenRecords /\ k.version \in Nat
  BY TermsFacts, Captured
<1>2. g.version = k.version + 1
  BY <1>1 DEF WithTerms, TokenRecords
<1>3. k.version + 1 \in Versions
  BY <1>1, <1>2, TermsAssumption DEF NextVersion, Versions
<1>4. g \in TokenRecords /\ g.graceEntered = k.graceEntered /\ g.graceExpires = k.graceExpires
  BY <1>1, <1>3, RecordsBuilt
<1>5. back /\ MaxRollbacks > 0 => Cardinality(Rollbacks(history[t])) < MaxRollbacks
  BY DEF RollbackAllowed, CountRollbacks, Rollbacks
<1>6. /\ token' = [token EXCEPT ![t] = g] /\ history' = [history EXCEPT ![t] = q]
      /\ snapshot' = [snapshot EXCEPT ![t] = z] /\ UNCHANGED <<renewals, ledger>>
  BY DEF NextVersion, TermsInv, TermsTypes
<1> HIDE DEF g
<1>7. /\ z \in [Versions -> Terms \cup {None}] /\ q \in Seq(Steps)
      /\ PastKept(g, z, q)
  <2>1. /\ snapshot[t] \in [Versions -> Terms \cup {None}] /\ history[t] \in Seq(Steps)
        /\ PastKept(k, snapshot[t], history[t])
    BY TermsFacts
  <2>2. /\ last \in Steps /\ last.from = k.version /\ last.to = g.version
        /\ last.rollback = back
    BY <1>1, <1>2 DEF Steps
  <2> HIDE DEF k, last
  <2>3. z \in [Versions -> Terms \cup {None}] /\ q \in Seq(Steps)
    BY <2>1, <2>2, <1>1, Captured, AppendProperties
  <2>4. last.rollback /\ MaxRollbacks > 0 => Cardinality(Rollbacks(history[t])) < MaxRollbacks
    BY <2>2, <1>5
  <2>5. PastKept(g, z, q)
    BY <2>1, <2>2, <2>4, <1>1, <1>2, <1>4, PastAfterStep
  <2> QED
    BY <2>3, <2>5
<1>8. PaidKept(g, renewals[t])
  BY <1>1, <1>2, <1>4, TermsFacts, PaidAfterStep
<1> HIDE DEF z, q
<1>9. TokenInv(g, z, q, renewals[t])
  BY <1>4, <1>7, <1>8, Captured, TermsFacts DEF TokenInv
<1> QED
  BY <1>4, <1>6, <1>7, <1>9, TermsFacts, Rewritten, OneTokenChanges

\* The end of a term.
LEMMA GraceStep ==
  ASSUME TermsInv, NEW t \in Tokens, CheckAndApplyGracePeriod(t)
  PROVE  TermsInv'
<1> DEFINE k == token[t]
           g == InGracePeriod(k)
<1>1. k \in TokenRecords /\ k # None /\ now \in Nat /\ now + Grace \in Nat
  BY TermsFacts, TermsAssumption DEF CheckAndApplyGracePeriod
<1>2. /\ g \in TokenRecords /\ g.version = k.version /\ g.expiry = k.expiry
      /\ g.graceEntered = now /\ g.graceExpires = now + Grace
  BY <1>1 DEF InGracePeriod, TokenRecords
<1>3. /\ token' = [token EXCEPT ![t] = g] /\ UNCHANGED <<snapshot, history, renewals, ledger>>
  BY DEF CheckAndApplyGracePeriod
<1> HIDE DEF g
<1>4. g.graceEntered # None /\ g.graceExpires # None
  BY <1>1, <1>2, TermsAssumption
<1>5. PastKept(g, snapshot[t], history[t]) /\ PaidKept(g, renewals[t])
  BY <1>1, <1>2, TermsFacts DEF PastKept, PaidKept
<1>6. TokenInv(g, snapshot[t], history[t], renewals[t])
  BY <1>4, <1>5, <1>2, Captured DEF TokenInv
<1>7. /\ snapshot' = [snapshot EXCEPT ![t] = snapshot[t]]
      /\ history' = [history EXCEPT ![t] = history[t]]
      /\ renewals' = [renewals EXCEPT ![t] = renewals[t]]
  BY <1>3, Rewritten
<1>8. /\ snapshot[t] \in [Versions -> Terms \cup {None}]
      /\ history[t] \in Seq(Steps) /\ renewals[t] \in Seq(Renewals)
  BY <1>1, TermsFacts
<1>9. g \in TokenRecords /\ token' = [token EXCEPT ![t] = g] /\ UNCHANGED ledger
  BY <1>2, <1>3
<1> QED
  BY <1>6, <1>7, <1>8, <1>9, OneTokenChanges

\* What concerns no token.
LEMMA LedgerStep ==
  ASSUME TermsInv, UNCHANGED <<token, snapshot, history, renewals>>,
         auto' \subseteq Tokens, tokenPaused' \subseteq Tokens, now' \in 0..MaxTime
  PROVE  TermsInv'
<1>1. TermsTypes'
  BY DEF TermsInv, TermsTypes
<1>2. ASSUME NEW t \in Tokens
      PROVE  TokenInv(token'[t], snapshot'[t], history'[t], renewals'[t])
  BY DEF TermsInv
<1> QED
  BY <1>1, <1>2 DEF TermsInv, TokenInv, PastKept, PaidKept, Untouched

\* One step for each operation on a token.
LEMMA TokenStepInv ==
  ASSUME TermsInv, NEW t \in Tokens, TokenStep(t)
  PROVE  TermsInv'
<1>1. ASSUME NEW e \in Expiries, IssueToken(t, e)
      PROVE  TermsInv'
  BY <1>1, IssueStep
<1>2. ASSUME NEW tier \in Tiers, NEW d \in {Month, Year}, RenewToken(t, tier, d)
      PROVE  TermsInv'
  <2>1. token[t] # None /\ Renew(t, RenewedToken(token[t], tier, d))
    BY <1>2 DEF RenewToken
  <2>2. token[t] \in TokenRecords /\ now \in Nat /\ token[t].expiry \in Nat
    BY <2>1, TermsFacts, Captured
  <2>3. d \in Nat /\ Min({Month, Year}) <= d /\ Min({Month, Year}) \in Nat
    BY ShorterCycle, TermsAssumption
  <2> DEFINE g == RenewedToken(token[t], tier, d)
  <2>4. /\ g \in TokenRecords /\ g.version = token[t].version
        /\ g.expiry >= token[t].expiry + d
        /\ g.graceEntered = None /\ g.graceExpires = None
    BY <2>2, <2>3, RecordsBuilt
  <2> HIDE DEF g
  <2>5. g.expiry \in Nat
    BY <2>4, Captured
  <2>6. g.expiry >= token[t].expiry + Min({Month, Year})
    BY <2>2, <2>3, <2>4, <2>5
  <2>7. Renew(t, g)
    BY <2>1 DEF g
  <2> QED
    BY <2>1, <2>4, <2>6, <2>7, RenewStep
<1>3. CASE ProcessAutoRenewal(t)
  <2>1. token[t] # None /\ Renew(t, ProlongedToken(token[t], Month))
    BY <1>3 DEF ProcessAutoRenewal
  <2>2. token[t] \in TokenRecords /\ token[t].expiry \in Nat
    BY <2>1, TermsFacts, Captured
  <2>3. token[t].graceEntered = None <=> token[t].graceExpires = None
    BY <2>1, TermsFacts
  <2>4. /\ token[t].expiry + Month \in Nat
        /\ token[t].expiry + Month >= token[t].expiry + Min({Month, Year})
    BY <2>2, ShorterCycle, TermsAssumption
  <2> DEFINE g == ProlongedToken(token[t], Month)
  <2>5. /\ g \in TokenRecords /\ g.version = token[t].version
        /\ g.expiry = token[t].expiry + Month
        /\ g.graceEntered = token[t].graceEntered /\ g.graceExpires = token[t].graceExpires
    BY <2>2, RecordsProlonged, TermsAssumption
  <2>6. Renew(t, g)
    BY <2>1
  <2> HIDE DEF g
  <2> QED
    BY <2>1, <2>3, <2>4, <2>5, <2>6, RenewStep
<1>4. CASE CheckAndApplyGracePeriod(t)
  BY <1>4, GraceStep
<1>5. ASSUME NEW e \in Expiries \cup {None}, NEW tier \in Tiers \cup {None},
             NEW st \in Statuses \cup {None}, UpgradeToken(t, e, tier, st)
      PROVE  TermsInv'
  <2> DEFINE k == token[t]
             s == [expiry |-> IF e = None THEN k.expiry ELSE e,
                   tier |-> IF tier = None THEN k.tier ELSE tier,
                   status |-> IF st = None THEN k.status ELSE st]
  <2>1. k # None /\ NextVersion(t, WithTerms(k, s, k.version + 1), FALSE)
    BY <1>5 DEF UpgradeToken
  <2>2. k \in TokenRecords
    BY <2>1, TermsFacts
  <2>3. s \in Terms
    BY <2>2, TermsAssumption DEF Terms, TokenRecords
  <2> HIDE DEF s
  <2> QED
    BY <2>1, <2>3, VersionStep
<1>6. ASSUME NEW v \in Versions, RollbackTokenUpgrade(t, v)
      PROVE  TermsInv'
  <2>1. /\ token[t] # None /\ snapshot[t][v] # None /\ RollbackAllowed(t)
        /\ NextVersion(t, WithTerms(token[t], snapshot[t][v], token[t].version + 1), TRUE)
    BY <1>6 DEF RollbackTokenUpgrade, VersionAfterRollback
  <2>2. snapshot[t][v] \in Terms
    BY <2>1, TermsFacts
  <2> QED
    BY <2>1, <2>2, VersionStep
<1>7. CASE PauseTokenOperations(t)
  BY <1>7, LedgerStep DEF PauseTokenOperations, TermsInv, TermsTypes
<1>8. CASE UnpauseTokenOperations(t)
  BY <1>8, LedgerStep DEF UnpauseTokenOperations, TermsInv, TermsTypes
<1> QED
  BY <1>1, <1>2, <1>3, <1>4, <1>5, <1>6, <1>7, <1>8 DEF TokenStep

\* Every step keeps the invariant.
LEMMA TermsStep == TermsInv /\ [TermsNext]_termsVars => TermsInv'
<1> SUFFICES ASSUME TermsInv, [TermsNext]_termsVars PROVE TermsInv'
  OBVIOUS
<1>1. ASSUME NEW t \in Tokens, TokenStep(t) PROVE TermsInv'
  BY <1>1, TokenStepInv
<1>2. ASSUME NEW a, NEW l, EmergencyPause(a, l) PROVE TermsInv'
  BY <1>2, LedgerStep DEF EmergencyPause, TermsInv, TermsTypes
<1>3. CASE EmergencyUnpause
  BY <1>3, LedgerStep DEF EmergencyUnpause, TermsInv, TermsTypes
<1>4. ASSUME NEW ts \in SUBSET Tokens, SetAutoRenewal(ts) PROVE TermsInv'
  BY <1>4, LedgerStep DEF SetAutoRenewal, TermsInv, TermsTypes
<1>5. CASE Tick /\ UNCHANGED <<token, snapshot, history, renewals, auto, pause, tokenPaused>>
  <2>1. now' \in 0..MaxTime
    BY <1>5, TermsAssumption DEF Tick, TermsInv, TermsTypes
  <2> QED
    BY <2>1, <1>5, LedgerStep DEF TermsInv, TermsTypes
<1>6. CASE UNCHANGED termsVars
  BY <1>6, LedgerStep DEF termsVars, TermsInv, TermsTypes
<1> QED
  BY <1>1, <1>2, <1>3, <1>4, <1>5, <1>6 DEF TermsNext

\* The invariant says what the property says of every state.
LEMMA TermsInvConsistent == TermsInv => TermsConsistent
<1> SUFFICES ASSUME TermsInv PROVE TermsConsistent
  OBVIOUS
<1>1. TermsTypeOK
  BY DEF TermsInv, TermsTypes, TermsTypeOK, TokenInv, Untouched
<1>2. HistoryComplete
  <2> SUFFICES ASSUME NEW t \in Tokens, token[t] # None
               PROVE  /\ Len(history[t]) = token[t].version
                      /\ \A i \in 1..Len(history[t]) : history[t][i].from = i - 1 /\ history[t][i].to = i
                      /\ {v \in Versions : snapshot[t][v] # None} = 0..(token[t].version - 1)
    BY DEF HistoryComplete
  <2>1. PastKept(token[t], snapshot[t], history[t]) /\ token[t].version \in Versions
    BY TermsFacts, Captured
  <2>2. {v \in Versions : snapshot[t][v] # None} = 0..(token[t].version - 1)
    BY <2>1, TermsAssumption DEF PastKept, Versions
  <2> QED
    BY <2>1, <2>2 DEF PastKept
<1>3. RollbacksBounded
  <2> SUFFICES ASSUME MaxRollbacks > 0, NEW t \in Tokens PROVE CountRollbacks(t) <= MaxRollbacks
    BY DEF RollbacksBounded
  <2>1. CASE token[t] # None
    BY <2>1, TermsFacts DEF PastKept, CountRollbacks, Rollbacks
  <2>2. CASE token[t] = None
    <3>1. history[t] = <<>>
      BY <2>2 DEF TermsInv, TokenInv, Untouched
    <3>2. CountRollbacks(t) = 0
      <4>1. {i \in 1..Len(history[t]) : history[t][i].rollback} = {}
        BY <3>1
      <4> QED
        BY <4>1, FS_EmptySet DEF CountRollbacks
    <3> QED
      BY <3>2, TermsAssumption
  <2> QED
    BY <2>1, <2>2
<1>4. RenewalsChain
  <2> SUFFICES ASSUME NEW t \in Tokens
               PROVE  LET r == renewals[t] IN
                      /\ \A i \in 1..Len(r) : r[i].new >= r[i].old + Min({Month, Year})
                      /\ \A i \in 1..Len(r) - 1 : r[i].version = r[i + 1].version =>
                            r[i + 1].old = r[i].new
    BY DEF RenewalsChain
  <2>1. CASE token[t] # None
    BY <2>1, TermsFacts DEF PaidKept
  <2>2. CASE token[t] = None
    BY <2>2 DEF TermsInv, TokenInv, Untouched
  <2> QED
    BY <2>1, <2>2
<1> QED
  BY <1>1, <1>2, <1>3, <1>4 DEF TermsConsistent

\* A step of the clock or of one token writes only the snapshot of the
\* version that token leaves.
LEMMA SnapshotsKept == TermsInv /\ [TermsNext]_termsVars => SnapshotsImmutable
<1> SUFFICES ASSUME TermsInv, [TermsNext]_termsVars, NEW t \in Tokens, NEW v \in Versions,
                    snapshot[t][v] # None
             PROVE  snapshot'[t][v] = snapshot[t][v]
  BY DEF SnapshotsImmutable
<1>1. CASE UNCHANGED snapshot
  BY <1>1
<1>2. ASSUME NEW u \in Tokens, NEW g, NEW back, token[u] # None, NextVersion(u, g, back)
      PROVE  snapshot'[t][v] = snapshot[t][v]
  <2>1. snapshot' = [snapshot EXCEPT ![u] = [snapshot[u] EXCEPT ![token[u].version] = CaptureSnapshot(token[u])]]
    BY <1>2 DEF NextVersion, TermsInv, TermsTypes
  <2>2. CASE u # t
    BY <2>1, <2>2 DEF TermsInv, TermsTypes
  <2>3. CASE u = t
    <3>1. v # token[t].version
      <4>1. PastKept(token[t], snapshot[t], history[t]) /\ token[t].version \in Nat
        BY <1>2, <2>3, TermsFacts, Captured
      <4> QED
        BY <4>1 DEF PastKept
    <3>2. snapshot[t] \in [Versions -> Terms \cup {None}] /\ snapshot \in [Tokens -> [Versions -> Terms \cup {None}]]
      BY DEF TermsInv, TermsTypes
    <3> QED
      BY <2>1, <2>3, <3>1, <3>2
  <2> QED
    BY <2>2, <2>3
<1>3. ASSUME NEW u \in Tokens, TokenStep(u)
      PROVE  UNCHANGED snapshot \/ \E g, back : token[u] # None /\ NextVersion(u, g, back)
  BY <1>3 DEF TokenStep, IssueToken, RenewToken, Renew, ProcessAutoRenewal, CheckAndApplyGracePeriod,
              UpgradeToken, RollbackTokenUpgrade, PauseTokenOperations, UnpauseTokenOperations
<1>4. (\E u \in Tokens : TokenStep(u)) \/ UNCHANGED snapshot
  BY DEF TermsNext, EmergencyPause, EmergencyUnpause, SetAutoRenewal, termsVars
<1> QED
  BY <1>1, <1>2, <1>3, <1>4

\* The past of a token and its paid time are kept (manage_hub/src/membership_token.rs):
\* its history is the chain of its versions, each of which stays as it was
\* left; rollbacks stay within their limit; and renewals follow each other
\* without a gap in a version.
THEOREM TermsAreKept == TermsSpec => TermsKept
<1>1. TermsInit => TermsInv
  BY TermsStart
<1>2. TermsInv /\ [TermsNext]_termsVars => TermsInv' /\ TermsConsistent' /\ SnapshotsImmutable
  <2>1. TermsInv' => TermsConsistent'
    BY TermsInvConsistent, PTL
  <2> QED
    BY <2>1, TermsStep, SnapshotsKept
<1> QED
  BY <1>1, <1>2, PTL DEF TermsSpec, TermsKept

-----------------------------------------------------------------------------
\* Subscriptions

Balances == [bought : Nat, used : Nat, whole : BOOLEAN]

\* The history of a subscription: see Explained and WithinLimits.  The last
\* resumption is the one the subscription remembers.
HistoryInv(k) ==
    /\ Explained(k) /\ WithinLimits(k.history)
    /\ \A i \in Of(k.history, "Resume") : k.history[i].duration \in Nat
    /\ Len(k.history) \in Of(k.history, "Resume") => k.history[Len(k.history)].at = k.lastResumedAt

\* Times are in order: a pause begins after the last resumption and before
\* the expiry, and no time was paused that has not passed.
TimesInv(k) ==
    /\ k.expiresAt <= MaxExpiresAt
    /\ k.totalPaused <= k.lastResumedAt /\ k.lastResumedAt <= now
    /\ k.status = "Paused" <=> k.pausedAt # None
    /\ k.status = "Paused" =>
          k.lastResumedAt <= k.pausedAt /\ k.pausedAt <= now /\ k.pausedAt < k.expiresAt

\* What was used and what is left are what was bought, unless some of it was
\* forfeited, as by a cancellation.
BalanceInv(k, a) ==
    /\ a.used + TimeLeft(k) <= a.bought
    /\ a.whole => a.used + TimeLeft(k) = a.bought /\ k.status # "Inactive"

PlanInv(k, a) ==
    IF k = None THEN a.bought = 0 /\ a.used = 0
    ELSE HistoryInv(k) /\ TimesInv(k) /\ BalanceInv(k, a)

PlansTypes ==
    /\ now \in Nat /\ pauseConfig \in Configs
    /\ subscription \in [Subscriptions -> Plans \cup {None}]
    /\ account \in [Subscriptions -> Balances]

PlansInv == PlansTypes /\ \A s \in Subscriptions : PlanInv(subscription[s], account[s])

\* The fields of a subscription.
LEMMA PlanFields ==
  ASSUME NEW k \in Plans
  PROVE  /\ k # None /\ k.status \in {"Active", "Paused", "Inactive"} /\ k.expiresAt \in Nat
         /\ k.pausedAt \in Nat \cup {None} /\ k.lastResumedAt \in Nat /\ k.pauseCount \in Nat
         /\ k.totalPaused \in Nat /\ k.history \in Seq(PauseEntries) /\ Len(k.history) \in Nat
<1>1. k # None
  BY NoPlanAssumption
<1>2. k.history \in Seq(PauseEntries)
  BY DEF Plans
<1> QED
  BY <1>1, <1>2, LenProperties DEF Plans

\* A history with one more entry.
LEMMA Appended ==
  ASSUME NEW h \in Seq(PauseEntries), NEW e \in PauseEntries
  PROVE  LET q == Append(h, e) IN
         /\ q \in Seq(PauseEntries) /\ Len(h) \in Nat /\ Len(q) = Len(h) + 1 /\ q[Len(q)] = e
         /\ \A i \in 1..Len(h) : q[i] = h[i]
         /\ \A action : IsFiniteSet(Of(h, action)) /\ Len(q) \notin Of(h, action)
                        /\ Of(h, action) \subseteq 1..Len(h)
         /\ \A action : Of(q, action) = IF e.action = action THEN Of(h, action) \cup {Len(q)}
                                                             ELSE Of(h, action)
<1> DEFINE q == Append(h, e)
<1>1. /\ q \in Seq(PauseEntries) /\ Len(h) \in Nat /\ Len(q) = Len(h) + 1 /\ q[Len(q)] = e
      /\ \A i \in 1..Len(h) : q[i] = h[i]
  BY AppendProperties, LenProperties
<1> HIDE DEF q
<1>2. ASSUME NEW action
      PROVE  IsFiniteSet(Of(h, action)) /\ Len(q) \notin Of(h, action) /\ Of(h, action) \subseteq 1..Len(h)
  <2>1. Of(h, action) \subseteq 1..Len(h) /\ IsFiniteSet(1..Len(h))
    BY <1>1, FS_Interval DEF Of
  <2>2. Len(q) \notin 1..Len(h)
    BY <1>1
  <2> QED
    BY <2>1, <2>2, FS_Subset
<1>3. ASSUME NEW action
      PROVE  Of(q, action) = IF e.action = action THEN Of(h, action) \cup {Len(q)} ELSE Of(h, action)
  <2>1. 1..Len(q) = 1..Len(h) \cup {Len(q)}
    BY <1>1
  <2> QED
    BY <1>1, <2>1 DEF Of
<1> QED
  BY <1>1, <1>2, <1>3 DEF q

\* The durations summed up do not depend on entries that are not resumptions.
LEMMA DurationsKept ==
  ASSUME NEW h \in Seq(PauseEntries), NEW q, Len(h) \in Nat, Len(q) = Len(h) + 1,
         \A i \in 1..Len(h) : q[i] = h[i]
  PROVE  Total(Of(h, "Resume"), [i \in 1..Len(q) |-> q[i].duration]) =
         Total(Of(h, "Resume"), [i \in 1..Len(h) |-> h[i].duration])
<1>1. \A i \in Of(h, "Resume") :
         [j \in 1..Len(q) |-> q[j].duration][i] = [j \in 1..Len(h) |-> h[j].duration][i]
  BY DEF Of
<1> QED
  BY <1>1, TotalAgree

\* A pause is recorded once, and a member's only within the limits.
LEMMA PauseRecorded ==
  ASSUME PlansInv, NEW k \in Plans, HistoryInv(k), k.status = "Active",
         NEW byAdmin \in BOOLEAN, ~byAdmin => MayPause(k),
         NEW g \in Plans, g.status = "Paused", g.pausedAt = now, g.pauseCount = k.pauseCount + 1,
         g.totalPaused = k.totalPaused, g.lastResumedAt = k.lastResumedAt,
         NEW e \in PauseEntries, e.action = "Pause", e.at = now, e.byAdmin = byAdmin,
         g.history = Append(k.history, e)
  PROVE  HistoryInv(g)
<1> DEFINE h == k.history
           q == g.history
<1>1. /\ q \in Seq(PauseEntries) /\ Len(h) \in Nat /\ Len(q) = Len(h) + 1 /\ q[Len(q)] = e
      /\ \A i \in 1..Len(h) : q[i] = h[i]
      /\ IsFiniteSet(Of(h, "Pause")) /\ Len(q) \notin Of(h, "Pause")
      /\ Of(h, "Pause") \subseteq 1..Len(h) /\ Of(h, "Resume") \subseteq 1..Len(h)
      /\ Of(q, "Pause") = Of(h, "Pause") \cup {Len(q)} /\ Of(q, "Resume") = Of(h, "Resume")
  <2>1. h \in Seq(PauseEntries) /\ q = Append(h, e)
    BY PlanFields
  <2> HIDE DEF h, q
  <2>2. /\ q \in Seq(PauseEntries) /\ Len(h) \in Nat /\ Len(q) = Len(h) + 1 /\ q[Len(q)] = e
        /\ \A i \in 1..Len(h) : q[i] = h[i]
        /\ \A action : IsFiniteSet(Of(h, action)) /\ Len(q) \notin Of(h, action)
                       /\ Of(h, action) \subseteq 1..Len(h)
        /\ \A action : Of(q, action) = IF e.action = action THEN Of(h, action) \cup {Len(q)}
                                                            ELSE Of(h, action)
    BY <2>1, Appended
  <2> QED
    BY <2>2
<1>2. h \in Seq(PauseEntries)
  BY PlanFields
<1>3. /\ Cardinality(Of(h, "Pause")) = k.pauseCount
      /\ \A i \in Of(h, "Resume") :
            i > 1 /\ h[i - 1].action = "Pause" /\ h[i].duration = h[i].at - h[i - 1].at
      /\ k.totalPaused = Total(Of(h, "Resume"), [i \in 1..Len(h) |-> h[i].duration])
      /\ \E c \in Configs : Cardinality(Own(h)) <= c.maxCount
      /\ \A i \in Own(h) : i > 1 /\ h[i - 1].action = "Resume" =>
            \E c \in Configs : h[i].at - h[i - 1].at >= c.minActive
      /\ \A i \in Of(h, "Resume") : h[i].duration \in Nat
      /\ Len(h) \in Of(h, "Resume") => h[Len(h)].at = k.lastResumedAt
  BY DEF HistoryInv, Explained, WithinLimits
<1> HIDE DEF h, q
<1>4. \A i \in Of(h, "Resume") : i > 1 => q[i] = h[i] /\ q[i - 1] = h[i - 1]
  <2> TAKE i \in Of(h, "Resume")
  <2>1. i \in 1..Len(h) /\ (i > 1 => i - 1 \in 1..Len(h))
    BY <1>1
  <2> QED
    BY <2>1, <1>1
<1>5. Explained(g)
  <2>1. Cardinality(Of(q, "Pause")) = g.pauseCount
    BY <1>1, <1>3, FS_AddElement
  <2>2. Len(q) > 0 /\ q[Len(q)].action = "Pause" /\ q[Len(q)].at = g.pausedAt
    BY <1>1
  <2>3. \A i \in Of(q, "Resume") :
           i > 1 /\ q[i - 1].action = "Pause" /\ q[i].duration = q[i].at - q[i - 1].at
    BY <1>1, <1>3, <1>4
  <2>4. g.totalPaused = Total(Of(q, "Resume"), [i \in 1..Len(q) |-> q[i].duration])
    <3>1. Len(h) \in Nat /\ Len(q) = Len(h) + 1 /\ \A i \in 1..Len(h) : q[i] = h[i]
      BY <1>1
    <3>2. Total(Of(h, "Resume"), [i \in 1..Len(q) |-> q[i].duration]) =
             Total(Of(h, "Resume"), [i \in 1..Len(h) |-> h[i].duration])
      BY <1>2, <3>1, DurationsKept
    <3>3. Of(q, "Resume") = Of(h, "Resume")
      BY <1>1
    <3>4. g.totalPaused = Total(Of(h, "Resume"), [i \in 1..Len(h) |-> h[i].duration])
      BY <1>3
    <3> QED
      BY <3>2, <3>3, <3>4
  <2> QED
    BY <2>1, <2>2, <2>3, <2>4 DEF Explained, q
<1>6. Own(q) = IF byAdmin THEN Own(h) ELSE Own(h) \cup {Len(q)}
  BY <1>1 DEF Own
<1>7. /\ IsFiniteSet(Own(h)) /\ Cardinality(Own(h)) \in Nat
      /\ Own(h) \subseteq 1..Len(h) /\ Cardinality(Own(h)) <= k.pauseCount
  <2>1. Own(h) \subseteq Of(h, "Pause")
    BY DEF Own
  <2> QED
    BY <2>1, <1>1, <1>3, FS_Subset, FS_CardinalityType
<1>8. \E c \in Configs : Cardinality(Own(q)) <= c.maxCount
  <2>1. CASE byAdmin
    BY <2>1, <1>3, <1>6
  <2>2. CASE ~byAdmin
    <3>1. Cardinality(Own(q)) = IF Len(q) \in Own(h) THEN Cardinality(Own(h)) ELSE Cardinality(Own(h)) + 1
      BY <2>2, <1>6, <1>7, FS_AddElement
    <3>2. pauseConfig \in Configs /\ pauseConfig.maxCount \in Nat /\ k.pauseCount \in Nat
      BY PlanFields, SubscriptionsAssumption DEF PlansInv, PlansTypes
    <3>3. k.pauseCount < pauseConfig.maxCount
      BY <2>2 DEF MayPause
    <3>4. Cardinality(Own(q)) <= pauseConfig.maxCount
      BY <3>1, <3>2, <3>3, <1>7
    <3> QED
      BY <3>2, <3>4
  <2> QED
    BY <2>1, <2>2
<1>9. ASSUME NEW i \in Own(q), i > 1, q[i - 1].action = "Resume"
      PROVE  \E c \in Configs : q[i].at - q[i - 1].at >= c.minActive
  <2>1. CASE i \in Own(h)
    <3>1. i \in 1..Len(h) /\ i - 1 \in 1..Len(h)
      BY <2>1, <1>1, <1>7, <1>9
    <3>2. q[i] = h[i] /\ q[i - 1] = h[i - 1]
      BY <3>1, <1>1
    <3> QED
      BY <3>2, <2>1, <1>3, <1>9
  <2>2. CASE i = Len(q) /\ ~byAdmin
    <3>1. i - 1 = Len(h) /\ Len(h) \in 1..Len(h) /\ q[Len(h)] = h[Len(h)]
      BY <2>2, <1>1, <1>9
    <3>2. Len(h) \in Of(h, "Resume")
      BY <3>1, <1>9 DEF Of
    <3>3. q[i - 1].at = k.lastResumedAt /\ q[i].at = now
      BY <3>1, <3>2, <2>2, <1>1, <1>3
    <3>4. now - k.lastResumedAt >= pauseConfig.minActive /\ pauseConfig \in Configs
      BY <2>2 DEF MayPause, PlansInv, PlansTypes
    <3> QED
      BY <3>3, <3>4
  <2> QED
    BY <2>1, <2>2, <1>6
<1>10. Len(q) \notin Of(q, "Resume")
  BY <1>1
<1>11. \A i \in Of(q, "Resume") : q[i].duration \in Nat
  BY <1>1, <1>3, <1>4
<1> QED
  BY <1>5, <1>8, <1>9, <1>10, <1>11 DEF HistoryInv, WithinLimits, q

\* A resumption is recorded with the length of the pause it ends.
LEMMA ResumeRecorded ==
  ASSUME NEW k \in Plans, HistoryInv(k), k.status = "Paused", now \in Nat, k.pausedAt \in Nat,
         k.pausedAt <= now,
         NEW g \in Plans, g.status = "Active", g.pauseCount = k.pauseCount,
         g.totalPaused = k.totalPaused + (now - k.pausedAt), g.lastResumedAt = now,
         NEW e \in PauseEntries, e.action = "Resume", e.at = now, e.duration = now - k.pausedAt,
         g.history = Append(k.history, e)
  PROVE  HistoryInv(g)
<1> DEFINE h == k.history
           q == g.history
<1>1. /\ q \in Seq(PauseEntries) /\ Len(h) \in Nat /\ Len(q) = Len(h) + 1 /\ q[Len(q)] = e
      /\ \A i \in 1..Len(h) : q[i] = h[i]
      /\ IsFiniteSet(Of(h, "Resume")) /\ Len(q) \notin Of(h, "Resume")
      /\ Of(h, "Pause") \subseteq 1..Len(h) /\ Of(h, "Resume") \subseteq 1..Len(h)
      /\ Of(q, "Resume") = Of(h, "Resume") \cup {Len(q)} /\ Of(q, "Pause") = Of(h, "Pause")
  <2>1. h \in Seq(PauseEntries) /\ q = Append(h, e)
    BY PlanFields
  <2> HIDE DEF h, q
  <2>2. /\ q \in Seq(PauseEntries) /\ Len(h) \in Nat /\ Len(q) = Len(h) + 1 /\ q[Len(q)] = e
        /\ \A i \in 1..Len(h) : q[i] = h[i]
        /\ \A action : IsFiniteSet(Of(h, action)) /\ Len(q) \notin Of(h, action)
                       /\ Of(h, action) \subseteq 1..Len(h)
        /\ \A action : Of(q, action) = IF e.action = action THEN Of(h, action) \cup {Len(q)}
                                                            ELSE Of(h, action)
    BY <2>1, Appended
  <2> QED
    BY <2>2
<1>2. h \in Seq(PauseEntries)
  BY PlanFields
<1>3. /\ Cardinality(Of(h, "Pause")) = k.pauseCount
      /\ Len(h) > 0 /\ h[Len(h)].action = "Pause" /\ h[Len(h)].at = k.pausedAt
      /\ \A i \in Of(h, "Resume") :
            i > 1 /\ h[i - 1].action = "Pause" /\ h[i].duration = h[i].at - h[i - 1].at
      /\ k.totalPaused = Total(Of(h, "Resume"), [i \in 1..Len(h) |-> h[i].duration])
      /\ \E c \in Configs : Cardinality(Own(h)) <= c.maxCount
      /\ \A i \in Own(h) : i > 1 /\ h[i - 1].action = "Resume" =>
            \E c \in Configs : h[i].at - h[i - 1].at >= c.minActive
      /\ \A i \in Of(h, "Resume") : h[i].duration \in Nat
  BY DEF HistoryInv, Explained, WithinLimits
<1> HIDE DEF h, q
<1>4. \A i \in 1..Len(h) : q[i] = h[i] /\ (i > 1 => q[i - 1] = h[i - 1])
  <2> TAKE i \in 1..Len(h)
  <2>1. i > 1 => i - 1 \in 1..Len(h)
    BY <1>1
  <2> QED
    BY <2>1, <1>1
<1>5. now - k.pausedAt \in Nat
  OBVIOUS
<1>6. Explained(g)
  <2>1. Cardinality(Of(q, "Pause")) = g.pauseCount
    BY <1>1, <1>3
  <2>2. ASSUME NEW i \in Of(q, "Resume")
        PROVE  i > 1 /\ q[i - 1].action = "Pause" /\ q[i].duration = q[i].at - q[i - 1].at
    <3>1. CASE i \in Of(h, "Resume")
      BY <3>1, <1>1, <1>3, <1>4
    <3>2. CASE i = Len(q)
      <4>1. i - 1 = Len(h) /\ Len(h) \in 1..Len(h) /\ i > 1
        BY <3>2, <1>1, <1>3
      <4>2. q[i - 1] = h[Len(h)]
        BY <4>1, <1>1
      <4> QED
        BY <4>1, <4>2, <3>2, <1>1, <1>3
    <3> QED
      BY <3>1, <3>2, <1>1
  <2>3. g.totalPaused = Total(Of(q, "Resume"), [i \in 1..Len(q) |-> q[i].duration])
    <3> DEFINE d == [i \in 1..Len(q) |-> q[i].duration]
    <3>1. d[Len(q)] = now - k.pausedAt
      BY <1>1
    <3>2. \A i \in Of(h, "Resume") \cup {Len(q)} : d[i] \in Nat
      <4>1. ASSUME NEW i \in Of(h, "Resume") PROVE d[i] \in Nat
        <5>1. i \in 1..Len(h) /\ i \in 1..Len(q)
          BY <1>1
        <5>2. d[i] = q[i].duration /\ q[i] = h[i]
          BY <5>1, <1>1
        <5> QED
          BY <5>2, <1>3
      <4> QED
        BY <4>1, <3>1, <1>5
    <3>3. Total(Of(h, "Resume"), d) = k.totalPaused
      <4>1. Len(h) \in Nat /\ Len(q) = Len(h) + 1 /\ \A i \in 1..Len(h) : q[i] = h[i]
        BY <1>1
      <4>2. Total(Of(h, "Resume"), d) = Total(Of(h, "Resume"), [i \in 1..Len(h) |-> h[i].duration])
        BY <1>2, <4>1, DurationsKept
      <4>3. k.totalPaused = Total(Of(h, "Resume"), [i \in 1..Len(h) |-> h[i].duration])
        BY <1>3
      <4> QED
        BY <4>2, <4>3
    <3> HIDE DEF d
    <3>4. Total(Of(h, "Resume") \cup {Len(q)}, d) = Total(Of(h, "Resume"), d) + d[Len(q)]
      <4>1. IsFiniteSet(Of(h, "Resume")) /\ Len(q) \notin Of(h, "Resume")
        BY <1>1
      <4> QED
        BY <3>2, <4>1, TotalAdd
    <3> QED
      BY <3>1, <3>3, <3>4, <1>1 DEF d
  <2> QED
    BY <2>1, <2>2, <2>3 DEF Explained, q
<1>7. Own(q) = Own(h) /\ Own(h) \subseteq 1..Len(h)
  BY <1>1 DEF Own
<1>8. \A i \in Own(q) : i > 1 /\ q[i - 1].action = "Resume" =>
         \E c \in Configs : q[i].at - q[i - 1].at >= c.minActive
  BY <1>3, <1>4, <1>7
<1>9. \E c \in Configs : Cardinality(Own(q)) <= c.maxCount
  BY <1>3, <1>7
<1>10. \A i \in Of(q, "Resume") : q[i].duration \in Nat
  BY <1>1, <1>3, <1>4, <1>5
<1>11. q[Len(q)].at = g.lastResumedAt
  BY <1>1
<1> QED
  BY <1>6, <1>8, <1>9, <1>10, <1>11 DEF HistoryInv, WithinLimits, q

\* What neither pauses nor resumes leaves the history as it is.
LEMMA HistoryLeft ==
  ASSUME NEW k, HistoryInv(k), NEW g, g.status # "Paused", g.pauseCount = k.pauseCount,
         g.totalPaused = k.totalPaused, g.lastResumedAt = k.lastResumedAt, g.history = k.history
  PROVE  HistoryInv(g)
BY DEF HistoryInv, Explained

\* A step that changes one subscription and what was bought of it.
LEMMA OnePlanChanges ==
  ASSUME PlansInv, NEW s \in Subscriptions, NEW k \in Plans, NEW b \in Balances,
         subscription' = [subscription EXCEPT ![s] = k], account' = [account EXCEPT ![s] = b],
         UNCHANGED <<pauseConfig, now>>,
         HistoryInv(k), TimesInv(k), BalanceInv(k, b)
  PROVE  PlansInv'
<1>1. PlansTypes'
  BY DEF PlansInv, PlansTypes
<1>2. ASSUME NEW u \in Subscriptions PROVE PlanInv(subscription'[u], account'[u])
  <2>1. CASE u = s
    <3>1. subscription'[u] = k /\ account'[u] = b
      BY <2>1 DEF PlansInv, PlansTypes
    <3> QED
      BY <3>1, PlanFields DEF PlanInv
  <2>2. CASE u # s
    <3>1. subscription'[u] = subscription[u] /\ account'[u] = account[u]
      BY <2>2 DEF PlansInv, PlansTypes
    <3> QED
      BY <3>1 DEF PlansInv
  <2> QED
    BY <2>1, <2>2
<1> QED
  BY <1>1, <1>2 DEF PlansInv, PlanInv, TimesInv, BalanceInv, TimeLeft

\* What the invariant says of one subscription.
LEMMA PlanFacts ==
  ASSUME PlansInv, NEW s \in Subscriptions, subscription[s] # None
  PROVE  /\ subscription[s] \in Plans /\ account[s] \in Balances /\ now \in Nat
         /\ HistoryInv(subscription[s]) /\ TimesInv(subscription[s])
         /\ BalanceInv(subscription[s], account[s])
         /\ account = [account EXCEPT ![s] = account[s]]
BY DEF PlansInv, PlansTypes, PlanInv

\* What is left is a number.
LEMMA LeftType ==
  ASSUME NEW k \in Plans, now \in Nat, k.status = "Paused" => k.pausedAt \in Nat
  PROVE  TimeLeft(k) \in Nat
BY PlanFields DEF TimeLeft

\* Nothing was bought yet.
LEMMA PlansStart == SubscriptionsInit => PlansInv
<1> SUFFICES ASSUME SubscriptionsInit PROVE PlansInv
  OBVIOUS
<1>1. [bought |-> 0, used |-> 0, whole |-> TRUE] \in Balances
  BY DEF Balances
<1>2. PlansTypes
  BY <1>1 DEF SubscriptionsInit, PlansTypes, Configs
<1>3. ASSUME NEW s \in Subscriptions PROVE PlanInv(subscription[s], account[s])
  BY DEF SubscriptionsInit, PlanInv
<1> QED
  BY <1>2, <1>3 DEF PlansInv

\* Creation.
LEMMA CreateStep ==
  ASSUME PlansInv, NEW s \in Subscriptions, NEW d \in Durations, CreateSubscription(s, d)
  PROVE  PlansInv'
<1> DEFINE k == [status |-> "Active", expiresAt |-> now + d, pausedAt |-> None,
                 lastResumedAt |-> now, pauseCount |-> 0, totalPaused |-> 0, history |-> <<>>]
           b == [account[s] EXCEPT !.bought = account[s].bought + d]
<1>1. now \in Nat /\ d \in Nat /\ now + d \in Nat /\ now + d <= MaxExpiresAt
  BY SubscriptionsAssumption DEF PlansInv, PlansTypes, CreateSubscription
<1>2. account[s] \in Balances /\ account[s].bought = 0 /\ account[s].used = 0
  BY DEF PlansInv, PlansTypes, PlanInv, CreateSubscription
<1>3. k \in Plans
  <2>1. <<>> \in Seq(PauseEntries)
    BY EmptySeq
  <2> QED
    BY <2>1, <1>1 DEF Plans
<1>4. b \in Balances /\ b.bought = d /\ b.used = 0
  BY <1>1, <1>2 DEF Balances
<1>5. /\ subscription' = [subscription EXCEPT ![s] = k] /\ account' = [account EXCEPT ![s] = b]
      /\ UNCHANGED <<pauseConfig, now>>
  BY DEF CreateSubscription, Buy
<1>6. /\ k.status = "Active" /\ k.expiresAt = now + d /\ k.pausedAt = None
      /\ k.lastResumedAt = now /\ k.pauseCount = 0 /\ k.totalPaused = 0 /\ k.history = <<>>
  OBVIOUS
<1> HIDE DEF k, b
<1>7. HistoryInv(k)
  <2>1. \A action : Of(<<>>, action) = {}
    BY DEF Of
  <2>2. Own(<<>>) = {}
    BY <2>1 DEF Own
  <2>3. Cardinality({}) = 0 /\ \A f : Total({}, f) = 0
    BY FS_EmptySet, TotalEmpty
  <2>4. \E c \in Configs : 0 <= c.maxCount
    BY SubscriptionsAssumption DEF Configs
  <2>5. Explained(k)
    BY <2>1, <2>3, <1>6 DEF Explained
  <2>6. WithinLimits(k.history)
    BY <2>2, <2>3, <2>4, <1>6 DEF WithinLimits
  <2> QED
    BY <2>1, <2>5, <2>6, <1>6 DEF HistoryInv
<1>8. TimesInv(k)
  BY <1>1, <1>6 DEF TimesInv
<1>9. BalanceInv(k, b)
  <2>1. TimeLeft(k) = d
    BY <1>1, <1>6 DEF TimeLeft
  <2> QED
    BY <2>1, <1>1, <1>4, <1>6 DEF BalanceInv
<1> QED
  BY <1>3, <1>4, <1>5, <1>7, <1>8, <1>9, OnePlanChanges

\* A pause.
LEMMA PauseStep ==
  ASSUME PlansInv, NEW s \in Subscriptions, NEW byAdmin \in BOOLEAN, PauseSubscription(s, byAdmin)
  PROVE  PlansInv'
<1> DEFINE k == subscription[s]
           e == [action |-> "Pause", at |-> now, byAdmin |-> byAdmin, duration |-> None]
           g == PausedPlan(k, byAdmin)
<1>1. /\ k # None /\ k.status = "Active" /\ now < k.expiresAt /\ (~byAdmin => MayPause(k))
      /\ subscription' = [subscription EXCEPT ![s] = g] /\ UNCHANGED <<pauseConfig, account, now>>
  BY DEF PauseSubscription
<1>2. /\ k \in Plans /\ account[s] \in Balances /\ now \in Nat
      /\ HistoryInv(k) /\ TimesInv(k) /\ BalanceInv(k, account[s])
      /\ account = [account EXCEPT ![s] = account[s]]
  BY <1>1, PlanFacts
<1>3. e \in PauseEntries /\ e.action = "Pause" /\ e.at = now /\ e.byAdmin = byAdmin
  BY <1>2 DEF PauseEntries
<1> HIDE DEF k
<1>4. k.pauseCount + 1 \in Nat /\ Append(k.history, e) \in Seq(PauseEntries)
  BY <1>2, <1>3, PlanFields, AppendProperties
<1>5. g = [k EXCEPT !.status = "Paused", !.pausedAt = now, !.pauseCount = k.pauseCount + 1,
                    !.history = Append(k.history, e)]
  BY DEF PausedPlan
<1> HIDE DEF e, g
<1>6. /\ g \in Plans /\ g.status = "Paused" /\ g.pausedAt = now
      /\ g.pauseCount = k.pauseCount + 1 /\ g.totalPaused = k.totalPaused
      /\ g.lastResumedAt = k.lastResumedAt /\ g.expiresAt = k.expiresAt
      /\ g.history = Append(k.history, e)
  BY <1>2, <1>4, <1>5 DEF Plans
<1>7. HistoryInv(g)
  BY <1>1, <1>2, <1>3, <1>6, PauseRecorded
<1>8. now # None
  BY <1>2, SubscriptionsAssumption
<1>9. TimesInv(g)
  BY <1>1, <1>2, <1>6, <1>8 DEF TimesInv
<1>10. BalanceInv(g, account[s])
  <2>1. TimeLeft(g) = TimeLeft(k)
    BY <1>1, <1>6 DEF TimeLeft
  <2> QED
    BY <2>1, <1>2, <1>6 DEF BalanceInv
<1> QED
  BY <1>1, <1>2, <1>6, <1>7, <1>9, <1>10, OnePlanChanges DEF k

\* A resumption.
LEMMA ResumeStep ==
  ASSUME PlansInv, NEW s \in Subscriptions, NEW byAdmin \in BOOLEAN, ResumeSubscription(s, byAdmin)
  PROVE  PlansInv'
<1> DEFINE k == subscription[s]
           n == AppliedExtension(k, byAdmin)
           p == PausedDuration(k)
           e == [action |-> "Resume", at |-> now, byAdmin |-> byAdmin, duration |-> p]
           g == ResumedPlan(k, byAdmin, n)
           b == IF n = p THEN account[s] ELSE [account[s] EXCEPT !.whole = FALSE]
<1>1. /\ k # None /\ k.status = "Paused" /\ k.expiresAt + n <= MaxExpiresAt
      /\ subscription' = [subscription EXCEPT ![s] = g] /\ UNCHANGED <<pauseConfig, now>>
      /\ (IF n = p THEN UNCHANGED account ELSE Forfeit(s))
  BY DEF ResumeSubscription
<1>2. /\ k \in Plans /\ account[s] \in Balances /\ now \in Nat
      /\ HistoryInv(k) /\ TimesInv(k) /\ BalanceInv(k, account[s])
      /\ account = [account EXCEPT ![s] = account[s]]
  BY <1>1, PlanFacts
<1>3. account' = [account EXCEPT ![s] = b]
  BY <1>1, <1>2 DEF Forfeit
<1>4. /\ b \in Balances /\ b.bought = account[s].bought /\ b.used = account[s].used
      /\ (b.whole => account[s].whole /\ n = p)
  BY <1>2 DEF Balances
<1> HIDE DEF k
<1>5. /\ k.pausedAt \in Nat /\ k.pausedAt <= now /\ k.pausedAt < k.expiresAt
      /\ k.lastResumedAt <= k.pausedAt /\ k.totalPaused <= k.lastResumedAt
  BY <1>1, <1>2, PlanFields DEF TimesInv
<1>6. p = now - k.pausedAt /\ p \in Nat
  BY <1>2, <1>5 DEF PausedDuration
<1>7. n \in Nat /\ n <= p
  <2>1. CASE byAdmin
    BY <2>1, <1>6 DEF AppliedExtension
  <2>2. CASE ~byAdmin
    <3>1. n = Min({p, pauseConfig.maxDuration})
      BY <2>2 DEF AppliedExtension
    <3>2. pauseConfig.maxDuration \in Nat
      BY SubscriptionsAssumption DEF PlansInv, PlansTypes
    <3>3. Min({p, pauseConfig.maxDuration}) \in Nat /\ Min({p, pauseConfig.maxDuration}) <= p
      BY <3>2, <1>6, EarlierOfTwo
    <3> QED
      BY <3>1, <3>3
  <2> QED
    BY <2>1, <2>2
<1> HIDE DEF p, n
<1>8. /\ e \in PauseEntries /\ e.action = "Resume" /\ e.at = now /\ e.duration = now - k.pausedAt
  BY <1>2, <1>6 DEF PauseEntries
<1>9. /\ k.expiresAt + n \in Nat /\ k.totalPaused + p \in Nat
      /\ Append(k.history, e) \in Seq(PauseEntries)
  BY <1>2, <1>6, <1>7, <1>8, PlanFields, AppendProperties
<1>10. g = [k EXCEPT !.status = "Active", !.pausedAt = None, !.lastResumedAt = now,
                     !.expiresAt = k.expiresAt + n, !.totalPaused = k.totalPaused + p,
                     !.history = Append(k.history, e)]
  BY DEF ResumedPlan, p
<1> HIDE DEF e, g, b
<1>11. /\ g \in Plans /\ g.status = "Active" /\ g.pausedAt = None
       /\ g.pauseCount = k.pauseCount /\ g.totalPaused = k.totalPaused + p
       /\ g.lastResumedAt = now /\ g.expiresAt = k.expiresAt + n
       /\ g.history = Append(k.history, e)
  BY <1>2, <1>9, <1>10 DEF Plans
<1>12. HistoryInv(g)
  BY <1>1, <1>2, <1>5, <1>6, <1>8, <1>11, ResumeRecorded
<1>13. TimesInv(g)
  <2>1. g.expiresAt <= MaxExpiresAt
    BY <1>1, <1>11
  <2>2. g.totalPaused <= g.lastResumedAt /\ g.lastResumedAt <= now
    <3>1. k.totalPaused \in Nat /\ k.lastResumedAt \in Nat
      BY <1>2, PlanFields
    <3>2. k.totalPaused + p <= now
      BY <3>1, <1>2, <1>5, <1>6
    <3> QED
      BY <3>2, <1>2, <1>11
  <2>3. g.status # "Paused" /\ g.pausedAt = None
    BY <1>11
  <2> QED
    BY <2>1, <2>2, <2>3 DEF TimesInv
<1>14. BalanceInv(g, b)
  <2>1. TimeLeft(k) = k.expiresAt - k.pausedAt
    BY <1>1, <1>2, <1>5, PlanFields DEF TimeLeft
  <2>2. TimeLeft(g) = IF k.expiresAt + n > now THEN (k.expiresAt + n) - now ELSE 0
    <3>1. g.status # "Paused" /\ g.expiresAt = k.expiresAt + n
      BY <1>11
    <3> QED
      BY <3>1 DEF TimeLeft
  <2>3. /\ TimeLeft(g) <= TimeLeft(k) /\ TimeLeft(g) \in Nat /\ TimeLeft(k) \in Nat
        /\ n = p => TimeLeft(g) = TimeLeft(k)
    <3>1. k.expiresAt \in Nat
      BY <1>2, PlanFields
    <3>2. TimeLeft(k) \in Nat
      BY <2>1, <3>1, <1>5
    <3>3. CASE k.expiresAt + n > now
      <4>1. TimeLeft(g) = (k.expiresAt + n) - now
        BY <2>2, <3>3
      <4> QED
        BY <2>1, <3>1, <3>2, <3>3, <4>1, <1>2, <1>5, <1>6, <1>7
    <3>4. CASE ~(k.expiresAt + n > now)
      <4>1. TimeLeft(g) = 0
        BY <2>2, <3>4
      <4>2. n # p
        BY <3>1, <3>4, <1>2, <1>5, <1>6, <1>7
      <4> QED
        BY <3>2, <4>1, <4>2
    <3> QED
      BY <3>3, <3>4
  <2>4. /\ account[s].used + TimeLeft(k) <= account[s].bought
        /\ account[s].whole => account[s].used + TimeLeft(k) = account[s].bought
        /\ account[s].used \in Nat /\ account[s].bought \in Nat
    BY <1>2 DEF BalanceInv, Balances
  <2>5. b.used + TimeLeft(g) <= b.bought
    BY <2>3, <2>4, <1>4
  <2>6. b.whole => b.used + TimeLeft(g) = b.bought /\ g.status # "Inactive"
    BY <2>3, <2>4, <1>4, <1>11
  <2> QED
    BY <2>5, <2>6 DEF BalanceInv
<1> QED
  BY <1>1, <1>3, <1>4, <1>11, <1>12, <1>13, <1>14, OnePlanChanges

\* A cancellation: what is left is forfeited.
LEMMA CancelStep ==
  ASSUME PlansInv, NEW s \in Subscriptions, CancelSubscription(s)
  PROVE  PlansInv'
<1> DEFINE k == subscription[s]
           g == Cancelled(k)
           b == [account[s] EXCEPT !.whole = FALSE]
<1>1. /\ k # None /\ UNCHANGED <<pauseConfig, now>>
      /\ subscription' = [subscription EXCEPT ![s] = g] /\ account' = [account EXCEPT ![s] = b]
  BY DEF CancelSubscription, Forfeit
<1>2. /\ k \in Plans /\ account[s] \in Balances /\ now \in Nat
      /\ HistoryInv(k) /\ TimesInv(k) /\ BalanceInv(k, account[s])
  BY <1>1, PlanFacts
<1>3. b \in Balances /\ b.bought = account[s].bought /\ b.used = account[s].used /\ ~b.whole
  BY <1>2 DEF Balances
<1> HIDE DEF k
<1>4. /\ g \in Plans /\ g.status = "Inactive" /\ g.pausedAt = None
      /\ g.pauseCount = k.pauseCount /\ g.totalPaused = k.totalPaused
      /\ g.lastResumedAt = k.lastResumedAt /\ g.expiresAt = k.expiresAt /\ g.history = k.history
  BY <1>2 DEF Cancelled, Plans
<1> HIDE DEF g, b
<1>5. HistoryInv(g)
  BY <1>2, <1>4, HistoryLeft
<1>6. TimesInv(g)
  BY <1>2, <1>4 DEF TimesInv
<1>7. BalanceInv(g, b)
  <2>1. k.status = "Paused" => k.pausedAt \in Nat /\ k.pausedAt <= now
    BY <1>2, PlanFields DEF TimesInv
  <2>2. TimeLeft(g) <= TimeLeft(k) /\ TimeLeft(g) \in Nat /\ TimeLeft(k) \in Nat
    BY <2>1, <1>2, <1>4, PlanFields DEF TimeLeft
  <2>3. /\ account[s].used + TimeLeft(k) <= account[s].bought
        /\ account[s].used \in Nat /\ account[s].bought \in Nat
    BY <1>2 DEF BalanceInv, Balances
  <2>4. b.used + TimeLeft(g) <= b.bought
    BY <2>2, <2>3, <1>3
  <2> QED
    BY <2>4, <1>3 DEF BalanceInv
<1> QED
  BY <1>1, <1>3, <1>4, <1>5, <1>6, <1>7, OnePlanChanges

\* A renewal.
LEMMA PlanRenewStep ==
  ASSUME PlansInv, NEW s \in Subscriptions, NEW d \in Durations, RenewSubscription(s, d)
  PROVE  PlansInv'
<1> DEFINE k == subscription[s]
           g == RenewedPlan(k, d)
           b == [account[s] EXCEPT !.bought = account[s].bought + d]
<1>1. /\ k # None /\ k.status # "Paused" /\ SubscriptionBase(k) + d <= MaxExpiresAt
      /\ UNCHANGED <<pauseConfig, now>>
      /\ subscription' = [subscription EXCEPT ![s] = g] /\ account' = [account EXCEPT ![s] = b]
  BY DEF RenewSubscription, Buy
<1>2. /\ k \in Plans /\ account[s] \in Balances /\ now \in Nat /\ d \in Nat
      /\ HistoryInv(k) /\ TimesInv(k) /\ BalanceInv(k, account[s])
  BY <1>1, PlanFacts, SubscriptionsAssumption
<1> HIDE DEF k
<1>3. /\ SubscriptionBase(k) \in Nat
      /\ SubscriptionBase(k) = IF k.expiresAt > now THEN k.expiresAt ELSE now
      /\ SubscriptionBase(k) + d \in Nat
  <2>1. k.expiresAt \in Nat
    BY <1>2, PlanFields
  <2>2. SubscriptionBase(k) = IF k.expiresAt > now THEN k.expiresAt ELSE now
    BY <2>1, <1>2, LaterOfTwo DEF SubscriptionBase
  <2> QED
    BY <2>1, <2>2, <1>2
<1>4. account[s].bought \in Nat /\ account[s].used \in Nat /\ account[s].bought + d \in Nat
  BY <1>2 DEF Balances
<1>5. /\ b \in Balances /\ b.bought = account[s].bought + d /\ b.used = account[s].used
      /\ b.whole = account[s].whole
  BY <1>2, <1>4 DEF Balances
<1>6. /\ g \in Plans /\ g.status = "Active" /\ g.expiresAt = SubscriptionBase(k) + d
      /\ g.pausedAt = k.pausedAt /\ g.pauseCount = k.pauseCount /\ g.totalPaused = k.totalPaused
      /\ g.lastResumedAt = k.lastResumedAt /\ g.history = k.history
  BY <1>2, <1>3 DEF RenewedPlan, Plans
<1> HIDE DEF g, b
<1>7. HistoryInv(g)
  BY <1>2, <1>6, HistoryLeft
<1>8. TimesInv(g)
  BY <1>1, <1>2, <1>6 DEF TimesInv
<1>9. BalanceInv(g, b)
  <2>1. /\ TimeLeft(k) = SubscriptionBase(k) - now
        /\ TimeLeft(g) = SubscriptionBase(k) + d - now
    <3>1. TimeLeft(k) = SubscriptionBase(k) - now
      BY <1>1, <1>2, <1>3, PlanFields DEF TimeLeft
    <3>2. TimeLeft(g) = SubscriptionBase(k) + d - now
      BY <1>2, <1>3, <1>6, PlanFields DEF TimeLeft
    <3> QED
      BY <3>1, <3>2
  <2>2. TimeLeft(g) = TimeLeft(k) + d /\ TimeLeft(k) \in Nat
    <3>1. k.expiresAt \in Nat /\ d \in Nat
      BY <1>2, PlanFields
    <3>2. SubscriptionBase(k) \in Nat /\ SubscriptionBase(k) >= now
      BY <3>1, <1>2, <1>3
    <3> QED
      BY <2>1, <3>1, <3>2, <1>2
  <2>3. b.used + TimeLeft(g) <= b.bought
    BY <2>2, <1>2, <1>4, <1>5 DEF BalanceInv
  <2>4. b.whole => b.used + TimeLeft(g) = b.bought /\ g.status # "Inactive"
    BY <2>2, <1>2, <1>4, <1>5, <1>6 DEF BalanceInv
  <2> QED
    BY <2>3, <2>4 DEF BalanceInv
<1> QED
  BY <1>1, <1>5, <1>6, <1>7, <1>8, <1>9, OnePlanChanges

\* Time passes: what an active subscription uses is no longer left.
LEMMA UseStep ==
  ASSUME PlansInv, UseTime
  PROVE  PlansInv'
<1>1. now \in Nat /\ now' = now + 1 /\ UNCHANGED <<subscription, pauseConfig>>
  BY DEF PlansInv, PlansTypes, UseTime, Tick
<1>2. \A s \in Subscriptions : account'[s] =
         IF Running(s) THEN [account[s] EXCEPT !.used = account[s].used + 1] ELSE account[s]
  BY DEF UseTime
<1>3. \A s \in Subscriptions : account[s] \in Balances /\ account[s].used + 1 \in Nat
  BY DEF PlansInv, PlansTypes, Balances
<1>4. \A s \in Subscriptions :
         /\ account'[s] \in Balances /\ account'[s].bought = account[s].bought
         /\ account'[s].whole = account[s].whole
         /\ account'[s].used = IF Running(s) THEN account[s].used + 1 ELSE account[s].used
  BY <1>2, <1>3 DEF Balances
<1>5. account' \in [Subscriptions -> Balances]
  <2>1. account' = [s \in Subscriptions |-> account'[s]]
    BY DEF UseTime
  <2> QED
    BY <2>1, <1>4
<1>6. PlansTypes'
  BY <1>1, <1>5 DEF PlansInv, PlansTypes
<1>7. ASSUME NEW s \in Subscriptions, subscription[s] = None
      PROVE  account'[s].bought = 0 /\ account'[s].used = 0
  BY <1>4, <1>7 DEF PlansInv, PlanInv, Running
<1>8. ASSUME NEW s \in Subscriptions, subscription[s] # None
      PROVE  TimesInv(subscription[s])' /\ BalanceInv(subscription[s], account[s])'
  <2> DEFINE k == subscription[s]
  <2>1. /\ k \in Plans /\ account[s] \in Balances
        /\ TimesInv(k) /\ BalanceInv(k, account[s])
    BY <1>8, PlanFacts
  <2>2. TimesInv(k)'
    BY <2>1, <1>1, PlanFields DEF TimesInv
  <2>3. /\ account[s].bought \in Nat /\ account[s].used \in Nat
    BY <2>1 DEF Balances
  <2>4. Running(s) <=> k.status = "Active" /\ now < k.expiresAt
    BY <1>8 DEF Running
  <2>5. k' = k
    BY <1>1
  <2>6. k.status = "Paused" => k.pausedAt \in Nat
    BY <2>1, PlanFields DEF TimesInv
  <2> HIDE DEF k
  <2>7. TimeLeft(k) = IF k.status = "Paused" THEN (IF k.expiresAt > k.pausedAt THEN k.expiresAt - k.pausedAt ELSE 0)
                      ELSE (IF k.expiresAt > now THEN k.expiresAt - now ELSE 0)
    BY DEF TimeLeft
  <2>8. TimeLeft(k)' = IF k.status = "Paused" THEN (IF k.expiresAt > k.pausedAt THEN k.expiresAt - k.pausedAt ELSE 0)
                       ELSE (IF k.expiresAt > now + 1 THEN k.expiresAt - (now + 1) ELSE 0)
    BY <2>5, <1>1 DEF TimeLeft
  <2>9. /\ TimeLeft(k) \in Nat /\ TimeLeft(k)' \in Nat
        /\ (Running(s) => TimeLeft(k)' = TimeLeft(k) - 1)
        /\ (~Running(s) => TimeLeft(k)' <= TimeLeft(k))
        /\ (~Running(s) /\ k.status # "Inactive" => TimeLeft(k)' = TimeLeft(k))
    BY <2>1, <2>4, <2>6, <2>7, <2>8, <1>1, PlanFields
  <2>10. account'[s].used + TimeLeft(k)' <= account'[s].bought
    BY <2>1, <2>3, <2>9, <1>4 DEF BalanceInv
  <2>11. account'[s].whole => account'[s].used + TimeLeft(k)' = account'[s].bought /\ k.status # "Inactive"
    BY <2>1, <2>3, <2>9, <1>4 DEF BalanceInv
  <2>12. BalanceInv(k, account[s])'
    BY <2>5, <2>10, <2>11 DEF BalanceInv
  <2> QED
    BY <2>2, <2>12 DEF k
<1> QED
  BY <1>1, <1>6, <1>7, <1>8 DEF PlansInv, PlanInv

\* Every step keeps the invariant.
LEMMA PlansStep == PlansInv /\ [SubscriptionsNext]_subscriptionVars => PlansInv'
<1> SUFFICES ASSUME PlansInv, [SubscriptionsNext]_subscriptionVars PROVE PlansInv'
  OBVIOUS
<1>1. ASSUME NEW config \in PauseConfigs, SetPauseConfig(config) PROVE PlansInv'
  BY <1>1 DEF SetPauseConfig, PlansInv, PlansTypes, Configs, PlanInv, TimesInv, BalanceInv, TimeLeft
<1>2. CASE UNCHANGED subscriptionVars
  BY <1>2 DEF subscriptionVars, PlansInv, PlansTypes, PlanInv, TimesInv, BalanceInv, TimeLeft
<1> QED
  BY <1>1, <1>2, CreateStep, PlanRenewStep, PauseStep, ResumeStep, CancelStep, UseStep
     DEF SubscriptionsNext

\* The invariant says what the property says.
LEMMA PlansInvConsistent == PlansInv => PausesConsistent
<1> SUFFICES ASSUME PlansInv, NEW s \in Subscriptions, subscription[s] # None
             PROVE  LET k == subscription[s] IN
                    /\ k \in Plans /\ k.expiresAt <= MaxExpiresAt
                    /\ k.lastResumedAt <= now /\ k.totalPaused <= now
                    /\ k.pausedAt # None => k.pausedAt <= now
                    /\ k.status = "Paused" <=> k.pausedAt # None
                    /\ account[s].used + TimeLeft(k) <= account[s].bought
                    /\ account[s].whole => account[s].used + TimeLeft(k) = account[s].bought
                    /\ Explained(k) /\ WithinLimits(k.history)
  BY DEF PausesConsistent, SubscriptionsTypeOK, TimeIsConserved
<1> DEFINE k == subscription[s]
<1>1. k \in Plans /\ now \in Nat /\ HistoryInv(k) /\ TimesInv(k) /\ BalanceInv(k, account[s])
  BY PlanFacts
<1>2. k.totalPaused \in Nat /\ k.lastResumedAt \in Nat
  BY <1>1, PlanFields
<1> HIDE DEF k
<1>3. k.totalPaused <= now
  BY <1>1, <1>2 DEF TimesInv
<1> QED
  BY <1>1, <1>3 DEF HistoryInv, TimesInv, BalanceInv, k

\* Subscriptions account for every second that was paid for, for their pauses
\* and for the limits of these (manage_hub/src/subscription.rs), however
\* pauses, resumptions, cancellations, renewals and configurations follow
\* each other.
THEOREM PausesAgree == SubscriptionsSpec => []PausesConsistent
<1>1. SubscriptionsInit => PlansInv
  BY PlansStart
<1>2. PlansInv /\ [SubscriptionsNext]_subscriptionVars => PlansInv'
  BY PlansStep
<1>3. PlansInv => PausesConsistent
  BY PlansInvConsistent
<1> QED
  BY <1>1, <1>2, <1>3, PTL DEF SubscriptionsSpec

-----------------------------------------------------------------------------
\* Prices

\* A plan is in a tier that has prices.
PricingInv ==
    /\ now \in Nat
    /\ price \in [TierIds -> PriceRecords \cup {None}]
    /\ plan # None => plan \in PlanRecords /\ price[plan.tier] # None

\* Products of numbers are numbers, and keep the order.
LEMMA Products ==
  ASSUME NEW r \in Nat, NEW x \in Int, NEW y \in Int, x <= y
  PROVE  r * x \in Int /\ r * y \in Int /\ r * x <= r * y
<1>1. r * (y - x) = r * y - r * x /\ r * x \in Int /\ r * y \in Int
  OBVIOUS
<1>2. \A d \in Nat : r * d >= 0
  OBVIOUS
<1>3. r * (y - x) >= 0
  BY <1>2
<1> QED
  BY <1>1, <1>3

\* The larger price has the larger price of a day.
LEMMA DailyMonotone ==
  ASSUME NEW p \in Nat, NEW q \in Nat, NEW c \in Nat \ {0}, q <= p
  PROVE  q \div c <= p \div c
<1> DEFINE a == p \div c
           b == q \div c
<1>1. /\ a \in Nat /\ p % c \in 0..(c - 1) /\ p = c * a + (p % c)
      /\ b \in Nat /\ q % c \in 0..(c - 1) /\ q = c * b + (q % c)
  BY Division
<1> HIDE DEF a, b
<1>2. ASSUME a < b PROVE FALSE
  <2>1. a + 1 <= b /\ a + 1 \in Int /\ b \in Int /\ c \in Nat
    BY <1>1, <1>2
  <2>2. c * (a + 1) <= c * b
    BY <2>1, Products
  <2>3. c * (a + 1) = c * a + c /\ c * a \in Nat /\ c * b \in Nat
    BY <1>1
  <2>4. p % c \in Nat /\ p % c < c /\ q % c \in Nat
    BY <1>1
  <2> HIDE DEF a, b
  <2> QED
    BY <2>2, <2>3, <2>4, <1>1
<1> QED
  BY <1>1, <1>2 DEF a, b

\* The difference of two quotients, times what was divided by, misses the
\* difference of the prices by less than that; in proportion to r.
LEMMA DifferenceInProportion ==
  ASSUME NEW p \in Nat, NEW q \in Nat, NEW c \in Nat \ {0}, NEW r \in Nat
  PROVE  LET n == (p \div c) * r - (q \div c) * r IN
         /\ n \in Int
         /\ n * c - (p - q) * r <= r * (c - 1) /\ (p - q) * r - n * c <= r * (c - 1)
<1> DEFINE a == p \div c
           b == q \div c
           u == p % c
           v == q % c
           n == a * r - b * r
<1>1. /\ a \in Nat /\ u \in 0..(c - 1) /\ p = c * a + u
      /\ b \in Nat /\ v \in 0..(c - 1) /\ q = c * b + v
  BY Division
<1> HIDE DEF a, b, u, v
<1>2. /\ u - v \in Int /\ v - u \in Int /\ c - 1 \in Int
      /\ u - v <= c - 1 /\ v - u <= c - 1
  BY <1>1
<1>3. r * (v - u) <= r * (c - 1) /\ r * (u - v) <= r * (c - 1) /\ r * (c - 1) \in Int
  BY <1>2, Products
<1>4. n \in Int /\ n * c - (p - q) * r = r * (v - u) /\ (p - q) * r - n * c = r * (u - v)
  <2>1. a * r \in Nat /\ b * r \in Nat
    BY <1>1
  <2>2. n * c = (a * r) * c - (b * r) * c
    BY <2>1
  <2>3. (p - q) * r = ((c * a) * r - (c * b) * r) + (u * r - v * r)
    BY <1>1
  <2>4. (c * a) * r = (a * r) * c /\ (c * b) * r = (b * r) * c
    BY <1>1
  <2>5. r * (v - u) = v * r - u * r /\ r * (u - v) = u * r - v * r
    BY <1>1
  <2>6. /\ (a * r) * c \in Nat /\ (b * r) * c \in Nat /\ u * r \in Nat /\ v * r \in Nat
    BY <1>1, <2>1
  <2> QED
    BY <2>1, <2>2, <2>3, <2>4, <2>5, <2>6
<1> QED
  BY <1>3, <1>4 DEF a, b

\* The rest of what QuoteIsFair says, for two prices.
LEMMA QuoteBounds ==
  ASSUME NEW p \in Nat, NEW q \in Nat, NEW c \in Nat \ {0}, NEW r \in Nat
  PROVE  LET n == (p \div c) * r - (q \div c) * r IN
         /\ n * (p - q) >= 0
         /\ r <= c => n <= p /\ -n <= q
<1> DEFINE a == p \div c
           b == q \div c
           n == a * r - b * r
<1>1. /\ a \in Nat /\ p % c \in 0..(c - 1) /\ p = c * a + (p % c)
      /\ b \in Nat /\ q % c \in 0..(c - 1) /\ q = c * b + (q % c)
  BY Division
<1>2. (q <= p => b <= a) /\ (p <= q => a <= b)
  BY DailyMonotone
<1> HIDE DEF a, b
<1>3. a * r = r * a /\ b * r = r * b /\ a * r \in Nat /\ b * r \in Nat
  BY <1>1
<1>4. \A x, y \in Nat : x <= y => y - x \in Nat /\ -(x - y) \in Nat
  OBVIOUS
<1>5. q <= p => n \in Nat
  <2> SUFFICES ASSUME q <= p PROVE n \in Nat
    OBVIOUS
  <2>1. r * b <= r * a
    BY <1>1, <1>2, Products
  <2>2. b * r <= a * r
    BY <2>1, <1>3
  <2> QED
    BY <2>2, <1>3, <1>4
<1>6. p <= q => -n \in Nat
  <2> SUFFICES ASSUME p <= q PROVE -n \in Nat
    OBVIOUS
  <2>1. r * a <= r * b
    BY <1>1, <1>2, Products
  <2>2. a * r <= b * r
    BY <2>1, <1>3
  <2> QED
    BY <2>2, <1>3, <1>4
<1>7. n \in Int
  BY <1>3
<1>8. n * (p - q) >= 0
  <2> HIDE DEF n
  <2>1. \A x, y \in Nat : x * y >= 0
    OBVIOUS
  <2>2. CASE q <= p
    <3>1. n \in Nat /\ p - q \in Nat
      BY <2>2, <1>5
    <3> QED
      BY <3>1, <2>1
  <2>3. CASE p <= q
    <3>1. -n \in Nat /\ q - p \in Nat /\ (-n) * (q - p) = n * (p - q)
      BY <2>3, <1>6, <1>7
    <3> QED
      BY <3>1, <2>1
  <2> QED
    BY <2>2, <2>3
<1>9. ASSUME r <= c PROVE a * r <= p /\ b * r <= q
  <2>1. /\ a * r <= a * c /\ a * c \in Int
        /\ b * r <= b * c /\ b * c \in Int
    BY <1>1, <1>9, Products
  <2>2. a * c = c * a /\ b * c = c * b
    BY <1>1
  <2> QED
    BY <2>1, <2>2, <1>1, <1>3
<1>10. r <= c => n <= p /\ -n <= q
  BY <1>3, <1>9
<1> QED
  BY <1>8, <1>10 DEF a, b

\* What is left of a term in days.
LEMMA DaysType ==
  ASSUME PricingInv, plan # None, plan.expiresAt >= now
  PROVE  /\ RemainingDays \in Nat
         /\ plan.expiresAt - now < Day => RemainingDays = 0
<1>1. plan.expiresAt \in Nat /\ now \in Nat /\ Day \in Nat \ {0}
  BY PricingAssumption DEF PricingInv, PlanRecords
<1> DEFINE x == plan.expiresAt - now
<1>2. x \in Nat
  BY <1>1
<1> HIDE DEF x
<1>3. x \div Day \in Nat /\ x % Day \in 0..(Day - 1) /\ x = Day * (x \div Day) + (x % Day)
  BY <1>1, <1>2, Division
<1>4. x < Day => x \div Day = 0
  BY <1>1, <1>2
<1> QED
  BY <1>3, <1>4 DEF RemainingDays, x

\* Quotes are fair whenever two tiers have prices.
LEMMA Fair ==
  ASSUME PricingInv, plan # None, NEW to \in TierIds, price[to] # None
  PROVE  QuoteIsFair(to)
<1> DEFINE from == plan.tier
           p == price[to].Monthly
           q == price[from].Monthly
           c == CycleDays(plan.cycle)
           r == RemainingDays
           n == (p \div c) * r - (q \div c) * r
<1>1. from \in TierIds /\ p \in Nat /\ q \in Nat /\ plan.expiresAt \in Nat /\ now \in Nat
  BY DEF PricingInv, PlanRecords, PriceRecords
<1>2. c \in Nat \ {0}
  BY PricingAssumption DEF CycleDays
<1>3. CASE plan.expiresAt <= now
  BY <1>3 DEF QuoteIsFair, CalculateProration
<1>4. CASE ~(plan.expiresAt <= now)
  <2>1. r \in Nat
    BY <1>1, <1>4, DaysType
  <2>2. CalculateProration(from, to) = n /\ CalculateProration(to, from) = (q \div c) * r - (p \div c) * r
    BY <1>4 DEF CalculateProration, ForRemaining
  <2> HIDE DEF from, p, q, c, r
  <2>3. /\ n \in Int
        /\ n * c - (p - q) * r <= r * (c - 1) /\ (p - q) * r - n * c <= r * (c - 1)
    BY <1>1, <1>2, <2>1, DifferenceInProportion
  <2>4. n * (p - q) >= 0 /\ (r <= c => n <= p /\ -n <= q)
    BY <1>1, <1>2, <2>1, QuoteBounds
  <2>5. (q \div c) * r - (p \div c) * r = -n
    <3>1. p \div c \in Nat /\ q \div c \in Nat
      BY <1>1, <1>2, Division
    <3>2. (p \div c) * r \in Nat /\ (q \div c) * r \in Nat
      BY <3>1, <2>1
    <3> QED
      BY <3>2
  <2> HIDE DEF n
  <2>6. AbsoluteValue(n * c - (p - q) * r) <= r * (c - 1)
    <3>1. n * c \in Int /\ (p - q) * r \in Int
      BY <1>1, <1>2, <2>1, <2>3
    <3>2. -(n * c - (p - q) * r) = (p - q) * r - n * c
      BY <3>1
    <3> QED
      BY <3>2, <2>3 DEF AbsoluteValue
  <2> QED
    BY <1>4, <2>2, <2>4, <2>5, <2>6 DEF QuoteIsFair, from, p, q, c, r
<1> QED
  BY <1>3, <1>4

\* An upgrade taken back is a downgrade.
LEMMA TakenBack ==
  ASSUME NEW from \in TierIds, NEW to \in TierIds
  PROVE  ChangeType(from, to) = "Upgrade" <=> ChangeType(to, from) = "Downgrade"
<1>1. Levels[from] \in Nat /\ Levels[to] \in Nat
  BY PricingAssumption
<1> QED
  BY <1>1 DEF ChangeType

\* Every step keeps the invariant.
LEMMA PricingStep == PricingInv /\ [PricingNext]_pricingVars => PricingInv'
<1> SUFFICES ASSUME PricingInv, [PricingNext]_pricingVars PROVE PricingInv'
  OBVIOUS
<1>1. ASSUME NEW t \in TierIds, NEW p \in Prices, NEW q \in Prices, SetPrice(t, p, q)
      PROVE  PricingInv'
  <2> DEFINE k == [Monthly |-> p, Annual |-> q]
  <2>1. k \in PriceRecords /\ price' = [price EXCEPT ![t] = k] /\ UNCHANGED <<plan, now>>
    BY <1>1, PricingAssumption DEF SetPrice, PriceRecords
  <2>2. k # None
    BY <2>1, PricingAssumption
  <2> HIDE DEF k
  <2> QED
    BY <2>1, <2>2 DEF PricingInv, PlanRecords
<1>2. ASSUME NEW k \in PlanRecords, plan' = k, price[k.tier] # None, UNCHANGED price, now' \in Nat
      PROVE  PricingInv'
  BY <1>2 DEF PricingInv
<1>3. \A c \in Cycles : CycleDays(c) * Day \in Nat
  BY PricingAssumption DEF CycleDays
<1>4. ASSUME NEW t \in TierIds, NEW c \in Cycles, NEW d \in Discounts, Subscribe(t, c, d)
      PROVE  PricingInv'
  <2>1. now + CycleDays(c) * Day \in Nat
    BY <1>3 DEF PricingInv
  <2> DEFINE k == [tier |-> t, cycle |-> c, active |-> TRUE, expiresAt |-> now + CycleDays(c) * Day]
  <2>2. k \in PlanRecords /\ k.tier = t
    BY <2>1 DEF PlanRecords
  <2>3. plan' = k /\ price[t] # None /\ UNCHANGED <<price, now>>
    BY <1>4 DEF Subscribe
  <2> HIDE DEF k
  <2> QED
    BY <2>2, <2>3, <1>2 DEF PricingInv
<1>5. ASSUME NEW c \in Cycles, RenewPlan(CycleDays(c) * Day)
      PROVE  PricingInv'
  <2> DEFINE base == IF plan.expiresAt > now THEN plan.expiresAt ELSE now
             e == base + CycleDays(c) * Day
             k == [plan EXCEPT !.expiresAt = e, !.active = TRUE]
  <2>1. plan \in PlanRecords /\ price[plan.tier] # None /\ now \in Nat /\ plan.expiresAt \in Nat
    BY <1>5 DEF RenewPlan, PricingInv, PlanRecords
  <2>2. e \in Nat
    BY <2>1, <1>3
  <2>3. plan' = k /\ UNCHANGED <<price, now>>
    BY <1>5 DEF RenewPlan
  <2> HIDE DEF e
  <2>4. k \in PlanRecords /\ k.tier = plan.tier
    BY <2>1, <2>2 DEF PlanRecords
  <2> HIDE DEF k
  <2> QED
    BY <2>1, <2>3, <2>4, <1>2
<1>6. CASE CancelPlan
  <2> DEFINE k == [plan EXCEPT !.active = FALSE]
  <2>1. plan \in PlanRecords /\ price[plan.tier] # None /\ now \in Nat
    BY <1>6 DEF CancelPlan, PricingInv
  <2>2. k \in PlanRecords /\ k.tier = plan.tier
    BY <2>1 DEF PlanRecords
  <2>3. plan' = k /\ UNCHANGED <<price, now>>
    BY <1>6 DEF CancelPlan
  <2> HIDE DEF k
  <2> QED
    BY <2>1, <2>2, <2>3, <1>2
<1>7. ASSUME NEW t \in TierIds, ChangeTier(t) PROVE PricingInv'
  <2> DEFINE k == [plan EXCEPT !.tier = t]
  <2>1. plan \in PlanRecords /\ price[t] # None /\ now \in Nat
    BY <1>7 DEF ChangeTier, PricingInv
  <2>2. k \in PlanRecords /\ k.tier = t
    BY <2>1 DEF PlanRecords
  <2>3. plan' = k /\ UNCHANGED <<price, now>>
    BY <1>7 DEF ChangeTier
  <2> HIDE DEF k
  <2> QED
    BY <2>1, <2>2, <2>3, <1>2
<1>8. CASE Tick /\ UNCHANGED pricingState
  BY <1>8 DEF Tick, pricingState, PricingInv
<1>9. CASE UNCHANGED pricingVars
  BY <1>9 DEF pricingVars, PricingInv
<1> QED
  BY <1>1, <1>4, <1>5, <1>6, <1>7, <1>8, <1>9 DEF PricingNext

\* The invariant says what the property says.
LEMMA PricingInvConsistent == PricingInv => PricingConsistent
<1> SUFFICES ASSUME PricingInv, plan # None PROVE PricingConsistent
  BY DEF PricingConsistent
<1>1. /\ plan \in PlanRecords /\ price[plan.tier] # None /\ plan.tier \in TierIds
      /\ plan.expiresAt \in Nat /\ now \in Nat
  BY DEF PricingInv, PlanRecords
<1>2. ASSUME NEW f \in Features, CheckFeatureAccess(f)
      PROVE  ~IsExpired /\ (plan.expiresAt - now < Day => DaysRemaining = 0)
  <2>1. plan.expiresAt >= now
    BY <1>2 DEF CheckFeatureAccess
  <2>2. ~IsExpired
    BY <2>1, <1>1 DEF IsExpired
  <2> QED
    BY <2>1, <2>2, DaysType DEF DaysRemaining
<1> QED
  BY <1>1, <1>2, Fair, TakenBack DEF PricingConsistent

\* What a change of tier costs is fair, and access is granted exactly in the
\* term (manage_hub/src/subscription.rs), whatever prices, cycles and terms.
THEOREM PricesAgree == PricingSpec => []PricingConsistent
<1>1. PricingInit => PricingInv
  BY DEF PricingInit, PricingInv
<1>2. PricingInv /\ [PricingNext]_pricingVars => PricingInv'
  BY PricingStep
<1>3. PricingInv => PricingConsistent
  BY PricingInvConsistent
<1> QED
  BY <1>1, <1>2, <1>3, PTL DEF PricingSpec
=============================================================================
