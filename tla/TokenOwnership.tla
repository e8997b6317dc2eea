--------------------------- MODULE TokenOwnership ---------------------------
(***************************************************************************)
(* Who owns a membership token of contracts/manage_hub: issue, transfer,   *)
(* delegated transfer through allowances, and fractionalization into       *)
(* shares with their pending rewards.  Status and pauses belong to         *)
(* TokenTerms; here they are the two sets the guards read.  An action is   *)
(* an invocation that succeeds, since a failed one leaves no trace; a      *)
(* batch is a sequence of these, and royalties are only events.            *)
(***************************************************************************)
EXTENDS UnitSums

CONSTANTS
    Tokens,
    Accounts,       \* addresses, numbered in the order of a Soroban Map's keys
    Spenders,       \* the accounts owners may approve
    ShareCounts,    \* values passed as total_shares
    FractionSizes,  \* values passed as min_fraction_size
    Amounts,        \* values passed to approve, transfer_from and transfer_fraction
    RewardAmounts,  \* values passed to distribute_fraction_rewards
    MaxRewards,     \* bound on the rewards of one fractionalization
    LastMoment,     \* bound on the ledger timestamp
    Nil             \* no owner, no expiry

ASSUME AccountsAssumption ==
    Accounts \subseteq Nat /\ IsFiniteSet(Accounts) /\ Spenders \subseteq Accounts
ASSUME SharesAssumption ==
    ShareCounts \subseteq Int /\ FractionSizes \subseteq Int /\ Amounts \subseteq Int
ASSUME RewardsAssumption == RewardAmounts \subseteq Int /\ MaxRewards \in Nat
ASSUME TimeAssumption == LastMoment \in Nat
ASSUME NilAssumption == Nil \notin Accounts \cup Int

VARIABLES
    owner,        \* token.user, Nil before the token is issued
    active,       \* tokens with status Active
    paused,       \* tokens paused by themselves or with the contract
    allowance,    \* DataKey Allowance(token, owner, spender); amount 0 is no entry
    info,         \* FractionInfo: total and min, NotFractionalized when absent
    shares,       \* FractionShares; 0 is no entry
    pending,      \* PendingRewards; 0 is no entry
    distributed,  \* rewards of the current fractionalization, kept for RewardsConserved
    time          \* ledger timestamp

tokenVars == <<owner, active, paused, allowance, info, shares, pending, distributed, time>>
fractions == <<info, shares, pending, distributed>>

Moments == 0..LastMoment
NotFractionalized == [total |-> 0, min |-> 0]
NoAllowance == [amount |-> 0, expires_at |-> Nil]
NoShares == [a \in Accounts |-> 0]

Fractionalized(t) == info[t] # NotFractionalized
Holders(t) == {a \in Accounts : shares[t][a] > 0}

OwnershipInit ==
    /\ owner = [t \in Tokens |-> Nil]
    /\ active = {} /\ paused = {} /\ time = 0
    /\ allowance = [t \in Tokens |->
          [o \in Accounts |-> [s \in Spenders |-> NoAllowance]]]
    /\ info = [t \in Tokens |-> NotFractionalized]
    /\ shares = [t \in Tokens |-> NoShares]
    /\ pending = [t \in Tokens |-> NoShares]
    /\ distributed = [t \in Tokens |-> 0]

-----------------------------------------------------------------------------
\* Tokens and allowances

IssueToken(t, user) ==
    /\ owner[t] = Nil /\ t \notin paused
    /\ owner' = [owner EXCEPT ![t] = user]
    /\ active' = active \cup {t}
    /\ UNCHANGED <<paused, allowance, fractions, time>>

\* Variant: fractionalized tokens are not excepted.
MovableThoughFractionalized(t) == owner[t] # Nil /\ t \in active \ paused

\* The checks of transfer_token, approve and transfer_from.
Movable(t) ==
    /\ owner[t] # Nil
    /\ t \in active \ paused
    /\ ~Fractionalized(t)

\* Signed by the owner.
TransferToken(t, to) ==
    /\ Movable(t)
    /\ owner' = [owner EXCEPT ![t] = to]
    /\ UNCHANGED <<active, paused, allowance, fractions, time>>

SetAllowance(t, o, s, a) == allowance' = [allowance EXCEPT ![t][o][s] = a]

Approve(t, spender, amount, expiry) ==
    /\ Movable(t) /\ spender # owner[t] /\ amount > 0
    /\ expiry # Nil => expiry > time
    /\ SetAllowance(t, owner[t], spender, [amount |-> amount, expires_at |-> expiry])
    /\ UNCHANGED <<owner, active, paused, fractions, time>>

\* Variant: an allowance is good through its last second.
ExpiredAfter(a) == a.expires_at # Nil /\ time > a.expires_at

Expired(a) == a.expires_at # Nil /\ time >= a.expires_at

Covers(a, amount) == a.amount >= amount

Spent(a, amount) ==
    IF a.amount = amount THEN NoAllowance ELSE [a EXCEPT !.amount = @ - amount]

\* Signed by the spender; the allowance is the one of the current owner.
TransferFrom(t, to, spender, amount) ==
    LET a == allowance[t][owner[t]][spender] IN
    /\ Movable(t) /\ amount > 0
    /\ Covers(a, amount) /\ ~Expired(a)
    /\ SetAllowance(t, owner[t], spender, Spent(a, amount))
    /\ owner' = [owner EXCEPT ![t] = to]
    /\ UNCHANGED <<active, paused, fractions, time>>

\* Possible in any status, and while the token is fractionalized.
RevokeAllowance(t, spender) ==
    /\ owner[t] # Nil /\ t \notin paused
    /\ SetAllowance(t, owner[t], spender, NoAllowance)
    /\ UNCHANGED <<owner, active, paused, fractions, time>>

\* The getter drops an entry that has expired, and answers None for an entry
\* of an account that is not the owner.
GetAllowance(t, spender) ==
    /\ owner[t] # Nil /\ Expired(allowance[t][owner[t]][spender])
    /\ SetAllowance(t, owner[t], spender, NoAllowance)
    /\ UNCHANGED <<owner, active, paused, fractions, time>>

-----------------------------------------------------------------------------
\* Fractions; none of these entry points looks at the pauses

FractionalizeToken(t, total, min) ==
    /\ total > 1 /\ min > 0 /\ min <= total /\ total % min = 0
    /\ ~Fractionalized(t) /\ owner[t] # Nil /\ t \in active
    /\ info' = [info EXCEPT ![t] = [total |-> total, min |-> min]]
    /\ shares' = [shares EXCEPT ![t] = [NoShares EXCEPT ![owner[t]] = total]]
    /\ UNCHANGED <<owner, active, paused, allowance, pending, distributed, time>>

\* Variant: the receiver's shares are read before the sender's are written.
MovedFromSnapshot(s, from, to, amount) ==
    [s EXCEPT ![from] = s[from] - amount, ![to] = s[to] + amount]

\* The receiver's shares are read from the map after the sender's are written:
\* a transfer to oneself changes nothing.
Moved(s, from, to, amount) ==
    [[s EXCEPT ![from] = @ - amount] EXCEPT ![to] = @ + amount]

WholeFractions(t, from, amount) ==
    /\ amount >= info[t].min /\ amount % info[t].min = 0
    /\ \/ shares[t][from] - amount = 0
       \/ shares[t][from] - amount >= info[t].min

TransferFraction(t, from, to, amount) ==
    /\ Fractionalized(t) /\ amount > 0 /\ WholeFractions(t, from, amount)
    /\ shares[t][from] >= amount
    /\ shares' = [shares EXCEPT ![t] = Moved(shares[t], from, to, amount)]
    /\ UNCHANGED <<owner, active, paused, allowance, info, pending, distributed, time>>

HoldsAll(t, holder) == shares[t][holder] = info[t].total

\* Signed by the holder of all shares; rewards still pending are dropped.
RecombineFractions(t, holder) ==
    /\ Fractionalized(t) /\ HoldsAll(t, holder)
    /\ owner' = [owner EXCEPT ![t] = holder]
    /\ info' = [info EXCEPT ![t] = NotFractionalized]
    /\ shares' = [shares EXCEPT ![t] = NoShares]
    /\ pending' = [pending EXCEPT ![t] = NoShares]
    /\ distributed' = [distributed EXCEPT ![t] = 0]
    /\ UNCHANGED <<active, paused, allowance, time>>

\* A holder's part, rounded down.
Part(t, amount, a) == (amount * shares[t][a]) \div info[t].total

\* Variant: the remainder stays with the contract.
RoundedParts(t, amount) == [a \in Accounts |-> Part(t, amount, a)]

\* The remainder of the divisions goes to the first key of the shares.
Parts(t, amount) ==
    LET rounded == [a \in Accounts |-> Part(t, amount, a)]
        first == CHOOSE a \in Holders(t) : \A b \in Holders(t) : a <= b
        remainder == amount - Total(Accounts, rounded)
    IN IF remainder > 0 THEN [rounded EXCEPT ![first] = @ + remainder] ELSE rounded

DistributeFractionRewards(t, amount) ==
    /\ amount > 0 /\ Fractionalized(t)
    /\ distributed[t] + amount <= MaxRewards
    /\ pending' = [pending EXCEPT ![t] =
          [a \in Accounts |-> pending[t][a] + Parts(t, amount)[a]]]
    /\ distributed' = [distributed EXCEPT ![t] = @ + amount]
    /\ UNCHANGED <<owner, active, paused, allowance, info, shares, time>>

-----------------------------------------------------------------------------
\* What TokenTerms and the ledger do

StatusChanges(t) ==
    /\ owner[t] # Nil
    /\ active' = IF t \in active THEN active \ {t} ELSE active \cup {t}
    /\ UNCHANGED <<owner, paused, allowance, fractions, time>>

PauseChanges(ts) ==
    /\ ts # paused
    /\ paused' = ts
    /\ UNCHANGED <<owner, active, allowance, fractions, time>>

TimePasses ==
    /\ time < LastMoment
    /\ time' = time + 1
    /\ UNCHANGED <<owner, active, paused, allowance, fractions>>

TokenStep(t) ==
    \/ \E a \in Accounts :
          \/ IssueToken(t, a) \/ TransferToken(t, a) \/ RecombineFractions(t, a)
    \/ \E s \in Spenders :
          \/ RevokeAllowance(t, s) \/ GetAllowance(t, s)
          \/ \E n \in Amounts, e \in Moments \cup {Nil} : Approve(t, s, n, e)
          \/ \E n \in Amounts, to \in Accounts : TransferFrom(t, to, s, n)
    \/ \E from, to \in Accounts, n \in Amounts : TransferFraction(t, from, to, n)
    \/ \E total \in ShareCounts, min \in FractionSizes : FractionalizeToken(t, total, min)
    \/ \E n \in RewardAmounts : DistributeFractionRewards(t, n)
    \/ StatusChanges(t)

OwnershipNext ==
    \/ \E t \in Tokens : TokenStep(t)
    \/ \E ts \in SUBSET Tokens : PauseChanges(ts)
    \/ TimePasses

OwnershipSpec == OwnershipInit /\ [][OwnershipNext]_tokenVars

-----------------------------------------------------------------------------
Allowances ==
    [amount : Nat, expires_at : Moments \cup {Nil}]

\* Types, and that only issued tokens are active or fractionalized.
OwnershipTypeOK ==
    /\ owner \in [Tokens -> Accounts \cup {Nil}]
    /\ active \subseteq Tokens /\ paused \subseteq Tokens /\ time \in Moments
    /\ allowance \in [Tokens -> [Accounts -> [Spenders -> Allowances]]]
    /\ info \in [Tokens -> {NotFractionalized} \cup [total : Nat \ {0}, min : Nat \ {0}]]
    /\ shares \in [Tokens -> [Accounts -> Nat]]
    /\ pending \in [Tokens -> [Accounts -> Nat]]
    /\ distributed \in [Tokens -> 0..MaxRewards]
    /\ \A t \in Tokens : owner[t] = Nil => t \notin active /\ ~Fractionalized(t)

\* Shares are neither made nor lost by transfers, transfers to oneself
\* included: the holdings of a token add up to its total_shares.
SharesAddUp == \A t \in Tokens : Total(Accounts, shares[t]) = info[t].total

\* Every holding consists of whole fractions, so that a holder can always
\* transfer everything it has and the token can be recombined.
HoldingsWhole ==
    \A t \in Tokens : Fractionalized(t) =>
        \A a \in Accounts : shares[t][a] % info[t].min = 0

\* Shares add up and are held in whole fractions: see the two parts.
FractionsAddUp == SharesAddUp /\ HoldingsWhole

\* While a token is fractionalized nobody moves it past the share holders:
\* its owner changes only when the holder of all shares recombines it.
OwnerFixedWhileFractionalized ==
    [][\A t \in Tokens : (Fractionalized(t) /\ owner'[t] # owner[t]) =>
          /\ shares[t][owner'[t]] = info[t].total
          /\ ~Fractionalized(t)']_tokenVars

\* Rounding loses nothing: the pending rewards of a token are what was
\* distributed since it was fractionalized.
RewardsConserved ==
    \A t \in Tokens : Total(Accounts, pending[t]) = distributed[t]

\* The owner of a token that is not fractionalized changes by its own
\* signature, which touches no allowance, or at the cost of an unexpired
\* allowance the owner of that moment gave, and of no other.
DelegationsAreConsented ==
    [][\A t \in Tokens : LET given == allowance[t][owner[t]] IN
          (owner[t] # Nil /\ ~Fractionalized(t) /\ owner'[t] # owner[t]
              /\ allowance' # allowance)
          => \E s \in Spenders :
                /\ given[s].expires_at # Nil => time < given[s].expires_at
                /\ allowance'[t][owner[t]][s].amount < given[s].amount
                /\ allowance' = [allowance EXCEPT ![t][owner[t]][s] =
                                    allowance'[t][owner[t]][s]]]_tokenVars
=============================================================================
