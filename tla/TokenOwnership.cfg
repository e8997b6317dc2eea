CONSTANTS
    Nil = Nil
    Tokens = {t1}
    Accounts = {1, 2, 3}
    Spenders = {3}
    ShareCounts = {1, 3, 4}
    FractionSizes = {1, 2}
    Amounts = {1, 2, 3}
    RewardAmounts = {1, 2}
    MaxRewards = 3
    LastMoment = 1
SPECIFICATION OwnershipSpec
INVARIANTS FractionsAddUp RewardsConserved
PROPERTIES OwnerFixedWhileFractionalized DelegationsAreConsented
CHECK_DEADLOCK FALSE
