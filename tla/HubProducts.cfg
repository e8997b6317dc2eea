CONSTANTS
    None = None
    t1 = t1
    t2 = t2
    s1 = s1
    s2 = s2
    a1 = a1
    a2 = a2
    Parts = {"terms", "subscriptions", "tiers", "staking", "metadata", "credits", "attendance", "pricing"}
    Accounts = {a1, a2}
    Tokens = {t1}
    Tiers = {"basic"}
    TierIds = {"basic", "pro"}
    Described = {t1, t2}
    MaxTime = 3
    Statuses = {"Inactive"}
    Expiries = {1}
    Month = 1
    Year = 2
    Grace = 1
    Notice = 1
    MaxRollbacks = 1
    PauseTimes = {1}
    MaxExpiry = 3
    MaxVersion = 3
    MaxRenewals = 2
    Subscriptions = {s1}
    Durations = {1, 3}
    PauseConfigs <- TestPauseConfigs
    DefaultPauseConfig <- OnePauseConfig
    MaxExpiresAt = 6
    MaxPauseHistory = 4
    Subscribers = {s1, s2}
    Codes = {"code"}
    PromoIds = {"first"}
    PromoWindows <- PromoFirstDay
    RedemptionLimits = {1}
    RequestIds = 2
    MaxSubscribers = 2
    StakeTiers = {"silver"}
    MinStake <- Shortest
    LockDuration <- Shortest
    RewardRate <- SameRate
    RewardScale = 1
    StakeAmounts = {1, 2}
    PenaltyScale = 2
    StakingConfigs <- TestStakingConfigs
    InitialBalance = 2
    InitialRewards = 2
    Attributes = {"desk"}
    Values = {1, 2}
    MaxAttributes = 1
    MaxMetadataVersion = 3
    Members = {a1, a2}
    EventIds = {1}
    Contracts = {s1, s2}
    IdLength <- SameLength
    Hour = 1
    Day = 2
    MaxLogs = 4
    Levels <- LevelOf
    Features = {"analytics"}
    Offers <- OffersOf
    Prices = {0, 5, 9}
    Discounts = {0, 50, 100}
    MonthDays = 2
    YearDays = 3
    MaxTerm = 12
    CreditAmounts = {1, 2}
    MaxSupply = 4
SPECIFICATION Spec
INVARIANTS PausesConsistent TiersConsistent LedgersConsistent AttendanceAddsUp PricingConsistent
PROPERTIES TermsKept StakesKept
CHECK_DEADLOCK FALSE
