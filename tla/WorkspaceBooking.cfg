\* Slots of one or two hours over two hours; a rate change and a hold between
\* any two bookings.
SPECIFICATION Spec
CONSTANTS
    w1 = w1
    b1 = b1
    b2 = b2
    b3 = b3
    m1 = m1
    m2 = m2
    Administrator = Administrator
    None = None
    Hour = 1
    MaxTime = 2
    MaxU32 = 3
    Workspaces <- MCWorkspaces
    Bookings <- MCBookings
    Members <- MCMembers
    InitialBalance <- MCInitialBalance
    Capacities <- MCCapacities
    Rates <- MCRates
    SeatCounts <- MCSeatCounts
SYMMETRY MCSymmetry
INVARIANTS SeatsExplained MoneyExplained AvailabilityAgrees
CHECK_DEADLOCK FALSE
