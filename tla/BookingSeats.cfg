CONSTANTS
    None = None
    b1 = b1
    b2 = b2
    p1 = p1
    p2 = p2
    u1 = u1
    w1 = w1
    w2 = w2
    Bookings = {b1, b2}
    Payments = {p1}
    StartDate <- SeatsStart
    EndDate <- SeatsEnd
    SeatCount <- SeatsCount
    Owner <- SeatsOwner
    PlanOf <- SeatsPlan
    BookingOf <- OnePaymentOf
    Users = {u1}
    Plans = {"daily", "monthly"}
    LongTermPlans = {"monthly"}
    Workers = {w1, w2}
    InitialSeats = 2
    SeatChoices = {2, 3}
    MaxRefundCalls = 1
SPECIFICATION Spec
INVARIANT CheckedSeatsStillFree
PROPERTY SeatsAdmittedAtomically
PROPERTY ConfirmedNeverExpires
CHECK_DEADLOCK FALSE
