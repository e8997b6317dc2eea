CONSTANTS
    None = None
    b1 = b1
    b2 = b2
    p1 = p1
    p2 = p2
    u1 = u1
    w1 = w1
    w2 = w2
    Bookings = {b1}
    Payments = {p1, p2}
    StartDate <- PaymentsDay
    EndDate <- PaymentsDay
    SeatCount <- PaymentsDay
    Owner <- PaymentsOwner
    PlanOf <- PaymentsPlan
    BookingOf <- PaymentsBookingOf
    Users = {u1}
    Plans = {"daily", "monthly"}
    LongTermPlans = {"monthly"}
    Workers = {w1, w2}
    InitialSeats = 2
    SeatChoices = {2}
    MaxRefundCalls = 1
SPECIFICATION Spec
SYMMETRY WorkerSymmetry
INVARIANT MoneyMovesOnce
INVARIANT OnlyHonouredIsFulfilled
PROPERTY SettledNeverReverts
CHECK_DEADLOCK FALSE
