--------------------------- MODULE WorkspaceBooking --------------------------
(***************************************************************************)
(* The Soroban contract contracts/workspace_booking: workspaces with a     *)
(* seat capacity and an hourly rate, and prepaid bookings of time slots    *)
(* [start_time, end_time).  An invocation is atomic, and one that fails or *)
(* panics leaves no trace: an action is an invocation that succeeds.       *)
(***************************************************************************)
EXTENDS UnitSums, SequencesExt

CONSTANTS
    Workspaces, Bookings,   \* ids callers may choose
    Members,
    Administrator,          \* the address initialize was called with
    InitialBalance,         \* [Members -> Nat], payment tokens held outside
    Capacities,             \* capacities passed to register_workspace
    Rates,                  \* hourly rates passed to the admin entry points
    SeatCounts,             \* seat counts passed to book_workspace
    Hour,                   \* seconds per billed hour, 3600 in the contract
    MaxTime,                \* bound on timestamps
    MaxU32,                 \* largest u32
    None

ASSUME BookingsFinite == IsFiniteSet(Bookings)
ASSUME InitialBalanceAssumption == InitialBalance \in [Members -> Nat]
ASSUME U32Assumption ==
    MaxU32 \in Nat /\ Capacities \subseteq 0..MaxU32 /\ SeatCounts \subseteq 0..MaxU32
ASSUME RatesAssumption == Rates \subseteq Nat
ASSUME HourAssumption == Hour \in Nat \ {0} /\ MaxTime \in Nat
ASSUME BookingNoneAssumption == None \notin Workspaces \cup Members

VARIABLES
    now,               \* ledger timestamp
    workspace,         \* records by id, Unregistered before register_workspace
    booking,           \* records by id, Unbooked before book_workspace
    balance,           \* payment tokens of the members
    vault,             \* payment tokens of the contract
    workspaceBookings, \* DataKey::WorkspaceBookings
    memberBookings     \* DataKey::MemberBookings

vars == <<now, workspace, booking, balance, vault, workspaceBookings, memberBookings>>

Times == 0..MaxTime
Workspace == [capacity : 1..MaxU32, hourly_rate : Nat \ {0}, available : BOOLEAN]
Unregistered == [capacity |-> 0, hourly_rate |-> 0, available |-> FALSE]
BookingStatus == {"Active", "Completed", "Cancelled"}
Booking == [status : BookingStatus, workspace_id : Workspaces, member : Members,
            start_time : Times, end_time : Times, seat_count : 1..MaxU32,
            amount_paid : Nat]
Unbooked == [status |-> "unbooked", workspace_id |-> None, member |-> None,
             start_time |-> 0, end_time |-> 0, seat_count |-> 0, amount_paid |-> 0]

\* After initialize.
Init ==
    /\ now = 0
    /\ workspace = [w \in Workspaces |-> Unregistered]
    /\ booking = [b \in Bookings |-> Unbooked]
    /\ balance = InitialBalance /\ vault = 0
    /\ workspaceBookings = [w \in Workspaces |-> <<>>]
    /\ memberBookings = [m \in Members |-> <<>>]

Registered(w) == workspace[w] # Unregistered

RegisterWorkspace(w, capacity, rate) ==
    /\ capacity # 0 /\ rate # 0 /\ ~Registered(w)
    /\ workspace' = [workspace EXCEPT ![w] =
         [capacity |-> capacity, hourly_rate |-> rate, available |-> TRUE]]
    /\ UNCHANGED <<now, booking, balance, vault, workspaceBookings, memberBookings>>

SetWorkspaceAvailability(w, isAvailable) ==
    /\ Registered(w)
    /\ workspace' = [workspace EXCEPT ![w] = [@ EXCEPT !.available = isAvailable]]
    /\ UNCHANGED <<now, booking, balance, vault, workspaceBookings, memberBookings>>

SetWorkspaceRate(w, rate) ==
    /\ rate # 0 /\ Registered(w)
    /\ workspace' = [workspace EXCEPT ![w] = [@ EXCEPT !.hourly_rate = rate]]
    /\ UNCHANGED <<now, booking, balance, vault, workspaceBookings, memberBookings>>

\* u32::saturating_add.
Saturated(n) == IF n > MaxU32 THEN MaxU32 ELSE n

Seats == [b \in Bookings |-> booking[b].seat_count]
Paid == [b \in Bookings |-> booking[b].amount_paid]

\* Variant: only slots that start inside the requested one count.
StartsWithin(b, start, end) == booking[b].start_time >= start /\ booking[b].start_time < end

Overlaps(b, start, end) == booking[b].start_time < end /\ booking[b].end_time > start

\* The sum over the workspace's index, which lists no booking twice.
BookedSeatsInSlot(w, start, end) ==
    Saturated(Total({b \in ToSet(workspaceBookings[w]) :
                       booking[b].status = "Active" /\ Overlaps(b, start, end)}, Seats))

\* hourly_rate x duration in started hours.
Price(w, start, end) == workspace[w].hourly_rate * ((end - start + Hour - 1) \div Hour)

IdFree(b) == booking[b].status = "unbooked"

ListedByWorkspace(b, w) ==
    workspaceBookings' = [workspaceBookings EXCEPT ![w] = Append(@, b)]

\* Variant: the last seat stays free.
LeavesOneSeat(w, start, end, seats) ==
    Saturated(BookedSeatsInSlot(w, start, end) + seats) < workspace[w].capacity

HasCapacity(w, start, end, seats) ==
    Saturated(BookedSeatsInSlot(w, start, end) + seats) <= workspace[w].capacity

SlotValid(start, end, seats) == start < end /\ end > now /\ seats # 0

\* The transfer panics when the member cannot pay; a price beyond i128 is one
\* nobody can.
BookWorkspace(m, b, w, start, end, seats) ==
    LET amount == Price(w, start, end) IN
    /\ IdFree(b)
    /\ SlotValid(start, end, seats)
    /\ Registered(w) /\ workspace[w].available
    /\ HasCapacity(w, start, end, seats)
    /\ amount <= balance[m]
    /\ balance' = [balance EXCEPT ![m] = @ - amount]
    /\ vault' = vault + amount
    /\ booking' = [booking EXCEPT ![b] =
         [status |-> "Active", workspace_id |-> w, member |-> m, start_time |-> start,
          end_time |-> end, seat_count |-> seats, amount_paid |-> amount]]
    /\ ListedByWorkspace(b, w)
    /\ memberBookings' = [memberBookings EXCEPT ![m] = Append(@, b)]
    /\ UNCHANGED <<now, workspace>>

\* Variant: the refund is computed from the rate of the day.
RefundAtCurrentRate(b) ==
    Price(booking[b].workspace_id, booking[b].start_time, booking[b].end_time)

RefundOf(b) == booking[b].amount_paid

CancelBooking(caller, b) ==
    /\ booking[b].status = "Active"
    /\ caller \in {booking[b].member, Administrator}
    /\ RefundOf(b) <= vault
    /\ vault' = vault - RefundOf(b)
    /\ balance' = [balance EXCEPT ![booking[b].member] = @ + RefundOf(b)]
    /\ booking' = [booking EXCEPT ![b] = [@ EXCEPT !.status = "Cancelled"]]
    /\ UNCHANGED <<now, workspace, workspaceBookings, memberBookings>>

CompleteBooking(b) ==
    /\ booking[b].status = "Active"
    /\ booking' = [booking EXCEPT ![b] = [@ EXCEPT !.status = "Completed"]]
    /\ UNCHANGED <<now, workspace, balance, vault, workspaceBookings, memberBookings>>

Tick ==
    /\ now < MaxTime /\ now' = now + 1
    /\ UNCHANGED <<workspace, booking, balance, vault, workspaceBookings, memberBookings>>

Next ==
    \/ \E w \in Workspaces :
        \/ \E capacity \in Capacities, rate \in Rates : RegisterWorkspace(w, capacity, rate)
        \/ \E isAvailable \in BOOLEAN : SetWorkspaceAvailability(w, isAvailable)
        \/ \E rate \in Rates : SetWorkspaceRate(w, rate)
    \/ \E b \in Bookings :
        \/ \E m \in Members, w \in Workspaces, start, end \in Times, seats \in SeatCounts :
              BookWorkspace(m, b, w, start, end, seats)
        \/ \E caller \in Members \cup {Administrator} : CancelBooking(caller, b)
        \/ CompleteBooking(b)
    \/ Tick

Spec == Init /\ [][Next]_vars

\* check_availability: how many seats remain in a slot.
RemainingSeats(w, start, end) ==
    LET booked == BookedSeatsInSlot(w, start, end) IN
    IF ~workspace[w].available \/ booked > workspace[w].capacity THEN 0
    ELSE workspace[w].capacity - booked

-----------------------------------------------------------------------------
ActiveIn(w) == {b \in Bookings : booking[b].status = "Active" /\ booking[b].workspace_id = w}
Occupying(w, t) == {b \in ActiveIn(w) : booking[b].start_time <= t /\ t < booking[b].end_time}

\* Records, balances and indexes keep their types.
TypeOK ==
    /\ now \in Times
    /\ workspace \in [Workspaces -> Workspace \cup {Unregistered}]
    /\ booking \in [Bookings -> Booking \cup {Unbooked}]
    /\ balance \in [Members -> Nat] /\ vault \in Nat
    /\ workspaceBookings \in [Workspaces -> Seq(Bookings)]
    /\ memberBookings \in [Members -> Seq(Bookings)]

\* Each booking is listed once by its workspace and once by its member, so
\* that the sum over the index is the sum over the bookings.
IndexesExact ==
    /\ \A w \in Workspaces :
        /\ IsInjective(workspaceBookings[w])
        /\ ToSet(workspaceBookings[w]) = {b \in Bookings : booking[b].workspace_id = w}
    /\ \A m \in Members :
        /\ IsInjective(memberBookings[m])
        /\ ToSet(memberBookings[m]) = {b \in Bookings : booking[b].member = m}

\* At every instant the active bookings of a workspace fit its capacity, as
\* long as that capacity is not the largest u32.
CapacityRespected ==
    \A w \in Workspaces : workspace[w].capacity < MaxU32 =>
        \A t \in Times : Total(Occupying(w, t), Seats) <= workspace[w].capacity

\* No seat is given away twice, and the index the seats are summed over is the
\* set of bookings: see the parts.
SeatsExplained == IndexesExact /\ CapacityRespected

\* The contract holds what was paid for the bookings it has not refunded.
Kept == {b \in Bookings : booking[b].status \in {"Active", "Completed"}}
FundsBacked == vault = Total(Kept, Paid)

\* A member is out of pocket for exactly what the bookings that were not
\* cancelled cost when they were made, whatever the rate is now.
RefundedInFull ==
    \A m \in Members :
        balance[m] + Total({b \in Kept : booking[b].member = m}, Paid) = InitialBalance[m]

\* The contract and its members agree on what every booking cost: see the parts.
MoneyExplained == FundsBacked /\ RefundedInFull

\* check_availability promises exactly the seats that book_workspace grants.
AvailabilityAgrees ==
    \A w \in Workspaces, start, end \in Times, seats \in SeatCounts \ {0} :
        (workspace[w].capacity < MaxU32 /\ workspace[w].available) =>
            (HasCapacity(w, start, end, seats) <=> seats <= RemainingSeats(w, start, end))
=============================================================================
