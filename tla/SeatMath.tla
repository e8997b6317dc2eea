------------------------------ MODULE SeatMath ------------------------------
(***************************************************************************)
(* The seat arithmetic of one workspace.  A booking asks for SeatCount     *)
(* seats on every day of an inclusive date window; the booked seats of a   *)
(* set of bookings are the sum of their seat counts.                       *)
(***************************************************************************)
EXTENDS UnitSums

CONSTANTS
    Bookings,     \* booking ids (uuids the database may hand out)
    StartDate,    \* [Bookings -> Int], first day of the window
    EndDate,      \* [Bookings -> Int], last day of the window, inclusive
    SeatCount,    \* [Bookings -> Nat \ {0}]
    InitialSeats  \* workspaces.totalSeats before anybody resizes it

ASSUME BookingsFinite == IsFiniteSet(Bookings)
ASSUME WindowAssumption ==
    /\ StartDate \in [Bookings -> Int]
    /\ EndDate \in [Bookings -> Int]
    /\ \A b \in Bookings : StartDate[b] <= EndDate[b]
ASSUME SeatCountAssumption == SeatCount \in [Bookings -> Nat \ {0}]
ASSUME InitialSeatsAssumption == InitialSeats \in Nat

Days(b) == StartDate[b]..EndDate[b]

\* COALESCE(SUM(b.seatCount), 0) over the rows in B.
BookedSeats(B) == Total(B, SeatCount)

\* The rows of B whose window overlaps the window of b (both ends inclusive).
Overlapping(B, b) ==
    {a \in B : StartDate[a] <= EndDate[b] /\ EndDate[a] >= StartDate[b]}

On(B, d) == {b \in B : d \in Days(b)}
=============================================================================
