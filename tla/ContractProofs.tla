---------------------------- MODULE ContractProofs ---------------------------
(***************************************************************************)
(* Two contracts whose state is sums, for any accounts and amounts.  Of    *)
(* WorkspaceBooking: types, exact indexes, the capacity of every workspace *)
(* at every instant, and the accounting of the contract and its members.   *)
(* Of TokenOwnership: types, the sum of the shares, that nobody moves a    *)
(* token past its share holders, and that the rounding of rewards loses    *)
(* nothing.                                                                *)
(***************************************************************************)
EXTENDS WorkspaceBooking, TokenOwnership

-----------------------------------------------------------------------------
\* The booking contract

\* Listing one more element.
LEMMA ToSetAppend ==
  ASSUME NEW T, NEW s \in Seq(T), NEW x \in T
  PROVE  /\ ToSet(Append(s, x)) = ToSet(s) \cup {x}
         /\ IsInjective(s) /\ x \notin ToSet(s) => IsInjective(Append(s, x))
BY DEF ToSet, IsInjective

\* What a successful booking does.
Books(m, b, w, start, end, seats, amount) ==
    /\ booking[b] = Unbooked
    /\ start < end /\ seats \in 1..MaxU32 /\ amount \in Nat
    /\ HasCapacity(w, start, end, seats)
    /\ amount <= balance[m]
    /\ balance' = [balance EXCEPT ![m] = @ - amount]
    /\ vault' = vault + amount
    /\ booking' = [booking EXCEPT ![b] =
         [status |-> "Active", workspace_id |-> w, member |-> m, start_time |-> start,
          end_time |-> end, seat_count |-> seats, amount_paid |-> amount]]
    /\ workspaceBookings' = [workspaceBookings EXCEPT ![w] = Append(@, b)]
    /\ memberBookings' = [memberBookings EXCEPT ![m] = Append(@, b)]
    /\ UNCHANGED <<now, workspace>>

\* A price is a natural number.
LEMMA PriceType ==
  ASSUME TypeOK, NEW w \in Workspaces, NEW start \in Times, NEW end \in Times, start < end
  PROVE  Price(w, start, end) \in Nat
<1>1. workspace[w].hourly_rate \in Nat
  BY DEF TypeOK, Workspace, Unregistered
<1>2. (end - start + Hour - 1) \div Hour \in Nat
  BY HourAssumption DEF Times
<1> QED
  BY <1>1, <1>2 DEF Price

\* book_workspace writes one booking at its price and takes that price from the member.
LEMMA BookWorkspaceBooks ==
  ASSUME TypeOK, NEW m \in Members, NEW b \in Bookings, NEW w \in Workspaces,
         NEW start \in Times, NEW end \in Times, NEW seats \in SeatCounts,
         BookWorkspace(m, b, w, start, end, seats)
  PROVE  Books(m, b, w, start, end, seats, Price(w, start, end))
<1>1. booking[b] = Unbooked
  BY DEF BookWorkspace, IdFree, TypeOK, Booking, BookingStatus
<1>2. seats \in 1..MaxU32
  BY U32Assumption DEF BookWorkspace, SlotValid
<1> QED
  BY <1>1, <1>2, PriceType DEF BookWorkspace, SlotValid, ListedByWorkspace, Books

\* What a cancellation or a completion does to the booking record.
Closes(b, s) ==
    /\ s \in BookingStatus \ {"Active"} /\ booking[b].status = "Active"
    /\ booking' = [booking EXCEPT ![b] = [@ EXCEPT !.status = s]]
    /\ UNCHANGED <<now, workspace, workspaceBookings, memberBookings>>

Cancels(b) ==
    /\ Closes(b, "Cancelled")
    /\ booking[b].amount_paid <= vault
    /\ vault' = vault - booking[b].amount_paid
    /\ balance' = [balance EXCEPT ![booking[b].member] = @ + booking[b].amount_paid]

Completes(b) == Closes(b, "Completed") /\ UNCHANGED <<balance, vault>>

\* A step that books and closes nothing: the administrator or the clock.
Configures ==
    /\ UNCHANGED <<booking, balance, vault, workspaceBookings, memberBookings>>
    /\ now' \in Times
    /\ workspace' \in [Workspaces -> Workspace \cup {Unregistered}]
    /\ \A w \in Workspaces : \/ workspace'[w].capacity = workspace[w].capacity
                             \/ workspace[w] = Unregistered

\* Every step books, cancels, completes or configures.
LEMMA NextCases ==
  ASSUME TypeOK, [Next]_vars
  PROVE  \/ Configures
         \/ \E m \in Members, b \in Bookings, w \in Workspaces, start, end \in Times :
              \E seats \in SeatCounts, amount \in Nat :
                Books(m, b, w, start, end, seats, amount)
         \/ \E b \in Bookings : Cancels(b) \/ Completes(b)
<1>1. CASE UNCHANGED vars
  BY <1>1 DEF vars, Configures, TypeOK
<1>2. CASE Tick
  BY <1>2, HourAssumption DEF Tick, Configures, TypeOK, Times
<1>3. ASSUME NEW w \in Workspaces, NEW c \in Capacities, NEW r \in Rates, RegisterWorkspace(w, c, r)
      PROVE  Configures
  <2>1. [capacity |-> c, hourly_rate |-> r, available |-> TRUE] \in Workspace
    BY <1>3, U32Assumption, RatesAssumption DEF RegisterWorkspace, Workspace
  <2> QED
    BY <1>3, <2>1 DEF RegisterWorkspace, Configures, TypeOK, Registered
<1>4. ASSUME NEW w \in Workspaces, NEW a \in BOOLEAN, SetWorkspaceAvailability(w, a)
      PROVE  Configures
  <2>1. workspace[w] \in Workspace
    BY <1>4 DEF SetWorkspaceAvailability, Registered, TypeOK
  <2>2. /\ [workspace[w] EXCEPT !.available = a] \in Workspace
        /\ [workspace[w] EXCEPT !.available = a].capacity = workspace[w].capacity
    BY <2>1 DEF Workspace
  <2> QED
    BY <1>4, <2>2 DEF SetWorkspaceAvailability, Configures, TypeOK
<1>5. ASSUME NEW w \in Workspaces, NEW r \in Rates, SetWorkspaceRate(w, r)
      PROVE  Configures
  <2>1. workspace[w] \in Workspace /\ r \in Nat \ {0}
    BY <1>5, RatesAssumption DEF SetWorkspaceRate, Registered, TypeOK
  <2>2. /\ [workspace[w] EXCEPT !.hourly_rate = r] \in Workspace
        /\ [workspace[w] EXCEPT !.hourly_rate = r].capacity = workspace[w].capacity
    BY <2>1 DEF Workspace
  <2> QED
    BY <1>5, <2>2 DEF SetWorkspaceRate, Configures, TypeOK
<1>6. ASSUME NEW b \in Bookings, NEW caller \in Members \cup {Administrator}, CancelBooking(caller, b)
      PROVE  Cancels(b)
  BY <1>6 DEF CancelBooking, Cancels, Closes, RefundOf, BookingStatus
<1>7. ASSUME NEW b \in Bookings, CompleteBooking(b)
      PROVE  Completes(b)
  BY <1>7 DEF CompleteBooking, Completes, Closes, BookingStatus
<1>8. ASSUME NEW m \in Members, NEW b \in Bookings, NEW w \in Workspaces,
             NEW start \in Times, NEW end \in Times, NEW seats \in SeatCounts,
             BookWorkspace(m, b, w, start, end, seats)
      PROVE  \E amount \in Nat : Books(m, b, w, start, end, seats, amount)
  BY <1>8, BookWorkspaceBooks DEF Books
<1> QED
  BY <1>1, <1>2, <1>3, <1>4, <1>5, <1>6, <1>7, <1>8 DEF Next

\* A record in use has the fields of types::Booking.
LEMMA ClosedRecord ==
  ASSUME TypeOK, NEW b \in Bookings, NEW s, Closes(b, s)
  PROVE  /\ booking[b] \in Booking /\ booking'[b] \in Booking
         /\ booking'[b].status = s
         /\ booking'[b].workspace_id = booking[b].workspace_id
         /\ booking'[b].member = booking[b].member
         /\ booking'[b].start_time = booking[b].start_time
         /\ booking'[b].end_time = booking[b].end_time
         /\ booking'[b].seat_count = booking[b].seat_count
         /\ booking'[b].amount_paid = booking[b].amount_paid
         /\ \A c \in Bookings \ {b} : booking'[c] = booking[c]
<1>1. booking[b] \in Booking
  BY DEF Closes, TypeOK, Unbooked
<1> QED
  BY <1>1 DEF Closes, TypeOK, Booking

\* No step corrupts a record, a balance or an index.
LEMMA NextType == TypeOK /\ [Next]_vars => TypeOK'
<1> SUFFICES ASSUME TypeOK, [Next]_vars
             PROVE  TypeOK'
  OBVIOUS
<1>1. CASE Configures
  BY <1>1 DEF Configures, TypeOK
<1>2. ASSUME NEW m \in Members, NEW b \in Bookings, NEW w \in Workspaces,
             NEW start \in Times, NEW end \in Times, NEW seats \in SeatCounts,
             NEW amount \in Nat, Books(m, b, w, start, end, seats, amount)
      PROVE  TypeOK'
  <2>1. [status |-> "Active", workspace_id |-> w, member |-> m, start_time |-> start,
          end_time |-> end, seat_count |-> seats, amount_paid |-> amount] \in Booking
    BY <1>2 DEF Books, Booking, BookingStatus
  <2>2. balance' \in [Members -> Nat] /\ vault' \in Nat
    BY <1>2 DEF Books, TypeOK
  <2>3. /\ workspaceBookings' \in [Workspaces -> Seq(Bookings)]
        /\ memberBookings' \in [Members -> Seq(Bookings)]
    BY <1>2 DEF Books, TypeOK
  <2> QED
    BY <1>2, <2>1, <2>2, <2>3 DEF Books, TypeOK
<1>3. ASSUME NEW b \in Bookings, Cancels(b)
      PROVE  TypeOK'
  <2>1. booking[b] \in Booking /\ booking'[b] \in Booking
    BY <1>3, ClosedRecord DEF Cancels
  <2>2. booking[b].amount_paid \in Nat /\ booking[b].member \in Members
    BY <2>1 DEF Booking
  <2>3. balance' \in [Members -> Nat] /\ vault' \in Nat
    BY <1>3, <2>2 DEF Cancels, TypeOK
  <2> QED
    BY <1>3, <2>1, <2>3 DEF Cancels, Closes, TypeOK
<1>4. ASSUME NEW b \in Bookings, Completes(b)
      PROVE  TypeOK'
  <2>1. booking'[b] \in Booking
    BY <1>4, ClosedRecord DEF Completes
  <2> QED
    BY <1>4, <2>1 DEF Completes, Closes, TypeOK
<1> QED
  BY <1>1, <1>2, <1>3, <1>4, NextCases

\* The initialised contract without workspaces and bookings is well typed.
LEMMA InitType == Init => TypeOK
  BY InitialBalanceAssumption, HourAssumption DEF Init, TypeOK, Times

\* Type correctness.
THEOREM WorkspaceTypeCorrect == Spec => []TypeOK
  BY InitType, NextType, PTL DEF Spec

-----------------------------------------------------------------------------
\* The indexes start empty, like the records.
LEMMA InitIndexes == Init => IndexesExact
<1> SUFFICES ASSUME Init PROVE IndexesExact
  OBVIOUS
<1>1. IsInjective(<<>>) /\ ToSet(<<>>) = {}
  BY DEF IsInjective, ToSet
<1>2. \A b \in Bookings : booking[b].workspace_id = None /\ booking[b].member = None
  BY DEF Init, Unbooked
<1> QED
  BY <1>1, <1>2, BookingNoneAssumption DEF Init, IndexesExact

\* A booking is listed exactly when its record is written.
LEMMA NextIndexes == TypeOK /\ IndexesExact /\ [Next]_vars => IndexesExact'
<1> SUFFICES ASSUME TypeOK, IndexesExact, [Next]_vars
             PROVE  IndexesExact'
  OBVIOUS
<1>1. CASE Configures
  BY <1>1 DEF Configures, IndexesExact
<1>2. ASSUME NEW m \in Members, NEW b \in Bookings, NEW w \in Workspaces,
             NEW start \in Times, NEW end \in Times, NEW seats \in SeatCounts,
             NEW amount \in Nat, Books(m, b, w, start, end, seats, amount)
      PROVE  IndexesExact'
  <2>1. /\ booking[b].workspace_id = None /\ booking[b].member = None
        /\ booking'[b].workspace_id = w /\ booking'[b].member = m
        /\ \A c \in Bookings \ {b} : booking'[c] = booking[c]
    BY <1>2 DEF Books, Unbooked, TypeOK
  <2>2. ASSUME NEW v \in Workspaces
        PROVE  /\ IsInjective(workspaceBookings'[v])
               /\ ToSet(workspaceBookings'[v]) = {c \in Bookings : booking'[c].workspace_id = v}
    <3>1. /\ workspaceBookings[v] \in Seq(Bookings) /\ IsInjective(workspaceBookings[v])
          /\ ToSet(workspaceBookings[v]) = {c \in Bookings : booking[c].workspace_id = v}
          /\ workspaceBookings'[v] = IF v = w THEN Append(workspaceBookings[v], b)
                                              ELSE workspaceBookings[v]
      BY <1>2 DEF IndexesExact, TypeOK, Books
    <3>2. b \notin ToSet(workspaceBookings[v])
      BY <2>1, <3>1, BookingNoneAssumption
    <3>3. v = w => /\ IsInjective(workspaceBookings'[v])
                   /\ ToSet(workspaceBookings'[v]) = ToSet(workspaceBookings[v]) \cup {b}
      BY <3>1, <3>2, ToSetAppend
    <3>4. {c \in Bookings : booking'[c].workspace_id = v}
            = IF v = w THEN ToSet(workspaceBookings[v]) \cup {b} ELSE ToSet(workspaceBookings[v])
      BY <2>1, <3>1, BookingNoneAssumption
    <3> QED
      BY <3>1, <3>3, <3>4
  <2>3. ASSUME NEW n \in Members
        PROVE  /\ IsInjective(memberBookings'[n])
               /\ ToSet(memberBookings'[n]) = {c \in Bookings : booking'[c].member = n}
    <3>1. /\ memberBookings[n] \in Seq(Bookings) /\ IsInjective(memberBookings[n])
          /\ ToSet(memberBookings[n]) = {c \in Bookings : booking[c].member = n}
          /\ memberBookings'[n] = IF n = m THEN Append(memberBookings[n], b)
                                           ELSE memberBookings[n]
      BY <1>2 DEF IndexesExact, TypeOK, Books
    <3>2. b \notin ToSet(memberBookings[n])
      BY <2>1, <3>1, BookingNoneAssumption
    <3>3. n = m => /\ IsInjective(memberBookings'[n])
                   /\ ToSet(memberBookings'[n]) = ToSet(memberBookings[n]) \cup {b}
      BY <3>1, <3>2, ToSetAppend
    <3>4. {c \in Bookings : booking'[c].member = n}
            = IF n = m THEN ToSet(memberBookings[n]) \cup {b} ELSE ToSet(memberBookings[n])
      BY <2>1, <3>1, BookingNoneAssumption
    <3> QED
      BY <3>1, <3>3, <3>4
  <2> QED
    BY <2>2, <2>3 DEF IndexesExact
<1>3. ASSUME NEW b \in Bookings, NEW s, Closes(b, s)
      PROVE  IndexesExact'
  <2>1. \A c \in Bookings : /\ booking'[c].workspace_id = booking[c].workspace_id
                            /\ booking'[c].member = booking[c].member
    BY <1>3, ClosedRecord
  <2> QED
    BY <1>3, <2>1 DEF Closes, IndexesExact
<1> QED
  BY <1>1, <1>2, <1>3, NextCases DEF Cancels, Completes

\* Every booking is listed once by its workspace and once by its member.
THEOREM WorkspaceIndexesExact == Spec => []IndexesExact
<1>1. TypeOK /\ IndexesExact /\ [Next]_vars => (TypeOK /\ IndexesExact)'
  BY NextType, NextIndexes
<1> QED
  BY InitType, InitIndexes, <1>1, PTL DEF Spec

-----------------------------------------------------------------------------
\* Seat counts and prices are natural numbers, and so are their sums.
LEMMA Summable ==
  ASSUME TypeOK
  PROVE  /\ \A b \in Bookings : Seats[b] \in Nat /\ Paid[b] \in Nat
         /\ \A S \in SUBSET Bookings :
              IsFiniteSet(S) /\ Total(S, Seats) \in Nat /\ Total(S, Paid) \in Nat
<1>1. \A b \in Bookings : Seats[b] \in Nat /\ Paid[b] \in Nat
  BY U32Assumption DEF TypeOK, Seats, Paid, Booking, Unbooked
<1>2. \A S \in SUBSET Bookings : IsFiniteSet(S)
  BY BookingsFinite, FS_Subset
<1>3. ASSUME NEW S \in SUBSET Bookings
      PROVE  Total(S, Seats) \in Nat /\ Total(S, Paid) \in Nat
  BY <1>1, <1>2, TotalType
<1> QED
  BY <1>1, <1>2, <1>3

\* Below the largest u32 the saturated comparison is the exact one.
LEMMA SaturatedComparison ==
  ASSUME NEW n \in Nat, NEW k \in Nat, NEW c \in Nat, c < MaxU32,
         Saturated(Saturated(n) + k) <= c
  PROVE  n + k <= c
BY U32Assumption DEF Saturated

\* A booking the check admits fits at every instant of its slot.
LEMMA BooksCapacity ==
  ASSUME TypeOK, IndexesExact, CapacityRespected,
         NEW m \in Members, NEW b \in Bookings, NEW w \in Workspaces,
         NEW start \in Times, NEW end \in Times, NEW seats \in SeatCounts,
         NEW amount \in Nat, Books(m, b, w, start, end, seats, amount)
  PROVE  CapacityRespected'
<1> DEFINE f == Seats
           g == [c \in Bookings |-> booking'[c].seat_count]
           Slot == {c \in ToSet(workspaceBookings[w]) :
                      booking[c].status = "Active" /\ Overlaps(c, start, end)}
<1>1. /\ booking[b] = Unbooked /\ booking'[b].status = "Active"
      /\ booking'[b].workspace_id = w
      /\ booking'[b].start_time = start /\ booking'[b].end_time = end
      /\ booking'[b].seat_count = seats /\ seats \in Nat
      /\ \A c \in Bookings \ {b} : booking'[c] = booking[c]
      /\ workspace' = workspace
  BY U32Assumption DEF Books, TypeOK
<1>2. /\ \A c \in Bookings : f[c] \in Nat /\ g[c] \in Nat
      /\ \A c \in Bookings \ {b} : g[c] = f[c]
      /\ g[b] = seats /\ Seats' = g
      /\ \A S \in SUBSET Bookings : IsFiniteSet(S) /\ Total(S, f) \in Nat
  BY <1>1, Summable DEF Seats, TypeOK, Booking, Unbooked
<1>3. Slot \in SUBSET Bookings
  BY DEF IndexesExact
<1>4. workspace[w].capacity < MaxU32 => Total(Slot, f) + seats <= workspace[w].capacity
  <2>1. workspace[w].capacity \in Nat
    BY U32Assumption DEF TypeOK, Workspace, Unregistered
  <2>2. Saturated(Saturated(Total(Slot, f)) + seats) <= workspace[w].capacity
    BY DEF Books, HasCapacity, BookedSeatsInSlot
  <2>3. Total(Slot, f) \in Nat
    BY <1>2, <1>3
  <2> QED
    BY <1>1, <2>1, <2>2, <2>3, SaturatedComparison
<1> HIDE DEF f, g
<1>5. ASSUME NEW v \in Workspaces, workspace'[v].capacity < MaxU32, NEW t \in Times
      PROVE  Total(Occupying(v, t)', g) <= workspace'[v].capacity
  <2>1. /\ Occupying(v, t) \in SUBSET Bookings /\ b \notin Occupying(v, t)
        /\ Total(Occupying(v, t), f) <= workspace[v].capacity
    BY <1>1, <1>5 DEF Occupying, ActiveIn, Unbooked, CapacityRespected, f
  <2>2. Total(Occupying(v, t), g) = Total(Occupying(v, t), f)
    <3>1. \A c \in Occupying(v, t) : g[c] = f[c]
      BY <1>2, <2>1
    <3> QED
      BY <3>1, TotalAgree
  <2>3. CASE v = w /\ start <= t /\ t < end
    <3>1. Occupying(w, t)' = Occupying(w, t) \cup {b}
      BY <1>1, <2>1, <2>3 DEF Occupying, ActiveIn
    <3>2. Occupying(w, t) \subseteq Slot
      <4> SUFFICES ASSUME NEW c \in Occupying(w, t)
                   PROVE  c \in Slot
        OBVIOUS
      <4>1. booking[c] \in Booking
        BY DEF Occupying, ActiveIn, TypeOK, Unbooked
      <4>2. Overlaps(c, start, end)
        BY <2>3, <4>1 DEF Occupying, Overlaps, Booking, Times
      <4> QED
        BY <4>2 DEF Occupying, ActiveIn, IndexesExact
    <3>3. Total(Occupying(w, t), f) <= Total(Slot, f)
      <4>1. IsFiniteSet(Slot) /\ \A c \in Slot : f[c] \in Nat
        BY <1>2, <1>3
      <4> QED
        BY <3>2, <4>1, TotalMonotone
    <3>4. Total(Occupying(w, t) \cup {b}, g) = Total(Occupying(w, t), g) + g[b]
      BY <1>2, <2>1, <2>3, TotalAdd
    <3>5. workspace[w].capacity \in Nat
      BY U32Assumption DEF TypeOK, Workspace, Unregistered
    <3>6. /\ Total(Occupying(w, t), f) \in Nat /\ Total(Slot, f) \in Nat
          /\ Total(Slot, f) + seats <= workspace[w].capacity
      BY <1>1, <1>2, <1>3, <1>4, <1>5, <2>1, <2>3
    <3>7. Total(Occupying(w, t)', g) = Total(Occupying(w, t), f) + seats
      BY <1>2, <2>2, <2>3, <3>1, <3>4
    <3> HIDE DEF Slot
    <3> QED
      BY <1>1, <2>3, <3>3, <3>5, <3>6, <3>7
  <2>4. CASE ~(v = w /\ start <= t /\ t < end)
    <3>1. Occupying(v, t)' = Occupying(v, t)
      BY <1>1, <2>1, <2>4 DEF Occupying, ActiveIn
    <3> QED
      BY <1>1, <2>1, <2>2, <3>1
  <2> QED
    BY <2>3, <2>4
<1> QED
  BY <1>2, <1>5 DEF CapacityRespected

\* Capacity: bookings are admitted within it, closing one frees seats, and a
\* workspace is registered before anything is booked in it.
LEMMA NextCapacity ==
  TypeOK /\ IndexesExact /\ CapacityRespected /\ [Next]_vars => CapacityRespected'
<1> SUFFICES ASSUME TypeOK, IndexesExact, CapacityRespected, [Next]_vars
             PROVE  CapacityRespected'
  OBVIOUS
<1>1. CASE Configures
  <2>1. Seats' = Seats /\ \A w \in Workspaces, t \in Times : Occupying(w, t)' = Occupying(w, t)
    BY <1>1 DEF Configures, Seats, Occupying, ActiveIn
  <2>2. ASSUME NEW w \in Workspaces, workspace'[w].capacity < MaxU32, NEW t \in Times
        PROVE  Total(Occupying(w, t), Seats) <= workspace'[w].capacity
    <3>1. /\ workspace'[w].capacity \in Nat
          /\ \/ workspace'[w].capacity = workspace[w].capacity
             \/ workspace[w].capacity = 0
      BY <1>1, U32Assumption DEF Configures, Workspace, Unregistered
    <3>2. Total(Occupying(w, t), Seats) \in Nat
      BY Summable DEF Occupying, ActiveIn
    <3>3. workspace[w].capacity < MaxU32
      BY <2>2, <3>1, U32Assumption
    <3> QED
      BY <2>2, <3>1, <3>2, <3>3 DEF CapacityRespected
  <2> QED
    BY <2>1, <2>2 DEF CapacityRespected
<1>2. ASSUME NEW b \in Bookings, NEW s, Closes(b, s)
      PROVE  CapacityRespected'
  <2>1. /\ booking'[b].status # "Active"
        /\ \A c \in Bookings \ {b} : booking'[c] = booking[c]
        /\ \A c \in Bookings : booking'[c].seat_count = booking[c].seat_count
        /\ workspace' = workspace
    <3>1. s # "Active" /\ workspace' = workspace
      BY <1>2 DEF Closes
    <3>2. /\ booking'[b].status = s /\ booking'[b].seat_count = booking[b].seat_count
          /\ \A c \in Bookings \ {b} : booking'[c] = booking[c]
      BY <1>2, ClosedRecord
    <3> QED
      BY <3>1, <3>2
  <2>2. Seats' = Seats
    BY <2>1 DEF Seats
  <2>3. ASSUME NEW w \in Workspaces, workspace[w].capacity < MaxU32, NEW t \in Times
        PROVE  Total(Occupying(w, t)', Seats) <= workspace[w].capacity
    <3>1. Occupying(w, t)' \subseteq Occupying(w, t) /\ Occupying(w, t) \in SUBSET Bookings
      BY <2>1 DEF Occupying, ActiveIn
    <3>2. /\ Total(Occupying(w, t)', Seats) \in Nat /\ Total(Occupying(w, t), Seats) \in Nat
          /\ IsFiniteSet(Occupying(w, t)) /\ \A c \in Occupying(w, t) : Seats[c] \in Nat
      BY <3>1, Summable
    <3>3. Total(Occupying(w, t)', Seats) <= Total(Occupying(w, t), Seats)
      BY <3>1, <3>2, TotalMonotone
    <3>4. Total(Occupying(w, t), Seats) <= workspace[w].capacity /\ workspace[w].capacity \in Nat
      BY <2>3, U32Assumption DEF CapacityRespected, TypeOK, Workspace, Unregistered
    <3> QED
      BY <3>2, <3>3, <3>4
  <2> QED
    BY <2>1, <2>2, <2>3 DEF CapacityRespected
<1> QED
  BY <1>1, <1>2, BooksCapacity, NextCases DEF Cancels, Completes

\* Before anything is booked, every capacity is respected.
LEMMA InitCapacity == Init => CapacityRespected
<1> SUFFICES ASSUME Init PROVE CapacityRespected
  OBVIOUS
<1>1. \A w \in Workspaces, t \in Times : Occupying(w, t) = {}
  BY DEF Init, Unbooked, Occupying, ActiveIn
<1>2. \A w \in Workspaces : workspace[w].capacity = 0
  BY DEF Init, Unregistered
<1> QED
  BY <1>1, <1>2, TotalEmpty DEF CapacityRespected

\* No workspace is overbooked at any instant.
THEOREM WorkspaceSeatsExplained == Spec => []SeatsExplained
<1> DEFINE Inv == TypeOK /\ IndexesExact /\ CapacityRespected
<1>1. Init => Inv
  BY InitType, InitIndexes, InitCapacity
<1>2. Inv /\ [Next]_vars => Inv'
  BY NextType, NextIndexes, NextCapacity
<1>3. Inv => SeatsExplained
  BY DEF SeatsExplained
<1> QED
  BY <1>1, <1>2, <1>3, PTL DEF Spec

-----------------------------------------------------------------------------
Accounting == TypeOK /\ FundsBacked /\ RefundedInFull
KeptOf(m) == {b \in Kept : booking[b].member = m}

\* Nothing is paid and nobody is out of pocket at first.
LEMMA InitAccounting == Init => Accounting
<1> SUFFICES ASSUME Init PROVE Accounting
  OBVIOUS
<1>1. TypeOK /\ vault = 0 /\ \A m \in Members : balance[m] = InitialBalance[m] /\ balance[m] \in Nat
  BY InitType, InitialBalanceAssumption DEF Init
<1>2. Kept = {} /\ \A m \in Members : {b \in Kept : booking[b].member = m} = {}
  BY DEF Init, Unbooked, Kept
<1> QED
  BY <1>1, <1>2, TotalEmpty DEF Accounting, FundsBacked, RefundedInFull

\* A booking adds what it costs to the vault and to what its member paid.
LEMMA BooksAccounting ==
  ASSUME Accounting,
         NEW m \in Members, NEW b \in Bookings, NEW w \in Workspaces,
         NEW start \in Times, NEW end \in Times, NEW seats \in SeatCounts,
         NEW amount \in Nat, Books(m, b, w, start, end, seats, amount)
  PROVE  FundsBacked' /\ RefundedInFull'
<1> DEFINE f == Paid
           g == [c \in Bookings |-> booking'[c].amount_paid]
<1>1. /\ TypeOK /\ booking[b] = Unbooked
      /\ booking'[b].status = "Active" /\ booking'[b].member = m
      /\ booking'[b].amount_paid = amount
      /\ \A c \in Bookings \ {b} : booking'[c] = booking[c]
      /\ vault' = vault + amount /\ balance' = [balance EXCEPT ![m] = @ - amount]
  BY DEF Accounting, Books, TypeOK
<1>2. Kept' = Kept \cup {b} /\ b \notin Kept /\ Kept \in SUBSET Bookings
  BY <1>1 DEF Kept, Unbooked
<1>3. /\ \A c \in Bookings : f[c] \in Nat /\ g[c] \in Nat
      /\ \A c \in Bookings \ {b} : g[c] = f[c]
      /\ g[b] = amount /\ Paid' = g
      /\ \A S \in SUBSET Bookings : IsFiniteSet(S) /\ Total(S, f) \in Nat
  BY <1>1, Summable DEF Paid, TypeOK, Booking, Unbooked
<1> HIDE DEF f, g
<1>4. ASSUME NEW S \in SUBSET Bookings, b \notin S
      PROVE  Total(S, g) = Total(S, f) /\ Total(S \cup {b}, g) = Total(S, f) + amount
  <2>1. \A c \in S : g[c] = f[c]
    BY <1>3, <1>4
  <2>2. Total(S, g) = Total(S, f)
    BY <2>1, TotalAgree
  <2>3. Total(S \cup {b}, g) = Total(S, g) + g[b]
    BY <1>3, <1>4, TotalAdd
  <2> QED
    BY <1>3, <2>2, <2>3
<1>5. FundsBacked'
  BY <1>1, <1>2, <1>3, <1>4 DEF Accounting, FundsBacked, f
<1>6. ASSUME NEW n \in Members
      PROVE  balance'[n] + Total(KeptOf(n)', g) = InitialBalance[n]
  <2>1. b \notin KeptOf(n) /\ KeptOf(n) \in SUBSET Bookings
    BY <1>2 DEF KeptOf
  <2>2. KeptOf(n)' = IF n = m THEN KeptOf(n) \cup {b} ELSE KeptOf(n)
    BY <1>1, <1>2 DEF KeptOf
  <2>3. /\ balance[n] + Total(KeptOf(n), f) = InitialBalance[n]
        /\ balance[n] \in Nat /\ InitialBalance[n] \in Nat
    BY <1>1, InitialBalanceAssumption DEF Accounting, RefundedInFull, KeptOf, f, TypeOK
  <2>4. balance'[n] = IF n = m THEN balance[n] - amount ELSE balance[n]
    BY <1>1 DEF TypeOK
  <2>5. Total(KeptOf(n)', g) = IF n = m THEN Total(KeptOf(n), f) + amount ELSE Total(KeptOf(n), f)
    BY <1>4, <2>1, <2>2
  <2>6. Total(KeptOf(n), f) \in Nat
    BY <1>3, <2>1
  <2> QED
    BY <2>3, <2>4, <2>5, <2>6
<1> QED
  BY <1>3, <1>5, <1>6 DEF RefundedInFull, KeptOf

\* A cancellation gives the member of the booking exactly what it had cost.
LEMMA CancelsAccounting ==
  ASSUME Accounting, NEW b \in Bookings, Cancels(b)
  PROVE  FundsBacked' /\ RefundedInFull'
<1> DEFINE n == booking[b].amount_paid
           f == Paid
<1>1. /\ TypeOK /\ booking[b] \in Booking /\ booking'[b].status = "Cancelled"
      /\ \A c \in Bookings \ {b} : booking'[c] = booking[c]
      /\ \A c \in Bookings : /\ booking'[c].member = booking[c].member
                             /\ booking'[c].amount_paid = booking[c].amount_paid
  <2>1. TypeOK /\ Closes(b, "Cancelled")
    BY DEF Accounting, Cancels
  <2> QED
    BY <2>1, ClosedRecord
<1>2. /\ booking[b].status = "Active" /\ vault' = vault - n
      /\ balance' = [balance EXCEPT ![booking[b].member] = @ + n]
  BY DEF Cancels, Closes
<1>3. /\ b \in Kept /\ Kept' = Kept \ {b} /\ Kept \in SUBSET Bookings /\ Paid' = f
  BY <1>1, <1>2 DEF Kept, Paid
<1>4. /\ f[b] = n /\ n \in Nat /\ \A c \in Bookings : f[c] \in Nat
      /\ \A S \in SUBSET Bookings : IsFiniteSet(S) /\ Total(S, f) \in Nat
  BY <1>1, Summable DEF Paid
<1>5. FundsBacked'
  <2>1. Total(Kept \ {b}, f) = Total(Kept, f) - f[b]
    BY <1>3, <1>4, TotalRemove
  <2> QED
    BY <1>2, <1>3, <1>4, <2>1 DEF Accounting, FundsBacked
<1> HIDE DEF f, n
<1>6. ASSUME NEW m \in Members
      PROVE  balance'[m] + Total(KeptOf(m)', f) = InitialBalance[m]
  <2>1. /\ b \in KeptOf(m) <=> m = booking[b].member
        /\ KeptOf(m) \in SUBSET Bookings
    BY <1>3 DEF KeptOf
  <2>2. KeptOf(m)' = IF m = booking[b].member THEN KeptOf(m) \ {b} ELSE KeptOf(m)
    BY <1>1, <1>3, <2>1 DEF KeptOf
  <2>3. /\ balance[m] + Total(KeptOf(m), f) = InitialBalance[m]
        /\ balance[m] \in Nat /\ InitialBalance[m] \in Nat
    BY <1>1, InitialBalanceAssumption DEF Accounting, RefundedInFull, KeptOf, f, TypeOK
  <2>4. balance'[m] = IF m = booking[b].member THEN balance[m] + n ELSE balance[m]
    BY <1>1, <1>2 DEF TypeOK
  <2>5. m = booking[b].member => Total(KeptOf(m) \ {b}, f) = Total(KeptOf(m), f) - f[b]
    BY <1>4, <2>1, TotalRemove
  <2>6. Total(KeptOf(m), f) \in Nat
    BY <1>4, <2>1
  <2> QED
    BY <1>4, <2>2, <2>3, <2>4, <2>5, <2>6
<1> QED
  BY <1>3, <1>5, <1>6 DEF RefundedInFull, KeptOf

\* The accounting is inductive.
LEMMA NextAccounting == Accounting /\ [Next]_vars => Accounting'
<1> SUFFICES ASSUME Accounting, [Next]_vars
             PROVE  Accounting'
  OBVIOUS
<1>1. TypeOK /\ TypeOK'
  BY NextType DEF Accounting
<1>2. CASE Configures
  <2>1. /\ Paid' = Paid /\ Kept' = Kept /\ booking' = booking
        /\ vault' = vault /\ balance' = balance
    BY <1>2 DEF Configures, Paid, Kept
  <2> QED
    BY <1>1, <2>1 DEF Accounting, FundsBacked, RefundedInFull
<1>3. ASSUME NEW b \in Bookings, Completes(b)
      PROVE  Accounting'
  <2>1. /\ booking'[b].status = "Completed" /\ booking[b].status = "Active"
        /\ \A c \in Bookings \ {b} : booking'[c] = booking[c]
        /\ \A c \in Bookings : /\ booking'[c].member = booking[c].member
                               /\ booking'[c].amount_paid = booking[c].amount_paid
    <3>1. Closes(b, "Completed")
      BY <1>3 DEF Completes
    <3> QED
      BY <1>1, <3>1, ClosedRecord DEF Closes
  <2>2. vault' = vault /\ balance' = balance
    BY <1>3 DEF Completes
  <2>3. Paid' = Paid /\ Kept' = Kept /\ Kept \subseteq Bookings
    BY <2>1 DEF Paid, Kept
  <2>4. \A m \in Members :
          {c \in Kept' : booking'[c].member = m} = {c \in Kept : booking[c].member = m}
    BY <2>1, <2>3
  <2> QED
    BY <1>1, <2>2, <2>3, <2>4 DEF Accounting, FundsBacked, RefundedInFull
<1> QED
  BY <1>1, <1>2, <1>3, BooksAccounting, CancelsAccounting, NextCases DEF Accounting

\* The accounts of the booking contract agree in every reachable state.
LEMMA AccountingAlways == Spec => []Accounting
  BY InitAccounting, NextAccounting, PTL DEF Spec

\* The contract holds what the bookings it keeps cost, a cancelled booking costs
\* nothing, and every other one what it cost when it was made.
THEOREM WorkspaceMoneyExplained == Spec => []MoneyExplained
<1>1. Accounting => MoneyExplained
  BY DEF Accounting, MoneyExplained
<1> QED
  BY <1>1, AccountingAlways, PTL
-----------------------------------------------------------------------------
\* The seats booked in a slot, saturated or not, are a natural number.
LEMMA BookedType ==
  ASSUME TypeOK, IndexesExact, NEW w \in Workspaces, NEW start, NEW end
  PROVE  BookedSeatsInSlot(w, start, end) \in Nat
<1> DEFINE Slot == {b \in ToSet(workspaceBookings[w]) :
                      booking[b].status = "Active" /\ Overlaps(b, start, end)}
<1>1. Slot \in SUBSET Bookings
  BY DEF IndexesExact
<1>2. Total(Slot, Seats) \in Nat
  BY <1>1, Summable
<1> HIDE DEF Slot
<1>3. Saturated(Total(Slot, Seats)) \in Nat
  BY <1>2, U32Assumption DEF Saturated
<1> QED
  BY <1>3 DEF Slot, BookedSeatsInSlot

\* Below the largest u32, a request fits a saturated count exactly when it asks
\* for no more than the seats left.
LEMMA RemainingComparison ==
  ASSUME NEW n \in Nat, NEW k \in Nat \ {0}, NEW c \in Nat, c < MaxU32
  PROVE  Saturated(n + k) <= c <=> k <= (IF n > c THEN 0 ELSE c - n)
<1>1. MaxU32 \in Nat
  BY U32Assumption
<1> QED
  BY <1>1 DEF Saturated

\* check_availability promises exactly the seats that book_workspace grants,
\* for every capacity below the largest u32 and every history of bookings.
THEOREM WorkspaceAvailabilityAgrees == Spec => []AvailabilityAgrees
<1>1. ASSUME TypeOK, IndexesExact
      PROVE  AvailabilityAgrees
  <2> SUFFICES ASSUME NEW w \in Workspaces, NEW start \in Times, NEW end \in Times,
                      NEW seats \in SeatCounts \ {0},
                      workspace[w].capacity < MaxU32, workspace[w].available
               PROVE  HasCapacity(w, start, end, seats)
                        <=> seats <= RemainingSeats(w, start, end)
    BY DEF AvailabilityAgrees
  <2> DEFINE n == BookedSeatsInSlot(w, start, end)
             c == workspace[w].capacity
  <2>1. n \in Nat
    BY <1>1, BookedType
  <2>2. c \in Nat /\ seats \in Nat \ {0}
    BY <1>1, U32Assumption DEF TypeOK, Workspace, Unregistered
  <2>3. /\ HasCapacity(w, start, end, seats) <=> Saturated(n + seats) <= c
        /\ RemainingSeats(w, start, end) = IF n > c THEN 0 ELSE c - n
    BY DEF HasCapacity, RemainingSeats
  <2>4. c < MaxU32
    OBVIOUS
  <2> HIDE DEF n, c
  <2> QED
    BY <2>1, <2>2, <2>3, <2>4, RemainingComparison
<1> QED
  BY <1>1, WorkspaceTypeCorrect, WorkspaceIndexesExact, PTL

-----------------------------------------------------------------------------
\* Owners, shares and rewards of membership tokens

\* A part of a reward is a natural number: the product and the quotient of
\* distribute_fraction_rewards stay in range.
LEMMA PartType ==
  ASSUME NEW a \in Nat, NEW b \in Nat, NEW c \in Nat \ {0}
  PROVE  (a * b) \div c \in Nat
<1>1. a * b \in Nat
  OBVIOUS
<1>2. \A n \in Nat : n \div c \in Nat
  OBVIOUS
<1> QED
  BY <1>1, <1>2

\* A token without shares has none in total: NoShares sums to zero.
LEMMA NothingHeld == IsFiniteSet(Accounts) => Total(Accounts, NoShares) = 0
<1>1. Units(Accounts, NoShares) = {}
  BY DEF Units, NoShares
<1> QED
  BY <1>1, FS_EmptySet DEF Total

\* Moving shares keeps every holding a natural number when the sender has
\* enough: the subtraction of transfer_fraction.
LEMMA MovedType ==
  ASSUME NEW s \in [Accounts -> Nat], NEW from \in Accounts, NEW to \in Accounts,
         NEW n \in Nat, s[from] >= n
  PROVE  Moved(s, from, to, n) \in [Accounts -> Nat]
BY DEF Moved

\* Moving shares keeps their sum, also from an account to itself: the order
\* of the writes of transfer_fraction.
LEMMA MovedTotal ==
  ASSUME NEW s \in [Accounts -> Nat], NEW from \in Accounts, NEW to \in Accounts,
         NEW n \in Nat, s[from] >= n
  PROVE  Total(Accounts, Moved(s, from, to, n)) = Total(Accounts, s)
<1> DEFINE r == [s EXCEPT ![from] = @ - n]
           m == Moved(s, from, to, n)
<1>1. /\ r \in [Accounts -> Nat] /\ r[from] = s[from] - n
      /\ \A a \in Accounts \ {from} : r[a] = s[a]
  OBVIOUS
<1>2. /\ m \in [Accounts -> Nat] /\ m[to] = r[to] + n
      /\ \A a \in Accounts \ {to} : m[a] = r[a]
  BY <1>1 DEF Moved
<1>3. Total(Accounts, s) \in Nat
  BY AccountsAssumption, TotalType
<1>4. /\ IsFiniteSet(Accounts)
      /\ \A a \in Accounts : s[a] \in Nat /\ r[a] \in Nat /\ m[a] \in Nat
  BY <1>1, <1>2, AccountsAssumption
<1> HIDE DEF r, m
<1>5. Total(Accounts, r) = Total(Accounts, s) - s[from] + r[from]
  BY <1>1, <1>4, TotalExcept
<1>6. Total(Accounts, r) \in Nat
  BY <1>4, TotalType
<1>7. Total(Accounts, m) = Total(Accounts, r) - r[to] + m[to]
  BY <1>2, <1>4, TotalExcept
<1>8. Total(Accounts, m) = Total(Accounts, s)
  BY <1>1, <1>2, <1>3, <1>5, <1>6, <1>7
<1> QED
  BY <1>8 DEF m

\* The holdings of a token that is fractionalized anew: all shares are the
\* owner's, as fractionalize_token stores them.
LEMMA AllHeldByOne ==
  ASSUME NEW a \in Accounts, NEW n \in Nat
  PROVE  /\ [NoShares EXCEPT ![a] = n] \in [Accounts -> Nat]
         /\ Total(Accounts, [NoShares EXCEPT ![a] = n]) = n
<1> DEFINE g == [NoShares EXCEPT ![a] = n]
<1>1. /\ g \in [Accounts -> Nat] /\ g[a] = n
      /\ \A b \in Accounts \ {a} : g[b] = NoShares[b]
  BY DEF NoShares
<1>2. NoShares \in [Accounts -> Nat] /\ NoShares[a] = 0
  BY DEF NoShares
<1>3. /\ IsFiniteSet(Accounts)
      /\ \A b \in Accounts : NoShares[b] \in Nat /\ g[b] \in Nat
  BY <1>1, <1>2, AccountsAssumption
<1> HIDE DEF g
<1>4. Total(Accounts, g) = Total(Accounts, NoShares) - NoShares[a] + g[a]
  BY <1>1, <1>3, TotalExcept
<1>5. Total(Accounts, g) = n
  BY <1>1, <1>2, <1>3, <1>4, NothingHeld
<1> QED
  BY <1>1, <1>5 DEF g

-----------------------------------------------------------------------------
\* Ownership: everything the sums of this module rest on, in one invariant.
OwnershipInv == OwnershipTypeOK /\ SharesAddUp

\* No token is issued in the initial state, as in fresh contract storage.
LEMMA InitOwnershipInv == OwnershipInit => OwnershipInv
<1> SUFFICES ASSUME OwnershipInit PROVE OwnershipInv
  OBVIOUS
<1>1. OwnershipTypeOK
  BY NilAssumption, RewardsAssumption, TimeAssumption
  DEF OwnershipInit, OwnershipTypeOK, Moments, Allowances, NoAllowance, NotFractionalized, NoShares,
      Fractionalized
<1>2. SharesAddUp
  BY NothingHeld, AccountsAssumption DEF OwnershipInit, SharesAddUp, NotFractionalized
<1> QED
  BY <1>1, <1>2 DEF OwnershipInv

\* What consume_allowance writes back is an allowance again.
LEMMA SpentType ==
  ASSUME NEW x \in Allowances, NEW n \in Nat, x.amount >= n
  PROVE  Spent(x, n) \in Allowances
<1>1. CASE x.amount = n
  BY <1>1 DEF Spent, NoAllowance, Allowances
<1>2. CASE x.amount # n
  <2>1. x.amount - n \in Nat
    BY <1>2 DEF Allowances
  <2>2. [x EXCEPT !.amount = @ - n] \in Allowances
    BY <2>1 DEF Allowances
  <2> QED
    BY <1>2, <2>2 DEF Spent
<1> QED
  BY <1>1, <1>2

\* The actions on tokens and allowances keep the types: a spent allowance
\* stays a natural number because it covered the amount.
LEMMA AllowanceStepsType ==
  ASSUME OwnershipTypeOK, NEW t \in Tokens,
         \/ \E a \in Accounts : IssueToken(t, a) \/ TransferToken(t, a)
         \/ \E s \in Spenders :
               \/ RevokeAllowance(t, s) \/ GetAllowance(t, s)
               \/ \E n \in Amounts, e \in Moments \cup {Nil} : Approve(t, s, n, e)
               \/ \E n \in Amounts, to \in Accounts : TransferFrom(t, to, s, n)
  PROVE  OwnershipTypeOK' /\ UNCHANGED fractions
<1> USE AccountsAssumption, SharesAssumption, NilAssumption
<1> USE DEF OwnershipTypeOK, fractions, Fractionalized
<1>1. \A o \in Accounts, s \in Spenders, a \in Allowances :
        SetAllowance(t, o, s, a) =>
          allowance' \in [Tokens -> [Accounts -> [Spenders -> Allowances]]]
  BY DEF SetAllowance
<1>2. NoAllowance \in Allowances
  BY DEF NoAllowance, Allowances
<1>3. owner[t] # Nil => owner[t] \in Accounts
  OBVIOUS
<1>4. ASSUME NEW a \in Accounts, IssueToken(t, a) PROVE OwnershipTypeOK' /\ UNCHANGED fractions
  BY <1>4 DEF IssueToken
<1>5. ASSUME NEW a \in Accounts, TransferToken(t, a)
      PROVE  OwnershipTypeOK' /\ UNCHANGED fractions
  BY <1>5 DEF TransferToken, Movable
<1>6. ASSUME NEW s \in Spenders, RevokeAllowance(t, s)
      PROVE  OwnershipTypeOK' /\ UNCHANGED fractions
  BY <1>1, <1>2, <1>3, <1>6 DEF RevokeAllowance
<1>7. ASSUME NEW s \in Spenders, GetAllowance(t, s)
      PROVE  OwnershipTypeOK' /\ UNCHANGED fractions
  BY <1>1, <1>2, <1>3, <1>7 DEF GetAllowance
<1>8. ASSUME NEW s \in Spenders, NEW n \in Amounts, NEW e \in Moments \cup {Nil},
             Approve(t, s, n, e)
      PROVE  OwnershipTypeOK' /\ UNCHANGED fractions
  <2>1. [amount |-> n, expires_at |-> e] \in Allowances
    BY <1>8 DEF Approve, Allowances
  <2> QED
    BY <2>1, <1>1, <1>3, <1>8 DEF Approve, Movable
<1>9. ASSUME NEW s \in Spenders, NEW n \in Amounts, NEW to \in Accounts,
             TransferFrom(t, to, s, n)
      PROVE  OwnershipTypeOK' /\ UNCHANGED fractions
  <2> DEFINE a == allowance[t][owner[t]][s]
  <2>1. owner[t] \in Accounts /\ a \in Allowances
    <3>1. owner[t] \in Accounts
      BY <1>3, <1>9 DEF TransferFrom, Movable
    <3>2. allowance[t] \in [Accounts -> [Spenders -> Allowances]]
      OBVIOUS
    <3>3. \A o \in Accounts : allowance[t][o] \in [Spenders -> Allowances]
      BY <3>2
    <3>4. allowance[t][owner[t]] \in [Spenders -> Allowances]
      BY <3>1, <3>3
    <3> QED
      BY <3>1, <3>4
  <2>2. n > 0 /\ a.amount >= n
    BY <1>9 DEF TransferFrom, Covers
  <2>3. Spent(a, n) \in Allowances
    <3> HIDE DEF a
    <3>1. n \in Nat
      BY <2>2
    <3> QED
      BY <2>1, <2>2, <3>1, SpentType
  <2> QED
    BY <2>1, <2>3, <1>1, <1>9 DEF TransferFrom, Movable
<1> QED
  BY <1>4, <1>5, <1>6, <1>7, <1>8, <1>9

\* Adding a positive amount at one key keeps a map of natural numbers one:
\* the remainder added to the first holder's reward.
LEMMA AddedType ==
  ASSUME NEW f \in [Accounts -> Nat], NEW x, NEW n \in Int, n > 0
  PROVE  [f EXCEPT ![x] = @ + n] \in [Accounts -> Nat]
<1>1. CASE x \in Accounts
  <2>1. f[x] + n \in Nat
    BY <1>1
  <2> QED
    BY <1>1, <2>1
<1>2. CASE x \notin Accounts
  <2>1. [f EXCEPT ![x] = @ + n] = f
    BY <1>2
  <2> QED
    BY <2>1
<1> QED
  BY <1>1, <1>2

\* The actions on fractions keep the types and the sum of the shares.
LEMMA FractionSteps ==
  ASSUME OwnershipInv, NEW t \in Tokens,
         \/ \E total \in ShareCounts, min \in FractionSizes :
               FractionalizeToken(t, total, min)
         \/ \E from, to \in Accounts, n \in Amounts : TransferFraction(t, from, to, n)
         \/ \E a \in Accounts : RecombineFractions(t, a)
         \/ \E n \in RewardAmounts : DistributeFractionRewards(t, n)
  PROVE  OwnershipInv'
<1> USE AccountsAssumption, SharesAssumption, NilAssumption, RewardsAssumption
<1> USE DEF OwnershipInv
<1>1. OwnershipTypeOK /\ SharesAddUp
  OBVIOUS
<1>2. NoShares \in [Accounts -> Nat] /\ NotFractionalized.total = 0
  BY DEF NoShares, NotFractionalized
<1>3. ASSUME NEW total \in ShareCounts, NEW min \in FractionSizes,
             FractionalizeToken(t, total, min)
      PROVE  OwnershipInv'
  <2> DEFINE i == [total |-> total, min |-> min]
             held == [NoShares EXCEPT ![owner[t]] = total]
  <2>1. /\ owner[t] \in Accounts
        /\ i \in [total : Nat \ {0}, min : Nat \ {0}] /\ total \in Nat /\ i.total = total
    BY <1>1, <1>3 DEF FractionalizeToken, OwnershipTypeOK
  <2>2. held \in [Accounts -> Nat] /\ Total(Accounts, held) = total
    BY <2>1, AllHeldByOne
  <2>3. /\ info' = [info EXCEPT ![t] = i] /\ shares' = [shares EXCEPT ![t] = held]
        /\ owner[t] # Nil
        /\ UNCHANGED <<owner, active, paused, allowance, pending, distributed, time>>
    BY <1>3 DEF FractionalizeToken
  <2> HIDE DEF i, held
  <2>4. OwnershipTypeOK'
    BY <1>1, <2>1, <2>2, <2>3 DEF OwnershipTypeOK, Fractionalized
  <2>5. SharesAddUp'
    BY <1>1, <2>1, <2>2, <2>3 DEF OwnershipTypeOK, SharesAddUp
  <2> QED
    BY <2>4, <2>5
<1>4. ASSUME NEW from \in Accounts, NEW to \in Accounts, NEW n \in Amounts,
             TransferFraction(t, from, to, n)
      PROVE  OwnershipInv'
  <2> DEFINE moved == Moved(shares[t], from, to, n)
  <2>1. n \in Nat /\ shares[t] \in [Accounts -> Nat] /\ shares[t][from] >= n
    BY <1>1, <1>4 DEF TransferFraction, OwnershipTypeOK
  <2>2. moved \in [Accounts -> Nat] /\ Total(Accounts, moved) = Total(Accounts, shares[t])
    BY <2>1, MovedType, MovedTotal
  <2>3. /\ shares' = [shares EXCEPT ![t] = moved]
        /\ UNCHANGED <<owner, active, paused, allowance, info, pending, distributed, time>>
    BY <1>4 DEF TransferFraction
  <2> HIDE DEF moved
  <2>4. OwnershipTypeOK'
    BY <1>1, <2>2, <2>3 DEF OwnershipTypeOK, Fractionalized
  <2>5. SharesAddUp'
    BY <1>1, <2>2, <2>3 DEF OwnershipTypeOK, SharesAddUp
  <2> QED
    BY <2>4, <2>5
<1>5. ASSUME NEW a \in Accounts, RecombineFractions(t, a)
      PROVE  OwnershipInv'
  <2>1. Total(Accounts, NoShares) = 0
    BY NothingHeld
  <2>2. OwnershipTypeOK'
    BY <1>1, <1>2, <1>5 DEF RecombineFractions, OwnershipTypeOK, Fractionalized
  <2>3. SharesAddUp'
    BY <1>1, <1>2, <1>5, <2>1 DEF RecombineFractions, OwnershipTypeOK, SharesAddUp
  <2> QED
    BY <2>2, <2>3
<1>6. ASSUME NEW n \in RewardAmounts, DistributeFractionRewards(t, n)
      PROVE  OwnershipInv'
  <2>1. /\ n \in Nat /\ n > 0 /\ Fractionalized(t)
        /\ distributed[t] \in Nat /\ distributed[t] + n <= MaxRewards
    BY <1>1, <1>6 DEF DistributeFractionRewards, OwnershipTypeOK
  <2>2. info[t].total \in Nat \ {0} /\ shares[t] \in [Accounts -> Nat]
    BY <1>1, <2>1 DEF OwnershipTypeOK, Fractionalized
  <2>3. \A a \in Accounts : Part(t, n, a) \in Nat
    BY <2>1, <2>2, PartType DEF Part
  <2>4. Parts(t, n) \in [Accounts -> Nat]
    <3> DEFINE rounded == [a \in Accounts |-> Part(t, n, a)]
               remainder == n - Total(Accounts, rounded)
               first == CHOOSE a \in Holders(t) : \A b \in Holders(t) : a <= b
    <3>1. rounded \in [Accounts -> Nat]
      BY <2>3
    <3>2. Total(Accounts, rounded) \in Nat
      <4> HIDE DEF rounded
      <4>1. \A a \in Accounts : rounded[a] \in Nat
        BY <3>1
      <4> QED
        BY <4>1, TotalType
    <3>3. Parts(t, n) = IF remainder > 0 THEN [rounded EXCEPT ![first] = @ + remainder]
                        ELSE rounded
      BY DEF Parts
    <3>4. remainder \in Int
      BY <2>1, <3>2
    <3> HIDE DEF rounded, remainder, first
    <3>5. remainder > 0 => [rounded EXCEPT ![first] = @ + remainder] \in [Accounts -> Nat]
      BY <3>1, <3>4, AddedType
    <3> QED
      BY <3>1, <3>3, <3>5
  <2>5. /\ \A a \in Accounts : pending[t][a] + Parts(t, n)[a] \in Nat
        /\ distributed[t] + n \in 0..MaxRewards
    BY <1>1, <2>1, <2>4 DEF OwnershipTypeOK
  <2>6. OwnershipTypeOK'
    BY <1>1, <1>6, <2>5 DEF DistributeFractionRewards, OwnershipTypeOK, Fractionalized
  <2>7. SharesAddUp'
    BY <1>1, <1>6 DEF DistributeFractionRewards, OwnershipTypeOK, SharesAddUp
  <2> QED
    BY <2>6, <2>7
<1> QED
  BY <1>3, <1>4, <1>5, <1>6

\* Shares that nobody touches still add up.
LEMMA UnchangedSharesAddUp ==
  ASSUME SharesAddUp, UNCHANGED fractions
  PROVE  SharesAddUp'
BY DEF SharesAddUp, fractions

\* Every step of the contract keeps the invariant.
LEMMA NextOwnershipInv ==
  ASSUME OwnershipInv, [OwnershipNext]_tokenVars
  PROVE  OwnershipInv'
<1> USE DEF OwnershipInv
<1>1. ASSUME NEW t \in Tokens, TokenStep(t) PROVE OwnershipInv'
  <2>1. CASE \/ \E a \in Accounts : IssueToken(t, a) \/ TransferToken(t, a)
             \/ \E s \in Spenders :
                   \/ RevokeAllowance(t, s) \/ GetAllowance(t, s)
                   \/ \E n \in Amounts, e \in Moments \cup {Nil} : Approve(t, s, n, e)
                   \/ \E n \in Amounts, to \in Accounts : TransferFrom(t, to, s, n)
    BY <2>1, AllowanceStepsType, UnchangedSharesAddUp
  <2>2. CASE \/ \E total \in ShareCounts, min \in FractionSizes :
                   FractionalizeToken(t, total, min)
             \/ \E from, to \in Accounts, n \in Amounts : TransferFraction(t, from, to, n)
             \/ \E a \in Accounts : RecombineFractions(t, a)
             \/ \E n \in RewardAmounts : DistributeFractionRewards(t, n)
    BY <2>2, FractionSteps
  <2>3. CASE StatusChanges(t)
    <3>1. OwnershipTypeOK'
      BY <2>3 DEF StatusChanges, OwnershipTypeOK, fractions, Fractionalized
    <3>2. UNCHANGED fractions
      BY <2>3 DEF StatusChanges
    <3> QED
      BY <3>1, <3>2, UnchangedSharesAddUp
  <2> QED
    BY <1>1, <2>1, <2>2, <2>3 DEF TokenStep
<1>2. ASSUME NEW ts \in SUBSET Tokens, PauseChanges(ts) PROVE OwnershipInv'
  <2>1. OwnershipTypeOK'
    BY <1>2 DEF PauseChanges, OwnershipTypeOK, fractions, Fractionalized
  <2>2. UNCHANGED fractions
    BY <1>2 DEF PauseChanges
  <2> QED
    BY <2>1, <2>2, UnchangedSharesAddUp
<1>3. CASE TimePasses
  <2>1. time' \in Moments
    BY <1>3, TimeAssumption DEF TimePasses, OwnershipTypeOK, Moments
  <2>2. OwnershipTypeOK'
    BY <1>3, <2>1 DEF TimePasses, OwnershipTypeOK, fractions, Fractionalized
  <2>3. UNCHANGED fractions
    BY <1>3 DEF TimePasses
  <2> QED
    BY <2>2, <2>3, UnchangedSharesAddUp
<1>4. CASE UNCHANGED tokenVars
  <2>1. OwnershipTypeOK'
    BY <1>4 DEF tokenVars, OwnershipTypeOK, Fractionalized
  <2>2. UNCHANGED fractions
    BY <1>4 DEF tokenVars, fractions
  <2> QED
    BY <2>1, <2>2, UnchangedSharesAddUp
<1> QED
  BY <1>1, <1>2, <1>3, <1>4 DEF OwnershipNext

\* The invariant holds in every reachable state.
THEOREM OwnershipInvariant == OwnershipSpec => []OwnershipInv
BY InitOwnershipInv, NextOwnershipInv, PTL DEF OwnershipSpec

\* Types, for any number of tokens, accounts and shares.
THEOREM OwnershipTypeCorrect == OwnershipSpec => []OwnershipTypeOK
<1>1. OwnershipInv => OwnershipTypeOK
  BY DEF OwnershipInv
<1> QED
  BY <1>1, OwnershipInvariant, PTL

\* The shares of a token always add up to its total: transfer_fraction and
\* the other operations neither make nor lose shares.
THEOREM SharesConserved == OwnershipSpec => []SharesAddUp
<1>1. OwnershipInv => SharesAddUp
  BY DEF OwnershipInv
<1> QED
  BY <1>1, OwnershipInvariant, PTL

-----------------------------------------------------------------------------
\* The steps that can change who owns a token: all others keep every owner,
\* and so do these for every other token.
LEMMA OwnerMovers ==
  ASSUME OwnershipTypeOK, [OwnershipNext]_tokenVars, NEW t \in Tokens, owner'[t] # owner[t]
  PROVE  \/ \E a \in Accounts :
               \/ IssueToken(t, a) \/ TransferToken(t, a) \/ RecombineFractions(t, a)
         \/ \E s \in Spenders, n \in Amounts, to \in Accounts : TransferFrom(t, to, s, n)
<1>1. ASSUME NEW u \in Tokens, TokenStep(u), u # t PROVE owner'[t] = owner[t]
  <2>1. \/ owner' = owner
        \/ \E a \in Accounts : owner' = [owner EXCEPT ![u] = a]
    BY <1>1 DEF TokenStep, IssueToken, TransferToken, RecombineFractions,
         RevokeAllowance, GetAllowance, Approve, TransferFrom, TransferFraction,
         FractionalizeToken, DistributeFractionRewards, StatusChanges
  <2> QED
    BY <1>1, <2>1 DEF OwnershipTypeOK
<1>2. ASSUME TokenStep(t)
      PROVE  \/ owner' = owner
             \/ \E a \in Accounts :
                   \/ IssueToken(t, a) \/ TransferToken(t, a) \/ RecombineFractions(t, a)
             \/ \E s \in Spenders, n \in Amounts, to \in Accounts : TransferFrom(t, to, s, n)
  BY <1>2 DEF TokenStep, RevokeAllowance, GetAllowance, Approve, TransferFraction,
       FractionalizeToken, DistributeFractionRewards, StatusChanges
<1>3. \E u \in Tokens : TokenStep(u)
  BY DEF OwnershipNext, tokenVars, TimePasses, PauseChanges
<1> QED
  BY <1>1, <1>2, <1>3

\* A step that moves a fractionalized token is the recombination by the
\* holder of all its shares.
LEMMA OwnerFixedStep ==
  ASSUME OwnershipTypeOK, [OwnershipNext]_tokenVars, NEW t \in Tokens,
         Fractionalized(t), owner'[t] # owner[t]
  PROVE  /\ shares[t][owner'[t]] = info[t].total
         /\ ~Fractionalized(t)'
<1>1. PICK a \in Accounts : RecombineFractions(t, a)
  BY OwnerMovers DEF IssueToken, TransferToken, TransferFrom, Movable, OwnershipTypeOK
<1>2. owner'[t] = a /\ info'[t] = NotFractionalized
  BY <1>1 DEF RecombineFractions, OwnershipTypeOK
<1> QED
  BY <1>1, <1>2 DEF RecombineFractions, HoldsAll, Fractionalized

\* Nobody moves a fractionalized token past its share holders: transfers and
\* delegated transfers refuse it, and recombination asks for every share.
THEOREM OwnerFixed == OwnershipSpec => OwnerFixedWhileFractionalized
<1>1. ASSUME OwnershipTypeOK, [OwnershipNext]_tokenVars
      PROVE  [\A t \in Tokens : (Fractionalized(t) /\ owner'[t] # owner[t]) =>
                /\ shares[t][owner'[t]] = info[t].total
                /\ ~Fractionalized(t)']_tokenVars
  BY <1>1, OwnerFixedStep
<1> QED
  BY <1>1, OwnershipTypeCorrect, PTL DEF OwnershipSpec, OwnerFixedWhileFractionalized

\* A delegated transfer costs an allowance of the owner of that moment that
\* has not expired: what consume_allowance checks and writes.
LEMMA DelegationStep ==
  ASSUME OwnershipTypeOK, [OwnershipNext]_tokenVars, NEW t \in Tokens,
         owner[t] # Nil, ~Fractionalized(t), owner'[t] # owner[t], allowance' # allowance
  PROVE  \E s \in Spenders :
            LET given == allowance[t][owner[t]][s] IN
            /\ given.expires_at # Nil => time < given.expires_at
            /\ allowance'[t][owner[t]][s].amount < given.amount
            /\ allowance' = [allowance EXCEPT ![t][owner[t]][s] =
                                allowance'[t][owner[t]][s]]
<1>1. PICK s \in Spenders, n \in Amounts, to \in Accounts : TransferFrom(t, to, s, n)
  BY OwnerMovers DEF IssueToken, TransferToken, RecombineFractions
<1> DEFINE given == allowance[t][owner[t]][s]
           left == Spent(given, n)
<1>2. /\ n > 0 /\ given.amount >= n /\ ~Expired(given)
      /\ allowance' = [allowance EXCEPT ![t][owner[t]][s] = left]
  BY <1>1 DEF TransferFrom, SetAllowance, Covers
<1>3. owner[t] \in Accounts /\ given \in Allowances
  <2>1. owner[t] \in Accounts
    BY DEF OwnershipTypeOK
  <2>2. \A o \in Accounts : allowance[t][o] \in [Spenders -> Allowances]
    BY DEF OwnershipTypeOK
  <2> QED
    BY <2>1, <2>2
<1>4. allowance'[t][owner[t]][s] = left
  BY <1>2, <1>3 DEF OwnershipTypeOK
<1> HIDE DEF given
<1>5. left.amount < given.amount
  <2>1. n \in Int /\ given.amount \in Nat
    BY <1>3, SharesAssumption DEF Allowances
  <2>2. CASE given.amount = n
    BY <1>2, <2>1, <2>2 DEF Spent, NoAllowance
  <2>3. CASE given.amount # n
    BY <1>2, <1>3, <2>1, <2>3 DEF Spent, Allowances
  <2> QED
    BY <2>2, <2>3
<1>6. given.expires_at # Nil => time < given.expires_at
  BY <1>2, <1>3, TimeAssumption DEF Expired, Allowances, OwnershipTypeOK, Moments
<1> HIDE DEF left
<1> QED
  BY <1>2, <1>4, <1>5, <1>6 DEF given

\* A token that is not fractionalized changes hands by its owner's signature
\* or by an allowance the owner gave.
THEOREM DelegationsConsented == OwnershipSpec => DelegationsAreConsented
<1>1. ASSUME OwnershipTypeOK, [OwnershipNext]_tokenVars
      PROVE  [\A t \in Tokens : LET given == allowance[t][owner[t]] IN
                (owner[t] # Nil /\ ~Fractionalized(t) /\ owner'[t] # owner[t]
                    /\ allowance' # allowance)
                => \E s \in Spenders :
                      /\ given[s].expires_at # Nil => time < given[s].expires_at
                      /\ allowance'[t][owner[t]][s].amount < given[s].amount
                      /\ allowance' = [allowance EXCEPT ![t][owner[t]][s] =
                                          allowance'[t][owner[t]][s]]]_tokenVars
  BY <1>1, DelegationStep
<1> QED
  BY <1>1, OwnershipTypeCorrect, PTL DEF OwnershipSpec, DelegationsAreConsented
-----------------------------------------------------------------------------
\* A multiple leaves no remainder.
LEMMA MulMod ==
  ASSUME NEW k \in Int, NEW m \in Nat \ {0}
  PROVE  (m * k) % m = 0
OBVIOUS

\* Whole fractions received by a holder of whole fractions.
LEMMA AddMod ==
  ASSUME NEW a \in Nat, NEW b \in Nat, NEW m \in Nat \ {0}, a % m = 0, b % m = 0
  PROVE  (a + b) % m = 0
<1>1. PICK p \in Nat : a = m * p
  <2>1. a \div m \in Nat /\ a = m * (a \div m) + 0
    BY Division
  <2>2. a = m * (a \div m)
    BY <2>1
  <2> QED
    BY <2>1, <2>2
<1>2. PICK q \in Nat : b = m * q
  <2>1. b \div m \in Nat /\ b = m * (b \div m) + 0
    BY Division
  <2>2. b = m * (b \div m)
    BY <2>1
  <2> QED
    BY <2>1, <2>2
<1> DEFINE k == p + q
<1>3. k \in Int /\ a + b = m * k
  BY <1>1, <1>2
<1> HIDE DEF k
<1>4. (m * k) % m = 0
  BY <1>3, MulMod
<1> QED
  BY <1>3, <1>4

\* Whole fractions sent by a holder of whole fractions.
LEMMA SubMod ==
  ASSUME NEW a \in Nat, NEW b \in Nat, NEW m \in Nat \ {0}, a % m = 0, b % m = 0
  PROVE  (a - b) % m = 0
<1>1. PICK p \in Nat : a = m * p
  <2>1. a \div m \in Nat /\ a = m * (a \div m) + 0
    BY Division
  <2>2. a = m * (a \div m)
    BY <2>1
  <2> QED
    BY <2>1, <2>2
<1>2. PICK q \in Nat : b = m * q
  <2>1. b \div m \in Nat /\ b = m * (b \div m) + 0
    BY Division
  <2>2. b = m * (b \div m)
    BY <2>1
  <2> QED
    BY <2>1, <2>2
<1>3. a - b = m * (p - q)
  BY <1>1, <1>2
<1> QED
  BY <1>3, MulMod

\* Moving whole fractions between holdings of whole fractions leaves whole
\* fractions: the checks of transfer_fraction on the amount.
LEMMA MovedWhole ==
  ASSUME NEW s \in [Accounts -> Nat], NEW from \in Accounts, NEW to \in Accounts,
         NEW n \in Nat, s[from] >= n, NEW m \in Nat \ {0},
         n % m = 0, \A a \in Accounts : s[a] % m = 0
  PROVE  \A a \in Accounts : Moved(s, from, to, n)[a] % m = 0
<1>1. (s[from] - n) % m = 0 /\ (s[to] + n) % m = 0
  BY SubMod, AddMod
<1>2. CASE from = to
  <2>1. \A a \in Accounts : Moved(s, from, to, n)[a] = s[a]
    BY <1>2 DEF Moved
  <2> QED
    BY <2>1
<1>3. CASE from # to
  <2>1. \A a \in Accounts : Moved(s, from, to, n)[a] =
          IF a = from THEN s[from] - n ELSE IF a = to THEN s[to] + n ELSE s[a]
    BY <1>3 DEF Moved
  <2> QED
    BY <1>1, <2>1
<1> QED
  BY <1>2, <1>3

\* Whole holdings stay whole.
LEMMA HoldingsWholeStep ==
  ASSUME OwnershipTypeOK, HoldingsWhole, [OwnershipNext]_tokenVars
  PROVE  HoldingsWhole'
<1>1. CASE info' = info /\ shares' = shares
  BY <1>1 DEF HoldingsWhole, Fractionalized
<1>2. ASSUME NEW t \in Tokens, NEW total \in ShareCounts, NEW min \in FractionSizes,
             FractionalizeToken(t, total, min)
      PROVE  HoldingsWhole'
  <2>1. /\ total \in Nat /\ min \in Nat \ {0} /\ total % min = 0
        /\ owner[t] \in Accounts
    BY <1>2, SharesAssumption DEF FractionalizeToken, OwnershipTypeOK
  <2>2. 0 % min = 0
    BY <2>1
  <2>3. \A a \in Accounts : [NoShares EXCEPT ![owner[t]] = total][a] % min = 0
    BY <2>1, <2>2 DEF NoShares
  <2>4. /\ info'[t].min = min /\ shares'[t] = [NoShares EXCEPT ![owner[t]] = total]
        /\ \A u \in Tokens \ {t} : info'[u] = info[u] /\ shares'[u] = shares[u]
    BY <1>2 DEF FractionalizeToken, OwnershipTypeOK
  <2> QED
    BY <2>3, <2>4 DEF HoldingsWhole, Fractionalized
<1>3. ASSUME NEW t \in Tokens, NEW from \in Accounts, NEW to \in Accounts,
             NEW n \in Amounts, TransferFraction(t, from, to, n)
      PROVE  HoldingsWhole'
  <2>1. /\ n \in Nat /\ n % info[t].min = 0 /\ shares[t][from] >= n
        /\ Fractionalized(t)
    BY <1>3, SharesAssumption DEF TransferFraction, WholeFractions
  <2>2. shares[t] \in [Accounts -> Nat] /\ info[t].min \in Nat \ {0}
    BY <2>1 DEF OwnershipTypeOK, Fractionalized
  <2>3. \A a \in Accounts : Moved(shares[t], from, to, n)[a] % info[t].min = 0
    BY <2>1, <2>2, MovedWhole DEF HoldingsWhole
  <2>4. /\ info' = info /\ shares'[t] = Moved(shares[t], from, to, n)
        /\ \A u \in Tokens \ {t} : shares'[u] = shares[u]
    BY <1>3 DEF TransferFraction, OwnershipTypeOK
  <2> QED
    BY <2>3, <2>4 DEF HoldingsWhole, Fractionalized
<1>4. ASSUME NEW t \in Tokens, NEW a \in Accounts, RecombineFractions(t, a)
      PROVE  HoldingsWhole'
  <2>1. /\ info'[t] = NotFractionalized
        /\ \A u \in Tokens \ {t} : info'[u] = info[u] /\ shares'[u] = shares[u]
    BY <1>4 DEF RecombineFractions, OwnershipTypeOK
  <2> QED
    BY <2>1 DEF HoldingsWhole, Fractionalized
<1>5. ASSUME NEW t \in Tokens, TokenStep(t) PROVE HoldingsWhole'
  <2>1. \/ info' = info /\ shares' = shares
        \/ \E total \in ShareCounts, min \in FractionSizes : FractionalizeToken(t, total, min)
        \/ \E from, to \in Accounts, n \in Amounts : TransferFraction(t, from, to, n)
        \/ \E a \in Accounts : RecombineFractions(t, a)
    BY <1>5 DEF TokenStep, fractions, IssueToken, TransferToken, RevokeAllowance,
         GetAllowance, Approve, TransferFrom, DistributeFractionRewards, StatusChanges
  <2> QED
    BY <2>1, <1>1, <1>2, <1>3, <1>4
<1>6. (\E t \in Tokens : TokenStep(t)) \/ (info' = info /\ shares' = shares)
  BY DEF OwnershipNext, tokenVars, fractions, PauseChanges, TimePasses
<1> QED
  BY <1>1, <1>5, <1>6

\* Every holding consists of whole fractions, for every total and fraction
\* size that fractionalize_token accepts: what makes recombination possible.
THEOREM HoldingsAreWhole == OwnershipSpec => []HoldingsWhole
<1>1. OwnershipInit => HoldingsWhole
  BY DEF OwnershipInit, HoldingsWhole, Fractionalized
<1>2. OwnershipTypeOK /\ HoldingsWhole /\ [OwnershipNext]_tokenVars => HoldingsWhole'
  BY HoldingsWholeStep
<1> QED
  BY <1>1, <1>2, OwnershipTypeCorrect, PTL DEF OwnershipSpec

\* Fractions are neither made, lost nor broken up: the shares of a token add
\* up to its total and are held in whole fractions.
THEOREM FractionsConserved == OwnershipSpec => []FractionsAddUp
<1>1. SharesAddUp /\ HoldingsWhole => FractionsAddUp
  BY DEF FractionsAddUp
<1> QED
  BY <1>1, SharesConserved, HoldingsAreWhole, PTL

-----------------------------------------------------------------------------
\* Every non-empty set of accounts has a first one: the key a Soroban Map
\* lists first.
LEMMA FirstAccount ==
  ASSUME NEW H, H \subseteq Accounts, H # {}
  PROVE  \E a \in H : \A b \in H : a <= b
<1>1. H \subseteq Nat
  BY AccountsAssumption
<1>2. PICK a \in H : \A b \in H : ~(<<b, a>> \in OpToRel(<, Nat))
  BY <1>1, NatLessThanWellFounded, WFMin
<1>3. \A b \in H : ~(b < a)
  BY <1>1, <1>2 DEF OpToRel
<1> QED
  BY <1>1, <1>3

\* A positive number cancels.
LEMMA Cancel ==
  ASSUME NEW a \in Nat, NEW b \in Nat, NEW c \in Nat \ {0}, c * a <= c * b
  PROVE  a <= b
<1>1. CASE c * a < c * b
  BY <1>1, TimesMonotone
<1>2. CASE c * a = c * b
  <2>1. ASSUME a > b PROVE FALSE
    <3>1. a - b \in Nat \ {0} /\ a = b + (a - b)
      BY <2>1
    <3>2. c * a = c * b + c * (a - b) /\ c * (a - b) > 0 /\ c * b \in Nat
      BY <3>1
    <3> QED
      BY <1>2, <3>2
  <2> QED
    BY <2>1
<1>3. c * a \in Nat /\ c * b \in Nat
  OBVIOUS
<1> QED
  BY <1>1, <1>2, <1>3

\* The rounded parts of a reward never exceed it.
LEMMA RoundedTotal ==
  ASSUME OwnershipInv, NEW t \in Tokens, Fractionalized(t), NEW n \in Nat \ {0}
  PROVE  /\ \A a \in Accounts : Part(t, n, a) \in Nat
         /\ Total(Accounts, [a \in Accounts |-> Part(t, n, a)]) \in 0..n
<1> DEFINE rounded == [a \in Accounts |-> Part(t, n, a)]
           total == info[t].total
           held == shares[t]
           parts == [a \in Accounts |-> total * rounded[a]]
           wholes == [a \in Accounts |-> n * held[a]]
<1>1. /\ total \in Nat \ {0} /\ held \in [Accounts -> Nat] /\ Total(Accounts, held) = total
      /\ IsFiniteSet(Accounts)
  BY AccountsAssumption DEF OwnershipInv, OwnershipTypeOK, SharesAddUp, Fractionalized
<1>2. ASSUME NEW a \in Accounts
      PROVE  /\ Part(t, n, a) \in Nat /\ rounded[a] = Part(t, n, a)
             /\ total * rounded[a] <= n * held[a]
             /\ total * rounded[a] \in Nat /\ n * held[a] \in Nat
  <2> DEFINE whole == n * held[a]
  <2>1. whole \in Nat
    BY <1>1
  <2>2. Part(t, n, a) = whole \div total
    BY DEF Part
  <2> HIDE DEF whole, total
  <2>3. /\ whole \div total \in Nat /\ whole % total \in Nat
        /\ whole = total * (whole \div total) + (whole % total)
    <3>1. /\ whole \div total \in Nat /\ whole % total \in 0..(total - 1)
          /\ whole = total * (whole \div total) + (whole % total)
      BY <1>1, <2>1, Division
    <3> QED
      BY <3>1
  <2>4. total * (whole \div total) \in Nat
    BY <1>1, <2>3
  <2>5. total * (whole \div total) <= whole
    BY <2>1, <2>3, <2>4
  <2>6. rounded[a] = whole \div total
    BY <2>2
  <2> QED
    BY <2>1, <2>2, <2>3, <2>4, <2>5, <2>6 DEF whole
<1>3. \A a \in Accounts : rounded[a] \in Nat
  BY <1>2
<1> HIDE DEF rounded, total, held
<1>4. Total(Accounts, parts) = total * Total(Accounts, rounded)
  BY <1>1, <1>3, TotalTimes
<1>5. Total(Accounts, wholes) = n * Total(Accounts, held)
  <2>1. \A a \in Accounts : held[a] \in Nat /\ wholes[a] = n * held[a]
    BY <1>1
  <2>2. n \in Nat \ {0} /\ IsFiniteSet(Accounts)
    BY <1>1
  <2> HIDE DEF wholes
  <2> QED
    BY <2>1, <2>2, TotalTimes
<1>6. Total(Accounts, parts) <= Total(Accounts, wholes)
  BY <1>1, <1>2, TotalLeq
<1>7. Total(Accounts, rounded) \in Nat
  BY <1>1, <1>3, TotalType
<1>8. total * Total(Accounts, rounded) <= total * n
  <2>1. n * Total(Accounts, held) = total * n
    BY <1>1
  <2> HIDE DEF parts, wholes
  <2> QED
    BY <1>4, <1>5, <1>6, <2>1
<1>9. Total(Accounts, rounded) <= n
  BY <1>1, <1>7, <1>8, Cancel
<1> QED
  BY <1>2, <1>7, <1>9 DEF rounded

\* The parts of a reward are natural numbers and add up to it: the remainder
\* of the roundings has a holder to go to.
LEMMA PartsTotal ==
  ASSUME OwnershipInv, NEW t \in Tokens, Fractionalized(t), NEW n \in Nat \ {0}
  PROVE  Parts(t, n) \in [Accounts -> Nat] /\ Total(Accounts, Parts(t, n)) = n
<1> DEFINE rounded == [a \in Accounts |-> Part(t, n, a)]
           first == CHOOSE a \in Holders(t) : \A b \in Holders(t) : a <= b
           remainder == n - Total(Accounts, rounded)
           whole == [rounded EXCEPT ![first] = @ + remainder]
<1>1. rounded \in [Accounts -> Nat] /\ Total(Accounts, rounded) \in 0..n
  BY RoundedTotal
<1>2. Parts(t, n) = IF remainder > 0 THEN whole ELSE rounded
  BY DEF Parts
<1>3. first \in Accounts
  <2>1. /\ shares[t] \in [Accounts -> Nat] /\ IsFiniteSet(Accounts)
        /\ Total(Accounts, shares[t]) # 0
    BY AccountsAssumption DEF OwnershipInv, OwnershipTypeOK, SharesAddUp, Fractionalized
  <2>2. \E a \in Accounts : shares[t][a] > 0
    BY <2>1, TotalPositive
  <2>3. Holders(t) # {} /\ Holders(t) \subseteq Accounts
    BY <2>2 DEF Holders
  <2>4. first \in Holders(t)
    BY <2>3, FirstAccount
  <2> QED
    BY <2>3, <2>4
<1> HIDE DEF rounded, first
<1>4. remainder \in Nat /\ Total(Accounts, rounded) = n - remainder
  BY <1>1
<1>5. CASE remainder = 0
  <2>1. Parts(t, n) = rounded
    BY <1>2, <1>5
  <2> QED
    BY <1>1, <1>5, <2>1
<1>6. CASE remainder > 0
  <2> HIDE DEF remainder
  <2>1. Parts(t, n) = whole
    BY <1>2, <1>6
  <2>2. /\ whole \in [Accounts -> Nat] /\ whole[first] = rounded[first] + remainder
        /\ \A a \in Accounts \ {first} : whole[a] = rounded[a]
    BY <1>1, <1>3, <1>4
  <2>3. /\ IsFiniteSet(Accounts) /\ rounded[first] \in Nat
        /\ \A a \in Accounts : rounded[a] \in Nat /\ whole[a] \in Nat
    BY <1>1, <1>3, <2>2, AccountsAssumption
  <2> HIDE DEF whole
  <2>4. Total(Accounts, whole) = Total(Accounts, rounded) - rounded[first] + whole[first]
    BY <1>3, <2>2, <2>3, TotalExcept
  <2>5. Total(Accounts, whole) = n
    BY <1>4, <2>2, <2>3, <2>4
  <2> QED
    BY <2>1, <2>2, <2>5
<1> QED
  BY <1>4, <1>5, <1>6

\* A distribution adds what it distributes, a recombination drops everything,
\* and nothing else touches the rewards.
LEMMA RewardsStep ==
  ASSUME OwnershipInv, RewardsConserved, [OwnershipNext]_tokenVars
  PROVE  RewardsConserved'
<1>1. CASE UNCHANGED <<pending, distributed>>
  BY <1>1 DEF RewardsConserved
<1>2. ASSUME NEW t \in Tokens, NEW a \in Accounts, RecombineFractions(t, a)
      PROVE  RewardsConserved'
  <2>1. /\ pending'[t] = NoShares /\ distributed'[t] = 0
        /\ \A u \in Tokens \ {t} : pending'[u] = pending[u] /\ distributed'[u] = distributed[u]
    BY <1>2 DEF RecombineFractions, OwnershipInv, OwnershipTypeOK
  <2>2. Total(Accounts, NoShares) = 0
    BY NothingHeld, AccountsAssumption
  <2> QED
    BY <2>1, <2>2 DEF RewardsConserved
<1>3. ASSUME NEW t \in Tokens, NEW n \in RewardAmounts, DistributeFractionRewards(t, n)
      PROVE  RewardsConserved'
  <2> DEFINE parts == Parts(t, n)
             before == pending[t]
             after == [a \in Accounts |-> before[a] + parts[a]]
  <2>1. /\ n \in Nat \ {0} /\ Fractionalized(t)
        /\ before \in [Accounts -> Nat] /\ Total(Accounts, before) = distributed[t]
        /\ IsFiniteSet(Accounts)
    BY <1>3, RewardsAssumption, AccountsAssumption
    DEF DistributeFractionRewards, OwnershipInv, OwnershipTypeOK, RewardsConserved
  <2>2. parts \in [Accounts -> Nat] /\ Total(Accounts, parts) = n
    BY <2>1, PartsTotal
  <2>3. /\ pending' = [pending EXCEPT ![t] = after]
        /\ distributed' = [distributed EXCEPT ![t] = @ + n]
    BY <1>3 DEF DistributeFractionRewards
  <2>4. /\ pending'[t] = after /\ distributed'[t] = distributed[t] + n
        /\ \A u \in Tokens \ {t} : pending'[u] = pending[u] /\ distributed'[u] = distributed[u]
    BY <2>3 DEF OwnershipInv, OwnershipTypeOK
  <2> HIDE DEF parts, before
  <2>5. Total(Accounts, after) = Total(Accounts, before) + Total(Accounts, parts)
    BY <2>1, <2>2, TotalPlus
  <2>6. Total(Accounts, pending'[t]) = distributed'[t]
    BY <2>1, <2>2, <2>4, <2>5
  <2> QED
    BY <2>4, <2>6 DEF RewardsConserved
<1>4. ASSUME NEW t \in Tokens, TokenStep(t) PROVE RewardsConserved'
  <2>1. \/ UNCHANGED <<pending, distributed>>
        \/ \E a \in Accounts : RecombineFractions(t, a)
        \/ \E n \in RewardAmounts : DistributeFractionRewards(t, n)
    BY <1>4 DEF TokenStep, fractions, IssueToken, TransferToken, RevokeAllowance,
         GetAllowance, Approve, TransferFrom, FractionalizeToken, TransferFraction,
         StatusChanges
  <2> QED
    BY <1>1, <1>2, <1>3, <2>1
<1>5. (\E t \in Tokens : TokenStep(t)) \/ UNCHANGED <<pending, distributed>>
  BY DEF OwnershipNext, tokenVars, fractions, PauseChanges, TimePasses
<1> QED
  BY <1>1, <1>4, <1>5

\* Rounding loses nothing, for every division of a token and every sequence of
\* rewards: what is pending for its holders is what was distributed.
THEOREM RewardsAreConserved == OwnershipSpec => []RewardsConserved
<1>1. OwnershipInit => RewardsConserved
  BY NothingHeld, AccountsAssumption DEF OwnershipInit, RewardsConserved
<1>2. OwnershipInv /\ RewardsConserved /\ [OwnershipNext]_tokenVars => RewardsConserved'
  BY RewardsStep
<1> QED
  BY <1>1, <1>2, OwnershipInvariant, PTL DEF OwnershipSpec
=============================================================================
