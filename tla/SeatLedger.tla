----------------------------- MODULE SeatLedger -----------------------------
(***************************************************************************)
(* What the booking service promises about the seats of a workspace: a     *)
(* booking is admitted in one indivisible step, and only if on every day   *)
(* of its window the admitted bookings fit in the seats the workspace has  *)
(* at that moment.  Seats are given back at any time, and an administrator *)
(* may resize the workspace (also below what is already admitted).         *)
(***************************************************************************)
EXTENDS SeatMath

VARIABLES held, seats

ledgerVars == <<held, seats>>

LedgerInit == held = {} /\ seats = InitialSeats

Admit(b) ==
    /\ b \notin held
    /\ held' = held \cup {b}
    /\ \A d \in Days(b) : BookedSeats(On(held', d)) <= seats
    /\ UNCHANGED seats

GiveBack ==
    /\ held' \subseteq held
    /\ UNCHANGED seats

Resize ==
    /\ seats' \in Nat
    /\ UNCHANGED held

LedgerNext == (\E b \in Bookings : Admit(b)) \/ GiveBack \/ Resize

LedgerSpec == LedgerInit /\ [][LedgerNext]_ledgerVars
=============================================================================
