-------------------------- MODULE MCBookingPayments -------------------------
(***************************************************************************)
(* Instances of BookingPayments for TLC.                                   *)
(*  seats:    a guest's day pass on the second of two days, with one        *)
(*            payment, against a member's booking of two seats over both   *)
(*            days: together they need three seats where two exist.        *)
(*  payments: one long-term booking with two payment ids, so that requests *)
(*            on one booking race with each other.                         *)
(***************************************************************************)
EXTENDS BookingPayments, TLC

CONSTANTS b1, b2, p1, p2, u1, w1, w2

SeatsStart == b1 :> 2 @@ b2 :> 1
SeatsEnd == b1 :> 2 @@ b2 :> 2
SeatsCount == b1 :> 1 @@ b2 :> 2
SeatsOwner == b1 :> None @@ b2 :> u1
SeatsPlan == b1 :> "daily" @@ b2 :> "monthly"
OnePaymentOf == p1 :> b1

PaymentsDay == b1 :> 1
PaymentsOwner == b1 :> u1
PaymentsPlan == b1 :> "monthly"
PaymentsBookingOf == p1 :> b1 @@ p2 :> b1

WorkerSymmetry == Permutations({w1, w2})
=============================================================================
