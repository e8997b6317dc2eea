-------------------------- MODULE MCWorkspaceBooking -------------------------
(* One workspace whose capacity is two seats or the largest u32, and three *)
(* bookings of two members that may overlap pairwise or all at once.       *)
EXTENDS WorkspaceBooking

CONSTANTS w1, b1, b2, b3, m1, m2

MCWorkspaces == {w1}
MCBookings == {b1, b2, b3}
MCMembers == {m1, m2}
MCInitialBalance == [m \in MCMembers |-> 2]
MCCapacities == {0, 2, 3}
MCRates == {0, 1, 2}
MCSeatCounts == {0, 1, 2}
MCSymmetry == Permutations(MCBookings) \cup Permutations(MCMembers)
=============================================================================
