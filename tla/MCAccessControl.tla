--------------------------- MODULE MCAccessControl ---------------------------
(* Two administrators, one further account and at most two proposals.      *)
EXTENDS AccessControl

CONSTANTS a1, a2, u1

MCAccounts == {a1, a2, u1}
MCTargets == {u1}
Once(accounts) == accounts \X {0}
MCAdminLists == {Once({a1, a2})}
NoPayload == [kind |-> "Pause", users |-> {}, role |-> None, config |-> None,
              multisig |-> NoMultisig]
MCSmallerMultisig ==
    [admins |-> Once({a1, u1}), required_signatures |-> 1, critical_threshold |-> 1,
     emergency_threshold |-> 1, time_lock_duration |-> 1, max_pending_proposals |-> 1,
     proposal_expiry_duration |-> 2]
MCRepeatingMultisig ==
    [MCSmallerMultisig EXCEPT !.admins = {<<a1, 0>>, <<a2, 0>>, <<a2, 1>>},
                              !.emergency_threshold = 2, !.max_pending_proposals = 2]
MCActions == {NoPayload,
    [NoPayload EXCEPT !.kind = "Unpause"],
    [NoPayload EXCEPT !.kind = "EmergencyPause"],
    [NoPayload EXCEPT !.kind = "ScheduleUpgrade"],
    [NoPayload EXCEPT !.kind = "SetRole", !.users = {u1}, !.role = "Member"],
    [NoPayload EXCEPT !.kind = "UpdateConfig", !.config = "membersOnly"],
    [NoPayload EXCEPT !.kind = "BatchBlacklist", !.users = {u1, a2}],
    [NoPayload EXCEPT !.kind = "AddAdmin", !.users = {u1}],
    [NoPayload EXCEPT !.kind = "RemoveAdmin", !.users = {a2}],
    [NoPayload EXCEPT !.kind = "UpdateMultisigConfig", !.multisig = MCSmallerMultisig],
    [NoPayload EXCEPT !.kind = "UpdateMultisigConfig", !.multisig = MCRepeatingMultisig]}
=============================================================================
