---------------------------- MODULE AccessControl ----------------------------
(***************************************************************************)
(* The Soroban contract contracts/access_control: roles, pause, blacklist, *)
(* the two-step admin transfer of single-admin mode, and the proposals of  *)
(* multisig mode.  An invocation is atomic and its entry point unwraps the *)
(* result of the module, so that every error reverts everything the module *)
(* wrote: an action is an invocation that succeeds.                        *)
(***************************************************************************)
EXTENDS Integers, SequencesExt

CONSTANTS
    Accounts,          \* addresses
    TokenHolders,      \* accounts whose membership-token balance suffices
    Targets,           \* accounts roles and the blacklist are applied to
    AdminLists,        \* admin vectors passed to initialize_multisig
    Actions,           \* actions passed to create_proposal
    MaxProposals,      \* bound on the proposals ever created
    MaxTime,           \* bound on the ledger timestamp
    TransferWindow,    \* 86400 s, life of an admin transfer
    TimeLockDuration, ProposalExpiry, MaxPendingProposals,
                       \* defaults of initialize_multisig: 86400 s, 604800 s, 50
    None

Roles == {"Guest", "Member", "Admin"}
\* With "membersOnly" the roles Member and Admin need a membership token.
Configs == {"open", "membersOnly"}
Ids == 0..(MaxProposals - 1)
Kinds == {"SetRole", "UpdateConfig", "AddAdmin", "RemoveAdmin", "Pause", "Unpause",
          "UpdateMultisigConfig", "EmergencyPause", "BatchBlacklist",
          "TransferAdmin", "ScheduleUpgrade", "EmergencyAdminTransfer"}
\* A vector of administrators is the set of its entries <<address, n>>, where n
\* only tells apart the entries of one address: nothing reads their order.
AdminVectors == {s \in SUBSET (Accounts \X Nat) : IsFiniteSet(s)}
Named(admins) == {e[1] : e \in admins}
NamedOnce(admins) == \A d, e \in admins : d[1] = e[1] => d = e
MultiSigConfig == [admins : AdminVectors, required_signatures : Nat,
                   critical_threshold : Nat, emergency_threshold : Nat,
                   time_lock_duration : Nat, max_pending_proposals : Nat,
                   proposal_expiry_duration : Nat]
\* DataKey::MultiSigConfig is absent.
NoMultisig == [admins |-> {}, required_signatures |-> 0, critical_threshold |-> 0,
               emergency_threshold |-> 0, time_lock_duration |-> 0,
               max_pending_proposals |-> 0, proposal_expiry_duration |-> 0]
\* An action carries what its kind needs and null values elsewhere.
ProposalAction == [kind : Kinds, users : SUBSET Accounts, role : Roles \cup {None},
                   config : Configs \cup {None}, multisig : MultiSigConfig]

ASSUME ActionsAssumption ==
    /\ \A a \in Actions :
        /\ a \in ProposalAction
        /\ a.kind = "SetRole" => a.role \in Roles
        /\ a.kind = "UpdateConfig" => a.config \in Configs
    /\ AdminLists \subseteq AdminVectors
ASSUME DurationsAssumption ==
    /\ MaxProposals \in Nat /\ MaxTime \in Nat /\ TransferWindow \in Nat
    /\ {TimeLockDuration, ProposalExpiry, MaxPendingProposals} \subseteq Nat \ {0}
ASSUME TargetsAssumption == Targets \subseteq Accounts
ASSUME AccessNoneAssumption ==
    None \notin Accounts \cup Roles \cup Configs \cup Nat

VARIABLES
    now,          \* ledger timestamp
    initialized, admin, config, paused, role, blacklisted,
    transfer,     \* DataKey::PendingAdminTransfer
    multisig,     \* DataKey::MultiSigConfig, NoMultisig in single-admin mode
    emergency,    \* DataKey::EmergencyMode
    proposal,     \* DataKey::Proposal, Absent when not stored
    counter,      \* DataKey::ProposalCounter, also total_created
    pending,      \* DataKey::PendingProposalsList, how often it names an id
    stats         \* DataKey::ProposalStats; total_rejected never leaves 0

governed == <<config, paused, emergency, multisig, role, blacklisted>>
votes == <<proposal, counter, pending, stats>>
vars == <<now, initialized, admin, transfer, governed, votes>>

Absent == [action |-> None, proposer |-> None, approvals |-> <<>>, rejections |-> <<>>,
           executed |-> FALSE, expiry |-> 0, time_lock_until |-> None,
           required_signatures |-> 0]
PendingProposal ==
    [action : Actions, proposer : Accounts, approvals : Seq(Accounts),
     rejections : Seq(Accounts), executed : BOOLEAN, expiry : Nat,
     time_lock_until : Nat \cup {None}, required_signatures : Nat]

Init ==
    /\ now = 0 /\ initialized = FALSE /\ admin = None
    /\ config = "open" /\ paused = FALSE
    /\ role = [a \in Accounts |-> "Guest"] /\ blacklisted = {}
    /\ transfer = None /\ multisig = NoMultisig /\ emergency = FALSE
    /\ proposal = [i \in Ids |-> Absent] /\ counter = 0 /\ pending = [i \in Ids |-> 0]
    /\ stats = [total_executed |-> 0, total_expired |-> 0, pending_count |-> 0]

MultisigEnabled == multisig # NoMultisig
IsAdmin(a) == IF MultisigEnabled THEN a \in Named(multisig.admins) ELSE role[a] = "Admin"
Smaller(m, n) == IF m < n THEN m ELSE n
Larger(m, n) == IF m < n THEN n ELSE m

-----------------------------------------------------------------------------
\* initialize and initialize_multisig.

Initialize(a) ==
    /\ ~initialized
    /\ initialized' = TRUE /\ admin' = a /\ role' = [role EXCEPT ![a] = "Admin"]
    /\ UNCHANGED <<now, config, paused, blacklisted, transfer, multisig, emergency, votes>>

\* MultiSigConfig::validate, which does not look for duplicates.
Validate(m) ==
    /\ m.admins # {} /\ m.required_signatures > 0
    /\ m.required_signatures <= Cardinality(m.admins)
    /\ m.critical_threshold >= m.required_signatures
    /\ m.emergency_threshold >= m.critical_threshold
    /\ m.emergency_threshold <= Cardinality(m.admins)
    /\ m.time_lock_duration > 0 /\ m.max_pending_proposals > 0
    /\ m.proposal_expiry_duration > 0

DefaultConfig(admins, required) ==
    LET critical == Smaller(required + 1, Cardinality(admins)) IN
    [admins |-> admins, required_signatures |-> required,
     critical_threshold |-> critical,
     emergency_threshold |-> Smaller(critical + 1, Cardinality(admins)),
     time_lock_duration |-> TimeLockDuration,
     max_pending_proposals |-> MaxPendingProposals,
     proposal_expiry_duration |-> ProposalExpiry]

InitializeMultisig(admins, required) ==
    /\ ~initialized
    /\ admins # {} /\ required \in 1..Cardinality(admins) /\ NamedOnce(admins)
    /\ Validate(DefaultConfig(admins, required))
    /\ initialized' = TRUE
    /\ multisig' = DefaultConfig(admins, required)
    /\ role' = [a \in Accounts |-> IF a \in Named(admins) THEN "Admin" ELSE role[a]]
    /\ UNCHANGED <<now, admin, config, paused, blacklisted, transfer, emergency, votes>>

-----------------------------------------------------------------------------
\* Operations of one administrator.

\* validate_role_assignment.
RoleAllowed(user, r) ==
    (config = "membersOnly" /\ r # "Guest") => user \in TokenHolders

SetRole(caller, user, r) ==
    /\ initialized /\ ~paused /\ user \notin blacklisted
    /\ IsAdmin(caller) /\ RoleAllowed(user, r)
    /\ role' = [role EXCEPT ![user] = r]
    /\ UNCHANGED <<now, initialized, admin, config, paused, blacklisted, transfer,
                   multisig, emergency, votes>>

RemoveRole(caller, user) ==
    /\ IsAdmin(caller) /\ user # admin
    /\ ~(caller = user /\ role[user] = "Admin")
    /\ role' = [role EXCEPT ![user] = "Guest"]
    /\ UNCHANGED <<now, initialized, admin, config, paused, blacklisted, transfer,
                   multisig, emergency, votes>>

Blacklist(caller, users) ==
    /\ IsAdmin(caller) /\ blacklisted' = users
    /\ UNCHANGED <<now, initialized, admin, config, paused, role, transfer,
                   multisig, emergency, votes>>

BlacklistUser(caller, user) == Blacklist(caller, blacklisted \cup {user})
UnblacklistUser(caller, user) == Blacklist(caller, blacklisted \ {user})

\* Variant: multisig mode does not close the direct entry points.
AnyAdminDecides(caller) == IsAdmin(caller)

\* update_config, pause, unpause and deactivate_emergency_mode are refused in
\* multisig mode.
DecidesAlone(caller) == ~MultisigEnabled /\ IsAdmin(caller)

UpdateConfig(caller, c) ==
    /\ DecidesAlone(caller) /\ config' = c
    /\ UNCHANGED <<now, initialized, admin, paused, role, blacklisted, transfer,
                   multisig, emergency, votes>>

SetPaused(caller, p) ==
    /\ DecidesAlone(caller) /\ paused' = p
    /\ UNCHANGED <<now, initialized, admin, config, role, blacklisted, transfer,
                   multisig, emergency, votes>>

DeactivateEmergencyMode(caller) ==
    /\ DecidesAlone(caller) /\ emergency' = FALSE
    /\ UNCHANGED <<now, initialized, admin, config, paused, role, blacklisted, transfer,
                   multisig, votes>>

ProposeAdminTransfer(current, new) ==
    /\ DecidesAlone(current) /\ current # new
    /\ transfer' = [proposed |-> new, proposer |-> current, expiry |-> now + TransferWindow]
    /\ UNCHANGED <<now, initialized, admin, governed, votes>>

TransferOpen(new) == transfer # None /\ transfer.proposed = new /\ now <= transfer.expiry

\* The previous administrator is written last, also when it is the new one.
AcceptAdminTransfer(new) ==
    /\ TransferOpen(new) /\ admin # None
    /\ admin' = new
    /\ role' = [role EXCEPT ![new] = "Admin", ![admin] = "Guest"]
    /\ transfer' = None
    /\ UNCHANGED <<now, initialized, config, paused, blacklisted, multisig, emergency, votes>>

CancelAdminTransfer(current) ==
    /\ IsAdmin(current) /\ transfer # None /\ transfer.proposer = current
    /\ transfer' = None
    /\ UNCHANGED <<now, initialized, admin, governed, votes>>

-----------------------------------------------------------------------------
\* Proposals.

\* ProposalAction::classify_type.
Classify(kind) ==
    CASE kind \in {"SetRole", "Unpause"} -> "Standard"
      [] kind \in {"EmergencyPause", "EmergencyAdminTransfer"} -> "Emergency"
      [] kind = "ScheduleUpgrade" -> "TimeLocked"
      [] OTHER -> "Critical"

RequiresTimeLock(kind) == Classify(kind) \in {"TimeLocked", "Critical"}

RequiredSignatures(kind) ==
    CASE Classify(kind) = "Standard" -> multisig.required_signatures
      [] Classify(kind) = "Emergency" -> multisig.emergency_threshold
      [] OTHER -> multisig.critical_threshold

\* Variant: the size may reach the threshold and then drop below it.
RemovableAtThreshold == Cardinality(multisig.admins) >= multisig.emergency_threshold

Removable == Cardinality(multisig.admins) > multisig.emergency_threshold

\* The size is compared before the removal, which takes every entry of a.
Dismiss(admins, a) == {e \in admins : e[1] # a}

\* The match of execute_proposal; the kinds without an arm are refused, and so
\* is the invocation that would have executed them.
Perform(act) ==
    \/ /\ act.kind = "SetRole" /\ \A u \in act.users : RoleAllowed(u, act.role)
       /\ role' = [u \in Accounts |-> IF u \in act.users THEN act.role ELSE role[u]]
       /\ UNCHANGED <<config, paused, emergency, multisig, blacklisted>>
    \/ /\ act.kind = "UpdateConfig" /\ config' = act.config
       /\ UNCHANGED <<paused, emergency, multisig, role, blacklisted>>
    \/ /\ act.kind \in {"Pause", "EmergencyPause"} /\ paused' = TRUE
       /\ emergency' = (emergency \/ act.kind = "EmergencyPause")
       /\ UNCHANGED <<config, multisig, role, blacklisted>>
    \/ /\ act.kind = "Unpause" /\ paused' = FALSE
       /\ UNCHANGED <<config, emergency, multisig, role, blacklisted>>
    \/ /\ act.kind = "UpdateMultisigConfig" /\ Validate(act.multisig)
       /\ multisig' = act.multisig
       /\ UNCHANGED <<config, paused, emergency, role, blacklisted>>
    \/ /\ act.kind = "BatchBlacklist" /\ blacklisted' = blacklisted \cup act.users
       /\ UNCHANGED <<config, paused, emergency, multisig, role>>
    \/ \E a \in act.users :
       /\ act.kind = "AddAdmin" /\ a \notin Named(multisig.admins)
       /\ multisig' = [multisig EXCEPT !.admins = @ \cup {<<a, 0>>}]
       /\ role' = [role EXCEPT ![a] = "Admin"]
       /\ UNCHANGED <<config, paused, emergency, blacklisted>>
    \/ \E a \in act.users :
       /\ act.kind = "RemoveAdmin" /\ Removable
       /\ multisig' = [multisig EXCEPT !.admins = Dismiss(@, a)]
       /\ role' = [role EXCEPT ![a] = "Guest"]
       /\ UNCHANGED <<config, paused, emergency, blacklisted>>

\* remove_from_pending_list.
Without(list, ids) == [i \in Ids |-> IF i \in ids THEN 0 ELSE list[i]]

\* Saturating subtraction.
Fewer(n, k) == Larger(n - k, 0)

\* can_execute and time_lock_passed of approve_proposal.
Executable(p) ==
    /\ Len(p.approvals) >= p.required_signatures
    /\ p.time_lock_until # None => now >= p.time_lock_until

\* Store p under id i; the vote that makes it executable also executes it.
StoreAndExecute(i, p, list, count) ==
    IF Executable(p)
    THEN /\ Perform(p.action)
         /\ proposal' = [proposal EXCEPT ![i] = [p EXCEPT !.executed = TRUE]]
         /\ pending' = Without(list, {i})
         /\ stats' = [stats EXCEPT !.total_executed = @ + 1, !.pending_count = Fewer(count, 1)]
    ELSE /\ proposal' = [proposal EXCEPT ![i] = p]
         /\ pending' = list
         /\ stats' = [stats EXCEPT !.pending_count = count]
         /\ UNCHANGED governed

CreateProposal(proposer, act) ==
    /\ MultisigEnabled /\ IsAdmin(proposer)
    /\ stats.pending_count < multisig.max_pending_proposals
    /\ counter \in Ids /\ counter' = counter + 1
    /\ StoreAndExecute(counter,
         [action |-> act, proposer |-> proposer, approvals |-> <<proposer>>,
          rejections |-> <<>>, executed |-> FALSE,
          expiry |-> now + multisig.proposal_expiry_duration,
          time_lock_until |-> IF RequiresTimeLock(act.kind)
                              THEN now + multisig.time_lock_duration ELSE None,
          required_signatures |-> RequiredSignatures(act.kind)],
         [pending EXCEPT ![counter] = @ + 1], stats.pending_count + 1)
    /\ UNCHANGED <<now, initialized, admin, transfer>>

\* On an expired proposal the vote fails, and with it the clean-up it started.
MayVote(a, i) ==
    /\ IsAdmin(a) /\ proposal[i] # Absent /\ ~proposal[i].executed
    /\ now <= proposal[i].expiry
    /\ a \notin ToSet(proposal[i].approvals) \cup ToSet(proposal[i].rejections)

ApproveProposal(a, i) ==
    /\ MayVote(a, i)
    /\ StoreAndExecute(i, [proposal[i] EXCEPT !.approvals = Append(@, a)],
                       pending, stats.pending_count)
    /\ UNCHANGED <<now, initialized, admin, transfer, counter>>

RejectionThreshold == Larger(Cardinality(multisig.admins) \div 3, 1)

\* The vote that exceeds the threshold removes the proposal and then returns
\* ProposalRejected, which reverts the removal and the vote.
RejectProposal(a, i) ==
    /\ MultisigEnabled /\ MayVote(a, i)
    /\ Len(proposal[i].rejections) + 1 <= RejectionThreshold
    /\ proposal' = [proposal EXCEPT ![i].rejections = Append(@, a)]
    /\ UNCHANGED <<now, initialized, admin, transfer, governed, counter, pending, stats>>

\* Take ids out of storage, out of the pending list and out of the count.
Discard(ids, expired) ==
    /\ proposal' = [i \in Ids |-> IF i \in ids THEN Absent ELSE proposal[i]]
    /\ pending' = Without(pending, ids)
    /\ stats' = [stats EXCEPT !.total_expired = @ + expired,
                              !.pending_count = Fewer(@, Cardinality(ids))]
    /\ UNCHANGED <<now, initialized, admin, transfer, governed, counter>>

\* Variant: an executed proposal can be cancelled.
CancelableByProposer(a, i) == proposal[i].proposer = a

Cancelable(a, i) == proposal[i].proposer = a /\ ~proposal[i].executed

CancelProposal(a, i) == Cancelable(a, i) /\ Discard({i}, 0)

Expired == {i \in Ids :
              pending[i] > 0 /\ proposal[i] # Absent /\ now > proposal[i].expiry /\ ~proposal[i].executed}

\* With nothing expired the entry point changes nothing.
CleanupExpiredProposals == Expired # {} /\ Discard(Expired, Cardinality(Expired))

Tick ==
    /\ now < MaxTime /\ now' = now + 1
    /\ UNCHANGED <<initialized, admin, transfer, governed, votes>>

Next ==
    \/ \E a \in Accounts :
        \/ Initialize(a)
        \/ \E u \in Targets, r \in Roles : SetRole(a, u, r)
        \/ \E u \in Targets :
              RemoveRole(a, u) \/ BlacklistUser(a, u) \/ UnblacklistUser(a, u)
        \/ \E c \in Configs : UpdateConfig(a, c)
        \/ \E p \in BOOLEAN : SetPaused(a, p)
        \/ DeactivateEmergencyMode(a)
        \/ \E new \in Accounts : ProposeAdminTransfer(a, new)
        \/ AcceptAdminTransfer(a) \/ CancelAdminTransfer(a)
        \/ \E act \in Actions : CreateProposal(a, act)
        \/ \E i \in Ids : ApproveProposal(a, i) \/ RejectProposal(a, i) \/ CancelProposal(a, i)
    \/ \E admins \in AdminLists : \E required \in 1..Cardinality(admins) :
          InitializeMultisig(admins, required)
    \/ CleanupExpiredProposals
    \/ Tick

Spec == Init /\ [][Next]_vars

-----------------------------------------------------------------------------
Stored == {i \in Ids : proposal[i] # Absent}
Undecided == {i \in Stored : ~proposal[i].executed}

\* Every storage entry keeps its type.
TypeOK ==
    /\ now \in 0..MaxTime /\ counter \in 0..MaxProposals
    /\ initialized \in BOOLEAN /\ paused \in BOOLEAN /\ emergency \in BOOLEAN
    /\ admin \in Accounts \cup {None} /\ config \in Configs
    /\ role \in [Accounts -> Roles] /\ blacklisted \subseteq Accounts
    /\ transfer \in [proposed : Accounts, proposer : Accounts, expiry : Nat] \cup {None}
    /\ multisig \in MultiSigConfig
    /\ proposal \in [Ids -> PendingProposal \cup {Absent}]
    /\ pending \in [Ids -> Nat]
    /\ stats \in [total_executed : Nat, total_expired : Nat, pending_count : Nat]

\* The three records of what is pending agree: the list, the count that limits
\* new proposals, and the stored proposals nobody has executed.
PendingExact ==
    /\ \A i \in Ids : pending[i] = IF i \in Undecided THEN 1 ELSE 0
    /\ stats.pending_count = Cardinality(Undecided)
    /\ stats.total_executed = Cardinality(Stored \ Undecided)

\* Nobody votes twice on a proposal, neither twice for it nor for and against.
VotesAreSingle ==
    \A i \in Stored : IsInjective(proposal[i].approvals \o proposal[i].rejections)

\* Types, and agreement of what is recorded of proposals and of their votes.
RecordsAgree == TypeOK /\ PendingExact /\ VotesAreSingle

\* In multisig mode the configuration, the pause, the emergency mode and the
\* multisig itself only change in a step that executes a proposal, which has the
\* approvals of its type, is past its time lock and not expired.
Executes(i) ==
    /\ proposal'[i] # Absent /\ proposal'[i].executed /\ ~proposal[i].executed
    /\ Len(proposal'[i].approvals) >= proposal'[i].required_signatures
    /\ proposal'[i].time_lock_until # None => now >= proposal'[i].time_lock_until
    /\ now <= proposal'[i].expiry
GovernedByProposals ==
    [][/\ (MultisigEnabled /\ <<config, paused, emergency, multisig>>'
                                # <<config, paused, emergency, multisig>>)
             => \E i \in Ids : Executes(i)
       /\ \A i \in Ids : (proposal'[i].executed /\ ~proposal[i].executed) => Executes(i)]_vars

\* The administrators there are can reach every threshold.
ThresholdsReachable ==
    MultisigEnabled => NamedOnce(multisig.admins) /\ Validate(multisig)

\* A step that executes a configuration in which somebody is named twice.
InstallsDuplicates ==
    \E i \in Ids : /\ Executes(i) /\ proposal'[i].action.kind = "UpdateMultisigConfig"
                   /\ ~NamedOnce(proposal'[i].action.multisig.admins)

\* Proposals that add, remove and replace administrators never leave fewer of
\* them than a threshold asks for, unless one installs a list that names
\* somebody twice, which is accepted; and a vote that gives a proposal the
\* approvals it needs leaves it waiting only while its time lock is closed.
\* Such a proposal is lost unless yet another administrator approves it later:
\* execute_proposal is no entry point, and nobody votes twice.
VotesSuffice ==
    [][/\ ThresholdsReachable => ThresholdsReachable' \/ InstallsDuplicates
       /\ \A i \in Undecided' :
            Len(proposal'[i].approvals) >= proposal'[i].required_signatures =>
                \/ proposal'[i].approvals = proposal[i].approvals
                \/ /\ proposal'[i].time_lock_until # None
                   /\ now < proposal'[i].time_lock_until]_vars
=============================================================================
