\* Multisig and single-admin mode of access_control.
CONSTANTS
    a1 = a1
    a2 = a2
    u1 = u1
    None = None
    Accounts <- MCAccounts
    TokenHolders <- MCTargets
    Targets <- MCTargets
    AdminLists <- MCAdminLists
    Actions <- MCActions
    MaxProposals = 2
    MaxTime = 2
    TransferWindow = 1
    TimeLockDuration = 1
    ProposalExpiry = 1
    MaxPendingProposals = 2
SPECIFICATION Spec
INVARIANT RecordsAgree
PROPERTIES GovernedByProposals VotesSuffice
CHECK_DEADLOCK FALSE
