CONSTANTS
    None = None
    u1 = u1
    f1 = f1
    f2 = f2
    w1 = w1
    w2 = w2
    Users = {u1}
    Families = {f1, f2}
    UserOf <- TwoSessionsOf
    MaxVersion = 3
    Workers = {w1, w2}
    NoUser = NoUser
    x1 = x1
    x2 = x2
    Tabs = {x1, x2}
    Visitors = {"u1", "u2"}
    Admins = {"u2"}
    MaxRequests = 2
    Wizards = {"w1"}
    Owners = {"o1", "o2"}
    Digits = {"d1"}
    MaxIssues = 2
    MaxResetCalls = 2
    Envelopes = {"data", "bare"}
    IdForms = {"bytes", "text"}
    CodeNumbers = {1, 2}
    MaxFactorSaves = 3
    MaxPageSaves = 2
    MaxChallenges = 2
    MaxFactorCalls = 2
    Parts = {"server", "client", "reset", "second factor"}
SPECIFICATION SessionsSpec
INVARIANTS OneLivePerFamily ClientAgrees RecoveryEarned 
PROPERTY ClosedStaysClosed
CHECK_DEADLOCK FALSE
VIEW PartView
