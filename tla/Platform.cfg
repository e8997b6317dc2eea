CONSTANTS
    Parts = {"registration", "bookings", "check-ins", "mailing", "administration",
             "workspaces", "money", "notifications", "escrow calls", "staff sign-in",
             "reports"}
    Forms = {"f1", "f2"}
    Emails = {"e1"}
    MaxVerifications = 2
    MaxSignUpCalls = 2
    Dialects = {"types", "enums"}
    MaxBookingVersion = 2
    MaxBookingCalls = 1
    Owner = "u1"
    Guests = {}
    Rooms = {"r1"}
    MaxVisits = 2
    MaxTrackingCalls = 2
    Addresses = {"a1"}
    MailSides = {"newsletter", "contact"}
    MaxAttempts = 2
    MaxTokens = 2
    MaxMailCalls = 2
    MaxMessages = 2
    AdminAccount = "a"
    OtherAccount = "b"
    InitialRoles = {"admin"}
    AdminSides = {"none", "dashboard", "members"}
    ClientOps = {"make-user", "deactivate", "delete"}
    MaxUserWrites = 3
    MaxAdminCalls = 2
    MaxRefreshes = 1
    Spaces = {"s1", "s2"}
    FirstSpace = "s1"
    SpaceNames = {"n1"}
    Rates = {1}
    Spellings = {"types", "enum"}
    MaxSpaceWrites = 3
    MaxSpaceCalls = 1
    MoneyApis = {"typed", "built"}
    Charges = {"p1"}
    InvoiceIds = {"i1", "404"}
    MaxCharged = 3
    MaxRefundCalls = 2
    MaxAsked = 1
    NoticeApis = {"typed", "built"}
    NoticeTabs = {"unread"}
    MaxNotices = 2
    BellLimit = 1
    PageLimit = 2
    MaxNoticeCalls = 1
    EscrowCallers = {1, 2}
    EscrowIds = {"e1"}
    StellarNetworks = {"unset", "public", "known"}
    BuildTimes = {1}
    MaxEscrowCalls = 2
    SsoBuilds = {"typed", "built"}
    SamlSettings = {TRUE, FALSE}
    AccountIds = {1, 2}
    Assertions = {1, 2}
    MaxStaffWrites = 2
    ReportBuilds = {"typed", "built"}
    ReportSides = {"revenue", "ranking", "occupancy", "own", "overview"}
    Sales = {"p1", "p2"}
    Stays = {"b1", "b2"}
    FirstSale = "p1"
    FirstStay = "b1"
    OwnStays = {"b1"}
    ReportRooms = {"r1", "r2"}
    Registrants = {"m1"}
    MaxMoment = 6
    FilterDay = 3
    MaxReports = 1
    MaxOverviews = 1
    MaxReportWrites = 2
SPECIFICATION PlatformSpec
INVARIANTS AccountsConsistent VisitsAgree OutsideServicesAgree MemberPagesAgree BackOfficeAgrees
CHECK_DEADLOCK FALSE
VIEW PartView
