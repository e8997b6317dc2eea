------------------------------ MODULE MCPlatform -----------------------------
(***************************************************************************)
(* Accounts, the pages and the services behind them on small instances.    *)
(* They share no state, so that a behaviour exercises one of them: part    *)
(* says which, and the others stay as they are.                            *)
(***************************************************************************)
EXTENDS Registration, BookingPages, CheckIns, Mailing, Administration, WorkspacePages, MoneyPages,
        Notifications, EscrowClient, StaffSso, Reports

CONSTANT Parts

VARIABLE part

\* TLC compares the functions of the part that moves, which the view holds; one
\* it has never compared it keeps as an expression, and cannot write to disk.
Compared(vars) == vars = vars

\* A behaviour of one part needs no more than one initial state of the others.
PlatformInit ==
    /\ part \in Parts
    /\ RegistrationInit /\ CheckInsInit
    /\ BookingPagesInit
    /\ part # "bookings" => /\ side = "admin" /\ dialect = "types"
                            /\ bookingView = FreshView("admin")
    /\ MailInit
    /\ part # "mailing" => mailSide = "newsletter"
    /\ AdministrationInit
    /\ part # "administration" => adminSide = "none"
    /\ WorkspacePagesInit
    /\ part # "workspaces" => spelling = "types" /\ \A s \in Spaces : spaces[s] = NoSpace
    /\ MoneyPagesInit
    /\ part # "money" => moneyApi = "typed"
    /\ NotificationsInit
    /\ part # "notifications" => noticeApi = "typed"
    /\ EscrowClientInit
    /\ part # "escrow calls" => stellarNetwork = "known"
    /\ SsoInit
    /\ part # "staff sign-in" => ssoBuild = "typed" /\ samlEnabled /\ Stored = {}
    /\ ReportsInit
    /\ part # "reports" => reportBuild = "typed" /\ reportSide = "own"
    /\ Compared(<<escrowClientVars, ssoVars, reportVars>>)

\* What the step of one part leaves alone.
Keep(other, vars) == IF part = other THEN TRUE ELSE UNCHANGED vars

PlatformNext ==
    /\ UNCHANGED part
    /\ Keep("registration", registrationVars)
    /\ Keep("bookings", bookingVars)
    /\ Keep("check-ins", trackingVars)
    /\ Keep("mailing", mailVars)
    /\ Keep("administration", adminVars)
    /\ Keep("workspaces", spaceVars)
    /\ Keep("money", moneyVars)
    /\ Keep("notifications", noticeVars)
    /\ Keep("escrow calls", escrowClientVars)
    /\ Keep("staff sign-in", ssoVars)
    /\ Keep("reports", reportVars)
    /\ \/ part = "registration" /\ RegistrationNext
       \/ part = "bookings" /\ BookingPagesNext
       \/ part = "check-ins" /\ CheckInsNext
       \/ part = "mailing" /\ MailNext
       \/ part = "administration" /\ AdministrationNext
       \/ part = "workspaces" /\ WorkspacePagesNext
       \/ part = "money" /\ MoneyPagesNext
       \/ part = "notifications" /\ NotificationsNext
       \/ part = "escrow calls" /\ EscrowClientNext
       \/ part = "staff sign-in" /\ SsoNext
       \/ part = "reports" /\ ReportsNext

platformVars == <<part, registrationVars, bookingVars, trackingVars, mailVars, adminVars, spaceVars,
                  moneyVars, noticeVars, escrowClientVars, ssoVars, reportVars>>

PlatformSpec == PlatformInit /\ [][PlatformNext]_platformVars

\* The parts that rest keep their initial state, so that states differ by the
\* part that moves alone.
PartView ==
    <<part, CASE part = "registration" -> registrationVars [] part = "bookings" -> bookingVars
              [] part = "check-ins" -> trackingVars [] part = "mailing" -> mailVars
              [] part = "administration" -> adminVars [] part = "workspaces" -> spaceVars
              [] part = "money" -> moneyVars [] part = "notifications" -> noticeVars
              [] part = "escrow calls" -> escrowClientVars [] part = "staff sign-in" -> ssoVars
              [] part = "reports" -> reportVars>>

-----------------------------------------------------------------------------
\* The properties ask of the part that moves: a part that rests is in a state
\* with which behaviours of its own begin.

\* What members see of their bookings and notifications, and are offered to do
\* with them, agrees with the rows the server keeps.
MemberPagesAgree ==
    /\ part = "bookings" => BookingPagesAgree
    /\ part = "notifications" => NoticesAgree

\* What administrators see and change of users, workspaces, payments and
\* invoices, and the figures they read, agree with the rows the server keeps,
\* and somebody is left who may change them.
BackOfficeAgrees ==
    /\ part = "administration" => AdministrationHolds
    /\ part = "workspaces" => WorkspacesAgree
    /\ part = "money" => MoneyPagesAgree
    /\ part = "reports" => ReportsAgree

\* Accounts come into being once, by the form or by the identity provider, and
\* keep what the last act of the one or the other made of them.
AccountsConsistent ==
    /\ part = "registration" => SignUpConsistent
    /\ part = "staff sign-in" => SsoConsistent

\* What the server believes of the services it calls, mail and the ledger of
\* the escrow contract, is what they did.
OutsideServicesAgree ==
    /\ part = "mailing" => MailConsistent
    /\ part = "escrow calls" => EscrowCallsAgree
=============================================================================
