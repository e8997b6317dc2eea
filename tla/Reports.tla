------------------------------- MODULE Reports -------------------------------
(***************************************************************************)
(* The figures of the dashboards: the analytics page of administrators,    *)
(* the cards of a member, and the overview of accounts.  The server makes  *)
(* a report of several statements, some in turn, some at once, while       *)
(* payments, bookings, visits and accounts go on changing.  A sum or count *)
(* is modelled by the set of rows that went into it.  The strands of the   *)
(* analytics report relate no rows of one another, so that a behaviour     *)
(* follows one strand or one page: reportSide.  Rounding, ten newest rows, *)
(* charts, invoice counts and the newsletter's numbers are left out.       *)
(***************************************************************************)
EXTENDS Naturals, FiniteSets

CONSTANTS
    ReportBuilds,    \* {"typed", "built"}: whether the raw statements spell the
                     \* statuses as the enums do
    ReportSides,     \* {"revenue", "ranking", "occupancy", "own", "overview"}
    Sales, Stays, FirstSale, FirstStay, OwnStays,  \* payments, bookings, those of the member
    ReportRooms, Registrants,
    MaxMoment,       \* bound on the clock, three moments a month
    FilterDay,       \* the first moment of a day the filter may name
    MaxReports, MaxOverviews, MaxReportWrites

ASSUME ReportsAssumption ==
    FirstStay \in Stays /\ OwnStays \subseteq Stays /\ "unpaid" \notin Sales

VARIABLES
    reportBuild, reportSide,
    moment,
    sale,            \* Sales -> row of payments: status, paidAt, booking
    stay,            \* Stays -> status of the row of bookings
    activeRooms,     \* workspaces with isActive
    openLogs,        \* logs without checkedOutAt: <<visitor, workspace>>
    registrant,      \* Registrants -> row of users
    filterApplied,
    report,          \* ReportKeys -> the request under way
    filed,           \* ReportKeys -> the last answer, as the page keeps it
    reportCalls, reportWrites

reportVars == <<reportBuild, reportSide, moment, sale, stay, activeRooms, openLogs, registrant,
                filterApplied, report, filed, reportCalls, reportWrites>>
reportTables == <<sale, stay, activeRooms, openLogs, registrant>>
reportPage == <<filterApplied, report, filed, reportCalls>>
reportChoice == <<reportBuild, reportSide>>

-----------------------------------------------------------------------------
\* Months, and the periods the statements name

\* The first moment of a month is its midnight, the last lies in its last second.
MonthTicks == 3
MonthStart(t) == t - (t % MonthTicks)

\* The last month starts at its midnight and ends at 23:59:59.000: one second
\* before this month starts.
InLastMonth(at, asked) ==
    /\ at + MonthTicks >= MonthStart(asked)
    /\ at + 2 <= MonthStart(asked)

\* A filter left empty does not limit; a day stands for its midnight, as the
\* last day too.
AnyDay == [from |-> 0, to |-> MaxMoment]
DayFilters ==
    {AnyDay, [from |-> 0, to |-> FilterDay], [from |-> FilterDay, to |-> MaxMoment]}
InFilter(at, f) == f.from <= at /\ at <= f.to

-----------------------------------------------------------------------------
\* Reports

ReportKeys ==
    [page : {"analytics"}, filter : DayFilters]
    \cup [page : {"own", "cards", "system"}, filter : {AnyDay}]
Analytics(f) == [page |-> "analytics", filter |-> f]
Page(name) == [page |-> name, filter |-> AnyDay]

Statements(key) ==
    CASE key.page = "own" -> {"active", "spent"}
      [] key.page = "cards" -> {"members", "verified", "activity"}
      [] key.page = "system" -> {"everyone", "activeUsers", "newcomers", "olderBar", "newerBar"}
      [] OTHER ->
            CASE reportSide = "revenue" -> {"total", "thisMonth", "lastMonth", "trend"}
              [] reportSide = "ranking" -> {"topWorkspaces", "topMembers", "byStatus"}
              [] OTHER -> {"seats", "checkIns", "workspaces"}

\* What is awaited before a statement is sent; the others go out at once.
Precedes ==
    {<<"total", "thisMonth">>, <<"thisMonth", "lastMonth">>, <<"lastMonth", "trend">>,
     <<"members", "verified">>, <<"olderBar", "newerBar">>}
    \cup ({"everyone", "activeUsers", "newcomers"} \X {"olderBar", "newerBar"})

NoReport == [made |-> FALSE, asked |-> 0, todo |-> {}, rows |-> <<>>, touched |-> {}]
FreshReport(key) ==
    [made |-> TRUE, asked |-> moment, todo |-> Statements(key), rows |-> <<>>, touched |-> {}]

NoSale == [status |-> "none", at |-> 0, stay |-> FirstStay]
NoAccount == [here |-> FALSE, verified |-> FALSE, active |-> FALSE, since |-> 0]

Paid == {p \in Sales : sale[p].status = "success"}
Made == {b \in Stays : stay[b] # "none"}
PaidFor(b) == {p \in Paid : sale[p].stay = b}
Members == {a \in Registrants : registrant[a].here /\ registrant[a].active}

ReportsInit ==
    /\ reportBuild \in ReportBuilds /\ reportSide \in ReportSides
    /\ moment = 1
    /\ sale = [p \in Sales |-> NoSale]
    /\ stay = [b \in Stays |-> IF b = FirstStay THEN "pending" ELSE "none"]
    /\ activeRooms = ReportRooms /\ openLogs = {}
    /\ registrant = [a \in Registrants |-> NoAccount]
    /\ filterApplied = AnyDay
    /\ report = [k \in ReportKeys |-> NoReport] /\ filed = [k \in ReportKeys |-> NoReport]
    /\ reportCalls = 0 /\ reportWrites = 0

-----------------------------------------------------------------------------
\* The server

\* getRevenueStats: of successful payments those the filter admits, those since
\* this month's midnight, those of last month, and those of six months (one here).
RevenueRows(s, r, key) ==
    {p \in Paid :
       LET at == sale[p].at IN
       CASE s = "total" -> InFilter(at, key.filter)
         [] s = "thisMonth" -> at >= MonthStart(r.asked)
         [] s = "lastMonth" -> InLastMonth(at, r.asked)
         [] OTHER -> at + MonthTicks >= moment}

\* The joins of getTopWorkspaces and getTopMembers: a booking without a paid
\* payment has one row, one that was paid twice has two; no filter applies.
RankingRows(s) ==
    CASE s = "topWorkspaces" ->
            UNION {IF PaidFor(b) = {} THEN {<<b, "unpaid">>} ELSE {b} \X PaidFor(b) : b \in Made}
      [] s = "topMembers" -> {<<sale[p].stay, p>> : p \in Paid}
      [] OTHER -> {<<b, stay[b]>> : b \in Made}

\* getOccupancySnapshot: open logs count wherever they are.
OccupancyRows(s) == IF s = "checkIns" THEN openLogs ELSE activeRooms

\* getMemberStats
OwnRows(s) ==
    IF s = "active" THEN {b \in OwnStays : stay[b] \in {"pending", "confirmed"}}
    ELSE UNION {PaidFor(b) : b \in OwnStays}

\* getUserStats and getActivity, which reads deleted accounts too.
CardRows(s) ==
    CASE s = "members" -> Members
      [] s = "verified" -> {a \in Members : registrant[a].verified}
      [] OTHER -> {a \in Registrants : registrant[a] # NoAccount}

\* getMonthlyRegistrations: a month's bar counts everyone who registered since
\* the month began.
InBar(since, monthsAgo, asked) == since + monthsAgo * MonthTicks >= MonthStart(asked)

\* getAdminStats
SystemRows(s, r) ==
    {a \in Registrants :
       LET since == registrant[a].since IN
       /\ registrant[a].here
       /\ CASE s = "everyone" -> TRUE
            [] s = "activeUsers" -> registrant[a].active
            [] s = "newcomers" -> since + MonthTicks >= r.asked
            [] OTHER -> InBar(since, IF s = "olderBar" THEN 1 ELSE 0, r.asked)}

Rows(s, r, key) ==
    CASE key.page = "own" -> OwnRows(s)
      [] key.page = "cards" -> CardRows(s)
      [] key.page = "system" -> SystemRows(s, r)
      [] OTHER -> CASE reportSide = "revenue" -> RevenueRows(s, r, key)
                    [] reportSide = "ranking" -> RankingRows(s)
                    [] OTHER -> OccupancyRows(s)

RunStatement(key, s) ==
    LET r == report[key] IN
    /\ s \in r.todo /\ \A before \in r.todo : <<before, s>> \notin Precedes
    /\ report' = [report EXCEPT ![key] =
                     [r EXCEPT !.todo = r.todo \ {s},
                               !.rows = [x \in DOMAIN r.rows \cup {s} |->
                                           IF x = s THEN Rows(s, r, key) ELSE r.rows[x]]]]
    /\ UNCHANGED <<reportChoice, moment, reportTables, filterApplied, filed,
                   reportCalls, reportWrites>>

\* Three raw statements of the analytics report compare an enum column with a
\* word the enum does not have, which the database refuses: all of it fails.
Answerable(key) == report[key].todo = {} /\ (key.page = "analytics" => reportBuild = "typed")

-----------------------------------------------------------------------------
\* The pages

Call ==
    /\ reportCalls < (IF reportSide = "overview" THEN MaxOverviews ELSE MaxReports)
    /\ reportCalls' = reportCalls + 1

\* A query that has no data yet keeps the request under way.
Started(key) ==
    IF report[key].made /\ ~filed[key].made THEN report
    ELSE [report EXCEPT ![key] = FreshReport(key)]

PageKey ==
    CASE reportSide = "own" -> Page("own")
      [] reportSide = "overview" -> Page("cards")
      [] OTHER -> Analytics(filterApplied)

\* The page is opened, or refreshed.
AskReport ==
    /\ Call
    /\ reportSide = "overview" => ~report[Page("cards")].made /\ ~report[Page("system")].made
    /\ report' = Started(PageKey)
    /\ UNCHANGED <<reportChoice, moment, reportTables, filterApplied, filed,
                   reportWrites>>

\* applyFilter and clearFilter, with the days typed: another filter is another
\* query.  The answers of filters left behind are not followed.
ApplyFilter(f) ==
    /\ Call
    /\ reportSide = "revenue" /\ f # filterApplied
    /\ filterApplied' = f
    /\ report' = [k \in ReportKeys |-> IF k = Analytics(f) THEN FreshReport(k) ELSE NoReport]
    /\ filed' = [k \in ReportKeys |-> NoReport]
    /\ UNCHANGED <<reportChoice, moment, reportTables, reportWrites>>

\* An answer; fetchData of the dashboard then asks for the administrator's half.
ReportArrives(key) ==
    /\ report[key].made /\ Answerable(key)
    /\ filed' = [filed EXCEPT ![key] = report[key]]
    /\ report' = [report EXCEPT ![key] = NoReport,
                                ![Page("system")] = IF key = Page("cards")
                                                    THEN FreshReport(Page("system"))
                                                    ELSE NoReport]
    /\ UNCHANGED <<reportChoice, moment, reportTables, filterApplied, reportCalls,
                   reportWrites>>

\* A failure leaves what was there before.
ReportFails(key) ==
    /\ report[key].made /\ report' = [report EXCEPT ![key] = NoReport]
    /\ UNCHANGED <<reportChoice, moment, reportTables, filterApplied, filed,
                   reportCalls, reportWrites>>

\* What the pages show.  The member's card of money spent reads a field the
\* server calls otherwise.
ReportShown(key) == IF filed[key].made THEN {filed[key]} ELSE {}
AnalyticsShown == ReportShown(PageKey)
CardsShown == ReportShown(Page("cards"))
OverviewShown == ReportShown(Page("system"))
SpentShown ==
    IF filed[Page("own")].made /\ reportBuild = "typed" THEN filed[Page("own")].rows["spent"] ELSE {}

-----------------------------------------------------------------------------
\* What changes meanwhile.  Of the tables, those move that the side reads.

Tick ==
    /\ reportSide \in {"revenue", "overview"}
    /\ moment < (IF reportSide = "overview" THEN FilterDay + 1 ELSE MaxMoment)
    /\ moment' = moment + 1
    /\ UNCHANGED <<reportChoice, reportTables, reportPage, reportWrites>>

WithTouch(row, reports) == [k \in ReportKeys |-> [reports[k] EXCEPT !.touched = @ \cup {row}]]

WriteRow(sides, row) ==
    /\ reportSide \in sides
    /\ reportWrites < MaxReportWrites /\ reportWrites' = reportWrites + 1
    /\ report' = WithTouch(row, report) /\ filed' = WithTouch(row, filed)
    /\ UNCHANGED <<reportChoice, moment, filterApplied, reportCalls>>

\* The webhook records a payment of a booking, at times a second one of the same.
PaySale(p, b) ==
    /\ WriteRow({"revenue", "ranking", "own"}, p)
    /\ sale[p] = NoSale /\ b \in Made
    /\ reportSide = "revenue" => p = FirstSale
    /\ sale' = [sale EXCEPT ![p] = [status |-> "success", at |-> moment, stay |-> b]]
    /\ UNCHANGED <<stay, activeRooms, openLogs, registrant>>

RefundSale(p) ==
    /\ WriteRow({"revenue", "ranking", "own"}, p)
    /\ p \in Paid /\ sale' = [sale EXCEPT ![p].status = "refunded"]
    /\ UNCHANGED <<stay, activeRooms, openLogs, registrant>>

MakeStay(b) ==
    /\ WriteRow({"ranking", "own"}, b)
    /\ b \notin Made /\ stay' = [stay EXCEPT ![b] = "pending"]
    /\ UNCHANGED <<sale, activeRooms, openLogs, registrant>>

SettleStay(b, status) ==
    /\ WriteRow({"ranking", "own"}, b)
    /\ stay[b] = "pending" /\ stay' = [stay EXCEPT ![b] = status]
    /\ UNCHANGED <<sale, activeRooms, openLogs, registrant>>

\* A check-in asks for an active workspace and looks at no seats.
EnterRoom(v, room) ==
    /\ WriteRow({"occupancy"}, <<v, room>>)
    /\ room \in activeRooms /\ <<v, room>> \notin openLogs
    /\ openLogs' = openLogs \cup {<<v, room>>}
    /\ UNCHANGED <<sale, stay, activeRooms, registrant>>

LeaveRoom(v, room) ==
    /\ WriteRow({"occupancy"}, <<v, room>>)
    /\ <<v, room>> \in openLogs /\ openLogs' = openLogs \ {<<v, room>>}
    /\ UNCHANGED <<sale, stay, activeRooms, registrant>>

\* Workspaces are switched off and on while people are in them.
SwitchRoom(room) ==
    /\ WriteRow({"occupancy"}, <<"room", room>>)
    /\ activeRooms' = IF room \in activeRooms THEN activeRooms \ {room} ELSE activeRooms \cup {room}
    /\ UNCHANGED <<sale, stay, openLogs, registrant>>

\* Registrants register, are verified, switched off and deleted, in place.
ChangeAccount(a) ==
    /\ WriteRow({"overview"}, a)
    /\ \E row \in IF registrant[a] = NoAccount
                  THEN {[here |-> TRUE, verified |-> FALSE, active |-> TRUE, since |-> moment]}
                  ELSE {[registrant[a] EXCEPT !.verified = TRUE], [registrant[a] EXCEPT !.here = FALSE],
                        [registrant[a] EXCEPT !.active = ~@]} :
          row # registrant[a] /\ registrant' = [registrant EXCEPT ![a] = row]
    /\ UNCHANGED <<sale, stay, activeRooms, openLogs>>

ReportsNext ==
    \/ \E key \in ReportKeys :
          \/ \E s \in report[key].todo : RunStatement(key, s)
          \/ ReportArrives(key) \/ ReportFails(key)
    \/ AskReport \/ Tick
    \/ \E f \in DayFilters : ApplyFilter(f)
    \/ \E p \in Sales : RefundSale(p) \/ \E b \in Stays : PaySale(p, b)
    \/ \E b \in Stays : MakeStay(b) \/ \E s \in {"confirmed", "cancelled"} : SettleStay(b, s)
    \/ \E v \in Registrants, room \in ReportRooms : EnterRoom(v, room) \/ LeaveRoom(v, room)
    \/ \E room \in ReportRooms : SwitchRoom(room)
    \/ \E a \in Registrants : ChangeAccount(a)

ReportsSpec == ReportsInit /\ [][ReportsNext]_reportVars

-----------------------------------------------------------------------------
Kept(key, rows) == rows \ filed[key].touched

\* No payment counts in two months, whatever is paid and refunded while the
\* report is made; every payment that has not changed since is in the total
\* exactly when the filter admits it, and in one of the two months unless it is
\* older or was made in the last second of the last month.
RevenueCountsOnce ==
    reportSide = "revenue" => \A r \in AnalyticsShown :
        LET asked == r.asked
            figure(s) == r.rows[s]
        IN /\ figure("thisMonth") \cap figure("lastMonth") = {}
           /\ \A p \in Kept(PageKey, Paid) :
                 /\ p \in figure("total") <=> InFilter(sale[p].at, filterApplied)
                 /\ p \in figure("thisMonth") \cup figure("lastMonth")
                    <=> /\ sale[p].at + MonthTicks >= MonthStart(asked)
                        /\ sale[p].at + 1 # MonthStart(asked)

\* A workspace's figures count a booking as often as it was paid, and once if it
\* was not; its money and the members' are the same payments.
RankingCountsPayments ==
    reportSide = "ranking" => \A r \in AnalyticsShown :
        LET joined == r.rows["topWorkspaces"]
            untouched == {p \in Sales : p \notin r.touched}
        IN /\ \A b \in Kept(PageKey, Made) : Sales \cap r.touched = {} =>
                 Cardinality({row \in joined : row[1] = b})
                 = (IF PaidFor(b) = {} THEN 1 ELSE Cardinality(PaidFor(b)))
           /\ \A p \in untouched :
                 (\E row \in joined : row[2] = p) <=> (\E row \in r.rows["topMembers"] : row[2] = p)
           /\ \A b \in Kept(PageKey, Made) :
                 <<b, stay[b]>> \in r.rows["byStatus"]

\* Every visitor who neither came nor went since is counted once, in a workspace
\* that is switched off too, and every workspace left alone once.
SeatsCounted ==
    reportSide = "occupancy" => \A r \in AnalyticsShown :
        /\ Kept(PageKey, openLogs) = r.rows["checkIns"] \ r.touched
        /\ \A room \in ReportRooms : <<"room", room>> \notin r.touched =>
              (room \in r.rows["seats"] <=> room \in r.rows["workspaces"])

\* The member's cards add up what is the member's and has not changed since; the
\* analytics page and the amount spent show nothing in the code as built.
OwnFiguresAgree ==
    /\ filed[Page("own")].made =>
          /\ Kept(Page("own"), filed[Page("own")].rows["active"])
             = Kept(Page("own"), {b \in OwnStays : stay[b] \in {"pending", "confirmed"}})
          /\ Kept(Page("own"), SpentShown) \subseteq UNION {PaidFor(b) : b \in OwnStays}
    /\ reportBuild = "built" =>
          SpentShown = {} /\ \A f \in DayFilters : ~filed[Analytics(f)].made

\* The bars of the chart add up: an account left alone since is in the bar of
\* its month and of every month before; the cards and the overview, which ask
\* one after the other, agree on such accounts.
GrowthIsCumulative ==
    /\ \A overview \in OverviewShown :
          /\ Kept(Page("system"), overview.rows["newerBar"]) \subseteq overview.rows["olderBar"]
          /\ Kept(Page("system"), overview.rows["olderBar"]) \subseteq overview.rows["everyone"]
    /\ \A cards \in CardsShown :
          /\ Kept(Page("cards"), cards.rows["verified"]) \subseteq cards.rows["members"]
          /\ \A overview \in OverviewShown :
             \A a \in Registrants \ (cards.touched \cup overview.touched) :
                a \in cards.rows["members"] <=> a \in overview.rows["activeUsers"]

\* The figures of the dashboards agree with the rows: see the parts.
ReportsAgree ==
    /\ RevenueCountsOnce /\ RankingCountsPayments /\ SeatsCounted
    /\ OwnFiguresAgree /\ GrowthIsCumulative
=============================================================================
