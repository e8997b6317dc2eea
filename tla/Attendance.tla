------------------------------ MODULE Attendance -----------------------------
(***************************************************************************)
(* The attendance log of contracts/manage_hub: entries by members and by   *)
(* the operations on their subscriptions, and the reports computed from    *)
(* them.  Details of an entry are left out.                                *)
(***************************************************************************)
EXTENDS LedgerBase, SequencesExt

CONSTANTS
    Members,
    EventIds,        \* ids passed to log_attendance
    Contracts,       \* ids of subscriptions
    IdLength,        \* their lengths
    Hour,            \* 3600 s
    MaxLogs          \* bound on all entries

VARIABLES
    logs,            \* DataKey AttendanceLogsByUser
    logById          \* DataKey AttendanceLog

attendanceVars == <<logs, logById, now>>
attendanceState == <<logs, logById>>

LogIds == EventIds \cup {IdLength[c] : c \in Contracts}
AttendanceAction == {"ClockIn", "ClockOut"}

AttendanceInit ==
    /\ logs = [m \in Members |-> <<>>]
    /\ logById = [i \in LogIds |-> None]
    /\ now = 0

-----------------------------------------------------------------------------
\* Entries

LogCount == SumFunction([m \in Members |-> Len(logs[m])])

\* Appended to the entries of the user, and stored under its id, whatever was
\* stored there.
LogAttendance(id, user, action) ==
    LET log == [id |-> id, user |-> user, action |-> action, at |-> now] IN
    /\ LogCount < MaxLogs
    /\ logs' = [logs EXCEPT ![user] = Append(@, log)]
    /\ logById' = [logById EXCEPT ![id] = log]
    /\ UNCHANGED now

\* generate_event_id takes no more of the subscription's id than its length.
EventId(c) == IdLength[c]

\* Creating a subscription clocks its member in; pausing, resuming and
\* renewing it clock out.
LogSubscriptionEvent(c, user, created) ==
    LogAttendance(EventId(c), user, IF created THEN "ClockIn" ELSE "ClockOut")

AttendanceNext ==
    \/ \E m \in Members :
          \/ \E i \in EventIds, a \in AttendanceAction : LogAttendance(i, m, a)
          \/ \E c \in Contracts, created \in BOOLEAN : LogSubscriptionEvent(c, m, created)
    \/ Tick /\ UNCHANGED attendanceState

AttendanceSpec == AttendanceInit /\ [][AttendanceNext]_attendanceVars

-----------------------------------------------------------------------------
\* Reports on a sequence of entries

FilterByDateRange(ls, start, end) ==
    SelectSeq(ls, LAMBDA l : start <= l.at /\ l.at <= end)

Session(in, out) == [in |-> in, out |-> out, duration |-> out - in]

\* get_attendance_summary: every clock-in with the next clock-out, the same
\* one for several clock-ins in a row.  Sessions are told apart by the clock-in.
SummarySessions(ls) ==
    LET outsAfter(i) == {j \in i + 1..Len(ls) : ls[j].action = "ClockOut"}
        opened == {i \in DOMAIN ls : ls[i].action = "ClockIn" /\ outsAfter(i) # {}}
    IN [i \in opened |-> Session(ls[i].at, ls[Min(outsAfter(i))].at)]

\* Variant: the pending clock-in is kept after its clock-out.
PairedAgain(acc, log) ==
    IF log.action = "ClockIn" THEN [acc EXCEPT !.pending = log.at]
    ELSE IF acc.pending = None THEN acc
    ELSE [acc EXCEPT !.sessions = Append(@, Session(acc.pending, log.at))]

\* parse_sessions: one entry of its loop.
Paired(acc, log) ==
    IF log.action = "ClockIn" THEN [acc EXCEPT !.pending = log.at]
    ELSE IF acc.pending = None THEN acc
    ELSE [pending |-> None, sessions |-> Append(acc.sessions, Session(acc.pending, log.at))]

ParseSessions(ls) == FoldLeft(Paired, [pending |-> None, sessions |-> <<>>], ls).sessions

TotalDuration(sessions) == SumFunction([i \in DOMAIN sessions |-> sessions[i].duration])

Average(total, count) == IF count > 0 THEN total \div count ELSE 0

\* get_user_statistics; without a session first is the largest u64, here None.
UserStatistics(ls) ==
    LET s == ParseSessions(ls) IN
    [sessions |-> Len(s), duration |-> TotalDuration(s),
     average |-> Average(TotalDuration(s), Len(s)),
     first |-> IF s = <<>> THEN None ELSE Min({s[i].in : i \in DOMAIN s}),
     last |-> Max({0} \cup {s[i].out : i \in DOMAIN s}),
     days |-> Cardinality({s[i].in \div Day : i \in DOMAIN s})]

\* calculate_attendance_frequency
AverageDaily(ls, start, end) == Len(ls) \div ((end - start) \div Day + 1)

HourOf(at) == (at % Day) \div Hour
DayOfWeek(at) == (at \div Day + 4) % 7

\* The entries of ls that fall on each slot of a day or week, and the rounded
\* percentages; slots without entries are left out.
Histogram(ls, Slot(_)) ==
    LET slots == {Slot(ls[i].at) : i \in DOMAIN ls}
        in(s) == Cardinality({i \in DOMAIN ls : Slot(ls[i].at) = s})
    IN [s \in slots |-> [count |-> in(s), percentage |-> (in(s) * 100) \div Len(ls)]]

AnalyzePeakHours(ls) == Histogram(ls, HourOf)
AnalyzeDayPatterns(ls) == Histogram(ls, DayOfWeek)

-----------------------------------------------------------------------------
\* What is stored under an id is the latest entry with that id, in the log of
\* its member, and entries are in the order of time.
LogsAgree ==
    /\ \A m \in Members : \A i \in 1..Len(logs[m]) - 1 : logs[m][i].at <= logs[m][i + 1].at
    /\ \A m \in Members : \A i \in DOMAIN logs[m] :
          /\ logs[m][i].user = m
          /\ logById[logs[m][i].id] # None /\ logById[logs[m][i].id].at >= logs[m][i].at
    /\ \A id \in LogIds : logById[id] # None =>
          \E i \in DOMAIN logs[logById[id].user] : logs[logById[id].user][i] = logById[id]

\* The sessions of the statistics are the clock-ins directly followed by a
\* clock-out: they do not overlap, whatever entries are missing or doubled, so
\* that the time they add up to fits into the range of the report.
SessionsAreDisjoint(ls, start, end) ==
    LET s == ParseSessions(ls) IN
    /\ Len(s) = Cardinality({i \in 1..Len(ls) - 1 :
          ls[i].action = "ClockIn" /\ ls[i + 1].action = "ClockOut"})
    /\ \A i \in 1..Len(s) - 1 : s[i].out <= s[i + 1].in
    /\ TotalDuration(s) <= end - start
    /\ UserStatistics(ls).first # None => UserStatistics(ls).first <= UserStatistics(ls).last
    /\ UserStatistics(ls).days <= UserStatistics(ls).sessions

\* The summary never reports less than the statistics, and the same when no
\* clock-in follows a clock-in.
SummaryCovers(ls) ==
    LET s == ParseSessions(ls)
        summary == SummarySessions(ls)
        alternating == \A i \in 1..Len(ls) - 1 :
            ls[i].action = "ClockIn" => ls[i + 1].action = "ClockOut"
    IN /\ \A i \in DOMAIN s : \E j \in DOMAIN summary : summary[j] = s[i]
       /\ Len(s) <= Cardinality(DOMAIN summary)
       /\ TotalDuration(s) <= TotalDuration(summary)
       /\ alternating => /\ Len(s) = Cardinality(DOMAIN summary)
                         /\ TotalDuration(s) = TotalDuration(summary)

\* Each entry of the range falls on one hour and one day of the week.
HistogramsAddUp(ls) ==
    \A h \in {AnalyzePeakHours(ls), AnalyzeDayPatterns(ls)} :
        /\ SumFunction([s \in DOMAIN h |-> h[s].count]) = Len(ls)
        /\ SumFunction([s \in DOMAIN h |-> h[s].percentage]) \in
              (100 - Cardinality(DOMAIN h))..100

\* The log and its three reports agree with each other on every range of time:
\* see the four parts.
AttendanceAddsUp ==
    /\ LogsAgree
    /\ \A m \in Members, start, end \in 0..MaxTime :
          LET ls == FilterByDateRange(logs[m], start, end) IN
          (start <= end /\ ls # <<>>) =>
              /\ SessionsAreDisjoint(ls, start, end)
              /\ SummaryCovers(ls)
              /\ HistogramsAddUp(ls)
              /\ AverageDaily(ls, start, end) <= Len(ls)
=============================================================================
