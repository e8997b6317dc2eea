------------------------------- MODULE CheckIns ------------------------------
(***************************************************************************)
(* Check-ins to workspaces: the provider, whose two handlers read before   *)
(* they write and share no lock, the check-in page of one user, and the    *)
(* reports.  The same user may use another device, and others check in too.*)
(* Times, bookings, notes and the biometric columns, which no page sends,  *)
(* are left out; that a workspace is inactive or unknown is a choice.      *)
(***************************************************************************)
EXTENDS QueryCache, FiniteSets, Sequences

CONSTANTS
    Owner,              \* the user of the page
    Guests,             \* other users
    Rooms,              \* workspaces
    MaxVisits,          \* bound on the rows of workspace_logs
    MaxTrackingCalls    \* bound on the requests under way

VARIABLES
    visits,         \* workspace_logs: user, room, whether it is active, and whether
                    \* its check-in overlapped another of the user in the room
    trackingCalls,  \* requests under way
    trackingView,   \* the page: shown, the room selected, the armed button
    activeQuery,    \* its query of the active check-in
    trackingDebt    \* the version that own writes reported to the page shown

trackingVars == <<visits, trackingCalls, trackingView, activeQuery, trackingDebt>>
pageState == <<trackingView, activeQuery, trackingDebt>>

NoRoom == "no room"
Away == [shown |-> FALSE, room |-> NoRoom, armed |-> FALSE]

CheckInsInit ==
    /\ visits = << >> /\ trackingCalls = {}
    /\ trackingView = Away /\ activeQuery = EmptyQuery /\ trackingDebt = 0

ActiveOf(u) == {i \in DOMAIN visits : visits[i].user = u /\ visits[i].active}
ClosedOf(u) == {i \in DOMAIN visits : visits[i].user = u /\ ~visits[i].active}
\* Every check-in and check-out of a user is a version of what the user sees.
VisitVersion(u) == 1 + Cardinality(ActiveOf(u)) + 2 * Cardinality(ClosedOf(u))

-----------------------------------------------------------------------------
\* Requests

Sent(by, user, op, room, log) ==
    [by |-> by, user |-> user, op |-> op, room |-> room, log |-> log,
     at |-> "sent", overlaps |-> FALSE]
Ask(op, room, log) ==
    /\ Cardinality(trackingCalls) < MaxTrackingCalls
    /\ trackingCalls' = trackingCalls \cup {Sent("page", Owner, op, room, log)}
\* An answer is followed only while the page that waits for it is there.
Goes(c, at) ==
    trackingCalls' = (trackingCalls \ {c}) \cup
        IF at \in {"done", "refused"} /\ c.by = "device" THEN {} ELSE {[c EXCEPT !.at = at]}

\* Requests that are not the page's, from another device or another user, are
\* there when the server reads for them.
Elsewhere ==
    IF Cardinality(trackingCalls) = MaxTrackingCalls THEN {}
    ELSE {Sent("device", u, "checkIn", r, 0) : u \in Guests \cup {Owner}, r \in Rooms}
         \cup {Sent("device", u, "checkOut", NoRoom, i) :
                  u \in Guests \cup {Owner}, i \in DOMAIN visits}

\* The active log of the user in the workspace that refuses a check-in.
FindActiveLog(u, room) == {i \in ActiveOf(u) : visits[i].room = room}
\* Variant: no such log is looked for.
FindNothing(u, room) == {}
RefusingLogs(u, room) == FindActiveLog(u, room)

\* checkIn up to the last read
CheckIn(c) ==
    LET overlapped == {d \in trackingCalls : /\ d.op = "checkIn" /\ d.at = "checked"
                                             /\ d.user = c.user /\ d.room = c.room}
    IN /\ c.op = "checkIn" /\ c.at = "sent"
       /\ \/ /\ RefusingLogs(c.user, c.room) = {}
             /\ trackingCalls' = (trackingCalls \ ({c} \cup overlapped))
                   \cup {[d EXCEPT !.overlaps = TRUE] : d \in overlapped}
                   \cup {[c EXCEPT !.at = "checked", !.overlaps = overlapped # {}]}
          \/ Goes(c, "refused")
       /\ UNCHANGED <<visits, pageState>>

SaveCheckIn(c) ==
    /\ c.op = "checkIn" /\ c.at = "checked" /\ Len(visits) < MaxVisits
    /\ visits' = Append(visits, [user |-> c.user, room |-> c.room, active |-> TRUE,
                                 overlaps |-> c.overlaps])
    /\ Goes(c, "done")
    /\ UNCHANGED pageState

\* checkOut: the log must be active when it is read ...
CheckOut(c) ==
    /\ c.op = "checkOut" /\ c.at = "sent"
    /\ Goes(c, IF c.log \in ActiveOf(c.user) THEN "loaded" ELSE "refused")
    /\ UNCHANGED <<visits, pageState>>

\* ... and is saved whatever happened since.
SaveCheckOut(c) ==
    /\ c.op = "checkOut" /\ c.at = "loaded"
    /\ visits' = [visits EXCEPT ![c.log].active = FALSE]
    /\ Goes(c, "done")
    /\ UNCHANGED pageState

-----------------------------------------------------------------------------
\* The page

Opened(v) == trackingView' = v /\ trackingDebt' = 0

\* staleTime is 30 seconds: fresh says whether what is cached is younger.
OpenCheckInPage(fresh) ==
    /\ ~trackingView.shown /\ Opened([Away EXCEPT !.shown = TRUE])
    /\ activeQuery' = OnMount(activeQuery, fresh)
    /\ UNCHANGED <<visits, trackingCalls>>

\* A request that nobody waits for any more; one that the server has not read
\* yet is like one from elsewhere, and is not kept.
LeftRunning(c) ==
    IF c.at \in {"sent", "done", "refused"} THEN {} ELSE {[c EXCEPT !.by = "device"]}

LeaveCheckInPage ==
    /\ trackingView.shown /\ Opened(Away)
    /\ trackingCalls' = UNION {LeftRunning(c) : c \in trackingCalls}
    /\ UNCHANGED <<visits, activeQuery>>

\* The log shown, 0 for the form: also when nothing could be fetched.
Loading == activeQuery.seen = NoData /\ activeQuery.fetch # "idle"
ActiveLog == IF activeQuery.seen = NoData THEN 0 ELSE activeQuery.seen.log
Waiting(op) == \E c \in trackingCalls : c.by = "page" /\ c.op = op

SelectRoom(r) ==
    /\ trackingView.shown /\ ~Loading /\ ActiveLog = 0 /\ trackingView.room # r
    /\ trackingView' = [trackingView EXCEPT !.room = r]
    /\ UNCHANGED <<visits, trackingCalls, activeQuery, trackingDebt>>

HandleCheckIn ==
    /\ trackingView.shown /\ ~Loading /\ ActiveLog = 0
    /\ trackingView.room # NoRoom /\ ~Waiting("checkIn")
    /\ Ask("checkIn", trackingView.room, 0)
    /\ UNCHANGED <<visits, pageState>>

\* The button stays armed when another session is shown in its place.
ArmCheckOut ==
    /\ trackingView.shown /\ ~Loading /\ ActiveLog # 0
    /\ trackingView' = [trackingView EXCEPT !.armed = ~@]
    /\ UNCHANGED <<visits, trackingCalls, activeQuery, trackingDebt>>

HandleCheckOut ==
    /\ trackingView.shown /\ ~Loading /\ ActiveLog # 0
    /\ trackingView.armed /\ ~Waiting("checkOut")
    /\ Ask("checkOut", NoRoom, ActiveLog)
    /\ UNCHANGED <<visits, pageState>>

\* useCheckIn, useCheckOut: the answer to the page invalidates its query; one
\* without data keeps the fetch it has, which may have read before.
TrackingAnswered(c) ==
    /\ c.by = "page" /\ c.at = "done"
    /\ trackingCalls' = trackingCalls \ {c}
    /\ activeQuery' = Invalidated(activeQuery, TRUE)
    /\ trackingDebt' = IF activeQuery.seen = NoData THEN trackingDebt ELSE VisitVersion(Owner)
    /\ trackingView' = IF c.op = "checkIn" THEN [trackingView EXCEPT !.room = NoRoom]
                       ELSE [trackingView EXCEPT !.armed = FALSE]
    /\ UNCHANGED visits

\* The toast, for a refusal or an answer that never came; mutateAsync rejects,
\* and the form stays as it is.
TrackingFails(c) ==
    /\ c.by = "page"
    /\ trackingCalls' = (trackingCalls \ {c}) \cup LeftRunning(c)
    /\ UNCHANGED <<visits, pageState>>

\* getActiveCheckIn has no order: of several active logs it returns any.
GetActiveCheckIn ==
    \/ /\ activeQuery.fetch = "sent"
       /\ \E i \in IF ActiveOf(Owner) = {} THEN {0} ELSE ActiveOf(Owner) :
             activeQuery' = ReadByServer(activeQuery,
                               [status |-> "log", log |-> i, ver |-> VisitVersion(Owner)])
       /\ UNCHANGED <<visits, trackingCalls, trackingView, trackingDebt>>
    \/ /\ activeQuery.fetch = "sent" /\ activeQuery' = FetchFailed(activeQuery)
       /\ UNCHANGED <<visits, trackingCalls, trackingView, trackingDebt>>
    \/ /\ activeQuery.fetch = "read" /\ activeQuery' = Arrived(activeQuery)
       /\ UNCHANGED <<visits, trackingCalls, trackingView, trackingDebt>>

FocusCheckInPage(fresh) ==
    /\ trackingView.shown /\ activeQuery' = OnMount(activeQuery, fresh)
    /\ activeQuery' # activeQuery
    /\ UNCHANGED <<visits, trackingCalls, trackingView, trackingDebt>>

CheckInsNext ==
    \/ \E c \in trackingCalls \cup Elsewhere : CheckIn(c) \/ CheckOut(c)
    \/ \E c \in trackingCalls :
          \/ SaveCheckIn(c) \/ SaveCheckOut(c)
          \/ TrackingAnswered(c) \/ TrackingFails(c)
    \/ LeaveCheckInPage
    \/ \E fresh \in BOOLEAN : OpenCheckInPage(fresh) \/ FocusCheckInPage(fresh)
    \/ \E r \in Rooms : SelectRoom(r)
    \/ HandleCheckIn \/ ArmCheckOut \/ HandleCheckOut
    \/ GetActiveCheckIn

CheckInsSpec == CheckInsInit /\ [][CheckInsNext]_trackingVars

-----------------------------------------------------------------------------
\* Reports

LogsOf(r) == {i \in DOMAIN visits : visits[i].room = r}

\* getCurrentOccupancy: TypeORM drops a condition that is null, so that the logs
\* that were closed count too.
CurrentOccupancy(r) == Cardinality(LogsOf(r))

\* getUtilizationStats, from the rows with a check-out
UtilizationStats(r) ==
    LET closed == {i \in LogsOf(r) : ~visits[i].active} IN
    [visits |-> Cardinality(closed), users |-> Cardinality({visits[i].user : i \in closed})]

\* Whatever requests overlap, on whatever devices: a user is in a room twice
\* only by check-ins that overlapped; the page does not hide what its own
\* requests did; and the occupancy is made of the visits that are over and
\* those that are not.
VisitsAgree ==
    /\ \A i, j \in DOMAIN visits :
          i # j /\ visits[i].room = visits[j].room /\ visits[i].active
                /\ j \in ActiveOf(visits[i].user)
          => visits[i].overlaps /\ visits[j].overlaps
    /\ trackingView.shown => UpToDate(activeQuery, trackingDebt)
    /\ \A r \in Rooms :
          /\ CurrentOccupancy(r) - UtilizationStats(r).visits =
                Cardinality({i \in LogsOf(r) : visits[i].active})
          /\ UtilizationStats(r).users <= UtilizationStats(r).visits
=============================================================================
