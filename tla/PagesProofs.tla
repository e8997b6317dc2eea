---------------------------- MODULE PagesProofs ------------------------------
(***************************************************************************)
(* The pages whose rows a query of the cache or a report of the server     *)
(* shows, each for any instance: check-ins (CheckIns), the second factor   *)
(* and its settings (SecondFactor), and the back office: users             *)
(* (Administration), workspaces (WorkspacePages), payments and invoices    *)
(* (MoneyPages), and the figures of the dashboards (Reports).              *)
(*                                                                         *)
(* A query follows a version if what it shows, or will show when the       *)
(* answer arrives, is of that version or will be fetched again.  The       *)
(* invariants join that to what requests, forms and reports under way say  *)
(* of the rows: that they are as read unless somebody wrote since.         *)
(***************************************************************************)
EXTENDS CheckIns, SecondFactor, Administration, WorkspacePages, MoneyPages, Reports,
        FiniteSetTheorems, FunctionTheorems, TLAPS

-----------------------------------------------------------------------------
\* Queries of pages

\* The queries whose data are of D.
Queries(D) ==
    [seen : D \cup {NoData}, stale : BOOLEAN, failed : BOOLEAN,
     fetch : {"idle", "sent", "read"}, copy : D \cup {NoData}]

\* What is shown, or will be when the answer arrives, is of this version, or
\* will be fetched again.
Follows(q, ver) == UpToDate(q, ver) /\ (q.fetch = "read" => q.copy.ver >= ver)

\* A fetch that starts or fails, an invalidation and an answer keep a query up
\* to date; one that shows something may be invalidated for any version.
LEMMA QueryKept ==
  ASSUME NEW D, NEW q \in Queries(D), NEW ver \in Nat, Follows(q, ver)
  PROVE  /\ \A b \in BOOLEAN : /\ StartFetch(q, b) \in Queries(D) /\ Follows(StartFetch(q, b), ver)
                               /\ OnMount(q, b) \in Queries(D) /\ Follows(OnMount(q, b), ver)
         /\ Invalidated(q, TRUE) \in Queries(D) /\ Follows(Invalidated(q, TRUE), ver)
         /\ FetchFailed(q) \in Queries(D) /\ Follows(FetchFailed(q), ver)
         /\ q.fetch = "read" => Arrived(q) \in Queries(D) /\ Follows(Arrived(q), ver)
<1>1. ASSUME NEW p \in Queries(D), Follows(p, ver), NEW b \in BOOLEAN
      PROVE  StartFetch(p, b) \in Queries(D) /\ Follows(StartFetch(p, b), ver)
  <2>1. CASE StartFetch(p, b) = p
    BY <1>1, <2>1
  <2>2. CASE StartFetch(p, b) # p
    <3>1. StartFetch(p, b) = [p EXCEPT !.fetch = "sent", !.copy = NoData]
      BY <2>2 DEF StartFetch
    <3>2. StartFetch(p, b) \in Queries(D) /\ StartFetch(p, b).fetch = "sent"
      BY <3>1 DEF Queries
    <3> QED
      BY <3>2 DEF Follows, UpToDate
  <2> QED
    BY <2>1, <2>2
<1>2. ASSUME NEW b \in BOOLEAN
      PROVE  OnMount(q, b) \in Queries(D) /\ Follows(OnMount(q, b), ver)
  BY <1>1 DEF OnMount
<1>3. PICK m : m = [q EXCEPT !.stale = TRUE]
  OBVIOUS
<1>4. m \in Queries(D) /\ m.stale /\ m.fetch = q.fetch /\ m.copy = q.copy
  BY <1>3 DEF Queries
<1>5. Follows(m, ver)
  BY <1>4 DEF Follows, UpToDate
<1>6. Invalidated(q, TRUE) \in Queries(D) /\ Follows(Invalidated(q, TRUE), ver)
  BY <1>1, <1>3, <1>4, <1>5 DEF Invalidated
<1>7. PICK f : f = FetchFailed(q)
  OBVIOUS
<1>8. f \in Queries(D) /\ f.stale /\ f.fetch = "idle"
  BY <1>7 DEF FetchFailed, Queries
<1>9. Follows(f, ver)
  BY <1>8 DEF Follows, UpToDate
<1>10. ASSUME q.fetch = "read" PROVE Arrived(q) \in Queries(D) /\ Follows(Arrived(q), ver)
  <2>1. PICK a : a = Arrived(q)
    OBVIOUS
  <2>2. a \in Queries(D) /\ a.fetch = "idle" /\ a.seen = q.copy
    BY <2>1 DEF Arrived, EmptyQuery, Queries
  <2> QED
    BY <1>10, <2>1, <2>2 DEF Follows, UpToDate
<1> QED
  BY <1>1, <1>2, <1>6, <1>7, <1>8, <1>9, <1>10

\* A query that shows something is fetched again, whatever the version.
LEMMA InvalidatedFollows ==
  ASSUME NEW D, NEW q \in Queries(D), q.seen # NoData, NEW ver
  PROVE  Follows(Invalidated(q, TRUE), ver)
<1>1. PICK m : m = [q EXCEPT !.stale = TRUE]
  OBVIOUS
<1>2. m \in Queries(D) /\ m.seen = q.seen
  BY <1>1 DEF Queries
<1>3. PICK i : i = [m EXCEPT !.fetch = "sent", !.copy = NoData]
  OBVIOUS
<1>4. Invalidated(q, TRUE) = i
  BY <1>1, <1>2, <1>3 DEF Invalidated, StartFetch
<1>5. i.fetch = "sent"
  BY <1>2, <1>3 DEF Queries
<1> QED
  BY <1>4, <1>5 DEF Follows, UpToDate

\* What the server reads is of the version it reads.
LEMMA ReadFollows ==
  ASSUME NEW D, NEW q \in Queries(D), NEW d \in D, NEW ver \in Nat, d.ver >= ver
  PROVE  ReadByServer(q, d) \in Queries(D) /\ Follows(ReadByServer(q, d), ver)
<1>1. PICK r : r = [q EXCEPT !.fetch = "read", !.copy = d]
  OBVIOUS
<1>2. r \in Queries(D) /\ r.fetch = "read" /\ r.copy = d
  BY <1>1 DEF Queries
<1> QED
  BY <1>1, <1>2 DEF ReadByServer, Follows, UpToDate

\* A query that was never fetched shows nothing.
LEMMA EmptyFollows ==
  ASSUME NEW D, NEW ver
  PROVE  EmptyQuery \in Queries(D) /\ Follows(EmptyQuery, ver) /\ NoData.ver = 0
BY DEF EmptyQuery, Queries, Follows, UpToDate, NoData

\* Of what a query shows and holds, its next state shows and holds no more.
LEMMA QueryHolds ==
  ASSUME NEW D, NEW q \in Queries(D)
  PROVE  /\ \A b \in BOOLEAN :
               \A p \in {StartFetch(q, b), OnMount(q, b), Invalidated(q, b), FetchFailed(q)} :
                  p \in Queries(D) /\ p.seen = q.seen /\ p.copy \in {q.copy, NoData}
         /\ q.fetch = "read" => Arrived(q) \in Queries(D) /\ Arrived(q).seen = q.copy
                                /\ Arrived(q).copy = NoData
         /\ \A d \in D : ReadByServer(q, d) \in Queries(D) /\ ReadByServer(q, d).seen = q.seen
                         /\ ReadByServer(q, d).copy = d
<1>1. ASSUME NEW p \in Queries(D), NEW b \in BOOLEAN
      PROVE  /\ StartFetch(p, b) \in Queries(D) /\ StartFetch(p, b).seen = p.seen
             /\ StartFetch(p, b).copy \in {p.copy, NoData}
  <2>1. PICK s : s = [p EXCEPT !.fetch = "sent", !.copy = NoData]
    OBVIOUS
  <2>2. s \in Queries(D) /\ s.seen = p.seen /\ s.copy = NoData
    BY <2>1 DEF Queries
  <2> QED
    BY <2>1, <2>2 DEF StartFetch
<1>2. PICK m : m = [q EXCEPT !.stale = TRUE]
  OBVIOUS
<1>3. m \in Queries(D) /\ m.seen = q.seen /\ m.copy = q.copy
  BY <1>2 DEF Queries
<1>4. ASSUME NEW b \in BOOLEAN
      PROVE  /\ OnMount(q, b) \in Queries(D) /\ OnMount(q, b).seen = q.seen
             /\ OnMount(q, b).copy \in {q.copy, NoData}
             /\ Invalidated(q, b) \in Queries(D) /\ Invalidated(q, b).seen = q.seen
             /\ Invalidated(q, b).copy \in {q.copy, NoData}
  <2>1. OnMount(q, b) \in {StartFetch(q, FALSE), q}
    BY DEF OnMount
  <2>2. Invalidated(q, b) \in {StartFetch(m, TRUE), m}
    BY <1>2 DEF Invalidated
  <2> QED
    BY <1>1, <1>3, <2>1, <2>2
<1>5. PICK f : f = FetchFailed(q)
  OBVIOUS
<1>6. f \in Queries(D) /\ f.seen = q.seen /\ f.copy = NoData
  BY <1>5 DEF FetchFailed, Queries
<1>7. q.copy \in D \cup {NoData}
  BY DEF Queries
<1>8. /\ Arrived(q) \in Queries(D) /\ Arrived(q).seen = q.copy /\ Arrived(q).copy = NoData
  BY <1>7 DEF Arrived, EmptyQuery, Queries
<1>9. ASSUME NEW d \in D
      PROVE  ReadByServer(q, d) \in Queries(D) /\ ReadByServer(q, d).seen = q.seen
             /\ ReadByServer(q, d).copy = d
  BY DEF ReadByServer, Queries
<1> QED
  BY <1>1, <1>4, <1>5, <1>6, <1>8, <1>9

-----------------------------------------------------------------------------
\* Check-ins

Visiting == Guests \cup {Owner}
VisitRecords == [user : Visiting, room : Rooms \cup {NoRoom}, active : BOOLEAN, overlaps : BOOLEAN]
TrackingRequests ==
    [by : {"page", "device"}, user : Visiting, op : {"checkIn", "checkOut"},
     room : Rooms \cup {NoRoom}, log : Nat, at : {"sent", "checked", "loaded", "done", "refused"},
     overlaps : BOOLEAN]
ActiveLogs == [status : {"log"}, log : Nat, ver : Nat]

Alike(x, y) == x.user = y.user /\ x.room = y.room

\* A check-in that passed the check and is not saved yet.
Checking == {c \in trackingCalls : c.op = "checkIn" /\ c.at = "checked"}

\* Visits of a user to a room that are active together, those that are about to
\* be included, overlapped when they were checked.
OverlapsKnown ==
    /\ \A i, j \in DOMAIN visits :
          i # j /\ Alike(visits[i], visits[j]) /\ visits[i].active /\ visits[j].active
             => visits[i].overlaps /\ visits[j].overlaps
    /\ \A c \in Checking, i \in DOMAIN visits :
          Alike(c, visits[i]) /\ visits[i].active => c.overlaps /\ visits[i].overlaps
    /\ \A c, d \in Checking : c # d /\ Alike(c, d) => c.overlaps /\ d.overlaps

TrackingTypes ==
    /\ visits \in Seq(VisitRecords)
    /\ trackingCalls \subseteq TrackingRequests
    /\ trackingView.room \in Rooms \cup {NoRoom}
    /\ trackingView \in [shown : BOOLEAN, room : Rooms \cup {NoRoom}, armed : BOOLEAN]
    /\ activeQuery \in Queries(ActiveLogs)
    /\ trackingDebt \in Nat

PageFollows == trackingDebt <= VisitVersion(Owner) /\ Follows(activeQuery, trackingDebt)

VisitsInv == TrackingTypes /\ OverlapsKnown /\ PageFollows
\* The fields of requests and of the page.
LEMMA TrackingFields ==
  ASSUME NEW c \in TrackingRequests
  PROVE  /\ c.by \in {"page", "device"} /\ c.user \in Visiting /\ c.op \in {"checkIn", "checkOut"}
         /\ c.room \in Rooms \cup {NoRoom} /\ c.log \in Nat /\ c.overlaps \in BOOLEAN
         /\ \A at \in {"sent", "checked", "loaded", "done", "refused"} :
               [c EXCEPT !.at = at] \in TrackingRequests
         /\ [c EXCEPT !.by = "device"] \in TrackingRequests
BY DEF TrackingRequests

\* The visits of a user are finitely many.
LEMMA VisitSets ==
  ASSUME visits \in Seq(VisitRecords), NEW u
  PROVE  /\ DOMAIN visits = 1..Len(visits) /\ Len(visits) \in Nat /\ IsFiniteSet(DOMAIN visits)
         /\ IsFiniteSet(ActiveOf(u)) /\ IsFiniteSet(ClosedOf(u))
         /\ Cardinality(ActiveOf(u)) \in Nat /\ Cardinality(ClosedOf(u)) \in Nat
         /\ VisitVersion(u) \in Nat
<1>1. DOMAIN visits = 1..Len(visits) /\ Len(visits) \in Nat /\ 1 \in Int /\ Len(visits) \in Int
  OBVIOUS
<1>2. IsFiniteSet(DOMAIN visits)
  BY <1>1, FS_Interval
<1>3. ActiveOf(u) \in SUBSET DOMAIN visits /\ ClosedOf(u) \in SUBSET DOMAIN visits
  BY DEF ActiveOf, ClosedOf
<1>4. IsFiniteSet(ActiveOf(u)) /\ IsFiniteSet(ClosedOf(u))
  BY <1>2, <1>3, FS_Subset
<1>5. Cardinality(ActiveOf(u)) \in Nat /\ Cardinality(ClosedOf(u)) \in Nat
  BY <1>4, FS_CardinalityType
<1> QED
  BY <1>1, <1>2, <1>4, <1>5 DEF VisitVersion

\* The same after a step.
LEMMA VisitSetsNext ==
  ASSUME visits' \in Seq(VisitRecords), NEW u
  PROVE  /\ IsFiniteSet(ActiveOf(u))' /\ IsFiniteSet(ClosedOf(u))'
         /\ Cardinality(ActiveOf(u))' \in Nat /\ Cardinality(ClosedOf(u))' \in Nat
         /\ VisitVersion(u)' \in Nat
<1>1. DOMAIN visits' = 1..Len(visits') /\ Len(visits') \in Int /\ 1 \in Int
  OBVIOUS
<1>2. IsFiniteSet(DOMAIN visits')
  BY <1>1, FS_Interval
<1>3. ActiveOf(u)' \in SUBSET DOMAIN visits' /\ ClosedOf(u)' \in SUBSET DOMAIN visits'
  BY DEF ActiveOf, ClosedOf
<1>4. IsFiniteSet(ActiveOf(u))' /\ IsFiniteSet(ClosedOf(u))'
  BY <1>2, <1>3, FS_Subset
<1>5. Cardinality(ActiveOf(u))' \in Nat /\ Cardinality(ClosedOf(u))' \in Nat
  BY <1>4, FS_CardinalityType
<1> QED
  BY <1>4, <1>5 DEF VisitVersion

\* Nothing checks in, and no visit changes: what overlapped is known as before.
LEMMA CheckingKept ==
  ASSUME OverlapsKnown, UNCHANGED visits, Checking' \subseteq Checking
  PROVE  OverlapsKnown'
BY DEF OverlapsKnown

\* Steps of the page and of its query.
LEMMA PageStep ==
  ASSUME VisitsInv, UNCHANGED visits, trackingCalls' \subseteq TrackingRequests,
         Checking' \subseteq Checking,
         trackingView' \in [shown : BOOLEAN, room : Rooms \cup {NoRoom}, armed : BOOLEAN],
         activeQuery' \in Queries(ActiveLogs), Follows(activeQuery', trackingDebt'),
         trackingDebt' \in Nat, trackingDebt' <= VisitVersion(Owner)
  PROVE  VisitsInv'
<1>1. VisitVersion(Owner)' = VisitVersion(Owner)
  BY DEF VisitVersion, ActiveOf, ClosedOf
<1>2. TrackingTypes'
  BY DEF VisitsInv, TrackingTypes
<1>3. PageFollows'
  BY <1>1 DEF PageFollows, Follows, UpToDate
<1> QED
  BY <1>2, <1>3, CheckingKept DEF VisitsInv

LEMMA VisitsInitInv == CheckInsInit => VisitsInv
<1> SUFFICES ASSUME CheckInsInit PROVE VisitsInv
  OBVIOUS
<1>1. visits = << >> /\ visits \in Seq(VisitRecords) /\ DOMAIN visits = {}
  BY DEF CheckInsInit
<1>2. Checking = {}
  BY DEF CheckInsInit, Checking
<1>3. OverlapsKnown
  BY <1>1, <1>2 DEF OverlapsKnown
<1>4. VisitVersion(Owner) \in Nat
  BY <1>1, VisitSets
<1>5. TrackingTypes /\ PageFollows
  BY <1>1, <1>4, EmptyFollows DEF CheckInsInit, TrackingTypes, PageFollows, Away
<1> QED
  BY <1>3, <1>5 DEF VisitsInv

\* Requests from elsewhere are requests.
LEMMA ElsewhereTypes ==
  ASSUME VisitsInv, NEW e \in Elsewhere
  PROVE  e \in TrackingRequests
<1>1. visits \in Seq(VisitRecords)
  BY DEF VisitsInv, TrackingTypes
<1>2. DOMAIN visits \subseteq Nat
  BY <1>1
<1>3. CASE \E u \in Visiting, r \in Rooms : e = Sent("device", u, "checkIn", r, 0)
  BY <1>3 DEF Sent, TrackingRequests
<1>4. CASE \E u \in Visiting, i \in DOMAIN visits : e = Sent("device", u, "checkOut", NoRoom, i)
  BY <1>2, <1>4 DEF Sent, TrackingRequests
<1> QED
  BY <1>3, <1>4 DEF Elsewhere, Visiting

\* A check-in that finds no active visit: those it overlaps learn of it.
LEMMA CheckInInv ==
  ASSUME VisitsInv, NEW c \in trackingCalls \cup Elsewhere, CheckIn(c)
  PROVE  VisitsInv'
<1>1. UNCHANGED <<visits, pageState>> /\ c.op = "checkIn" /\ c.at = "sent"
  BY DEF CheckIn
<1>2. c \in TrackingRequests
  BY ElsewhereTypes DEF VisitsInv, TrackingTypes
<1>3. VisitVersion(Owner)' = VisitVersion(Owner)
  BY <1>1 DEF VisitVersion, ActiveOf, ClosedOf
<1>4. PageFollows'
  BY <1>1, <1>3 DEF VisitsInv, PageFollows, pageState, Follows, UpToDate
<1>5. TrackingTypes' /\ OverlapsKnown'
  <2> DEFINE theirs == {d \in trackingCalls : /\ d.op = "checkIn" /\ d.at = "checked"
                                                  /\ d.user = c.user /\ d.room = c.room}
             told == {[d EXCEPT !.overlaps = TRUE] : d \in theirs}
             mine == [c EXCEPT !.at = "checked", !.overlaps = theirs # {}]
  <2>1. CASE /\ RefusingLogs(c.user, c.room) = {}
             /\ trackingCalls' = (trackingCalls \ ({c} \cup theirs)) \cup told \cup {mine}
    <3>1. PICK m : m = mine
      OBVIOUS
    <3>2. m \in TrackingRequests /\ Alike(m, c) /\ m.op = "checkIn" /\ m.at = "checked"
          /\ (theirs # {} => m.overlaps)
      BY <1>1, <1>2, <3>1 DEF TrackingRequests, Alike
    <3>3. ASSUME NEW e \in told
          PROVE  /\ e \in TrackingRequests /\ Alike(e, c) /\ e.overlaps
                 /\ e.op = "checkIn" /\ e.at = "checked" /\ theirs # {}
      <4>1. PICK d \in theirs : e = [d EXCEPT !.overlaps = TRUE]
        BY <3>3
      <4>2. d \in TrackingRequests
        BY DEF VisitsInv, TrackingTypes
      <4> QED
        BY <4>1, <4>2 DEF TrackingRequests, Alike
    <3>4. \A e \in trackingCalls' \ (told \cup {m}) : e \in trackingCalls /\ e \notin theirs
      BY <2>1, <3>1
    <3>5. TrackingTypes'
      BY <1>1, <2>1, <3>1, <3>2, <3>3 DEF VisitsInv, TrackingTypes, pageState
    <3>6. \A i \in DOMAIN visits : ~(Alike(c, visits[i]) /\ visits[i].active)
      BY <2>1 DEF RefusingLogs, FindActiveLog, ActiveOf, Alike
    <3>7. ASSUME NEW e \in Checking'
          PROVE  \/ Alike(e, c) /\ (e.overlaps \/ e = m)
                 \/ ~Alike(e, c) /\ e \in Checking
      <4>1. e \in trackingCalls' /\ e.op = "checkIn" /\ e.at = "checked"
        BY DEF Checking
      <4>2. CASE e \in told \cup {m}
        BY <3>2, <3>3, <4>2
      <4>3. CASE e \notin told \cup {m}
        BY <3>4, <4>1, <4>3 DEF Checking, Alike
      <4> QED
        BY <4>2, <4>3
    <3>8. ASSUME NEW e \in Checking', e # m, Alike(e, c)
          PROVE  m.overlaps
      <4>1. e \in trackingCalls' /\ e.op = "checkIn" /\ e.at = "checked"
        BY DEF Checking
      <4>2. theirs # {}
        BY <3>3, <3>4, <3>8, <4>1 DEF Alike
      <4> QED
        BY <3>2, <4>2
    <3>9. ASSUME NEW e \in Checking', NEW i \in DOMAIN visits, Alike(e, visits[i]),
                 visits[i].active
          PROVE  e.overlaps /\ visits[i].overlaps
      <4>1. ~Alike(e, c)
        BY <3>6, <3>9 DEF Alike
      <4> QED
        BY <3>7, <3>9, <4>1 DEF VisitsInv, OverlapsKnown
    <3>10. ASSUME NEW e \in Checking', NEW d \in Checking', e # d, Alike(e, d)
           PROVE  e.overlaps /\ d.overlaps
      <4>1. CASE Alike(e, c)
        <5>1. Alike(d, c)
          BY <3>10, <4>1 DEF Alike
        <5> QED
          BY <3>7, <3>8, <3>10, <4>1, <5>1
      <4>2. CASE ~Alike(e, c)
        <5>1. ~Alike(d, c)
          BY <3>10, <4>2 DEF Alike
        <5> QED
          BY <3>7, <3>10, <4>2, <5>1 DEF VisitsInv, OverlapsKnown
      <4> QED
        BY <4>1, <4>2
    <3>11. OverlapsKnown'
      BY <1>1, <3>9, <3>10 DEF VisitsInv, OverlapsKnown
    <3> QED
      BY <3>5, <3>11
  <2>2. CASE Goes(c, "refused")
    <3>1. PICK r : r = [c EXCEPT !.at = "refused"]
      OBVIOUS
    <3>2. r \in TrackingRequests /\ r.at = "refused"
      BY <1>2, <3>1 DEF TrackingRequests
    <3>3. trackingCalls' \subseteq trackingCalls \cup {r}
      BY <2>2, <3>1 DEF Goes
    <3>4. Checking' \subseteq Checking
      BY <3>2, <3>3 DEF Checking
    <3>5. OverlapsKnown'
      BY <1>1, <3>4, CheckingKept DEF VisitsInv
    <3> QED
      BY <1>1, <3>2, <3>3, <3>5 DEF VisitsInv, TrackingTypes, pageState
  <2> QED
    BY <2>1, <2>2 DEF CheckIn
<1> QED
  BY <1>4, <1>5 DEF VisitsInv

\* The save of a check-in, which others that wait know of.
LEMMA SaveCheckInInv ==
  ASSUME VisitsInv, NEW c \in trackingCalls, SaveCheckIn(c)
  PROVE  VisitsInv'
<1>1. c \in Checking /\ UNCHANGED pageState /\ Goes(c, "done") /\ c \in TrackingRequests
  BY DEF SaveCheckIn, Checking, VisitsInv, TrackingTypes
<1>2. PICK v : v = [user |-> c.user, room |-> c.room, active |-> TRUE, overlaps |-> c.overlaps]
  OBVIOUS
<1>3. v \in VisitRecords /\ v.user = c.user /\ v.room = c.room /\ v.active
      /\ v.overlaps = c.overlaps
  BY <1>1, <1>2, TrackingFields DEF VisitRecords
<1>4. visits' = Append(visits, v) /\ visits \in Seq(VisitRecords)
  BY <1>2 DEF SaveCheckIn, VisitsInv, TrackingTypes
<1>5. /\ visits' \in Seq(VisitRecords) /\ DOMAIN visits = 1..Len(visits) /\ Len(visits) \in Nat
      /\ DOMAIN visits' = 1..(Len(visits) + 1)
      /\ \A i \in 1..Len(visits) : visits'[i] = visits[i]
      /\ visits'[Len(visits) + 1] = v
  BY <1>3, <1>4
<1>6. PICK d : d = [c EXCEPT !.at = "done"]
  OBVIOUS
<1>7. d \in TrackingRequests /\ d.at = "done" /\ trackingCalls' \subseteq (trackingCalls \ {c}) \cup {d}
  BY <1>1, <1>6 DEF Goes, TrackingRequests
<1>8. Checking' \subseteq Checking \ {c}
  BY <1>7 DEF Checking
<1>9. TrackingTypes'
  BY <1>1, <1>5, <1>7 DEF VisitsInv, TrackingTypes, pageState
<1>10. OverlapsKnown'
  <2>1. ASSUME NEW i \in DOMAIN visits', NEW j \in DOMAIN visits', i # j,
               Alike(visits'[i], visits'[j]), visits'[i].active, visits'[j].active
        PROVE  visits'[i].overlaps /\ visits'[j].overlaps
    <3>1. CASE i \in DOMAIN visits /\ j \in DOMAIN visits
      BY <1>5, <2>1, <3>1 DEF VisitsInv, OverlapsKnown
    <3>2. CASE i \in DOMAIN visits /\ j = Len(visits) + 1
      BY <1>1, <1>3, <1>5, <2>1, <3>2 DEF VisitsInv, OverlapsKnown, Alike
    <3>3. CASE i = Len(visits) + 1 /\ j \in DOMAIN visits
      BY <1>1, <1>3, <1>5, <2>1, <3>3 DEF VisitsInv, OverlapsKnown, Alike
    <3> QED
      BY <1>5, <2>1, <3>1, <3>2, <3>3
  <2>2. ASSUME NEW e \in Checking', NEW i \in DOMAIN visits', Alike(e, visits'[i]),
               visits'[i].active
        PROVE  e.overlaps /\ visits'[i].overlaps
    <3>1. e \in Checking /\ e # c
      BY <1>8
    <3>2. CASE i \in DOMAIN visits
      BY <1>5, <2>2, <3>1, <3>2 DEF VisitsInv, OverlapsKnown
    <3>3. CASE i = Len(visits) + 1
      BY <1>1, <1>3, <1>5, <2>2, <3>1, <3>3 DEF VisitsInv, OverlapsKnown, Alike
    <3> QED
      BY <1>5, <3>2, <3>3
  <2>3. \A e, f \in Checking' : e # f /\ Alike(e, f) => e.overlaps /\ f.overlaps
    BY <1>8 DEF VisitsInv, OverlapsKnown
  <2> QED
    BY <2>1, <2>2, <2>3 DEF OverlapsKnown
<1>11. VisitVersion(Owner)' >= VisitVersion(Owner) /\ VisitVersion(Owner) \in Nat
  <2>1. /\ IsFiniteSet(ActiveOf(Owner))' /\ IsFiniteSet(ClosedOf(Owner))'
        /\ Cardinality(ActiveOf(Owner))' \in Nat /\ Cardinality(ClosedOf(Owner))' \in Nat
    BY <1>5, VisitSetsNext
  <2>2. ActiveOf(Owner) \in SUBSET ActiveOf(Owner)' /\ ClosedOf(Owner) \in SUBSET ClosedOf(Owner)'
    BY <1>5 DEF ActiveOf, ClosedOf
  <2>3. /\ Cardinality(ActiveOf(Owner)) <= Cardinality(ActiveOf(Owner)')
        /\ Cardinality(ClosedOf(Owner)) <= Cardinality(ClosedOf(Owner)')
    BY <2>1, <2>2, FS_Subset
  <2>4. Cardinality(ActiveOf(Owner)) \in Nat /\ Cardinality(ClosedOf(Owner)) \in Nat
        /\ VisitVersion(Owner) \in Nat
    BY <1>4, VisitSets
  <2> QED
    BY <2>1, <2>3, <2>4 DEF VisitVersion
<1>12. PageFollows'
  BY <1>1, <1>5, <1>9, <1>11, VisitSetsNext
     DEF VisitsInv, PageFollows, pageState, Follows, UpToDate, TrackingTypes
<1> QED
  BY <1>9, <1>10, <1>12 DEF VisitsInv

\* The save of a check-out: a visit that was active is over.
LEMMA SaveCheckOutInv ==
  ASSUME VisitsInv, NEW c \in trackingCalls, SaveCheckOut(c)
  PROVE  VisitsInv'
<1>1. UNCHANGED pageState /\ Goes(c, "done") /\ c \in TrackingRequests /\ c.op = "checkOut"
      /\ c.log \in Nat
  BY TrackingFields DEF SaveCheckOut, VisitsInv, TrackingTypes
<1>2. visits \in Seq(VisitRecords)
  BY DEF VisitsInv, TrackingTypes
<1>3. DOMAIN visits = 1..Len(visits) /\ Len(visits) \in Nat
      /\ \A i \in DOMAIN visits : visits[i] \in VisitRecords
  BY <1>2
<1>4. PICK v : v = [visits[c.log] EXCEPT !.active = FALSE]
  OBVIOUS
<1>5. visits' = [visits EXCEPT ![c.log] = v]
  BY <1>4 DEF SaveCheckOut
<1>6. c.log \in DOMAIN visits => /\ v \in VisitRecords /\ ~v.active /\ v.user = visits[c.log].user
                                 /\ v.room = visits[c.log].room
                                 /\ v.overlaps = visits[c.log].overlaps
  BY <1>3, <1>4 DEF VisitRecords
<1>7. /\ visits' \in Seq(VisitRecords) /\ DOMAIN visits' = DOMAIN visits
      /\ \A i \in DOMAIN visits : visits'[i] = IF i = c.log THEN v ELSE visits[i]
  <2>1. CASE c.log \in DOMAIN visits
    BY <1>2, <1>3, <1>5, <1>6, <2>1
  <2>2. CASE c.log \notin DOMAIN visits
    <3>1. visits' = visits
      BY <1>2, <1>3, <1>5, <2>2
    <3> QED
      BY <1>2, <2>2, <3>1
  <2> QED
    BY <2>1, <2>2
<1>8. PICK d : d = [c EXCEPT !.at = "done"]
  OBVIOUS
<1>9. d \in TrackingRequests /\ d.op = "checkOut" /\ trackingCalls' \subseteq trackingCalls \cup {d}
  BY <1>1, <1>8 DEF Goes, TrackingRequests
<1>10. Checking' \subseteq Checking
  BY <1>9 DEF Checking
<1>11. TrackingTypes'
  BY <1>1, <1>7, <1>9 DEF VisitsInv, TrackingTypes, pageState
<1>12. \A i \in DOMAIN visits : visits'[i].active => visits'[i] = visits[i]
  BY <1>6, <1>7
<1>13. OverlapsKnown'
  BY <1>7, <1>10, <1>12 DEF VisitsInv, OverlapsKnown
<1>14. VisitVersion(Owner)' >= VisitVersion(Owner)
  <2>1. /\ IsFiniteSet(ActiveOf(Owner)) /\ IsFiniteSet(ClosedOf(Owner))
        /\ Cardinality(ActiveOf(Owner)) \in Nat /\ Cardinality(ClosedOf(Owner)) \in Nat
    BY <1>2, VisitSets
  <2>2. CASE c.log \in ActiveOf(Owner)
    <3>1. c.log \in DOMAIN visits /\ visits[c.log].user = Owner /\ visits[c.log].active
      BY <2>2 DEF ActiveOf
    <3>2. ActiveOf(Owner)' = ActiveOf(Owner) \ {c.log}
      BY <1>6, <1>7, <3>1 DEF ActiveOf
    <3>3. ClosedOf(Owner)' = ClosedOf(Owner) \cup {c.log} /\ c.log \notin ClosedOf(Owner)
      BY <1>6, <1>7, <3>1 DEF ClosedOf
    <3>4. /\ Cardinality(ActiveOf(Owner)') = Cardinality(ActiveOf(Owner)) - 1
          /\ Cardinality(ClosedOf(Owner)') = Cardinality(ClosedOf(Owner)) + 1
      <4>1. Cardinality(ActiveOf(Owner) \ {c.log}) = Cardinality(ActiveOf(Owner)) - 1
        BY <2>1, <2>2, FS_RemoveElement
      <4>2. Cardinality(ClosedOf(Owner) \cup {c.log}) = Cardinality(ClosedOf(Owner)) + 1
        BY <2>1, <3>3, FS_AddElement
      <4> QED
        BY <3>2, <3>3, <4>1, <4>2
    <3> QED
      BY <2>1, <3>4 DEF VisitVersion
  <2>3. CASE c.log \notin ActiveOf(Owner)
    <3>1. ActiveOf(Owner)' = ActiveOf(Owner)
      BY <1>6, <1>7, <2>3 DEF ActiveOf
    <3>2. ClosedOf(Owner)' = ClosedOf(Owner)
      BY <1>6, <1>7, <2>3, <3>1 DEF ClosedOf, ActiveOf
    <3> QED
      BY <2>1, <3>1, <3>2 DEF VisitVersion
  <2> QED
    BY <2>2, <2>3
<1>15. VisitVersion(Owner) \in Nat /\ VisitVersion(Owner)' \in Nat
  BY <1>2, <1>7, VisitSets, VisitSetsNext
<1>16. PageFollows'
  BY <1>1, <1>11, <1>14, <1>15 DEF VisitsInv, PageFollows, pageState, Follows, UpToDate, TrackingTypes
<1> QED
  BY <1>11, <1>13, <1>16 DEF VisitsInv

\* The rest of the requests.
LEMMA TrackingCallInv ==
  ASSUME VisitsInv, NEW c \in trackingCalls, TrackingAnswered(c) \/ TrackingFails(c)
  PROVE  VisitsInv'
<1>1. /\ trackingCalls \subseteq TrackingRequests /\ c \in TrackingRequests
      /\ trackingView \in [shown : BOOLEAN, room : Rooms \cup {NoRoom}, armed : BOOLEAN]
      /\ activeQuery \in Queries(ActiveLogs) /\ trackingDebt \in Nat
      /\ visits \in Seq(VisitRecords)
      /\ Follows(activeQuery, trackingDebt) /\ trackingDebt <= VisitVersion(Owner)
  BY DEF VisitsInv, TrackingTypes, PageFollows
<1>2. VisitVersion(Owner) \in Nat
  BY <1>1, VisitSets
<1>3. CASE TrackingAnswered(c)
  <2>1. /\ trackingCalls' = trackingCalls \ {c} /\ UNCHANGED visits
        /\ activeQuery' = Invalidated(activeQuery, TRUE)
        /\ trackingDebt' = IF activeQuery.seen = NoData THEN trackingDebt ELSE VisitVersion(Owner)
        /\ trackingView' = IF c.op = "checkIn" THEN [trackingView EXCEPT !.room = NoRoom]
                           ELSE [trackingView EXCEPT !.armed = FALSE]
    BY <1>3 DEF TrackingAnswered
  <2>2. Checking' \subseteq Checking
    BY <2>1 DEF Checking
  <2>3. trackingView' \in [shown : BOOLEAN, room : Rooms \cup {NoRoom}, armed : BOOLEAN]
    BY <1>1, <2>1
  <2>4. Invalidated(activeQuery, TRUE) \in Queries(ActiveLogs)
        /\ Follows(Invalidated(activeQuery, TRUE), trackingDebt)
    BY <1>1, QueryKept
  <2>5. activeQuery.seen # NoData => Follows(Invalidated(activeQuery, TRUE), VisitVersion(Owner))
    BY <1>1, InvalidatedFollows
  <2>6. Follows(activeQuery', trackingDebt')
    BY <2>1, <2>4, <2>5
  <2>7. trackingDebt' \in Nat /\ trackingDebt' <= VisitVersion(Owner)
    BY <1>1, <1>2, <2>1
  <2> QED
    BY <1>1, <2>1, <2>2, <2>3, <2>4, <2>6, <2>7, PageStep
<1>4. CASE TrackingFails(c)
  <2>1. UNCHANGED <<visits, pageState>>
        /\ trackingCalls' = (trackingCalls \ {c}) \cup LeftRunning(c)
    BY <1>4 DEF TrackingFails
  <2>2. PICK d : d = [c EXCEPT !.by = "device"]
    OBVIOUS
  <2>3. d \in TrackingRequests /\ Alike(d, c) /\ d.overlaps = c.overlaps /\ d.op = c.op
        /\ d.at = c.at
    BY <1>1, <2>2 DEF TrackingRequests, Alike
  <2>4. trackingCalls' \subseteq (trackingCalls \ {c}) \cup {d}
    BY <2>1, <2>2 DEF LeftRunning
  <2>5. \A e \in Checking' : e \in Checking \ {c} \/ (e = d /\ c \in Checking)
    BY <2>3, <2>4 DEF Checking
  <2>6. OverlapsKnown'
    <3>1. ASSUME NEW e \in Checking', NEW i \in DOMAIN visits, Alike(e, visits[i]), visits[i].active
          PROVE  e.overlaps /\ visits[i].overlaps
      BY <2>3, <2>5, <3>1 DEF VisitsInv, OverlapsKnown, Alike
    <3>2. ASSUME NEW e \in Checking', NEW f \in Checking', e # f, Alike(e, f)
          PROVE  e.overlaps /\ f.overlaps
      BY <2>3, <2>5, <3>2 DEF VisitsInv, OverlapsKnown, Alike
    <3> QED
      BY <2>1, <3>1, <3>2 DEF VisitsInv, OverlapsKnown
  <2>7. TrackingTypes'
    BY <1>1, <2>1, <2>3, <2>4 DEF VisitsInv, TrackingTypes, pageState
  <2>8. VisitVersion(Owner)' = VisitVersion(Owner)
    BY <2>1 DEF VisitVersion, ActiveOf, ClosedOf
  <2>9. PageFollows'
    BY <2>1, <2>8 DEF VisitsInv, PageFollows, pageState, Follows, UpToDate
  <2> QED
    BY <2>6, <2>7, <2>9 DEF VisitsInv
<1> QED
  BY <1>3, <1>4

\* A request that is at its start or its end waits for no save.
LEMMA CheckOutInv ==
  ASSUME VisitsInv, NEW c \in trackingCalls \cup Elsewhere, CheckOut(c)
  PROVE  VisitsInv'
<1>1. UNCHANGED <<visits, pageState>> /\ c.op = "checkOut"
  BY DEF CheckOut
<1>2. c \in TrackingRequests
  BY ElsewhereTypes DEF VisitsInv, TrackingTypes
<1>3. PICK at \in {"loaded", "refused"} : Goes(c, at)
  BY DEF CheckOut
<1>4. PICK d : d = [c EXCEPT !.at = at]
  OBVIOUS
<1>5. d \in TrackingRequests /\ d.op = "checkOut" /\ trackingCalls' \subseteq trackingCalls \cup {d}
  BY <1>1, <1>2, <1>3, <1>4 DEF Goes, TrackingRequests
<1>6. Checking' \subseteq Checking
  BY <1>5 DEF Checking
<1> QED
  BY <1>1, <1>5, <1>6, PageStep DEF VisitsInv, TrackingTypes, PageFollows, pageState

\* What the page and its query do.
LEMMA CheckInPageInv ==
  ASSUME VisitsInv,
         \/ LeaveCheckInPage
         \/ \E fresh \in BOOLEAN : OpenCheckInPage(fresh) \/ FocusCheckInPage(fresh)
         \/ \E r \in Rooms : SelectRoom(r)
         \/ HandleCheckIn \/ ArmCheckOut \/ HandleCheckOut
         \/ GetActiveCheckIn
  PROVE  VisitsInv'
<1> DEFINE Views == [shown : BOOLEAN, room : Rooms \cup {NoRoom}, armed : BOOLEAN]
<1>1. /\ trackingCalls \subseteq TrackingRequests /\ visits \in Seq(VisitRecords)
      /\ trackingView \in Views /\ Away \in Views
      /\ activeQuery \in Queries(ActiveLogs) /\ trackingDebt \in Nat
      /\ Follows(activeQuery, trackingDebt) /\ trackingDebt <= VisitVersion(Owner)
  BY DEF VisitsInv, TrackingTypes, PageFollows, Away
<1>2. VisitVersion(Owner) \in Nat /\ DOMAIN visits \subseteq Nat
  BY <1>1, VisitSets
<1>3. Follows(activeQuery, 0)
  <2>1. \A d \in ActiveLogs \cup {NoData} : d.ver \in Nat
    BY DEF ActiveLogs, NoData
  <2>2. activeQuery.seen.ver \in Nat /\ activeQuery.copy.ver \in Nat
    BY <1>1, <2>1 DEF Queries
  <2> QED
    BY <2>2 DEF Follows, UpToDate
<1>4. CASE LeaveCheckInPage
  <2>1. trackingView' = Away /\ trackingDebt' = 0 /\ UNCHANGED <<visits, activeQuery>>
        /\ trackingCalls' = UNION {LeftRunning(c) : c \in trackingCalls}
    BY <1>4 DEF LeaveCheckInPage, Opened
  <2>2. ASSUME NEW e \in trackingCalls'
        PROVE  \E c \in trackingCalls : /\ e = [c EXCEPT !.by = "device"] /\ e \in TrackingRequests
                                        /\ Alike(e, c) /\ e.overlaps = c.overlaps
                                        /\ e.op = c.op /\ e.at = c.at
    <3>1. PICK c \in trackingCalls : e \in LeftRunning(c)
      BY <2>1
    <3>2. PICK d : d = [c EXCEPT !.by = "device"]
      OBVIOUS
    <3>3. e = d
      BY <3>1, <3>2 DEF LeftRunning
    <3>4. c \in TrackingRequests
      BY <1>1
    <3> QED
      BY <3>2, <3>3, <3>4 DEF TrackingRequests, Alike
  <2>3. ASSUME NEW e \in Checking'
        PROVE  \E c \in Checking : /\ e = [c EXCEPT !.by = "device"]
                                   /\ Alike(e, c) /\ e.overlaps = c.overlaps
    BY <2>2 DEF Checking
  <2>4. OverlapsKnown'
    <3>1. ASSUME NEW e \in Checking', NEW i \in DOMAIN visits, Alike(e, visits[i]), visits[i].active
          PROVE  e.overlaps /\ visits[i].overlaps
      <4>1. PICK c \in Checking : Alike(e, c) /\ e.overlaps = c.overlaps
        BY <2>3
      <4> QED
        BY <3>1, <4>1 DEF VisitsInv, OverlapsKnown, Alike
    <3>2. ASSUME NEW e \in Checking', NEW f \in Checking', e # f, Alike(e, f)
          PROVE  e.overlaps /\ f.overlaps
      <4>1. PICK c \in Checking : e = [c EXCEPT !.by = "device"] /\ Alike(e, c)
                                  /\ e.overlaps = c.overlaps
        BY <2>3
      <4>2. PICK d \in Checking : f = [d EXCEPT !.by = "device"] /\ Alike(f, d)
                                  /\ f.overlaps = d.overlaps
        BY <2>3
      <4>3. c # d
        BY <3>2, <4>1, <4>2
      <4>4. Alike(c, d)
        BY <3>2, <4>1, <4>2 DEF Alike
      <4> QED
        BY <4>1, <4>2, <4>3, <4>4 DEF VisitsInv, OverlapsKnown
    <3> QED
      BY <2>1, <3>1, <3>2 DEF VisitsInv, OverlapsKnown
  <2>5. TrackingTypes'
    BY <1>1, <2>1, <2>2 DEF TrackingTypes
  <2>6. VisitVersion(Owner)' = VisitVersion(Owner)
    BY <2>1 DEF VisitVersion, ActiveOf, ClosedOf
  <2>7. PageFollows'
    BY <1>2, <1>3, <2>1, <2>6 DEF PageFollows, Follows, UpToDate
  <2> QED
    BY <2>4, <2>5, <2>7 DEF VisitsInv
<1>5. ASSUME UNCHANGED <<visits, trackingCalls, trackingDebt>>,
             trackingView' \in Views, activeQuery' \in Queries(ActiveLogs),
             Follows(activeQuery', trackingDebt)
      PROVE  VisitsInv'
  BY <1>1, <1>5, PageStep DEF Checking
<1>6. ASSUME NEW fresh \in BOOLEAN, OpenCheckInPage(fresh)
      PROVE  VisitsInv'
  <2>1. trackingView' = [Away EXCEPT !.shown = TRUE] /\ trackingDebt' = 0
        /\ activeQuery' = OnMount(activeQuery, fresh) /\ UNCHANGED <<visits, trackingCalls>>
    BY <1>6 DEF OpenCheckInPage, Opened
  <2>2. trackingView' \in Views
    BY <1>1, <2>1
  <2>3. activeQuery' \in Queries(ActiveLogs) /\ Follows(activeQuery', 0)
    BY <1>1, <1>3, <2>1, QueryKept
  <2> QED
    BY <1>1, <1>2, <2>1, <2>2, <2>3, PageStep DEF Checking
<1>7. ASSUME NEW fresh \in BOOLEAN, FocusCheckInPage(fresh)
      PROVE  VisitsInv'
  <2>1. activeQuery' = OnMount(activeQuery, fresh)
        /\ UNCHANGED <<visits, trackingCalls, trackingView, trackingDebt>>
    BY <1>7 DEF FocusCheckInPage
  <2>2. activeQuery' \in Queries(ActiveLogs) /\ Follows(activeQuery', trackingDebt)
    BY <1>1, <2>1, QueryKept
  <2> QED
    BY <1>1, <1>5, <2>1, <2>2
<1>8. ASSUME NEW r \in Rooms, SelectRoom(r)
      PROVE  VisitsInv'
  <2>1. trackingView' \in Views
    BY <1>1, <1>8 DEF SelectRoom
  <2> QED
    BY <1>1, <1>5, <1>8, <2>1 DEF SelectRoom
<1>9. CASE ArmCheckOut
  <2>1. trackingView' \in Views
    BY <1>1, <1>9 DEF ArmCheckOut
  <2> QED
    BY <1>1, <1>5, <1>9, <2>1 DEF ArmCheckOut
<1>10. ASSUME NEW op \in {"checkIn", "checkOut"}, NEW room \in Rooms \cup {NoRoom}, NEW log \in Nat,
              Ask(op, room, log), UNCHANGED <<visits, pageState>>
       PROVE  VisitsInv'
  <2>1. PICK d : d = Sent("page", Owner, op, room, log)
    OBVIOUS
  <2>2. d \in TrackingRequests /\ d.at = "sent"
    BY <2>1 DEF Sent, TrackingRequests, Visiting
  <2>3. trackingCalls' = trackingCalls \cup {d}
    BY <1>10, <2>1 DEF Ask
  <2>4. Checking' \subseteq Checking
    BY <2>2, <2>3 DEF Checking
  <2> QED
    BY <1>1, <1>10, <2>2, <2>3, <2>4, PageStep DEF pageState
<1>11. CASE HandleCheckIn
  <2>1. PICK room : room = trackingView.room
    OBVIOUS
  <2>2. room \in Rooms \cup {NoRoom}
    BY <1>1, <2>1
  <2> QED
    BY <1>10, <1>11, <2>1, <2>2 DEF HandleCheckIn
<1>12. CASE HandleCheckOut
  <2>1. PICK log : log = ActiveLog
    OBVIOUS
  <2>2. \A d \in ActiveLogs : d.log \in Nat
    BY DEF ActiveLogs
  <2>3. log \in Nat
    BY <1>1, <2>1, <2>2 DEF ActiveLog, Queries
  <2> QED
    BY <1>10, <1>12, <2>1, <2>3 DEF HandleCheckOut
<1>13. CASE GetActiveCheckIn
  <2>1. UNCHANGED <<visits, trackingCalls, trackingView, trackingDebt>>
    BY <1>13 DEF GetActiveCheckIn
  <2>2. ASSUME NEW i \in IF ActiveOf(Owner) = {} THEN {0} ELSE ActiveOf(Owner),
               activeQuery' = ReadByServer(activeQuery,
                               [status |-> "log", log |-> i, ver |-> VisitVersion(Owner)])
        PROVE  activeQuery' \in Queries(ActiveLogs) /\ Follows(activeQuery', trackingDebt)
    <3>1. PICK d : d = [status |-> "log", log |-> i, ver |-> VisitVersion(Owner)]
      OBVIOUS
    <3>2. i \in Nat
      BY <1>2 DEF ActiveOf
    <3>3. d \in ActiveLogs /\ d.ver = VisitVersion(Owner)
      BY <1>2, <3>1, <3>2 DEF ActiveLogs
    <3> QED
      BY <1>1, <2>2, <3>1, <3>3, ReadFollows
  <2>3. activeQuery' \in Queries(ActiveLogs) /\ Follows(activeQuery', trackingDebt)
    <3>1. /\ FetchFailed(activeQuery) \in Queries(ActiveLogs)
          /\ Follows(FetchFailed(activeQuery), trackingDebt)
          /\ activeQuery.fetch = "read" => /\ Arrived(activeQuery) \in Queries(ActiveLogs)
                                           /\ Follows(Arrived(activeQuery), trackingDebt)
      BY <1>1, QueryKept
    <3>2. \/ \E i \in IF ActiveOf(Owner) = {} THEN {0} ELSE ActiveOf(Owner) :
                activeQuery' = ReadByServer(activeQuery,
                                  [status |-> "log", log |-> i, ver |-> VisitVersion(Owner)])
          \/ activeQuery' = FetchFailed(activeQuery)
          \/ activeQuery.fetch = "read" /\ activeQuery' = Arrived(activeQuery)
      BY <1>13 DEF GetActiveCheckIn
    <3> QED
      BY <2>2, <3>1, <3>2
  <2> QED
    BY <1>1, <1>5, <2>1, <2>3
<1> QED
  BY <1>4, <1>6, <1>7, <1>8, <1>9, <1>11, <1>12, <1>13

LEMMA CheckInsStep == VisitsInv /\ [CheckInsNext]_trackingVars => VisitsInv'
<1> SUFFICES ASSUME VisitsInv, [CheckInsNext]_trackingVars PROVE VisitsInv'
  OBVIOUS
<1>1. CASE UNCHANGED trackingVars
  <2>1. UNCHANGED <<visits, trackingCalls, trackingView, activeQuery, trackingDebt>>
    BY <1>1 DEF trackingVars
  <2> QED
    BY <2>1, PageStep DEF VisitsInv, TrackingTypes, PageFollows, Checking
<1> QED
  BY <1>1, CheckInInv, CheckOutInv, SaveCheckInInv, SaveCheckOutInv, TrackingCallInv,
     CheckInPageInv DEF CheckInsNext

\* The invariant contains what the visits are to agree on; the rest is about
\* any visits.
LEMMA VisitsInvAgree == VisitsInv => VisitsAgree
<1> SUFFICES ASSUME VisitsInv PROVE VisitsAgree
  OBVIOUS
<1>1. visits \in Seq(VisitRecords)
  BY DEF VisitsInv, TrackingTypes
<1>2. \A i, j \in DOMAIN visits :
          i # j /\ visits[i].room = visits[j].room /\ visits[i].active
                /\ j \in ActiveOf(visits[i].user)
          => visits[i].overlaps /\ visits[j].overlaps
  BY DEF VisitsInv, OverlapsKnown, ActiveOf, Alike
<1>3. UpToDate(activeQuery, trackingDebt)
  BY DEF VisitsInv, PageFollows, Follows
<1>4. ASSUME NEW r \in Rooms
      PROVE  /\ CurrentOccupancy(r) - UtilizationStats(r).visits =
                    Cardinality({i \in LogsOf(r) : visits[i].active})
             /\ UtilizationStats(r).users <= UtilizationStats(r).visits
  <2> DEFINE logs == LogsOf(r)
             closed == {i \in LogsOf(r) : ~visits[i].active}
             active == {i \in LogsOf(r) : visits[i].active}
             users == {visits[i].user : i \in closed}
             userOf == [i \in closed |-> visits[i].user]
  <2>1. IsFiniteSet(logs)
    <3>1. IsFiniteSet(DOMAIN visits)
      BY <1>1, VisitSets
    <3>2. logs \in SUBSET DOMAIN visits
      BY DEF LogsOf
    <3> QED
      BY <3>1, <3>2, FS_Subset
  <2>2. closed \in SUBSET logs /\ active = logs \ closed /\ logs \cap closed = closed
    OBVIOUS
  <2>3. IsFiniteSet(closed) /\ IsFiniteSet(active)
    BY <2>1, <2>2, FS_Subset, FS_Difference
  <2>4. Cardinality(active) = Cardinality(logs) - Cardinality(closed)
    <3> HIDE DEF logs, closed, active
    <3>1. Cardinality(logs \ closed) = Cardinality(logs) - Cardinality(logs \cap closed)
      BY <2>1, FS_Difference
    <3> QED
      BY <2>2, <3>1
  <2>5. Cardinality(logs) \in Nat /\ Cardinality(closed) \in Nat /\ Cardinality(active) \in Nat
    BY <2>1, <2>3, FS_CardinalityType
  <2>6. userOf \in Surjection(closed, users)
    BY DEF Surjection
  <2>7. Cardinality(users) <= Cardinality(closed)
    BY <2>3, <2>6, FS_Surjection
  <2>8. CurrentOccupancy(r) = Cardinality(logs) /\ UtilizationStats(r).visits = Cardinality(closed)
        /\ UtilizationStats(r).users = Cardinality(users)
    BY DEF CurrentOccupancy, UtilizationStats
  <2> QED
    BY <2>4, <2>5, <2>7, <2>8
<1> QED
  BY <1>2, <1>3, <1>4 DEF VisitsAgree

\* Whatever check-ins and check-outs of a user overlap on whatever devices, the
\* visits, the page and the reports agree.
THEOREM VisitsAlwaysAgree == CheckInsSpec => []VisitsAgree
<1>1. CheckInsInit => VisitsInv
  BY VisitsInitInv
<1>2. VisitsInv /\ [CheckInsNext]_trackingVars => VisitsInv'
  BY CheckInsStep
<1>3. VisitsInv => VisitsAgree
  BY VisitsInvAgree
<1> QED
  BY <1>1, <1>2, <1>3, PTL DEF CheckInsSpec

-----------------------------------------------------------------------------
\* The second factor

FactorOps == {"setup", "confirm", "disable", "backup", "register", "assert"}
FactorArgs == Nat \cup (Nat \X CodeNumbers)
FactorRows == [enabled : BOOLEAN, secret : Nat, batch : Nat, codes : SUBSET (Nat \X CodeNumbers),
               keys : SUBSET Nat, ver : Nat]
FactorColumns == {"enabled", "secret", "codes", "keys"}
FactorRequests == [by : {"modal", "device"}, op : FactorOps, arg : FactorArgs,
                   at : {"sent", "loaded", "reloaded", "done", "refused"}, copy : FactorRows,
                   columns : SUBSET FactorColumns, seen : Nat, live : BOOLEAN]
FactorViews == [mode : {"none", "setup", "disable"}, step : {"start", "qr", "verify", "backup"},
                secret : FactorArgs]
StatusData == [status : {"on", "off"}, ver : Nat]

FactorTypes ==
    /\ factorRow \in FactorRows
    /\ factorCalls \subseteq FactorRequests
    /\ challengeStore \in [register : Nat, assert : Nat] /\ challengeCount \in Nat
    /\ signed \subseteq 1..challengeCount
    /\ burnt \subseteq Nat \X CodeNumbers /\ burntTwice \in BOOLEAN
    /\ overwritten \in {"no", "stale", "torn"}
    /\ factorView \in FactorViews
    /\ statusQuery \in Queries(StatusData) /\ statusDebt \in Nat

\* A row of a state of the flow; and what a row is, stored or held by a handler,
\* when saves may have been torn.
FlowState(row) ==
    /\ row.enabled <=> row.batch # 0
    /\ row.enabled => row.secret # 0
RowSound(row) ==
    /\ row.codes \subseteq BackupCodes(row.batch)
    /\ row.batch <= row.ver
    /\ overwritten # "torn" => FlowState(row)

\* What a handler read is the row, or a version of it that is past.
HoldsVersion(c) ==
    /\ RowSound(c.copy) /\ c.copy.ver <= factorRow.ver
    /\ c.copy.ver = factorRow.ver => c.copy = factorRow

\* While nobody saves, the columns compared are those in which the row differs.
ComparedSound(c) ==
    /\ c.copy.ver <= c.seen /\ c.seen <= factorRow.ver
    /\ c.seen = factorRow.ver => Differing(RowToSave(c, factorRow.ver + 1)) \subseteq c.columns

RequestSound(c) ==
    /\ c.at = "reloaded" => ComparedSound(c)
    /\ c.at \in {"loaded", "reloaded"} =>
          /\ HoldsVersion(c)
          /\ c.op = "confirm" => c.copy.secret # 0
          /\ c.op = "backup" => c.arg \in c.copy.codes
          /\ c.op = "register" => c.arg \in 1..challengeCount /\ c.arg # challengeStore.assert
          /\ c.op = "assert" => /\ c.arg \in 1..challengeCount /\ c.arg # challengeStore.register
                                /\ apiShape.ids # "text"
    /\ c.at \in {"done", "refused"} => c.by = "modal"
    /\ apiShape.envelope = "bare" /\ c.by = "modal" => c.op = "setup"

\* The challenges that wait are two, and were not used.
ChallengesSound ==
    /\ challengeStore.register <= challengeCount /\ challengeStore.assert <= challengeCount
    /\ challengeStore.register # 0 => challengeStore.register # challengeStore.assert
    /\ challengeStore.register \notin signed /\ challengeStore.assert \notin signed

\* What saves that read the row they wrote over have kept.
SavesSound ==
    /\ \A x \in burnt : x[1] <= factorRow.ver
    /\ overwritten = "no" => /\ burnt \cap factorRow.codes = {} /\ ~burntTwice
                             /\ factorRow.keys \subseteq signed
                             /\ apiShape.ids = "text" => signed \subseteq factorRow.keys

ModalSound ==
    /\ statusDebt <= factorRow.ver /\ Follows(statusQuery, statusDebt)
    /\ apiShape.envelope = "bare" => factorView \in {ClosedModal, [ClosedModal EXCEPT !.mode = "setup"]}

FactorInv ==
    /\ FactorTypes /\ RowSound(factorRow) /\ ChallengesSound /\ SavesSound /\ ModalSound
    /\ \A c \in factorCalls : RequestSound(c)

\* The fields of rows, and the rows an account starts with.
LEMMA FactorRowFields ==
  /\ \A row \in FactorRows : /\ row.enabled \in BOOLEAN /\ row.secret \in Nat /\ row.batch \in Nat
                             /\ row.codes \subseteq Nat \X CodeNumbers /\ row.keys \subseteq Nat
                             /\ row.ver \in Nat
  /\ Unconfirmed \in FactorRows /\ RowSound(Unconfirmed) /\ Unconfirmed.ver = 1
  /\ Confirmed \in FactorRows /\ RowSound(Confirmed) /\ Confirmed.ver = 1
  /\ Unconfirmed.keys = {} /\ Confirmed.keys = {}
<1>1. \A row \in FactorRows : /\ row.enabled \in BOOLEAN /\ row.secret \in Nat /\ row.batch \in Nat
                              /\ row.codes \subseteq Nat \X CodeNumbers /\ row.keys \subseteq Nat
                              /\ row.ver \in Nat
  BY DEF FactorRows
<1>2. Unconfirmed \in FactorRows /\ RowSound(Unconfirmed) /\ Unconfirmed.ver = 1
      /\ Unconfirmed.keys = {}
  BY DEF Unconfirmed, FactorRows, RowSound, FlowState
<1>3. PICK codes : codes = BackupCodes(1)
  OBVIOUS
<1>4. codes \subseteq Nat \X CodeNumbers
  BY <1>3 DEF BackupCodes
<1>5. PICK u : u = Unconfirmed
  OBVIOUS
<1>6. PICK d : d = [u EXCEPT !.enabled = TRUE, !.secret = 1, !.batch = 1, !.codes = codes]
  OBVIOUS
<1>7. u \in FactorRows /\ u.ver = 1 /\ u.keys = {}
  BY <1>2, <1>5
<1>8. /\ d \in FactorRows /\ d.enabled /\ d.secret = 1 /\ d.batch = 1 /\ d.codes = codes
      /\ d.keys = {} /\ d.ver = 1
  BY <1>4, <1>6, <1>7 DEF FactorRows
<1>9. RowSound(d)
  BY <1>3, <1>8 DEF RowSound, FlowState
<1>10. Confirmed = d
  BY <1>3, <1>5, <1>6 DEF Confirmed
<1> QED
  BY <1>1, <1>2, <1>8, <1>9, <1>10

\* The fields of requests.
LEMMA FactorRequestFields ==
  ASSUME NEW c \in FactorRequests
  PROVE  /\ c.by \in {"modal", "device"} /\ c.op \in FactorOps /\ c.arg \in FactorArgs
         /\ c.at \in {"sent", "loaded", "reloaded", "done", "refused"} /\ c.copy \in FactorRows
         /\ c.columns \subseteq FactorColumns /\ c.seen \in Nat /\ c.live \in BOOLEAN
BY DEF FactorRequests

\* A request that was just sent, and those devices send.
LEMMA SentRequests ==
  /\ \A by \in {"modal", "device"}, op \in FactorOps, arg \in FactorArgs :
        /\ FactorCall(by, op, arg) \in FactorRequests
        /\ FactorCall(by, op, arg).at = "sent" /\ FactorCall(by, op, arg).by = by
        /\ FactorCall(by, op, arg).op = op
  /\ FactorInv => \A e \in FromDevices : e \in FactorRequests /\ e.at = "sent" /\ e.by = "device"
<1>1. ASSUME NEW by \in {"modal", "device"}, NEW op \in FactorOps, NEW arg \in FactorArgs
      PROVE  /\ FactorCall(by, op, arg) \in FactorRequests
             /\ FactorCall(by, op, arg).at = "sent" /\ FactorCall(by, op, arg).by = by
             /\ FactorCall(by, op, arg).op = op
  BY FactorRowFields DEF FactorCall, FactorRequests
<1>2. ASSUME FactorInv, NEW e \in FromDevices
      PROVE  e \in FactorRequests /\ e.at = "sent" /\ e.by = "device"
  <2>1. e \in SentByDevices
    BY DEF FromDevices
  <2>2. \E op \in FactorOps, arg \in FactorArgs : e = FactorCall("device", op, arg)
    <3>1. /\ 0 \in FactorArgs /\ factorRow.secret \in FactorArgs
          /\ factorRow.codes \subseteq FactorArgs
          /\ challengeStore["register"] \in FactorArgs /\ challengeStore["assert"] \in FactorArgs
      BY <1>2, FactorRowFields DEF FactorInv, FactorTypes, FactorArgs
    <3>2. \/ e = FactorCall("device", "disable", 0)
          \/ e = FactorCall("device", "setup", 0)
          \/ e = FactorCall("device", "confirm", factorRow.secret)
          \/ \E code \in factorRow.codes : e = FactorCall("device", "backup", code)
          \/ e = FactorCall("device", "register", challengeStore["register"])
          \/ e = FactorCall("device", "assert", challengeStore["assert"])
      BY <2>1 DEF SentByDevices
    <3>3. {"disable", "setup", "confirm", "backup", "register", "assert"} \subseteq FactorOps
      BY DEF FactorOps
    <3> QED
      BY <3>1, <3>2, <3>3
  <2> QED
    BY <1>1, <2>2
<1> QED
  BY <1>1, <1>2

\* What a request holds does not depend on more than the row.
LEMMA HoldsKept ==
  ASSUME NEW c, HoldsVersion(c), UNCHANGED <<factorRow, overwritten>>
  PROVE  HoldsVersion(c)'
BY DEF HoldsVersion, RowSound, FlowState, BackupCodes

LEMMA ComparedKept ==
  ASSUME NEW c, ComparedSound(c), UNCHANGED factorRow
  PROVE  ComparedSound(c)'
<1>1. RowToSave(c, factorRow.ver + 1)' = RowToSave(c, factorRow.ver + 1)
  BY DEF RowToSave, RemainingCodes, BackupCodes
<1>2. \A row : Differing(row)' = Differing(row)
  BY DEF Differing
<1> QED
  BY <1>1, <1>2 DEF ComparedSound, Differing, RowToSave, RemainingCodes, BackupCodes

\* Steps that neither write the row nor issue a challenge.
LEMMA RequestsStep ==
  ASSUME FactorInv, UNCHANGED factorServer,
         \A d \in factorCalls' : d \in FactorRequests /\ RequestSound(d),
         factorView' \in FactorViews,
         statusQuery' \in Queries(StatusData), statusDebt' \in Nat, statusDebt' <= factorRow.ver,
         Follows(statusQuery', statusDebt'),
         apiShape.envelope = "bare" =>
            factorView' \in {ClosedModal, [ClosedModal EXCEPT !.mode = "setup"]}
  PROVE  FactorInv'
<1>1. FactorTypes'
  BY DEF FactorInv, FactorTypes, factorServer, factorHistory
<1>2. ChallengesSound' /\ SavesSound' /\ RowSound(factorRow)'
  BY DEF FactorInv, ChallengesSound, SavesSound, RowSound, FlowState, BackupCodes, factorServer,
         factorHistory
<1>3. ModalSound'
  BY DEF ModalSound, Follows, UpToDate, factorServer
<1>4. ASSUME NEW d \in factorCalls' PROVE RequestSound(d)'
  <2>1. RequestSound(d) /\ UNCHANGED <<factorRow, overwritten, apiShape, challengeStore, challengeCount>>
    BY DEF factorServer, factorHistory
  <2>2. HoldsVersion(d) => HoldsVersion(d)'
    BY <2>1, HoldsKept
  <2>3. ComparedSound(d) => ComparedSound(d)'
    BY <2>1, ComparedKept
  <2> QED
    BY <2>1, <2>2, <2>3 DEF RequestSound
<1> QED
  BY <1>1, <1>2, <1>3, <1>4 DEF FactorInv

\* An answer of a handler.
LEMMA AnswerKept ==
  ASSUME NEW c \in FactorRequests, NEW at \in {"done", "refused"}, NEW s \in FactorArgs,
         AnswerFactor(c, at, s)
  PROVE  \A d \in factorCalls' :
            \/ d \in factorCalls \ {c}
            \/ d \in FactorRequests /\ d.at = at /\ d.by = "modal" /\ c.by = "modal" /\ d.op = c.op
<1>1. CASE c.by = "device"
  BY <1>1 DEF AnswerFactor
<1>2. CASE c.by # "device"
  <2>1. PICK d : d = [c EXCEPT !.at = at, !.arg = s, !.copy = Unconfirmed, !.columns = {}, !.seen = 0]
    OBVIOUS
  <2>2. d \in FactorRequests /\ d.at = at /\ d.by = c.by /\ d.op = c.op
    BY <2>1, FactorRowFields DEF FactorRequests
  <2>3. factorCalls' = (factorCalls \ {c}) \cup {d} /\ c.by = "modal"
    BY <1>2, <2>1, FactorRequestFields DEF AnswerFactor, Become
  <2> QED
    BY <2>2, <2>3
<1> QED
  BY <1>1, <1>2

LEMMA FactorInit == SecondFactorInit => FactorInv
<1> SUFFICES ASSUME SecondFactorInit PROVE FactorInv
  OBVIOUS
<1>1. factorRow \in FactorRows /\ RowSound(factorRow) /\ factorRow.ver = 1 /\ factorRow.keys = {}
  BY FactorRowFields DEF SecondFactorInit
<1>2. ClosedModal \in FactorViews
  BY DEF ClosedModal, FactorViews, FactorArgs
<1>3. FactorTypes
  BY <1>1, <1>2, EmptyFollows DEF SecondFactorInit, FactorTypes
<1>4. ChallengesSound /\ SavesSound
  BY <1>1 DEF SecondFactorInit, ChallengesSound, SavesSound
<1>5. ModalSound
  BY <1>1, EmptyFollows DEF SecondFactorInit, ModalSound
<1>6. factorCalls = {}
  BY DEF SecondFactorInit
<1> QED
  BY <1>1, <1>3, <1>4, <1>5, <1>6 DEF FactorInv

\* The handlers up to their save.
LEMMA LoadFactorInv ==
  ASSUME FactorInv, NEW c \in factorCalls \cup FromDevices, LoadFactorRow(c)
  PROVE  FactorInv'
<1>1. c \in FactorRequests /\ c.at = "sent" /\ factorRow \in FactorRows /\ RowSound(factorRow)
  BY SentRequests DEF LoadFactorRow, FactorInv, FactorTypes
<1>2. apiShape.envelope = "bare" /\ c.by = "modal" => c.op = "setup"
  BY SentRequests DEF FactorInv, RequestSound
<1>3. \A d \in factorCalls : d \in FactorRequests /\ RequestSound(d)
  BY DEF FactorInv, FactorTypes
<1>4. \A d \in factorCalls' : d \in FactorRequests /\ RequestSound(d)
  <2>1. CASE Admitted(c) /\ Become(c, [c EXCEPT !.at = "loaded", !.copy = factorRow])
    <3>1. PICK d : d = [c EXCEPT !.at = "loaded", !.copy = factorRow]
      OBVIOUS
    <3>2. /\ d \in FactorRequests /\ d.at = "loaded" /\ d.by = c.by /\ d.op = c.op
          /\ d.arg = c.arg /\ d.copy = factorRow
      BY <1>1, <3>1 DEF FactorRequests
    <3>3. HoldsVersion(d)
      BY <1>1, <3>2, FactorRowFields DEF HoldsVersion
    <3>4. d.op = "confirm" => d.copy.secret # 0
      BY <2>1, <3>2 DEF Admitted
    <3>5. d.op = "backup" => d.arg \in d.copy.codes
      BY <2>1, <3>2 DEF Admitted
    <3>6. d.op = "register" => d.arg \in 1..challengeCount /\ d.arg # challengeStore.assert
      <4>1. SUFFICES ASSUME d.op = "register"
            PROVE  d.arg \in 1..challengeCount /\ d.arg # challengeStore.assert
        OBVIOUS
      <4>2. d.arg # 0 /\ d.arg = challengeStore.register
        BY <2>1, <3>2, <4>1 DEF Admitted
      <4> QED
        BY <4>2 DEF FactorInv, FactorTypes, ChallengesSound
    <3>7. d.op = "assert" => /\ d.arg \in 1..challengeCount /\ d.arg # challengeStore.register
                             /\ apiShape.ids # "text"
      <4>1. SUFFICES ASSUME d.op = "assert"
            PROVE  /\ d.arg \in 1..challengeCount /\ d.arg # challengeStore.register
                   /\ apiShape.ids # "text"
        OBVIOUS
      <4>2. d.arg # 0 /\ d.arg = challengeStore.assert /\ MatchingCredentials(factorRow) # {}
        BY <2>1, <3>2, <4>1 DEF Admitted
      <4> QED
        BY <4>2 DEF FactorInv, FactorTypes, ChallengesSound, MatchingCredentials
    <3>8. RequestSound(d)
      BY <1>2, <3>2, <3>3, <3>4, <3>5, <3>6, <3>7 DEF RequestSound
    <3> QED
      BY <1>3, <2>1, <3>1, <3>2, <3>8 DEF Become
  <2>2. CASE AnswerFactor(c, "refused", 0)
    <3>1. 0 \in FactorArgs
      BY DEF FactorArgs
    <3> QED
      BY <1>1, <1>2, <1>3, <2>2, <3>1, AnswerKept DEF RequestSound
  <2> QED
    BY <2>1, <2>2 DEF LoadFactorRow
<1>5. UNCHANGED factorServer /\ UNCHANGED <<factorView, statusQuery, statusDebt>>
  BY DEF LoadFactorRow, factorServer, factorPage
<1> QED
  BY <1>4, <1>5, RequestsStep DEF FactorInv, FactorTypes, ModalSound

\* The SELECT of a save finds the columns to write.
LEMMA ReloadInv ==
  ASSUME FactorInv, NEW c \in factorCalls, ReloadFactorRow(c) PROVE FactorInv'
<1>1. /\ c \in FactorRequests /\ RequestSound(c) /\ c.at = "loaded" /\ HoldsVersion(c)
      /\ factorRow \in FactorRows /\ factorRow.ver \in Nat
  BY FactorRowFields DEF ReloadFactorRow, FactorInv, FactorTypes, RequestSound
<1>2. PICK counted \in {{}, {"keys"}} :
         Become(c, [c EXCEPT !.at = "reloaded", !.seen = factorRow.ver,
                             !.columns = Differing(RowToSave(c, factorRow.ver + 1)) \cup counted])
  BY DEF ReloadFactorRow
<1>3. PICK columns : columns = Differing(RowToSave(c, factorRow.ver + 1)) \cup counted
  OBVIOUS
<1>12. columns \subseteq FactorColumns
  BY <1>2, <1>3 DEF Differing, FactorColumns
<1>4. PICK d : d = [c EXCEPT !.at = "reloaded", !.seen = factorRow.ver, !.columns = columns]
  OBVIOUS
<1>5. /\ d \in FactorRequests /\ d.at = "reloaded" /\ d.by = c.by /\ d.op = c.op /\ d.arg = c.arg
      /\ d.copy = c.copy /\ d.columns = columns /\ d.seen = factorRow.ver
  BY <1>1, <1>4, <1>12 DEF FactorRequests
<1>6. RowToSave(d, factorRow.ver + 1) = RowToSave(c, factorRow.ver + 1)
  BY <1>5 DEF RowToSave, RemainingCodes
<1>7. HoldsVersion(d) /\ d.copy.ver <= d.seen
  BY <1>1, <1>5 DEF HoldsVersion
<1>8. ComparedSound(d)
  BY <1>1, <1>3, <1>5, <1>6, <1>7 DEF ComparedSound
<1>9. RequestSound(d)
  BY <1>1, <1>5, <1>7, <1>8 DEF RequestSound
<1>10. \A e \in factorCalls' : e \in FactorRequests /\ RequestSound(e)
  BY <1>2, <1>3, <1>4, <1>5, <1>9 DEF Become, FactorInv, FactorTypes
<1>11. UNCHANGED factorServer /\ UNCHANGED <<factorView, statusQuery, statusDebt>>
  BY DEF ReloadFactorRow, factorServer, factorPage
<1> QED
  BY <1>10, <1>11, RequestsStep DEF FactorInv, FactorTypes, ModalSound

\* The row a handler saves, by what it is for.
LEMMA RowToSaveKind ==
  ASSUME FactorInv, NEW c \in factorCalls, c.at = "reloaded", NEW fresh,
         fresh = factorRow.ver + 1, NEW row, row = RowToSave(c, fresh)
  PROVE  /\ row \in FactorRows /\ (FlowState(c.copy) => FlowState(row))
         /\ row.codes \subseteq BackupCodes(row.batch) /\ row.batch <= fresh
         /\ c.op \in {"setup", "backup", "register", "assert"} => row.batch = c.copy.batch
         /\ c.op \in {"setup", "register", "assert"} => row.codes = c.copy.codes
         /\ c.op = "confirm" => row.batch = fresh
         /\ c.op = "disable" => row.codes = {}
         /\ c.op = "backup" => row.codes = c.copy.codes \ {c.arg}
         /\ c.op # "register" => row.keys = c.copy.keys
         /\ c.op = "register" => row.keys = c.copy.keys \cup {c.arg}
<1>1. /\ c \in FactorRequests /\ RequestSound(c) /\ c.op \in FactorOps
      /\ c.copy \in FactorRows /\ factorRow.ver \in Nat /\ fresh \in Nat /\ fresh # 0
      /\ HoldsVersion(c) /\ c.copy.ver \in Nat /\ c.copy.ver <= factorRow.ver
      /\ c.copy.batch \in Nat /\ c.copy.batch <= fresh
      /\ c.copy.codes \subseteq BackupCodes(c.copy.batch)
      /\ c.copy.codes \subseteq Nat \X CodeNumbers /\ c.copy.keys \subseteq Nat
  BY FactorRowFields, FactorRequestFields
     DEF FactorInv, FactorTypes, RequestSound, HoldsVersion, RowSound
<1>2. CASE c.op = "setup"
  <2>1. row = [c.copy EXCEPT !.secret = fresh]
    BY <1>2 DEF RowToSave
  <2>2. /\ row \in FactorRows /\ row.enabled = c.copy.enabled /\ row.secret = fresh
        /\ row.batch = c.copy.batch /\ row.codes = c.copy.codes /\ row.keys = c.copy.keys
    BY <1>1, <2>1 DEF FactorRows
  <2> QED
    BY <1>1, <1>2, <2>2 DEF FlowState
<1>3. CASE c.op = "confirm"
  <2>1. PICK codes : codes = BackupCodes(fresh)
    OBVIOUS
  <2>2. row = [c.copy EXCEPT !.enabled = TRUE, !.batch = fresh, !.codes = codes]
    BY <1>3, <2>1 DEF RowToSave
  <2>3. codes \subseteq Nat \X CodeNumbers
    BY <1>1, <2>1 DEF BackupCodes
  <2>4. /\ row \in FactorRows /\ row.enabled /\ row.secret = c.copy.secret
        /\ row.batch = fresh /\ row.codes = codes /\ row.keys = c.copy.keys
    BY <1>1, <2>2, <2>3 DEF FactorRows
  <2>5. c.copy.secret # 0
    BY <1>1, <1>3 DEF RequestSound
  <2> QED
    BY <1>1, <1>3, <2>1, <2>4, <2>5 DEF FlowState
<1>4. CASE c.op = "disable"
  <2>1. row = [c.copy EXCEPT !.enabled = FALSE, !.secret = 0, !.batch = 0, !.codes = {}]
    BY <1>4 DEF RowToSave
  <2>2. PICK off \in BOOLEAN, zero \in Nat, codes \in SUBSET (Nat \X CodeNumbers) :
           off = FALSE /\ zero = 0 /\ codes = {}
    OBVIOUS
  <2>3. row = [c.copy EXCEPT !.enabled = off, !.secret = zero, !.batch = zero, !.codes = codes]
    BY <2>1, <2>2
  <2>4. c.copy \in FactorRows
    BY <1>1
  <2>5. /\ row \in FactorRows /\ row.enabled = off /\ row.batch = zero /\ row.codes = codes
        /\ row.keys = c.copy.keys
    BY <2>3, <2>4 DEF FactorRows
  <2> QED
    BY <1>1, <1>4, <2>2, <2>5 DEF FlowState
<1>5. CASE c.op = "backup"
  <2>1. PICK codes : codes = c.copy.codes \ {c.arg}
    OBVIOUS
  <2>2. row = [c.copy EXCEPT !.codes = codes]
    BY <1>5, <2>1 DEF RowToSave, RemainingCodes
  <2>3. /\ row \in FactorRows /\ row.enabled = c.copy.enabled /\ row.secret = c.copy.secret
        /\ row.batch = c.copy.batch /\ row.codes = codes /\ row.keys = c.copy.keys
    BY <1>1, <2>1, <2>2 DEF FactorRows
  <2> QED
    BY <1>1, <1>5, <2>1, <2>3 DEF FlowState
<1>6. CASE c.op = "register"
  <2>1. PICK keys : keys = c.copy.keys \cup {c.arg}
    OBVIOUS
  <2>2. row = [c.copy EXCEPT !.keys = keys]
    BY <1>6, <2>1 DEF RowToSave
  <2>3. keys \subseteq Nat
    BY <1>1, <1>6, <2>1 DEF RequestSound, FactorInv, FactorTypes
  <2>4. /\ row \in FactorRows /\ row.enabled = c.copy.enabled /\ row.secret = c.copy.secret
        /\ row.batch = c.copy.batch /\ row.codes = c.copy.codes /\ row.keys = keys
    BY <1>1, <2>2, <2>3 DEF FactorRows
  <2> QED
    BY <1>1, <1>6, <2>1, <2>4 DEF FlowState
<1>7. CASE c.op = "assert"
  <2>1. row = c.copy
    BY <1>7 DEF RowToSave
  <2> QED
    BY <1>1, <1>7, <2>1
<1> QED
  BY <1>1, <1>2, <1>3, <1>4, <1>5, <1>6, <1>7 DEF FactorOps

\* The UPDATE of a save writes columns of the row its handler made: all that
\* differ, unless another save came after its SELECT; codes with their batch.
LEMMA RowSaved ==
  ASSUME FactorInv, NEW c \in factorCalls, SaveFactorRow(c),
         NEW row, row = RowToSave(c, factorRow.ver + 1)
  PROVE  /\ c \in FactorRequests /\ c.at = "reloaded" /\ c.copy \in FactorRows /\ RequestSound(c)
         /\ RowSound(c.copy) /\ c.copy.ver \in Nat /\ c.copy.ver <= factorRow.ver
         /\ factorRow' \in FactorRows /\ factorRow'.keys \in {row.keys, factorRow.keys}
         /\ factorRow.ver \in Nat /\ factorRow'.ver = factorRow.ver + 1
         /\ RowSound(factorRow)' /\ UNCHANGED apiShape
         /\ overwritten' \in {"no", "stale", "torn"} /\ (overwritten = "torn" => overwritten' = "torn")
         /\ overwritten' = "no" => /\ overwritten = "no" /\ c.copy = factorRow
                                   /\ factorRow'.codes = row.codes /\ factorRow'.keys = row.keys
<1>1. /\ c \in FactorRequests /\ c.copy \in FactorRows /\ c.at = "reloaded" /\ c.seen \in Nat
      /\ factorRow \in FactorRows /\ factorRow.ver \in Nat /\ c.copy.ver \in Nat
      /\ RequestSound(c) /\ HoldsVersion(c) /\ ComparedSound(c)
  BY FactorRequestFields, FactorRowFields
     DEF FactorInv, FactorTypes, RequestSound, SaveFactorRow
<1>2. /\ row \in FactorRows /\ (FlowState(c.copy) => FlowState(row))
      /\ row.codes \subseteq BackupCodes(row.batch) /\ row.batch <= factorRow.ver + 1
  BY <1>1, RowToSaveKind
<1>3. PICK e, s, b, x, k :
         /\ e = IF "enabled" \in c.columns THEN row.enabled ELSE factorRow.enabled
         /\ s = IF "secret" \in c.columns THEN row.secret ELSE factorRow.secret
         /\ b = IF "codes" \in c.columns THEN row.batch ELSE factorRow.batch
         /\ x = IF "codes" \in c.columns THEN row.codes ELSE factorRow.codes
         /\ k = IF "keys" \in c.columns THEN row.keys ELSE factorRow.keys
  OBVIOUS
<1>15. /\ e \in BOOLEAN /\ s \in Nat /\ b \in Nat /\ x \subseteq Nat \X CodeNumbers
       /\ k \subseteq Nat
  BY <1>1, <1>2, <1>3, FactorRowFields
<1>16. factorRow' = [factorRow EXCEPT !.enabled = e, !.secret = s, !.batch = b, !.codes = x,
                                      !.keys = k, !.ver = factorRow.ver + 1]
  BY <1>3, Zenon DEF SaveFactorRow
<1>4. /\ factorRow' \in FactorRows /\ factorRow'.enabled = e /\ factorRow'.secret = s
      /\ factorRow'.batch = b /\ factorRow'.codes = x /\ factorRow'.keys = k
      /\ factorRow'.ver = factorRow.ver + 1
  <2>1. factorRow \in FactorRows /\ factorRow.ver + 1 \in Nat
    BY <1>1
  <2> QED
    BY <1>15, <1>16, <2>1 DEF FactorRows
<1>5. /\ overwritten' = IF c.seen # factorRow.ver THEN "torn"
                        ELSE IF c.copy.ver # factorRow.ver /\ overwritten = "no" THEN "stale"
                        ELSE overwritten
      /\ UNCHANGED apiShape /\ overwritten \in {"no", "stale", "torn"}
  BY DEF SaveFactorRow, factorPage, FactorInv, FactorTypes
<1>6. /\ overwritten' \in {"no", "stale", "torn"} /\ (overwritten = "torn" => overwritten' = "torn")
      /\ overwritten' # "torn" => overwritten # "torn" /\ c.seen = factorRow.ver
      /\ overwritten' = "no" => overwritten = "no" /\ c.copy.ver = factorRow.ver
  BY <1>5
<1>7. ASSUME overwritten' # "torn"
      PROVE  /\ e = row.enabled /\ s = row.secret /\ b = row.batch /\ x = row.codes
             /\ k = row.keys
  <2>1. Differing(row) \subseteq c.columns
    BY <1>1, <1>6, <1>7 DEF ComparedSound
  <2>2. /\ row["enabled"] # factorRow["enabled"] => "enabled" \in c.columns
        /\ row["secret"] # factorRow["secret"] => "secret" \in c.columns
        /\ row["keys"] # factorRow["keys"] => "keys" \in c.columns
        /\ <<row.batch, row.codes>> # <<factorRow.batch, factorRow.codes>> => "codes" \in c.columns
    BY <2>1 DEF Differing
  <2> QED
    BY <1>3, <2>1, <2>2
<1>8. overwritten' # "torn" => FlowState(factorRow)'
  <2>1. overwritten # "torn" => FlowState(c.copy)
    BY <1>1 DEF HoldsVersion, RowSound
  <2>2. overwritten' # "torn" => FlowState(row)
    BY <1>2, <1>6, <2>1
  <2> QED
    BY <1>4, <1>7, <2>2 DEF FlowState
<1>9. factorRow'.codes \subseteq BackupCodes(factorRow'.batch) /\ factorRow'.batch <= factorRow'.ver
  <2>1. /\ factorRow.codes \subseteq BackupCodes(factorRow.batch) /\ factorRow.batch <= factorRow.ver
        /\ factorRow.batch \in Nat
    BY <1>1, FactorRowFields DEF FactorInv, RowSound
  <2>2. CASE "codes" \in c.columns
    BY <1>2, <1>3, <1>4, <2>2
  <2>3. CASE "codes" \notin c.columns
    BY <1>1, <1>3, <1>4, <2>1, <2>3
  <2> QED
    BY <2>2, <2>3
<1>10. RowSound(factorRow)'
  BY <1>8, <1>9 DEF RowSound, BackupCodes
<1>11. overwritten' = "no" => /\ overwritten = "no" /\ c.copy = factorRow
                              /\ factorRow'.codes = row.codes /\ factorRow'.keys = row.keys
  <2>1. overwritten' = "no" => overwritten = "no" /\ c.copy = factorRow
    BY <1>1, <1>6 DEF HoldsVersion
  <2> QED
    BY <1>4, <1>7, <2>1
<1>12. RowSound(c.copy) /\ c.copy.ver <= factorRow.ver
  BY <1>1 DEF HoldsVersion
<1>13. factorRow'.keys \in {row.keys, factorRow.keys}
  BY <1>3, <1>4
<1> QED
  BY <1>1, <1>4, <1>5, <1>6, <1>10, <1>11, <1>12, <1>13

\* What another request holds after a save is a version that is past.
LEMMA SaveKept ==
  ASSUME FactorInv, NEW c \in factorCalls, SaveFactorRow(c),
         NEW s \in FactorArgs, AnswerFactor(c, "done", s),
         challengeStore' \in [register : Nat, assert : Nat], challengeCount' = challengeCount,
         challengeStore'.register \in {0, challengeStore.register},
         challengeStore'.assert \in {0, challengeStore.assert},
         signed' \subseteq 1..challengeCount, burnt' \subseteq Nat \X CodeNumbers,
         burntTwice' \in BOOLEAN, ChallengesSound', SavesSound'
  PROVE  FactorInv'
<1>1. UNCHANGED <<apiShape, factorView, statusQuery, statusDebt>>
  BY DEF SaveFactorRow, factorPage
<1>2. /\ c \in FactorRequests /\ factorRow \in FactorRows /\ factorRow.ver \in Nat
      /\ factorRow' \in FactorRows /\ factorRow'.ver = factorRow.ver + 1 /\ RowSound(factorRow)'
      /\ overwritten' \in {"no", "stale", "torn"} /\ (overwritten = "torn" => overwritten' = "torn")
  BY RowSaved DEF FactorInv, FactorTypes
<1>3. \A d \in factorCalls' :
            \/ d \in factorCalls \ {c}
            \/ d \in FactorRequests /\ d.at = "done" /\ d.by = "modal" /\ c.by = "modal" /\ d.op = c.op
  BY <1>2, AnswerKept
<1>4. FactorTypes'
  <2>1. factorCalls' \subseteq FactorRequests
    BY <1>3 DEF FactorInv, FactorTypes
  <2>2. factorView \in FactorViews /\ statusQuery \in Queries(StatusData) /\ statusDebt \in Nat
        /\ challengeCount \in Nat
    BY DEF FactorInv, FactorTypes
  <2> QED
    BY <1>1, <1>2, <2>1, <2>2 DEF FactorTypes
<1>5. ModalSound'
  BY <1>1, <1>2 DEF FactorInv, FactorTypes, ModalSound, Follows, UpToDate
<1>6. ASSUME NEW d \in factorCalls' PROVE RequestSound(d)'
  <2>1. CASE d \in factorCalls \ {c}
    <3>1. RequestSound(d) /\ d \in FactorRequests
      BY <2>1 DEF FactorInv, FactorTypes
    <3>2. d.copy.ver \in Nat /\ d.seen \in Nat
      BY <3>1, FactorRequestFields, FactorRowFields
    <3>3. d.at \in {"loaded", "reloaded"} => HoldsVersion(d)'
      <4>1. /\ factorRow.ver \in Nat /\ factorRow'.ver = factorRow.ver + 1
            /\ overwritten = "torn" => overwritten' = "torn"
        BY <1>2
      <4>2. HoldsVersion(d) => /\ d.copy.ver <= factorRow'.ver /\ d.copy.ver # factorRow'.ver
        BY <3>2, <4>1 DEF HoldsVersion
      <4>3. RowSound(d.copy) => RowSound(d.copy)'
        BY <4>1 DEF RowSound, FlowState, BackupCodes
      <4> QED
        BY <3>1, <4>2, <4>3 DEF RequestSound, HoldsVersion
    <3>4. d.at = "reloaded" => ComparedSound(d)'
      BY <1>2, <3>1, <3>2 DEF RequestSound, ComparedSound
    <3>5. d.at \in {"loaded", "reloaded"} /\ d.op = "register" =>
             d.arg \in (1..challengeCount)' /\ d.arg # challengeStore'.assert
      BY <3>1 DEF RequestSound, FactorInv, FactorTypes
    <3>6. d.at \in {"loaded", "reloaded"} /\ d.op = "assert" =>
             d.arg \in (1..challengeCount)' /\ d.arg # challengeStore'.register /\ apiShape'.ids # "text"
      BY <1>1, <3>1 DEF RequestSound, FactorInv, FactorTypes
    <3> QED
      BY <1>1, <3>1, <3>3, <3>4, <3>5, <3>6 DEF RequestSound
  <2>2. CASE d.at = "done" /\ d.by = "modal" /\ c.by = "modal" /\ d.op = c.op
    <3>1. apiShape.envelope = "bare" => c.op = "setup"
      BY <2>2 DEF FactorInv, RequestSound
    <3> QED
      BY <1>1, <2>2, <3>1 DEF RequestSound
  <2> QED
    BY <1>3, <2>1, <2>2
<1> QED
  BY <1>2, <1>4, <1>5, <1>6 DEF FactorInv

\* A new secret leaves the factor and its codes as they are.
LEMMA SetupInv ==
  ASSUME FactorInv, NEW c \in factorCalls, Initiate2faSetup(c) PROVE FactorInv'
<1>1. SaveFactorRow(c) /\ AnswerFactor(c, "done", factorRow.ver + 1) /\ UNCHANGED factorHistory
      /\ c.op = "setup"
  BY DEF Initiate2faSetup
<1>2. factorRow.ver + 1 \in FactorArgs
  BY FactorRowFields DEF FactorInv, FactorTypes, FactorArgs
<1>3. PICK row : row = RowToSave(c, factorRow.ver + 1)
  OBVIOUS
<1>4. row.codes = c.copy.codes /\ row.keys = c.copy.keys
  BY <1>1, <1>3, RowSaved, RowToSaveKind
<1>5. SavesSound'
  BY <1>1, <1>3, <1>4, RowSaved DEF FactorInv, FactorTypes, SavesSound, factorHistory
<1>6. ChallengesSound'
  BY <1>1 DEF FactorInv, ChallengesSound, factorHistory
<1> QED
  BY <1>1, <1>2, <1>5, <1>6, SaveKept DEF FactorInv, FactorTypes, factorHistory

\* A confirmation gives codes nobody had before.
LEMMA ConfirmInv ==
  ASSUME FactorInv, NEW c \in factorCalls, Confirm2faSetup(c) PROVE FactorInv'
<1>1. SaveFactorRow(c) /\ AnswerFactor(c, "done", c.arg) /\ UNCHANGED factorHistory
      /\ c.op = "confirm"
  BY DEF Confirm2faSetup
<1>2. factorRow.ver \in Nat /\ c.arg \in FactorArgs
  BY FactorRowFields, FactorRequestFields DEF FactorInv, FactorTypes
<1>3. PICK row : row = RowToSave(c, factorRow.ver + 1)
  OBVIOUS
<1>4. /\ row.batch = factorRow.ver + 1 /\ row.codes \subseteq BackupCodes(row.batch)
      /\ row.keys = c.copy.keys
  BY <1>1, <1>3, RowSaved, RowToSaveKind
<1>5. SavesSound'
  <2>1. \A x \in burnt : x[1] \in Nat /\ x[1] <= factorRow.ver
    BY DEF FactorInv, FactorTypes, SavesSound
  <2>2. \A x \in row.codes : x[1] = factorRow.ver + 1
    BY <1>4 DEF BackupCodes
  <2>3. burnt \cap row.codes = {}
    BY <1>2, <2>1, <2>2
  <2> QED
    BY <1>1, <1>2, <1>3, <1>4, <2>1, <2>3, RowSaved
       DEF FactorInv, FactorTypes, SavesSound, factorHistory
<1>6. ChallengesSound'
  BY <1>1 DEF FactorInv, ChallengesSound, factorHistory
<1> QED
  BY <1>1, <1>2, <1>5, <1>6, SaveKept DEF FactorInv, FactorTypes, factorHistory

LEMMA DisableInv ==
  ASSUME FactorInv, NEW c \in factorCalls, Disable2fa(c) PROVE FactorInv'
<1>1. SaveFactorRow(c) /\ AnswerFactor(c, "done", 0) /\ UNCHANGED factorHistory /\ c.op = "disable"
  BY DEF Disable2fa
<1>2. 0 \in FactorArgs
  BY DEF FactorArgs
<1>3. PICK row : row = RowToSave(c, factorRow.ver + 1)
  OBVIOUS
<1>4. row.codes = {} /\ row.keys = c.copy.keys
  BY <1>1, <1>3, RowSaved, RowToSaveKind
<1>5. SavesSound'
  BY <1>1, <1>3, <1>4, RowSaved DEF FactorInv, FactorTypes, SavesSound, factorHistory
<1>6. ChallengesSound'
  BY <1>1 DEF FactorInv, ChallengesSound, factorHistory
<1> QED
  BY <1>1, <1>2, <1>5, <1>6, SaveKept DEF FactorInv, FactorTypes, factorHistory

\* A code that signs in leaves the list.
LEMMA BackupInv ==
  ASSUME FactorInv, NEW c \in factorCalls, VerifyBackupCode(c) PROVE FactorInv'
<1>1. /\ SaveFactorRow(c) /\ AnswerFactor(c, "done", 0) /\ c.op = "backup"
      /\ burnt' = burnt \cup {c.arg} /\ burntTwice' = (burntTwice \/ c.arg \in burnt)
      /\ UNCHANGED <<challengeStore, challengeCount, signed>>
  BY DEF VerifyBackupCode
<1>2. 0 \in FactorArgs
  BY DEF FactorArgs
<1>3. PICK row : row = RowToSave(c, factorRow.ver + 1)
  OBVIOUS
<1>4. row.codes = c.copy.codes \ {c.arg} /\ row.keys = c.copy.keys
  BY <1>1, <1>3, RowSaved, RowToSaveKind
<1>5. /\ c.arg \in c.copy.codes /\ c.copy.codes \subseteq Nat \X CodeNumbers /\ c.copy.batch \in Nat
      /\ factorRow.ver \in Nat /\ c.copy.ver \in Nat
  BY <1>1, <1>3, RowSaved, FactorRowFields DEF RequestSound
<1>6. SavesSound'
  <2>1. \A x \in c.copy.codes : x[1] = c.copy.batch
    BY <1>1, <1>3, RowSaved DEF RowSound, BackupCodes
  <2>2. c.arg[1] <= factorRow.ver
    BY <1>1, <1>3, <1>5, <2>1, RowSaved DEF RowSound
  <2>3. \A x \in burnt' : x[1] \in Nat /\ x[1] <= factorRow'.ver
    BY <1>1, <1>3, <1>5, <2>2, RowSaved DEF FactorInv, FactorTypes, SavesSound
  <2>4. overwritten' = "no" => burnt' \cap factorRow'.codes = {} /\ ~burntTwice'
    BY <1>1, <1>3, <1>4, <1>5, RowSaved DEF FactorInv, SavesSound
  <2> QED
    BY <1>1, <1>3, <1>4, <2>3, <2>4, RowSaved DEF FactorInv, SavesSound
<1>7. ChallengesSound'
  BY <1>1 DEF FactorInv, ChallengesSound
<1>8. burnt' \subseteq Nat \X CodeNumbers /\ burntTwice' \in BOOLEAN
  BY <1>1, <1>5 DEF FactorInv, FactorTypes
<1> QED
  BY <1>1, <1>2, <1>6, <1>7, <1>8, SaveKept DEF FactorInv, FactorTypes

\* A verification saves what it checked and uses the challenge up.
LEMMA RegistrationInv ==
  ASSUME FactorInv, NEW c \in factorCalls, VerifyRegistration(c) PROVE FactorInv'
<1>1. /\ SaveFactorRow(c) /\ AnswerFactor(c, "done", 0) /\ c.op = "register"
      /\ challengeStore' = [challengeStore EXCEPT !.register = 0]
      /\ signed' = signed \cup {c.arg} /\ UNCHANGED <<challengeCount, burnt, burntTwice>>
  BY DEF VerifyRegistration
<1>2. 0 \in FactorArgs /\ c \in FactorRequests /\ c.at = "reloaded" /\ RequestSound(c)
  BY <1>1 DEF FactorArgs, SaveFactorRow, FactorInv, FactorTypes
<1>3. c.arg \in 1..challengeCount /\ c.arg # challengeStore.assert /\ challengeCount \in Nat
  BY <1>1, <1>2 DEF RequestSound, FactorInv, FactorTypes
<1>4. PICK row : row = RowToSave(c, factorRow.ver + 1)
  OBVIOUS
<1>5. row.codes = c.copy.codes /\ row.keys = c.copy.keys \cup {c.arg}
  BY <1>1, <1>2, <1>4, RowToSaveKind
<1>6. SavesSound'
  BY <1>1, <1>4, <1>5, RowSaved DEF FactorInv, FactorTypes, SavesSound
<1>7. /\ challengeStore' \in [register : Nat, assert : Nat] /\ challengeStore'.register = 0
      /\ challengeStore'.assert = challengeStore.assert
  BY <1>1 DEF FactorInv, FactorTypes
<1>8. signed' \subseteq 1..challengeCount
  BY <1>1, <1>3 DEF FactorInv, FactorTypes
<1>9. ChallengesSound'
  BY <1>1, <1>3, <1>7, <1>8 DEF FactorInv, FactorTypes, ChallengesSound
<1> QED
  BY <1>1, <1>2, <1>6, <1>7, <1>8, <1>9, SaveKept DEF FactorInv, FactorTypes

LEMMA AssertionInv ==
  ASSUME FactorInv, NEW c \in factorCalls, VerifyAssertion(c) PROVE FactorInv'
<1>1. /\ SaveFactorRow(c) /\ AnswerFactor(c, "done", 0) /\ c.op = "assert"
      /\ challengeStore' = [challengeStore EXCEPT !.assert = 0]
      /\ signed' = signed \cup {c.arg} /\ UNCHANGED <<challengeCount, burnt, burntTwice>>
  BY DEF VerifyAssertion
<1>2. 0 \in FactorArgs /\ c \in FactorRequests /\ c.at = "reloaded" /\ RequestSound(c)
  BY <1>1 DEF FactorArgs, SaveFactorRow, FactorInv, FactorTypes
<1>3. c.arg \in 1..challengeCount /\ c.arg # challengeStore.register /\ challengeCount \in Nat
      /\ apiShape.ids # "text"
  BY <1>1, <1>2 DEF RequestSound, FactorInv, FactorTypes
<1>4. PICK row : row = RowToSave(c, factorRow.ver + 1)
  OBVIOUS
<1>5. row.codes = c.copy.codes /\ row.keys = c.copy.keys
  BY <1>1, <1>2, <1>4, RowToSaveKind
<1>6. SavesSound'
  BY <1>1, <1>3, <1>4, <1>5, RowSaved DEF FactorInv, FactorTypes, SavesSound
<1>7. /\ challengeStore' \in [register : Nat, assert : Nat] /\ challengeStore'.assert = 0
      /\ challengeStore'.register = challengeStore.register
  BY <1>1 DEF FactorInv, FactorTypes
<1>8. signed' \subseteq 1..challengeCount
  BY <1>1, <1>3 DEF FactorInv, FactorTypes
<1>9. ChallengesSound'
  BY <1>1, <1>3, <1>7, <1>8 DEF FactorInv, FactorTypes, ChallengesSound
<1> QED
  BY <1>1, <1>2, <1>6, <1>7, <1>8, <1>9, SaveKept DEF FactorInv, FactorTypes

\* Options name a challenge nobody has.
LEMMA OptionsInv ==
  ASSUME FactorInv, NEW kind \in {"register", "assert"}, CreateOptions(kind) PROVE FactorInv'
<1>1. /\ UNCHANGED <<factorRow, factorCalls, signed, burnt, burntTwice, overwritten, factorPage>>
      /\ challengeCount' = challengeCount + 1
      /\ challengeStore' = [challengeStore EXCEPT ![kind] = challengeCount + 1]
  BY DEF CreateOptions
<1>2. /\ challengeCount \in Nat /\ challengeStore \in [register : Nat, assert : Nat]
      /\ signed \subseteq 1..challengeCount
  BY DEF FactorInv, FactorTypes
<1>3. challengeStore' \in [register : Nat, assert : Nat]
  <2>1. CASE kind = "register"
    BY <1>1, <1>2, <2>1
  <2>2. CASE kind = "assert"
    BY <1>1, <1>2, <2>2
  <2> QED
    BY <2>1, <2>2
<1>4. /\ challengeStore'.register \in {challengeStore.register, challengeCount + 1}
      /\ challengeStore'.assert \in {challengeStore.assert, challengeCount + 1}
      /\ \/ challengeStore'.register = challengeStore.register
         \/ challengeStore'.assert = challengeStore.assert
  <2>1. CASE kind = "register"
    BY <1>1, <1>2, <2>1
  <2>2. CASE kind = "assert"
    BY <1>1, <1>2, <2>2
  <2> QED
    BY <2>1, <2>2
<1>5. ChallengesSound'
  BY <1>1, <1>2, <1>3, <1>4 DEF FactorInv, ChallengesSound
<1>6. FactorTypes'
  BY <1>1, <1>2, <1>3 DEF FactorInv, FactorTypes, factorPage
<1>7. SavesSound' /\ ModalSound' /\ RowSound(factorRow)'
  BY <1>1 DEF FactorInv, SavesSound, ModalSound, RowSound, FlowState, BackupCodes, factorPage,
              Follows, UpToDate
<1>8. ASSUME NEW d \in factorCalls' PROVE RequestSound(d)'
  <2>1. RequestSound(d) /\ UNCHANGED <<factorRow, apiShape>>
    BY <1>1 DEF FactorInv, factorPage
  <2>2. HoldsVersion(d) => HoldsVersion(d)'
    BY <1>1, <2>1, HoldsKept
  <2>3. ComparedSound(d) => ComparedSound(d)'
    BY <2>1, ComparedKept
  <2> QED
    BY <1>1, <1>2, <1>3, <1>4, <2>1, <2>2, <2>3 DEF RequestSound
<1> QED
  BY <1>5, <1>6, <1>7, <1>8 DEF FactorInv

-----------------------------------------------------------------------------
\* The settings page

\* The modal and its fields.
LEMMA ModalFields ==
  /\ ClosedModal \in FactorViews
  /\ \A m \in {"none", "setup", "disable"} : [ClosedModal EXCEPT !.mode = m] \in FactorViews
  /\ ClosedModal.mode = "none" /\ ClosedModal.step = "start"
  /\ [ClosedModal EXCEPT !.mode = "setup"].mode = "setup"
  /\ [ClosedModal EXCEPT !.mode = "setup"].step = "start"
  /\ \A v \in FactorViews, step \in {"start", "qr", "verify", "backup"}, s \in FactorArgs :
        /\ [v EXCEPT !.step = step] \in FactorViews
        /\ [v EXCEPT !.step = step, !.secret = s] \in FactorViews
<1>1. PICK v : v = ClosedModal
  OBVIOUS
<1>2. v \in FactorViews /\ v.mode = "none" /\ v.step = "start"
  BY <1>1 DEF ClosedModal, FactorViews, FactorArgs
<1>3. \A m \in {"none", "setup", "disable"} : [v EXCEPT !.mode = m] \in FactorViews
  BY <1>2 DEF FactorViews
<1>4. [v EXCEPT !.mode = "setup"].mode = "setup" /\ [v EXCEPT !.mode = "setup"].step = "start"
  BY <1>2 DEF FactorViews
<1>5. ASSUME NEW w \in FactorViews, NEW step \in {"start", "qr", "verify", "backup"},
             NEW s \in FactorArgs
      PROVE  /\ [w EXCEPT !.step = step] \in FactorViews
             /\ [w EXCEPT !.step = step, !.secret = s] \in FactorViews
  BY DEF FactorViews
<1> QED
  BY <1>1, <1>2, <1>3, <1>4, <1>5

\* What was compared does not depend on who asked.
LEMMA ComparedAlike ==
  ASSUME NEW c, NEW d, d.op = c.op, d.arg = c.arg, d.copy = c.copy, d.columns = c.columns,
         d.seen = c.seen
  PROVE  ComparedSound(c) => ComparedSound(d)
<1>1. RowToSave(d, factorRow.ver + 1) = RowToSave(c, factorRow.ver + 1)
  BY DEF RowToSave, RemainingCodes
<1> QED
  BY <1>1 DEF ComparedSound

\* A request whose modal is gone, and one whose answer is lost.
LEMMA RequestLeft ==
  ASSUME NEW c \in FactorRequests, RequestSound(c)
  PROVE  /\ [c EXCEPT !.live = FALSE] \in FactorRequests /\ RequestSound([c EXCEPT !.live = FALSE])
         /\ c.at \notin {"done", "refused"} =>
               /\ [c EXCEPT !.by = "device", !.live = FALSE] \in FactorRequests
               /\ RequestSound([c EXCEPT !.by = "device", !.live = FALSE])
<1>1. PICK d : d = [c EXCEPT !.live = FALSE]
  OBVIOUS
<1>2. /\ d \in FactorRequests /\ d.by = c.by /\ d.op = c.op /\ d.arg = c.arg /\ d.at = c.at
      /\ d.copy = c.copy /\ d.columns = c.columns /\ d.seen = c.seen
  BY <1>1 DEF FactorRequests
<1>3. RequestSound(d)
  BY <1>2, ComparedAlike DEF RequestSound, HoldsVersion
<1>4. PICK e : e = [c EXCEPT !.by = "device", !.live = FALSE]
  OBVIOUS
<1>5. /\ e \in FactorRequests /\ e.by = "device" /\ e.op = c.op /\ e.arg = c.arg /\ e.at = c.at
      /\ e.copy = c.copy /\ e.columns = c.columns /\ e.seen = c.seen
  BY <1>4 DEF FactorRequests
<1>6. c.at \notin {"done", "refused"} => RequestSound(e)
  BY <1>5, ComparedAlike DEF RequestSound, HoldsVersion
<1> QED
  BY <1>1, <1>2, <1>3, <1>4, <1>5, <1>6

\* A request the modal sends.
LEMMA AskInv ==
  ASSUME FactorInv, NEW op \in FactorOps, NEW arg \in FactorArgs, AskFactor(op, arg),
         apiShape.envelope = "bare" => op = "setup",
         UNCHANGED <<factorServer, factorView, statusQuery, statusDebt>>
  PROVE  FactorInv'
<1>1. PICK e : e = FactorCall("modal", op, arg)
  OBVIOUS
<1>2. e \in FactorRequests /\ e.at = "sent" /\ e.op = op
  BY <1>1, SentRequests
<1>3. RequestSound(e)
  BY <1>2 DEF RequestSound
<1>4. factorCalls' = factorCalls \cup {e}
  BY <1>1 DEF AskFactor
<1>5. \A d \in factorCalls' : d \in FactorRequests /\ RequestSound(d)
  BY <1>2, <1>3, <1>4 DEF FactorInv, FactorTypes
<1> QED
  BY <1>5, RequestsStep DEF FactorInv, FactorTypes, ModalSound

\* The toggle, the steps and the buttons of the modal.
LEMMA ModalInv ==
  ASSUME FactorInv,
         ToggleTwoFa \/ CloseModal \/ HandleStartSetup \/ NextStep \/ HandleConfirm \/ HandleDisable
  PROVE  FactorInv'
<1>1. /\ \A d \in factorCalls : d \in FactorRequests /\ RequestSound(d)
      /\ factorView \in FactorViews /\ statusQuery \in Queries(StatusData) /\ statusDebt \in Nat
      /\ statusDebt <= factorRow.ver /\ Follows(statusQuery, statusDebt)
      /\ apiShape.envelope = "bare" =>
            factorView \in {ClosedModal, [ClosedModal EXCEPT !.mode = "setup"]}
  BY DEF FactorInv, FactorTypes, ModalSound
<1>2. 0 \in FactorArgs /\ factorView.secret \in FactorArgs
      /\ "setup" \in FactorOps /\ "confirm" \in FactorOps /\ "disable" \in FactorOps
  BY <1>1 DEF FactorArgs, FactorViews, FactorOps
<1>3. apiShape.envelope = "bare" => factorView.step = "start" /\ factorView.mode # "disable"
  BY <1>1, ModalFields
<1>4. ASSUME ToggleTwoFa PROVE FactorInv'
  <2>1. PICK m : m = IF TwoFaEnabled THEN "disable" ELSE "setup"
    OBVIOUS
  <2>2. m \in {"none", "setup", "disable"} /\ (apiShape.envelope = "bare" => m = "setup")
    BY <2>1 DEF TwoFaEnabled
  <2>3. factorView' = [ClosedModal EXCEPT !.mode = m]
        /\ UNCHANGED <<factorCalls, factorServer, statusQuery, statusDebt>>
    BY <1>4, <2>1 DEF ToggleTwoFa
  <2>4. factorView' \in FactorViews
    BY <2>2, <2>3, ModalFields
  <2> QED
    BY <1>1, <2>2, <2>3, <2>4, RequestsStep
<1>5. ASSUME CloseModal PROVE FactorInv'
  <2>1. factorView' = ClosedModal /\ factorCalls' = Abandoned
        /\ UNCHANGED <<factorServer, statusQuery, statusDebt>>
    BY <1>5 DEF CloseModal
  <2>2. \A d \in factorCalls' : d \in FactorRequests /\ RequestSound(d)
    BY <1>1, <2>1, RequestLeft DEF Abandoned
  <2> QED
    BY <1>1, <2>1, <2>2, ModalFields, RequestsStep
<1>6. ASSUME HandleStartSetup PROVE FactorInv'
  BY <1>2, <1>6, AskInv DEF HandleStartSetup
<1>7. ASSUME NextStep PROVE FactorInv'
  <2>1. \E step \in {"verify", "qr"} : factorView' = [factorView EXCEPT !.step = step]
    BY <1>7 DEF NextStep
  <2>2. factorView' \in FactorViews
    <3>1. PICK step \in {"verify", "qr"} : factorView' = [factorView EXCEPT !.step = step]
      BY <2>1
    <3> QED
      BY <1>1, <3>1 DEF FactorViews
  <2>3. apiShape.envelope # "bare" /\ UNCHANGED <<factorCalls, factorServer, statusQuery, statusDebt>>
    BY <1>3, <1>7 DEF NextStep
  <2> QED
    BY <1>1, <2>2, <2>3, RequestsStep
<1>8. ASSUME HandleConfirm PROVE FactorInv'
  BY <1>2, <1>3, <1>8, AskInv DEF HandleConfirm
<1>9. ASSUME HandleDisable PROVE FactorInv'
  BY <1>2, <1>3, <1>9, AskInv DEF HandleDisable
<1> QED
  BY <1>4, <1>5, <1>6, <1>7, <1>8, <1>9

\* What was answered is fetched again.
LEMMA StatusFollows ==
  ASSUME FactorInv, StatusInvalidated
  PROVE  /\ statusQuery' \in Queries(StatusData) /\ statusDebt' \in Nat
         /\ statusDebt' <= factorRow.ver /\ Follows(statusQuery', statusDebt')
<1>1. /\ statusQuery \in Queries(StatusData) /\ statusDebt \in Nat /\ statusDebt <= factorRow.ver
      /\ Follows(statusQuery, statusDebt) /\ factorRow.ver \in Nat
  BY FactorRowFields DEF FactorInv, FactorTypes, ModalSound
<1>2. statusQuery' = Invalidated(statusQuery, TRUE)
      /\ statusDebt' = IF statusQuery.seen = NoData THEN statusDebt ELSE factorRow.ver
  BY DEF StatusInvalidated
<1>3. Invalidated(statusQuery, TRUE) \in Queries(StatusData)
      /\ Follows(Invalidated(statusQuery, TRUE), statusDebt)
  BY <1>1, QueryKept
<1>4. CASE statusQuery.seen = NoData
  BY <1>1, <1>2, <1>3, <1>4
<1>5. CASE statusQuery.seen # NoData
  <2>1. Follows(Invalidated(statusQuery, TRUE), factorRow.ver)
    BY <1>1, <1>5, InvalidatedFollows
  <2>2. statusDebt' = factorRow.ver
    BY <1>2, <1>5
  <2>3. Follows(statusQuery', statusDebt')
    BY <1>2, <2>1, <2>2
  <2>4. statusDebt' \in Nat /\ statusDebt' <= factorRow.ver
    BY <1>1, <2>2
  <2>5. statusQuery' \in Queries(StatusData)
    BY <1>2, <1>3
  <2> QED
    BY <2>3, <2>4, <2>5
<1> QED
  BY <1>4, <1>5

\* Answers reach the page, or are lost.
LEMMA AnsweredInv ==
  ASSUME FactorInv, NEW c \in factorCalls,
         SetupAnswered(c) \/ ConfirmAnswered(c) \/ DisableAnswered(c) \/ FactorFails(c)
  PROVE  FactorInv'
<1>1. /\ \A d \in factorCalls : d \in FactorRequests /\ RequestSound(d)
      /\ factorView \in FactorViews /\ statusQuery \in Queries(StatusData) /\ statusDebt \in Nat
      /\ statusDebt <= factorRow.ver /\ Follows(statusQuery, statusDebt)
      /\ apiShape.envelope = "bare" =>
            factorView \in {ClosedModal, [ClosedModal EXCEPT !.mode = "setup"]}
  BY DEF FactorInv, FactorTypes, ModalSound
<1>2. c.arg \in FactorArgs
  BY <1>1, FactorRequestFields
<1>3. ASSUME SetupAnswered(c) PROVE FactorInv'
  <2>1. factorCalls' \subseteq factorCalls /\ UNCHANGED <<factorServer, statusQuery, statusDebt>>
    BY <1>3 DEF SetupAnswered
  <2>2. CASE c.live /\ apiShape.envelope = "data"
    <3>1. factorView' = [factorView EXCEPT !.step = "qr", !.secret = c.arg]
      BY <1>3, <2>2 DEF SetupAnswered
    <3>2. factorView' \in FactorViews
      BY <1>1, <1>2, <3>1, ModalFields
    <3> QED
      BY <1>1, <2>1, <2>2, <3>2, RequestsStep
  <2>3. CASE ~(c.live /\ apiShape.envelope = "data")
    <3>1. factorView' = factorView
      BY <1>3, <2>3 DEF SetupAnswered
    <3> QED
      BY <1>1, <2>1, <3>1, RequestsStep
  <2> QED
    BY <2>2, <2>3
<1>4. ASSUME ConfirmAnswered(c) PROVE FactorInv'
  <2>1. /\ factorCalls' \subseteq factorCalls /\ UNCHANGED factorServer /\ StatusInvalidated
        /\ factorView' = IF c.live THEN [factorView EXCEPT !.step = "backup"] ELSE factorView
        /\ c.op = "confirm" /\ c.at = "done"
    BY <1>4 DEF ConfirmAnswered
  <2>2. apiShape.envelope # "bare"
    BY <1>1, <2>1 DEF RequestSound
  <2>3. factorView' \in FactorViews
    BY <1>1, <1>2, <2>1, ModalFields
  <2> QED
    BY <1>1, <2>1, <2>2, <2>3, StatusFollows, RequestsStep
<1>5. ASSUME DisableAnswered(c) PROVE FactorInv'
  <2>1. /\ factorCalls' \subseteq Abandoned /\ UNCHANGED factorServer /\ StatusInvalidated
        /\ factorView' = ClosedModal
    BY <1>5 DEF DisableAnswered
  <2>2. \A d \in factorCalls' : d \in FactorRequests /\ RequestSound(d)
    BY <1>1, <2>1, RequestLeft DEF Abandoned
  <2> QED
    BY <2>1, <2>2, ModalFields, StatusFollows, RequestsStep
<1>6. ASSUME FactorFails(c) PROVE FactorInv'
  <2>1. UNCHANGED <<factorServer, factorView, statusQuery, statusDebt>>
    BY <1>6 DEF FactorFails
  <2>2. CASE c.at \in {"done", "refused"}
    BY <1>1, <1>6, <2>1, <2>2, RequestsStep DEF FactorFails
  <2>3. CASE c.at \notin {"done", "refused"}
    <3>1. PICK e : e = [c EXCEPT !.by = "device", !.live = FALSE]
      OBVIOUS
    <3>2. e \in FactorRequests /\ RequestSound(e)
      BY <1>1, <2>3, <3>1, RequestLeft
    <3>3. factorCalls' = (factorCalls \ {c}) \cup {e}
      BY <1>6, <2>3, <3>1 DEF FactorFails, Become
    <3> QED
      BY <1>1, <2>1, <3>2, <3>3, RequestsStep
  <2> QED
    BY <2>2, <2>3
<1> QED
  BY <1>3, <1>4, <1>5, <1>6

\* The query of the status.
LEMMA StatusInv == FactorInv /\ Get2faStatus => FactorInv'
<1> SUFFICES ASSUME FactorInv, Get2faStatus PROVE FactorInv'
  OBVIOUS
<1>1. /\ statusQuery \in Queries(StatusData) /\ statusDebt \in Nat /\ statusDebt <= factorRow.ver
      /\ Follows(statusQuery, statusDebt) /\ factorRow.ver \in Nat
  BY FactorRowFields DEF FactorInv, FactorTypes, ModalSound
<1>2. UNCHANGED <<factorCalls, factorServer, factorView, statusDebt>>
  BY DEF Get2faStatus
<1>3. PICK d : d = [status |-> IF factorRow.enabled THEN "on" ELSE "off", ver |-> factorRow.ver]
  OBVIOUS
<1>4. d \in StatusData /\ d.ver = factorRow.ver
  BY <1>1, <1>3 DEF StatusData
<1>5. \/ statusQuery' = FetchFailed(statusQuery)
      \/ statusQuery' = ReadByServer(statusQuery, d)
      \/ statusQuery.fetch = "read" /\ statusQuery' = Arrived(statusQuery)
      \/ statusQuery' = StartFetch(statusQuery, FALSE)
  BY <1>3 DEF Get2faStatus
<1>6. statusQuery' \in Queries(StatusData) /\ Follows(statusQuery', statusDebt)
  BY <1>1, <1>4, <1>5, QueryKept, ReadFollows
<1> QED
  BY <1>1, <1>2, <1>6, RequestsStep DEF FactorInv, FactorTypes, ModalSound

LEMMA FactorStep == FactorInv /\ [SecondFactorNext]_secondFactorVars => FactorInv'
<1> SUFFICES ASSUME FactorInv, [SecondFactorNext]_secondFactorVars PROVE FactorInv'
  OBVIOUS
<1>1. CASE \E c \in factorCalls \cup FromDevices : LoadFactorRow(c)
  BY <1>1, LoadFactorInv
<1>2. CASE \E c \in factorCalls :
              \/ ReloadFactorRow(c)
              \/ Initiate2faSetup(c) \/ Confirm2faSetup(c) \/ Disable2fa(c) \/ VerifyBackupCode(c)
              \/ VerifyRegistration(c) \/ VerifyAssertion(c)
  BY <1>2, ReloadInv, SetupInv, ConfirmInv, DisableInv, BackupInv, RegistrationInv, AssertionInv
<1>3. CASE \E c \in factorCalls :
              SetupAnswered(c) \/ ConfirmAnswered(c) \/ DisableAnswered(c) \/ FactorFails(c)
  BY <1>3, AnsweredInv
<1>4. CASE \E kind \in {"register", "assert"} : CreateOptions(kind)
  BY <1>4, OptionsInv
<1>5. CASE ToggleTwoFa \/ CloseModal \/ HandleStartSetup \/ NextStep \/ HandleConfirm \/ HandleDisable
  BY <1>5, ModalInv
<1>6. CASE Get2faStatus
  BY <1>6, StatusInv
<1>7. CASE UNCHANGED secondFactorVars
  <2>1. UNCHANGED <<factorServer, factorCalls, factorView, statusQuery, statusDebt>>
    BY <1>7 DEF secondFactorVars, factorServer, factorHistory
  <2> QED
    BY <2>1, RequestsStep DEF FactorInv, FactorTypes, ModalSound
<1> QED
  BY <1>1, <1>2, <1>3, <1>4, <1>5, <1>6, <1>7 DEF SecondFactorNext

\* However the requests of the page and of devices overlap, the codes are of the
\* confirmation the row names, the row is of a state of the flow unless a save
\* came between the two statements of another, and codes, passkeys, challenges
\* and page agree with what was saved.
THEOREM FactorsAgree == SecondFactorSpec => []FactorsConsistent
<1>1. SecondFactorInit => FactorInv
  BY FactorInit
<1>2. FactorInv /\ [SecondFactorNext]_secondFactorVars => FactorInv'
  BY FactorStep
<1>3. FactorInv => FactorsConsistent
  <2> SUFFICES ASSUME FactorInv PROVE FactorsConsistent
    OBVIOUS
  <2>1. \A kind \in {"register", "assert"} : challengeStore[kind] \notin signed
    BY DEF FactorInv, ChallengesSound
  <2> QED
    BY <2>1 DEF FactorInv, RowSound, FlowState, SavesSound, ModalSound, Follows, FactorsConsistent
<1> QED
  BY <1>1, <1>2, <1>3, PTL DEF SecondFactorSpec

-----------------------------------------------------------------------------
\* Users of the back office

\* Rows of users, and what the pages read of one.
RoleNames == Roles \cup InitialRoles \cup {"none"}
UserRows == [role : RoleNames, active : BOOLEAN, exists : BOOLEAN]
UserData == [status : RoleNames \cup {"absent"}, ver : Nat]
AccountOps == ClientOps \cup UpdateOps \cup {"delete"}
AdminRequests ==
    [by : Accounts, op : AccountOps, target : Accounts,
     at : {"sent", "loaded", "counted", "selected", "saved", "done"}, row : UserRows, ver : Nat,
     columns : SUBSET UserColumns, page : BOOLEAN]
UserTables ==
    [loading : BOOLEAN, users : UserData \cup {NoData}, rows : UserData \cup {NoData}, mixed : BOOLEAN]
Refreshes(tag) ==
    [of : {"dashboard", "table"}, at : {"sent", "read"}, copy : UserData \cup {NoData}, tag : {tag}]

AdminTypes ==
    /\ accounts \in [Accounts -> UserRows] /\ usersVer \in Nat \ {0}
    /\ adminCalls \subseteq AdminRequests /\ adminDebt \in Nat /\ adminDebt <= usersVer
    /\ userTable \in UserTables /\ memberQuery \in Queries(UserData)
    /\ \A f \in refreshes : \E tag : f \in Refreshes(tag)

\* A role an account had: the first one, or one that is or will be in the log.
Traced(x, role) ==
    \/ role = initialRole[x]
    \/ <<x, role>> \in roleTrail
    \/ \E c \in adminCalls : c.at = "saved" /\ c.target = x /\ Requested(c.op) = role

\* What a request read is what the row is if nothing was written since, and an
\* administrator remains beside one it counted; a save is about to write all
\* that it changes.
BeforeSaving == {"loaded", "counted", "selected"}
AdminCallSound(c) ==
    /\ c.at \in BeforeSaving =>
          /\ c.ver <= usersVer
          /\ c.ver = usersVer => c.row = accounts[c.target]
          /\ Traced(c.target, c.row.role)
    /\ c.at = "counted" \/ (c.at = "selected" /\ Demotes(c)) =>
          (c.ver = usersVer => RemainingAdmins(c.target) # {})
    /\ c.at = "selected" /\ c.ver = usersVer => c.columns = OutOfDate(c)

\* What the dashboard has under way, unless refreshes overlapped: the one that
\* mounts the table, or requests of the table, of versions as new as was reported.
DashboardSound ==
    adminSide = "dashboard" /\ ~userTable.mixed =>
        /\ \A f \in refreshes : f.at = "read" => f.copy.ver >= adminDebt
        /\ userTable.loading => \E f \in refreshes : refreshes = {f} /\ f.of = "dashboard"
        /\ ~userTable.loading => /\ userTable.rows.ver >= adminDebt
                                 /\ \A f \in refreshes : f.of = "table"

\* The page of members changes what it shows, so that it always shows something.
MembersSound ==
    /\ memberQuery.fetch = "read" => memberQuery.copy # NoData
    /\ adminSide = "members" =>
          /\ Follows(memberQuery, adminDebt)
          /\ \A c \in adminCalls : c.page => memberQuery.seen # NoData
    /\ adminSide # "dashboard" => refreshes = {}

AdminInv ==
    /\ AdminTypes /\ AdministratorRemains /\ DashboardSound /\ MembersSound
    /\ \A x \in Accounts : Traced(x, accounts[x].role)
    /\ \A c \in adminCalls : AdminCallSound(c)

LEMMA AdminInvHolds == AdminInv => AdministrationHolds
<1> SUFFICES ASSUME AdminInv PROVE AdministrationHolds
  OBVIOUS
<1>1. RolesTraced
  <2>1. \A x \in Accounts : Traced(x, accounts[x].role)
    BY DEF AdminInv
  <2> QED
    BY <2>1 DEF RolesTraced, Traced
<1>2. ASSUME adminSide = "dashboard", refreshes = {}, ~userTable.mixed
      PROVE  ~userTable.loading /\ userTable.rows.ver >= adminDebt
  BY <1>2 DEF AdminInv, DashboardSound
<1>3. adminSide = "members" => UpToDate(memberQuery, adminDebt)
  BY DEF AdminInv, MembersSound, Follows
<1> QED
  BY <1>1, <1>2, <1>3 DEF AdminInv, AdministrationHolds, AdminPagesAgree

LEMMA AdminInitInv == AdministrationInit => AdminInv
<1> SUFFICES ASSUME AdministrationInit PROVE AdminInv
  OBVIOUS
<1>1. PICK r \in {"admin"} \cup InitialRoles :
         initialRole = [x \in Accounts |-> IF x = AdminAccount THEN "admin" ELSE r]
  BY DEF AdministrationInit
<1>2. /\ accounts = [x \in Accounts |-> [role |-> initialRole[x], active |-> TRUE, exists |-> TRUE]]
      /\ usersVer = 1 /\ adminCalls = {} /\ roleTrail = {} /\ adminDebt = 0
      /\ userTable = [loading |-> TRUE, users |-> NoData, rows |-> NoData, mixed |-> FALSE]
      /\ refreshes = IF adminSide = "dashboard"
                     THEN {[of |-> "dashboard", at |-> "sent", copy |-> NoData, tag |-> 1]} ELSE {}
      /\ memberQuery = IF adminSide = "members" THEN StartFetch(EmptyQuery, FALSE) ELSE EmptyQuery
  BY DEF AdministrationInit
<1>3. \A x \in Accounts : initialRole[x] \in RoleNames
  BY <1>1 DEF RoleNames, Roles
<1>4. accounts \in [Accounts -> UserRows] /\ \A x \in Accounts : accounts[x].role = initialRole[x]
  BY <1>2, <1>3 DEF UserRows
<1>5. AdminAccount \in Accounts /\ IsAdminLike(accounts[AdminAccount].role)
      /\ accounts[AdminAccount].exists /\ accounts[AdminAccount].active
  BY <1>1, <1>2 DEF Accounts, IsAdminLike
<1>6. PICK q : q = StartFetch(EmptyQuery, FALSE)
  OBVIOUS
<1>7. /\ EmptyQuery \in Queries(UserData) /\ Follows(EmptyQuery, 0) /\ EmptyQuery.fetch = "idle"
      /\ q \in Queries(UserData) /\ Follows(q, 0)
  BY <1>6, EmptyFollows, QueryKept DEF EmptyQuery
<1>8. q.fetch # "read"
  BY <1>6 DEF StartFetch, EmptyQuery
<1>9. userTable \in UserTables
  BY <1>2 DEF UserTables
<1>10. PICK f : f = [of |-> "dashboard", at |-> "sent", copy |-> NoData, tag |-> 1]
  OBVIOUS
<1>11. f \in Refreshes(1) /\ f.of = "dashboard" /\ f.at = "sent"
  BY <1>10 DEF Refreshes
<1>12. \A g \in refreshes : g = f
  BY <1>2, <1>10
<1>13. AdminTypes
  <2>1. memberQuery \in Queries(UserData)
    BY <1>2, <1>6, <1>7
  <2>2. \A g \in refreshes : \E tag : g \in Refreshes(tag)
    BY <1>11, <1>12
  <2>3. adminCalls \subseteq AdminRequests /\ usersVer \in Nat \ {0} /\ adminDebt \in Nat /\ adminDebt <= usersVer
    BY <1>2
  <2> QED
    BY <1>2, <1>4, <1>9, <2>1, <2>2, <2>3 DEF AdminTypes
<1>14. DashboardSound
  BY <1>2, <1>10, <1>11, <1>12 DEF DashboardSound
<1>15. MembersSound
  BY <1>2, <1>6, <1>7, <1>8 DEF MembersSound
<1>16. AdministratorRemains
  BY <1>5 DEF AdministratorRemains
<1> QED
  BY <1>2, <1>4, <1>13, <1>14, <1>15, <1>16 DEF AdminInv, Traced

\* What was traced is: an entry stays, and a request that ends writes its own.
LEMMA TracedKept ==
  ASSUME UNCHANGED initialRole, roleTrail \subseteq roleTrail',
         \A c \in adminCalls :
            c.at = "saved" => c \in adminCalls' \/ <<c.target, Requested(c.op)>> \in roleTrail',
         NEW x, NEW role, Traced(x, role)
  PROVE  Traced(x, role)'
<1>1. CASE \E c \in adminCalls : c.at = "saved" /\ c.target = x /\ Requested(c.op) = role
  <2>1. PICK c \in adminCalls : c.at = "saved" /\ c.target = x /\ Requested(c.op) = role
    BY <1>1
  <2> QED
    BY <2>1 DEF Traced
<1>2. CASE role = initialRole[x] \/ <<x, role>> \in roleTrail
  BY <1>2 DEF Traced
<1> QED
  BY <1>1, <1>2 DEF Traced

\* A request that is sent, moves or ends, and writes no row.
LEMMA AdminCalled ==
  ASSUME AdminInv,
         UNCHANGED <<adminSide, initialRole, accounts, usersVer, overlapped, unguarded, adminPageVars>>,
         roleTrail \subseteq roleTrail',
         \A c \in adminCalls :
            c.at = "saved" => c \in adminCalls' \/ <<c.target, Requested(c.op)>> \in roleTrail',
         \A c \in adminCalls' \ adminCalls :
            /\ c \in AdminRequests /\ AdminCallSound(c)
            /\ c.page /\ adminSide = "members" => memberQuery.seen # NoData
  PROVE  AdminInv'
<1>1. ASSUME NEW x, NEW role, Traced(x, role) PROVE Traced(x, role)'
  BY <1>1, TracedKept
<1>2. \A c \in adminCalls' : c \in AdminRequests /\ AdminCallSound(c)
  BY DEF AdminInv, AdminTypes
<1>3. ASSUME NEW c \in adminCalls' PROVE AdminCallSound(c)'
  <2>1. AdminCallSound(c)
    BY <1>2
  <2> QED
    BY <1>1, <2>1 DEF AdminCallSound, RemainingAdmins, OutOfDate
<1>4. AdminTypes'
  BY <1>2 DEF AdminInv, AdminTypes, adminPageVars
<1>5. AdministratorRemains' /\ DashboardSound'
  BY DEF AdminInv, AdministratorRemains, DashboardSound, adminPageVars
<1>6. MembersSound'
  BY DEF AdminInv, MembersSound, adminPageVars
<1>7. \A x \in Accounts : Traced(x, accounts[x].role)'
  BY <1>1 DEF AdminInv
<1> QED
  BY <1>3, <1>4, <1>5, <1>6, <1>7 DEF AdminInv

\* A row that is written: what requests read is of an earlier version.
LEMMA AdminWritten ==
  ASSUME AdminInv, NEW x \in Accounts, NEW row \in UserRows, NEW ver, WriteAccount(x, row, ver),
         UNCHANGED <<adminSide, initialRole, adminPageVars>>, roleTrail \subseteq roleTrail',
         \A c \in adminCalls :
            c.at = "saved" => c \in adminCalls' \/ <<c.target, Requested(c.op)>> \in roleTrail',
         \A c \in adminCalls' \ adminCalls :
            /\ c \in AdminRequests /\ c.at \notin BeforeSaving
            /\ c.page /\ adminSide = "members" => memberQuery.seen # NoData,
         Traced(x, row.role)', AdministratorRemains'
  PROVE  AdminInv'
<1>1. /\ accounts \in [Accounts -> UserRows] /\ usersVer \in Nat \ {0} /\ adminDebt \in Nat
      /\ adminDebt <= usersVer /\ accounts' = [accounts EXCEPT ![x] = row] /\ usersVer' = usersVer + 1
  BY DEF AdminInv, AdminTypes, WriteAccount
<1>2. /\ accounts' \in [Accounts -> UserRows] /\ usersVer' \in Nat \ {0} /\ adminDebt <= usersVer'
      /\ accounts'[x] = row /\ \A y \in Accounts : y # x => accounts'[y] = accounts[y]
  BY <1>1
<1>3. ASSUME NEW y, NEW role, Traced(y, role) PROVE Traced(y, role)'
  BY <1>3, TracedKept
<1>4. ASSUME NEW c \in adminCalls' PROVE c \in AdminRequests /\ AdminCallSound(c)'
  <2>1. CASE c \in adminCalls
    <3>1. c \in AdminRequests /\ c.ver \in Nat /\ AdminCallSound(c)
      BY <2>1 DEF AdminInv, AdminTypes, AdminRequests
    <3>2. ASSUME c.at \in BeforeSaving
          PROVE  c.ver <= usersVer' /\ c.ver # usersVer' /\ Traced(c.target, c.row.role)'
      <4>1. c.ver <= usersVer /\ Traced(c.target, c.row.role)
        BY <3>1, <3>2 DEF AdminCallSound
      <4> QED
        BY <1>1, <1>3, <3>1, <4>1
    <3> QED
      BY <3>1, <3>2 DEF AdminCallSound, BeforeSaving
  <2>2. CASE c \notin adminCalls
    BY <2>2 DEF AdminCallSound, BeforeSaving
  <2> QED
    BY <2>1, <2>2
<1>5. AdminTypes'
  BY <1>2, <1>4 DEF AdminInv, AdminTypes, adminPageVars
<1>6. DashboardSound' /\ MembersSound'
  BY DEF AdminInv, DashboardSound, MembersSound, adminPageVars
<1>7. \A y \in Accounts : Traced(y, accounts[y].role)'
  <2>1. \A y \in Accounts : Traced(y, accounts[y].role)
    BY DEF AdminInv
  <2>2. ASSUME NEW y \in Accounts, y # x PROVE Traced(y, accounts[y].role)'
    <3>1. PICK role : role = accounts[y].role
      OBVIOUS
    <3>2. Traced(y, role)' /\ role = accounts'[y].role
      BY <1>2, <1>3, <2>1, <2>2, <3>1
    <3> QED
      BY <3>2 DEF Traced
  <2>3. Traced(x, accounts[x].role)'
    BY <1>2 DEF Traced
  <2> QED
    BY <2>2, <2>3
<1> QED
  BY <1>4, <1>5, <1>6, <1>7 DEF AdminInv

\* Who administrates, and who is left beside a row that is written.
ActiveAdmin(row) == row.exists /\ row.active /\ IsAdminLike(row.role)

LEMMA AdministratorLeft ==
  ASSUME AdminInv, NEW x \in Accounts, NEW row, NEW ver, WriteAccount(x, row, ver),
         ~overlapped' /\ ~unguarded' =>
            ~unguarded /\ ((ActiveAdmin(accounts[x]) => ActiveAdmin(row)) \/ RemainingAdmins(x) # {})
  PROVE  AdministratorRemains'
<1> SUFFICES ASSUME ~overlapped', ~unguarded'
             PROVE  \E y \in Accounts : ActiveAdmin(accounts'[y])
  BY DEF AdministratorRemains, ActiveAdmin
<1>1. ~overlapped /\ ~unguarded
  BY DEF WriteAccount
<1>2. PICK y \in Accounts : ActiveAdmin(accounts[y])
  BY <1>1 DEF AdminInv, AdministratorRemains, ActiveAdmin
<1>3. accounts'[x] = row /\ \A z \in Accounts : z # x => accounts'[z] = accounts[z]
  BY DEF WriteAccount, AdminInv, AdminTypes
<1>4. CASE RemainingAdmins(x) # {}
  <2>1. PICK z \in Accounts : z # x /\ ActiveAdmin(accounts[z])
    BY <1>4 DEF RemainingAdmins, ActiveAdmin
  <2> QED
    BY <1>3, <2>1
<1>5. CASE RemainingAdmins(x) = {}
  <2>1. ActiveAdmin(accounts[x]) => ActiveAdmin(row)
    BY <1>5
  <2> QED
    BY <1>2, <1>3, <2>1
<1> QED
  BY <1>4, <1>5

\* A request as it moves.
LEMMA AdminCallMoved ==
  ASSUME AdminInv, NEW c \in adminCalls, NEW at \in {"loaded", "counted", "selected", "saved", "done"}
  PROVE  \E n \in AdminRequests :
            /\ n = [c EXCEPT !.at = at] /\ n.at = at
            /\ n.op = c.op /\ n.target = c.target /\ n.row = c.row /\ n.ver = c.ver /\ n.page = c.page
<1>1. c \in AdminRequests
  BY DEF AdminInv, AdminTypes
<1>2. PICK n : n = [c EXCEPT !.at = at]
  OBVIOUS
<1>3. /\ n \in AdminRequests /\ n.at = at /\ n.op = c.op /\ n.target = c.target
      /\ n.row = c.row /\ n.ver = c.ver /\ n.page = c.page
  BY <1>1, <1>2 DEF AdminRequests
<1> QED
  BY <1>2, <1>3

LEMMA UserRowFacts ==
  /\ Unloaded \in UserRows /\ UsersNow.ver = usersVer
  /\ \A x \in Accounts, op \in AccountOps, t \in Accounts, page \in BOOLEAN :
        \E n \in AdminRequests :
           /\ n = [by |-> x, op |-> op, target |-> t, at |-> "sent", row |-> Unloaded, ver |-> 0,
                   columns |-> {}, page |-> page]
           /\ n.at = "sent" /\ n.page = page
<1>1. Unloaded \in UserRows
  BY DEF Unloaded, UserRows, RoleNames
<1>2. ASSUME NEW x \in Accounts, NEW op \in AccountOps, NEW t \in Accounts, NEW page \in BOOLEAN
      PROVE  \E n \in AdminRequests :
                /\ n = [by |-> x, op |-> op, target |-> t, at |-> "sent", row |-> Unloaded, ver |-> 0,
                        columns |-> {}, page |-> page]
                /\ n.at = "sent" /\ n.page = page
  <2>1. PICK n : n = [by |-> x, op |-> op, target |-> t, at |-> "sent", row |-> Unloaded, ver |-> 0,
                      columns |-> {}, page |-> page]
    OBVIOUS
  <2>2. n \in AdminRequests /\ n.at = "sent" /\ n.page = page
    BY <1>1, <1>2, <2>1 DEF AdminRequests
  <2> QED
    BY <2>1, <2>2
<1> QED
  BY <1>1, <1>2 DEF UsersNow

\* Requests that are sent, by clients and by the pages, or dropped.
LEMMA AdminSent ==
  ASSUME AdminInv, UNCHANGED <<adminSide, initialRole, accountVars, adminPageVars>>,
         NEW n \in AdminRequests, n.at = "sent", adminCalls' = adminCalls \cup {n},
         n.page /\ adminSide = "members" => memberQuery.seen # NoData
  PROVE  AdminInv'
<1>1. UNCHANGED <<adminSide, initialRole, accounts, usersVer, overlapped, unguarded, adminPageVars>>
      /\ roleTrail' = roleTrail
  BY DEF accountVars
<1>2. AdminCallSound(n)
  BY DEF AdminCallSound, BeforeSaving
<1>3. \A c \in adminCalls' \ adminCalls :
         /\ c \in AdminRequests /\ AdminCallSound(c)
         /\ c.page /\ adminSide = "members" => memberQuery.seen # NoData
  BY <1>2
<1> QED
  BY <1>1, <1>3, AdminCalled

LEMMA SendAdminInv ==
  ASSUME AdminInv, NEW x \in Accounts, NEW op \in ClientOps, NEW t \in Accounts, SendAdmin(x, op, t)
  PROVE  AdminInv'
<1>1. op \in AccountOps /\ FALSE \in BOOLEAN
  BY DEF AccountOps
<1>2. PICK n \in AdminRequests :
         /\ n = [by |-> x, op |-> op, target |-> t, at |-> "sent", row |-> Unloaded, ver |-> 0,
                 columns |-> {}, page |-> FALSE]
         /\ n.at = "sent" /\ n.page = FALSE
  BY <1>1, UserRowFacts
<1>3. adminCalls' = adminCalls \cup {n} /\ UNCHANGED <<adminSide, initialRole, accountVars, adminPageVars>>
  BY <1>2 DEF SendAdmin
<1> QED
  BY <1>2, <1>3, AdminSent

LEMMA PageSendsInv ==
  ASSUME AdminInv, NEW op \in {"suspend", "delete", "make-admin", "make-user"},
         HandleAdminAction(op) \/ MutateMember(op)
  PROVE  AdminInv'
<1>1. /\ op \in AccountOps /\ AdminAccount \in Accounts /\ OtherAccount \in Accounts /\ TRUE \in BOOLEAN
  BY DEF AccountOps, UpdateOps, Accounts
<1>2. PICK n \in AdminRequests :
         /\ n = [by |-> AdminAccount, op |-> op, target |-> OtherAccount, at |-> "sent",
                 row |-> Unloaded, ver |-> 0, columns |-> {}, page |-> TRUE]
         /\ n.at = "sent" /\ n.page = TRUE
  BY <1>1, UserRowFacts
<1>3. adminCalls' = adminCalls \cup {n} /\ UNCHANGED <<adminSide, initialRole, accountVars, adminPageVars>>
  BY <1>2 DEF HandleAdminAction, MutateMember, Sends
<1>4. adminSide = "members" => memberQuery.seen # NoData
  BY DEF HandleAdminAction, MutateMember, Offers, NoData, Roles
<1> QED
  BY <1>2, <1>3, <1>4, AdminSent

\* A request that ends, once an entry of its own is in the log if it saved.
LEMMA AdminEnds ==
  ASSUME AdminInv, NEW c \in adminCalls, Ends(c) \/ Remains(c, "done"),
         UNCHANGED <<adminSide, initialRole, accounts, usersVer, overlapped, unguarded, adminPageVars>>,
         roleTrail \subseteq roleTrail',
         c.at = "saved" => <<c.target, Requested(c.op)>> \in roleTrail'
  PROVE  AdminInv'
<1>1. \A d \in adminCalls :
         d.at = "saved" => d \in adminCalls' \/ <<d.target, Requested(d.op)>> \in roleTrail'
  <2>1. \A d \in adminCalls : d # c => d \in adminCalls'
    BY DEF Ends, Remains
  <2> QED
    BY <2>1
<1>2. \A d \in adminCalls' \ adminCalls :
         /\ d \in AdminRequests /\ AdminCallSound(d)
         /\ d.page /\ adminSide = "members" => memberQuery.seen # NoData
  <2>1. PICK n \in AdminRequests :
           n = [c EXCEPT !.at = "done"] /\ n.at = "done" /\ n.page = c.page
    BY AdminCallMoved
  <2>2. \A d \in adminCalls' \ adminCalls : d = n
    BY <2>1 DEF Ends, Remains
  <2>3. AdminCallSound(n)
    BY <2>1 DEF AdminCallSound, BeforeSaving
  <2>4. c.page /\ adminSide = "members" => memberQuery.seen # NoData
    BY DEF AdminInv, MembersSound
  <2> QED
    BY <2>1, <2>2, <2>3, <2>4
<1> QED
  BY <1>1, <1>2, AdminCalled

LEMMA AdminEndsInv ==
  ASSUME AdminInv, NEW c \in adminCalls, RecordRoleChange(c) \/ StatementFails(c) \/ ActionFails(c)
  PROVE  AdminInv'
<1>1. Ends(c) \/ Remains(c, "done")
  BY DEF RecordRoleChange, StatementFails, ActionFails, Done
<1>2. /\ UNCHANGED <<adminSide, initialRole, accounts, usersVer, overlapped, unguarded, adminPageVars>>
      /\ roleTrail \subseteq roleTrail'
      /\ c.at = "saved" => <<c.target, Requested(c.op)>> \in roleTrail'
  BY DEF RecordRoleChange, StatementFails, ActionFails, accountVars
<1> QED
  BY <1>1, <1>2, AdminEnds

\* A request that reads a row, or is refused.
LEMMA AdminLoadsInv ==
  ASSUME AdminInv, NEW c \in adminCalls, LoadForUpdate(c) \/ LoadMember(c) PROVE AdminInv'
<1>1. /\ c.at = "sent" /\ UNCHANGED <<adminSide, initialRole, accountVars, adminPageVars>>
      /\ \/ Ends(c)
         \/ adminCalls' = (adminCalls \ {c}) \cup
               {[c EXCEPT !.at = "loaded", !.row = accounts[c.target], !.ver = usersVer]}
  BY DEF LoadForUpdate, LoadMember
<1>2. /\ UNCHANGED <<adminSide, initialRole, accounts, usersVer, overlapped, unguarded, adminPageVars>>
      /\ roleTrail' = roleTrail
  BY <1>1 DEF accountVars
<1>3. CASE Ends(c)
  BY <1>1, <1>2, <1>3, AdminEnds
<1>4. CASE adminCalls' = (adminCalls \ {c}) \cup
               {[c EXCEPT !.at = "loaded", !.row = accounts[c.target], !.ver = usersVer]}
  <2>1. /\ c \in AdminRequests /\ c.target \in Accounts
        /\ accounts \in [Accounts -> UserRows] /\ usersVer \in Nat
    BY DEF AdminInv, AdminTypes, AdminRequests
  <2>2. PICK row \in UserRows : row = accounts[c.target]
    BY <2>1
  <2>3. PICK ver \in Nat : ver = usersVer
    BY <2>1
  <2>4. PICK n : n = [c EXCEPT !.at = "loaded", !.row = row, !.ver = ver]
    OBVIOUS
  <2>5. /\ n \in AdminRequests /\ n.at = "loaded"
        /\ n.target = c.target /\ n.row = row /\ n.ver = ver /\ n.page = c.page
    BY <2>1, <2>2, <2>3, <2>4 DEF AdminRequests
  <2>6. adminCalls' = (adminCalls \ {c}) \cup {n}
    BY <1>4, <2>2, <2>3, <2>4
  <2>7. AdminCallSound(n)
    BY <2>1, <2>2, <2>3, <2>5 DEF AdminInv, AdminCallSound, BeforeSaving
  <2>8. c.page /\ adminSide = "members" => memberQuery.seen # NoData
    BY DEF AdminInv, MembersSound
  <2>9. \A d \in adminCalls : d.at = "saved" => d \in adminCalls'
    BY <1>1, <2>6
  <2>10. \A d \in adminCalls' \ adminCalls :
           /\ d \in AdminRequests /\ AdminCallSound(d)
           /\ d.page /\ adminSide = "members" => memberQuery.seen # NoData
    BY <2>5, <2>6, <2>7, <2>8
  <2> QED
    BY <1>2, <2>9, <2>10, AdminCalled
<1> QED
  BY <1>1, <1>3, <1>4

LEMMA CountAdminsInv ==
  ASSUME AdminInv, NEW c \in adminCalls, CountAdmins(c) PROVE AdminInv'
<1>1. /\ c.at = "loaded" /\ UNCHANGED <<adminSide, initialRole, accountVars, adminPageVars>>
      /\ Ends(c) \/ (Remains(c, "counted") /\ RemainingAdmins(c.target) # {})
  BY DEF CountAdmins
<1>2. /\ UNCHANGED <<adminSide, initialRole, accounts, usersVer, overlapped, unguarded, adminPageVars>>
      /\ roleTrail' = roleTrail
  BY <1>1 DEF accountVars
<1>3. CASE Ends(c)
  BY <1>1, <1>2, <1>3, AdminEnds
<1>4. CASE Remains(c, "counted") /\ RemainingAdmins(c.target) # {}
  <2>1. PICK n \in AdminRequests :
           /\ n = [c EXCEPT !.at = "counted"]
           /\ n.at = "counted" /\ n.target = c.target /\ n.row = c.row /\ n.ver = c.ver /\ n.page = c.page
    BY AdminCallMoved
  <2>2. adminCalls' = (adminCalls \ {c}) \cup {n}
    BY <1>4, <2>1 DEF Remains
  <2>3. AdminCallSound(n)
    BY <1>1, <1>4, <2>1 DEF AdminInv, AdminCallSound, BeforeSaving
  <2>4. c.page /\ adminSide = "members" => memberQuery.seen # NoData
    BY DEF AdminInv, MembersSound
  <2>5. \A d \in adminCalls : d.at = "saved" => d \in adminCalls'
    BY <1>1, <2>2
  <2>6. \A d \in adminCalls' \ adminCalls :
           /\ d \in AdminRequests /\ AdminCallSound(d)
           /\ d.page /\ adminSide = "members" => memberQuery.seen # NoData
    BY <2>1, <2>2, <2>3, <2>4
  <2> QED
    BY <1>2, <2>5, <2>6, AdminCalled
<1> QED
  BY <1>1, <1>3, <1>4

\* Writes

\* A request that wrote its row: done, saved with an entry to write, or ended.
LEMMA AdminSaves ==
  ASSUME AdminInv, NEW c \in adminCalls, NEW row \in UserRows, WriteAccount(c.target, row, c.ver)
                   \/ WriteAccount(c.target, row, usersVer),
         UNCHANGED <<adminSide, initialRole, roleTrail, adminPageVars>>, c.at # "saved",
         Ends(c) \/ Remains(c, "saved") \/ Remains(c, "done"),
         \/ Traced(c.target, row.role)
         \/ Remains(c, "saved") /\ Requested(c.op) = row.role,
         AdministratorRemains'
  PROVE  AdminInv'
<1>1. PICK ver \in {c.ver, usersVer} : WriteAccount(c.target, row, ver)
  OBVIOUS
<1>2. c.target \in Accounts
  BY DEF AdminInv, AdminTypes, AdminRequests
<1>3. \A d \in adminCalls : d.at = "saved" => d \in adminCalls'
  BY DEF Ends, Remains
<1>4. PICK s \in AdminRequests :
         /\ s = [c EXCEPT !.at = "saved"] /\ s.at = "saved"
         /\ s.op = c.op /\ s.target = c.target /\ s.row = c.row /\ s.ver = c.ver /\ s.page = c.page
  BY AdminCallMoved
<1>5. PICK n \in AdminRequests :
         /\ n = [c EXCEPT !.at = "done"] /\ n.at = "done"
         /\ n.op = c.op /\ n.target = c.target /\ n.row = c.row /\ n.ver = c.ver /\ n.page = c.page
  BY AdminCallMoved
<1>6. \A d \in adminCalls' \ adminCalls : d \in {s, n}
  BY <1>4, <1>5 DEF Ends, Remains
<1>7. c.page /\ adminSide = "members" => memberQuery.seen # NoData
  BY DEF AdminInv, MembersSound
<1>8. \A d \in adminCalls' \ adminCalls :
         /\ d \in AdminRequests /\ d.at \notin BeforeSaving
         /\ d.page /\ adminSide = "members" => memberQuery.seen # NoData
  BY <1>4, <1>5, <1>6, <1>7 DEF BeforeSaving
<1>9. Traced(c.target, row.role)'
  <2>1. CASE Traced(c.target, row.role)
    BY <1>3, <2>1, TracedKept
  <2>2. CASE Remains(c, "saved") /\ Requested(c.op) = row.role
    <3>1. s \in adminCalls'
      BY <1>4, <2>2 DEF Remains
    <3> QED
      BY <1>4, <2>2, <3>1 DEF Traced
  <2> QED
    BY <2>1, <2>2
<1> QED
  BY <1>1, <1>2, <1>3, <1>8, <1>9, AdminWritten

\* What a request applies to the row it read.
LEMMA AppliedRow ==
  ASSUME AdminInv, NEW c \in adminCalls, c.op \in UpdateOps \cup StatusOps
  PROVE  /\ Applied(c) \in UserRows
         /\ Applied(c).role = IF c.op \in RoleOps THEN Requested(c.op) ELSE c.row.role
         /\ ActiveAdmin(c.row) /\ ~ActiveAdmin(Applied(c)) =>
               \/ Demotes(c)
               \/ c.op \in {"deactivate", "setSuspended"} /\ IsAdminLike(c.row.role)
<1>1. c.row \in UserRows
  BY DEF AdminInv, AdminTypes, AdminRequests
<1>2. CASE c.op \in RoleOps
  <2>1. Requested(c.op) \in RoleNames
    BY <1>2 DEF RoleOps, Requested, RoleNames, Roles
  <2>2. PICK r : r = Requested(c.op)
    OBVIOUS
  <2>3. Applied(c) = [c.row EXCEPT !.role = r]
    BY <1>2, <2>2 DEF Applied, RoleOps
  <2>4. /\ Applied(c) \in UserRows /\ Applied(c).role = r
        /\ Applied(c).active = c.row.active /\ Applied(c).exists = c.row.exists
    BY <1>1, <2>1, <2>2, <2>3 DEF UserRows
  <2>5. ActiveAdmin(c.row) /\ ~ActiveAdmin(Applied(c)) => Demotes(c)
    BY <1>2, <2>2, <2>4 DEF ActiveAdmin, Demotes, ChangesRole, IsAdminLike
  <2> QED
    BY <1>2, <2>2, <2>4, <2>5
<1>3. CASE c.op \in {"deactivate", "setSuspended"}
  <2>1. Applied(c) = [c.row EXCEPT !.active = FALSE]
    BY <1>3 DEF Applied, RoleOps
  <2>2. Applied(c) \in UserRows /\ Applied(c).role = c.row.role
    BY <1>1, <2>1 DEF UserRows
  <2> QED
    BY <1>3, <2>2 DEF ActiveAdmin, RoleOps
<1>4. CASE c.op = "setActive"
  <2>1. Applied(c) = [c.row EXCEPT !.active = TRUE]
    BY <1>4 DEF Applied, RoleOps
  <2>2. /\ Applied(c) \in UserRows /\ Applied(c).role = c.row.role
        /\ Applied(c).active = TRUE /\ Applied(c).exists = c.row.exists
    BY <1>1, <2>1 DEF UserRows
  <2> QED
    BY <1>4, <2>2 DEF ActiveAdmin, RoleOps
<1>5. CASE c.op \notin RoleOps \cup {"deactivate", "setSuspended", "setActive"}
  BY <1>1, <1>5 DEF Applied
<1> QED
  BY <1>2, <1>3, <1>4, <1>5

\* The SELECT of a save.
LEMMA SelectAccountInv ==
  ASSUME AdminInv, NEW c \in adminCalls, SelectAccount(c) PROVE AdminInv'
<1>1. /\ c.at \in {"loaded", "counted"} /\ (Demotes(c) => c.at = "counted")
      /\ c.op \in UpdateOps \cup StatusOps
      /\ UNCHANGED <<adminSide, initialRole, accounts, usersVer, overlapped, unguarded, adminPageVars>>
      /\ roleTrail' = roleTrail
  BY DEF SelectAccount, accountVars
<1>2. c \in AdminRequests /\ AdminCallSound(c)
  BY DEF AdminInv, AdminTypes
<1>3. PICK cols : cols = OutOfDate(c)
  OBVIOUS
<1>4. PICK n : n = [c EXCEPT !.at = "selected", !.columns = cols]
  OBVIOUS
<1>5. /\ n \in AdminRequests /\ n.at = "selected" /\ n.op = c.op /\ n.target = c.target
      /\ n.row = c.row /\ n.ver = c.ver /\ n.page = c.page /\ n.columns = cols
  BY <1>2, <1>3, <1>4 DEF AdminRequests, OutOfDate
<1>6. adminCalls' = (adminCalls \ {c}) \cup {n}
  BY <1>3, <1>4 DEF SelectAccount
<1>7. Demotes(n) = Demotes(c) /\ OutOfDate(n) = OutOfDate(c)
  BY <1>5 DEF Demotes, ChangesRole, OutOfDate, Applied
<1>8. AdminCallSound(n)
  BY <1>1, <1>2, <1>3, <1>5, <1>7 DEF AdminCallSound, BeforeSaving
<1>9. c.page /\ adminSide = "members" => memberQuery.seen # NoData
  BY DEF AdminInv, MembersSound
<1>10. \A d \in adminCalls : d.at = "saved" => d \in adminCalls'
  BY <1>1, <1>6
<1>11. \A d \in adminCalls' \ adminCalls :
         /\ d \in AdminRequests /\ AdminCallSound(d)
         /\ d.page /\ adminSide = "members" => memberQuery.seen # NoData
  BY <1>5, <1>6, <1>8, <1>9
<1> QED
  BY <1>1, <1>10, <1>11, AdminCalled

\* The row a save leaves: what the request made of it, unless others wrote.
LEMMA RowOfSave ==
  ASSUME AdminInv, NEW c \in adminCalls, c.op \in UpdateOps \cup StatusOps, SaveUserRow(c)
  PROVE  \E row \in UserRows :
            /\ WriteAccount(c.target, row, c.ver)
            /\ row.role \in {Applied(c).role, accounts[c.target].role}
            /\ c.ver = usersVer /\ accounts[c.target].exists => row = Applied(c)
<1>1. accounts[c.target] \in UserRows /\ AdminCallSound(c) /\ c.at = "selected"
  BY DEF AdminInv, AdminTypes, AdminRequests, SaveUserRow
<1>2. PICK now \in UserRows : now = accounts[c.target]
  BY <1>1
<1>3. PICK new \in UserRows : new = Applied(c)
  BY AppliedRow
<1>4. PICK row : row = SavedRow(c)
  OBVIOUS
<1>5. CASE ~now.exists /\ "exists" \notin c.columns
  <2>1. row = now
    BY <1>2, <1>4, <1>5 DEF SavedRow
  <2> QED
    BY <1>2, <1>4, <1>5, <2>1 DEF SaveUserRow
<1>6. CASE now.exists \/ "exists" \in c.columns
  <2>1. row = [role |-> IF "role" \in c.columns THEN new.role ELSE now.role,
               active |-> IF "active" \in c.columns THEN new.active ELSE now.active,
               exists |-> TRUE]
    BY <1>2, <1>3, <1>4, <1>6 DEF SavedRow
  <2>2. row \in UserRows /\ row.role \in {new.role, now.role}
    BY <2>1 DEF UserRows
  <2>3. ASSUME c.ver = usersVer, now.exists PROVE row = new
    <3>1. c.columns = OutOfDate(c) /\ c.row = now
      BY <1>1, <1>2, <2>3 DEF AdminCallSound, BeforeSaving
    <3>2. /\ "role" \notin c.columns => new["role"] = now["role"]
          /\ "active" \notin c.columns => new["active"] = now["active"]
      BY <1>2, <1>3, <3>1 DEF OutOfDate, UserColumns
    <3>3. new.exists = now.exists
      <4>1. new \in {[c.row EXCEPT !.role = Requested(c.op)], [c.row EXCEPT !.active = FALSE],
                     [c.row EXCEPT !.active = TRUE], c.row}
        BY <1>3 DEF Applied
      <4> QED
        BY <3>1, <4>1 DEF UserRows
    <3>4. row.role = new.role
      BY <2>1, <3>2
    <3>5. row.active = new.active
      BY <2>1, <3>2
    <3>6. row.exists = new.exists
      BY <2>1, <2>3, <3>3
    <3> QED
      BY <2>2, <3>4, <3>5, <3>6 DEF UserRows
  <2> QED
    BY <1>2, <1>3, <1>4, <2>2, <2>3 DEF SaveUserRow
<1> QED
  BY <1>2, <1>5, <1>6

LEMMA SaveAccountInv ==
  ASSUME AdminInv, NEW c \in adminCalls, SaveAccount(c) PROVE AdminInv'
<1>1. /\ c.op \in UpdateOps /\ c.at = "selected" /\ SaveUserRow(c)
      /\ IF ChangesRole(c, c.row) THEN Remains(c, "saved") ELSE Done(c)
      /\ UNCHANGED <<adminSide, initialRole, roleTrail, adminPageVars>>
  BY DEF SaveAccount, SaveUserRow
<1>2. /\ c.target \in Accounts /\ AdminCallSound(c)
  BY DEF AdminInv, AdminTypes, AdminRequests
<1>3. PICK new \in UserRows : new = Applied(c)
  BY <1>1, AppliedRow
<1>4. /\ new.role = IF c.op \in RoleOps THEN Requested(c.op) ELSE c.row.role
      /\ ActiveAdmin(c.row) /\ ~ActiveAdmin(new) =>
            Demotes(c) \/ (c.op = "deactivate" /\ IsAdminLike(c.row.role))
  BY <1>1, <1>3, AppliedRow DEF UpdateOps
<1>5. PICK row \in UserRows :
         /\ WriteAccount(c.target, row, c.ver)
         /\ row.role \in {new.role, accounts[c.target].role}
         /\ c.ver = usersVer /\ accounts[c.target].exists => row = new
  BY <1>1, <1>3, RowOfSave
<1>6. ASSUME ~overlapped', ~unguarded'
      PROVE  /\ ~unguarded
             /\ (ActiveAdmin(accounts[c.target]) => ActiveAdmin(row)) \/ RemainingAdmins(c.target) # {}
  <2>1. /\ c.ver = usersVer /\ ~unguarded /\ (accounts[c.target].exists => row = new)
        /\ ~(c.op = "deactivate" /\ IsAdminLike(c.row.role))
    BY <1>5, <1>6 DEF SaveAccount, WriteAccount
  <2>2. c.row = accounts[c.target] /\ (Demotes(c) => RemainingAdmins(c.target) # {})
    BY <1>1, <1>2, <2>1 DEF AdminCallSound, BeforeSaving
  <2> QED
    BY <1>4, <2>1, <2>2 DEF ActiveAdmin
<1>7. AdministratorRemains'
  BY <1>2, <1>5, <1>6, AdministratorLeft
<1>8. \/ Traced(c.target, row.role)
      \/ Remains(c, "saved") /\ Requested(c.op) = row.role
  <2>1. Traced(c.target, c.row.role)
    BY <1>1, <1>2 DEF AdminCallSound, BeforeSaving
  <2>2. Traced(c.target, accounts[c.target].role)
    BY <1>2 DEF AdminInv
  <2>3. CASE row.role = accounts[c.target].role
    BY <2>2, <2>3
  <2>4. CASE row.role = new.role /\ ChangesRole(c, c.row)
    BY <1>1, <1>4, <2>4 DEF ChangesRole
  <2>5. CASE row.role = new.role /\ ~ChangesRole(c, c.row)
    <3>1. row.role = c.row.role
      BY <1>4, <2>5 DEF ChangesRole
    <3> QED
      BY <2>1, <3>1
  <2> QED
    BY <1>5, <2>3, <2>4, <2>5
<1>9. /\ Ends(c) \/ Remains(c, "saved") \/ Remains(c, "done")
      /\ c.at # "saved"
  BY <1>1 DEF Done
<1> QED
  BY <1>1, <1>5, <1>7, <1>8, <1>9, AdminSaves

LEMMA UpdateStatusInv ==
  ASSUME AdminInv, NEW c \in adminCalls, UpdateStatusOfMember(c) PROVE AdminInv'
<1>1. /\ c.op \in StatusOps /\ c.at = "selected" /\ SaveUserRow(c) /\ Done(c)
      /\ unguarded' = (unguarded \/ (c.op = "setSuspended" /\ IsAdminLike(c.row.role)))
      /\ UNCHANGED <<adminSide, initialRole, roleTrail, adminPageVars>>
  BY DEF UpdateStatusOfMember, SaveUserRow
<1>2. /\ c.target \in Accounts /\ AdminCallSound(c)
  BY DEF AdminInv, AdminTypes, AdminRequests
<1>3. PICK new \in UserRows : new = Applied(c)
  BY <1>1, AppliedRow
<1>4. /\ c.op \notin UpdateOps /\ new.role = c.row.role
      /\ ActiveAdmin(c.row) /\ ~ActiveAdmin(new) => c.op = "setSuspended" /\ IsAdminLike(c.row.role)
  BY <1>1, <1>3, AppliedRow DEF StatusOps, UpdateOps, RoleOps, Demotes, ChangesRole
<1>5. PICK row \in UserRows :
         /\ WriteAccount(c.target, row, c.ver)
         /\ row.role \in {new.role, accounts[c.target].role}
         /\ c.ver = usersVer /\ accounts[c.target].exists => row = new
  BY <1>1, <1>3, RowOfSave
<1>6. ASSUME ~overlapped', ~unguarded'
      PROVE  ~unguarded /\ (ActiveAdmin(accounts[c.target]) => ActiveAdmin(row))
  <2>1. /\ c.ver = usersVer /\ ~unguarded /\ (accounts[c.target].exists => row = new)
        /\ ~(c.op = "setSuspended" /\ IsAdminLike(c.row.role))
    BY <1>1, <1>5, <1>6 DEF WriteAccount
  <2>2. c.row = accounts[c.target]
    BY <1>1, <1>2, <2>1 DEF AdminCallSound, BeforeSaving
  <2> QED
    BY <1>4, <2>1, <2>2 DEF ActiveAdmin
<1>7. AdministratorRemains'
  BY <1>2, <1>5, <1>6, AdministratorLeft
<1>8. Traced(c.target, row.role)
  BY <1>1, <1>2, <1>4, <1>5 DEF AdminCallSound, AdminInv, BeforeSaving
<1>9. (Ends(c) \/ Remains(c, "saved") \/ Remains(c, "done")) /\ c.at # "saved"
  BY <1>1 DEF Done
<1> QED
  BY <1>1, <1>5, <1>7, <1>8, <1>9, AdminSaves

LEMMA DeleteMemberInv ==
  ASSUME AdminInv, NEW c \in adminCalls, DeleteMember(c) PROVE AdminInv'
<1>1. c.at = "sent" /\ UNCHANGED <<adminSide, initialRole, roleTrail, adminPageVars>>
  BY DEF DeleteMember
<1>2. CASE Ends(c) /\ UNCHANGED <<accounts, usersVer, overlapped, unguarded>>
  BY <1>1, <1>2, AdminEnds
<1>3. CASE /\ WriteAccount(c.target, [accounts[c.target] EXCEPT !.exists = FALSE], usersVer)
           /\ unguarded' = (unguarded \/ IsAdminLike(accounts[c.target].role)) /\ Done(c)
  <2>1. c.target \in Accounts /\ accounts \in [Accounts -> UserRows]
    BY DEF AdminInv, AdminTypes, AdminRequests
  <2>2. PICK row : row = [accounts[c.target] EXCEPT !.exists = FALSE]
    OBVIOUS
  <2>3. row \in UserRows /\ row.role = accounts[c.target].role
    BY <2>1, <2>2 DEF UserRows
  <2>4. WriteAccount(c.target, row, usersVer)
    BY <1>3, <2>2
  <2>5. ~unguarded' => ~unguarded /\ ~ActiveAdmin(accounts[c.target])
    BY <1>3 DEF ActiveAdmin
  <2>6. AdministratorRemains'
    BY <2>1, <2>4, <2>5, AdministratorLeft
  <2>7. Traced(c.target, row.role)
    BY <2>1, <2>3 DEF AdminInv
  <2>8. (Ends(c) \/ Remains(c, "saved") \/ Remains(c, "done")) /\ c.at # "saved"
    BY <1>1, <1>3 DEF Done
  <2> QED
    BY <1>1, <2>3, <2>4, <2>6, <2>7, <2>8, AdminSaves
<1> QED
  BY <1>2, <1>3 DEF DeleteMember

LEMMA OthersUpdateInv ==
  ASSUME AdminInv, NEW role \in {"user", "staff"}, OthersUpdate(role) PROVE AdminInv'
<1>1. OtherAccount \in Accounts /\ accounts[OtherAccount] \in UserRows
  BY DEF AdminInv, AdminTypes, Accounts
<1>2. PICK row : row = [accounts[OtherAccount] EXCEPT !.role = role]
  OBVIOUS
<1>3. row \in UserRows /\ row.role = role
  BY <1>1, <1>2 DEF UserRows, RoleNames, Roles
<1>4. /\ WriteAccount(OtherAccount, row, usersVer) /\ roleTrail' = roleTrail \cup {<<OtherAccount, role>>}
      /\ unguarded' = (unguarded \/ accounts[OtherAccount].role = "admin")
      /\ UNCHANGED <<adminSide, initialRole, adminCalls, adminPageVars>>
  BY <1>2 DEF OthersUpdate
<1>5. ~unguarded' => ~unguarded /\ ~ActiveAdmin(accounts[OtherAccount])
  BY <1>4 DEF ActiveAdmin, IsAdminLike
<1>6. AdministratorRemains'
  BY <1>1, <1>4, <1>5, AdministratorLeft
<1>7. Traced(OtherAccount, row.role)'
  BY <1>3, <1>4 DEF Traced
<1> QED
  BY <1>1, <1>3, <1>4, <1>6, <1>7, AdminWritten

\* Pages

\* What the pages show and fetch changes, and requests that ended are dropped.
LEMMA AdminPaged ==
  ASSUME AdminInv, UNCHANGED <<adminSide, initialRole, accountVars>>,
         adminCalls' \subseteq adminCalls, \A c \in adminCalls \ adminCalls' : c.at # "saved",
         adminDebt' \in {adminDebt, usersVer, 0}, userTable' \in UserTables,
         memberQuery' \in Queries(UserData),
         \A f \in refreshes' : \E tag : f \in Refreshes(tag),
         DashboardSound', MembersSound'
  PROVE  AdminInv'
<1>1. /\ UNCHANGED <<initialRole, accounts, usersVer, roleTrail, overlapped, unguarded>>
      /\ usersVer \in Nat /\ adminDebt \in Nat /\ adminDebt <= usersVer
  BY DEF accountVars, AdminInv, AdminTypes
<1>2. ASSUME NEW x, NEW role, Traced(x, role) PROVE Traced(x, role)'
  BY <1>1, <1>2, TracedKept
<1>3. ASSUME NEW c \in adminCalls' PROVE AdminCallSound(c)'
  <2>1. AdminCallSound(c)
    BY DEF AdminInv
  <2> QED
    BY <1>1, <1>2, <2>1 DEF AdminCallSound, RemainingAdmins, OutOfDate
<1>4. AdminTypes'
  <2>1. adminDebt' \in Nat /\ adminDebt' <= usersVer
    BY <1>1
  <2> QED
    BY <1>1, <2>1 DEF AdminInv, AdminTypes
<1>5. AdministratorRemains'
  BY <1>1 DEF AdminInv, AdministratorRemains
<1>6. \A x \in Accounts : Traced(x, accounts[x].role)'
  BY <1>1, <1>2 DEF AdminInv
<1> QED
  BY <1>3, <1>4, <1>5, <1>6 DEF AdminInv

\* What pages read is of a version at least as new as any that was reported.
LEMMA UsersRead ==
  ASSUME AdminInv
  PROVE  /\ UsersNow \in UserData /\ UsersNow.ver = usersVer /\ UsersNow # NoData
         /\ adminDebt <= usersVer /\ usersVer \in Nat /\ adminDebt \in Nat
         /\ NoData.ver = 0 /\ \A d \in UserData \cup {NoData} : d.ver \in Nat
<1>1. /\ accounts \in [Accounts -> UserRows] /\ OtherAccount \in Accounts
      /\ usersVer \in Nat \ {0} /\ adminDebt \in Nat /\ adminDebt <= usersVer
  BY DEF AdminInv, AdminTypes, Accounts
<1>2. accounts[OtherAccount].role \in RoleNames
  BY <1>1 DEF UserRows
<1>3. UsersNow \in UserData /\ UsersNow.ver = usersVer
  BY <1>1, <1>2 DEF UsersNow, UserData
<1>4. NoData.ver = 0
  BY DEF NoData
<1>5. \A d \in UserData : d.ver \in Nat
  BY DEF UserData
<1> QED
  BY <1>1, <1>3, <1>4, <1>5

LEMMA FetchPageInv == ASSUME AdminInv, FetchPage PROVE AdminInv'
<1>1. PICK t : t = CHOOSE n \in 1..MaxRefreshes : \A f \in refreshes : f.tag # n
  OBVIOUS
<1>2. PICK f : f = [of |-> "table", at |-> "sent", copy |-> NoData, tag |-> t]
  OBVIOUS
<1>3. f \in Refreshes(t) /\ f.of = "table" /\ f.at = "sent"
  BY <1>2 DEF Refreshes
<1>4. /\ refreshes' = refreshes \cup {f} /\ adminSide = "dashboard" /\ ~userTable.loading
      /\ UNCHANGED <<adminSide, initialRole, adminCalls, accountVars, userTable, memberQuery, adminDebt>>
  BY <1>1, <1>2 DEF FetchPage, StartRefresh
<1>5. DashboardSound'
  BY <1>3, <1>4 DEF AdminInv, DashboardSound
<1>6. MembersSound'
  BY <1>4 DEF AdminInv, MembersSound
<1>7. \A g \in refreshes' : \E tag : g \in Refreshes(tag)
  BY <1>3, <1>4 DEF AdminInv, AdminTypes
<1>8. userTable' \in UserTables /\ memberQuery' \in Queries(UserData)
  BY <1>4 DEF AdminInv, AdminTypes
<1> QED
  BY <1>4, <1>5, <1>6, <1>7, <1>8, AdminPaged

LEMMA ActionDoneInv ==
  ASSUME AdminInv, NEW c \in adminCalls, ActionDone(c) PROVE AdminInv'
<1>1. PICK left : left = {f \in refreshes : f.of = "dashboard"}
  OBVIOUS
<1>2. PICK t : t = CHOOSE n \in 1..MaxRefreshes : \A f \in left : f.tag # n
  OBVIOUS
<1>3. PICK f : f = [of |-> "dashboard", at |-> "sent", copy |-> NoData, tag |-> t]
  OBVIOUS
<1>4. f \in Refreshes(t) /\ f.of = "dashboard" /\ f.at = "sent"
  BY <1>3 DEF Refreshes
<1>5. PICK b \in BOOLEAN : b = (left # {})
  OBVIOUS
<1>6. PICK table : table = [userTable EXCEPT !.loading = TRUE, !.rows = NoData, !.mixed = b]
  OBVIOUS
<1>7. /\ refreshes' = left \cup {f} /\ userTable' = table /\ adminDebt' = usersVer
      /\ adminSide = "dashboard" /\ c.at = "done" /\ adminCalls' = adminCalls \ {c}
      /\ UNCHANGED <<adminSide, initialRole, accountVars, memberQuery>>
  BY <1>1, <1>2, <1>3, <1>5, <1>6 DEF ActionDone, StartRefresh, Ends
<1>8. table \in UserTables /\ table.loading = TRUE /\ table.mixed = b
  BY <1>6 DEF AdminInv, AdminTypes, UserTables
<1>9. DashboardSound'
  <2>1. ~b => refreshes' = {f}
    BY <1>5, <1>7
  <2> QED
    BY <1>4, <1>7, <1>8, <2>1 DEF DashboardSound
<1>10. MembersSound'
  BY <1>7 DEF AdminInv, MembersSound
<1>11. \A g \in refreshes' : \E tag : g \in Refreshes(tag)
  BY <1>1, <1>4, <1>7 DEF AdminInv, AdminTypes
<1>12. /\ memberQuery' \in Queries(UserData) /\ adminCalls' \subseteq adminCalls
       /\ \A d \in adminCalls \ adminCalls' : d.at # "saved"
  BY <1>7 DEF AdminInv, AdminTypes
<1> QED
  BY <1>7, <1>8, <1>9, <1>10, <1>11, <1>12, AdminPaged

LEMMA ServeRefreshInv ==
  ASSUME AdminInv, NEW f \in refreshes, ServeRefresh(f) PROVE AdminInv'
<1>1. PICK tag : f \in Refreshes(tag)
  BY DEF AdminInv, AdminTypes
<1>2. PICK d \in UserData : d = UsersNow
  BY UsersRead
<1>3. PICK g : g = [f EXCEPT !.at = "read", !.copy = d]
  OBVIOUS
<1>4. g \in Refreshes(tag) /\ g.of = f.of /\ g.copy = d
  BY <1>1, <1>2, <1>3 DEF Refreshes
<1>5. /\ refreshes' = (refreshes \ {f}) \cup {g}
      /\ UNCHANGED <<adminSide, initialRole, adminCalls, accountVars, userTable, memberQuery, adminDebt>>
  BY <1>2, <1>3 DEF ServeRefresh
<1>6. d.ver >= adminDebt
  BY <1>2, UsersRead
<1>7. DashboardSound'
  <2>1. ASSUME adminSide = "dashboard", ~userTable.mixed
        PROVE  /\ \A h \in refreshes' : h.at = "read" => h.copy.ver >= adminDebt
               /\ userTable.loading => refreshes' = {g} /\ g.of = "dashboard"
               /\ ~userTable.loading => /\ userTable.rows.ver >= adminDebt
                                        /\ \A h \in refreshes' : h.of = "table"
    BY <1>4, <1>5, <1>6, <2>1 DEF AdminInv, DashboardSound
  <2> QED
    BY <1>5, <2>1 DEF DashboardSound
<1>8. MembersSound'
  BY <1>5 DEF AdminInv, MembersSound
<1>9. \A h \in refreshes' : \E t : h \in Refreshes(t)
  BY <1>4, <1>5 DEF AdminInv, AdminTypes
<1>10. userTable' \in UserTables /\ memberQuery' \in Queries(UserData)
  BY <1>5 DEF AdminInv, AdminTypes
<1> QED
  BY <1>5, <1>7, <1>8, <1>9, <1>10, AdminPaged

\* The table as a refresh of the page leaves it.
LEMMA FetchDataEnded ==
  ASSUME AdminInv, NEW users \in UserData \cup {NoData}, FetchDataEnds(users)
  PROVE  /\ userTable' \in UserTables /\ ~userTable'.loading /\ userTable'.mixed = userTable.mixed
         /\ userTable'.rows = IF userTable.loading THEN users ELSE userTable.rows
<1>1. userTable \in UserTables
  BY DEF AdminInv, AdminTypes
<1>2. PICK held \in UserData \cup {NoData} :
         held = IF userTable.loading THEN users ELSE userTable.rows
  BY <1>1 DEF UserTables
<1>3. PICK table : table = [userTable EXCEPT !.users = users, !.loading = FALSE, !.rows = held]
  OBVIOUS
<1>4. /\ table \in UserTables /\ table.loading = FALSE /\ table.mixed = userTable.mixed
      /\ table.rows = held
  BY <1>1, <1>2, <1>3 DEF UserTables
<1>5. userTable' = table
  BY <1>2, <1>3 DEF FetchDataEnds
<1> QED
  BY <1>2, <1>4, <1>5

LEMMA RefreshEndsInv ==
  ASSUME AdminInv, NEW f \in refreshes, RefreshArrives(f) \/ RefreshFails(f) PROVE AdminInv'
<1>1. /\ refreshes' = refreshes \ {f} /\ UNCHANGED <<adminSide, initialRole, adminCalls, accountVars, memberQuery>>
      /\ userTable \in UserTables
      /\ f.copy \in UserData \cup {NoData} /\ f.of \in {"dashboard", "table"}
  BY DEF RefreshArrives, RefreshFails, AdminInv, AdminTypes, Refreshes
<1>2. \A g \in refreshes' : \E tag : g \in Refreshes(tag)
  BY <1>1 DEF AdminInv, AdminTypes
<1>3. adminSide = "dashboard"
  BY DEF AdminInv, MembersSound
<1>4. MembersSound' /\ memberQuery' \in Queries(UserData)
  BY <1>1, <1>3 DEF AdminInv, AdminTypes, MembersSound
<1>5. ASSUME RefreshArrives(f), f.of = "dashboard"
      PROVE  userTable' \in UserTables /\ DashboardSound' /\ adminDebt' = adminDebt
  <2>1. FetchDataEnds(f.copy) /\ f.at = "read" /\ adminDebt' = adminDebt
    BY <1>5 DEF RefreshArrives
  <2>2. /\ userTable' \in UserTables /\ ~userTable'.loading /\ userTable'.mixed = userTable.mixed
        /\ userTable'.rows = IF userTable.loading THEN f.copy ELSE userTable.rows
    BY <1>1, <2>1, FetchDataEnded
  <2>3. ~userTable.mixed => userTable.loading /\ refreshes' = {} /\ f.copy.ver >= adminDebt
    BY <1>1, <1>3, <1>5, <2>1 DEF AdminInv, DashboardSound
  <2> QED
    BY <2>1, <2>2, <2>3 DEF DashboardSound
<1>6. ASSUME RefreshArrives(f), f.of = "table"
      PROVE  userTable' \in UserTables /\ DashboardSound' /\ adminDebt' = adminDebt
  <2>1. f.at = "read" /\ adminDebt' = adminDebt /\ userTable' = [userTable EXCEPT !.rows = f.copy]
    BY <1>6 DEF RefreshArrives
  <2>2. PICK table : table = [userTable EXCEPT !.rows = f.copy]
    OBVIOUS
  <2>3. /\ table \in UserTables /\ table.loading = userTable.loading /\ table.mixed = userTable.mixed
        /\ table.rows = f.copy
    BY <1>1, <2>2 DEF UserTables
  <2>4. ~userTable.mixed => /\ ~userTable.loading /\ f.copy.ver >= adminDebt
                            /\ \A g \in refreshes : /\ g.of = "table"
                                                    /\ g.at = "read" => g.copy.ver >= adminDebt
    BY <1>3, <1>6, <2>1 DEF AdminInv, DashboardSound
  <2> QED
    BY <1>1, <2>1, <2>2, <2>3, <2>4 DEF DashboardSound
<1>7. ASSUME RefreshFails(f), f.of = "dashboard"
      PROVE  userTable' \in UserTables /\ DashboardSound' /\ adminDebt' = 0
  <2>1. FetchDataEnds(userTable.users) /\ adminDebt' = 0 /\ userTable.users \in UserData \cup {NoData}
    BY <1>1, <1>7 DEF RefreshFails, UserTables
  <2>2. /\ userTable' \in UserTables /\ ~userTable'.loading /\ userTable'.mixed = userTable.mixed
        /\ userTable'.rows = IF userTable.loading THEN userTable.users ELSE userTable.rows
    BY <1>1, <2>1, FetchDataEnded
  <2>3. userTable'.rows \in UserData \cup {NoData}
    BY <2>2 DEF UserTables
  <2>4. userTable'.rows.ver >= 0
    BY <2>3, UsersRead
  <2>5. ~userTable.mixed => refreshes' = {}
    BY <1>1, <1>3, <1>7 DEF AdminInv, DashboardSound
  <2> QED
    BY <2>1, <2>2, <2>4, <2>5 DEF DashboardSound
<1>8. ASSUME RefreshFails(f), f.of = "table"
      PROVE  userTable' \in UserTables /\ DashboardSound' /\ adminDebt' = adminDebt
  <2>1. UNCHANGED <<userTable, adminDebt>>
    BY <1>8 DEF RefreshFails
  <2>2. ~userTable.mixed => ~userTable.loading
    BY <1>3, <1>8 DEF AdminInv, DashboardSound
  <2> QED
    BY <1>1, <2>1, <2>2 DEF AdminInv, DashboardSound
<1>9. userTable' \in UserTables /\ DashboardSound' /\ adminDebt' \in {adminDebt, 0}
  BY <1>1, <1>5, <1>6, <1>7, <1>8
<1> QED
  BY <1>1, <1>2, <1>4, <1>9, AdminPaged

\* The page of members
LEMMA MemberUpdatedInv ==
  ASSUME AdminInv, NEW c \in adminCalls, MemberUpdated(c) PROVE AdminInv'
<1>1. /\ c.page /\ adminSide = "members" /\ c.at = "done" /\ adminCalls' = adminCalls \ {c}
      /\ memberQuery' = Invalidated(memberQuery, TRUE) /\ adminDebt' = usersVer
      /\ UNCHANGED <<adminSide, initialRole, accountVars, userTable, refreshes>>
  BY DEF MemberUpdated, Ends
<1>2. PICK q \in Queries(UserData) : q = memberQuery
  BY DEF AdminInv, AdminTypes
<1>3. q.seen # NoData /\ refreshes' = {} /\ (q.fetch = "read" => q.copy # NoData)
  BY <1>1, <1>2 DEF AdminInv, MembersSound
<1>4. PICK i : i = Invalidated(q, TRUE)
  OBVIOUS
<1>5. Follows(i, usersVer)
  BY <1>3, <1>4, InvalidatedFollows
<1>6. \A p \in {StartFetch(q, TRUE), OnMount(q, TRUE), i, FetchFailed(q)} :
         p \in Queries(UserData) /\ p.seen = q.seen /\ p.copy \in {q.copy, NoData}
  BY <1>4, QueryHolds
<1>7. i \in Queries(UserData) /\ i.seen = q.seen
  BY <1>6
<1>8. i.fetch # "read"
  <2>1. PICK m : m = [q EXCEPT !.stale = TRUE]
    OBVIOUS
  <2>2. m \in Queries(UserData) /\ m.seen # NoData
    BY <1>3, <2>1 DEF Queries
  <2>3. PICK s : s = [m EXCEPT !.fetch = "sent", !.copy = NoData]
    OBVIOUS
  <2>4. s.fetch = "sent"
    BY <2>2, <2>3 DEF Queries
  <2> QED
    BY <1>4, <2>1, <2>2, <2>3, <2>4 DEF Invalidated, StartFetch
<1>9. memberQuery' = i
  BY <1>1, <1>2, <1>4
<1>10. MembersSound'
  BY <1>1, <1>3, <1>5, <1>7, <1>8, <1>9 DEF MembersSound
<1>11. DashboardSound'
  BY <1>1 DEF DashboardSound
<1>12. /\ userTable' \in UserTables /\ \A f \in refreshes' : \E tag : f \in Refreshes(tag)
       /\ adminCalls' \subseteq adminCalls /\ \A d \in adminCalls \ adminCalls' : d.at # "saved"
       /\ adminDebt' \in {adminDebt, usersVer, 0} /\ memberQuery' \in Queries(UserData)
  BY <1>1, <1>3, <1>7, <1>9 DEF AdminInv, AdminTypes
<1> QED
  BY <1>1, <1>10, <1>11, <1>12, AdminPaged

LEMMA FetchMembersInv ==
  ASSUME AdminInv, FetchMembers \/ RefocusMembers PROVE AdminInv'
<1>1. PICK q \in Queries(UserData) : q = memberQuery
  BY DEF AdminInv, AdminTypes
<1>2. PICK d \in UserData : d = UsersNow
  BY UsersRead
<1>3. PICK n :
         /\ memberQuery' = n
         /\ \/ n = ReadByServer(q, d)
            \/ q.fetch = "read" /\ n = Arrived(q)
            \/ n = FetchFailed(q)
            \/ q.fetch = "idle" /\ n = StartFetch(q, FALSE)
  BY <1>1, <1>2 DEF FetchMembers, RefocusMembers
<1>4. UNCHANGED <<adminSide, initialRole, adminCalls, accountVars, userTable, refreshes, adminDebt>>
  BY DEF FetchMembers, RefocusMembers
<1>5. /\ d.ver >= adminDebt /\ d # NoData /\ adminDebt \in Nat
      /\ q.fetch = "read" => q.copy # NoData
  BY <1>1, <1>2, UsersRead DEF AdminInv, MembersSound
<1>6. /\ n \in Queries(UserData)
      /\ Follows(q, adminDebt) => Follows(n, adminDebt)
      /\ q.seen # NoData => n.seen # NoData
      /\ n.fetch = "read" => n.copy # NoData
  <2>1. CASE n = ReadByServer(q, d)
    <3>1. n = [q EXCEPT !.fetch = "read", !.copy = d]
      BY <2>1 DEF ReadByServer
    <3>2. n \in Queries(UserData) /\ n.seen = q.seen /\ n.copy = d
      BY <3>1 DEF Queries
    <3>3. Follows(n, adminDebt)
      BY <1>5, <2>1, ReadFollows
    <3> QED
      BY <1>5, <3>2, <3>3
  <2>2. CASE q.fetch = "read" /\ n = Arrived(q)
    <3>1. n \in Queries(UserData) /\ n.seen = q.copy
      BY <2>2, QueryHolds
    <3>2. Follows(q, adminDebt) => Follows(n, adminDebt)
      BY <1>5, <2>2, QueryKept
    <3>3. n.fetch = "idle"
      BY <2>2 DEF Arrived, EmptyQuery
    <3> QED
      BY <1>5, <2>2, <3>1, <3>2, <3>3
  <2>3. CASE n = FetchFailed(q)
    <3>1. n \in Queries(UserData) /\ n.seen = q.seen
      BY <2>3, QueryHolds
    <3>2. Follows(q, adminDebt) => Follows(n, adminDebt)
      BY <1>5, <2>3, QueryKept
    <3>3. n.fetch = "idle"
      BY <2>3 DEF FetchFailed, Queries
    <3> QED
      BY <3>1, <3>2, <3>3
  <2>4. CASE q.fetch = "idle" /\ n = StartFetch(q, FALSE)
    <3>1. n = [q EXCEPT !.fetch = "sent", !.copy = NoData]
      BY <2>4 DEF StartFetch
    <3>2. n \in Queries(UserData) /\ n.seen = q.seen /\ n.fetch = "sent"
      BY <3>1 DEF Queries
    <3>3. Follows(n, adminDebt)
      BY <3>2 DEF Follows, UpToDate
    <3> QED
      BY <3>2, <3>3
  <2> QED
    BY <1>3, <2>1, <2>2, <2>3, <2>4
<1>7. MembersSound'
  BY <1>1, <1>3, <1>4, <1>6 DEF AdminInv, MembersSound
<1>8. DashboardSound'
  BY <1>4 DEF AdminInv, DashboardSound
<1>9. /\ userTable' \in UserTables /\ \A f \in refreshes' : \E tag : f \in Refreshes(tag)
      /\ memberQuery' \in Queries(UserData)
  BY <1>3, <1>4, <1>6 DEF AdminInv, AdminTypes
<1> QED
  BY <1>4, <1>7, <1>8, <1>9, AdminPaged

LEMMA AdminStep == AdminInv /\ [AdministrationNext]_adminVars => AdminInv'
<1> SUFFICES ASSUME AdminInv, [AdministrationNext]_adminVars PROVE AdminInv'
  OBVIOUS
<1>1. ASSUME UNCHANGED <<adminSide, initialRole, adminCalls, accountVars, adminPageVars>> PROVE AdminInv'
  BY <1>1, AdminCalled DEF accountVars
<1>2. CASE \E x, t \in Accounts, op \in ClientOps : SendAdmin(x, op, t)
  BY <1>2, SendAdminInv
<1>3. ASSUME NEW x \in Accounts, RefreshToken(x) PROVE AdminInv'
  BY <1>1, <1>3 DEF RefreshToken
<1>4. ASSUME NEW c \in adminCalls,
             \/ LoadForUpdate(c) \/ CountAdmins(c) \/ SelectAccount(c) \/ SaveAccount(c) \/ RecordRoleChange(c)
             \/ StatementFails(c) \/ DeleteMember(c) \/ LoadMember(c) \/ UpdateStatusOfMember(c)
             \/ ActionDone(c) \/ ActionFails(c) \/ MemberUpdated(c)
      PROVE  AdminInv'
  BY <1>4, AdminLoadsInv, CountAdminsInv, SelectAccountInv, SaveAccountInv, AdminEndsInv, DeleteMemberInv,
     UpdateStatusInv, ActionDoneInv, MemberUpdatedInv
<1>5. CASE \E op \in {"suspend", "delete", "make-admin", "make-user"} :
              HandleAdminAction(op) \/ MutateMember(op)
  BY <1>5, PageSendsInv
<1>6. CASE \E role \in {"user", "staff"} : OthersUpdate(role)
  BY <1>6, OthersUpdateInv
<1>7. CASE \E f \in refreshes : ServeRefresh(f) \/ RefreshArrives(f) \/ RefreshFails(f)
  BY <1>7, ServeRefreshInv, RefreshEndsInv
<1>8. CASE FetchPage
  BY <1>8, FetchPageInv
<1>9. CASE FetchMembers \/ RefocusMembers
  BY <1>9, FetchMembersInv
<1>10. UNCHANGED adminVars => AdminInv'
  BY <1>1 DEF adminVars
<1> QED
  BY <1>2, <1>3, <1>4, <1>5, <1>6, <1>7, <1>8, <1>9, <1>10 DEF AdministrationNext

\* Somebody is left who administrates as long as updates do not overlap and no
\* route without the count took an administrator away; every role has its entry
\* in the log, and pages show their own writes: AdministrationHolds.
THEOREM AdministrationFollows == AdministrationSpec => []AdministrationHolds
<1>1. AdministrationSpec => []AdminInv
  BY AdminInitInv, AdminStep, PTL DEF AdministrationSpec
<1> QED
  BY <1>1, AdminInvHolds, PTL

-----------------------------------------------------------------------------
\* The workspaces of the back office

\* Rows, and the values of rows of forms, of requests and of nothing.
SpaceRows == [name : SpaceNames, rate : Rates, active : BOOLEAN]
SpaceValues == SpaceRows \cup [name : SpaceNames \cup {"none"}, rate : Rates \cup {0}, active : BOOLEAN]
SpaceTables == [Spaces -> SpaceRows \cup {NoSpace}]
SpaceForms == [mode : {"closed", "new", "edit"}, of : Spaces, row : SpaceValues, ver : Nat]
SpaceRequests ==
    [op : {"create", "update", "toggle"}, of : Spaces, dto : SpaceValues,
     changed : {"all", "name", "rate", "type", "active"}, formVer : Nat,
     at : {"sent", "found", "selected", "done"}, row : SpaceValues, ver : Nat,
     columns : SUBSET SpaceColumns, live : BOOLEAN]

SpaceLists == [status : {"rows"}, ver : Nat, rows : SpaceTables]
SpaceData == SpaceLists \cup [status : {"rows"}, ver : Nat]

\* What was a row at some version: as it is now if nothing was written since,
\* and with the name it still has if nothing renames.
WasSpace(s, row, ver) ==
    /\ ver <= spacesVer
    /\ ver = spacesVer => row = spaces[s]
    /\ row # NoSpace => /\ spaces[s] # NoSpace
                        /\ "rename" \notin crossed => row.name = spaces[s].name

\* Data of the administrators' list.
SpaceListSound(d) == d # NoData => d \in SpaceLists /\ \A s \in Spaces : WasSpace(s, d.rows[s], d.ver)

SpaceFormSound ==
    /\ spaceForm \in SpaceForms
    /\ spaceForm.mode = "edit" =>
          spaceForm.row \in SpaceRows /\ WasSpace(spaceForm.of, spaceForm.row, spaceForm.ver)

\* An edit that sends what its form showed of the fields it does not change.
EditSound(c) ==
    /\ c.dto.name \in SpaceNames /\ c.dto.rate \in Rates
    /\ c.changed \in {"name", "rate", "type"} /\ c.formVer <= spacesVer
    /\ "rename" \notin crossed /\ c.changed # "name" => c.dto.name = spaces[c.of].name
    /\ c.formVer = spacesVer => /\ c.changed # "name" => c.dto.name = spaces[c.of].name
                                /\ c.changed # "rate" => c.dto.rate = spaces[c.of].rate

SpaceCallSound(c) ==
    /\ c.ver <= spacesVer
    /\ c.op = "create" =>
          /\ c.dto \in SpaceRows /\ c.changed = "all"
          /\ c.at # "sent" => spelling = "types"
          /\ c.at = "found" /\ c.ver = spacesVer => c.dto.name \notin ActiveNames
    /\ c.op # "create" =>
          /\ spaces[c.of] # NoSpace
          /\ c.at \in {"found", "selected"} => c.row \in SpaceRows /\ WasSpace(c.of, c.row, c.ver)
          /\ c.at = "selected" /\ c.ver = spacesVer => c.columns = Diverged(c)
    /\ c.op = "update" => EditSound(c)
    /\ c.op = "toggle" => c.changed = "active"

SpaceTypes ==
    /\ spaces \in SpaceTables /\ meant \in [Spaces -> SpaceValues]
    /\ spacesVer \in Nat \ {0} /\ spaceDebt \in Nat /\ spaceDebt <= spacesVer
    /\ spacePage \in SpaceKeys /\ spaceCache \in [SpaceKeys -> Queries(SpaceData)]
    /\ spaceCalls \subseteq SpaceRequests

SpacesKept ==
    /\ crossed \cap {"save", "form"} = {} => spaces = meant
    /\ crossed \cap {"save", "rename"} = {} =>
          \A s, t \in Spaces :
              s # t /\ spaces[s].active /\ spaces[t].active => spaces[s].name # spaces[t].name
    /\ spelling # "types" => \A s \in Spaces \ {FirstSpace} : spaces[s] = NoSpace

SpaceQueriesSound ==
    /\ Follows(spaceCache[spacePage], spaceDebt)
    /\ SpaceListSound(spaceCache["admin"].seen) /\ SpaceListSound(spaceCache["admin"].copy)

SpaceInv ==
    /\ SpaceTypes /\ SpacesKept /\ SpaceQueriesSound /\ SpaceFormSound
    /\ \A c \in spaceCalls : SpaceCallSound(c)
LEMMA SpaceInvAgrees == SpaceInv => WorkspacesAgree
  BY DEF SpaceInv, SpacesKept, SpaceQueriesSound, Follows, SpaceQuery, WorkspacesAgree

\* A row is something, and has what a row has.
LEMMA SpaceRowFacts ==
  /\ NoSpace \notin SpaceRows /\ SpaceRows \subseteq SpaceValues
  /\ NoSpace \in SpaceValues /\ NoSpaceForm \in SpaceForms /\ NoSpaceForm.mode = "closed"
  /\ \A r \in SpaceRows : r # NoSpace /\ r.name \in SpaceNames /\ r.active \in BOOLEAN
<1>1. NoSpace \notin SpaceRows
  <2>1. NoSpace.name = "none"
    BY DEF NoSpace
  <2> QED
    BY <2>1, SpacesAssumption DEF SpaceRows
<1>2. NoSpace \in SpaceValues
  BY DEF NoSpace, SpaceValues
<1>3. NoSpaceForm \in SpaceForms /\ NoSpaceForm.mode = "closed"
  BY <1>2, SpacesAssumption DEF NoSpaceForm, SpaceForms
<1>4. \A r \in SpaceRows : r.name \in SpaceNames /\ r.active \in BOOLEAN
  BY DEF SpaceRows
<1> QED
  BY <1>1, <1>2, <1>3, <1>4 DEF SpaceValues

\* The list shows rows of some version, the catalogue none.
LEMMA SpaceDataFacts ==
  /\ NoData \notin SpaceData /\ \A d \in SpaceData : d.ver \in Nat
  /\ SpaceLists \subseteq SpaceData
<1>1. NoData.status = "none" /\ \A d \in SpaceData : d.status = "rows" /\ d.ver \in Nat
  BY DEF NoData, SpaceData, SpaceLists
<1> QED
  BY <1>1 DEF SpaceData

LEMMA SpacesInitInv == WorkspacePagesInit => SpaceInv
<1> SUFFICES ASSUME WorkspacePagesInit PROVE SpaceInv
  OBVIOUS
<1>1. PICK row : row = [name |-> CHOOSE n \in SpaceNames : TRUE,
                        rate |-> CHOOSE r \in Rates : TRUE, active |-> TRUE]
  OBVIOUS
<1>2. row \in SpaceRows
  <2>1. (CHOOSE n \in SpaceNames : TRUE) \in SpaceNames /\ (CHOOSE r \in Rates : TRUE) \in Rates
    BY SpacesAssumption
  <2> QED
    BY <1>1, <2>1 DEF SpaceRows
<1>3. spaces \in {[s \in Spaces |-> NoSpace],
                  [s \in Spaces |-> IF s = FirstSpace THEN row ELSE NoSpace]}
  BY <1>1 DEF WorkspacePagesInit
<1>4. spaces \in SpaceTables /\ meant = spaces /\ \A s \in Spaces \ {FirstSpace} : spaces[s] = NoSpace
  BY <1>2, <1>3 DEF SpaceTables, WorkspacePagesInit
<1>5. \A s \in Spaces : spaces[s] \in SpaceValues
  BY <1>4, SpaceRowFacts DEF SpaceTables
<1>6. meant \in [Spaces -> SpaceValues]
  BY <1>4, <1>5 DEF SpaceTables
<1>7. PICK q : q = StartFetch(EmptyQuery, FALSE)
  OBVIOUS
<1>8. /\ EmptyQuery \in Queries(SpaceData) /\ q \in Queries(SpaceData) /\ Follows(q, 0)
  BY <1>7, EmptyFollows, QueryKept
<1>9. q.seen = NoData /\ q.copy = NoData /\ q.fetch # "read"
  BY <1>7 DEF StartFetch, EmptyQuery
<1>10. spaceCache = [k \in SpaceKeys |-> IF k = "admin" THEN q ELSE EmptyQuery]
  BY <1>7 DEF WorkspacePagesInit
<1>11. spaceCache["admin"] = q /\ spaceCache \in [SpaceKeys -> Queries(SpaceData)]
  BY <1>8, <1>10 DEF SpaceKeys
<1>12. SpaceTypes
  <2>1. /\ spacesVer = 1 /\ spaceDebt = 0 /\ spacePage = "admin" /\ spaceCalls = {}
    BY DEF WorkspacePagesInit
  <2>2. spacePage \in SpaceKeys
    BY <2>1 DEF SpaceKeys
  <2> QED
    BY <1>4, <1>6, <1>11, <2>1, <2>2 DEF SpaceTypes
<1>13. SpaceQueriesSound
  BY <1>8, <1>9, <1>11 DEF WorkspacePagesInit, SpaceQueriesSound, SpaceListSound
<1>14. SpacesKept
  <2>1. \A s, t \in Spaces : s # t /\ spaces[s].active /\ spaces[t].active => FALSE
    BY <1>4 DEF NoSpace
  <2> QED
    BY <1>4, <2>1 DEF SpacesKept
<1>15. SpaceFormSound
  BY SpaceRowFacts DEF WorkspacePagesInit, SpaceFormSound
<1> QED
  BY <1>12, <1>13, <1>14, <1>15 DEF SpaceInv, WorkspacePagesInit

\* Without a write, what was known of the rows is known.
LEMMA SpacesLeft ==
  ASSUME SpaceInv, UNCHANGED spaceServer
  PROVE  /\ SpacesKept' /\ \A d : SpaceListSound(d) => SpaceListSound(d)'
         /\ \A s, r, v : WasSpace(s, r, v)' = WasSpace(s, r, v)
         /\ \A c : SpaceCallSound(c) => SpaceCallSound(c)'
         /\ spaces \in SpaceTables /\ spaces' = spaces /\ spacesVer' = spacesVer
         /\ meant' \in [Spaces -> SpaceValues]
<1>1. SpacesKept'
  BY DEF SpaceInv, SpacesKept, spaceServer
<1>2. \A s, r, v : WasSpace(s, r, v)' = WasSpace(s, r, v)
  BY DEF WasSpace, spaceServer
<1>3. \A d : SpaceListSound(d) => SpaceListSound(d)'
  BY <1>2 DEF SpaceListSound
<1>4. \A c : SpaceCallSound(c) => SpaceCallSound(c)'
  <2>1. \A c : Diverged(c)' = Diverged(c)
    BY DEF Diverged, Assigned, spaceServer
  <2> QED
    BY <1>2, <2>1 DEF SpaceCallSound, EditSound, ActiveNames, spaceServer
<1> QED
  BY <1>1, <1>2, <1>3, <1>4 DEF SpaceInv, SpaceTypes, spaceServer

\* Forms are opened and closed, calls sent and dropped.
LEMMA SpacesSent ==
  ASSUME SpaceInv, UNCHANGED <<spaceServer, spacePage, spaceCache, spaceDebt>>,
         SpaceFormSound',
         \A c \in spaceCalls' : c \in SpaceRequests /\ SpaceCallSound(c)
  PROVE  SpaceInv'
<1>1. SpaceTypes'
  BY SpacesLeft DEF SpaceInv, SpaceTypes
<1>2. SpaceQueriesSound'
  BY SpacesLeft DEF SpaceInv, SpaceQueriesSound
<1> QED
  BY <1>1, <1>2, SpacesLeft DEF SpaceInv

\* A form that stays, or is closed, is sound.
LEMMA SpaceFormLeft ==
  ASSUME SpaceInv, UNCHANGED spaceServer, spaceForm' \in {spaceForm, NoSpaceForm}
  PROVE  SpaceFormSound'
  BY SpacesLeft, SpaceRowFacts DEF SpaceInv, SpaceFormSound

\* Nobody waits for a call any more.
LEMMA SpaceCallsOrphaned ==
  ASSUME SpaceInv, NEW c \in {[d EXCEPT !.live = FALSE] : d \in spaceCalls}
  PROVE  c \in SpaceRequests /\ SpaceCallSound(c)
<1>1. PICK d \in spaceCalls : c = [d EXCEPT !.live = FALSE]
  OBVIOUS
<1>2. d \in SpaceRequests /\ SpaceCallSound(d)
  BY DEF SpaceInv, SpaceTypes
<1>3. /\ c \in SpaceRequests /\ c.op = d.op /\ c.of = d.of /\ c.dto = d.dto /\ c.changed = d.changed
      /\ c.formVer = d.formVer /\ c.at = d.at /\ c.row = d.row /\ c.ver = d.ver
      /\ c.columns = d.columns
  BY <1>1, <1>2 DEF SpaceRequests
<1>4. Diverged(c) = Diverged(d)
  BY <1>3 DEF Diverged, Assigned
<1> QED
  BY <1>2, <1>3, <1>4 DEF SpaceCallSound, EditSound
\* A write keeps what was known of the rows, but for their versions.
LEMMA SpaceWritten ==
  ASSUME SpaceInv, NEW s \in Spaces, NEW row \in SpaceRows,
         spaces' = [spaces EXCEPT ![s] = row], spacesVer' = spacesVer + 1, crossed \subseteq crossed',
         UNCHANGED <<spelling, spacePage, spaceCache, spaceDebt>>,
         "rename" \notin crossed' => spaces[s] = NoSpace \/ row.name = spaces[s].name
  PROVE  /\ spaces' \in SpaceTables /\ spacesVer' \in Nat \ {0} /\ spaceDebt' <= spacesVer'
         /\ spaces'[s] = row /\ \A t \in Spaces \ {s} : spaces'[t] = spaces[t]
         /\ SpaceQueriesSound' /\ (UNCHANGED spaceForm => SpaceFormSound')
         /\ \A c \in SpaceRequests : SpaceCallSound(c) => SpaceCallSound(c)'
<1>1. spaces \in SpaceTables /\ spacesVer \in Nat \ {0} /\ spaceDebt \in Nat /\ spaceDebt <= spacesVer
  BY DEF SpaceInv, SpaceTypes
<1>2. spaces'[s] = row /\ \A t \in Spaces \ {s} : spaces'[t] = spaces[t]
  BY <1>1 DEF SpaceTables
<1>3. spaces' \in SpaceTables /\ spacesVer' \in Nat \ {0} /\ spaceDebt' <= spacesVer'
  BY <1>1 DEF SpaceTables
<1>4. \A t \in Spaces : spaces[t] # NoSpace =>
         /\ spaces'[t] # NoSpace
         /\ "rename" \notin crossed' => spaces'[t].name = spaces[t].name
  BY <1>2, SpaceRowFacts
<1>5. ASSUME NEW t \in Spaces, NEW r, NEW v \in Nat, WasSpace(t, r, v)
      PROVE  WasSpace(t, r, v)'
  <2>1. v <= spacesVer' /\ v # spacesVer'
    BY <1>1, <1>5 DEF WasSpace
  <2>2. ASSUME r # NoSpace
        PROVE  spaces'[t] # NoSpace /\ ("rename" \notin crossed' => r.name = spaces'[t].name)
    BY <1>4, <1>5, <2>2 DEF WasSpace
  <2> QED
    BY <2>1, <2>2 DEF WasSpace
<1>6. ASSUME NEW d, SpaceListSound(d) PROVE SpaceListSound(d)'
  <2>1. d # NoData => d \in SpaceLists /\ d.ver \in Nat /\ \A t \in Spaces : WasSpace(t, d.rows[t], d.ver)
    BY <1>6 DEF SpaceListSound, SpaceLists
  <2> QED
    BY <1>5, <2>1 DEF SpaceListSound
<1>7. SpaceQueriesSound'
  BY <1>6 DEF SpaceInv, SpaceQueriesSound
<1>8. ASSUME UNCHANGED spaceForm PROVE SpaceFormSound'
  <2>1. SpaceFormSound /\ spaceForm.of \in Spaces /\ spaceForm.ver \in Nat
    BY DEF SpaceInv, SpaceFormSound, SpaceForms
  <2> QED
    BY <1>5, <1>8, <2>1 DEF SpaceFormSound
<1>9. ASSUME NEW c \in SpaceRequests, SpaceCallSound(c) PROVE SpaceCallSound(c)'
  <2>1. c.of \in Spaces /\ c.ver \in Nat /\ c.formVer \in Nat /\ c.ver <= spacesVer
    BY <1>9 DEF SpaceRequests, SpaceCallSound
  <2>2. c.ver <= spacesVer' /\ c.ver # spacesVer'
    BY <1>1, <2>1
  <2>3. ASSUME c.op = "create"
        PROVE  c.dto \in SpaceRows /\ c.changed = "all" /\ (c.at # "sent" => spelling' = "types")
    BY <1>9, <2>3 DEF SpaceCallSound
  <2>4. ASSUME c.op # "create"
        PROVE  /\ spaces'[c.of] # NoSpace
               /\ c.at \in {"found", "selected"} => c.row \in SpaceRows /\ WasSpace(c.of, c.row, c.ver)'
    BY <1>4, <1>5, <1>9, <2>1, <2>4 DEF SpaceCallSound
  <2>5. ASSUME c.op = "update" PROVE EditSound(c)'
    <3>1. EditSound(c) /\ spaces[c.of] # NoSpace
      BY <1>9, <2>5 DEF SpaceCallSound
    <3>2. c.formVer <= spacesVer' /\ c.formVer # spacesVer'
      BY <1>1, <2>1, <3>1 DEF EditSound
    <3>3. "rename" \notin crossed' => "rename" \notin crossed /\ spaces'[c.of].name = spaces[c.of].name
      BY <1>4, <2>1, <3>1
    <3> QED
      BY <3>1, <3>2, <3>3 DEF EditSound
  <2>6. c.op = "toggle" => c.changed = "active"
    BY <1>9 DEF SpaceCallSound
  <2> QED
    BY <2>2, <2>3, <2>4, <2>5, <2>6 DEF SpaceCallSound
<1> QED
  BY <1>2, <1>3, <1>7, <1>8, <1>9

\* The modal
LEMMA SpaceFormInv ==
  SpaceInv /\ (OpenNew \/ CloseForm \/ \E s \in Spaces : OpenEdit(s)) => SpaceInv'
<1> SUFFICES ASSUME SpaceInv
             PROVE  /\ OpenNew => SpaceInv'
                    /\ CloseForm => SpaceInv'
                    /\ \A s \in Spaces : OpenEdit(s) => SpaceInv'
  OBVIOUS
<1>1. \A c \in spaceCalls : c \in SpaceRequests /\ SpaceCallSound(c)
  BY DEF SpaceInv, SpaceTypes
<1>2. ASSUME OpenNew PROVE SpaceInv'
  <2>1. PICK f : f = [NoSpaceForm EXCEPT !.mode = "new"]
    OBVIOUS
  <2>2. f \in SpaceForms /\ f.mode = "new"
    BY <2>1, SpaceRowFacts DEF SpaceForms
  <2>3. SpaceFormSound'
    BY <1>2, <2>1, <2>2 DEF OpenNew, SpaceFormSound
  <2> QED
    BY <1>1, <1>2, <2>3, SpacesSent DEF OpenNew
<1>3. ASSUME CloseForm PROVE SpaceInv'
  BY <1>3, SpaceFormLeft, SpaceCallsOrphaned, SpacesSent DEF CloseForm
<1>4. ASSUME NEW s \in Spaces, OpenEdit(s) PROVE SpaceInv'
  <2>1. PICK d : d = spaceCache["admin"].seen
    OBVIOUS
  <2>2. d # NoData /\ d.rows[s] # NoSpace /\ SpaceListSound(d)
    BY <1>4, <2>1 DEF OpenEdit, ListedSpaces, SpaceInv, SpaceQueriesSound
  <2>3. d.rows[s] \in SpaceRows /\ d.ver \in Nat /\ WasSpace(s, d.rows[s], d.ver)
    BY <2>2 DEF SpaceListSound, SpaceLists, SpaceTables
  <2>4. PICK f : f = [mode |-> "edit", of |-> s, row |-> d.rows[s], ver |-> d.ver]
    OBVIOUS
  <2>5. f \in SpaceForms /\ f.row \in SpaceRows /\ WasSpace(f.of, f.row, f.ver) /\ spaceForm' = f
    BY <1>4, <2>1, <2>3, <2>4, SpaceRowFacts DEF SpaceForms, OpenEdit
  <2>6. SpaceFormSound'
    BY <1>4, <2>5, SpacesLeft DEF OpenEdit, SpaceFormSound
  <2> QED
    BY <1>1, <1>4, <2>6, SpacesSent DEF OpenEdit
<1> QED
  BY <1>2, <1>3, <1>4

\* Requests of the page
LEMMA SpaceSendInv ==
  SpaceInv /\ (\/ \E n \in SpaceNames : SubmitNew(n)
               \/ \E n \in SpaceNames, r \in Rates, changed \in {"name", "rate", "type"} :
                     SubmitEdit(changed, n, r)
               \/ \E s \in Spaces : Toggle(s)) => SpaceInv'
<1> SUFFICES ASSUME SpaceInv
             PROVE  /\ \A n \in SpaceNames : SubmitNew(n) => SpaceInv'
                    /\ \A n \in SpaceNames, r \in Rates, changed \in {"name", "rate", "type"} :
                          SubmitEdit(changed, n, r) => SpaceInv'
                    /\ \A s \in Spaces : Toggle(s) => SpaceInv'
  OBVIOUS
<1>1. ASSUME NEW c, c \in SpaceRequests, SpaceCallSound(c), spaceCalls' = spaceCalls \cup {c},
             UNCHANGED <<spacePage, spaceForm, spaceCache, spaceDebt, spaceServer>>
      PROVE  SpaceInv'
  <2>1. \A d \in spaceCalls' : d \in SpaceRequests /\ SpaceCallSound(d)
    BY <1>1 DEF SpaceInv, SpaceTypes
  <2> QED
    BY <1>1, <2>1, SpaceFormLeft, SpacesSent
<1>2. SpaceFormSound /\ spacesVer \in Nat \ {0} /\ spaceForm.of \in Spaces /\ spaceForm.ver \in Nat
  BY DEF SpaceInv, SpaceTypes, SpaceFormSound, SpaceForms
<1>3. ASSUME NEW n \in SpaceNames, SubmitNew(n) PROVE SpaceInv'
  <2>1. PICK dto : dto = [name |-> n, rate |-> CHOOSE r \in Rates : TRUE, active |-> TRUE]
    OBVIOUS
  <2>2. dto \in SpaceRows
    BY <2>1, SpacesAssumption DEF SpaceRows
  <2>3. PICK c : c = [op |-> "create", of |-> spaceForm.of, dto |-> dto, changed |-> "all",
                      formVer |-> 0, at |-> "sent", row |-> NoSpace, ver |-> 0,
                      columns |-> {}, live |-> TRUE]
    OBVIOUS
  <2>4. c \in SpaceRequests
    BY <1>2, <2>2, <2>3, SpaceRowFacts DEF SpaceRequests
  <2>5. SpaceCallSound(c)
    BY <1>2, <2>2, <2>3 DEF SpaceCallSound
  <2> QED
    BY <1>1, <1>3, <2>1, <2>3, <2>4, <2>5 DEF SubmitNew, SendSpace
<1>4. ASSUME NEW n \in SpaceNames, NEW r \in Rates, NEW changed \in {"name", "rate", "type"},
             SubmitEdit(changed, n, r)
      PROVE  SpaceInv'
  <2>1. PICK dto : dto = [name |-> n, rate |-> r, active |-> FALSE]
    OBVIOUS
  <2>2. dto \in SpaceRows /\ dto.name = n /\ dto.rate = r
    BY <2>1 DEF SpaceRows
  <2>3. PICK c : c = [op |-> "update", of |-> spaceForm.of, dto |-> dto, changed |-> changed,
                      formVer |-> spaceForm.ver, at |-> "sent", row |-> NoSpace, ver |-> 0,
                      columns |-> {}, live |-> TRUE]
    OBVIOUS
  <2>4. /\ c.op = "update" /\ c.of = spaceForm.of /\ c.dto = dto /\ c.changed = changed
        /\ c.formVer = spaceForm.ver /\ c.at = "sent" /\ c.ver = 0
    BY <2>3
  <2>5. c \in SpaceRequests
    BY <1>2, <2>2, <2>3, SpaceRowFacts DEF SpaceRequests
  <2>6. /\ spaceForm.row # NoSpace /\ WasSpace(spaceForm.of, spaceForm.row, spaceForm.ver)
        /\ changed = "name" \/ n = spaceForm.row.name
        /\ changed = "rate" \/ r = spaceForm.row.rate
    BY <1>2, <1>4, SpaceRowFacts DEF SubmitEdit, SpaceFormSound
  <2>7. EditSound(c)
    BY <2>2, <2>4, <2>6 DEF EditSound, WasSpace
  <2>8. SpaceCallSound(c)
    BY <1>2, <2>4, <2>6, <2>7 DEF SpaceCallSound, WasSpace
  <2> QED
    BY <1>1, <1>4, <2>1, <2>3, <2>5, <2>8 DEF SubmitEdit, SendSpace
<1>5. ASSUME NEW s \in Spaces, Toggle(s) PROVE SpaceInv'
  <2>1. PICK d : d = spaceCache["admin"].seen
    OBVIOUS
  <2>2. d # NoData /\ d.rows[s] # NoSpace /\ SpaceListSound(d)
    BY <1>5, <2>1 DEF Toggle, ListedSpaces, SpaceInv, SpaceQueriesSound
  <2>3. d.rows[s] \in SpaceRows /\ WasSpace(s, d.rows[s], d.ver)
    BY <2>2 DEF SpaceListSound, SpaceLists, SpaceTables
  <2>4. PICK b \in BOOLEAN : b = ~d.rows[s].active
    OBVIOUS
  <2>5. PICK dto : dto = [NoSpace EXCEPT !.active = b]
    OBVIOUS
  <2>6. dto \in SpaceValues
    BY <2>5 DEF NoSpace, SpaceValues
  <2>7. PICK c : c = [op |-> "toggle", of |-> s, dto |-> dto, changed |-> "active",
                      formVer |-> 0, at |-> "sent", row |-> NoSpace, ver |-> 0,
                      columns |-> {}, live |-> FALSE]
    OBVIOUS
  <2>8. c \in SpaceRequests
    BY <2>6, <2>7, SpaceRowFacts DEF SpaceRequests
  <2>9. SpaceCallSound(c)
    BY <1>2, <2>2, <2>3, <2>7 DEF SpaceCallSound, WasSpace
  <2> QED
    BY <1>1, <1>5, <2>1, <2>4, <2>5, <2>7, <2>8, <2>9 DEF Toggle, SendSpace
<1> QED
  BY <1>3, <1>4, <1>5
\* The server finds the row, or refuses.
LEMMA FindSpaceInv ==
  ASSUME SpaceInv, NEW c \in spaceCalls, FindSpace(c) PROVE SpaceInv'
<1>1. c \in SpaceRequests /\ SpaceCallSound(c) /\ spaces \in SpaceTables /\ spacesVer \in Nat \ {0}
  BY DEF SpaceInv, SpaceTypes
<1>2. CASE Refused(c)
  <2>1. \A d \in spaceCalls' : d \in SpaceRequests /\ SpaceCallSound(d)
    BY <1>2 DEF SpaceInv, SpaceTypes, Refused
  <2> QED
    BY <1>2, <2>1, SpaceFormLeft, SpacesSent DEF Refused
<1>3. CASE /\ ValidType(c) /\ ~(c.op = "create" /\ NameTaken(c.dto.name))
           /\ Proceeds(c, "found")
  <2>1. PICK d : d = [c EXCEPT !.at = "found", !.row = spaces[c.of], !.ver = spacesVer]
    OBVIOUS
  <2>2. c.of \in Spaces /\ spaces[c.of] \in SpaceRows \cup {NoSpace}
    BY <1>1 DEF SpaceRequests, SpaceTables
  <2>3. /\ d \in SpaceRequests /\ d.op = c.op /\ d.of = c.of /\ d.dto = c.dto /\ d.changed = c.changed
        /\ d.formVer = c.formVer /\ d.at = "found" /\ d.row = spaces[c.of] /\ d.ver = spacesVer
    BY <1>1, <2>1, <2>2, SpaceRowFacts DEF SpaceRequests
  <2>4. WasSpace(d.of, d.row, d.ver)
    BY <1>1, <2>3 DEF WasSpace
  <2>5. d.op = "create" => /\ d.dto \in SpaceRows /\ d.changed = "all" /\ spelling = "types"
                           /\ d.dto.name \notin ActiveNames
    BY <1>1, <1>3, <2>3 DEF SpaceCallSound, ValidType, NameTaken
  <2>6. d.op # "create" => spaces[d.of] # NoSpace /\ d.row \in SpaceRows
    BY <1>1, <2>2, <2>3 DEF SpaceCallSound
  <2>7. d.op = "update" => EditSound(d)
    BY <1>1, <2>3 DEF SpaceCallSound, EditSound
  <2>8. d.op = "toggle" => d.changed = "active"
    BY <1>1, <2>3 DEF SpaceCallSound
  <2>9. SpaceCallSound(d)
    BY <1>1, <2>3, <2>4, <2>5, <2>6, <2>7, <2>8 DEF SpaceCallSound
  <2>10. \A e \in spaceCalls' : e \in SpaceRequests /\ SpaceCallSound(e)
    BY <1>3, <2>1, <2>3, <2>9 DEF SpaceInv, SpaceTypes, Proceeds
  <2> QED
    BY <1>3, <2>10, SpaceFormLeft, SpacesSent DEF Proceeds
<1> QED
  BY <1>2, <1>3 DEF FindSpace

\* What is saved is a row, of which only a new name is another.
LEMMA AssignedRow ==
  ASSUME SpaceInv, NEW c \in spaceCalls, c.at \in {"found", "selected"}
  PROVE  /\ Assigned(c) \in SpaceRows
         /\ c.op = "toggle" => /\ Assigned(c) = [c.row EXCEPT !.active = c.dto.active]
                               /\ c.changed = "active"
         /\ c.op = "update" => /\ Assigned(c).name = c.dto.name /\ Assigned(c).rate = c.dto.rate
                               /\ Assigned(c).active = c.row.active
         /\ c.op = "create" => Assigned(c) = c.dto
         /\ c.op # "create" => c.row \in SpaceRows /\ WasSpace(c.of, c.row, c.ver) /\ spaces[c.of] # NoSpace
<1>1. c \in SpaceRequests /\ SpaceCallSound(c) /\ c.op \in {"create", "update", "toggle"}
  BY DEF SpaceInv, SpaceTypes, SpaceRequests
<1>2. c.op # "create" => c.row \in SpaceRows /\ WasSpace(c.of, c.row, c.ver) /\ spaces[c.of] # NoSpace
  BY <1>1 DEF SpaceCallSound
<1>3. CASE c.op = "create"
  BY <1>1, <1>3 DEF SpaceCallSound, Assigned
<1>4. CASE c.op = "update"
  <2>1. c.dto.name \in SpaceNames /\ c.dto.rate \in Rates
    BY <1>1, <1>4 DEF SpaceCallSound, EditSound
  <2>2. PICK row : row = [c.row EXCEPT !.name = c.dto.name, !.rate = c.dto.rate]
    OBVIOUS
  <2>3. row \in SpaceRows /\ row.name = c.dto.name /\ row.rate = c.dto.rate /\ row.active = c.row.active
    BY <1>2, <1>4, <2>1, <2>2 DEF SpaceRows
  <2>4. Assigned(c) = row
    BY <1>4, <2>2 DEF Assigned
  <2> QED
    BY <1>2, <1>4, <2>3, <2>4
<1>5. CASE c.op = "toggle"
  <2>1. c.dto.active \in BOOLEAN
    BY <1>1 DEF SpaceRequests, SpaceValues, SpaceRows
  <2>2. PICK row : row = [c.row EXCEPT !.active = c.dto.active]
    OBVIOUS
  <2>3. row \in SpaceRows
    BY <1>2, <1>5, <2>1, <2>2 DEF SpaceRows
  <2>4. Assigned(c) = row
    BY <1>5, <2>2 DEF Assigned
  <2> QED
    BY <1>1, <1>2, <1>5, <2>2, <2>3, <2>4 DEF SpaceCallSound
<1> QED
  BY <1>1, <1>3, <1>4, <1>5

\* The save reads the row again, and will write the columns that differ.
LEMMA SelectSpaceInv ==
  ASSUME SpaceInv, NEW c \in spaceCalls, SelectSpace(c) PROVE SpaceInv'
<1>1. c \in SpaceRequests /\ SpaceCallSound(c) /\ c.at = "found" /\ c.op # "create"
  BY DEF SpaceInv, SpaceTypes, SelectSpace
<1>2. PICK columns \in SUBSET SpaceColumns : columns = Diverged(c)
  BY DEF Diverged
<1>3. PICK d : d = [c EXCEPT !.at = "selected", !.columns = columns]
  OBVIOUS
<1>4. /\ d \in SpaceRequests /\ d.op = c.op /\ d.of = c.of /\ d.dto = c.dto /\ d.changed = c.changed
      /\ d.formVer = c.formVer /\ d.at = "selected" /\ d.row = c.row /\ d.ver = c.ver
      /\ d.columns = columns
  BY <1>1, <1>2, <1>3 DEF SpaceRequests
<1>5. Diverged(d) = Diverged(c)
  BY <1>4 DEF Diverged, Assigned
<1>6. SpaceCallSound(d)
  BY <1>1, <1>2, <1>4, <1>5 DEF SpaceCallSound, EditSound
<1>7. \A e \in spaceCalls' : e \in SpaceRequests /\ SpaceCallSound(e)
  BY <1>2, <1>3, <1>4, <1>6 DEF SelectSpace, SpaceInv, SpaceTypes
<1> QED
  BY <1>7, SpaceFormLeft, SpacesSent DEF SelectSpace

\* What is saved is a row, named as assigned or as before; and it is the row
\* that was assigned if nothing was written since that was read.
LEMMA SavedSpaceRow ==
  ASSUME SpaceInv, NEW c \in spaceCalls, NEW s \in Spaces, SaveSpace(c, s)
  PROVE  /\ SavedSpace(c, s) \in SpaceRows
         /\ c.op = "create" => SavedSpace(c, s) = c.dto
         /\ c.op # "create" => SavedSpace(c, s).name \in {Assigned(c).name, spaces[s].name}
         /\ c.ver = spacesVer => SavedSpace(c, s) = Assigned(c)
<1>1. c \in SpaceRequests /\ SpaceCallSound(c) /\ spaces \in SpaceTables /\ c.at \in {"found", "selected"}
  BY DEF SpaceInv, SpaceTypes, SaveSpace
<1>2. PICK new \in SpaceRows : new = Assigned(c)
  BY <1>1, AssignedRow
<1>3. PICK row : row = SavedSpace(c, s)
  OBVIOUS
<1>4. CASE c.op = "create"
  BY <1>1, <1>2, <1>4, AssignedRow DEF SavedSpace
<1>5. CASE c.op # "create"
  <2>1. c.at = "selected" /\ s = c.of
    BY <1>5 DEF SaveSpace
  <2>2. PICK now \in SpaceRows : now = spaces[s]
    BY <1>1, <1>5, <2>1 DEF SpaceCallSound, SpaceTables
  <2>3. row = [name |-> IF "name" \in c.columns THEN new.name ELSE now.name,
               rate |-> IF "rate" \in c.columns THEN new.rate ELSE now.rate,
               active |-> IF "active" \in c.columns THEN new.active ELSE now.active]
    BY <1>2, <1>3, <1>5, <2>2 DEF SavedSpace
  <2>4. row \in SpaceRows /\ row.name \in {new.name, now.name}
    BY <2>3 DEF SpaceRows
  <2>5. ASSUME c.ver = spacesVer PROVE row = new
    <3>1. c.columns = Diverged(c)
      BY <1>1, <1>5, <2>1, <2>5 DEF SpaceCallSound
    <3>2. /\ "name" \notin c.columns => new["name"] = now["name"]
          /\ "rate" \notin c.columns => new["rate"] = now["rate"]
          /\ "active" \notin c.columns => new["active"] = now["active"]
      BY <1>2, <2>1, <2>2, <3>1 DEF Diverged, SpaceColumns
    <3>3. row.name = new.name
      BY <2>3, <3>2
    <3>4. row.rate = new.rate
      BY <2>3, <3>2
    <3>5. row.active = new.active
      BY <2>3, <3>2
    <3> QED
      BY <2>4, <3>3, <3>4, <3>5 DEF SpaceRows
  <2> QED
    BY <1>2, <1>3, <1>5, <2>2, <2>4, <2>5
<1> QED
  BY <1>4, <1>5

\* What is meant is a row of the same kind.
LEMMA MeantRow ==
  ASSUME SpaceInv, NEW c \in spaceCalls, NEW old \in SpaceValues
  PROVE  Meant(c, old) \in SpaceValues
<1>1. c \in SpaceRequests /\ SpaceCallSound(c)
  BY DEF SpaceInv, SpaceTypes
<1>2. /\ c.dto \in SpaceValues
      /\ c.dto.name \in SpaceNames \cup {"none"} /\ c.dto.rate \in Rates \cup {0} /\ c.dto.active \in BOOLEAN
  BY <1>1 DEF SpaceRequests, SpaceValues, SpaceRows
<1>3. c.op = "create" => Meant(c, old) = c.dto
  <2>1. c.op = "create" => c.changed = "all"
    BY <1>1 DEF SpaceCallSound
  <2> QED
    BY <2>1 DEF Meant
<1>4. PICK dto \in SpaceValues : dto = c.dto
  BY <1>2
<1>5. /\ [old EXCEPT !.name = dto.name] \in SpaceValues
      /\ [old EXCEPT !.rate = dto.rate] \in SpaceValues
      /\ [old EXCEPT !.active = dto.active] \in SpaceValues
  BY <1>2, <1>4 DEF SpaceValues, SpaceRows
<1>6. c.op # "create" =>
         Meant(c, old) \in {[old EXCEPT !.name = dto.name], [old EXCEPT !.rate = dto.rate],
                            [old EXCEPT !.active = dto.active], old}
  BY <1>4 DEF Meant
<1> QED
  BY <1>2, <1>3, <1>5, <1>6
\* A call that was saved asks for nothing more.
LEMMA SpaceCallDone ==
  ASSUME SpaceInv, NEW c \in spaceCalls, c.at \in {"found", "selected"},
         spaceCalls' = (spaceCalls \ {c}) \cup {[c EXCEPT !.at = "done"]},
         \A d \in SpaceRequests : SpaceCallSound(d) => SpaceCallSound(d)'
  PROVE  \A d \in spaceCalls' : d \in SpaceRequests /\ SpaceCallSound(d)'
<1>1. c \in SpaceRequests /\ SpaceCallSound(c)
  BY DEF SpaceInv, SpaceTypes
<1>2. PICK d : d = [c EXCEPT !.at = "done"]
  OBVIOUS
<1>3. /\ d \in SpaceRequests /\ d.op = c.op /\ d.of = c.of /\ d.dto = c.dto /\ d.changed = c.changed
      /\ d.formVer = c.formVer /\ d.at = "done" /\ d.row = c.row /\ d.ver = c.ver
  BY <1>1, <1>2 DEF SpaceRequests
<1>4. SpaceCallSound(d)
  BY <1>1, <1>3 DEF SpaceCallSound, EditSound
<1> QED
  BY <1>2, <1>3, <1>4 DEF SpaceInv, SpaceTypes

\* A save that crosses no other, and whose form was current, does what was
\* meant; and without a change of a name or a reactivation it keeps names
\* different.
LEMMA SavedAsMeant ==
  ASSUME SpaceInv, NEW c \in spaceCalls, NEW s \in Spaces, SaveSpace(c, s)
  PROVE  SpacesKept'
<1>1. /\ c \in SpaceRequests /\ SpaceCallSound(c) /\ spaces \in SpaceTables /\ SpacesKept
      /\ spacesVer \in Nat \ {0} /\ meant \in [Spaces -> SpaceValues]
      /\ c.op \in {"create", "update", "toggle"}
  BY DEF SpaceInv, SpaceTypes, SpaceRequests
<1>2. PICK row : row = SavedSpace(c, s)
  OBVIOUS
<1>3. /\ c.at \in {"found", "selected"} /\ (c.op = "create" => c.at = "found")
      /\ spaces' = [spaces EXCEPT ![s] = row] /\ crossed' = crossed \cup Crossings(c)
      /\ meant' = [meant EXCEPT ![s] = Meant(c, meant[s])] /\ spelling' = spelling
      /\ c.op = "create" => spaces[s] = NoSpace
      /\ c.op # "create" => s = c.of
  BY <1>2 DEF SaveSpace, WriteSpace
<1>4. spaces'[s] = row /\ \A t \in Spaces \ {s} : spaces'[t] = spaces[t]
  BY <1>1, <1>3 DEF SpaceTables
<1>5. /\ "save" \notin crossed' => c.ver = spacesVer
      /\ "form" \notin crossed' /\ c.op = "update" => c.formVer = spacesVer
      /\ "rename" \notin crossed' => c.changed \notin {"name", "active"}
  BY <1>3 DEF Crossings
<1>6. /\ row \in SpaceRows
      /\ c.op = "toggle" => c.changed = "active"
      /\ c.op = "create" => row = c.dto
      /\ c.op # "create" => c.row \in SpaceRows /\ WasSpace(c.of, c.row, c.ver) /\ spaces[c.of] # NoSpace
  BY <1>2, <1>3, AssignedRow, SavedSpaceRow
<1>7. ASSUME c.ver = spacesVer
      PROVE  /\ c.op = "toggle" => row = [c.row EXCEPT !.active = c.dto.active]
             /\ c.op = "update" => /\ row.name = c.dto.name /\ row.rate = c.dto.rate
                                   /\ row.active = c.row.active
  BY <1>2, <1>3, <1>7, AssignedRow, SavedSpaceRow
<1>8. ASSUME crossed' \cap {"save", "form"} = {} PROVE spaces' = meant'
  <2>1. spaces = meant /\ c.ver = spacesVer /\ (c.op = "update" => c.formVer = spacesVer)
    BY <1>1, <1>3, <1>5, <1>8 DEF SpacesKept
  <2>2. c.op # "create" => c.row = spaces[s]
    BY <1>3, <1>6, <2>1 DEF WasSpace
  <2>3. Meant(c, spaces[s]) = row
    <3>1. CASE c.op = "create"
      <4>1. c.changed = "all"
        BY <1>1, <3>1 DEF SpaceCallSound
      <4> QED
        BY <1>6, <3>1, <4>1 DEF Meant
    <3>2. CASE c.op = "toggle"
      BY <1>6, <1>7, <2>1, <2>2, <3>2 DEF Meant
    <3>3. CASE c.op = "update"
      <4>1. PICK old \in SpaceRows : old = spaces[s]
        BY <1>6, <2>2, <3>3
      <4>2. EditSound(c) /\ s = c.of
        BY <1>1, <1>3, <3>3 DEF SpaceCallSound
      <4>3. /\ c.changed \in {"name", "rate", "type"}
            /\ c.changed # "name" => c.dto.name = old.name
            /\ c.changed # "rate" => c.dto.rate = old.rate
        BY <2>1, <3>3, <4>1, <4>2 DEF EditSound
      <4>4. /\ row.active = old.active
            /\ c.changed = "name" => row = [old EXCEPT !.name = c.dto.name]
            /\ c.changed = "rate" => row = [old EXCEPT !.rate = c.dto.rate]
            /\ c.changed = "type" => row = old
        BY <1>6, <1>7, <2>1, <2>2, <3>3, <4>1, <4>3 DEF SpaceRows
      <4> QED
        BY <3>3, <4>1, <4>3, <4>4 DEF Meant
    <3> QED
      BY <1>1, <3>1, <3>2, <3>3
  <2> QED
    BY <1>3, <2>1, <2>3
<1>9. ASSUME crossed' \cap {"save", "rename"} = {}
      PROVE  \A a, b \in Spaces :
                a # b /\ spaces'[a].active /\ spaces'[b].active => spaces'[a].name # spaces'[b].name
  <2>1. /\ \A a, b \in Spaces :
              a # b /\ spaces[a].active /\ spaces[b].active => spaces[a].name # spaces[b].name
        /\ c.ver = spacesVer /\ c.changed \notin {"name", "active"} /\ "rename" \notin crossed
    BY <1>1, <1>3, <1>5, <1>9 DEF SpacesKept
  <2>2. CASE c.op = "create"
    <3>1. row.name \notin ActiveNames
      BY <1>1, <1>3, <1>6, <2>1, <2>2 DEF SpaceCallSound
    <3>2. \A t \in Spaces : spaces[t].active => spaces[t].name # row.name
      BY <3>1 DEF ActiveNames
    <3> QED
      BY <1>4, <2>1, <3>2
  <2>3. CASE c.op = "update"
    <3>1. row.name = spaces[s].name
      BY <1>1, <1>3, <1>6, <1>7, <2>1, <2>3 DEF SpaceCallSound, EditSound
    <3>2. row.active = spaces[s].active
      BY <1>3, <1>6, <1>7, <2>1, <2>3 DEF WasSpace
    <3> QED
      BY <1>4, <2>1, <3>1, <3>2
  <2> QED
    BY <1>1, <1>6, <2>1, <2>2, <2>3
<1>10. spelling' # "types" => \A t \in Spaces \ {FirstSpace} : spaces'[t] = NoSpace
  BY <1>1, <1>3, <1>4, <1>6 DEF SpacesKept, SpaceCallSound
<1> QED
  BY <1>8, <1>9, <1>10 DEF SpacesKept

LEMMA SaveSpaceInv ==
  ASSUME SpaceInv, NEW c \in spaceCalls, NEW s \in Spaces, SaveSpace(c, s) PROVE SpaceInv'
<1>1. /\ c \in SpaceRequests /\ SpaceCallSound(c) /\ meant \in [Spaces -> SpaceValues]
      /\ c.op \in {"create", "update", "toggle"} /\ c.at \in {"found", "selected"}
  BY DEF SpaceInv, SpaceTypes, SpaceRequests, SaveSpace
<1>2. PICK row : row = SavedSpace(c, s)
  OBVIOUS
<1>3. row \in SpaceRows
  BY <1>2, SavedSpaceRow
<1>4. /\ spaces' = [spaces EXCEPT ![s] = row] /\ spacesVer' = spacesVer + 1 /\ crossed \subseteq crossed'
      /\ UNCHANGED <<spelling, spacePage, spaceForm, spaceCache, spaceDebt>>
  BY <1>2 DEF SaveSpace, WriteSpace
<1>5. ASSUME "rename" \notin crossed' PROVE spaces[s] = NoSpace \/ row.name = spaces[s].name
  <2>1. c.changed \notin {"name", "active"} /\ "rename" \notin crossed
    BY <1>5 DEF SaveSpace, Crossings
  <2>2. CASE c.op = "create"
    BY <2>2 DEF SaveSpace
  <2>3. CASE c.op # "create"
    <3>1. c.op = "update" /\ s = c.of
      BY <1>1, <2>1, <2>3 DEF SpaceCallSound, SaveSpace
    <3> QED
      BY <1>1, <1>2, <2>1, <3>1, AssignedRow, SavedSpaceRow DEF SpaceCallSound, EditSound
  <2> QED
    BY <2>2, <2>3
<1>6. /\ spaces' \in SpaceTables /\ spacesVer' \in Nat \ {0} /\ spaceDebt' <= spacesVer'
      /\ SpaceQueriesSound' /\ SpaceFormSound'
      /\ \A d \in SpaceRequests : SpaceCallSound(d) => SpaceCallSound(d)'
  BY <1>3, <1>4, <1>5, SpaceWritten
<1>7. \A d \in spaceCalls' : d \in SpaceRequests /\ SpaceCallSound(d)'
  BY <1>1, <1>6, SpaceCallDone DEF SaveSpace
<1>8. meant' \in [Spaces -> SpaceValues]
  <2>1. Meant(c, meant[s]) \in SpaceValues
    BY <1>1, MeantRow
  <2> QED
    BY <1>1, <2>1 DEF SaveSpace
<1>9. SpaceTypes'
  BY <1>4, <1>6, <1>7, <1>8 DEF SpaceInv, SpaceTypes
<1> QED
  BY <1>6, <1>7, <1>9, SavedAsMeant DEF SpaceInv
\* Other administrators
LEMMA OthersSaveInv ==
  ASSUME SpaceInv, NEW s \in Spaces, NEW r \in Rates, NEW a \in BOOLEAN,
         OthersSave(s, [spaces[s] EXCEPT !.rate = r, !.active = a])
  PROVE  SpaceInv'
<1>1. PICK row : row = [spaces[s] EXCEPT !.rate = r, !.active = a]
  OBVIOUS
<1>2. /\ spaces \in SpaceTables /\ meant \in [Spaces -> SpaceValues] /\ SpacesKept
      /\ spaces[s] # NoSpace
  BY DEF SpaceInv, SpaceTypes, OthersSave
<1>3. spaces[s] \in SpaceRows
  BY <1>2 DEF SpaceTables
<1>4. row \in SpaceRows /\ row.name = spaces[s].name /\ row.rate = r /\ row.active = a
  BY <1>1, <1>3 DEF SpaceRows
<1>5. row.active => spaces[s].active
  <2>1. CASE \E rate \in Rates : row = [spaces[s] EXCEPT !.rate = rate]
    BY <1>3, <2>1 DEF SpaceRows
  <2>2. CASE row = [spaces[s] EXCEPT !.active = FALSE]
    BY <1>3, <2>2 DEF SpaceRows
  <2> QED
    BY <1>1, <2>1, <2>2 DEF OthersSave
<1>6. /\ spaces' = [spaces EXCEPT ![s] = row] /\ spacesVer' = spacesVer + 1 /\ crossed \subseteq crossed'
      /\ UNCHANGED <<spelling, crossed, spacePage, spaceForm, spaceCalls, spaceCache, spaceDebt>>
  BY <1>1 DEF OthersSave, WriteSpace
<1>7. /\ spaces' \in SpaceTables /\ spacesVer' \in Nat \ {0} /\ spaceDebt' <= spacesVer'
      /\ spaces'[s] = row /\ \A t \in Spaces \ {s} : spaces'[t] = spaces[t]
      /\ SpaceQueriesSound' /\ SpaceFormSound'
      /\ \A c \in SpaceRequests : SpaceCallSound(c) => SpaceCallSound(c)'
  BY <1>4, <1>6, SpaceWritten
<1>8. PICK old \in SpaceValues : old = meant[s]
  BY <1>2
<1>9. PICK m : m = [old EXCEPT !.rate = IF row.rate # spaces[s].rate THEN row.rate ELSE old.rate,
                               !.active = row.active = spaces[s].active /\ old.active]
  OBVIOUS
<1>10. m \in SpaceValues
  BY <1>4, <1>8, <1>9 DEF SpaceValues, SpaceRows
<1>11. meant' = [meant EXCEPT ![s] = m]
  BY <1>1, <1>2, <1>8, <1>9 DEF OthersSave
<1>12. SpaceTypes'
  <2>1. spaceCalls' \subseteq SpaceRequests
    BY <1>6 DEF SpaceInv, SpaceTypes
  <2>2. meant' \in [Spaces -> SpaceValues]
    BY <1>2, <1>10, <1>11
  <2> QED
    BY <1>6, <1>7, <2>1, <2>2 DEF SpaceInv, SpaceTypes
<1>13. SpacesKept'
  <2>1. ASSUME spaces = meant PROVE spaces' = meant'
    <3>1. old = spaces[s] /\ old \in SpaceRows
      BY <1>3, <1>8, <2>1
    <3>2. m = row
      BY <1>1, <1>4, <1>5, <1>9, <3>1 DEF SpaceRows
    <3> QED
      BY <1>6, <1>11, <2>1, <3>2
  <2>2. crossed \cap {"save", "form"} = {} => spaces' = meant'
    BY <1>2, <2>1 DEF SpacesKept
  <2>3. ASSUME crossed \cap {"save", "rename"} = {}, NEW t \in Spaces, NEW u \in Spaces,
               t # u, spaces'[t].active, spaces'[u].active
        PROVE  spaces'[t].name # spaces'[u].name
    <3>1. /\ \A x \in Spaces : spaces'[x].active => spaces[x].active
          /\ \A x \in Spaces : spaces'[x].name = spaces[x].name
      BY <1>4, <1>5, <1>7
    <3> QED
      BY <1>2, <2>3, <3>1 DEF SpacesKept
  <2>4. spelling # "types" => \A t \in Spaces \ {FirstSpace} : spaces'[t] = NoSpace
    BY <1>2, <1>7 DEF SpacesKept
  <2> QED
    BY <1>6, <2>2, <2>3, <2>4 DEF SpacesKept
<1> QED
  BY <1>6, <1>7, <1>12, <1>13 DEF SpaceInv, SpaceTypes

LEMMA OthersCreateInv ==
  ASSUME SpaceInv, NEW s \in Spaces, NEW n \in SpaceNames, OthersCreate(s, n) PROVE SpaceInv'
<1>1. PICK row : row = [name |-> n, rate |-> CHOOSE r \in Rates : TRUE, active |-> TRUE]
  OBVIOUS
<1>2. row \in SpaceRows /\ row.name = n
  <2>1. (CHOOSE r \in Rates : TRUE) \in Rates
    BY SpacesAssumption
  <2> QED
    BY <1>1, <2>1 DEF SpaceRows
<1>3. /\ spaces' = [spaces EXCEPT ![s] = row] /\ spacesVer' = spacesVer + 1
      /\ crossed \subseteq crossed' /\ meant' = [meant EXCEPT ![s] = row]
      /\ UNCHANGED <<spelling, crossed, spacePage, spaceForm, spaceCalls, spaceCache, spaceDebt>>
      /\ spelling = "types" /\ spaces[s] = NoSpace /\ n \notin ActiveNames
  BY <1>1 DEF OthersCreate, WriteSpace, NameTaken
<1>4. /\ spaces' \in SpaceTables /\ spacesVer' \in Nat \ {0} /\ spaceDebt' <= spacesVer'
      /\ spaces'[s] = row /\ \A t \in Spaces \ {s} : spaces'[t] = spaces[t]
      /\ SpaceQueriesSound' /\ SpaceFormSound'
      /\ \A c \in SpaceRequests : SpaceCallSound(c) => SpaceCallSound(c)'
  BY <1>2, <1>3, SpaceWritten
<1>5. SpaceTypes'
  <2>1. meant' \in [Spaces -> SpaceValues] /\ spaceCalls' \subseteq SpaceRequests
    BY <1>2, <1>3, SpaceRowFacts DEF SpaceInv, SpaceTypes
  <2> QED
    BY <1>3, <1>4, <2>1 DEF SpaceInv, SpaceTypes
<1>6. SpacesKept'
  <2>1. crossed \cap {"save", "form"} = {} => spaces' = meant'
    BY <1>3 DEF SpaceInv, SpacesKept
  <2>2. \A t \in Spaces : spaces[t].active => spaces[t].name # row.name
    BY <1>2, <1>3 DEF ActiveNames
  <2>3. crossed \cap {"save", "rename"} = {} =>
           \A t, u \in Spaces :
              t # u /\ spaces'[t].active /\ spaces'[u].active => spaces'[t].name # spaces'[u].name
    BY <1>4, <2>2 DEF SpaceInv, SpacesKept
  <2> QED
    BY <1>3, <2>1, <2>3 DEF SpacesKept
<1> QED
  BY <1>3, <1>4, <1>5, <1>6 DEF SpaceInv, SpaceTypes

\* The pages and what they fetch
LEMMA SpacesFetched ==
  ASSUME SpaceInv, UNCHANGED <<spaceServer, spaceCalls>>, SpaceFormSound',
         spacePage' \in SpaceKeys, spaceDebt' \in Nat, spaceDebt' <= spacesVer,
         spaceCache' \in [SpaceKeys -> Queries(SpaceData)],
         Follows(spaceCache'[spacePage'], spaceDebt'),
         SpaceListSound(spaceCache'["admin"].seen), SpaceListSound(spaceCache'["admin"].copy)
  PROVE  SpaceInv'
<1>1. SpaceTypes'
  BY SpacesLeft DEF SpaceInv, SpaceTypes, spaceServer
<1>2. SpaceQueriesSound'
  BY SpacesLeft DEF SpaceQueriesSound
<1> QED
  BY <1>1, <1>2, SpacesLeft DEF SpaceInv, SpaceTypes

LEMMA VisitInv ==
  ASSUME SpaceInv, NEW p \in SpaceKeys, Visit(p) PROVE SpaceInv'
<1>1. PICK q : q = OnMount(EmptyQuery, FALSE)
  OBVIOUS
<1>2. /\ EmptyQuery \in Queries(SpaceData) /\ Follows(EmptyQuery, 0)
      /\ EmptyQuery.seen = NoData /\ EmptyQuery.copy = NoData
  BY EmptyFollows DEF EmptyQuery
<1>3. q \in Queries(SpaceData) /\ Follows(q, 0)
  BY <1>1, <1>2, QueryKept
<1>4. q.seen = NoData /\ q.copy = NoData
  BY <1>1, <1>2, QueryHolds
<1>5. spaceCache' = [k \in SpaceKeys |-> IF k = p THEN q ELSE EmptyQuery]
  BY <1>1 DEF Visit
<1>6. spaceCache' \in [SpaceKeys -> Queries(SpaceData)] /\ "admin" \in SpaceKeys
  BY <1>2, <1>3, <1>5 DEF SpaceKeys
<1>7. Follows(spaceCache'[p], 0)
  BY <1>3, <1>5
<1>8. spaceCache'["admin"].seen = NoData /\ spaceCache'["admin"].copy = NoData
  BY <1>2, <1>4, <1>5, <1>6
<1>9. SpaceListSound(spaceCache'["admin"].seen) /\ SpaceListSound(spaceCache'["admin"].copy)
  BY <1>8 DEF SpaceListSound
<1>10. /\ spacePage' = p /\ spaceForm' = NoSpaceForm /\ spaceDebt' = 0 /\ UNCHANGED spaceServer
       /\ spaceCalls' = {[c EXCEPT !.live = FALSE] : c \in spaceCalls}
  BY DEF Visit
<1>11. spacesVer' = spacesVer /\ spacesVer \in Nat
  BY <1>10 DEF spaceServer, SpaceInv, SpaceTypes
<1>12. SpaceTypes'
  <2>1. spaceCalls' \subseteq SpaceRequests
    BY <1>10, SpaceCallsOrphaned
  <2>2. spaceDebt' <= spacesVer'
    BY <1>10, <1>11
  <2> QED
    BY <1>6, <1>10, <2>1, <2>2, SpacesLeft DEF SpaceInv, SpaceTypes
<1>13. SpaceQueriesSound'
  BY <1>7, <1>9, <1>10, SpacesLeft DEF SpaceQueriesSound
<1>14. \A c \in spaceCalls' : SpaceCallSound(c)'
  BY <1>10, SpaceCallsOrphaned, SpacesLeft
<1>15. SpaceFormSound'
  BY <1>10, SpaceFormLeft
<1> QED
  BY <1>10, <1>12, <1>13, <1>14, <1>15, SpacesLeft DEF SpaceInv

\* A call that is answered, or whose answer is lost, is dropped.
LEMMA SpaceAnsweredInv ==
  ASSUME SpaceInv, NEW c \in spaceCalls, SpaceAnswered(c) PROVE SpaceInv'
<1>1. /\ spacePage \in SpaceKeys /\ "admin" \in SpaceKeys
      /\ spaceCache \in [SpaceKeys -> Queries(SpaceData)]
      /\ spaceDebt \in Nat /\ spaceDebt <= spacesVer /\ spacesVer \in Nat
  BY DEF SpaceInv, SpaceTypes, SpaceKeys
<1>2. spaceCache' = [k \in SpaceKeys |-> Invalidated(spaceCache[k], k = spacePage)]
  BY DEF SpaceAnswered, InvalidatedKeys, SpaceQuery
<1>3. ASSUME NEW k \in SpaceKeys
      PROVE  /\ spaceCache'[k] \in Queries(SpaceData) /\ spaceCache'[k].seen = spaceCache[k].seen
             /\ spaceCache'[k].copy \in {spaceCache[k].copy, NoData}
  <2>1. PICK b \in BOOLEAN : b = (k = spacePage)
    OBVIOUS
  <2>2. PICK q \in Queries(SpaceData) : q = spaceCache[k]
    BY <1>1
  <2>3. PICK i : i = Invalidated(q, b)
    OBVIOUS
  <2>4. \A p \in {StartFetch(q, b), OnMount(q, b), i, FetchFailed(q)} :
           p \in Queries(SpaceData) /\ p.seen = q.seen /\ p.copy \in {q.copy, NoData}
    BY <2>3, QueryHolds
  <2>5. i \in Queries(SpaceData) /\ i.seen = q.seen /\ i.copy \in {q.copy, NoData}
    BY <2>4
  <2> QED
    BY <1>2, <2>1, <2>2, <2>3, <2>5
<1>4. spaceCache' \in [SpaceKeys -> Queries(SpaceData)]
  BY <1>2, <1>3
<1>5. /\ SpaceListSound(spaceCache'["admin"].seen)
      /\ SpaceListSound(spaceCache'["admin"].copy)
  BY <1>1, <1>3 DEF SpaceInv, SpaceQueriesSound, SpaceListSound
<1>6. PICK q \in Queries(SpaceData) : q = spaceCache[spacePage]
  BY <1>1
<1>7. spaceCache'[spacePage] = Invalidated(q, TRUE) /\ Follows(q, spaceDebt)
  BY <1>1, <1>2, <1>6 DEF SpaceInv, SpaceQueriesSound
<1>8. spaceDebt' = IF q.seen # NoData THEN spacesVer ELSE spaceDebt
  BY <1>6 DEF SpaceAnswered, SpaceQuery
<1>9. spaceDebt' \in Nat /\ spaceDebt' <= spacesVer
  BY <1>1, <1>8
<1>10. Follows(spaceCache'[spacePage], spaceDebt')
  <2>1. CASE q.seen # NoData
    BY <1>7, <2>1, InvalidatedFollows
  <2>2. CASE q.seen = NoData
    <3>1. Follows(Invalidated(q, TRUE), spaceDebt)
      BY <1>1, <1>7, QueryKept
    <3> QED
      BY <1>7, <1>8, <2>2, <3>1
  <2> QED
    BY <2>1, <2>2
<1>11. /\ UNCHANGED <<spacePage, spaceServer>> /\ spaceCalls' \subseteq spaceCalls
       /\ spaceForm' \in {spaceForm, NoSpaceForm}
  BY DEF SpaceAnswered
<1>12. SpaceTypes'
  BY <1>4, <1>9, <1>11, SpacesLeft DEF SpaceInv, SpaceTypes
<1>13. SpaceQueriesSound'
  BY <1>5, <1>10, <1>11, SpacesLeft DEF SpaceQueriesSound
<1>14. SpaceFormSound'
  BY <1>11, SpaceFormLeft
<1>15. \A d \in spaceCalls' : SpaceCallSound(d)'
  BY <1>11, SpacesLeft DEF SpaceInv
<1> QED
  BY <1>11, <1>12, <1>13, <1>14, <1>15, SpacesLeft DEF SpaceInv

LEMMA SpaceAnswerLostInv ==
  ASSUME SpaceInv, NEW c \in spaceCalls, SpaceAnswerLost(c) PROVE SpaceInv'
<1>1. /\ UNCHANGED <<spaceServer, spacePage, spaceForm, spaceCache, spaceDebt>>
      /\ spaceCalls' \subseteq spaceCalls
  BY DEF SpaceAnswerLost, Refused
<1>2. SpaceFormSound'
  BY <1>1, SpaceFormLeft
<1>3. \A d \in spaceCalls' : d \in SpaceRequests /\ SpaceCallSound(d)
  BY <1>1 DEF SpaceInv, SpaceTypes
<1> QED
  BY <1>1, <1>2, <1>3, SpacesSent

\* What the server reads of the rows is sound, and as new as any write.
LEMMA SpacesNowSound ==
  ASSUME SpaceInv, NEW k \in SpaceKeys
  PROVE  /\ SpacesNow(k) \in SpaceData /\ SpacesNow(k).ver = spacesVer
         /\ k = "admin" => SpaceListSound(SpacesNow(k))
<1>1. spaces \in SpaceTables /\ spacesVer \in Nat
  BY DEF SpaceInv, SpaceTypes
<1>2. CASE k = "admin"
  <2>1. PICK d : d = [status |-> "rows", ver |-> spacesVer, rows |-> spaces]
    OBVIOUS
  <2>2. d \in SpaceLists /\ d.ver = spacesVer /\ d.rows = spaces
    BY <1>1, <2>1 DEF SpaceLists
  <2>3. \A s \in Spaces : WasSpace(s, d.rows[s], d.ver)
    BY <1>1, <2>2 DEF WasSpace
  <2> QED
    BY <1>2, <2>1, <2>2, <2>3, SpaceDataFacts DEF SpacesNow, SpaceListSound
<1>3. CASE k # "admin"
  BY <1>1, <1>3 DEF SpacesNow, SpaceData
<1> QED
  BY <1>2, <1>3

LEMMA FetchSpacesInv ==
  ASSUME SpaceInv, NEW k \in SpaceKeys, FetchSpaces(k) PROVE SpaceInv'
<1>1. /\ spacePage \in SpaceKeys /\ "admin" \in SpaceKeys
      /\ spaceCache \in [SpaceKeys -> Queries(SpaceData)]
      /\ spaceDebt \in Nat /\ spaceDebt <= spacesVer /\ spacesVer \in Nat
  BY DEF SpaceInv, SpaceTypes, SpaceKeys
<1>2. PICK q \in Queries(SpaceData) : q = spaceCache[k]
  BY <1>1
<1>3. PICK d \in SpaceData : d = SpacesNow(k)
  BY SpacesNowSound
<1>4. d.ver = spacesVer /\ (k = "admin" => SpaceListSound(d))
  BY <1>3, SpacesNowSound
<1>5. PICK n : /\ spaceCache' = [spaceCache EXCEPT ![k] = n]
               /\ \/ n = ReadByServer(q, d)
                  \/ q.fetch = "read" /\ n = Arrived(q)
                  \/ n = FetchFailed(q)
  BY <1>2, <1>3 DEF FetchSpaces
<1>6. /\ n \in Queries(SpaceData) /\ n.seen \in {q.seen, q.copy}
      /\ n.copy \in {q.copy, d, NoData}
  <2>1. /\ ReadByServer(q, d) \in Queries(SpaceData) /\ ReadByServer(q, d).seen = q.seen
        /\ ReadByServer(q, d).copy = d
    BY QueryHolds
  <2>2. q.fetch = "read" => Arrived(q) \in Queries(SpaceData) /\ Arrived(q).seen = q.copy
                            /\ Arrived(q).copy = NoData
    BY QueryHolds
  <2>3. /\ FetchFailed(q) \in Queries(SpaceData) /\ FetchFailed(q).seen = q.seen
        /\ FetchFailed(q).copy \in {q.copy, NoData}
    BY QueryHolds
  <2> QED
    BY <1>5, <2>1, <2>2, <2>3
<1>7. Follows(q, spaceDebt) => Follows(n, spaceDebt)
  <2>1. Follows(ReadByServer(q, d), spaceDebt)
    BY <1>1, <1>4, SpaceDataFacts, ReadFollows
  <2>2. ASSUME Follows(q, spaceDebt)
        PROVE  Follows(FetchFailed(q), spaceDebt) /\ (q.fetch = "read" => Follows(Arrived(q), spaceDebt))
    BY <1>1, <2>2, QueryKept
  <2> QED
    BY <1>5, <2>1, <2>2
<1>8. /\ spaceCache' \in [SpaceKeys -> Queries(SpaceData)]
      /\ spaceCache'[k] = n /\ \A j \in SpaceKeys \ {k} : spaceCache'[j] = spaceCache[j]
  BY <1>1, <1>5, <1>6
<1>9. /\ UNCHANGED <<spacePage, spaceDebt, spaceServer, spaceCalls, spaceForm>>
      /\ Follows(spaceCache[spacePage], spaceDebt)
      /\ SpaceListSound(spaceCache["admin"].seen) /\ SpaceListSound(spaceCache["admin"].copy)
  BY DEF FetchSpaces, SpaceInv, SpaceQueriesSound
<1>10. Follows(spaceCache'[spacePage'], spaceDebt')
  BY <1>1, <1>2, <1>7, <1>8, <1>9
<1>11. SpaceListSound(spaceCache'["admin"].seen) /\ SpaceListSound(spaceCache'["admin"].copy)
  <2>1. CASE k = "admin"
    <3>1. /\ SpaceListSound(q.seen) /\ SpaceListSound(q.copy) /\ SpaceListSound(d) /\ SpaceListSound(NoData)
      BY <1>2, <1>4, <1>9, <2>1 DEF SpaceListSound
    <3> QED
      BY <1>6, <1>8, <2>1, <3>1
  <2>2. CASE k # "admin"
    BY <1>1, <1>8, <1>9, <2>2
  <2> QED
    BY <2>1, <2>2
<1>12. SpaceFormSound'
  BY <1>9, SpaceFormLeft
<1>13. UNCHANGED <<spaceServer, spaceCalls>> /\ spacePage' \in SpaceKeys
       /\ spaceDebt' \in Nat /\ spaceDebt' <= spacesVer
  BY <1>1, <1>9
<1> QED
  BY <1>8, <1>10, <1>11, <1>12, <1>13, SpacesFetched

LEMMA SpaceStep == SpaceInv /\ [WorkspacePagesNext]_spaceVars => SpaceInv'
<1> SUFFICES ASSUME SpaceInv, [WorkspacePagesNext]_spaceVars PROVE SpaceInv'
  OBVIOUS
<1>1. ASSUME UNCHANGED spaceVars PROVE SpaceInv'
  <2>1. SpaceFormSound'
    BY <1>1, SpaceFormLeft DEF spaceVars
  <2> QED
    BY <1>1, <2>1, SpacesSent DEF spaceVars, SpaceInv, SpaceTypes
<1>2. ASSUME NEW c \in spaceCalls,
             FindSpace(c) \/ SelectSpace(c) \/ SpaceAnswered(c) \/ SpaceAnswerLost(c) \/ \E s \in Spaces : SaveSpace(c, s)
      PROVE  SpaceInv'
  BY <1>2, FindSpaceInv, SelectSpaceInv, SpaceAnsweredInv, SpaceAnswerLostInv, SaveSpaceInv
<1>3. CASE \E s \in Spaces : OpenEdit(s) \/ Toggle(s)
  BY <1>3, SpaceFormInv, SpaceSendInv
<1>4. CASE \E n \in SpaceNames :
              \/ SubmitNew(n)
              \/ \E r \in Rates : \E changed \in {"name", "rate", "type"} : SubmitEdit(changed, n, r)
  BY <1>4, SpaceSendInv
<1>5. CASE \E p \in SpaceKeys : Visit(p)
  BY <1>5, VisitInv
<1>6. CASE \E k \in SpaceKeys : FetchSpaces(k)
  BY <1>6, FetchSpacesInv
<1>7. CASE \E s \in Spaces, r \in Rates, a \in BOOLEAN :
              OthersSave(s, [spaces[s] EXCEPT !.rate = r, !.active = a])
  BY <1>7, OthersSaveInv
<1>8. CASE \E s \in Spaces, n \in SpaceNames : OthersCreate(s, n)
  BY <1>8, OthersCreateInv
<1> QED
  BY <1>1, <1>2, <1>3, <1>4, <1>5, <1>6, <1>7, <1>8, SpaceFormInv DEF WorkspacePagesNext

\* What administrators and members see of workspaces, and what their forms make
\* of the rows, is what WorkspacesAgree says, in every tab and at every server.
THEOREM WorkspacesFollow == WorkspacePagesSpec => []WorkspacesAgree
<1>1. WorkspacePagesSpec => []SpaceInv
  BY SpacesInitInv, SpaceStep, PTL DEF WorkspacePagesSpec
<1> QED
  BY <1>1, SpaceInvAgrees, PTL

-----------------------------------------------------------------------------
\* Payments and invoices of the back office

\* What a list says of a payment.
ChargeLabels == {"none", "pending", "success", "failed", "refunded", "PAID", "paid"}
ChargeLists == [status : {"rows"}, ver : Nat, rows : [Charges -> ChargeLabels]]
RefundRequests == [of : Charges, at : {"sent", "found", "asked", "done"}, live : BOOLEAN]
Sheets ==
    [id : InvoiceIds \cup {"none"}, loading : BOOLEAN, error : BOOLEAN,
     shown : InvoiceIds \cup {"none"}, timers : Seq(InvoiceIds), hasty : BOOLEAN]

MoneyTypes ==
    /\ charges \in [Charges -> {"pending", "success", "failed", "refunded"}]
    /\ asked \in [Charges -> Nat] /\ moneyVer \in Nat /\ moneyDebt \in Nat /\ moneyDebt <= moneyVer
    /\ moneyPage \in {"payments", "invoices", "sheet"}
    /\ refundTarget \in Charges \cup {NoCharge} /\ refundCalls \subseteq RefundRequests
    /\ moneyCache \in [MoneyKeys -> Queries(ChargeLists)] /\ sheet \in Sheets

\* A request for a refund that found the payment, and is not over.
Refunding(r) == r.at \in {"found", "asked"}

\* Paystack is asked for payments that were made; unless in doubt one request is
\* at it, the payment was not asked for before, and was asked for when it counts
\* as refunded or one is to mark it.
RefundsSound ==
    /\ \A r \in refundCalls : Refunding(r) => charges[r.of] \in {"success", "refunded"}
    /\ \A r \in refundCalls : r.at = "asked" => asked[r.of] > 0
    /\ \A c \in Charges :
          /\ asked[c] > 0 => charges[c] \in {"success", "refunded"}
          /\ charges[c] = "refunded" => asked[c] > 0
          /\ asked[c] > 1 => c \in doubtful
    /\ \A c \in Charges \ doubtful :
          /\ \A r, s \in refundCalls : r.of = c /\ s.of = c /\ Refunding(r) /\ Refunding(s) => r = s
          /\ \A r \in refundCalls : r.of = c /\ r.at = "found" => asked[c] = 0
          /\ asked[c] > 0 /\ charges[c] = "success" =>
                \E r \in refundCalls : r.of = c /\ r.at = "asked"

MoneyQueriesSound == \A k \in MoneyShown(moneyPage) : Follows(moneyCache[k], moneyDebt)

\* As things are built the lists are read for invoices only, none of them paid.
BuiltList(d) == d # NoData => moneyPage = "invoices" /\ \A c \in Charges : d.rows[c] # "PAID"
BuiltSound ==
    moneyApi = "built" =>
        /\ BuiltList(moneyCache["list"].seen) /\ BuiltList(moneyCache["list"].copy)
        /\ refundTarget = NoCharge /\ sheet.loading /\ sheet.timers = <<>>

\* An address that was given time has the one timer, or ended up with its invoice.
SheetSound ==
    ~sheet.hasty =>
        /\ sheet.timers # <<>> => sheet.timers = <<sheet.id>> /\ ~sheet.error
        /\ sheet.id # "none" /\ sheet.timers = <<>> =>
              ~sheet.loading /\ (sheet.error <=> sheet.id = "404")
              /\ (sheet.id # "404" => sheet.shown = sheet.id)

MoneyInv == MoneyTypes /\ RefundsSound /\ MoneyQueriesSound /\ BuiltSound /\ SheetSound

LEMMA MoneyInvAgrees == MoneyInv => MoneyPagesAgree
<1> SUFFICES ASSUME MoneyInv PROVE MoneyPagesAgree
  OBVIOUS
<1>1. \A c \in Charges : /\ asked[c] > 1 => c \in doubtful
                         /\ charges[c] = "refunded" => asked[c] > 0
  BY DEF MoneyInv, RefundsSound
<1>2. \A k \in MoneyShown(moneyPage) : UpToDate(moneyCache[k], moneyDebt)
  BY DEF MoneyInv, MoneyQueriesSound, Follows
<1>3. ASSUME moneyApi = "built" PROVE refundTarget = NoCharge /\ PaidShown = {} /\ sheet.loading
  <2>1. /\ refundTarget = NoCharge /\ sheet.loading
        /\ moneyCache["list"].seen # NoData => \A c \in Charges : moneyCache["list"].seen.rows[c] # "PAID"
    BY <1>3 DEF MoneyInv, BuiltSound, BuiltList
  <2>2. \A c \in Charges : RowsShown[c] # "PAID"
    BY <2>1 DEF RowsShown, NoCharge
  <2> QED
    BY <2>1, <2>2 DEF PaidShown, InvoicesShown
<1>4. sheet.id # "none" /\ sheet.timers = <<>> /\ ~sheet.hasty =>
         ~sheet.loading /\ (sheet.error <=> sheet.id = "404")
         /\ (sheet.id # "404" => sheet.shown = sheet.id)
  BY DEF MoneyInv, SheetSound
<1> QED
  BY <1>1, <1>2, <1>3, <1>4 DEF MoneyPagesAgree

\* Pages that are opened have nothing to show and fetch.
LEMMA OpenedListsSound ==
  ASSUME NEW page
  PROVE  /\ OpenedLists(page) \in [MoneyKeys -> Queries(ChargeLists)]
         /\ \A k \in MoneyKeys : OpenedLists(page)[k].seen = NoData /\ OpenedLists(page)[k].copy = NoData
         /\ OnMount(EmptyQuery, FALSE) \in Queries(ChargeLists)
         /\ OnMount(EmptyQuery, FALSE).seen = NoData /\ OnMount(EmptyQuery, FALSE).copy = NoData
         /\ \A ver \in Nat : /\ Follows(OnMount(EmptyQuery, FALSE), ver)
                             /\ \A k \in MoneyKeys : Follows(OpenedLists(page)[k], ver)
<1>1. PICK q : q = OnMount(EmptyQuery, FALSE)
  OBVIOUS
<1>2. /\ EmptyQuery \in Queries(ChargeLists) /\ \A ver \in Nat : Follows(EmptyQuery, ver)
      /\ EmptyQuery.seen = NoData /\ EmptyQuery.copy = NoData
  BY EmptyFollows DEF EmptyQuery
<1>3. q \in Queries(ChargeLists) /\ \A ver \in Nat : Follows(q, ver)
  BY <1>1, <1>2, QueryKept
<1>4. q.seen = NoData /\ q.copy = NoData
  BY <1>1, <1>2, QueryHolds
<1>5. OpenedLists(page) = [k \in MoneyKeys |-> IF k \in MoneyShown(page) THEN q ELSE EmptyQuery]
  BY <1>1 DEF OpenedLists
<1> QED
  BY <1>1, <1>2, <1>3, <1>4, <1>5

LEMMA MoneyInitInv == MoneyPagesInit => MoneyInv
<1> SUFFICES ASSUME MoneyPagesInit PROVE MoneyInv
  OBVIOUS
<1>1. /\ charges = [c \in Charges |-> "pending"] /\ asked = [c \in Charges |-> 0]
      /\ moneyVer = 1 /\ moneyDebt = 0 /\ moneyPage = "payments" /\ refundTarget = NoCharge
      /\ refundCalls = {} /\ sheet = NoSheet /\ moneyCache = OpenedLists("payments")
  BY DEF MoneyPagesInit
<1>2. NoSheet \in Sheets
  <2>1. <<>> \in Seq(InvoiceIds)
    OBVIOUS
  <2> QED
    BY <2>1 DEF NoSheet, Sheets
<1>3. MoneyTypes
  <2>1. moneyCache \in [MoneyKeys -> Queries(ChargeLists)]
    BY <1>1, OpenedListsSound
  <2> QED
    BY <1>1, <1>2, <2>1 DEF MoneyTypes
<1>4. RefundsSound
  BY <1>1 DEF RefundsSound
<1>5. MoneyQueriesSound
  BY <1>1, OpenedListsSound DEF MoneyQueriesSound, MoneyShown
<1>6. BuiltSound
  BY <1>1, OpenedListsSound DEF BuiltSound, BuiltList, MoneyKeys, NoSheet
<1>7. SheetSound
  BY <1>1 DEF SheetSound, NoSheet
<1> QED
  BY <1>3, <1>4, <1>5, <1>6, <1>7 DEF MoneyInv

\* Steps of refunds and of the server leave what the tab shows.
LEMMA MoneyServed ==
  ASSUME MoneyInv, UNCHANGED <<moneyApi, moneyPage, moneyCache, moneyDebt, sheet>>,
         refundTarget' \in {refundTarget, NoCharge},
         charges' \in [Charges -> {"pending", "success", "failed", "refunded"}],
         asked' \in [Charges -> Nat], moneyVer' \in {moneyVer, moneyVer + 1},
         refundCalls' \subseteq RefundRequests, RefundsSound'
  PROVE  MoneyInv'
<1>1. MoneyTypes'
  BY DEF MoneyInv, MoneyTypes
<1>2. MoneyQueriesSound'
  BY DEF MoneyInv, MoneyQueriesSound
<1>3. BuiltSound'
  BY DEF MoneyInv, BuiltSound, BuiltList
<1>4. SheetSound'
  BY DEF MoneyInv, SheetSound
<1> QED
  BY <1>1, <1>2, <1>3, <1>4 DEF MoneyInv

\* Nobody waits for a request any more, but it goes on.
LEMMA RefundsOrphaned ==
  ASSUME MoneyInv, UNCHANGED <<charges, asked, doubtful>>,
         refundCalls' \in {refundCalls, {[r EXCEPT !.live = FALSE] : r \in refundCalls}}
  PROVE  RefundsSound' /\ refundCalls' \subseteq RefundRequests
<1>1. RefundsSound /\ refundCalls \subseteq RefundRequests
  BY DEF MoneyInv, MoneyTypes
<1>2. ASSUME refundCalls' = {[r EXCEPT !.live = FALSE] : r \in refundCalls}
      PROVE  RefundsSound' /\ refundCalls' \subseteq RefundRequests
  <2>1. ASSUME NEW d \in refundCalls'
        PROVE  /\ d \in RefundRequests /\ d.live = FALSE
               /\ \E r \in refundCalls : r.of = d.of /\ r.at = d.at
    <3>1. PICK r \in refundCalls : d = [r EXCEPT !.live = FALSE]
      BY <1>2, <2>1
    <3>2. r \in RefundRequests
      BY <1>1
    <3> QED
      BY <3>1, <3>2 DEF RefundRequests
  <2>2. ASSUME NEW d \in refundCalls', NEW e \in refundCalls', d.of = e.of, d.at = e.at PROVE d = e
    <3>1. d \in RefundRequests /\ e \in RefundRequests /\ d.live = e.live
      BY <2>1
    <3> QED
      BY <2>2, <3>1 DEF RefundRequests
  <2>3. ASSUME NEW r \in refundCalls PROVE \E d \in refundCalls' : d.of = r.of /\ d.at = r.at
    <3>1. PICK d : d = [r EXCEPT !.live = FALSE]
      OBVIOUS
    <3>2. r \in RefundRequests /\ d \in refundCalls'
      BY <1>1, <1>2, <3>1
    <3> QED
      BY <3>1, <3>2 DEF RefundRequests
  <2>4. /\ \A r \in refundCalls' : Refunding(r) => charges'[r.of] \in {"success", "refunded"}
        /\ \A r \in refundCalls' : r.at = "asked" => asked'[r.of] > 0
    <3>1. ASSUME NEW d \in refundCalls'
          PROVE  /\ Refunding(d) => charges[d.of] \in {"success", "refunded"}
                 /\ d.at = "asked" => asked[d.of] > 0
      <4>1. PICK r \in refundCalls : r.of = d.of /\ r.at = d.at
        BY <2>1
      <4> QED
        BY <1>1, <4>1 DEF RefundsSound, Refunding
    <3> QED
      BY <3>1
  <2>5. ASSUME NEW c \in Charges \ doubtful
        PROVE  /\ \A r, s \in refundCalls' : r.of = c /\ s.of = c /\ Refunding(r) /\ Refunding(s) => r = s
               /\ \A r \in refundCalls' : r.of = c /\ r.at = "found" => asked[c] = 0
               /\ asked[c] > 0 /\ charges[c] = "success" =>
                     \E r \in refundCalls' : r.of = c /\ r.at = "asked"
    <3>1. ASSUME NEW r \in refundCalls', NEW s \in refundCalls', r.of = c, s.of = c,
                 Refunding(r), Refunding(s)
          PROVE  r = s
      <4>1. PICK p \in refundCalls : p.of = r.of /\ p.at = r.at
        BY <2>1
      <4>2. PICK q \in refundCalls : q.of = s.of /\ q.at = s.at
        BY <2>1
      <4>3. p.of = c /\ q.of = c /\ Refunding(p) /\ Refunding(q)
        BY <3>1, <4>1, <4>2 DEF Refunding
      <4>4. p = q
        BY <1>1, <4>3 DEF RefundsSound
      <4> QED
        BY <2>2, <3>1, <4>1, <4>2, <4>4
    <3>2. ASSUME NEW r \in refundCalls', r.of = c, r.at = "found" PROVE asked[c] = 0
      <4>1. PICK p \in refundCalls : p.of = r.of /\ p.at = r.at
        BY <2>1
      <4> QED
        BY <1>1, <3>2, <4>1 DEF RefundsSound
    <3>3. ASSUME asked[c] > 0, charges[c] = "success"
          PROVE  \E r \in refundCalls' : r.of = c /\ r.at = "asked"
      <4>1. PICK p \in refundCalls : p.of = c /\ p.at = "asked"
        BY <1>1, <3>3 DEF RefundsSound
      <4> QED
        BY <2>3, <4>1
    <3> QED
      BY <3>1, <3>2, <3>3
  <2>6. \A c \in Charges :
          /\ asked[c] > 0 => charges[c] \in {"success", "refunded"}
          /\ charges[c] = "refunded" => asked[c] > 0
          /\ asked[c] > 1 => c \in doubtful
    BY <1>1 DEF RefundsSound
  <2>7. refundCalls' \subseteq RefundRequests
    BY <2>1
  <2> QED
    BY <2>4, <2>5, <2>6, <2>7 DEF RefundsSound
<1>3. ASSUME refundCalls' = refundCalls
      PROVE  RefundsSound' /\ refundCalls' \subseteq RefundRequests
  BY <1>1, <1>3 DEF RefundsSound
<1> QED
  BY <1>2, <1>3

\* Requests are added unless they found something, or dropped unless Paystack
\* answered them.
LEMMA RefundsDropped ==
  ASSUME MoneyInv, UNCHANGED <<charges, asked, doubtful>>, refundCalls' \subseteq RefundRequests,
         \A r \in refundCalls' \ refundCalls : ~Refunding(r),
         \A r \in refundCalls \ refundCalls' : r.at # "asked"
  PROVE  RefundsSound'
<1>1. RefundsSound
  BY DEF MoneyInv
<1>2. \A r \in refundCalls' : Refunding(r) => r \in refundCalls
  OBVIOUS
<1>3. \A r \in refundCalls' : r.at \in {"found", "asked"} => Refunding(r)
  BY DEF Refunding
<1>4. /\ \A r \in refundCalls' : Refunding(r) => charges[r.of] \in {"success", "refunded"}
      /\ \A r \in refundCalls' : r.at = "asked" => asked[r.of] > 0
  BY <1>1, <1>2, <1>3 DEF RefundsSound
<1>5. ASSUME NEW c \in Charges \ doubtful
      PROVE  /\ \A r, s \in refundCalls' : r.of = c /\ s.of = c /\ Refunding(r) /\ Refunding(s) => r = s
             /\ \A r \in refundCalls' : r.of = c /\ r.at = "found" => asked[c] = 0
             /\ asked[c] > 0 /\ charges[c] = "success" =>
                   \E r \in refundCalls' : r.of = c /\ r.at = "asked"
  BY <1>1, <1>2, <1>3 DEF RefundsSound
<1>6. \A c \in Charges :
        /\ asked[c] > 0 => charges[c] \in {"success", "refunded"}
        /\ charges[c] = "refunded" => asked[c] > 0
        /\ asked[c] > 1 => c \in doubtful
  BY <1>1 DEF RefundsSound
<1> QED
  BY <1>4, <1>5, <1>6 DEF RefundsSound

\* Refunds
LEMMA RefundMoved ==
  ASSUME MoneyInv, NEW r \in refundCalls, NEW at \in {"found", "asked", "done"}, RefundAt(r, at)
  PROVE  /\ refundCalls' \subseteq RefundRequests /\ r.of \in Charges
         /\ \E n \in RefundRequests : /\ n.of = r.of /\ n.at = at
                                      /\ refundCalls' = (refundCalls \ {r}) \cup {n}
<1>1. PICK n : n = [r EXCEPT !.at = at]
  OBVIOUS
<1>2. r \in RefundRequests /\ refundCalls \subseteq RefundRequests
  BY DEF MoneyInv, MoneyTypes
<1>3. n \in RefundRequests /\ n.of = r.of /\ n.at = at /\ r.of \in Charges
  BY <1>1, <1>2 DEF RefundRequests
<1> QED
  BY <1>1, <1>2, <1>3 DEF RefundAt

LEMMA FindChargeInv ==
  ASSUME MoneyInv, NEW r \in refundCalls, FindCharge(r) PROVE MoneyInv'
<1>1. /\ RefundsSound /\ r.at = "sent" /\ charges[r.of] = "success"
      /\ UNCHANGED <<moneyApi, charges, asked, moneyVer, moneyPage, refundTarget, moneyCache,
                     moneyDebt, sheet>>
      /\ doubtful' = IF \E s \in refundCalls \ {r} : s.of = r.of /\ Refunding(s)
                     THEN doubtful \cup {r.of} ELSE doubtful
  BY DEF MoneyInv, FindCharge, Refundable, Refunding
<1>2. /\ refundCalls' \subseteq RefundRequests /\ r.of \in Charges
      /\ \E n \in RefundRequests : /\ n.of = r.of /\ n.at = "found"
                                   /\ refundCalls' = (refundCalls \ {r}) \cup {n}
  BY RefundMoved DEF FindCharge
<1>3. PICK n \in RefundRequests : /\ n.of = r.of /\ n.at = "found"
                                  /\ refundCalls' = (refundCalls \ {r}) \cup {n}
  BY <1>2
<1>4. ASSUME NEW s \in refundCalls'
      PROVE  /\ Refunding(s) => charges[s.of] \in {"success", "refunded"}
             /\ s.at = "asked" => asked[s.of] > 0
  BY <1>1, <1>3 DEF RefundsSound
<1>5. ASSUME NEW c \in Charges \ doubtful'
      PROVE  /\ \A s, t \in refundCalls' : s.of = c /\ t.of = c /\ Refunding(s) /\ Refunding(t) => s = t
             /\ \A s \in refundCalls' : s.of = c /\ s.at = "found" => asked[c] = 0
             /\ asked[c] > 0 /\ charges[c] = "success" =>
                   \E s \in refundCalls' : s.of = c /\ s.at = "asked"
  <2>1. /\ c \notin doubtful
        /\ c = r.of => \A s \in refundCalls \ {r} : ~(s.of = c /\ Refunding(s))
    BY <1>1
  <2>2. \A s, t \in refundCalls : s.of = c /\ t.of = c /\ Refunding(s) /\ Refunding(t) => s = t
    BY <1>1, <2>1 DEF RefundsSound
  <2>3. \A s, t \in refundCalls' : s.of = c /\ t.of = c /\ Refunding(s) /\ Refunding(t) => s = t
    BY <1>3, <2>1, <2>2
  <2>4. asked[c] > 0 /\ charges[c] = "success" => \E s \in refundCalls \ {r} : s.of = c /\ s.at = "asked"
    BY <1>1, <2>1 DEF RefundsSound
  <2>5. c = r.of => asked[c] = 0
    <3>1. ASSUME c = r.of PROVE ~(asked[c] > 0)
      BY <1>1, <2>1, <2>4, <3>1 DEF Refunding
    <3>2. asked[c] \in Nat
      BY DEF MoneyInv, MoneyTypes
    <3> QED
      BY <3>1, <3>2
  <2>6. ASSUME NEW s \in refundCalls', s.of = c, s.at = "found" PROVE asked[c] = 0
    BY <1>1, <1>3, <2>1, <2>5, <2>6 DEF RefundsSound
  <2> QED
    BY <1>3, <2>3, <2>4, <2>6
<1>6. \A c \in Charges : asked[c] > 1 => c \in doubtful'
  BY <1>1 DEF RefundsSound
<1>7. RefundsSound'
  BY <1>1, <1>4, <1>5, <1>6 DEF RefundsSound
<1> QED
  BY <1>1, <1>2, <1>7, MoneyServed DEF MoneyInv, MoneyTypes

LEMMA AskPaystackInv ==
  ASSUME MoneyInv, NEW r \in refundCalls, NEW answered \in BOOLEAN, AskPaystack(r, answered)
  PROVE  MoneyInv'
<1>1. /\ RefundsSound /\ r.at = "found" /\ asked' = [asked EXCEPT ![r.of] = @ + 1]
      /\ asked \in [Charges -> Nat] /\ refundCalls \subseteq RefundRequests
      /\ UNCHANGED <<moneyApi, charges, moneyVer, moneyPage, refundTarget, moneyCache,
                     moneyDebt, sheet>>
  BY DEF MoneyInv, MoneyTypes, AskPaystack
<1>2. r.of \in Charges /\ charges[r.of] \in {"success", "refunded"}
  BY <1>1 DEF RefundsSound, Refunding, RefundRequests
<1>3. /\ asked' \in [Charges -> Nat] /\ asked'[r.of] = asked[r.of] + 1 /\ asked[r.of] \in Nat
      /\ \A c \in Charges : c # r.of => asked'[c] = asked[c]
  BY <1>1, <1>2
<1>4. /\ refundCalls' \subseteq RefundRequests
      /\ \A s \in refundCalls' : s \in refundCalls \/ (s.of = r.of /\ s.at = "asked")
      /\ \A s \in refundCalls : s # r => s \in refundCalls'
      /\ r \notin refundCalls'
      /\ \/ doubtful' = doubtful \cup {r.of}
         \/ /\ doubtful' = doubtful
            /\ \E n \in RefundRequests : /\ n.of = r.of /\ n.at = "asked"
                                         /\ refundCalls' = (refundCalls \ {r}) \cup {n}
  <2>1. CASE answered
    <3>1. RefundAt(r, "asked") /\ doubtful' = doubtful
      BY <2>1 DEF AskPaystack
    <3>2. PICK n \in RefundRequests : /\ n.of = r.of /\ n.at = "asked"
                                      /\ refundCalls' = (refundCalls \ {r}) \cup {n}
      BY <3>1, RefundMoved
    <3>3. n # r
      BY <1>1, <3>2
    <3> QED
      BY <1>1, <3>1, <3>2, <3>3
  <2>2. CASE ~answered
    BY <1>1, <2>2 DEF AskPaystack
  <2> QED
    BY <2>1, <2>2
<1>5. \A c \in Charges : asked'[c] >= asked[c]
  BY <1>3, <1>1
<1>6. \A s \in refundCalls' :
        /\ Refunding(s) => charges[s.of] \in {"success", "refunded"}
        /\ s.at = "asked" => asked'[s.of] > 0
  <2>1. ASSUME NEW s \in refundCalls', s \in refundCalls, s.at = "asked" PROVE asked'[s.of] > 0
    <3>1. s.of \in Charges /\ asked[s.of] > 0
      BY <1>1, <2>1 DEF RefundsSound, RefundRequests
    <3>2. asked[s.of] \in Nat /\ asked'[s.of] \in Nat /\ asked'[s.of] >= asked[s.of]
      BY <1>1, <1>3, <1>5, <3>1
    <3> QED
      BY <3>1, <3>2
  <2>2. asked'[r.of] > 0
    BY <1>3
  <2>3. \A s \in refundCalls' : Refunding(s) => charges[s.of] \in {"success", "refunded"}
    BY <1>1, <1>2, <1>4 DEF RefundsSound
  <2> QED
    BY <1>4, <2>1, <2>2, <2>3
<1>7. \A c \in Charges :
        /\ asked'[c] > 0 => charges[c] \in {"success", "refunded"}
        /\ charges[c] = "refunded" => asked'[c] > 0
        /\ asked'[c] > 1 => c \in doubtful'
  <2>1. ASSUME NEW c \in Charges, c # r.of
        PROVE  /\ asked'[c] > 0 => charges[c] \in {"success", "refunded"}
               /\ charges[c] = "refunded" => asked'[c] > 0
               /\ asked'[c] > 1 => c \in doubtful'
    BY <1>1, <1>3, <1>4, <2>1 DEF RefundsSound
  <2>2. r.of \in doubtful' \/ asked[r.of] = 0
    BY <1>1, <1>2, <1>4 DEF RefundsSound
  <2> QED
    BY <1>2, <1>3, <2>1, <2>2
<1>8. ASSUME NEW c \in Charges \ doubtful'
      PROVE  /\ \A s, t \in refundCalls' : s.of = c /\ t.of = c /\ Refunding(s) /\ Refunding(t) => s = t
             /\ \A s \in refundCalls' : s.of = c /\ s.at = "found" => asked'[c] = 0
             /\ asked'[c] > 0 /\ charges[c] = "success" =>
                   \E s \in refundCalls' : s.of = c /\ s.at = "asked"
  <2>1. /\ c \notin doubtful
        /\ \A s, t \in refundCalls : s.of = c /\ t.of = c /\ Refunding(s) /\ Refunding(t) => s = t
        /\ \A s \in refundCalls : s.of = c /\ s.at = "found" => asked[c] = 0
        /\ asked[c] > 0 /\ charges[c] = "success" => \E s \in refundCalls : s.of = c /\ s.at = "asked"
    BY <1>1, <1>4 DEF RefundsSound
  <2>2. CASE c = r.of
    <3>1. PICK n \in RefundRequests : /\ n.of = r.of /\ n.at = "asked"
                                      /\ refundCalls' = (refundCalls \ {r}) \cup {n}
      BY <1>4, <2>2
    <3>2. \A s \in refundCalls : s.of = c /\ Refunding(s) => s = r
      BY <1>1, <2>1, <2>2 DEF Refunding
    <3>3. \A s \in refundCalls' : s.of = c /\ Refunding(s) => s = n
      BY <3>1, <3>2
    <3> QED
      BY <2>2, <3>1, <3>3 DEF Refunding
  <2>3. CASE c # r.of
    <3>1. \A s \in refundCalls' : s.of = c => s \in refundCalls
      BY <1>4, <2>3
    <3>2. \A s \in refundCalls : s.of = c => s \in refundCalls'
      BY <1>4, <2>3
    <3>3. asked'[c] = asked[c]
      BY <1>3, <2>3
    <3> QED
      BY <2>1, <3>1, <3>2, <3>3
  <2> QED
    BY <2>2, <2>3
<1>9. RefundsSound'
  BY <1>1, <1>6, <1>7, <1>8 DEF RefundsSound
<1> QED
  BY <1>1, <1>3, <1>4, <1>9, MoneyServed DEF MoneyInv, MoneyTypes

LEMMA MarkRefundedInv ==
  ASSUME MoneyInv, NEW r \in refundCalls, MarkRefunded(r) PROVE MoneyInv'
<1>1. /\ RefundsSound /\ r.at = "asked" /\ charges' = [charges EXCEPT ![r.of] = "refunded"]
      /\ charges \in [Charges -> {"pending", "success", "failed", "refunded"}]
      /\ asked \in [Charges -> Nat] /\ refundCalls \subseteq RefundRequests
      /\ moneyVer' \in {moneyVer, moneyVer + 1}
      /\ UNCHANGED <<moneyApi, asked, doubtful, moneyPage, refundTarget, moneyCache,
                     moneyDebt, sheet>>
  BY DEF MoneyInv, MoneyTypes, MarkRefunded
<1>2. /\ refundCalls' \subseteq RefundRequests /\ r.of \in Charges
      /\ \E n \in RefundRequests : /\ n.of = r.of /\ n.at = "done"
                                   /\ refundCalls' = (refundCalls \ {r}) \cup {n}
  BY RefundMoved DEF MarkRefunded
<1>3. PICK n \in RefundRequests : /\ n.of = r.of /\ n.at = "done"
                                  /\ refundCalls' = (refundCalls \ {r}) \cup {n}
  BY <1>2
<1>4. /\ charges' \in [Charges -> {"pending", "success", "failed", "refunded"}]
      /\ charges'[r.of] = "refunded" /\ \A c \in Charges : c # r.of => charges'[c] = charges[c]
      /\ asked[r.of] > 0
  BY <1>1, <1>2 DEF RefundsSound
<1>5. \A s \in refundCalls' : Refunding(s) => s \in refundCalls
  BY <1>3 DEF Refunding
<1>6. \A s \in refundCalls' :
        /\ Refunding(s) => charges'[s.of] \in {"success", "refunded"}
        /\ s.at = "asked" => asked[s.of] > 0
  <2>1. ASSUME NEW s \in refundCalls', Refunding(s) PROVE charges'[s.of] \in {"success", "refunded"}
    <3>1. s.of \in Charges /\ charges[s.of] \in {"success", "refunded"}
      BY <1>1, <1>5, <2>1 DEF RefundsSound, RefundRequests
    <3> QED
      BY <1>4, <3>1
  <2>2. \A s \in refundCalls' : s.at = "asked" => asked[s.of] > 0
    BY <1>1, <1>5 DEF RefundsSound, Refunding
  <2> QED
    BY <2>1, <2>2
<1>7. \A c \in Charges :
        /\ asked[c] > 0 => charges'[c] \in {"success", "refunded"}
        /\ charges'[c] = "refunded" => asked[c] > 0
        /\ asked[c] > 1 => c \in doubtful
  BY <1>1, <1>4 DEF RefundsSound
<1>8. ASSUME NEW c \in Charges \ doubtful
      PROVE  /\ \A s, t \in refundCalls' : s.of = c /\ t.of = c /\ Refunding(s) /\ Refunding(t) => s = t
             /\ \A s \in refundCalls' : s.of = c /\ s.at = "found" => asked[c] = 0
             /\ asked[c] > 0 /\ charges'[c] = "success" =>
                   \E s \in refundCalls' : s.of = c /\ s.at = "asked"
  <2>1. /\ \A s, t \in refundCalls : s.of = c /\ t.of = c /\ Refunding(s) /\ Refunding(t) => s = t
        /\ \A s \in refundCalls : s.of = c /\ s.at = "found" => asked[c] = 0
        /\ asked[c] > 0 /\ charges[c] = "success" => \E s \in refundCalls : s.of = c /\ s.at = "asked"
    BY <1>1 DEF RefundsSound
  <2>2. ASSUME asked[c] > 0, charges'[c] = "success"
        PROVE  \E s \in refundCalls' : s.of = c /\ s.at = "asked"
    <3>1. c # r.of /\ charges[c] = "success"
      BY <1>4, <2>2
    <3> QED
      BY <1>3, <2>1, <2>2, <3>1
  <2> QED
    BY <1>5, <2>1, <2>2 DEF Refunding
<1>9. RefundsSound'
  BY <1>1, <1>6, <1>7, <1>8 DEF RefundsSound
<1> QED
  BY <1>1, <1>2, <1>4, <1>9, MoneyServed DEF MoneyInv, MoneyTypes

\* Requests that are sent or dropped.
LEMMA RefundCallsInv ==
  ASSUME MoneyInv, ConfirmRefund \/ \E r \in refundCalls : RefundFailed(r) PROVE MoneyInv'
<1>1. /\ refundCalls \subseteq RefundRequests /\ refundTarget \in Charges \cup {NoCharge}
      /\ UNCHANGED <<moneyPage, refundTarget, moneyCache, moneyDebt, sheet, moneyServer>>
  BY DEF MoneyInv, MoneyTypes, ConfirmRefund, RefundFailed
<1>2. refundCalls' \subseteq RefundRequests /\ RefundsSound'
  <2>1. CASE ConfirmRefund
    <3>1. PICK n : n = [of |-> refundTarget, at |-> "sent", live |-> TRUE]
      OBVIOUS
    <3>2. n \in RefundRequests /\ ~Refunding(n) /\ refundCalls' = refundCalls \cup {n}
      BY <1>1, <2>1, <3>1 DEF ConfirmRefund, RefundRequests, Refunding
    <3> QED
      BY <1>1, <3>2, RefundsDropped DEF moneyServer
  <2>2. CASE \E r \in refundCalls : RefundFailed(r)
    <3>1. PICK r \in refundCalls : refundCalls' = refundCalls \ {r} /\ r.at # "asked"
      BY <2>2 DEF RefundFailed
    <3> QED
      BY <1>1, <3>1, RefundsDropped DEF moneyServer
  <2> QED
    BY <2>1, <2>2
<1> QED
  BY <1>1, <1>2, MoneyServed DEF MoneyInv, MoneyTypes, moneyServer

LEMMA SettleInv ==
  ASSUME MoneyInv, NEW c \in Charges, NEW status \in {"success", "failed"}, Settle(c, status)
  PROVE  MoneyInv'
<1>1. /\ RefundsSound /\ charges[c] = "pending" /\ charges' = [charges EXCEPT ![c] = status]
      /\ charges \in [Charges -> {"pending", "success", "failed", "refunded"}]
      /\ asked \in [Charges -> Nat] /\ refundCalls \subseteq RefundRequests
      /\ moneyVer' = moneyVer + 1
      /\ UNCHANGED <<moneyApi, asked, doubtful, moneyPage, refundTarget, refundCalls, moneyCache,
                     moneyDebt, sheet>>
  BY DEF MoneyInv, MoneyTypes, Settle
<1>2. /\ charges' \in [Charges -> {"pending", "success", "failed", "refunded"}]
      /\ charges'[c] = status /\ \A d \in Charges : d # c => charges'[d] = charges[d]
      /\ asked[c] = 0
  <2>1. ~(asked[c] > 0) /\ asked[c] \in Nat
    BY <1>1 DEF RefundsSound
  <2> QED
    BY <1>1, <2>1
<1>3. \A r \in refundCalls : r.of \in Charges /\ (Refunding(r) => r.of # c)
  BY <1>1 DEF RefundsSound, RefundRequests
<1>4. \A r \in refundCalls : Refunding(r) => charges'[r.of] \in {"success", "refunded"}
  BY <1>1, <1>2, <1>3 DEF RefundsSound
<1>5. \A d \in Charges :
        /\ asked[d] > 0 => charges'[d] \in {"success", "refunded"}
        /\ charges'[d] = "refunded" => asked[d] > 0
        /\ asked[d] > 1 => d \in doubtful
  BY <1>1, <1>2 DEF RefundsSound
<1>6. \A d \in Charges : asked[d] > 0 /\ charges'[d] = "success" => charges[d] = "success"
  BY <1>2
<1>7. RefundsSound'
  BY <1>1, <1>4, <1>5, <1>6 DEF RefundsSound
<1> QED
  BY <1>1, <1>2, <1>7, MoneyServed DEF MoneyInv, MoneyTypes

\* Steps that change nothing of the server or of what is shown, but the modal.
LEMMA MoneyIdle ==
  ASSUME MoneyInv,
         UNCHANGED <<moneyApi, charges, asked, moneyVer, doubtful, moneyPage, refundCalls, moneyCache,
                     moneyDebt, sheet>>,
         refundTarget' \in {refundTarget, NoCharge}
  PROVE  MoneyInv'
<1>1. RefundsSound'
  BY DEF MoneyInv, RefundsSound
<1> QED
  BY <1>1, MoneyServed DEF MoneyInv, MoneyTypes

LEMMA PickRefundInv ==
  ASSUME MoneyInv, NEW c \in Charges, PickRefund(c) PROVE MoneyInv'
<1>1. /\ moneyPage = "payments" /\ RowsShown[c] = "success" /\ refundTarget' = c
      /\ UNCHANGED <<moneyPage, refundCalls, moneyCache, moneyDebt, sheet, moneyServer>>
  BY DEF PickRefund
<1>2. moneyApi # "built"
  <2>1. moneyApi = "built" => moneyCache["list"].seen = NoData
    BY <1>1 DEF MoneyInv, BuiltSound, BuiltList
  <2>2. moneyCache["list"].seen = NoData => RowsShown[c] = "none"
    BY DEF RowsShown, NoCharge
  <2> QED
    BY <1>1, <2>1, <2>2
<1>3. MoneyTypes'
  BY <1>1 DEF MoneyInv, MoneyTypes, moneyServer
<1>4. RefundsSound'
  BY <1>1 DEF MoneyInv, RefundsSound, moneyServer
<1>5. MoneyQueriesSound' /\ SheetSound' /\ BuiltSound'
  BY <1>1, <1>2 DEF MoneyInv, MoneyQueriesSound, SheetSound, BuiltSound, moneyServer
<1> QED
  BY <1>3, <1>4, <1>5 DEF MoneyInv

\* The pages and what they fetch
LEMMA ShowMoneyInv ==
  ASSUME MoneyInv, NEW page \in {"payments", "invoices", "sheet"}, NEW tab, ShowMoney(page, tab)
  PROVE  MoneyInv'
<1>1. /\ moneyPage' = page /\ refundTarget' = NoCharge /\ sheet' = NoSheet
      /\ UNCHANGED <<moneyDebt, moneyServer>>
      /\ refundCalls' \in {refundCalls, {[r EXCEPT !.live = FALSE] : r \in refundCalls}}
      /\ moneyDebt \in Nat /\ moneyCache \in [MoneyKeys -> Queries(ChargeLists)]
  BY DEF MoneyInv, MoneyTypes, ShowMoney
<1>2. RefundsSound' /\ refundCalls' \subseteq RefundRequests
  BY <1>1, RefundsOrphaned DEF moneyServer
<1>3. PICK q \in Queries(ChargeLists) :
         /\ q = OnMount(EmptyQuery, FALSE) /\ q.seen = NoData /\ q.copy = NoData
         /\ Follows(q, moneyDebt)
  BY <1>1, OpenedListsSound
<1>4. /\ moneyCache' \in [MoneyKeys -> Queries(ChargeLists)]
      /\ moneyCache'["list"].seen = NoData /\ moneyCache'["list"].copy = NoData
      /\ \A k \in MoneyShown(page) : k \in MoneyKeys => Follows(moneyCache'[k], moneyDebt)
  <2>1. CASE page # moneyPage
    <3>1. moneyCache' = OpenedLists(page)
      BY <2>1 DEF ShowMoney
    <3> QED
      BY <1>1, <3>1, OpenedListsSound DEF MoneyKeys
  <2>2. CASE page = moneyPage
    <3>1. moneyCache' = [moneyCache EXCEPT !["list"] = q]
      BY <1>3, <2>2 DEF ShowMoney
    <3>2. \A k \in MoneyShown(page) : Follows(moneyCache[k], moneyDebt)
      BY <2>2 DEF MoneyInv, MoneyQueriesSound
    <3>3. /\ "list" \in MoneyKeys /\ moneyCache'["list"] = q
          /\ \A k \in MoneyKeys : k # "list" => moneyCache'[k] = moneyCache[k]
          /\ moneyCache' \in [MoneyKeys -> Queries(ChargeLists)]
      BY <1>1, <3>1 DEF MoneyKeys
    <3> QED
      BY <1>3, <3>2, <3>3
  <2> QED
    BY <2>1, <2>2
<1>5. MoneyShown(page) \subseteq MoneyKeys
  BY DEF MoneyShown, MoneyKeys
<1>6. NoSheet \in Sheets
  <2>1. <<>> \in Seq(InvoiceIds)
    OBVIOUS
  <2> QED
    BY <2>1 DEF NoSheet, Sheets
<1>7. MoneyTypes'
  BY <1>1, <1>2, <1>4, <1>6 DEF MoneyInv, MoneyTypes, moneyServer
<1>8. MoneyQueriesSound'
  BY <1>1, <1>4, <1>5 DEF MoneyQueriesSound
<1>9. BuiltSound'
  BY <1>1, <1>4 DEF BuiltSound, BuiltList, NoSheet
<1>10. SheetSound'
  BY <1>1 DEF SheetSound, NoSheet
<1> QED
  BY <1>2, <1>7, <1>8, <1>9, <1>10 DEF MoneyInv

\* Queries that change, and what they may show then.
LEMMA MoneyFetched ==
  ASSUME MoneyInv, UNCHANGED <<moneyPage, sheet, moneyServer>>,
         refundTarget' \in {refundTarget, NoCharge}, refundCalls' \subseteq refundCalls,
         \A r \in refundCalls \ refundCalls' : r.at # "asked",
         moneyDebt' \in {moneyDebt, moneyVer},
         moneyCache' \in [MoneyKeys -> Queries(ChargeLists)], MoneyQueriesSound',
         moneyApi = "built" => /\ BuiltList(moneyCache'["list"].seen)
                               /\ BuiltList(moneyCache'["list"].copy)
  PROVE  MoneyInv'
<1>1. moneyVer \in Nat /\ moneyDebt' \in Nat /\ moneyDebt' <= moneyVer
  BY DEF MoneyInv, MoneyTypes
<1>2. MoneyTypes'
  BY <1>1 DEF MoneyInv, MoneyTypes, moneyServer
<1>3. RefundsSound'
  BY RefundsDropped DEF moneyServer, MoneyInv, MoneyTypes
<1>4. BuiltSound'
  BY DEF MoneyInv, BuiltSound, BuiltList, moneyServer
<1>5. SheetSound'
  BY DEF MoneyInv, SheetSound
<1> QED
  BY <1>2, <1>3, <1>4, <1>5 DEF MoneyInv

\* What the server reads.
LEMMA MoneyReadSound ==
  ASSUME MoneyInv, NEW k \in MoneyKeys, Accepted(k)
  PROVE  \E d \in ChargeLists : /\ d = [status |-> "rows", ver |-> moneyVer, rows |-> MoneyRows(k)]
                                /\ d.ver = moneyVer
                                /\ moneyApi = "built" /\ k = "list" => BuiltList(d)
<1>1. /\ charges \in [Charges -> {"pending", "success", "failed", "refunded"}] /\ moneyVer \in Nat
      /\ "none" \in ChargeLabels /\ {"pending", "success", "failed", "refunded"} \subseteq ChargeLabels
      /\ PaidLabel \in ChargeLabels /\ NoCharge = "none"
  BY DEF MoneyInv, MoneyTypes, ChargeLabels, PaidLabel, NoCharge
<1>2. PICK labels : labels = MoneyRows(k)
  OBVIOUS
<1>3. /\ labels \in [Charges -> ChargeLabels]
      /\ moneyApi = "built" /\ k = "list" =>
            moneyPage = "invoices" /\ \A c \in Charges : labels[c] # "PAID"
  <2>1. CASE k = "pending"
    BY <1>1, <1>2, <2>1 DEF MoneyRows, PaymentRows, InvoiceRows
  <2>2. CASE k # "pending" /\ moneyPage = "payments"
    <3>1. labels = [c \in Charges |-> IF moneyTab = "all" \/ charges[c] = "success"
                                    THEN charges[c] ELSE NoCharge]
      BY <1>2, <2>2 DEF MoneyRows, PaymentRows, InvoiceRows
    <3>2. moneyApi # "built"
      BY <2>2 DEF Accepted
    <3> QED
      BY <1>1, <3>1, <3>2
  <2>3. CASE k # "pending" /\ moneyPage # "payments"
    <3>1. labels = [c \in Charges |-> IF c \in invoiced THEN PaidLabel ELSE NoCharge]
      BY <1>2, <2>3 DEF MoneyRows, PaymentRows, InvoiceRows
    <3>2. moneyApi = "built" => moneyPage = "invoices" /\ PaidLabel = "paid"
      BY DEF Accepted, PaidLabel
    <3> QED
      BY <1>1, <3>1, <3>2
  <2> QED
    BY <2>1, <2>2, <2>3
<1>4. PICK d : d = [status |-> "rows", ver |-> moneyVer, rows |-> labels]
  OBVIOUS
<1>5. d \in ChargeLists /\ d.ver = moneyVer /\ d.rows = labels
  BY <1>1, <1>3, <1>4 DEF ChargeLists
<1> QED
  BY <1>2, <1>3, <1>4, <1>5 DEF BuiltList

LEMMA FetchMoneyInv ==
  ASSUME MoneyInv, NEW k \in MoneyKeys, FetchMoney(k) PROVE MoneyInv'
<1>1. /\ moneyCache \in [MoneyKeys -> Queries(ChargeLists)] /\ "list" \in MoneyKeys
      /\ moneyDebt \in Nat /\ moneyDebt <= moneyVer /\ moneyVer \in Nat
      /\ MoneyShown(moneyPage) \subseteq MoneyKeys
      /\ UNCHANGED <<moneyPage, refundTarget, refundCalls, moneyDebt, sheet, moneyServer>>
  BY DEF MoneyInv, MoneyTypes, MoneyKeys, MoneyShown, FetchMoney
<1>2. PICK q \in Queries(ChargeLists) : q = moneyCache[k]
  BY <1>1
<1>3. PICK n : /\ moneyCache' = [moneyCache EXCEPT ![k] = n]
               /\ \/ /\ Accepted(k)
                     /\ n = ReadByServer(q, [status |-> "rows", ver |-> moneyVer, rows |-> MoneyRows(k)])
                  \/ q.fetch = "read" /\ n = Arrived(q)
                  \/ n = FetchFailed(q)
  BY <1>2 DEF FetchMoney
<1>4. /\ n \in Queries(ChargeLists)
      /\ Follows(q, moneyDebt) => Follows(n, moneyDebt)
      /\ moneyApi = "built" /\ k = "list" /\ BuiltList(q.seen) /\ BuiltList(q.copy) =>
            BuiltList(n.seen) /\ BuiltList(n.copy)
  <2>1. CASE /\ Accepted(k)
             /\ n = ReadByServer(q, [status |-> "rows", ver |-> moneyVer, rows |-> MoneyRows(k)])
    <3>1. PICK d \in ChargeLists : /\ d = [status |-> "rows", ver |-> moneyVer, rows |-> MoneyRows(k)]
                                   /\ d.ver = moneyVer
                                   /\ moneyApi = "built" /\ k = "list" => BuiltList(d)
      BY <2>1, MoneyReadSound
    <3>2. n = ReadByServer(q, d)
      BY <2>1, <3>1
    <3>3. n \in Queries(ChargeLists) /\ n.seen = q.seen /\ n.copy = d
      BY <3>2, QueryHolds
    <3>4. Follows(n, moneyDebt)
      BY <1>1, <3>1, <3>2, ReadFollows
    <3> QED
      BY <3>1, <3>3, <3>4
  <2>2. CASE q.fetch = "read" /\ n = Arrived(q)
    <3>1. n \in Queries(ChargeLists) /\ n.seen = q.copy /\ n.copy = NoData
      BY <2>2, QueryHolds
    <3>2. Follows(q, moneyDebt) => Follows(n, moneyDebt)
      BY <1>1, <2>2, QueryKept
    <3> QED
      BY <3>1, <3>2 DEF BuiltList
  <2>3. CASE n = FetchFailed(q)
    <3>1. n \in Queries(ChargeLists) /\ n.seen = q.seen /\ n.copy \in {q.copy, NoData}
      BY <2>3, QueryHolds
    <3>2. Follows(q, moneyDebt) => Follows(n, moneyDebt)
      BY <1>1, <2>3, QueryKept
    <3> QED
      BY <3>1, <3>2 DEF BuiltList
  <2> QED
    BY <1>3, <2>1, <2>2, <2>3
<1>5. /\ moneyCache' \in [MoneyKeys -> Queries(ChargeLists)]
      /\ moneyCache'[k] = n /\ \A j \in MoneyKeys \ {k} : moneyCache'[j] = moneyCache[j]
  BY <1>1, <1>3, <1>4
<1>6. MoneyQueriesSound'
  <2>1. \A j \in MoneyShown(moneyPage) : Follows(moneyCache[j], moneyDebt)
    BY DEF MoneyInv, MoneyQueriesSound
  <2>2. \A j \in MoneyShown(moneyPage) : Follows(moneyCache'[j], moneyDebt)
    BY <1>1, <1>2, <1>4, <1>5, <2>1
  <2> QED
    BY <1>1, <2>2 DEF MoneyQueriesSound
<1>7. moneyApi = "built" => BuiltList(moneyCache'["list"].seen) /\ BuiltList(moneyCache'["list"].copy)
  BY <1>1, <1>2, <1>4, <1>5 DEF MoneyInv, BuiltSound
<1> QED
  BY <1>1, <1>5, <1>6, <1>7, MoneyFetched

LEMMA RefocusMoneyInv == ASSUME MoneyInv, RefocusMoney PROVE MoneyInv'
<1>1. /\ moneyCache \in [MoneyKeys -> Queries(ChargeLists)] /\ "list" \in MoneyKeys
      /\ moneyDebt \in Nat /\ MoneyShown(moneyPage) \subseteq MoneyKeys
      /\ moneyCache' = [k \in MoneyKeys |->
            IF k \in MoneyShown(moneyPage) THEN StartFetch(moneyCache[k], FALSE) ELSE moneyCache[k]]
      /\ UNCHANGED <<moneyPage, refundTarget, refundCalls, moneyDebt, sheet, moneyServer>>
  BY DEF MoneyInv, MoneyTypes, MoneyKeys, MoneyShown, RefocusMoney
<1>2. ASSUME NEW k \in MoneyKeys
      PROVE  /\ moneyCache'[k] \in Queries(ChargeLists) /\ moneyCache'[k].seen = moneyCache[k].seen
             /\ moneyCache'[k].copy \in {moneyCache[k].copy, NoData}
             /\ Follows(moneyCache[k], moneyDebt) => Follows(moneyCache'[k], moneyDebt)
  <2>1. PICK q \in Queries(ChargeLists) : q = moneyCache[k]
    BY <1>1
  <2>2. PICK s : s = StartFetch(q, FALSE)
    OBVIOUS
  <2>3. \A p \in {s, OnMount(q, FALSE), Invalidated(q, FALSE), FetchFailed(q)} :
           p \in Queries(ChargeLists) /\ p.seen = q.seen /\ p.copy \in {q.copy, NoData}
    BY <2>2, QueryHolds
  <2>4. s \in Queries(ChargeLists) /\ s.seen = q.seen /\ s.copy \in {q.copy, NoData}
    BY <2>3
  <2>5. Follows(q, moneyDebt) => Follows(s, moneyDebt)
    BY <1>1, <2>2, QueryKept
  <2>6. moneyCache'[k] \in {s, q}
    BY <1>1, <2>1, <2>2
  <2> QED
    BY <2>1, <2>4, <2>5, <2>6
<1>3. moneyCache' \in [MoneyKeys -> Queries(ChargeLists)]
  BY <1>1, <1>2
<1>4. MoneyQueriesSound'
  BY <1>1, <1>2 DEF MoneyInv, MoneyQueriesSound
<1>5. moneyApi = "built" => BuiltList(moneyCache'["list"].seen) /\ BuiltList(moneyCache'["list"].copy)
  BY <1>1, <1>2 DEF MoneyInv, BuiltSound, BuiltList
<1> QED
  BY <1>1, <1>3, <1>4, <1>5, MoneyFetched

LEMMA RefundAnsweredInv ==
  ASSUME MoneyInv, NEW r \in refundCalls, RefundAnswered(r) PROVE MoneyInv'
<1>1. PICK shown : shown = IF moneyPage = "payments" THEN MoneyKeys ELSE {}
  OBVIOUS
<1>2. /\ moneyCache \in [MoneyKeys -> Queries(ChargeLists)] /\ "list" \in MoneyKeys
      /\ moneyDebt \in Nat /\ moneyVer \in Nat
      /\ shown \subseteq MoneyKeys /\ MoneyShown(moneyPage) \subseteq MoneyKeys
      /\ moneyPage = "payments" => MoneyShown(moneyPage) = shown
      /\ r.at = "done" /\ refundCalls' = refundCalls \ {r} /\ refundTarget' \in {refundTarget, NoCharge}
      /\ moneyCache' = [k \in MoneyKeys |->
            IF k \in shown THEN Invalidated(moneyCache[k], TRUE) ELSE moneyCache[k]]
      /\ moneyDebt' = IF shown # {} /\ \A k \in shown : moneyCache[k].seen # NoData
                      THEN moneyVer ELSE moneyDebt
      /\ UNCHANGED <<moneyPage, sheet, moneyServer>>
  BY <1>1 DEF MoneyInv, MoneyTypes, MoneyKeys, MoneyShown, RefundAnswered
<1>3. ASSUME NEW k \in MoneyKeys
      PROVE  /\ moneyCache'[k] \in Queries(ChargeLists) /\ moneyCache'[k].seen = moneyCache[k].seen
             /\ moneyCache'[k].copy \in {moneyCache[k].copy, NoData}
             /\ Follows(moneyCache[k], moneyDebt) => Follows(moneyCache'[k], moneyDebt)
             /\ k \in shown /\ moneyCache[k].seen # NoData => Follows(moneyCache'[k], moneyVer)
  <2>1. PICK q \in Queries(ChargeLists) : q = moneyCache[k]
    BY <1>2
  <2>2. PICK i : i = Invalidated(q, TRUE)
    OBVIOUS
  <2>3. \A p \in {StartFetch(q, TRUE), OnMount(q, TRUE), i, FetchFailed(q)} :
           p \in Queries(ChargeLists) /\ p.seen = q.seen /\ p.copy \in {q.copy, NoData}
    BY <2>2, QueryHolds
  <2>4. i \in Queries(ChargeLists) /\ i.seen = q.seen /\ i.copy \in {q.copy, NoData}
    BY <2>3
  <2>5. Follows(q, moneyDebt) => Follows(i, moneyDebt)
    BY <1>2, <2>2, QueryKept
  <2>6. q.seen # NoData => Follows(i, moneyVer)
    BY <2>2, InvalidatedFollows
  <2>7. moneyCache'[k] = IF k \in shown THEN i ELSE q
    BY <1>2, <2>1, <2>2
  <2> QED
    BY <2>1, <2>4, <2>5, <2>6, <2>7
<1>4. moneyCache' \in [MoneyKeys -> Queries(ChargeLists)]
  BY <1>2, <1>3
<1>5. MoneyQueriesSound'
  <2>1. \A k \in MoneyShown(moneyPage) : Follows(moneyCache[k], moneyDebt)
    BY DEF MoneyInv, MoneyQueriesSound
  <2>2. CASE shown # {} /\ \A k \in shown : moneyCache[k].seen # NoData
    <3>1. MoneyShown(moneyPage) = shown /\ moneyDebt' = moneyVer
      BY <1>1, <1>2, <2>2
    <3> QED
      BY <1>2, <1>3, <2>2, <3>1 DEF MoneyQueriesSound
  <2>3. CASE ~(shown # {} /\ \A k \in shown : moneyCache[k].seen # NoData)
    <3>1. moneyDebt' = moneyDebt
      BY <1>2, <2>3
    <3> QED
      BY <1>2, <1>3, <2>1, <3>1 DEF MoneyQueriesSound
  <2> QED
    BY <2>2, <2>3
<1>6. moneyApi = "built" => BuiltList(moneyCache'["list"].seen) /\ BuiltList(moneyCache'["list"].copy)
  BY <1>2, <1>3 DEF MoneyInv, BuiltSound, BuiltList
<1>7. /\ refundCalls' \subseteq refundCalls /\ \A s \in refundCalls \ refundCalls' : s.at # "asked"
      /\ moneyDebt' \in {moneyDebt, moneyVer}
  BY <1>2
<1> QED
  BY <1>2, <1>4, <1>5, <1>6, <1>7, MoneyFetched

\* The page of one invoice
LEMMA SheetInv ==
  ASSUME MoneyInv, UNCHANGED <<moneyPage, refundTarget, refundCalls, moneyCache, moneyDebt, moneyServer>>,
         sheet' \in Sheets, SheetSound', moneyApi # "built"
  PROVE  MoneyInv'
<1>1. MoneyTypes'
  BY DEF MoneyInv, MoneyTypes, moneyServer
<1>2. RefundsSound'
  BY DEF MoneyInv, RefundsSound, moneyServer
<1>3. MoneyQueriesSound' /\ BuiltSound'
  BY DEF MoneyInv, MoneyQueriesSound, BuiltSound, moneyServer
<1> QED
  BY <1>1, <1>2, <1>3 DEF MoneyInv

LEMMA TimerFacts ==
  ASSUME NEW S, NEW q \in Seq(S), NEW x \in S
  PROVE  /\ Append(q, x) \in Seq(S) /\ Append(q, x) # <<>>
         /\ q = <<>> => Append(q, x) = <<x>>
         /\ q # <<>> => Head(q) \in S /\ Tail(q) \in Seq(S)
         /\ q = <<x>> => Head(q) = x /\ Tail(q) = <<>>
<1>1. Append(q, x) \in Seq(S)
  OBVIOUS
<1>2. Append(q, x) # <<>>
  <2>1. Len(Append(q, x)) = Len(q) + 1 /\ Len(q) \in Nat
    OBVIOUS
  <2> QED
    BY <2>1
<1>3. q = <<>> => Append(q, x) = <<x>>
  OBVIOUS
<1>4. q # <<>> => Head(q) \in S /\ Tail(q) \in Seq(S)
  OBVIOUS
<1>5. q = <<x>> => Head(q) = x /\ Tail(q) = <<>>
  OBVIOUS
<1> QED
  BY <1>1, <1>2, <1>3, <1>4, <1>5

LEMMA FollowInvoiceInv ==
  ASSUME MoneyInv, NEW i \in InvoiceIds, FollowInvoice(i) PROVE MoneyInv'
<1>1. /\ sheet \in Sheets /\ sheet.timers \in Seq(InvoiceIds) /\ moneyApi # "built"
      /\ UNCHANGED <<moneyPage, refundTarget, refundCalls, moneyCache, moneyDebt, moneyServer>>
  BY DEF MoneyInv, MoneyTypes, Sheets, FollowInvoice
<1>2. PICK b \in BOOLEAN : b = (sheet.timers # <<>>)
  OBVIOUS
<1>3. PICK q \in Seq(InvoiceIds) : q = Append(sheet.timers, i)
  BY <1>1, TimerFacts
<1>4. PICK s : s = [sheet EXCEPT !.id = i, !.loading = TRUE, !.error = FALSE,
                                 !.timers = q, !.hasty = b]
  OBVIOUS
<1>5. /\ s \in Sheets /\ s.id = i /\ s.error = FALSE /\ s.timers = q /\ s.hasty = b
  BY <1>1, <1>2, <1>3, <1>4 DEF Sheets
<1>6. sheet' = s
  BY <1>2, <1>3, <1>4 DEF FollowInvoice
<1>7. q # <<>> /\ (~b => q = <<i>>)
  <2>1. Append(sheet.timers, i) # <<>>
    BY <1>1, TimerFacts
  <2>2. sheet.timers = <<>> => Append(sheet.timers, i) = <<i>>
    BY <1>1, TimerFacts
  <2> QED
    BY <1>2, <1>3, <2>1, <2>2
<1>8. SheetSound'
  BY <1>5, <1>6, <1>7 DEF SheetSound
<1> QED
  BY <1>1, <1>5, <1>6, <1>8, SheetInv

LEMMA SheetLoadsInv == ASSUME MoneyInv, SheetLoads PROVE MoneyInv'
<1>1. /\ sheet \in Sheets /\ sheet.timers \in Seq(InvoiceIds) /\ sheet.timers # <<>>
      /\ sheet.error \in BOOLEAN /\ sheet.shown \in InvoiceIds \cup {"none"} /\ sheet.hasty \in BOOLEAN
      /\ UNCHANGED <<moneyPage, refundTarget, refundCalls, moneyCache, moneyDebt, moneyServer>>
  BY DEF MoneyInv, MoneyTypes, Sheets, SheetLoads
<1>2. moneyApi # "built" /\ SheetSound
  BY <1>1 DEF MoneyInv, BuiltSound
<1>3. PICK i \in InvoiceIds : i = Head(sheet.timers)
  BY <1>1
<1>4. PICK q \in Seq(InvoiceIds) : q = Tail(sheet.timers)
  <2>1. Tail(sheet.timers) \in Seq(InvoiceIds)
    BY <1>1, <1>3, TimerFacts
  <2> QED
    BY <2>1
<1>5. PICK b \in BOOLEAN : b = (sheet.error \/ i = "404")
  OBVIOUS
<1>6. PICK x \in InvoiceIds \cup {"none"} : x = IF i = "404" THEN sheet.shown ELSE i
  BY <1>1
<1>7. PICK s : s = [sheet EXCEPT !.loading = FALSE, !.timers = q, !.error = b, !.shown = x]
  OBVIOUS
<1>8. /\ s \in Sheets /\ s.id = sheet.id /\ s.loading = FALSE /\ s.timers = q /\ s.error = b
      /\ s.shown = x /\ s.hasty = sheet.hasty
  BY <1>1, <1>3, <1>4, <1>5, <1>6, <1>7 DEF Sheets
<1>9. sheet' = s
  BY <1>3, <1>4, <1>5, <1>6, <1>7 DEF SheetLoads
<1>10. ~sheet.hasty => sheet.timers = <<sheet.id>> /\ ~sheet.error
  BY <1>1, <1>2 DEF SheetSound
<1>11. ~sheet.hasty => q = <<>> /\ i = sheet.id
  BY <1>3, <1>4, <1>10
<1>12. SheetSound'
  BY <1>5, <1>6, <1>8, <1>9, <1>10, <1>11 DEF SheetSound
<1> QED
  BY <1>1, <1>2, <1>8, <1>9, <1>12, SheetInv

LEMMA MoneyStep == MoneyInv /\ [MoneyPagesNext]_moneyVars => MoneyInv'
<1> SUFFICES ASSUME MoneyInv, [MoneyPagesNext]_moneyVars PROVE MoneyInv'
  OBVIOUS
<1>1. ASSUME UNCHANGED moneyVars PROVE MoneyInv'
  BY <1>1, MoneyIdle DEF moneyVars, moneyServer
<1>2. ASSUME CancelRefund PROVE MoneyInv'
  BY <1>2, MoneyIdle DEF CancelRefund, moneyServer
<1>3. ASSUME NEW c \in Charges, IssueInvoice(c) PROVE MoneyInv'
  BY <1>3, MoneyIdle DEF IssueInvoice
<1>4. ASSUME NEW r \in refundCalls,
             \/ FindCharge(r) \/ MarkRefunded(r) \/ RefundAnswered(r)
             \/ \E answered \in BOOLEAN : AskPaystack(r, answered)
      PROVE  MoneyInv'
  BY <1>4, FindChargeInv, MarkRefundedInv, RefundAnsweredInv, AskPaystackInv
<1>5. CASE \E page \in {"payments", "invoices", "sheet"}, tab \in {"all", "settled"} :
              ShowMoney(page, tab)
  BY <1>5, ShowMoneyInv
<1>6. CASE \E k \in MoneyKeys : FetchMoney(k)
  BY <1>6, FetchMoneyInv
<1>7. CASE RefocusMoney
  BY <1>7, RefocusMoneyInv
<1>8. CASE ConfirmRefund \/ \E r \in refundCalls : RefundFailed(r)
  BY <1>8, RefundCallsInv
<1>9. CASE SheetLoads
  BY <1>9, SheetLoadsInv
<1>10. ASSUME NEW c \in Charges, PickRefund(c) \/ \E s \in {"success", "failed"} : Settle(c, s)
       PROVE  MoneyInv'
  BY <1>10, PickRefundInv, SettleInv
<1>11. CASE \E i \in InvoiceIds : FollowInvoice(i)
  BY <1>11, FollowInvoiceInv
<1> QED
  BY <1>1, <1>2, <1>3, <1>4, <1>5, <1>6, <1>7, <1>8, <1>9, <1>10, <1>11 DEF MoneyPagesNext

\* What administrators and customers see of payments and invoices is what
\* MoneyPagesAgree says: Paystack refunds once unless requests overlapped or an
\* answer of it was lost, and no list that shows as current is older than a
\* refund reported to the tab.
THEOREM MoneyPagesFollow == MoneyPagesSpec => []MoneyPagesAgree
<1>1. MoneyPagesSpec => []MoneyInv
  BY MoneyInitInv, MoneyStep, PTL DEF MoneyPagesSpec
<1> QED
  BY <1>1, MoneyInvAgrees, PTL

-----------------------------------------------------------------------------
\* The figures of the dashboards

\* Rows of payments and of users.
SaleRows == [status : {"none", "success", "refunded"}, at : Nat, stay : Stays]
AccountRows == [here : BOOLEAN, verified : BOOLEAN, active : BOOLEAN, since : Nat]

ReportTables ==
    /\ moment \in Nat /\ filterApplied \in DayFilters
    /\ sale \in [Sales -> SaleRows]
    /\ stay \in [Stays -> {"none", "pending", "confirmed", "cancelled"}]
    /\ registrant \in [Registrants -> AccountRows]
    /\ IsFiniteSet(Paid) /\ \A p \in Paid : sale[p].stay \in Made

\* What a figure says of the rows that nobody has written since it was read is
\* what they are; the figures of two months say it of those written since, too.
RevenueSound(key, s, r) ==
    /\ s \in {"total", "thisMonth", "lastMonth"} =>
          \A p \in Sales \ r.touched : p \in r.rows[s] <=> p \in RevenueRows(s, r, key)
    /\ s = "thisMonth" =>
          \A p \in r.rows[s] : p \in Sales /\ sale[p] # NoSale /\ sale[p].at >= MonthStart(r.asked)
    /\ s = "lastMonth" =>
          \A p \in r.rows[s] : p \in Sales /\ sale[p] # NoSale /\ InLastMonth(sale[p].at, r.asked)

\* The rows of the join that a booking has.
JoinedRows(b) ==
    IF b \notin Made THEN {} ELSE IF PaidFor(b) = {} THEN {<<b, "unpaid">>} ELSE {b} \X PaidFor(b)

RankingSound(s, r) ==
    /\ s = "topWorkspaces" /\ Sales \cap r.touched = {} =>
          \A b \in Stays \ r.touched : {row \in r.rows[s] : row[1] = b} = JoinedRows(b)
    /\ s \in {"topWorkspaces", "topMembers"} =>
          \A p \in Sales \ r.touched : (\E row \in r.rows[s] : row[2] = p) <=> p \in Paid
    /\ s = "byStatus" => \A b \in Made \ r.touched : <<b, stay[b]>> \in r.rows[s]

OccupancySound(s, r) ==
    IF s = "checkIns" THEN openLogs \ r.touched = r.rows[s] \ r.touched
    ELSE \A room \in ReportRooms : <<"room", room>> \notin r.touched =>
            (room \in r.rows[s] <=> room \in activeRooms)

FigureSound(key, s, r) ==
    CASE key.page = "own" -> r.rows[s] \ r.touched = OwnRows(s) \ r.touched
      [] key.page = "cards" -> r.rows[s] \ r.touched = CardRows(s) \ r.touched
      [] key.page = "system" -> r.rows[s] \ r.touched = SystemRows(s, r) \ r.touched
      [] OTHER -> CASE reportSide = "revenue" -> RevenueSound(key, s, r)
                    [] reportSide = "ranking" -> RankingSound(s, r)
                    [] OTHER -> OccupancySound(s, r)

\* A report has the figures that are not to do.
ReportSound(key, r) ==
    /\ r = [made |-> r.made, asked |-> r.asked, todo |-> r.todo, rows |-> r.rows,
            touched |-> r.touched]
    /\ r.asked \in Nat /\ r.todo \subseteq Statements(key)
    /\ r.made =>
          /\ DOMAIN r.rows = Statements(key) \ r.todo
          /\ \A s \in DOMAIN r.rows : FigureSound(key, s, r)

ReportInv ==
    /\ ReportTables
    /\ report = [k \in ReportKeys |-> report[k]] /\ filed = [k \in ReportKeys |-> filed[k]]
    /\ \A k \in ReportKeys :
          /\ ReportSound(k, report[k]) /\ ReportSound(k, filed[k])
          /\ filed[k].made => filed[k].todo = {}
    /\ reportBuild # "typed" => \A f \in DayFilters : ~filed[Analytics(f)].made

\* What a step leaves alone outside the rows of a set; a payment keeps its date.
LeftAlone(T) ==
    /\ \A p \in Sales \ T : sale'[p] = sale[p]
    /\ \A p \in Sales : sale[p] # NoSale => sale'[p] # NoSale /\ sale'[p].at = sale[p].at
    /\ \A b \in Stays \ T : stay'[b] = stay[b]
    /\ openLogs' \ T = openLogs \ T
    /\ \A room \in ReportRooms : <<"room", room>> \notin T => (room \in activeRooms' <=> room \in activeRooms)
    /\ \A a \in Registrants \ T : registrant'[a] = registrant[a]

LEMMA LeftAloneMore ==
  ASSUME NEW T, NEW U, LeftAlone(T), T \subseteq U
  PROVE  LeftAlone(U)
BY DEF LeftAlone

LEMMA NothingWritten ==
  ASSUME UNCHANGED reportTables, NEW T
  PROVE  LeftAlone(T)
BY DEF LeftAlone, reportTables

\* The figures of a report remain sound when rows are written that it knows of.
LEMMA RevenueKept ==
  ASSUME NEW key, NEW s, NEW r, NEW t, LeftAlone(t.touched), r.touched \subseteq t.touched,
         t.rows = r.rows, t.asked = r.asked, RevenueSound(key, s, r)
  PROVE  RevenueSound(key, s, t)'
<1>1. ASSUME s \in {"total", "thisMonth", "lastMonth"}, NEW p \in Sales \ t.touched
      PROVE  p \in t.rows[s] <=> p \in RevenueRows(s, t, key)'
  <2>1. p \in r.rows[s] <=> p \in RevenueRows(s, r, key)
    BY <1>1 DEF RevenueSound
  <2>2. sale'[p] = sale[p]
    BY <1>1 DEF LeftAlone
  <2>3. p \in RevenueRows(s, r, key) <=> p \in RevenueRows(s, t, key)'
    <3>1. CASE s = "total"
      BY <3>1, <2>2, <1>1 DEF RevenueRows, Paid
    <3>2. CASE s = "thisMonth"
      BY <3>2, <2>2, <1>1 DEF RevenueRows, Paid
    <3>3. CASE s = "lastMonth"
      BY <3>3, <2>2, <1>1 DEF RevenueRows, Paid
    <3> QED
      BY <1>1, <3>1, <3>2, <3>3
  <2> QED
    BY <2>1, <2>3
<1>2. ASSUME s = "thisMonth", NEW p \in t.rows[s]
      PROVE  p \in Sales /\ sale'[p] # NoSale /\ sale'[p].at >= MonthStart(t.asked)
  BY <1>2 DEF RevenueSound, LeftAlone
<1>3. ASSUME s = "lastMonth", NEW p \in t.rows[s]
      PROVE  p \in Sales /\ sale'[p] # NoSale /\ InLastMonth(sale'[p].at, t.asked)
  BY <1>3 DEF RevenueSound, LeftAlone
<1> QED
  BY <1>1, <1>2, <1>3 DEF RevenueSound, NoSale

LEMMA RankingKept ==
  ASSUME NEW s, NEW r, NEW t, LeftAlone(t.touched), r.touched \subseteq t.touched,
         t.rows = r.rows, RankingSound(s, r)
  PROVE  RankingSound(s, t)'
<1>1. ASSUME s = "topWorkspaces", Sales \cap t.touched = {}, NEW b \in Stays \ t.touched
      PROVE  {row \in t.rows[s] : row[1] = b} = JoinedRows(b)'
  <2>1. {row \in r.rows[s] : row[1] = b} = JoinedRows(b)
    BY <1>1 DEF RankingSound
  <2>2. \A p \in Sales : sale'[p] = sale[p]
    BY <1>1 DEF LeftAlone
  <2>3. PaidFor(b)' = PaidFor(b)
    BY <2>2 DEF PaidFor, Paid
  <2>4. b \in Made' <=> b \in Made
    BY <1>1 DEF LeftAlone, Made
  <2> QED
    BY <2>1, <2>3, <2>4 DEF JoinedRows
<1>2. ASSUME s \in {"topWorkspaces", "topMembers"}, NEW p \in Sales \ t.touched
      PROVE  (\E row \in t.rows[s] : row[2] = p) <=> p \in Paid'
  <2>1. (\E row \in r.rows[s] : row[2] = p) <=> p \in Paid
    BY <1>2 DEF RankingSound
  <2>2. p \in Paid' <=> p \in Paid
    BY <1>2 DEF LeftAlone, Paid
  <2> QED
    BY <2>1, <2>2
<1>3. ASSUME s = "byStatus", NEW b \in Made' \ t.touched
      PROVE  <<b, stay'[b]>> \in t.rows[s]
  BY <1>3 DEF RankingSound, LeftAlone, Made
<1> QED
  BY <1>1, <1>2, <1>3 DEF RankingSound

LEMMA OccupancyKept ==
  ASSUME NEW s, NEW r, NEW t, LeftAlone(t.touched), r.touched \subseteq t.touched,
         t.rows = r.rows, OccupancySound(s, r)
  PROVE  OccupancySound(s, t)'
<1>1. CASE s = "checkIns"
  BY <1>1 DEF OccupancySound, LeftAlone
<1>2. CASE s # "checkIns"
  BY <1>2 DEF OccupancySound, LeftAlone
<1> QED
  BY <1>1, <1>2

LEMMA OwnKept ==
  ASSUME NEW s, NEW T, LeftAlone(T)
  PROVE  OwnRows(s)' \ T = OwnRows(s) \ T
<1>1. CASE s = "active"
  BY <1>1, ReportsAssumption DEF OwnRows, LeftAlone
<1>2. CASE s # "active"
  <2>1. ASSUME NEW p, p \notin T
        PROVE  p \in OwnRows(s)' <=> p \in OwnRows(s)
    BY <1>2, <2>1 DEF OwnRows, PaidFor, Paid, LeftAlone
  <2> QED
    BY <2>1
<1> QED
  BY <1>1, <1>2

LEMMA CardsKept ==
  ASSUME NEW s, NEW T, LeftAlone(T)
  PROVE  CardRows(s)' \ T = CardRows(s) \ T
<1>1. ASSUME NEW a \in Registrants \ T
      PROVE  a \in CardRows(s)' <=> a \in CardRows(s)
  BY <1>1 DEF CardRows, Members, NoAccount, LeftAlone
<1>2. CardRows(s) \subseteq Registrants /\ CardRows(s)' \subseteq Registrants
  BY DEF CardRows, Members
<1> QED
  BY <1>1, <1>2

LEMMA SystemKept ==
  ASSUME NEW s, NEW T, NEW r, NEW t, t.asked = r.asked, LeftAlone(T)
  PROVE  SystemRows(s, t)' \ T = SystemRows(s, r) \ T
<1>1. ASSUME NEW a \in Registrants \ T
      PROVE  a \in SystemRows(s, t)' <=> a \in SystemRows(s, r)
  BY <1>1 DEF SystemRows, LeftAlone
<1>2. SystemRows(s, r) \subseteq Registrants /\ SystemRows(s, t)' \subseteq Registrants
  BY DEF SystemRows
<1> QED
  BY <1>1, <1>2

LEMMA ReportKept ==
  ASSUME NEW key \in ReportKeys, NEW r, NEW t, ReportSound(key, r),
         LeftAlone(t.touched), r.touched \subseteq t.touched, UNCHANGED reportSide,
         t = [made |-> r.made, asked |-> r.asked, todo |-> r.todo, rows |-> r.rows,
              touched |-> t.touched]
  PROVE  ReportSound(key, t)'
<1>1. /\ t.made = r.made /\ t.asked = r.asked /\ t.todo = r.todo /\ t.rows = r.rows
      /\ t = [made |-> t.made, asked |-> t.asked, todo |-> t.todo, rows |-> t.rows,
              touched |-> t.touched]
  OBVIOUS
<1>2. Statements(key)' = Statements(key)
  BY DEF Statements
<1>3. ASSUME NEW s, FigureSound(key, s, r)
      PROVE  FigureSound(key, s, t)'
  <2>1. CASE key.page = "own"
    BY <2>1, <1>1, <1>3, OwnKept DEF FigureSound
  <2>2. CASE key.page = "cards"
    BY <2>2, <1>1, <1>3, CardsKept DEF FigureSound
  <2>4. CASE key.page = "system"
    <3>1. SystemRows(s, t)' \ t.touched = SystemRows(s, r) \ t.touched
      BY <1>1, SystemKept
    <3> QED
      BY <2>4, <1>1, <1>3, <3>1 DEF FigureSound
  <2>3. CASE key.page \notin {"own", "cards", "system"}
    <3>1. CASE reportSide = "revenue"
      BY <2>3, <3>1, <1>1, <1>3, RevenueKept DEF FigureSound
    <3>2. CASE reportSide = "ranking"
      BY <2>3, <3>2, <1>1, <1>3, RankingKept DEF FigureSound
    <3>3. CASE reportSide \notin {"revenue", "ranking"}
      BY <2>3, <3>3, <1>1, <1>3, OccupancyKept DEF FigureSound
    <3> QED
      BY <3>1, <3>2, <3>3
  <2> QED
    BY <2>1, <2>2, <2>3, <2>4
<1> QED
  BY <1>1, <1>2, <1>3 DEF ReportSound

\* What is read now is sound.
LEMMA RankingRead ==
  ASSUME ReportTables, NEW s, NEW t, t.rows[s] = RankingRows(s)
  PROVE  RankingSound(s, t)
<1>1. ASSUME s = "topWorkspaces", NEW b \in Stays
      PROVE  {row \in t.rows[s] : row[1] = b} = JoinedRows(b)
  <2> DEFINE of(c) == IF PaidFor(c) = {} THEN {<<c, "unpaid">>} ELSE {c} \X PaidFor(c)
  <2>1. t.rows[s] = UNION {of(c) : c \in Made}
    BY <1>1 DEF RankingRows
  <2>2. \A c : \A row \in of(c) : row[1] = c
    OBVIOUS
  <2>3. JoinedRows(b) = IF b \in Made THEN of(b) ELSE {}
    BY DEF JoinedRows
  <2> HIDE DEF of
  <2> QED
    BY <2>1, <2>2, <2>3
<1>2. ASSUME s = "topWorkspaces", NEW p \in Sales
      PROVE  (\E row \in t.rows[s] : row[2] = p) <=> p \in Paid
  <2> DEFINE of(c) == IF PaidFor(c) = {} THEN {<<c, "unpaid">>} ELSE {c} \X PaidFor(c)
  <2>1. t.rows[s] = UNION {of(c) : c \in Made}
    BY <1>2 DEF RankingRows
  <2>2. \A c : \A row \in of(c) : row[2] # "unpaid" => row[2] \in PaidFor(c)
    OBVIOUS
  <2>3. ASSUME NEW c \in Made, p \in PaidFor(c)
        PROVE  <<c, p>> \in of(c)
    BY <2>3
  <2>4. p # "unpaid"
    BY ReportsAssumption
  <2>5. ASSUME p \in Paid
        PROVE  sale[p].stay \in Made /\ p \in PaidFor(sale[p].stay)
    BY <2>5 DEF ReportTables, PaidFor
  <2>6. \A c : PaidFor(c) \subseteq Paid
    BY DEF PaidFor
  <2> HIDE DEF of
  <2>7. ASSUME NEW row \in t.rows[s], row[2] = p
        PROVE  p \in Paid
    <3>1. PICK c \in Made : row \in of(c)
      BY <2>1
    <3> QED
      BY <3>1, <2>7, <2>2, <2>4, <2>6
  <2>8. ASSUME p \in Paid
        PROVE  \E row \in t.rows[s] : row[2] = p
    <3>1. <<sale[p].stay, p>> \in of(sale[p].stay) /\ sale[p].stay \in Made
      BY <2>8, <2>5, <2>3
    <3>2. <<sale[p].stay, p>> \in t.rows[s]
      BY <3>1, <2>1
    <3> QED
      BY <3>2
  <2> QED
    BY <2>7, <2>8
<1>3. ASSUME s = "topMembers", NEW p \in Sales
      PROVE  (\E row \in t.rows[s] : row[2] = p) <=> p \in Paid
  <2>1. t.rows[s] = {<<sale[q].stay, q>> : q \in Paid}
    BY <1>3 DEF RankingRows
  <2>2. ASSUME p \in Paid
        PROVE  \E row \in t.rows[s] : row[2] = p
    <3>1. <<sale[p].stay, p>> \in t.rows[s]
      BY <2>1, <2>2
    <3> QED
      BY <3>1
  <2>3. \A row \in t.rows[s] : row[2] \in Paid
    BY <2>1
  <2> QED
    BY <2>2, <2>3
<1>4. ASSUME s = "byStatus", NEW b \in Made
      PROVE  <<b, stay[b]>> \in t.rows[s]
  BY <1>4 DEF RankingRows
<1> QED
  BY <1>1, <1>2, <1>3, <1>4 DEF RankingSound

LEMMA FigureRead ==
  ASSUME ReportTables, NEW key \in ReportKeys, NEW s, NEW r, NEW t,
         t.asked = r.asked, t.rows[s] = Rows(s, r, key)
  PROVE  FigureSound(key, s, t)
<1>1. CASE key.page = "own"
  BY <1>1 DEF Rows, FigureSound
<1>2. CASE key.page = "cards"
  BY <1>2 DEF Rows, FigureSound
<1>3. CASE key.page = "system"
  BY <1>3 DEF Rows, FigureSound, SystemRows
<1>4. CASE key.page \notin {"own", "cards", "system"}
  <2>1. CASE reportSide = "revenue"
    <3>1. t.rows[s] = RevenueRows(s, r, key)
      BY <1>4, <2>1 DEF Rows
    <3>2. RevenueRows(s, t, key) = RevenueRows(s, r, key)
      BY DEF RevenueRows
    <3>3. \A p \in Paid : p \in Sales /\ sale[p] # NoSale
      BY DEF Paid, NoSale
    <3>4. RevenueSound(key, s, t)
      <4>1. s = "thisMonth" => \A p \in t.rows[s] : p \in Paid /\ sale[p].at >= MonthStart(t.asked)
        BY <3>1 DEF RevenueRows
      <4>2. s = "lastMonth" => \A p \in t.rows[s] : p \in Paid /\ InLastMonth(sale[p].at, t.asked)
        BY <3>1 DEF RevenueRows
      <4> QED
        BY <3>1, <3>2, <3>3, <4>1, <4>2 DEF RevenueSound
    <3> QED
      BY <1>4, <2>1, <3>4 DEF FigureSound
  <2>2. CASE reportSide = "ranking"
    <3>1. t.rows[s] = RankingRows(s)
      BY <1>4, <2>2 DEF Rows
    <3> QED
      BY <1>4, <2>2, <3>1, RankingRead DEF FigureSound
  <2>3. CASE reportSide \notin {"revenue", "ranking"}
    <3>1. t.rows[s] = OccupancyRows(s)
      BY <1>4, <2>3 DEF Rows
    <3> QED
      BY <1>4, <2>3, <3>1 DEF FigureSound, OccupancySound, OccupancyRows
  <2> QED
    BY <2>1, <2>2, <2>3
<1> QED
  BY <1>1, <1>2, <1>3, <1>4

\* A report that is not made, and one that has no figures yet.
LEMMA NewReports ==
  ASSUME NEW key \in ReportKeys, moment \in Nat
  PROVE  ReportSound(key, NoReport) /\ ReportSound(key, FreshReport(key))
<1>1. NoReport = [made |-> FALSE, asked |-> 0, todo |-> {}, rows |-> <<>>, touched |-> {}]
  BY DEF NoReport
<1>2. ReportSound(key, NoReport)
  BY <1>1 DEF ReportSound
<1>3. DOMAIN <<>> = {}
  OBVIOUS
<1>4. ReportSound(key, FreshReport(key))
  BY <1>3 DEF ReportSound, FreshReport
<1> QED
  BY <1>2, <1>4

LEMMA ReportsInitInv == ReportsInit => ReportInv
<1> SUFFICES ASSUME ReportsInit PROVE ReportInv
  OBVIOUS
<1>1. /\ moment = 1 /\ filterApplied = AnyDay /\ sale = [p \in Sales |-> NoSale]
      /\ stay = [b \in Stays |-> IF b = FirstStay THEN "pending" ELSE "none"]
      /\ registrant = [a \in Registrants |-> NoAccount]
      /\ report = [k \in ReportKeys |-> NoReport] /\ filed = [k \in ReportKeys |-> NoReport]
  BY DEF ReportsInit
<1>2. NoSale \in SaleRows /\ NoAccount \in AccountRows
  BY ReportsAssumption DEF NoSale, SaleRows, NoAccount, AccountRows
<1>3. Paid = {}
  BY <1>1 DEF Paid, NoSale
<1>4. filterApplied \in DayFilters
  BY <1>1 DEF DayFilters
<1>5. ReportTables
  <2>1. IsFiniteSet(Paid)
    BY <1>3, FS_EmptySet
  <2> QED
    BY <1>1, <1>2, <1>3, <1>4, <2>1 DEF ReportTables
<1>6. \A k \in ReportKeys : ReportSound(k, NoReport)
  BY <1>1, NewReports
<1>7. ~NoReport.made
  BY DEF NoReport
<1>8. \A f \in DayFilters : Analytics(f) \in ReportKeys
  BY DEF Analytics, ReportKeys
<1> QED
  BY <1>1, <1>5, <1>6, <1>7, <1>8 DEF ReportInv

\* The figures as shown, from the invariant.
LEMMA RevenueFollows == ReportInv => RevenueCountsOnce
<1> SUFFICES ASSUME ReportInv, reportSide = "revenue", filed[PageKey].made
             PROVE  LET r == filed[PageKey]
                        figure(s) == r.rows[s]
                    IN /\ figure("thisMonth") \cap figure("lastMonth") = {}
                       /\ \A p \in Kept(PageKey, Paid) :
                             /\ p \in figure("total") <=> InFilter(sale[p].at, filterApplied)
                             /\ p \in figure("thisMonth") \cup figure("lastMonth")
                                <=> /\ sale[p].at + MonthTicks >= MonthStart(r.asked)
                                    /\ sale[p].at + 1 # MonthStart(r.asked)
  BY DEF RevenueCountsOnce, AnalyticsShown, ReportShown
<1> DEFINE key == PageKey
<1>1. /\ key \in ReportKeys /\ key.page = "analytics" /\ key.filter = filterApplied
  BY DEF ReportInv, ReportTables, PageKey, Analytics, ReportKeys
<1>2. PICK r : r = filed[key]
  OBVIOUS
<1>3. /\ r.made /\ r.asked \in Nat /\ DOMAIN r.rows = Statements(key)
      /\ \A s \in DOMAIN r.rows : FigureSound(key, s, r)
  BY <1>1, <1>2 DEF ReportInv, ReportSound
<1>4. Statements(key) = {"total", "thisMonth", "lastMonth", "trend"}
  BY <1>1 DEF Statements
<1>5. ASSUME NEW s \in {"total", "thisMonth", "lastMonth"}
      PROVE  RevenueSound(key, s, r)
  BY <1>1, <1>3, <1>4, <1>5 DEF FigureSound
<1> HIDE DEF key
<1>6. r.asked % 3 \in 0..2 /\ MonthStart(r.asked) \in Int
  BY <1>3 DEF MonthStart, MonthTicks
<1>7. \A p \in Sales : sale[p].at \in Nat
  BY DEF ReportInv, ReportTables, SaleRows
<1>8. \A p \in r.rows["thisMonth"] : p \in Sales /\ sale[p].at >= MonthStart(r.asked)
  <2>1. RevenueSound(key, "thisMonth", r)
    BY <1>5
  <2> QED
    BY <2>1 DEF RevenueSound
<1>9. \A p \in r.rows["lastMonth"] : p \in Sales /\ InLastMonth(sale[p].at, r.asked)
  <2>1. RevenueSound(key, "lastMonth", r)
    BY <1>5
  <2> QED
    BY <2>1 DEF RevenueSound
<1>10. r.rows["thisMonth"] \cap r.rows["lastMonth"] = {}
  <2> SUFFICES ASSUME NEW p \in Sales, sale[p].at >= MonthStart(r.asked),
                      InLastMonth(sale[p].at, r.asked)
               PROVE  FALSE
    BY <1>8, <1>9
  <2> QED
    BY <1>6, <1>7 DEF InLastMonth
<1>11. ASSUME NEW p \in Kept(key, Paid)
       PROVE  /\ p \in r.rows["total"] <=> InFilter(sale[p].at, filterApplied)
              /\ p \in r.rows["thisMonth"] \cup r.rows["lastMonth"]
                 <=> /\ sale[p].at + MonthTicks >= MonthStart(r.asked)
                     /\ sale[p].at + 1 # MonthStart(r.asked)
  <2>1. p \in Paid /\ p \in Sales \ r.touched
    BY <1>11, <1>2 DEF Kept, Paid
  <2>2. ASSUME NEW s \in {"total", "thisMonth", "lastMonth"}
        PROVE  p \in r.rows[s] <=> p \in RevenueRows(s, r, key)
    <3>1. RevenueSound(key, s, r)
      BY <1>5
    <3> QED
      BY <2>1, <3>1 DEF RevenueSound
  <2>3. p \in r.rows["total"] <=> InFilter(sale[p].at, filterApplied)
    BY <2>1, <2>2, <1>1 DEF RevenueRows, key
  <2>4. p \in r.rows["thisMonth"] <=> sale[p].at >= MonthStart(r.asked)
    BY <2>1, <2>2 DEF RevenueRows
  <2>5. p \in r.rows["lastMonth"] <=> InLastMonth(sale[p].at, r.asked)
    BY <2>1, <2>2 DEF RevenueRows
  <2>6. sale[p].at \in Nat
    BY <2>1, <1>7
  <2>7. p \in r.rows["thisMonth"] \cup r.rows["lastMonth"]
        <=> sale[p].at >= MonthStart(r.asked) \/ InLastMonth(sale[p].at, r.asked)
    BY <2>4, <2>5
  <2>8. sale[p].at >= MonthStart(r.asked) \/ InLastMonth(sale[p].at, r.asked)
        <=> /\ sale[p].at + MonthTicks >= MonthStart(r.asked)
            /\ sale[p].at + 1 # MonthStart(r.asked)
    BY <2>6, <1>6 DEF InLastMonth, MonthTicks
  <2> QED
    BY <2>3, <2>7, <2>8
<1> QED
  BY <1>2, <1>10, <1>11 DEF key

LEMMA RankingFollows == ReportInv => RankingCountsPayments
<1> SUFFICES ASSUME ReportInv, reportSide = "ranking", filed[PageKey].made
             PROVE  LET r == filed[PageKey]
                        joined == r.rows["topWorkspaces"]
                        untouched == {p \in Sales : p \notin r.touched}
                    IN /\ \A b \in Kept(PageKey, Made) : Sales \cap r.touched = {} =>
                             Cardinality({row \in joined : row[1] = b})
                             = (IF PaidFor(b) = {} THEN 1 ELSE Cardinality(PaidFor(b)))
                       /\ \A p \in untouched :
                             (\E row \in joined : row[2] = p)
                             <=> (\E row \in r.rows["topMembers"] : row[2] = p)
                       /\ \A b \in Kept(PageKey, Made) :
                             <<b, stay[b]>> \in r.rows["byStatus"]
  BY DEF RankingCountsPayments, AnalyticsShown, ReportShown
<1> DEFINE key == PageKey
<1>1. key \in ReportKeys /\ key.page = "analytics"
  BY DEF ReportInv, ReportTables, PageKey, Analytics, ReportKeys
<1>2. PICK r : r = filed[key]
  OBVIOUS
<1>3. /\ r.made /\ DOMAIN r.rows = Statements(key)
      /\ \A s \in DOMAIN r.rows : FigureSound(key, s, r)
  BY <1>1, <1>2 DEF ReportInv, ReportSound
<1>4. Statements(key) = {"topWorkspaces", "topMembers", "byStatus"}
  BY <1>1 DEF Statements
<1>5. ASSUME NEW s \in {"topWorkspaces", "topMembers", "byStatus"}
      PROVE  RankingSound(s, r)
  BY <1>1, <1>3, <1>4, <1>5 DEF FigureSound
<1> HIDE DEF key
<1>6. ASSUME NEW b \in Kept(key, Made), Sales \cap r.touched = {}
      PROVE  Cardinality({row \in r.rows["topWorkspaces"] : row[1] = b})
             = (IF PaidFor(b) = {} THEN 1 ELSE Cardinality(PaidFor(b)))
  <2>1. b \in Made /\ b \in Stays \ r.touched
    BY <1>6, <1>2 DEF Kept, Made
  <2>2. {row \in r.rows["topWorkspaces"] : row[1] = b} = JoinedRows(b)
    BY <1>5, <1>6, <2>1 DEF RankingSound
  <2>3. CASE PaidFor(b) = {}
    <3>1. JoinedRows(b) = {<<b, "unpaid">>}
      BY <2>1, <2>3 DEF JoinedRows
    <3>2. Cardinality({<<b, "unpaid">>}) = 1
      BY FS_Singleton
    <3> QED
      BY <2>2, <2>3, <3>1, <3>2
  <2>4. CASE PaidFor(b) # {}
    <3>1. JoinedRows(b) = {b} \X PaidFor(b)
      BY <2>1, <2>4 DEF JoinedRows
    <3>2. PaidFor(b) \in SUBSET Paid /\ IsFiniteSet(Paid)
      BY DEF PaidFor, ReportInv, ReportTables
    <3>3. IsFiniteSet(PaidFor(b))
      BY <3>2, FS_Subset
    <3>4. PICK f : f = [p \in PaidFor(b) |-> <<b, p>>]
      OBVIOUS
    <3>5. f \in Bijection(PaidFor(b), {b} \X PaidFor(b))
      <4>1. f \in [PaidFor(b) -> {b} \X PaidFor(b)]
        BY <3>4
      <4>2. \A p, q \in PaidFor(b) : f[p] = f[q] => p = q
        BY <3>4
      <4>3. ASSUME NEW row \in {b} \X PaidFor(b)
            PROVE  \E p \in PaidFor(b) : f[p] = row
        <5>1. PICK p \in PaidFor(b) : row = <<b, p>>
          OBVIOUS
        <5> QED
          BY <3>4, <5>1
      <4> QED
        BY <4>1, <4>2, <4>3, Fun_IsBij
    <3>6. Cardinality({b} \X PaidFor(b)) = Cardinality(PaidFor(b))
      BY <3>3, <3>5, FS_Bijection DEF ExistsBijection
    <3> QED
      BY <2>2, <2>4, <3>1, <3>6
  <2> QED
    BY <2>3, <2>4
<1>7. ASSUME NEW p \in Sales, p \notin r.touched
      PROVE  (\E row \in r.rows["topWorkspaces"] : row[2] = p)
             <=> (\E row \in r.rows["topMembers"] : row[2] = p)
  <2>1. (\E row \in r.rows["topWorkspaces"] : row[2] = p) <=> p \in Paid
    BY <1>5, <1>7 DEF RankingSound
  <2>2. (\E row \in r.rows["topMembers"] : row[2] = p) <=> p \in Paid
    BY <1>5, <1>7 DEF RankingSound
  <2> QED
    BY <2>1, <2>2
<1>8. ASSUME NEW b \in Kept(key, Made)
      PROVE  <<b, stay[b]>> \in r.rows["byStatus"]
  BY <1>8, <1>2, <1>5 DEF Kept, RankingSound
<1> QED
  BY <1>2, <1>6, <1>7, <1>8 DEF key

LEMMA SeatsFollow == ReportInv => SeatsCounted
<1> SUFFICES ASSUME ReportInv, reportSide = "occupancy", filed[PageKey].made
             PROVE  LET r == filed[PageKey] IN
                    /\ Kept(PageKey, openLogs) = r.rows["checkIns"] \ r.touched
                    /\ \A room \in ReportRooms : <<"room", room>> \notin r.touched =>
                          (room \in r.rows["seats"] <=> room \in r.rows["workspaces"])
  BY DEF SeatsCounted, AnalyticsShown, ReportShown
<1> DEFINE key == PageKey
<1>1. key \in ReportKeys /\ key.page = "analytics"
  BY DEF ReportInv, ReportTables, PageKey, Analytics, ReportKeys
<1>2. PICK r : r = filed[key]
  OBVIOUS
<1>3. /\ r.made /\ DOMAIN r.rows = Statements(key)
      /\ \A s \in DOMAIN r.rows : FigureSound(key, s, r)
  BY <1>1, <1>2 DEF ReportInv, ReportSound
<1>4. Statements(key) = {"seats", "checkIns", "workspaces"}
  BY <1>1 DEF Statements
<1>5. ASSUME NEW s \in {"seats", "checkIns", "workspaces"}
      PROVE  OccupancySound(s, r)
  BY <1>1, <1>3, <1>4, <1>5 DEF FigureSound
<1> HIDE DEF key
<1>6. openLogs \ r.touched = r.rows["checkIns"] \ r.touched
  BY <1>5 DEF OccupancySound
<1>7. ASSUME NEW room \in ReportRooms, <<"room", room>> \notin r.touched
      PROVE  room \in r.rows["seats"] <=> room \in r.rows["workspaces"]
  BY <1>5, <1>7 DEF OccupancySound
<1> QED
  BY <1>2, <1>6, <1>7 DEF key, Kept

LEMMA PageSound ==
  ASSUME ReportInv, NEW name \in {"own", "cards", "system"}, filed[Page(name)].made,
         NEW s \in Statements(Page(name))
  PROVE  FigureSound(Page(name), s, filed[Page(name)]) /\ Page(name).page = name
<1>1. Page(name) \in ReportKeys /\ Page(name).page = name
  BY DEF Page, ReportKeys
<1>2. PICK r : r = filed[Page(name)]
  OBVIOUS
<1>3. ReportSound(Page(name), r) /\ r.made /\ r.todo = {}
  BY <1>1, <1>2 DEF ReportInv
<1>4. FigureSound(Page(name), s, r)
  BY <1>3 DEF ReportSound
<1> QED
  BY <1>1, <1>2, <1>4

LEMMA OwnFollows == ReportInv => OwnFiguresAgree
<1> SUFFICES ASSUME ReportInv PROVE OwnFiguresAgree
  OBVIOUS
<1> DEFINE key == Page("own")
<1>1. ASSUME filed[key].made
      PROVE  /\ Kept(key, filed[key].rows["active"])
                = Kept(key, {b \in OwnStays : stay[b] \in {"pending", "confirmed"}})
             /\ Kept(key, SpentShown) \subseteq UNION {PaidFor(b) : b \in OwnStays}
  <2>1. key.page = "own"
    BY DEF Page
  <2>2. {"active", "spent"} = Statements(key)
    BY <2>1 DEF Statements
  <2>3. ASSUME NEW s \in {"active", "spent"}
        PROVE  Kept(key, filed[key].rows[s]) = Kept(key, OwnRows(s))
    <3>1. FigureSound(key, s, filed[key])
      BY <1>1, <2>2, <2>3, PageSound
    <3> QED
      BY <2>1, <3>1 DEF FigureSound, Kept
  <2>4. Kept(key, filed[key].rows["active"]) = Kept(key, OwnRows("active"))
    BY <2>3
  <2>5. Kept(key, filed[key].rows["spent"]) = Kept(key, OwnRows("spent"))
    BY <2>3
  <2>6. Kept(key, SpentShown) \subseteq Kept(key, filed[key].rows["spent"])
    BY DEF SpentShown, Kept
  <2>7. /\ OwnRows("active") = {b \in OwnStays : stay[b] \in {"pending", "confirmed"}}
        /\ OwnRows("spent") = UNION {PaidFor(b) : b \in OwnStays}
    BY DEF OwnRows
  <2>8. \A figures : Kept(key, figures) \subseteq figures
    BY DEF Kept
  <2> QED
    BY <2>4, <2>5, <2>6, <2>7, <2>8
<1>2. ASSUME reportBuild = "built"
      PROVE  SpentShown = {} /\ \A f \in DayFilters : ~filed[Analytics(f)].made
  BY <1>2 DEF SpentShown, ReportInv
<1> QED
  BY <1>1, <1>2 DEF OwnFiguresAgree

LEMMA GrowthFollows == ReportInv => GrowthIsCumulative
<1> SUFFICES ASSUME ReportInv PROVE GrowthIsCumulative
  OBVIOUS
<1> DEFINE system == Page("system")
           cards == Page("cards")
<1>1. ASSUME filed[system].made, NEW s \in {"everyone", "activeUsers", "olderBar", "newerBar"},
             NEW a, a \notin filed[system].touched
      PROVE  a \in filed[system].rows[s] <=> a \in SystemRows(s, filed[system])
  <2>1. system.page = "system"
    BY DEF Page
  <2>2. s \in Statements(system)
    BY <1>1, <2>1 DEF Statements
  <2>3. FigureSound(system, s, filed[system])
    BY <1>1, <2>2, PageSound
  <2> QED
    BY <1>1, <2>1, <2>3 DEF FigureSound
<1>2. ASSUME filed[cards].made, NEW s \in {"members", "verified"},
             NEW a, a \notin filed[cards].touched
      PROVE  a \in filed[cards].rows[s] <=> a \in CardRows(s)
  <2>1. cards.page = "cards"
    BY DEF Page
  <2>2. s \in Statements(cards)
    BY <1>2, <2>1 DEF Statements
  <2>3. FigureSound(cards, s, filed[cards])
    BY <1>2, <2>2, PageSound
  <2> QED
    BY <1>2, <2>1, <2>3 DEF FigureSound
<1>3. filed[system].made => filed[system].asked \in Nat
  BY DEF ReportInv, ReportSound, Page, ReportKeys
<1> HIDE DEF system, cards
<1>4. ASSUME filed[system].made, NEW a, a \notin filed[system].touched
      PROVE  /\ a \in filed[system].rows["newerBar"] => a \in filed[system].rows["olderBar"]
             /\ a \in filed[system].rows["olderBar"] => a \in filed[system].rows["everyone"]
  <2>1. PICK r : r = filed[system]
    OBVIOUS
  <2>2. MonthStart(r.asked) \in Int
    BY <1>3, <1>4, <2>1 DEF MonthStart, MonthTicks
  <2>3. \A x \in Registrants : registrant[x].since \in Nat
    BY DEF ReportInv, ReportTables, AccountRows
  <2>4. a \in SystemRows("newerBar", r) => a \in SystemRows("olderBar", r)
    BY <2>2, <2>3 DEF SystemRows, InBar, MonthTicks
  <2>5. a \in SystemRows("olderBar", r) => a \in SystemRows("everyone", r)
    BY DEF SystemRows
  <2> QED
    BY <1>1, <1>4, <2>1, <2>4, <2>5
<1>5. ASSUME filed[cards].made, NEW a, a \notin filed[cards].touched
      PROVE  a \in filed[cards].rows["verified"] => a \in filed[cards].rows["members"]
  <2>1. a \in CardRows("verified") => a \in CardRows("members")
    BY DEF CardRows
  <2> QED
    BY <1>2, <1>5, <2>1
<1>6. ASSUME filed[cards].made, filed[system].made, NEW a \in Registrants,
             a \notin filed[cards].touched, a \notin filed[system].touched
      PROVE  a \in filed[cards].rows["members"] <=> a \in filed[system].rows["activeUsers"]
  <2>1. PICK r : r = filed[system]
    OBVIOUS
  <2>2. a \in CardRows("members") <=> a \in SystemRows("activeUsers", r)
    BY DEF CardRows, SystemRows, Members
  <2> QED
    BY <1>1, <1>2, <1>6, <2>1, <2>2
<1> QED
  <2>1. \A overview \in OverviewShown : filed[system].made /\ overview = filed[system]
    BY DEF OverviewShown, ReportShown, system
  <2>2. \A shown \in CardsShown : filed[cards].made /\ shown = filed[cards]
    BY DEF CardsShown, ReportShown, cards
  <2>3. \A overview \in OverviewShown :
          /\ Kept(system, overview.rows["newerBar"]) \subseteq overview.rows["olderBar"]
          /\ Kept(system, overview.rows["olderBar"]) \subseteq overview.rows["everyone"]
    BY <2>1, <1>4 DEF Kept
  <2>4. \A shown \in CardsShown :
          Kept(cards, shown.rows["verified"]) \subseteq shown.rows["members"]
    BY <2>2, <1>5 DEF Kept
  <2>5. \A shown \in CardsShown, overview \in OverviewShown :
          \A a \in Registrants \ (shown.touched \cup overview.touched) :
             a \in shown.rows["members"] <=> a \in overview.rows["activeUsers"]
    BY <2>1, <2>2, <1>6
  <2> QED
    BY <2>3, <2>4, <2>5 DEF GrowthIsCumulative, system, cards

LEMMA ReportInvAgrees == ReportInv => ReportsAgree
BY RevenueFollows, RankingFollows, SeatsFollow, OwnFollows, GrowthFollows DEF ReportsAgree

\* Reports that go on, are dropped or begin while the tables stay as they are.
LEMMA ReportsMove ==
  ASSUME ReportInv, ReportTables', UNCHANGED <<reportChoice, reportTables>>,
         report' = [k \in ReportKeys |-> report'[k]], filed' = [k \in ReportKeys |-> filed'[k]],
         \A k \in ReportKeys : ReportSound(k, report'[k]),
         \A k \in ReportKeys : \/ filed'[k] \in {filed[k], NoReport}
                               \/ /\ filed'[k] = report[k] /\ report[k].todo = {}
                                  /\ k.page = "analytics" => reportBuild = "typed"
  PROVE  ReportInv'
<1>1. reportSide' = reportSide /\ reportBuild' = reportBuild
  BY DEF reportChoice
<1>2. ASSUME NEW k \in ReportKeys, NEW t, ReportSound(k, t)
      PROVE  ReportSound(k, t)'
  <2>1. LeftAlone(t.touched)
    BY NothingWritten
  <2>2. t = [made |-> t.made, asked |-> t.asked, todo |-> t.todo, rows |-> t.rows,
             touched |-> t.touched]
    BY <1>2 DEF ReportSound
  <2> QED
    BY <1>1, <1>2, <2>1, <2>2, ReportKept
<1>3. ASSUME NEW k \in ReportKeys
      PROVE  /\ ReportSound(k, report[k])' /\ ReportSound(k, filed[k])'
             /\ filed'[k].made => filed'[k].todo = {}
  <2>1. /\ ReportSound(k, report[k]) /\ ReportSound(k, filed[k])
        /\ filed[k].made => filed[k].todo = {}
    BY <1>3 DEF ReportInv
  <2>2. ReportSound(k, NoReport) /\ ~NoReport.made
    BY <1>3, NewReports DEF ReportInv, ReportTables, NoReport
  <2>3. PICK t : t = report'[k]
    OBVIOUS
  <2>4. PICK u : u = filed'[k]
    OBVIOUS
  <2>5. ReportSound(k, t)
    BY <1>3, <2>3
  <2>6. ReportSound(k, u) /\ (u.made => u.todo = {})
    BY <1>3, <2>1, <2>2, <2>4
  <2>7. ReportSound(k, t)' /\ ReportSound(k, u)'
    BY <1>2, <1>3, <2>5, <2>6
  <2>8. ReportSound(k, report[k])'
    BY <2>3, <2>7
  <2>9. ReportSound(k, filed[k])'
    BY <2>4, <2>7
  <2> QED
    BY <2>4, <2>6, <2>8, <2>9
<1>4. ASSUME reportBuild # "typed", NEW f \in DayFilters
      PROVE  ~filed'[Analytics(f)].made
  <2>1. Analytics(f) \in ReportKeys /\ Analytics(f).page = "analytics"
    BY DEF Analytics, ReportKeys
  <2>2. filed'[Analytics(f)] \in {filed[Analytics(f)], NoReport}
    BY <1>4, <2>1
  <2>3. ~filed[Analytics(f)].made
    BY <1>4 DEF ReportInv
  <2>4. ~NoReport.made
    BY DEF NoReport
  <2> QED
    BY <2>2, <2>3, <2>4
<1> QED
  BY <1>1, <1>3, <1>4 DEF ReportInv

\* A row is written: every report knows.
LEMMA ReportsWritten ==
  ASSUME ReportInv, NEW row, NEW sides, WriteRow(sides, row), ReportTables', LeftAlone({row})
  PROVE  ReportInv'
<1>1. /\ report' = WithTouch(row, report) /\ filed' = WithTouch(row, filed)
      /\ reportSide' = reportSide /\ reportBuild' = reportBuild
  BY DEF WriteRow, reportChoice
<1>2. ASSUME NEW k \in ReportKeys, NEW r, ReportSound(k, r),
             NEW t, t = [r EXCEPT !.touched = @ \cup {row}]
      PROVE  ReportSound(k, t)' /\ t.made = r.made /\ t.todo = r.todo
  <2>1. r = [made |-> r.made, asked |-> r.asked, todo |-> r.todo, rows |-> r.rows,
             touched |-> r.touched]
    BY <1>2 DEF ReportSound
  <2>2. t = [made |-> r.made, asked |-> r.asked, todo |-> r.todo, rows |-> r.rows,
             touched |-> r.touched \cup {row}]
    BY <1>2, <2>1
  <2>3. t.touched = r.touched \cup {row}
    BY <2>2
  <2>4. LeftAlone(t.touched)
    BY <2>3, LeftAloneMore
  <2>5. ReportSound(k, t)'
    BY <1>1, <1>2, <2>2, <2>3, <2>4, ReportKept
  <2> QED
    BY <2>2, <2>5
<1>3. ASSUME NEW k \in ReportKeys
      PROVE  /\ ReportSound(k, report[k])' /\ ReportSound(k, filed[k])'
             /\ filed'[k].made = filed[k].made /\ filed'[k].todo = filed[k].todo
  <2>1. /\ report'[k] = [report[k] EXCEPT !.touched = @ \cup {row}]
        /\ filed'[k] = [filed[k] EXCEPT !.touched = @ \cup {row}]
    BY <1>1 DEF WithTouch
  <2>2. ReportSound(k, report[k]) /\ ReportSound(k, filed[k])
    BY DEF ReportInv
  <2>3. PICK r : r = report[k]
    OBVIOUS
  <2>4. PICK d : d = filed[k]
    OBVIOUS
  <2>5. PICK t : t = [r EXCEPT !.touched = @ \cup {row}]
    OBVIOUS
  <2>6. PICK u : u = [d EXCEPT !.touched = @ \cup {row}]
    OBVIOUS
  <2>7. ReportSound(k, t)'
    BY <1>2, <2>2, <2>3, <2>5
  <2>8. ReportSound(k, u)' /\ u.made = d.made /\ u.todo = d.todo
    BY <1>2, <2>2, <2>4, <2>6
  <2>9. report'[k] = t /\ filed'[k] = u
    BY <2>1, <2>3, <2>4, <2>5, <2>6
  <2>10. ReportSound(k, report[k])' /\ ReportSound(k, filed[k])'
    BY <2>7, <2>8, <2>9
  <2> QED
    BY <2>4, <2>8, <2>9, <2>10
<1>4. /\ report' = [k \in ReportKeys |-> report'[k]]
      /\ filed' = [k \in ReportKeys |-> filed'[k]]
  BY <1>1 DEF WithTouch
<1>5. \A f \in DayFilters : Analytics(f) \in ReportKeys
  BY DEF Analytics, ReportKeys
<1> QED
  BY <1>1, <1>3, <1>4, <1>5 DEF ReportInv

\* What the writes leave alone, and what they keep of the tables.
LEMMA SalesWritten ==
  ASSUME ReportTables, ReportTables', NEW p \in Sales, NEW d,
         UNCHANGED <<stay, activeRooms, openLogs, registrant>>,
         sale' = [sale EXCEPT ![p] = d],
         sale[p] # NoSale => d # NoSale /\ d.at = sale[p].at
  PROVE  LeftAlone({p})
<1>1. sale'[p] = d /\ \A q \in Sales \ {p} : sale'[q] = sale[q]
  BY DEF ReportTables
<1>2. \A q \in Sales : sale[q] # NoSale => sale'[q] # NoSale /\ sale'[q].at = sale[q].at
  BY <1>1
<1> QED
  BY <1>1, <1>2 DEF LeftAlone

LEMMA PaySaleStep ==
  ASSUME ReportInv, NEW p \in Sales, NEW b \in Stays, PaySale(p, b)
  PROVE  ReportInv'
<1>1. PICK d : d = [status |-> "success", at |-> moment, stay |-> b]
  OBVIOUS
<1>2. /\ sale' = [sale EXCEPT ![p] = d] /\ sale[p] = NoSale /\ b \in Made
      /\ UNCHANGED <<stay, activeRooms, openLogs, registrant, moment, filterApplied>>
  BY <1>1 DEF PaySale, WriteRow
<1>3. ReportTables'
  <2>1. ReportTables /\ d \in SaleRows
    BY <1>1 DEF ReportInv, ReportTables, SaleRows
  <2>2. sale' \in [Sales -> SaleRows]
    BY <1>2, <2>1 DEF ReportTables
  <2>3. Paid' \subseteq Paid \cup {p}
    BY <1>2, <2>1 DEF Paid, ReportTables
  <2>4. IsFiniteSet(Paid \cup {p})
    BY <2>1, FS_AddElement DEF ReportTables
  <2>5. IsFiniteSet(Paid')
    BY <2>3, <2>4, FS_Subset
  <2>6. Made' = Made
    BY <1>2 DEF Made
  <2>7. \A q \in Paid' : sale'[q].stay \in Made
    <3>1. \A q \in Paid' : q = p \/ (q \in Paid /\ sale'[q] = sale[q])
      BY <1>2, <2>1, <2>3 DEF Paid, ReportTables
    <3>2. sale'[p].stay \in Made
      BY <1>1, <1>2, <2>1 DEF ReportTables
    <3> QED
      BY <2>1, <3>1, <3>2 DEF ReportTables
  <2> QED
    BY <1>2, <2>1, <2>2, <2>5, <2>6, <2>7 DEF ReportTables, DayFilters, AnyDay
<1>4. LeftAlone({p})
  BY <1>2, <1>3, SalesWritten DEF ReportInv
<1> QED
  BY <1>3, <1>4, ReportsWritten DEF PaySale

LEMMA RefundSaleStep ==
  ASSUME ReportInv, NEW p \in Sales, RefundSale(p)
  PROVE  ReportInv'
<1>1. PICK c : c = sale[p]
  OBVIOUS
<1>2. c \in SaleRows /\ ReportTables
  BY <1>1 DEF ReportInv, ReportTables
<1>3. PICK d : d = [c EXCEPT !.status = "refunded"]
  OBVIOUS
<1>4. d \in SaleRows /\ d.at = c.at /\ d.stay = c.stay /\ d.status = "refunded"
  BY <1>2, <1>3 DEF SaleRows
<1>5. /\ sale' = [sale EXCEPT ![p] = d]
      /\ UNCHANGED <<stay, activeRooms, openLogs, registrant, moment, filterApplied>>
  BY <1>1, <1>2, <1>3 DEF RefundSale, WriteRow, ReportTables
<1>6. ReportTables'
  <2>1. sale' \in [Sales -> SaleRows]
    BY <1>2, <1>4, <1>5 DEF ReportTables
  <2>2. \A q \in Paid' : q \in Paid /\ sale'[q] = sale[q]
    BY <1>2, <1>4, <1>5 DEF Paid, ReportTables
  <2>3. IsFiniteSet(Paid')
    BY <1>2, <2>2, FS_Subset DEF ReportTables
  <2>4. Made' = Made
    BY <1>5 DEF Made
  <2> QED
    BY <1>2, <1>5, <2>1, <2>2, <2>3, <2>4 DEF ReportTables, DayFilters, AnyDay
<1>7. LeftAlone({p})
  <2>1. d # NoSale
    BY <1>4 DEF NoSale
  <2>2. d.at = sale[p].at
    BY <1>1, <1>4
  <2> QED
    BY <1>2, <1>5, <1>6, <2>1, <2>2, SalesWritten
<1> QED
  BY <1>6, <1>7, ReportsWritten DEF RefundSale

LEMMA StayWritten ==
  ASSUME ReportInv, NEW sides, NEW b \in Stays, WriteRow(sides, b),
         NEW status \in {"pending", "confirmed", "cancelled"},
         stay' = [stay EXCEPT ![b] = status], UNCHANGED <<sale, activeRooms, openLogs, registrant>>
  PROVE  ReportInv'
<1>1. UNCHANGED <<moment, filterApplied>>
  BY DEF WriteRow
<1>2. ReportTables
  BY DEF ReportInv
<1>3. Paid' = Paid /\ Made \subseteq Made'
  BY <1>2 DEF Paid, Made, ReportTables
<1>4. ReportTables'
  BY <1>1, <1>2, <1>3 DEF ReportTables, DayFilters, AnyDay
<1>5. LeftAlone({b})
  BY <1>2 DEF LeftAlone, ReportTables
<1> QED
  BY <1>4, <1>5, ReportsWritten

LEMMA RoomWritten ==
  ASSUME ReportInv, NEW sides, NEW row, WriteRow(sides, row), UNCHANGED <<sale, stay, registrant>>,
         openLogs' \ {row} = openLogs \ {row},
         \A room : <<"room", room>> # row => (room \in activeRooms' <=> room \in activeRooms)
  PROVE  ReportInv'
<1>1. UNCHANGED <<moment, filterApplied>>
  BY DEF WriteRow
<1>2. Paid' = Paid /\ Made' = Made
  BY DEF Paid, Made
<1>3. ReportTables'
  BY <1>1, <1>2 DEF ReportInv, ReportTables, DayFilters, AnyDay
<1>4. LeftAlone({row})
  BY DEF LeftAlone
<1> QED
  BY <1>3, <1>4, ReportsWritten

LEMMA ChangeAccountStep ==
  ASSUME ReportInv, NEW a \in Registrants, ChangeAccount(a)
  PROVE  ReportInv'
<1>1. ReportTables /\ registrant[a] \in AccountRows
  BY DEF ReportInv, ReportTables
<1>2. PICK c : c = registrant[a]
  OBVIOUS
<1>3. PICK row : /\ row \in IF registrant[a] = NoAccount
                            THEN {[here |-> TRUE, verified |-> FALSE, active |-> TRUE, since |-> moment]}
                            ELSE {[registrant[a] EXCEPT !.verified = TRUE],
                                  [registrant[a] EXCEPT !.here = FALSE],
                                  [registrant[a] EXCEPT !.active = ~@]}
                 /\ registrant' = [registrant EXCEPT ![a] = row]
  BY DEF ChangeAccount
<1>4. row \in AccountRows
  <2>1. moment \in Nat
    BY <1>1 DEF ReportTables
  <2>2. [here |-> TRUE, verified |-> FALSE, active |-> TRUE, since |-> moment] \in AccountRows
    BY <2>1 DEF AccountRows
  <2>3. [c EXCEPT !.verified = TRUE] \in AccountRows
    BY <1>1, <1>2 DEF AccountRows
  <2>4. [c EXCEPT !.here = FALSE] \in AccountRows
    BY <1>1, <1>2 DEF AccountRows
  <2>5. [c EXCEPT !.active = ~@] \in AccountRows
    BY <1>1, <1>2 DEF AccountRows
  <2> QED
    BY <1>2, <1>3, <2>2, <2>3, <2>4, <2>5
<1>5. UNCHANGED <<sale, stay, activeRooms, openLogs, moment, filterApplied>>
  BY DEF ChangeAccount, WriteRow
<1>6. Paid' = Paid /\ Made' = Made
  BY <1>5 DEF Paid, Made
<1>7. ReportTables'
  BY <1>1, <1>3, <1>4, <1>5, <1>6 DEF ReportTables, DayFilters, AnyDay
<1>8. LeftAlone({a})
  BY <1>1, <1>3, <1>5 DEF LeftAlone, ReportTables
<1> QED
  BY <1>7, <1>8, ReportsWritten DEF ChangeAccount

LEMMA TablesSame ==
  ASSUME ReportTables, UNCHANGED <<moment, reportTables, filterApplied>>
  PROVE  ReportTables'
<1>1. Paid' = Paid /\ Made' = Made
  BY DEF Paid, Made, reportTables
<1> QED
  BY <1>1 DEF ReportTables, reportTables, DayFilters, AnyDay

\* The same figure is as sound in another report made at the same time.
LEMMA FigureSame ==
  ASSUME NEW key, NEW s, NEW r, NEW t, FigureSound(key, s, r),
         t.rows[s] = r.rows[s], t.asked = r.asked, t.touched = r.touched
  PROVE  FigureSound(key, s, t)
<1>1. RevenueRows(s, t, key) = RevenueRows(s, r, key)
  BY DEF RevenueRows
<1>2. SystemRows(s, t) = SystemRows(s, r)
  BY DEF SystemRows
<1>3. RevenueSound(key, s, r) => RevenueSound(key, s, t)
  BY <1>1 DEF RevenueSound
<1>4. RankingSound(s, r) => RankingSound(s, t)
  BY DEF RankingSound
<1>5. OccupancySound(s, r) => OccupancySound(s, t)
  BY DEF OccupancySound
<1> QED
  BY <1>2, <1>3, <1>4, <1>5 DEF FigureSound

LEMMA RunStatementStep ==
  ASSUME ReportInv, NEW key \in ReportKeys, NEW s \in report[key].todo, RunStatement(key, s)
  PROVE  ReportInv'
<1>1. PICK r : r = report[key]
  OBVIOUS
<1>2. PICK figure : figure = Rows(s, r, key)
  OBVIOUS
<1>3. ReportTables /\ ReportSound(key, r) /\ s \in r.todo
  BY <1>1 DEF ReportInv
<1>4. r = [made |-> r.made, asked |-> r.asked, todo |-> r.todo, rows |-> r.rows,
           touched |-> r.touched]
  BY <1>3 DEF ReportSound
<1>5. PICK t : t = [made |-> r.made, asked |-> r.asked, todo |-> r.todo \ {s},
                    rows |-> [x \in DOMAIN r.rows \cup {s} |-> IF x = s THEN figure ELSE r.rows[x]],
                    touched |-> r.touched]
  OBVIOUS
<1>6. report = [k \in ReportKeys |-> report[k]] /\ filed = [k \in ReportKeys |-> filed[k]]
  BY DEF ReportInv
<1>7. report' = [report EXCEPT ![key] = t]
  <2>1. report' = [report EXCEPT ![key] =
                     [r EXCEPT !.todo = r.todo \ {s},
                               !.rows = [x \in DOMAIN r.rows \cup {s} |->
                                           IF x = s THEN figure ELSE r.rows[x]]]]
    BY <1>1, <1>2 DEF RunStatement
  <2>2. PICK f : f = [x \in DOMAIN r.rows \cup {s} |-> IF x = s THEN figure ELSE r.rows[x]]
    OBVIOUS
  <2>3. PICK todo : todo = r.todo \ {s}
    OBVIOUS
  <2> DEFINE Either == [made : {r.made}, asked : {r.asked}, todo : {r.todo, todo},
                        rows : {r.rows, f}, touched : {r.touched}]
  <2>4. r \in Either
    BY <1>4
  <2>5. PICK d : d = [r EXCEPT !.todo = todo, !.rows = f]
    OBVIOUS
  <2>6. d \in Either /\ d.todo = todo /\ d.rows = f
    BY <2>4, <2>5
  <2>7. d = t
    BY <2>2, <2>3, <2>6, <1>5
  <2>8. report' = [report EXCEPT ![key] = [r EXCEPT !.todo = r.todo \ {s}, !.rows = f]]
    BY <2>1, <2>2
  <2> QED
    BY <2>3, <2>8, <2>5, <2>7
<1>8. UNCHANGED <<reportChoice, moment, reportTables, filterApplied, filed>>
  BY DEF RunStatement
<1>9. ReportSound(key, t)
  <2>1. t.made = r.made /\ t.asked = r.asked /\ t.todo = r.todo \ {s} /\ t.touched = r.touched
    BY <1>5
  <2>2. t.rows = [x \in DOMAIN r.rows \cup {s} |-> IF x = s THEN figure ELSE r.rows[x]]
    BY <1>5
  <2>3. DOMAIN t.rows = DOMAIN r.rows \cup {s}
    BY <2>2
  <2>4. \A x \in DOMAIN r.rows : x # s => t.rows[x] = r.rows[x]
    BY <2>2
  <2>5. t.rows[s] = figure
    BY <2>2
  <2>6. ASSUME r.made
        PROVE  /\ DOMAIN t.rows = Statements(key) \ t.todo
               /\ \A x \in DOMAIN t.rows : FigureSound(key, x, t)
    <3>1. /\ DOMAIN r.rows = Statements(key) \ r.todo /\ s \in Statements(key)
          /\ \A x \in DOMAIN r.rows : FigureSound(key, x, r)
      BY <2>6, <1>3 DEF ReportSound
    <3>2. s \notin DOMAIN r.rows
      BY <3>1, <1>3
    <3>3. FigureSound(key, s, t)
      BY <1>2, <1>3, <2>1, <2>5, FigureRead
    <3>4. ASSUME NEW x \in DOMAIN r.rows
          PROVE  FigureSound(key, x, t)
      <4>1. FigureSound(key, x, r) /\ t.rows[x] = r.rows[x]
        BY <3>1, <3>2, <2>4
      <4> QED
        BY <4>1, <2>1, FigureSame
    <3> QED
      BY <2>1, <2>3, <3>1, <3>3, <3>4, <1>3
  <2>7. t = [made |-> t.made, asked |-> t.asked, todo |-> t.todo, rows |-> t.rows,
             touched |-> t.touched]
    BY <1>5
  <2> QED
    BY <2>1, <2>6, <2>7, <1>3 DEF ReportSound
<1>10. ReportTables'
  BY <1>3, <1>8, TablesSame
<1>11. \A k \in ReportKeys : ReportSound(k, report'[k])
  <2>1. \A k \in ReportKeys : report'[k] = IF k = key THEN t ELSE report[k]
    BY <1>6, <1>7
  <2>2. \A k \in ReportKeys : ReportSound(k, report[k])
    BY DEF ReportInv
  <2> QED
    BY <2>1, <2>2, <1>9
<1>12. report' = [k \in ReportKeys |-> report'[k]]
  BY <1>6, <1>7
<1> QED
  BY <1>6, <1>8, <1>10, <1>11, <1>12, ReportsMove

LEMMA AskReportStep == ReportInv /\ AskReport => ReportInv'
<1> SUFFICES ASSUME ReportInv, AskReport PROVE ReportInv'
  OBVIOUS
<1>1. UNCHANGED <<reportChoice, moment, reportTables, filterApplied, filed>>
  BY DEF AskReport
<1>2. report = [k \in ReportKeys |-> report[k]] /\ filed = [k \in ReportKeys |-> filed[k]]
  BY DEF ReportInv
<1>3. report' = report \/ report' = [report EXCEPT ![PageKey] = FreshReport(PageKey)]
  BY DEF AskReport, Started
<1>4. \A k \in ReportKeys : report'[k] \in {report[k], FreshReport(k)}
  BY <1>2, <1>3
<1>5. report' = [k \in ReportKeys |-> report'[k]]
  BY <1>2, <1>3
<1>6. ReportTables /\ \A k \in ReportKeys : ReportSound(k, report[k])
  BY DEF ReportInv
<1>7. \A k \in ReportKeys : ReportSound(k, FreshReport(k))
  BY <1>6, NewReports DEF ReportTables
<1>8. \A k \in ReportKeys : ReportSound(k, report'[k])
  BY <1>4, <1>6, <1>7
<1>9. ReportTables'
  BY <1>1, <1>6, TablesSame
<1> QED
  BY <1>1, <1>2, <1>5, <1>8, <1>9, ReportsMove

LEMMA ApplyFilterStep ==
  ASSUME ReportInv, NEW f \in DayFilters, ApplyFilter(f)
  PROVE  ReportInv'
<1>1. /\ UNCHANGED <<reportChoice, moment, reportTables>> /\ filterApplied' = f
      /\ report' = [k \in ReportKeys |-> IF k = Analytics(f) THEN FreshReport(k) ELSE NoReport]
      /\ filed' = [k \in ReportKeys |-> NoReport]
  BY DEF ApplyFilter
<1>2. ReportTables
  BY DEF ReportInv
<1>3. \A k \in ReportKeys : ReportSound(k, NoReport) /\ ReportSound(k, FreshReport(k))
  BY <1>2, NewReports DEF ReportTables
<1>4. \A k \in ReportKeys : ReportSound(k, report'[k])
  BY <1>1, <1>3
<1>5. ReportTables'
  <2>1. Paid' = Paid /\ Made' = Made
    BY <1>1 DEF Paid, Made, reportTables
  <2> QED
    BY <1>1, <1>2, <2>1 DEF ReportTables, reportTables, DayFilters, AnyDay
<1>6. report' = [k \in ReportKeys |-> report'[k]] /\ filed' = [k \in ReportKeys |-> filed'[k]]
  BY <1>1
<1>7. \A k \in ReportKeys : filed'[k] = NoReport
  BY <1>1
<1> QED
  BY <1>1, <1>4, <1>5, <1>6, <1>7, ReportsMove

LEMMA ReportLeavesStep ==
  ASSUME ReportInv, NEW key \in ReportKeys, ReportArrives(key) \/ ReportFails(key)
  PROVE  ReportInv'
<1>1. UNCHANGED <<reportChoice, moment, reportTables, filterApplied>>
  BY DEF ReportArrives, ReportFails
<1>2. report = [k \in ReportKeys |-> report[k]] /\ filed = [k \in ReportKeys |-> filed[k]]
  BY DEF ReportInv
<1>3. \/ report' = [report EXCEPT ![key] = NoReport]
      \/ report' = [report EXCEPT ![key] = NoReport, ![Page("system")] = FreshReport(Page("system"))]
      \/ report' = [report EXCEPT ![key] = NoReport, ![Page("system")] = NoReport]
  BY DEF ReportArrives, ReportFails
<1>4. \A k \in ReportKeys : report'[k] \in {report[k], NoReport, FreshReport(k)}
  BY <1>2, <1>3
<1>5. report' = [k \in ReportKeys |-> report'[k]]
  BY <1>2, <1>3
<1>6. ReportTables /\ \A k \in ReportKeys : ReportSound(k, report[k])
  BY DEF ReportInv
<1>7. \A k \in ReportKeys : ReportSound(k, NoReport) /\ ReportSound(k, FreshReport(k))
  BY <1>6, NewReports DEF ReportTables
<1>8. \A k \in ReportKeys : ReportSound(k, report'[k])
  BY <1>4, <1>6, <1>7
<1>9. ReportTables'
  BY <1>1, <1>6, TablesSame
<1>10. \/ filed' = filed
       \/ /\ filed' = [filed EXCEPT ![key] = report[key]] /\ report[key].todo = {}
          /\ key.page = "analytics" => reportBuild = "typed"
  BY DEF ReportArrives, ReportFails, Answerable
<1>11. filed' = [k \in ReportKeys |-> filed'[k]]
  BY <1>2, <1>10
<1>12. \A k \in ReportKeys : \/ filed'[k] \in {filed[k], NoReport}
                             \/ /\ filed'[k] = report[k] /\ report[k].todo = {}
                                /\ k.page = "analytics" => reportBuild = "typed"
  BY <1>2, <1>10
<1> QED
  BY <1>1, <1>5, <1>8, <1>9, <1>11, <1>12, ReportsMove

LEMMA TickStep == ReportInv /\ Tick => ReportInv'
<1> SUFFICES ASSUME ReportInv, Tick PROVE ReportInv'
  OBVIOUS
<1>1. UNCHANGED <<reportChoice, reportTables, filterApplied, report, filed>> /\ moment' = moment + 1
  BY DEF Tick, reportPage
<1>2. ReportTables'
  <2>1. Paid' = Paid /\ Made' = Made
    BY <1>1 DEF Paid, Made, reportTables
  <2> QED
    BY <1>1, <2>1 DEF ReportInv, ReportTables, reportTables, DayFilters, AnyDay
<1>3. /\ \A k \in ReportKeys : ReportSound(k, report'[k])
      /\ report' = [k \in ReportKeys |-> report'[k]] /\ filed' = [k \in ReportKeys |-> filed'[k]]
  BY <1>1 DEF ReportInv
<1>4. \A k \in ReportKeys : filed'[k] \in {filed[k], NoReport}
  BY <1>1
<1> QED
  BY <1>1, <1>2, <1>3, <1>4, ReportsMove

\* Every step of the reports keeps the invariant.
LEMMA ReportStep == ReportInv /\ [ReportsNext]_reportVars => ReportInv'
<1> SUFFICES ASSUME ReportInv, [ReportsNext]_reportVars PROVE ReportInv'
  OBVIOUS
<1>1. CASE UNCHANGED reportVars
  <2>1. UNCHANGED <<reportChoice, reportTables, moment, filterApplied, report, filed>>
    BY <1>1 DEF reportVars, reportChoice, reportTables
  <2>2. ReportTables'
    BY <2>1, TablesSame DEF ReportInv
  <2>3. /\ \A k \in ReportKeys : ReportSound(k, report'[k])
        /\ report' = [k \in ReportKeys |-> report'[k]] /\ filed' = [k \in ReportKeys |-> filed'[k]]
    BY <2>1 DEF ReportInv
  <2>4. \A k \in ReportKeys : filed'[k] \in {filed[k], NoReport}
    BY <2>1
  <2> QED
    BY <2>1, <2>2, <2>3, <2>4, ReportsMove
<1>2. ASSUME NEW key \in ReportKeys, NEW s \in report[key].todo, RunStatement(key, s)
      PROVE  ReportInv'
  BY <1>2, RunStatementStep
<1>3. ASSUME NEW key \in ReportKeys, ReportArrives(key) \/ ReportFails(key)
      PROVE  ReportInv'
  BY <1>3, ReportLeavesStep
<1>4. CASE AskReport
  BY <1>4, AskReportStep
<1>5. CASE Tick
  BY <1>5, TickStep
<1>6. ASSUME NEW f \in DayFilters, ApplyFilter(f)
      PROVE  ReportInv'
  BY <1>6, ApplyFilterStep
<1>7. ASSUME NEW p \in Sales, RefundSale(p)
      PROVE  ReportInv'
  BY <1>7, RefundSaleStep
<1>8. ASSUME NEW p \in Sales, NEW b \in Stays, PaySale(p, b)
      PROVE  ReportInv'
  BY <1>8, PaySaleStep
<1>9. ASSUME NEW b \in Stays, MakeStay(b)
      PROVE  ReportInv'
  <2>1. WriteRow({"ranking", "own"}, b) /\ stay' = [stay EXCEPT ![b] = "pending"]
        /\ UNCHANGED <<sale, activeRooms, openLogs, registrant>>
    BY <1>9 DEF MakeStay
  <2> QED
    BY <2>1, StayWritten
<1>10. ASSUME NEW b \in Stays, NEW s \in {"confirmed", "cancelled"}, SettleStay(b, s)
       PROVE  ReportInv'
  <2>1. WriteRow({"ranking", "own"}, b) /\ stay' = [stay EXCEPT ![b] = s]
        /\ UNCHANGED <<sale, activeRooms, openLogs, registrant>>
    BY <1>10 DEF SettleStay
  <2> QED
    BY <2>1, StayWritten
<1>11. ASSUME NEW v \in Registrants, NEW room \in ReportRooms, EnterRoom(v, room) \/ LeaveRoom(v, room)
       PROVE  ReportInv'
  <2>1. /\ WriteRow({"occupancy"}, <<v, room>>)
        /\ openLogs' \ {<<v, room>>} = openLogs \ {<<v, room>>}
        /\ UNCHANGED <<sale, stay, registrant, activeRooms>>
    BY <1>11 DEF EnterRoom, LeaveRoom
  <2> QED
    BY <2>1, RoomWritten
<1>12. ASSUME NEW room \in ReportRooms, SwitchRoom(room)
       PROVE  ReportInv'
  <2>1. /\ WriteRow({"occupancy"}, <<"room", room>>)
        /\ \A other : <<"room", other>> # <<"room", room>> =>
              (other \in activeRooms' <=> other \in activeRooms)
        /\ UNCHANGED <<sale, stay, registrant, openLogs>>
    BY <1>12 DEF SwitchRoom
  <2> QED
    BY <2>1, RoomWritten
<1>13. ASSUME NEW a \in Registrants, ChangeAccount(a)
       PROVE  ReportInv'
  BY <1>13, ChangeAccountStep
<1> QED
  BY <1>1, <1>2, <1>3, <1>4, <1>5, <1>6, <1>7, <1>8, <1>9, <1>10, <1>11, <1>12, <1>13 DEF ReportsNext

\* The figures of the dashboards agree with the rows they were made of, whatever
\* is paid, refunded, booked, visited or registered while they are made.
THEOREM ReportsFollow == ReportsSpec => []ReportsAgree
<1>1. ReportInv /\ [ReportsNext]_reportVars => ReportInv'
  BY ReportStep
<1> QED
  BY <1>1, ReportsInitInv, ReportInvAgrees, PTL DEF ReportsSpec
==============================================================================
