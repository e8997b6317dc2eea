---------------------------- MODULE PlatformProofs ---------------------------
(***************************************************************************)
(* The notifications (Notifications) and the pages of a booking            *)
(* (BookingPages), for any instance; and the composition: what holds of a  *)
(* part on its own holds of it on the platform, where the parts share no   *)
(* state.                                                                  *)
(***************************************************************************)
EXTENDS MCPlatform, UserSessionsProofs, PagesProofs

-----------------------------------------------------------------------------
\* Notifications

NoticeRows == [id : Nat, read : BOOLEAN]
\* torn: the number read with the list, then whether the two disagree.
NoticeLists(T) == [status : {"rows"}, rows : SUBSET NoticeRows, unread : Nat, torn : T]
NoticeCalls == [op : {"one", "all"}, by : NoticeKeys, ids : SUBSET Nat, at : {"sent", "done"}]
NoticeQueries(C) ==
    [seen : NoticeLists(BOOLEAN) \cup {NoData}, stale : BOOLEAN, failed : BOOLEAN,
     fetch : {"idle", "sent", "listed", "read"}, copy : C]
Read(q) ==
    CASE q.fetch = "listed" -> NoticeLists(Nat)
      [] q.fetch = "read" -> NoticeLists(BOOLEAN)
      [] OTHER -> {NoData}

UnreadOf(list) == {r \in list : ~ r.read}

\* The number of unread ones that goes with a list of at most limit rows.
Fits(list, n, limit) ==
    IF Cardinality(list) < limit
    THEN n = Cardinality(UnreadOf(list))
    ELSE n >= Cardinality(UnreadOf(list))

\* What was reported as read is.
Heeds(list, debt) == \A r \in list : r.id \in debt => r.read

\* A query shows what heeds the reports, or will once what is under way arrived.
NoticeQuery(q, limit, debt, ids, typed) ==
    /\ q \in NoticeQueries(Read(q))
    /\ q.fetch = "listed" => Fits(q.copy.rows, q.copy.torn, limit)
    /\ q.fetch = "read" /\ typed => q.copy.torn \/ Fits(q.copy.rows, q.copy.unread, limit)
    /\ q.seen # NoData /\ typed /\ ~ q.seen.torn => Fits(q.seen.rows, q.seen.unread, limit)
    /\ IdsOf(ShownNotices(q)) \subseteq ids
    /\ q.fetch \in {"listed", "read"} => Heeds(q.copy.rows, debt)
    /\ q.fetch = "idle" /\ ~ q.stale => Heeds(ShownNotices(q), debt)

\* A call marks what was shown, and has marked it when it is answered.
NoticeCallSound(c) ==
    /\ c \in NoticeCalls /\ c.ids \subseteq DOMAIN notices
    /\ c.op = "one" => c.ids \subseteq known
    /\ c.at = "done" => c.ids \cap UnreadIds = {}
    /\ noticeApi = "built" => c.op = "one"

\* Rows that are read were shown, and reports were of rows that are.
RowsSound ==
    /\ notices \in Seq({"unread", "read"})
    /\ noticeDebt \subseteq DOMAIN notices \ UnreadIds
    /\ DOMAIN notices \ UnreadIds \subseteq known

QueriesSound ==
    /\ noticeCache = [k \in NoticeKeys |-> noticeCache[k]]
    /\ \A k \in NoticeKeys :
          NoticeQuery(noticeCache[k], NoticeLimit(k), noticeDebt, known, noticeApi = "typed")
    /\ noticeView = "elsewhere" =>
          noticeCache["page"].seen = NoData /\ noticeCache["page"].fetch = "idle"

NoticeInv == RowsSound /\ (\A c \in noticeCalls : NoticeCallSound(c)) /\ QueriesSound

\* The library's steps.
LEMMA NoticeQueryKept ==
  ASSUME NEW q, NEW limit \in Nat, NEW debt, NEW ids, NEW typed \in BOOLEAN,
         NoticeQuery(q, limit, debt, ids, typed)
  PROVE  /\ \A b \in BOOLEAN : /\ NoticeQuery(StartFetch(q, b), limit, debt, ids, typed)
                               /\ NoticeQuery(OnMount(q, b), limit, debt, ids, typed)
         /\ \A more : NoticeQuery(q, limit, debt, ids \cup more, typed)
<1>1. ASSUME NEW b \in BOOLEAN PROVE NoticeQuery(StartFetch(q, b), limit, debt, ids, typed)
  <2>1. CASE StartFetch(q, b) = q
    BY <2>1
  <2>2. CASE StartFetch(q, b) # q
    <3>1. PICK s : s = [q EXCEPT !.fetch = "sent", !.copy = NoData]
      OBVIOUS
    <3>2. StartFetch(q, b) = s
      BY <2>2, <3>1 DEF StartFetch
    <3>3. q \in NoticeQueries(Read(q))
      BY DEF NoticeQuery
    <3>4. s \in NoticeQueries({NoData}) /\ s.fetch = "sent" /\ s.seen = q.seen
      BY <3>1, <3>3 DEF NoticeQueries
    <3> QED
      BY <3>2, <3>4 DEF NoticeQuery, ShownNotices, Read
  <2> QED
    BY <2>1, <2>2
<1>2. ASSUME NEW b \in BOOLEAN PROVE NoticeQuery(OnMount(q, b), limit, debt, ids, typed)
  BY <1>1 DEF OnMount
<1>3. ASSUME NEW more PROVE NoticeQuery(q, limit, debt, ids \cup more, typed)
  BY DEF NoticeQuery
<1> QED
  BY <1>1, <1>2, <1>3

\* A query that was never fetched shows nothing.
LEMMA EmptyNoticeQuery ==
  ASSUME NEW limit \in Nat, NEW debt, NEW ids, NEW typed \in BOOLEAN
  PROVE  NoticeQuery(EmptyQuery, limit, debt, ids, typed)
<1>1. /\ EmptyQuery \in NoticeQueries(Read(EmptyQuery))
      /\ EmptyQuery.fetch = "idle" /\ EmptyQuery.seen = NoData
  BY DEF EmptyQuery, NoticeQueries, Read
<1>2. ShownNotices(EmptyQuery) = {}
  BY <1>1 DEF ShownNotices
<1> QED
  BY <1>1, <1>2 DEF NoticeQuery, IdsOf, Heeds

\* An answer is shown.
LEMMA NoticeArrives ==
  ASSUME NEW q, NEW limit \in Nat, NEW debt, NEW ids, NEW typed \in BOOLEAN,
         NoticeQuery(q, limit, debt, ids, typed), q.fetch = "read"
  PROVE  NoticeQuery(Arrived(q), limit, debt, ids \cup IdsOf(q.copy.rows), typed)
<1>1. q.copy \in NoticeLists(BOOLEAN)
  BY DEF NoticeQuery, NoticeQueries, Read
<1>2. PICK a : a = Arrived(q)
  OBVIOUS
<1>3. a \in NoticeQueries({NoData}) /\ a.fetch = "idle" /\ a.seen = q.copy
  BY <1>1, <1>2 DEF Arrived, EmptyQuery, NoticeQueries
<1>4. q.copy # NoData
  BY <1>1 DEF NoticeLists, NoData
<1>5. ShownNotices(a) = q.copy.rows
  BY <1>3, <1>4 DEF ShownNotices
<1> QED
  BY <1>2, <1>3, <1>5 DEF NoticeQuery, Read

\* A query that shows something may be invalidated for any report, and so may
\* one that rests and shows nothing.
LEMMA InvalidatedHeeds ==
  ASSUME NEW q, NEW limit \in Nat, NEW debt, NEW ids, NEW typed \in BOOLEAN,
         NoticeQuery(q, limit, debt, ids, typed), NEW more, NEW mounted \in BOOLEAN
  PROVE  /\ NoticeQuery(Invalidated(q, mounted), limit, debt, ids, typed)
         /\ mounted /\ q.seen # NoData =>
               NoticeQuery(Invalidated(q, mounted), limit, more, ids, typed)
         /\ ~ mounted /\ q.seen = NoData /\ q.fetch = "idle" =>
               /\ NoticeQuery(Invalidated(q, mounted), limit, more, ids, typed)
               /\ Invalidated(q, mounted).seen = NoData
               /\ Invalidated(q, mounted).fetch = "idle"
<1>1. PICK m : m = [q EXCEPT !.stale = TRUE]
  OBVIOUS
<1>2. q \in NoticeQueries(Read(q))
  BY DEF NoticeQuery
<1>3. /\ m \in NoticeQueries(Read(q)) /\ m.stale /\ m.seen = q.seen /\ m.fetch = q.fetch
      /\ m.copy = q.copy
  BY <1>1, <1>2 DEF NoticeQueries
<1>4. ShownNotices(m) = ShownNotices(q)
  BY <1>3 DEF ShownNotices
<1>5. NoticeQuery(m, limit, debt, ids, typed)
  BY <1>3, <1>4 DEF NoticeQuery, Read
<1>6. Invalidated(q, mounted) = IF mounted THEN StartFetch(m, TRUE) ELSE m
  BY <1>1 DEF Invalidated
<1>7. NoticeQuery(Invalidated(q, mounted), limit, debt, ids, typed)
  BY <1>5, <1>6, NoticeQueryKept
<1>8. ASSUME mounted, q.seen # NoData
      PROVE  NoticeQuery(Invalidated(q, mounted), limit, more, ids, typed)
  <2>1. PICK s : s = [m EXCEPT !.fetch = "sent", !.copy = NoData]
    OBVIOUS
  <2>2. Invalidated(q, mounted) = s
    BY <1>3, <1>6, <1>8, <2>1 DEF StartFetch
  <2>3. s \in NoticeQueries({NoData}) /\ s.fetch = "sent" /\ s.seen = q.seen
    BY <1>3, <2>1 DEF NoticeQueries
  <2> QED
    BY <2>2, <2>3 DEF NoticeQuery, ShownNotices, Read
<1>9. ASSUME ~ mounted, q.seen = NoData, q.fetch = "idle"
      PROVE  /\ NoticeQuery(Invalidated(q, mounted), limit, more, ids, typed)
             /\ Invalidated(q, mounted).seen = NoData
             /\ Invalidated(q, mounted).fetch = "idle"
  <2>1. Invalidated(q, mounted) = m
    BY <1>6, <1>9
  <2> QED
    BY <1>3, <1>5, <1>9, <2>1 DEF NoticeQuery, Heeds, ShownNotices, Read
<1> QED
  BY <1>7, <1>8, <1>9

\* What a list and a count read

LEMMA LargestElement ==
  ASSUME NEW n \in Nat, NEW H, H \subseteq 1..n, H # {}
  PROVE  \E a \in H : \A b \in H : b <= a
<1> DEFINE D == {n - a : a \in H}
<1>1. D \subseteq Nat /\ D # {}
  <2>1. \A a \in H : a \in 1..n /\ n - a \in Nat
    OBVIOUS
  <2> QED
    BY <2>1
<1>2. PICK d \in D : \A e \in D : ~(<<e, d>> \in OpToRel(<, Nat))
  BY <1>1, NatLessThanWellFounded, WFMin
<1>3. PICK a \in H : d = n - a
  BY <1>2
<1>4. ASSUME NEW b \in H PROVE b <= a
  <2>1. n - b \in D
    OBVIOUS
  <2>2. ~((n - b) < (n - a))
    BY <1>1, <1>2, <1>3, <2>1 DEF OpToRel
  <2> QED
    BY <2>2
<1> QED
  BY <1>4

\* The newest ones are all there are, if they are fewer than the limit.
LEMMA FewAreAll ==
  ASSUME NEW n \in Nat, NEW kind, kind \subseteq 1..n, NEW limit \in Nat,
         NEW newest, newest = {i \in kind : Cardinality({j \in kind : j > i}) < limit},
         Cardinality(newest) < limit
  PROVE  newest = kind
<1> SUFFICES ASSUME kind \ newest # {} PROVE FALSE
  OBVIOUS
<1>1. IsFiniteSet(kind) /\ IsFiniteSet(newest)
  BY FS_Interval, FS_Subset, 1 \in Int, n \in Int
<1>2. PICK i \in kind \ newest : \A b \in kind \ newest : b <= i
  BY LargestElement
<1> DEFINE later == {j \in kind : j > i}
<1>3. later \subseteq newest
  <2> SUFFICES ASSUME NEW j \in later, j \notin newest PROVE FALSE
    OBVIOUS
  <2>1. j <= i /\ j > i
    BY <1>2
  <2>2. j \in Int /\ i \in Int
    OBVIOUS
  <2> QED
    BY <2>1, <2>2
<1>4. IsFiniteSet(later) /\ Cardinality(later) <= Cardinality(newest)
  BY <1>1, <1>3, FS_Subset
<1>5. ~(Cardinality(later) < limit)
  BY <1>2
<1>6. Cardinality(later) \in Nat /\ Cardinality(newest) \in Nat
  BY <1>1, <1>4, FS_CardinalityType
<1> HIDE DEF later
<1> QED
  BY <1>4, <1>5, <1>6

\* A list has one row per id.
LEMMA OneRowEach ==
  ASSUME NEW S, IsFiniteSet(S), NEW f
  PROVE  LET list == {[id |-> i, read |-> f[i] = "read"] : i \in S} IN
         IsFiniteSet(list) /\ Cardinality(list) = Cardinality(S)
<1> DEFINE list == {[id |-> i, read |-> f[i] = "read"] : i \in S}
           row == [i \in S |-> [id |-> i, read |-> f[i] = "read"]]
<1>1. \A i \in S : row[i] \in list /\ row[i].id = i
  OBVIOUS
<1>2. \A r \in list : \E i \in S : row[i] = r
  OBVIOUS
<1>3. row \in [S -> list]
  OBVIOUS
<1> HIDE DEF row, list
<1>4. row \in Bijection(S, list)
  <2>1. \A i, j \in S : row[i] = row[j] => i = j
    BY <1>1
  <2>2. row \in Injection(S, list)
    BY <1>3, <2>1 DEF Injection, IsInjective
  <2>3. row \in Surjection(S, list)
    BY <1>2, <1>3 DEF Surjection
  <2> QED
    BY <2>2, <2>3 DEF Bijection
<1>5. ExistsBijection(S, list)
  BY <1>4 DEF ExistsBijection
<1>6. IsFiniteSet(list) /\ Cardinality(list) = Cardinality(S)
  BY <1>5, FS_Bijection
<1> QED
  BY <1>6 DEF list

\* A list and the number of unread rows that is read with it fit.
LEMMA ListingFits ==
  ASSUME notices \in Seq({"unread", "read"}), NEW k \in NoticeKeys
  PROVE  /\ Listing(k) \in SUBSET NoticeRows
         /\ Cardinality(UnreadIds) \in Nat
         /\ Fits(Listing(k), Cardinality(UnreadIds), NoticeLimit(k))
         /\ \A r \in Listing(k) : r.id \in DOMAIN notices /\ (r.read <=> r.id \notin UnreadIds)
<1> DEFINE n == Len(notices)
           kind == IF k = "page" /\ noticeView = "unread" THEN UnreadIds ELSE DOMAIN notices
           limit == NoticeLimit(k)
           newest == {i \in kind : Cardinality({j \in kind : j > i}) < limit}
           new == newest \cap UnreadIds
           rowsOf(S) == {[id |-> i, read |-> notices[i] = "read"] : i \in S}
<1>1. /\ n \in Nat /\ DOMAIN notices = 1..n
      /\ \A i \in 1..n : notices[i] \in {"unread", "read"}
  OBVIOUS
<1>2. UnreadIds \subseteq 1..n /\ kind \subseteq 1..n
  BY <1>1 DEF UnreadIds
<1>3. IsFiniteSet(UnreadIds) /\ IsFiniteSet(kind) /\ IsFiniteSet(newest) /\ IsFiniteSet(new)
  <2>1. IsFiniteSet(1..n)
    BY <1>1, FS_Interval, 1 \in Int, n \in Int
  <2> QED
    BY <1>2, <2>1, FS_Subset
<1>4. limit \in Nat
  BY NoticeLimitsAssumption DEF NoticeLimit
<1>5. Listing(k) = rowsOf(newest)
  BY DEF Listing
<1>6. UnreadOf(Listing(k)) = rowsOf(new)
  <2>1. \A i \in newest : i \in UnreadIds <=> notices[i] # "read"
    BY <1>1, <1>2 DEF UnreadIds
  <2> HIDE DEF newest
  <2>2. ASSUME NEW r \in rowsOf(newest), ~ r.read PROVE r \in rowsOf(new)
    <3>1. PICK i \in newest : r = [id |-> i, read |-> notices[i] = "read"]
      OBVIOUS
    <3>2. notices[i] # "read"
      BY <2>2, <3>1
    <3>3. i \in new
      BY <2>1, <3>2
    <3> QED
      BY <3>1, <3>3
  <2>3. ASSUME NEW r \in rowsOf(new) PROVE r \in rowsOf(newest) /\ ~ r.read
    <3>1. PICK i \in new : r = [id |-> i, read |-> notices[i] = "read"]
      OBVIOUS
    <3>2. i \in newest /\ notices[i] # "read"
      BY <2>1
    <3> QED
      BY <3>1, <3>2
  <2> QED
    BY <1>5, <2>2, <2>3 DEF UnreadOf
<1>7. Cardinality(Listing(k)) = Cardinality(newest)
  <2> HIDE DEF newest
  <2> QED
    BY <1>3, <1>5, OneRowEach
<1>8. Cardinality(UnreadOf(Listing(k))) = Cardinality(new)
  <2> HIDE DEF new
  <2> QED
    BY <1>3, <1>6, OneRowEach
<1>9. Cardinality(new) <= Cardinality(UnreadIds)
  BY <1>3, FS_Subset
<1>10. ASSUME Cardinality(newest) < limit PROVE new = UnreadIds
  <2>1. newest = kind
    BY <1>1, <1>2, <1>4, <1>10, FewAreAll
  <2> QED
    BY <1>1, <1>2, <2>1
<1>11. Cardinality(UnreadIds) \in Nat /\ Cardinality(new) \in Nat
  BY <1>3, FS_CardinalityType
<1>12. Fits(Listing(k), Cardinality(UnreadIds), limit)
  <2> HIDE DEF new, newest, kind, limit
  <2> QED
    BY <1>7, <1>8, <1>9, <1>10, <1>11 DEF Fits
<1>13. \A i \in newest : i \in 1..n /\ (notices[i] = "read" <=> i \notin UnreadIds)
  BY <1>1, <1>2 DEF UnreadIds
<1>14. /\ Listing(k) \in SUBSET NoticeRows
       /\ \A r \in Listing(k) : r.id \in DOMAIN notices /\ (r.read <=> r.id \notin UnreadIds)
  <2> HIDE DEF newest
  <2> SUFFICES ASSUME NEW r \in rowsOf(newest)
               PROVE  r \in NoticeRows /\ r.id \in 1..n /\ (r.read <=> r.id \notin UnreadIds)
    BY <1>1, <1>5
  <2>1. PICK i \in newest : r = [id |-> i, read |-> notices[i] = "read"]
    OBVIOUS
  <2>2. r \in NoticeRows
    BY <1>13, <2>1 DEF NoticeRows
  <2>3. r.id = i /\ (r.read <=> notices[i] = "read")
    BY <2>1
  <2> QED
    BY <1>13, <2>2, <2>3
<1> QED
  BY <1>11, <1>12, <1>14

\* The steps

LEMMA NoticeLimits == \A k \in NoticeKeys : NoticeLimit(k) \in Nat
  BY NoticeLimitsAssumption DEF NoticeLimit

LEMMA NoticesInitInv == NotificationsInit => NoticeInv
<1> SUFFICES ASSUME NotificationsInit PROVE NoticeInv
  OBVIOUS
<1>1. /\ notices = <<>> /\ noticeDebt = {} /\ known = {} /\ noticeCalls = {}
      /\ noticeView = "elsewhere"
      /\ noticeCache = [k \in NoticeKeys |->
            IF k = "bell" THEN StartFetch(EmptyQuery, FALSE) ELSE EmptyQuery]
  BY DEF NotificationsInit
<1>2. RowsSound
  BY <1>1 DEF RowsSound, UnreadIds
<1>3. ASSUME NEW k \in NoticeKeys
      PROVE  NoticeQuery(noticeCache[k], NoticeLimit(k), noticeDebt, known, noticeApi = "typed")
  <2>1. NoticeQuery(EmptyQuery, NoticeLimit(k), noticeDebt, known, noticeApi = "typed")
    BY NoticeLimits, EmptyNoticeQuery
  <2>2. NoticeQuery(StartFetch(EmptyQuery, FALSE), NoticeLimit(k), noticeDebt, known,
                    noticeApi = "typed")
    BY <2>1, NoticeLimits, NoticeQueryKept
  <2> QED
    BY <1>1, <2>1, <2>2
<1>4. noticeCache["page"] = EmptyQuery
  BY <1>1 DEF NoticeKeys
<1>5. QueriesSound
  <2>1. noticeCache = [k \in NoticeKeys |-> noticeCache[k]]
    BY <1>1
  <2>2. EmptyQuery.seen = NoData /\ EmptyQuery.fetch = "idle"
    BY DEF EmptyQuery
  <2> QED
    BY <1>3, <1>4, <2>1, <2>2 DEF QueriesSound
<1> QED
  BY <1>1, <1>2, <1>5 DEF NoticeInv

\* A new row, unread.
LEMMA NotifyInv == ASSUME NoticeInv, Notify PROVE NoticeInv'
<1> DEFINE n == Len(notices)
<1>1. /\ notices' = Append(notices, "unread")
      /\ UNCHANGED <<noticeApi, noticeView, noticeCalls, noticeCache, noticeDebt, known>>
  BY DEF Notify
<1>2. /\ notices \in Seq({"unread", "read"}) /\ n \in Nat /\ DOMAIN notices = 1..n
  BY DEF NoticeInv, RowsSound
<1>3. /\ notices' \in Seq({"unread", "read"}) /\ DOMAIN notices' = 1..(n + 1)
      /\ notices'[n + 1] = "unread" /\ \A i \in 1..n : notices'[i] = notices[i]
  BY <1>1, <1>2
<1>4. UnreadIds' = UnreadIds \cup {n + 1}
  BY <1>2, <1>3 DEF UnreadIds
<1>5. DOMAIN notices' \ UnreadIds' = DOMAIN notices \ UnreadIds
  BY <1>2, <1>3, <1>4
<1>6. RowsSound'
  BY <1>1, <1>3, <1>5 DEF NoticeInv, RowsSound
<1>7. ASSUME NEW c \in noticeCalls PROVE NoticeCallSound(c)'
  <2>1. NoticeCallSound(c)
    BY DEF NoticeInv
  <2>2. c.ids \subseteq 1..n
    BY <1>2, <2>1 DEF NoticeCallSound
  <2>3. c.ids \subseteq DOMAIN notices'
    BY <1>2, <1>3, <2>2
  <2>4. c.at = "done" => c.ids \cap UnreadIds' = {}
    BY <1>2, <1>4, <2>1, <2>2 DEF NoticeCallSound
  <2> QED
    BY <1>1, <2>1, <2>3, <2>4 DEF NoticeCallSound
<1>8. QueriesSound'
  BY <1>1 DEF NoticeInv, QueriesSound
<1> QED
  BY <1>1, <1>6, <1>7, <1>8 DEF NoticeInv

\* What leaves the rows and the calls alone.
LEMMA CacheStep ==
  ASSUME NoticeInv, UNCHANGED <<notices, noticeApi, noticeCalls, noticeDebt>>,
         known \subseteq known', QueriesSound'
  PROVE  NoticeInv'
<1>1. UnreadIds' = UnreadIds
  BY DEF UnreadIds
<1> QED
  BY <1>1 DEF NoticeInv, RowsSound, NoticeCallSound

LEMMA ShowInv ==
  ASSUME NoticeInv, NEW view, NEW fresh \in BOOLEAN, ShowNotices(view, fresh) PROVE NoticeInv'
<1> DEFINE typed == noticeApi = "typed"
           Good(k, q) == NoticeQuery(q, NoticeLimit(k), noticeDebt, known, typed)
<1>1. /\ noticeView' = view
      /\ UNCHANGED <<notices, noticeApi, noticeCalls, noticeDebt, known>>
  BY DEF ShowNotices, noticeServer
<1>2. PICK bell, page :
        /\ noticeCache' = [bell |-> bell, page |-> page]
        /\ bell \in {OnMount(noticeCache["bell"], fresh), noticeCache["bell"]}
        /\ page = IF view = "elsewhere" THEN EmptyQuery ELSE OnMount(EmptyQuery, FALSE)
  BY DEF ShowNotices
<1>3. Good("bell", noticeCache["bell"])
  BY DEF NoticeInv, QueriesSound, NoticeKeys
<1>4. Good("bell", bell)
  <2>1. NoticeLimit("bell") \in Nat /\ typed \in BOOLEAN
    BY NoticeLimits DEF NoticeKeys
  <2>2. Good("bell", OnMount(noticeCache["bell"], fresh))
    BY <1>3, <2>1, NoticeQueryKept
  <2> QED
    BY <1>2, <1>3, <2>2
<1>5. Good("page", EmptyQuery)
  BY EmptyNoticeQuery, NoticeLimits DEF NoticeKeys
<1>6. Good("page", page)
  BY <1>2, <1>5, NoticeQueryKept, NoticeLimits DEF NoticeKeys
<1>7. /\ noticeCache'["bell"] = bell /\ noticeCache'["page"] = page
      /\ noticeCache' = [k \in NoticeKeys |-> noticeCache'[k]]
  BY <1>2 DEF NoticeKeys
<1>8. view = "elsewhere" => page.seen = NoData /\ page.fetch = "idle"
  BY <1>2 DEF EmptyQuery
<1>9. QueriesSound'
  BY <1>1, <1>4, <1>6, <1>7, <1>8 DEF QueriesSound, NoticeKeys, NoticeLimit
<1> QED
  BY <1>1, <1>9, CacheStep

\* One query changes; that of the page rests while it is not shown.
LEMMA OneQueryStep ==
  ASSUME NoticeInv, NEW k \in NoticeKeys, NEW q,
         noticeCache' = [noticeCache EXCEPT ![k] = q],
         UNCHANGED <<notices, noticeApi, noticeCalls, noticeDebt, noticeView>>,
         known \subseteq known',
         k \in NoticesShown(noticeView) \/ noticeCache[k].fetch # "idle",
         NoticeQuery(q, NoticeLimit(k), noticeDebt, known', noticeApi = "typed")
  PROVE  NoticeInv'
<1>1. noticeView = "elsewhere" => k = "bell"
  BY DEF NoticeInv, QueriesSound, NoticesShown, NoticeKeys
<1>2. noticeCache' = [j \in NoticeKeys |-> IF j = k THEN q ELSE noticeCache[j]]
  BY DEF NoticeInv, QueriesSound
<1>3. ASSUME NEW j \in NoticeKeys
      PROVE  NoticeQuery(noticeCache'[j], NoticeLimit(j), noticeDebt, known', noticeApi = "typed")
  <2>1. known' = known \cup known'
    OBVIOUS
  <2>2. NoticeQuery(noticeCache[j], NoticeLimit(j), noticeDebt, known, noticeApi = "typed")
    BY DEF NoticeInv, QueriesSound
  <2>3. NoticeQuery(noticeCache[j], NoticeLimit(j), noticeDebt, known \cup known',
                    noticeApi = "typed")
    BY <2>2, NoticeQueryKept, NoticeLimits
  <2> QED
    BY <1>2, <2>1, <2>3
<1>4. noticeView' = "elsewhere" => noticeCache'["page"] = noticeCache["page"]
  BY <1>1, <1>2 DEF NoticeKeys
<1>5. QueriesSound'
  <2>1. noticeCache' = [j \in NoticeKeys |-> noticeCache'[j]]
    BY <1>2
  <2>2. noticeView' = "elsewhere" =>
          noticeCache'["page"].seen = NoData /\ noticeCache'["page"].fetch = "idle"
    BY <1>4 DEF NoticeInv, QueriesSound
  <2> QED
    BY <1>3, <2>1, <2>2 DEF QueriesSound, NoticeLimit
<1> QED
  BY <1>5, CacheStep

LEMMA PollInv ==
  ASSUME NoticeInv, NEW k \in NoticeKeys, PollNotices(k) PROVE NoticeInv'
<1>1. PICK q : q = StartFetch(noticeCache[k], FALSE)
  OBVIOUS
<1>2. /\ noticeCache' = [noticeCache EXCEPT ![k] = q]
      /\ UNCHANGED <<notices, noticeApi, noticeCalls, noticeDebt, noticeView, known>>
      /\ k \in NoticesShown(noticeView)
  BY <1>1 DEF PollNotices, noticeServer
<1>3. NoticeQuery(noticeCache[k], NoticeLimit(k), noticeDebt, known, noticeApi = "typed")
  BY DEF NoticeInv, QueriesSound
<1>4. NoticeQuery(q, NoticeLimit(k), noticeDebt, known', noticeApi = "typed")
  BY <1>1, <1>2, <1>3, NoticeQueryKept, NoticeLimits
<1> QED
  BY <1>2, <1>4, OneQueryStep

\* A mark that is sent.
LEMMA SendMarkInv ==
  ASSUME NoticeInv, NEW op, NEW by, NEW ids, SendMark(op, by, ids),
         NoticeCallSound([op |-> op, by |-> by, ids |-> ids, at |-> "sent"])
  PROVE  NoticeInv'
<1>1. PICK c : c = [op |-> op, by |-> by, ids |-> ids, at |-> "sent"]
  OBVIOUS
<1>2. /\ noticeCalls' = noticeCalls \cup {c}
      /\ UNCHANGED <<noticeView, noticeCache, noticeDebt, known, notices, noticeApi>>
  BY <1>1 DEF SendMark, noticeServer
<1>3. UnreadIds' = UnreadIds
  BY <1>2 DEF UnreadIds
<1>4. \A d : NoticeCallSound(d) => NoticeCallSound(d)'
  BY <1>2, <1>3 DEF NoticeCallSound
<1>5. \A d \in noticeCalls' : NoticeCallSound(d)'
  BY <1>1, <1>2, <1>4 DEF NoticeInv
<1>6. RowsSound' /\ QueriesSound'
  BY <1>2, <1>3 DEF NoticeInv, RowsSound, QueriesSound
<1> QED
  BY <1>5, <1>6 DEF NoticeInv

LEMMA MarkOneInv ==
  ASSUME NoticeInv, NEW k \in NoticeKeys, NEW id \in DOMAIN notices, MarkOne(k, id)
  PROVE  NoticeInv'
<1>1. SendMark("one", k, {id}) /\ [id |-> id, read |-> FALSE] \in ShownNotices(noticeCache[k])
  BY DEF MarkOne
<1>2. id \in IdsOf(ShownNotices(noticeCache[k]))
  BY <1>1 DEF IdsOf
<1>3. id \in known /\ id \in Nat
  BY <1>2 DEF NoticeInv, QueriesSound, NoticeQuery, RowsSound
<1>4. NoticeCallSound([op |-> "one", by |-> k, ids |-> {id}, at |-> "sent"])
  BY <1>3 DEF NoticeCallSound, NoticeCalls
<1> QED
  BY <1>1, <1>4, SendMarkInv

LEMMA MarkAllInv ==
  ASSUME NoticeInv, NEW k \in NoticeKeys, MarkAll(k) PROVE NoticeInv'
<1>1. SendMark("all", k, {}) /\ noticeApi # "built"
  BY DEF MarkAll, ShownCount
<1>2. NoticeCallSound([op |-> "all", by |-> k, ids |-> {}, at |-> "sent"])
  BY <1>1 DEF NoticeCallSound, NoticeCalls
<1> QED
  BY <1>1, <1>2, SendMarkInv

\* The UPDATE marks rows that were shown, or that are taken along.
LEMMA ServeMarkInv ==
  ASSUME NoticeInv, NEW c \in noticeCalls, ServeMark(c) PROVE NoticeInv'
<1> DEFINE n == Len(notices)
<1>1. PICK ids : ids = IF c.op = "all" THEN UnreadIds ELSE c.ids
  OBVIOUS
<1>2. PICK d : d = [c EXCEPT !.at = "done", !.ids = ids]
  OBVIOUS
<1>3. /\ c.at = "sent"
      /\ notices' = [i \in DOMAIN notices |-> IF i \in ids THEN "read" ELSE notices[i]]
      /\ known' = IF c.op = "all" THEN known \cup ids ELSE known
      /\ noticeCalls' = (noticeCalls \ {c}) \cup {d}
      /\ UNCHANGED <<noticeApi, noticeView, noticeCache, noticeDebt>>
  BY <1>1, <1>2 DEF ServeMark, MarkRead
<1>4. NoticeCallSound(c)
  BY DEF NoticeInv
<1>5. /\ notices \in Seq({"unread", "read"}) /\ n \in Nat /\ DOMAIN notices = 1..n
  BY DEF NoticeInv, RowsSound
<1>6. ids \subseteq 1..n
  BY <1>1, <1>4, <1>5 DEF UnreadIds, NoticeCallSound
<1>7. /\ notices' \in [1..n -> {"unread", "read"}] /\ DOMAIN notices' = 1..n
      /\ \A i \in 1..n : notices'[i] = IF i \in ids THEN "read" ELSE notices[i]
  BY <1>3, <1>5
<1>8. notices' \in Seq({"unread", "read"})
  BY <1>5, <1>7
<1>9. UnreadIds' = UnreadIds \ ids
  BY <1>5, <1>7 DEF UnreadIds
<1>10. ids \subseteq known' /\ known \subseteq known'
  BY <1>1, <1>3, <1>4 DEF NoticeCallSound, NoticeCalls
<1>11. RowsSound'
  BY <1>3, <1>5, <1>7, <1>8, <1>9, <1>10 DEF NoticeInv, RowsSound
<1>12. ASSUME NEW e \in noticeCalls PROVE NoticeCallSound(e)'
  <2>1. NoticeCallSound(e)
    BY DEF NoticeInv
  <2> QED
    BY <1>3, <1>5, <1>7, <1>9, <1>10, <2>1 DEF NoticeCallSound
<1>13. NoticeCallSound(d)'
  <2>1. c \in NoticeCalls
    BY <1>4 DEF NoticeCallSound
  <2>2. ids \in SUBSET Nat
    BY <1>5, <1>6
  <2>3. /\ d \in NoticeCalls /\ d.op = c.op /\ d.ids = ids /\ d.at = "done"
    BY <1>2, <2>1, <2>2 DEF NoticeCalls
  <2> QED
    BY <1>3, <1>4, <1>6, <1>7, <1>9, <1>10, <2>3 DEF NoticeCallSound
<1>14. QueriesSound'
  <2>1. known' = known \cup known'
    BY <1>10
  <2>2. ASSUME NEW k \in NoticeKeys
        PROVE  NoticeQuery(noticeCache[k], NoticeLimit(k), noticeDebt, known \cup known',
                           noticeApi = "typed")
    <3>1. NoticeQuery(noticeCache[k], NoticeLimit(k), noticeDebt, known, noticeApi = "typed")
      BY DEF NoticeInv, QueriesSound
    <3> QED
      BY <3>1, NoticeQueryKept, NoticeLimits
  <2> QED
    BY <1>3, <2>1, <2>2 DEF NoticeInv, QueriesSound, NoticeLimit
<1> QED
  BY <1>3, <1>11, <1>12, <1>13, <1>14 DEF NoticeInv

\* A report adds what it marked to the debt, and every list is fetched again.
LEMMA MarkAnsweredInv ==
  ASSUME NoticeInv, NEW c \in noticeCalls, MarkAnswered(c) PROVE NoticeInv'
<1> DEFINE typed == noticeApi = "typed"
<1>1. /\ c.at = "done" /\ noticeCalls' = noticeCalls \ {c}
      /\ noticeCache' = [k \in NoticeKeys |->
            Invalidated(noticeCache[k], k \in NoticesShown(noticeView))]
      /\ UNCHANGED <<noticeView, known, notices, noticeApi>>
  BY DEF MarkAnswered, InvalidatedNotices, noticeServer
<1>2. \/ noticeDebt' = noticeDebt
      \/ /\ \A k \in NoticesShown(noticeView) : noticeCache[k].seen # NoData
         /\ noticeDebt' = noticeDebt \cup c.ids
  BY DEF MarkAnswered
<1>3. UnreadIds' = UnreadIds
  BY <1>1 DEF UnreadIds
<1>4. NoticeCallSound(c)
  BY DEF NoticeInv
<1>5. RowsSound'
  BY <1>1, <1>2, <1>3, <1>4 DEF NoticeInv, RowsSound, NoticeCallSound
<1>6. \A d \in noticeCalls' : NoticeCallSound(d)'
  BY <1>1, <1>3 DEF NoticeInv, NoticeCallSound
<1>7. ASSUME NEW k \in NoticeKeys
      PROVE  /\ NoticeQuery(noticeCache'[k], NoticeLimit(k), noticeDebt', known, typed)
             /\ k \notin NoticesShown(noticeView) =>
                   noticeCache'[k].seen = NoData /\ noticeCache'[k].fetch = "idle"
  <2>1. PICK q : q = noticeCache[k]
    OBVIOUS
  <2>2. PICK mounted \in BOOLEAN : mounted <=> k \in NoticesShown(noticeView)
    OBVIOUS
  <2>3. noticeCache'[k] = Invalidated(q, mounted)
    BY <1>1, <2>1, <2>2
  <2>4. NoticeQuery(q, NoticeLimit(k), noticeDebt, known, typed)
    BY <2>1 DEF NoticeInv, QueriesSound
  <2>5. ~ mounted => q.seen = NoData /\ q.fetch = "idle"
    BY <2>1, <2>2 DEF NoticeInv, QueriesSound, NoticesShown, NoticeKeys
  <2>6. noticeDebt' = noticeDebt \/ (mounted => q.seen # NoData)
    BY <1>2, <2>1, <2>2
  <2>7. NoticeLimit(k) \in Nat
    BY NoticeLimits
  <2> HIDE DEF typed
  <2>8. typed \in BOOLEAN
    BY DEF typed
  <2>9. NoticeQuery(Invalidated(q, mounted), NoticeLimit(k), noticeDebt', known, typed)
    <3>1. CASE noticeDebt' = noticeDebt
      BY <2>4, <2>7, <2>8, <3>1, InvalidatedHeeds
    <3>2. CASE mounted /\ q.seen # NoData
      BY <2>4, <2>7, <2>8, <3>2, InvalidatedHeeds
    <3>3. CASE ~ mounted
      BY <2>4, <2>5, <2>7, <2>8, <3>3, InvalidatedHeeds
    <3> QED
      BY <2>6, <3>1, <3>2, <3>3
  <2>10. ~ mounted => /\ Invalidated(q, mounted).seen = NoData
                     /\ Invalidated(q, mounted).fetch = "idle"
    BY <2>4, <2>5, <2>7, <2>8, InvalidatedHeeds
  <2> QED
    BY <2>2, <2>3, <2>9, <2>10
<1>8. noticeView' = "elsewhere" =>
        noticeCache'["page"].seen = NoData /\ noticeCache'["page"].fetch = "idle"
  BY <1>1, <1>7 DEF NoticesShown, NoticeKeys
<1>9. QueriesSound'
  <2>1. noticeCache' = [k \in NoticeKeys |-> noticeCache'[k]]
    BY <1>1
  <2> QED
    BY <1>1, <1>7, <1>8, <2>1 DEF QueriesSound, NoticeLimit
<1> QED
  BY <1>5, <1>6, <1>9 DEF NoticeInv

LEMMA MarkLostInv ==
  ASSUME NoticeInv, NEW c \in noticeCalls, MarkLost(c) PROVE NoticeInv'
<1>1. /\ noticeCalls' = noticeCalls \ {c}
      /\ UNCHANGED <<noticeView, noticeCache, noticeDebt, known, notices, noticeApi>>
  BY DEF MarkLost, noticeServer
<1>2. UnreadIds' = UnreadIds
  BY <1>1 DEF UnreadIds
<1> QED
  BY <1>1, <1>2 DEF NoticeInv, RowsSound, QueriesSound, NoticeCallSound

\* The list is read, then the number, and the answer arrives.
LEMMA FetchNoticesInv ==
  ASSUME NoticeInv, NEW k \in NoticeKeys, FetchNotices(k) PROVE NoticeInv'
<1> DEFINE typed == noticeApi = "typed"
<1>1. PICK q : q = noticeCache[k]
  OBVIOUS
<1>2. UNCHANGED <<notices, noticeApi, noticeCalls, noticeDebt, noticeView>>
  BY DEF FetchNotices, noticeServer
<1>3. NoticeQuery(q, NoticeLimit(k), noticeDebt, known, typed)
  BY <1>1 DEF NoticeInv, QueriesSound
<1>4. /\ Listing(k) \in SUBSET NoticeRows
      /\ Cardinality(UnreadIds) \in Nat
      /\ Fits(Listing(k), Cardinality(UnreadIds), NoticeLimit(k))
      /\ Heeds(Listing(k), noticeDebt)
  BY ListingFits DEF NoticeInv, RowsSound, Heeds
<1>5. q \in NoticeQueries(Read(q))
  BY <1>3 DEF NoticeQuery
<1>6. NoticeLimit(k) \in Nat
  BY NoticeLimits
<1>7. ASSUME q.fetch = "sent", UNCHANGED known,
             noticeCache' = [noticeCache EXCEPT ![k] =
                [@ EXCEPT !.fetch = "listed",
                          !.copy = [status |-> "rows", rows |-> Listing(k), unread |-> 0,
                                    torn |-> Cardinality(UnreadIds)]]]
      PROVE  NoticeInv'
  <2>1. PICK d : d = [status |-> "rows", rows |-> Listing(k), unread |-> 0,
                      torn |-> Cardinality(UnreadIds)]
    OBVIOUS
  <2>2. PICK r : r = [q EXCEPT !.fetch = "listed", !.copy = d]
    OBVIOUS
  <2>3. noticeCache' = [noticeCache EXCEPT ![k] = r]
    BY <1>1, <1>7, <2>1, <2>2
  <2>4. d \in NoticeLists(Nat) /\ d.rows = Listing(k) /\ d.torn = Cardinality(UnreadIds)
    BY <1>4, <2>1 DEF NoticeLists
  <2>5. r \in NoticeQueries(NoticeLists(Nat)) /\ r.fetch = "listed" /\ r.copy = d /\ r.seen = q.seen
    BY <1>5, <2>2, <2>4 DEF NoticeQueries
  <2>6. ShownNotices(r) = ShownNotices(q)
    BY <2>5 DEF ShownNotices
  <2>7. NoticeQuery(r, NoticeLimit(k), noticeDebt, known, typed)
    BY <1>3, <1>4, <2>4, <2>5, <2>6 DEF NoticeQuery, Read
  <2> QED
    BY <1>1, <1>2, <1>7, <2>3, <2>7, OneQueryStep
<1>8. ASSUME q.fetch = "listed", UNCHANGED known,
             noticeCache' = [noticeCache EXCEPT ![k] =
                ReadByServer(q, [q.copy EXCEPT !.unread = IF noticeApi = "built" THEN 0
                                                           ELSE Cardinality(UnreadIds),
                                               !.torn = /\ noticeApi = "typed"
                                                        /\ @ # Cardinality(UnreadIds)])]
      PROVE  NoticeInv'
  <2>1. PICK p \in Nat : p = IF noticeApi = "built" THEN 0 ELSE Cardinality(UnreadIds)
    BY <1>4
  <2>2. PICK b \in BOOLEAN : b = (noticeApi = "typed" /\ q.copy.torn # Cardinality(UnreadIds))
    OBVIOUS
  <2>3. PICK d : d = [q.copy EXCEPT !.unread = p, !.torn = b]
    OBVIOUS
  <2>4. PICK r : r = [q EXCEPT !.fetch = "read", !.copy = d]
    OBVIOUS
  <2>5. [q.copy EXCEPT !.unread = IF noticeApi = "built" THEN 0 ELSE Cardinality(UnreadIds),
                       !.torn = /\ noticeApi = "typed"
                                /\ q.copy.torn # Cardinality(UnreadIds)] = d
    BY <2>1, <2>2, <2>3
  <2>6. noticeCache' = [noticeCache EXCEPT ![k] = r]
    <3>1. noticeCache' = [noticeCache EXCEPT ![k] =
             ReadByServer(q, [q.copy EXCEPT !.unread = IF noticeApi = "built" THEN 0
                                                       ELSE Cardinality(UnreadIds),
                                            !.torn = /\ noticeApi = "typed"
                                                     /\ q.copy.torn # Cardinality(UnreadIds)])]
      BY <1>1, <1>8
    <3>2. noticeCache' = [noticeCache EXCEPT ![k] = ReadByServer(q, d)]
      BY <2>5, <3>1, Zenon
    <3> QED
      BY <2>4, <3>2 DEF ReadByServer
  <2>7. q.copy \in NoticeLists(Nat)
    BY <1>5, <1>8 DEF NoticeQueries, Read
  <2>8. /\ d \in NoticeLists(BOOLEAN) /\ d.rows = q.copy.rows /\ d.unread = p
        /\ d.torn = b
    BY <2>3, <2>7 DEF NoticeLists
  <2>9. r \in NoticeQueries(NoticeLists(BOOLEAN)) /\ r.fetch = "read" /\ r.copy = d /\ r.seen = q.seen
    BY <1>5, <2>4, <2>8 DEF NoticeQueries
  <2>10. ShownNotices(r) = ShownNotices(q)
    BY <2>9 DEF ShownNotices
  <2>11. typed => d.torn \/ Fits(d.rows, d.unread, NoticeLimit(k))
    BY <1>3, <1>8, <2>1, <2>2, <2>8 DEF NoticeQuery
  <2>12. NoticeQuery(r, NoticeLimit(k), noticeDebt, known, typed)
    BY <1>3, <1>8, <2>8, <2>9, <2>10, <2>11 DEF NoticeQuery, Read
  <2> QED
    BY <1>1, <1>2, <1>8, <2>6, <2>12, OneQueryStep
<1>9. ASSUME q.fetch = "read", noticeCache' = [noticeCache EXCEPT ![k] = Arrived(@)],
             known' = IF k \in NoticesShown(noticeView) THEN known \cup IdsOf(q.copy.rows) ELSE known
      PROVE  NoticeInv'
  <2>1. k \in NoticesShown(noticeView)
    BY <1>1, <1>9 DEF NoticeInv, QueriesSound, NoticesShown, NoticeKeys
  <2>2. NoticeQuery(Arrived(q), NoticeLimit(k), noticeDebt, known', typed)
    BY <1>3, <1>6, <1>9, <2>1, NoticeArrives
  <2>3. noticeCache' = [noticeCache EXCEPT ![k] = Arrived(q)]
    BY <1>1, <1>9
  <2> QED
    BY <1>2, <1>9, <2>1, <2>2, <2>3, OneQueryStep
<1> QED
  BY <1>1, <1>7, <1>8, <1>9 DEF FetchNotices

LEMMA NoticeStep == NoticeInv /\ [NotificationsNext]_noticeVars => NoticeInv'
<1> SUFFICES ASSUME NoticeInv, [NotificationsNext]_noticeVars PROVE NoticeInv'
  OBVIOUS
<1>1. CASE UNCHANGED noticeVars
  <2>1. UNCHANGED <<noticeView, noticeCalls, noticeCache, noticeDebt, known, noticeApi, notices>>
    BY <1>1 DEF noticeVars, noticeServer
  <2>2. UnreadIds' = UnreadIds
    BY <2>1 DEF UnreadIds
  <2> QED
    BY <2>1, <2>2 DEF NoticeInv, RowsSound, QueriesSound, NoticeCallSound
<1> QED
  BY <1>1, NotifyInv, ShowInv, PollInv, MarkAllInv, MarkOneInv, FetchNoticesInv, ServeMarkInv,
     MarkAnsweredInv, MarkLostInv DEF NotificationsNext

LEMMA NoticeInvAgrees == NoticeInv => NoticesAgree
<1> SUFFICES ASSUME NoticeInv PROVE NoticesAgree
  OBVIOUS
<1>1. ASSUME NEW k \in NoticesShown(noticeView), noticeCache[k].fetch = "idle",
             ~ noticeCache[k].stale, NEW r \in ShownNotices(noticeCache[k]), r.id \in noticeDebt
      PROVE  r.read
  BY <1>1 DEF NoticeInv, QueriesSound, NoticeQuery, Heeds, NoticesShown, NoticeKeys
<1>2. ASSUME NEW k \in NoticeKeys, noticeApi = "typed", noticeCache[k].seen # NoData,
             ~ noticeCache[k].seen.torn
      PROVE  Fits(noticeCache[k].seen.rows, noticeCache[k].seen.unread, NoticeLimit(k))
  BY <1>2 DEF NoticeInv, QueriesSound, NoticeQuery
<1>3. /\ DOMAIN notices \ UnreadIds \subseteq known
      /\ noticeApi = "built" => \A c \in noticeCalls : c.op = "one"
  BY DEF NoticeInv, RowsSound, NoticeCallSound
<1>4. \A k \in NoticeKeys : noticeCache[k].seen # NoData =>
          ShownNotices(noticeCache[k]) = noticeCache[k].seen.rows
  BY DEF ShownNotices
<1> QED
  BY <1>1, <1>2, <1>3, <1>4 DEF NoticesAgree, Fits, UnreadOf

\* Whatever marks, fetches and new rows overlap, what was reported as read is not
\* shown as unread, and what is read was shown.
THEOREM NoticesFollow == NotificationsSpec => []NoticesAgree
<1> QED
  BY NoticesInitInv, NoticeStep, NoticeInvAgrees, PTL DEF NotificationsSpec

-----------------------------------------------------------------------------
\* The pages of a booking

BookingRows == [status : BookingStatuses \cup {"absent"}, ver : Nat]
BookingPageNames == {"list", "detail", "form", "admin"}
AdminOps == {"confirm", "complete", "cancelAny"}
BookingOps == AdminOps \cup {"cancel", "payRow", "payForm", "create"}
BookingViews == [page : BookingPageNames, filter : Filters, step : {0, 1, 2},
                 armed : AdminOps \cup {"none", "cancel"}, popup : {"none", "payRow", "payForm"}]
BookingCalls == [op : BookingOps, at : {"sent", "done", "refused"}, live : BOOLEAN]

\* What is shown is of the version that was reported, or will be fetched again.
BookingQueriesSound ==
    /\ booking \in BookingRows \cup {NoData}
    /\ bookingDebt \in Nat /\ bookingDebt <= booking.ver
    /\ bookingCache \in [BookingKeys -> Queries(BookingRows)]
    /\ \A k \in QueriesOf(bookingView) : Follows(bookingCache[k], bookingDebt)

\* The page that sent a call is there while the call is live.
PagesSending(op) ==
    IF op \in AdminOps THEN {"admin"}
    ELSE IF op \in {"create", "payForm"} THEN {"form"} ELSE {"list", "detail"}

BookingCallSound(c) ==
    /\ c \in BookingCalls
    /\ c.live => bookingView.page \in PagesSending(c.op)
    /\ dialect # "types" => c.op = "create" /\ c.at # "done"

LiveCreates == {c \in bookingCalls : c.op = "create" /\ c.live}

\* The form counts the creation under way once the server has done it.
FormSound ==
    /\ \A c, d \in LiveCreates : c = d
    /\ bookingView.step = 2 => LiveCreates = {} /\ createdByForm = 1
    /\ bookingView.step # 2 => (createdByForm = 1 <=> \E c \in LiveCreates : c.at = "done")

BookingCallsSound ==
    /\ bookingView \in BookingViews
    /\ bookingView.page = "admin" => bookingView.armed # "cancel"
    /\ bookingView.step = 2 => bookingView.page = "form" /\ dialect = "types"
    /\ \A c \in bookingCalls : BookingCallSound(c)
    /\ createdByForm \in {0, 1}
    /\ bookingView.page = "form" => FormSound

BookingInv == BookingQueriesSound /\ BookingCallsSound

LEMMA BookingInvAgrees == BookingInv => BookingPagesAgree
  BY DEF BookingInv, BookingQueriesSound, BookingCallsSound, BookingCallSound, BookingPagesAgree,
         Follows, FormSound, BookingViews

\* The queries

LEMMA ShownQueries ==
  /\ \A v : QueriesOf(v) \subseteq BookingKeys
  /\ \A v, w : v.page = w.page /\ v.filter = w.filter => QueriesOf(v) = QueriesOf(w)
  BY DEF QueriesOf, GetMyBookings, GetBooking, GetAllBookings, BookingKeys

LEMMA BookingDataTyped ==
  ASSUME NEW q \in Queries(BookingRows)
  PROVE  q.seen.ver \in Nat /\ q.copy.ver \in Nat /\ Follows(q, 0)
  BY DEF Queries, BookingRows, NoData, Follows, UpToDate

\* Steps of the calls and of the view leave the queries alone.
LEMMA BookingQueriesKept ==
  ASSUME BookingQueriesSound, UNCHANGED <<booking, bookingCache, bookingDebt>>,
         bookingView'.page = bookingView.page, bookingView'.filter = bookingView.filter
  PROVE  BookingQueriesSound'
<1>1. QueriesOf(bookingView') = QueriesOf(bookingView)
  BY ShownQueries
<1>2. QueriesOf(bookingView)' = QueriesOf(bookingView')
  BY DEF QueriesOf, GetMyBookings, GetBooking, GetAllBookings
<1> QED
  BY <1>1, <1>2 DEF BookingQueriesSound

\* A write of the server only raises the version.
LEMMA BookingWritten ==
  ASSUME BookingQueriesSound, UNCHANGED <<bookingView, bookingCache, bookingDebt>>,
         NEW s \in BookingStatuses, Write(s)
  PROVE  BookingQueriesSound'
<1>1. booking.ver \in Nat
  BY DEF BookingQueriesSound, BookingRows, NoData
<1>2. PICK b : b = [status |-> s, ver |-> booking.ver + 1]
  OBVIOUS
<1>3. booking' = b /\ b \in BookingRows /\ b.ver = booking.ver + 1
  BY <1>1, <1>2 DEF Write, BookingRows
<1>4. bookingDebt <= booking'.ver
  BY <1>1, <1>3 DEF BookingQueriesSound
<1>5. QueriesOf(bookingView)' = QueriesOf(bookingView)
  BY DEF QueriesOf, GetMyBookings, GetBooking, GetAllBookings
<1> QED
  BY <1>3, <1>4, <1>5 DEF BookingQueriesSound

\* An answer reported to the page invalidates what the page shows.
LEMMA InvalidateStep ==
  ASSUME BookingQueriesSound, NEW c, c.live \in BOOLEAN, NEW keys, Invalidate(c, keys),
         UNCHANGED booking,
         bookingView'.page = bookingView.page, bookingView'.filter = bookingView.filter,
         c.live => QueriesOf(bookingView) \subseteq keys
  PROVE  BookingQueriesSound'
<1> DEFINE shown == QueriesOf(bookingView)
<1>1. QueriesOf(bookingView)' = shown
  <2>1. QueriesOf(bookingView') = QueriesOf(bookingView)
    BY ShownQueries
  <2> QED
    BY <2>1 DEF QueriesOf, GetMyBookings, GetBooking, GetAllBookings
<1>2. shown \subseteq BookingKeys
  BY ShownQueries
<1>3. booking.ver \in Nat
  BY DEF BookingQueriesSound, BookingRows, NoData
<1>4. bookingDebt' \in Nat /\ bookingDebt' <= booking'.ver
  BY <1>3 DEF Invalidate, BookingQueriesSound
<1>5. ASSUME NEW k \in BookingKeys
      PROVE  /\ bookingCache'[k] \in Queries(BookingRows)
             /\ k \in shown => Follows(bookingCache'[k], bookingDebt')
  <2>1. PICK q : q = bookingCache[k]
    OBVIOUS
  <2>2. q \in Queries(BookingRows) /\ bookingDebt \in Nat
    BY <2>1 DEF BookingQueriesSound
  <2>3. bookingCache'[k] = IF k \in keys THEN Invalidated(q, k \in shown) ELSE q
    BY <2>1 DEF Invalidate
  <2>4. CASE k \notin shown
    <3>1. PICK m : m = [q EXCEPT !.stale = TRUE]
      OBVIOUS
    <3>2. m \in Queries(BookingRows)
      BY <2>2, <3>1 DEF Queries
    <3>3. Invalidated(q, k \in shown) = m
      BY <2>4, <3>1 DEF Invalidated
    <3> QED
      BY <2>2, <2>3, <2>4, <3>2, <3>3
  <2>5. CASE k \in shown /\ k \in keys
    <3>1. Follows(q, bookingDebt)
      BY <2>1, <2>5 DEF BookingQueriesSound
    <3>2. bookingCache'[k] = Invalidated(q, TRUE)
      BY <2>3, <2>5 DEF Invalidated
    <3> HIDE DEF shown
    <3>3. Invalidated(q, TRUE) \in Queries(BookingRows) /\ Follows(Invalidated(q, TRUE), bookingDebt)
      BY <2>2, <3>1, QueryKept
    <3>4. CASE q.seen # NoData
      BY <2>2, <3>2, <3>3, <3>4, InvalidatedFollows
    <3>5. CASE q.seen = NoData
      <4>1. bookingDebt' = bookingDebt
        BY <2>1, <2>5, <3>5 DEF Invalidate, shown
      <4> QED
        BY <3>2, <3>3, <4>1
    <3> QED
      BY <3>4, <3>5
  <2>6. CASE k \in shown /\ k \notin keys
    <3>1. bookingDebt' = bookingDebt
      BY <2>6 DEF Invalidate
    <3> QED
      BY <2>1, <2>2, <2>3, <2>6, <3>1 DEF BookingQueriesSound
  <2> QED
    BY <2>4, <2>5, <2>6
<1>6. bookingCache' = [k \in BookingKeys |-> bookingCache'[k]]
  BY DEF Invalidate
<1>7. bookingCache' \in [BookingKeys -> Queries(BookingRows)]
  <2> DEFINE f == bookingCache'
  <2>1. f = [k \in BookingKeys |-> f[k]] /\ \A k \in BookingKeys : f[k] \in Queries(BookingRows)
    BY <1>5, <1>6
  <2> HIDE DEF f
  <2>2. f \in [BookingKeys -> Queries(BookingRows)]
    BY <2>1
  <2> QED
    BY <2>2 DEF f
<1> QED
  BY <1>1, <1>2, <1>4, <1>5, <1>7 DEF BookingQueriesSound

\* Another set of queries is shown, which owes nothing.
LEMMA ShowStep ==
  ASSUME BookingQueriesSound, NEW v, Show(v), UNCHANGED booking
  PROVE  BookingQueriesSound'
<1>1. ASSUME NEW k \in BookingKeys PROVE bookingCache'[k] \in Queries(BookingRows)
  <2>1. PICK q : q = bookingCache[k]
    OBVIOUS
  <2>2. q \in Queries(BookingRows) /\ Follows(q, 0)
    BY <2>1, BookingDataTyped DEF BookingQueriesSound
  <2>3. OnMount(q, FALSE) \in Queries(BookingRows)
    BY <2>2, QueryKept
  <2>4. [q EXCEPT !.stale = TRUE] \in Queries(BookingRows)
    <3>1. PICK m : m = [q EXCEPT !.stale = TRUE]
      OBVIOUS
    <3> QED
      BY <2>2, <3>1 DEF Queries
  <2>5. bookingCache'[k] \in {OnMount(q, FALSE), [q EXCEPT !.stale = TRUE], q}
    BY <2>1 DEF Show
  <2> QED
    BY <2>2, <2>3, <2>4, <2>5
<1>2. bookingCache' = [k \in BookingKeys |-> bookingCache'[k]]
  BY DEF Show
<1>3. bookingCache' \in [BookingKeys -> Queries(BookingRows)]
  <2> DEFINE f == bookingCache'
  <2>1. f = [k \in BookingKeys |-> f[k]] /\ \A k \in BookingKeys : f[k] \in Queries(BookingRows)
    BY <1>1, <1>2
  <2> HIDE DEF f
  <2>2. f \in [BookingKeys -> Queries(BookingRows)]
    BY <2>1
  <2> QED
    BY <2>2 DEF f
<1>4. bookingDebt' = 0 /\ booking.ver \in Nat
  BY DEF Show, BookingQueriesSound, BookingRows, NoData
<1>5. QueriesOf(bookingView)' = QueriesOf(v) /\ QueriesOf(v) \subseteq BookingKeys
  <2>1. bookingView' = v
    BY DEF Show
  <2> QED
    BY <2>1, ShownQueries DEF QueriesOf, GetMyBookings, GetBooking, GetAllBookings
<1>6. \A k \in BookingKeys : Follows(bookingCache'[k], 0)
  BY <1>1, BookingDataTyped
<1> QED
  BY <1>3, <1>4, <1>5, <1>6 DEF BookingQueriesSound

\* Steps of queries that keep what they show up to date.
LEMMA BookingCacheStep ==
  ASSUME BookingQueriesSound, UNCHANGED <<booking, bookingDebt>>,
         bookingView'.page = bookingView.page, bookingView'.filter = bookingView.filter,
         bookingCache' = [k \in BookingKeys |-> bookingCache'[k]],
         \A k \in BookingKeys :
            /\ bookingCache'[k] \in Queries(BookingRows)
            /\ k \in QueriesOf(bookingView) => Follows(bookingCache'[k], bookingDebt)
  PROVE  BookingQueriesSound'
<1>1. QueriesOf(bookingView') = QueriesOf(bookingView) /\ QueriesOf(bookingView) \subseteq BookingKeys
  BY ShownQueries
<1>2. QueriesOf(bookingView)' = QueriesOf(bookingView')
  BY DEF QueriesOf, GetMyBookings, GetBooking, GetAllBookings
<1>3. bookingCache' \in [BookingKeys -> Queries(BookingRows)]
  <2> DEFINE f == bookingCache'
  <2>1. f = [k \in BookingKeys |-> f[k]] /\ \A k \in BookingKeys : f[k] \in Queries(BookingRows)
    OBVIOUS
  <2> HIDE DEF f
  <2>2. f \in [BookingKeys -> Queries(BookingRows)]
    BY <2>1
  <2> QED
    BY <2>2 DEF f
<1> QED
  BY <1>1, <1>2, <1>3 DEF BookingQueriesSound

LEMMA SnapshotSound ==
  ASSUME BookingQueriesSound, NEW k
  PROVE  Snapshot(k) \in BookingRows /\ Snapshot(k).ver >= bookingDebt
<1>1. PICK b : b = booking
  OBVIOUS
<1>2. b \in BookingRows \cup {NoData} /\ bookingDebt \in Nat /\ bookingDebt <= b.ver /\ NoData.ver = 0
  BY <1>1 DEF BookingQueriesSound, NoData
<1>3. PICK a : a = Absent
  OBVIOUS
<1>4. a \in BookingRows /\ a.ver >= bookingDebt
  BY <1>1, <1>2, <1>3 DEF Absent, BookingRows
<1>5. Snapshot(k) = a \/ (Snapshot(k) = b /\ b # NoData)
  BY <1>1, <1>3 DEF Snapshot, FindAll, FindById
<1> QED
  BY <1>2, <1>4, <1>5 DEF BookingRows

LEMMA RefocusInv == BookingInv /\ Refocus => BookingInv'
<1> SUFFICES ASSUME BookingInv, Refocus PROVE BookingInv'
  OBVIOUS
<1>1. ASSUME NEW k \in BookingKeys
      PROVE  /\ bookingCache'[k] \in Queries(BookingRows)
             /\ k \in QueriesOf(bookingView) => Follows(bookingCache'[k], bookingDebt)
  BY QueryKept DEF Refocus, BookingInv, BookingQueriesSound
<1>2. BookingQueriesSound'
  BY <1>1, BookingCacheStep DEF BookingInv, Refocus, bookingRest, bookingServer
<1>3. BookingCallsSound'
  BY DEF BookingInv, BookingCallsSound, BookingCallSound, FormSound, LiveCreates,
         Refocus, bookingRest, bookingServer
<1> QED
  BY <1>2, <1>3 DEF BookingInv

\* The calls

\* Steps of the view alone.
LEMMA BookingViewStep ==
  ASSUME BookingInv, UNCHANGED <<bookingCache, bookingCalls, bookingRest>>,
         bookingView' \in BookingViews,
         bookingView'.page = bookingView.page, bookingView'.filter = bookingView.filter,
         bookingView'.step = bookingView.step \/ (bookingView.step # 2 /\ bookingView'.step # 2),
         bookingView.page = "admin" => bookingView'.armed # "cancel"
  PROVE  BookingInv'
<1>1. BookingQueriesSound'
  BY BookingQueriesKept DEF BookingInv, bookingRest, bookingServer
<1>2. BookingCallsSound'
  BY DEF BookingInv, BookingCallsSound, BookingCallSound, FormSound, LiveCreates,
         bookingRest, bookingServer
<1> QED
  BY <1>1, <1>2 DEF BookingInv

\* A call is sent by a page that may.
LEMMA BookingSend ==
  ASSUME BookingInv, UNCHANGED <<bookingView, bookingCache, bookingRest>>,
         NEW op \in BookingOps, MutateBooking(op), bookingView.page \in PagesSending(op),
         op = "create" => ~ IsPending("create") /\ bookingView.step # 2,
         dialect = "types" \/ op = "create"
  PROVE  BookingInv'
<1>1. BookingQueriesSound'
  BY BookingQueriesKept DEF BookingInv, bookingRest, bookingServer
<1>0. PICK new : new = [op |-> op, at |-> "sent", live |-> TRUE]
  OBVIOUS
<1>2. /\ bookingCalls' = bookingCalls \cup {new} /\ new \in BookingCalls
      /\ new.op = op /\ new.at = "sent" /\ new.live
  BY <1>0 DEF MutateBooking, BookingCalls
<1>3. ASSUME NEW c \in bookingCalls' PROVE BookingCallSound(c)'
  <2>1. CASE c \in bookingCalls
    BY <2>1 DEF BookingInv, BookingCallsSound, BookingCallSound, bookingRest, bookingServer
  <2>2. CASE c = new
    BY <1>2, <2>2 DEF BookingCallSound, bookingRest, bookingServer
  <2> QED
    BY <1>2, <2>1, <2>2
<1>4. CASE op = "create"
  <2>1. LiveCreates = {} /\ LiveCreates' = {new}
    BY <1>2, <1>4 DEF LiveCreates, IsPending
  <2>2. bookingView.page = "form" /\ bookingView.step # 2
    BY <1>4 DEF PagesSending, AdminOps
  <2>3. createdByForm # 1
    BY <2>1, <2>2 DEF BookingInv, BookingCallsSound, FormSound
  <2>4. FormSound'
    BY <1>2, <2>1, <2>2, <2>3 DEF FormSound, bookingRest, bookingServer
  <2> QED
    BY <1>1, <1>3, <2>4 DEF BookingInv, BookingCallsSound, bookingRest, bookingServer
<1>5. CASE op # "create"
  <2>1. LiveCreates' = LiveCreates
    BY <1>2, <1>5 DEF LiveCreates
  <2>2. FormSound' <=> FormSound
    BY <2>1 DEF FormSound, bookingRest, bookingServer
  <2> QED
    BY <1>1, <1>3, <2>2 DEF BookingInv, BookingCallsSound, bookingRest, bookingServer
<1> QED
  BY <1>4, <1>5

\* The page is left: no call is reported to it.
LEMMA PageLeft ==
  ASSUME BookingCallsSound, UNCHANGED dialect,
         bookingCalls' = {[c EXCEPT !.live = FALSE] : c \in bookingCalls},
         bookingView' \in BookingViews, bookingView'.step # 2,
         bookingView'.page = "admin" => bookingView'.armed # "cancel",
         createdByForm' \in {0, 1}, bookingView'.page = "form" => createdByForm' = 0
  PROVE  BookingCallsSound'
<1>1. ASSUME NEW c \in bookingCalls'
      PROVE  BookingCallSound(c)' /\ ~ c.live
  <2>1. PICK d \in bookingCalls : c = [d EXCEPT !.live = FALSE]
    OBVIOUS
  <2>2. BookingCallSound(d)
    BY DEF BookingCallsSound
  <2> QED
    BY <2>1, <2>2 DEF BookingCallSound, BookingCalls
<1>2. LiveCreates' = {}
  BY <1>1 DEF LiveCreates
<1>3. bookingView'.page = "form" => FormSound'
  BY <1>2 DEF FormSound
<1> QED
  BY <1>1, <1>3 DEF BookingCallsSound

\* An answer to a call of another kind, or of a page that was left.
LEMMA OtherReceived ==
  ASSUME BookingCallsSound, UNCHANGED <<dialect, createdByForm>>,
         NEW c \in bookingCalls, Received(c), c.op # "create" \/ ~ c.live,
         bookingView' \in BookingViews,
         bookingView'.page = bookingView.page, bookingView'.step = bookingView.step,
         bookingView.page = "admin" => bookingView'.armed # "cancel"
  PROVE  BookingCallsSound'
<1>1. \A d \in bookingCalls' : BookingCallSound(d)'
  BY DEF Received, BookingCallsSound, BookingCallSound
<1>2. LiveCreates' = LiveCreates
  BY DEF Received, LiveCreates
<1>3. FormSound' <=> FormSound
  BY <1>2 DEF FormSound
<1> QED
  BY <1>1, <1>3 DEF BookingCallsSound

\* The form is answered.
LEMMA FormReceived ==
  ASSUME BookingCallsSound, UNCHANGED dialect,
         NEW c \in bookingCalls, Received(c), c.op = "create", c.live,
         bookingView' \in BookingViews, bookingView'.page = bookingView.page,
         bookingView'.armed = bookingView.armed,
         \/ c.at = "done" /\ bookingView'.step = 2 /\ UNCHANGED createdByForm
         \/ UNCHANGED bookingView
            /\ createdByForm' = IF c.at = "done" THEN createdByForm - 1 ELSE createdByForm
  PROVE  BookingCallsSound'
<1>1. BookingCallSound(c) /\ bookingView.page = "form" /\ FormSound
  BY DEF BookingCallsSound, BookingCallSound, PagesSending, AdminOps
<1>2. c \in LiveCreates /\ \A d \in LiveCreates : d = c
  BY <1>1 DEF LiveCreates, FormSound
<1>3. LiveCreates' = {} /\ bookingView.step # 2
  BY <1>1, <1>2 DEF LiveCreates, Received, FormSound
<1>4. createdByForm = IF c.at = "done" THEN 1 ELSE 0
  BY <1>1, <1>2, <1>3 DEF FormSound, BookingCallsSound
<1>5. \A d \in bookingCalls' : BookingCallSound(d)'
  BY DEF Received, BookingCallsSound, BookingCallSound
<1>6. CASE c.at = "done" /\ bookingView'.step = 2 /\ UNCHANGED createdByForm
  <2>1. FormSound'
    BY <1>3, <1>4, <1>6 DEF FormSound
  <2>2. dialect = "types"
    BY <1>1, <1>6 DEF BookingCallSound
  <2> QED
    BY <1>1, <1>4, <1>5, <1>6, <2>1, <2>2 DEF BookingCallsSound
<1>7. CASE /\ UNCHANGED bookingView
           /\ createdByForm' = IF c.at = "done" THEN createdByForm - 1 ELSE createdByForm
  <2>1. createdByForm' = 0
    BY <1>4, <1>7
  <2>2. FormSound'
    BY <1>3, <1>7, <2>1 DEF FormSound
  <2> QED
    BY <1>1, <1>5, <1>7, <2>1, <2>2 DEF BookingCallsSound
<1> QED
  BY <1>6, <1>7

\* The server answers, and may have created the booking.
LEMMA BookingAnswered ==
  ASSUME BookingCallsSound, UNCHANGED <<dialect, bookingView>>,
         NEW c \in bookingCalls, NEW at \in {"done", "refused"}, c.at = "sent", Answer(c, at),
         at = "done" => dialect = "types",
         createdByForm' = IF c.op = "create" /\ c.live /\ at = "done"
                          THEN createdByForm + 1 ELSE createdByForm
  PROVE  BookingCallsSound'
<1>1. PICK d : d = [c EXCEPT !.at = at]
  OBVIOUS
<1>2. BookingCallSound(c)
  BY DEF BookingCallsSound
<1>3. d \in BookingCalls /\ d.op = c.op /\ d.live = c.live /\ d.at = at
  BY <1>1, <1>2 DEF BookingCallSound, BookingCalls
<1>4. bookingCalls' = (bookingCalls \ {c}) \cup {d}
  BY <1>1 DEF Answer
<1>5. \A e \in bookingCalls' : BookingCallSound(e)'
  BY <1>2, <1>3, <1>4 DEF BookingCallsSound, BookingCallSound
<1>6. CASE c.op = "create" /\ c.live
  <2>1. bookingView.page = "form" /\ FormSound
    BY <1>2, <1>6 DEF BookingCallsSound, BookingCallSound, PagesSending, AdminOps
  <2>2. c \in LiveCreates /\ \A e \in LiveCreates : e = c
    BY <1>6, <2>1 DEF LiveCreates, FormSound
  <2>3. LiveCreates' = {d}
    BY <1>3, <1>4, <1>6, <2>2 DEF LiveCreates
  <2>4. createdByForm = 0 /\ bookingView.step # 2
    BY <2>1, <2>2 DEF FormSound, BookingCallsSound
  <2>5. createdByForm' = IF at = "done" THEN 1 ELSE 0
    BY <1>6, <2>4
  <2>6. FormSound'
    BY <1>3, <2>3, <2>4, <2>5 DEF FormSound
  <2> QED
    BY <1>5, <2>5, <2>6 DEF BookingCallsSound
<1>7. CASE ~ (c.op = "create" /\ c.live)
  <2>1. LiveCreates' = LiveCreates
    BY <1>3, <1>4, <1>7 DEF LiveCreates
  <2>2. FormSound' <=> FormSound
    BY <1>7, <2>1 DEF FormSound
  <2> QED
    BY <1>5, <1>7, <2>2 DEF BookingCallsSound
<1> QED
  BY <1>6, <1>7

\* The actions

LEMMA BookingInitInv == BookingPagesInit => BookingInv
<1> SUFFICES ASSUME BookingPagesInit PROVE BookingInv
  OBVIOUS
<1>1. bookingView \in BookingViews /\ bookingView.step = 0 /\ bookingView.armed = "none"
  <2>1. PICK p \in BookingPageNames : bookingView = FreshView(p)
    BY DEF BookingPagesInit, BookingPageNames
  <2> QED
    BY <2>1 DEF FreshView, BookingViews, Filters
<1>2. \A k \in BookingKeys : bookingCache[k] \in Queries(BookingRows)
  <2>1. EmptyQuery \in Queries(BookingRows) /\ Follows(EmptyQuery, 0)
    BY EmptyFollows
  <2>2. StartFetch(EmptyQuery, FALSE) \in Queries(BookingRows)
    BY <2>1, QueryKept
  <2> QED
    BY <2>1, <2>2 DEF BookingPagesInit
<1>3. bookingCache \in [BookingKeys -> Queries(BookingRows)]
  BY <1>2 DEF BookingPagesInit
<1>4. booking \in BookingRows \cup {NoData} /\ booking.ver \in Nat
  BY DEF BookingPagesInit, BookingRows, BookingStatuses, NoData
<1>5. BookingQueriesSound
  BY <1>2, <1>3, <1>4, BookingDataTyped, ShownQueries DEF BookingQueriesSound, BookingPagesInit
<1>6. BookingCallsSound
  BY <1>1 DEF BookingPagesInit, BookingCallsSound, FormSound, LiveCreates
<1> QED
  BY <1>5, <1>6 DEF BookingInv

\* My Bookings, the page of a booking and the form
LEMMA OwnPagesInv ==
  BookingInv /\ (HandleCancel \/ KeepBooking \/ HandlePayRow \/ PaystackClosed \/ ContinueToReview
                 \/ BackToDetails \/ HandleConfirmBooking \/ HandlePayForm)
  => BookingInv'
<1> SUFFICES ASSUME BookingInv,
                    HandleCancel \/ KeepBooking \/ HandlePayRow \/ PaystackClosed \/ ContinueToReview
                    \/ BackToDetails \/ HandleConfirmBooking \/ HandlePayForm
             PROVE  BookingInv'
  OBVIOUS
<1>1. bookingView \in BookingViews
  BY DEF BookingInv, BookingCallsSound
<1>2. Shown # "none" => dialect = "types"
  BY DEF Shown
<1>3. bookingView.step = 2 => bookingView.page = "form" /\ dialect = "types"
  BY DEF BookingInv, BookingCallsSound
<1>4. CASE HandleCancel
  <2>1. CASE bookingView.armed # "cancel"
    <3>1. bookingView' = [bookingView EXCEPT !.armed = "cancel"] /\ bookingView.page # "admin"
      BY <1>4, <2>1 DEF HandleCancel, Armed
    <3>2. /\ bookingView' \in BookingViews /\ bookingView'.page = bookingView.page
          /\ bookingView'.filter = bookingView.filter /\ bookingView'.step = bookingView.step
      BY <1>1, <3>1 DEF BookingViews
    <3> QED
      BY <1>4, <2>1, <3>1, <3>2, BookingViewStep DEF HandleCancel
  <2>2. CASE bookingView.armed = "cancel"
    BY <1>2, <1>4, <2>2, BookingSend
    DEF HandleCancel, PagesSending, BookingOps, AdminOps
  <2> QED
    BY <2>1, <2>2
<1>5. CASE KeepBooking
  <2>1. bookingView' = [bookingView EXCEPT !.armed = "none"]
    BY <1>5 DEF KeepBooking, Armed
  <2>2. /\ bookingView' \in BookingViews /\ bookingView'.page = bookingView.page
        /\ bookingView'.filter = bookingView.filter /\ bookingView'.step = bookingView.step
        /\ bookingView'.armed = "none"
    BY <1>1, <2>1 DEF BookingViews
  <2> QED
    BY <1>5, <2>2, BookingViewStep DEF KeepBooking
<1>6. CASE HandlePayRow
  BY <1>2, <1>6, BookingSend DEF HandlePayRow, PagesSending, BookingOps, AdminOps
<1>7. CASE PaystackClosed
  <2>1. bookingView' = [bookingView EXCEPT !.popup = "none"]
    BY <1>7 DEF PaystackClosed
  <2>2. /\ bookingView' \in BookingViews /\ bookingView'.page = bookingView.page
        /\ bookingView'.filter = bookingView.filter /\ bookingView'.step = bookingView.step
        /\ bookingView'.armed = bookingView.armed
    BY <1>1, <2>1 DEF BookingViews
  <2> QED
    BY <1>7, <2>2, BookingViewStep DEF PaystackClosed, BookingInv, BookingCallsSound
<1>8. CASE ContinueToReview \/ BackToDetails
  <2>1. PICK n \in {0, 1} : bookingView' = [bookingView EXCEPT !.step = n]
    BY <1>8 DEF ContinueToReview, BackToDetails
  <2>2. bookingView.page = "form" /\ bookingView.step # 2
    BY <1>8 DEF ContinueToReview, BackToDetails
  <2>3. /\ bookingView' \in BookingViews /\ bookingView'.page = bookingView.page
        /\ bookingView'.filter = bookingView.filter /\ bookingView'.step = n
    BY <1>1, <2>1 DEF BookingViews
  <2> QED
    BY <1>8, <2>2, <2>3, BookingViewStep DEF ContinueToReview, BackToDetails
<1>9. CASE HandleConfirmBooking
  BY <1>9, BookingSend DEF HandleConfirmBooking, PagesSending, BookingOps, AdminOps
<1>10. CASE HandlePayForm
  BY <1>3, <1>10, BookingSend DEF HandlePayForm, PagesSending, BookingOps, AdminOps
<1> QED
  BY <1>4, <1>5, <1>6, <1>7, <1>8, <1>9, <1>10

\* Another page, by a link or by the callback of the Paystack window
LEMMA LeavePageInv ==
  BookingInv /\ (PaystackCallback \/ \E p \in BookingPageNames : OpenPage(p)) => BookingInv'
<1> SUFFICES ASSUME BookingInv, PaystackCallback \/ \E p \in BookingPageNames : OpenPage(p)
             PROVE  BookingInv'
  OBVIOUS
<1>1. bookingView \in BookingViews /\ bookingCalls = {c \in bookingCalls : c.live \in BOOLEAN}
  BY DEF BookingInv, BookingCallsSound, BookingCallSound, BookingCalls
<1>2. ASSUME NEW p \in BookingPageNames, OpenPage(p) PROVE BookingInv'
  <2>1. PICK v : v = [FreshView(p) EXCEPT !.popup = bookingView.popup]
    OBVIOUS
  <2>2. v \in BookingViews /\ v.page = p /\ v.step = 0 /\ v.armed = "none"
    BY <1>1, <2>1 DEF FreshView, BookingViews, Filters
  <2>3. bookingView' = v /\ Show(v)
    BY <1>2, <2>1 DEF OpenPage, Show
  <2>4. BookingQueriesSound'
    BY <1>2, <2>3, ShowStep DEF OpenPage, BookingInv
  <2>5. createdByForm' \in {0, 1} /\ (p = "form" => createdByForm' = 0)
    BY <1>2 DEF OpenPage, BookingInv, BookingCallsSound
  <2>6. BookingCallsSound'
    BY <1>2, <2>2, <2>3, <2>5, PageLeft DEF OpenPage, BookingInv
  <2> QED
    BY <2>4, <2>6 DEF BookingInv
<1>3. CASE PaystackCallback /\ bookingView.popup = "payForm" /\ bookingView.page # "list"
  <2>1. PICK v : v = FreshView("list")
    OBVIOUS
  <2>2. v \in BookingViews /\ v.page = "list" /\ v.step = 0
    BY <2>1 DEF FreshView, BookingViews, BookingPageNames, Filters
  <2>3. bookingView' = v /\ Show(v)
    BY <1>3, <2>1 DEF PaystackCallback, Show
  <2>4. BookingQueriesSound'
    BY <1>3, <2>3, ShowStep DEF PaystackCallback, BookingInv, bookingServer
  <2>5. bookingCalls' = {[c EXCEPT !.live = FALSE] : c \in bookingCalls}
    <3>1. \A c \in bookingCalls : [c EXCEPT !.live = c.live /\ v.page = bookingView.page]
                                  = [c EXCEPT !.live = FALSE]
      BY <1>3, <2>2
    <3> QED
      BY <1>3, <2>3, <3>1 DEF PaystackCallback
  <2>6. BookingCallsSound'
    BY <1>3, <2>2, <2>3, <2>5, PageLeft
    DEF PaystackCallback, BookingInv, BookingCallsSound, bookingServer
  <2> QED
    BY <2>4, <2>6 DEF BookingInv
<1>4. CASE PaystackCallback /\ ~ (bookingView.popup = "payForm" /\ bookingView.page # "list")
  <2>1. bookingView' = [bookingView EXCEPT !.popup = "none"]
    BY <1>4 DEF PaystackCallback
  <2>2. /\ bookingView' \in BookingViews /\ bookingView'.page = bookingView.page
        /\ bookingView'.filter = bookingView.filter /\ bookingView'.step = bookingView.step
        /\ bookingView'.armed = bookingView.armed
    BY <1>1, <2>1 DEF BookingViews
  <2>3. bookingCalls' = bookingCalls
    <3>1. \A c \in bookingCalls : [c EXCEPT !.live = c.live /\ TRUE] = c
      BY DEF BookingInv, BookingCallsSound, BookingCallSound, BookingCalls
    <3>2. bookingCalls' = {[c EXCEPT !.live = c.live /\ TRUE] : c \in bookingCalls}
      BY <1>4, <2>2 DEF PaystackCallback
    <3> QED
      BY <3>1, <3>2
  <2>4. BookingCallsSound'
    BY <1>4, <2>2, <2>3
    DEF PaystackCallback, BookingInv, BookingCallsSound, BookingCallSound, FormSound, LiveCreates,
        bookingServer
  <2>5. ASSUME NEW k \in BookingKeys
        PROVE  /\ bookingCache'[k] \in Queries(BookingRows)
               /\ k \in QueriesOf(bookingView) => Follows(bookingCache'[k], bookingDebt)
    <3>1. bookingCache'[k] \in {bookingCache[k], StartFetch(bookingCache[k], TRUE)}
      BY <1>4 DEF PaystackCallback, BookingInv, BookingQueriesSound
    <3>2. bookingCache[k] \in Queries(BookingRows) /\ Follows(bookingCache[k], 0)
      BY BookingDataTyped DEF BookingInv, BookingQueriesSound
    <3>3. StartFetch(bookingCache[k], TRUE) \in Queries(BookingRows)
      BY <3>2, QueryKept
    <3>4. k \in QueriesOf(bookingView) => Follows(StartFetch(bookingCache[k], TRUE), bookingDebt)
      BY <3>2, QueryKept DEF BookingInv, BookingQueriesSound
    <3> QED
      BY <3>1, <3>2, <3>3, <3>4 DEF BookingInv, BookingQueriesSound
  <2>6. bookingCache' = [k \in BookingKeys |-> bookingCache'[k]]
    BY <1>4 DEF PaystackCallback, BookingInv, BookingQueriesSound
  <2>7. BookingQueriesSound'
    BY <1>4, <2>2, <2>5, <2>6, BookingCacheStep DEF PaystackCallback, BookingInv, bookingServer
  <2> QED
    BY <2>4, <2>7 DEF BookingInv
<1> QED
  BY <1>2, <1>3, <1>4

\* The administrators' list
LEMMA AdminPageInv ==
  BookingInv /\ ((\E f \in Filters : SetStatusFilter(f)) \/ (\E a \in AdminOps : ChooseAction(a))
                 \/ DropAction \/ HandleAction)
  => BookingInv'
<1> SUFFICES ASSUME BookingInv,
                    (\E f \in Filters : SetStatusFilter(f)) \/ (\E a \in AdminOps : ChooseAction(a))
                    \/ DropAction \/ HandleAction
             PROVE  BookingInv'
  OBVIOUS
<1>1. bookingView \in BookingViews /\ (bookingView.page = "admin" => bookingView.armed # "cancel")
  BY DEF BookingInv, BookingCallsSound
<1>2. ASSUME NEW f \in Filters, SetStatusFilter(f) PROVE BookingInv'
  <2>1. PICK v : v = [bookingView EXCEPT !.filter = f]
    OBVIOUS
  <2>2. /\ v \in BookingViews /\ v.page = bookingView.page /\ v.step = bookingView.step
        /\ v.armed = bookingView.armed /\ bookingView.page = "admin"
    BY <1>1, <1>2, <2>1 DEF BookingViews, SetStatusFilter
  <2>3. Show(v) /\ bookingView' = v
    BY <1>2, <2>1 DEF SetStatusFilter, Show
  <2>4. BookingQueriesSound'
    BY <1>2, <2>3, ShowStep DEF SetStatusFilter, BookingInv, bookingServer
  <2>5. BookingCallsSound'
    BY <1>2, <2>2, <2>3
    DEF SetStatusFilter, BookingInv, BookingCallsSound, BookingCallSound, bookingServer
  <2> QED
    BY <2>4, <2>5 DEF BookingInv
<1>3. CASE (\E a \in AdminOps : ChooseAction(a)) \/ DropAction
  <2>1. PICK a \in AdminOps \cup {"none"} : bookingView' = [bookingView EXCEPT !.armed = a]
    BY <1>3 DEF ChooseAction, DropAction, Armed
  <2>2. /\ bookingView' \in BookingViews /\ bookingView'.page = bookingView.page
        /\ bookingView'.filter = bookingView.filter /\ bookingView'.step = bookingView.step
        /\ bookingView'.armed = a /\ a # "cancel"
    BY <1>1, <2>1 DEF BookingViews, AdminOps
  <2> QED
    BY <1>3, <2>2, BookingViewStep DEF ChooseAction, DropAction
<1>4. CASE HandleAction
  <2>1. bookingView.armed \in AdminOps /\ bookingView.page = "admin"
    BY <1>1, <1>4 DEF HandleAction, BookingViews
  <2>2. dialect = "types"
    BY <1>4 DEF HandleAction, Shown
  <2> QED
    BY <1>4, <2>1, <2>2, BookingSend DEF HandleAction, PagesSending, BookingOps, AdminOps
<1> QED
  BY <1>2, <1>3, <1>4

\* What the server does with a call, and the others
LEMMA BookingServerInv ==
  BookingInv /\ (\/ \E c \in bookingCalls :
                       UpdateStatus(c) \/ CreateOnServer(c) \/ InitializeOnServer(c)
                 \/ \E s \in BookingStatuses : OthersWrite(s))
  => BookingInv'
<1> SUFFICES ASSUME BookingInv
             PROVE  /\ \A c \in bookingCalls :
                          UpdateStatus(c) \/ CreateOnServer(c) \/ InitializeOnServer(c) => BookingInv'
                    /\ \A s \in BookingStatuses : OthersWrite(s) => BookingInv'
  OBVIOUS
<1>1. ASSUME NEW c \in bookingCalls PROVE BookingCallSound(c) /\ (dialect # "types" => c.op = "create")
  BY DEF BookingInv, BookingCallsSound, BookingCallSound
<1>2. ASSUME NEW c \in bookingCalls, UpdateStatus(c) PROVE BookingInv'
  <2>1. To(c.op) \in BookingStatuses
    BY <1>2 DEF UpdateStatus, To, BookingStatuses
  <2>2. BookingQueriesSound'
    <3>1. CASE Write(To(c.op))
      BY <1>2, <2>1, <3>1, BookingWritten DEF UpdateStatus, BookingInv
    <3>2. CASE UNCHANGED booking
      BY <1>2, <3>2, BookingQueriesKept DEF UpdateStatus, BookingInv
    <3> QED
      BY <1>2, <3>1, <3>2 DEF UpdateStatus
  <2>3. PICK at \in {"done", "refused"} : Answer(c, at)
    BY <1>2 DEF UpdateStatus
  <2>4. c.op # "create" /\ dialect = "types"
    BY <1>1, <1>2 DEF UpdateStatus
  <2>5. BookingCallsSound'
    BY <1>2, <2>3, <2>4, BookingAnswered DEF UpdateStatus, BookingInv
  <2> QED
    BY <2>2, <2>5 DEF BookingInv
<1>3. ASSUME NEW c \in bookingCalls, CreateOnServer(c) PROVE BookingInv'
  <2>1. CASE dialect = "types" /\ Write("PENDING") /\ Answer(c, "done")
             /\ createdByForm' = createdByForm + (IF c.live THEN 1 ELSE 0)
    <3>1. BookingQueriesSound'
      BY <1>3, <2>1, BookingWritten DEF CreateOnServer, BookingInv, BookingStatuses
    <3>2. createdByForm' = IF c.op = "create" /\ c.live /\ "done" = "done"
                           THEN createdByForm + 1 ELSE createdByForm
      BY <1>3, <2>1 DEF CreateOnServer, BookingInv, BookingCallsSound
    <3>3. BookingCallsSound'
      BY <1>3, <2>1, <3>2, BookingAnswered DEF CreateOnServer, BookingInv
    <3> QED
      BY <3>1, <3>3 DEF BookingInv
  <2>2. CASE UNCHANGED <<booking, createdByForm>> /\ Answer(c, "refused")
    <3>1. BookingQueriesSound'
      BY <1>3, <2>2, BookingQueriesKept DEF CreateOnServer, BookingInv
    <3>2. BookingCallsSound'
      BY <1>3, <2>2, BookingAnswered DEF CreateOnServer, BookingInv
    <3> QED
      BY <3>1, <3>2 DEF BookingInv
  <2> QED
    BY <1>3, <2>1, <2>2 DEF CreateOnServer
<1>4. ASSUME NEW c \in bookingCalls, InitializeOnServer(c) PROVE BookingInv'
  <2>1. BookingQueriesSound'
    BY <1>4, BookingQueriesKept DEF InitializeOnServer, BookingInv, bookingRest, bookingServer
  <2>2. PICK at \in {"done", "refused"} : Answer(c, at)
    BY <1>4 DEF InitializeOnServer
  <2>3. c.op # "create" /\ dialect = "types"
    BY <1>1, <1>4 DEF InitializeOnServer
  <2>4. BookingCallsSound'
    BY <1>4, <2>2, <2>3, BookingAnswered DEF InitializeOnServer, BookingInv, bookingRest, bookingServer
  <2> QED
    BY <2>1, <2>4 DEF BookingInv
<1>5. ASSUME NEW s \in BookingStatuses, OthersWrite(s) PROVE BookingInv'
  <2>1. BookingQueriesSound'
    BY <1>5, BookingWritten DEF OthersWrite, BookingInv
  <2>2. BookingCallsSound'
    BY <1>5
    DEF OthersWrite, BookingInv, BookingCallsSound, BookingCallSound, FormSound, LiveCreates
  <2> QED
    BY <2>1, <2>2 DEF BookingInv
<1> QED
  BY <1>2, <1>3, <1>4, <1>5

\* What a page shows is among what is invalidated for its calls.
LEMMA InvalidatesShown ==
  /\ \A v : v.page \in {"list", "detail", "form"} => QueriesOf(v) \subseteq MineAndDetail
  /\ \A v : QueriesOf(v) \subseteq MineAndDetail \cup {"admin", "adminPending"}
  BY DEF QueriesOf, GetMyBookings, GetBooking, GetAllBookings, MineAndDetail

LEMMA BookingAnswerInv ==
  BookingInv /\ (\E c \in bookingCalls : CancelAnswered(c) \/ UpdateAnswered(c) \/ CreateAnswered(c)
                                         \/ PaymentInitialized(c) \/ CallFails(c))
  => BookingInv'
<1> SUFFICES ASSUME BookingInv, NEW c \in bookingCalls,
                    CancelAnswered(c) \/ UpdateAnswered(c) \/ CreateAnswered(c)
                    \/ PaymentInitialized(c) \/ CallFails(c)
             PROVE  BookingInv'
  OBVIOUS
<1>1. bookingView \in BookingViews /\ (bookingView.page = "admin" => bookingView.armed # "cancel")
  BY DEF BookingInv, BookingCallsSound
<1>2. BookingCallSound(c) /\ c.live \in BOOLEAN
  BY DEF BookingInv, BookingCallsSound, BookingCallSound, BookingCalls
<1>3. c.op = "cancel" /\ c.live => QueriesOf(bookingView) \subseteq MineAndDetail
  BY <1>2, InvalidatesShown DEF BookingCallSound, PagesSending, AdminOps
<1>4. c.op = "create" /\ c.live => QueriesOf(bookingView) \subseteq MineAndDetail
  BY <1>2, InvalidatesShown DEF BookingCallSound, PagesSending, AdminOps
<1>5. CASE CancelAnswered(c) \/ UpdateAnswered(c)
  <2>1. /\ bookingView' \in BookingViews /\ bookingView'.page = bookingView.page
        /\ bookingView'.filter = bookingView.filter /\ bookingView'.step = bookingView.step
        /\ bookingView.page = "admin" => bookingView'.armed # "cancel"
    <3>1. bookingView' \in {bookingView, [bookingView EXCEPT !.armed = "none"]}
      BY <1>5 DEF CancelAnswered, UpdateAnswered
    <3>2. PICK v : v = [bookingView EXCEPT !.armed = "none"]
      OBVIOUS
    <3>3. /\ v \in BookingViews /\ v.page = bookingView.page
          /\ v.filter = bookingView.filter /\ v.step = bookingView.step /\ v.armed = "none"
      BY <1>1, <3>2 DEF BookingViews
    <3> QED
      BY <1>1, <3>1, <3>2, <3>3
  <2>2. PICK keys : Invalidate(c, keys) /\ (c.live => QueriesOf(bookingView) \subseteq keys)
    <3>1. CASE CancelAnswered(c)
      BY <1>3, <3>1 DEF CancelAnswered, CancelInvalidates
    <3>2. CASE UpdateAnswered(c)
      BY <3>2, InvalidatesShown DEF UpdateAnswered
    <3> QED
      BY <1>5, <3>1, <3>2
  <2>3. BookingQueriesSound'
    BY <1>2, <1>5, <2>1, <2>2, InvalidateStep DEF CancelAnswered, UpdateAnswered, Reported, BookingInv
  <2>4. BookingCallsSound'
    BY <1>5, <2>1, OtherReceived DEF CancelAnswered, UpdateAnswered, Reported, BookingInv
  <2> QED
    BY <2>3, <2>4 DEF BookingInv
<1>6. CASE CreateAnswered(c)
  <2>1. PICK v : v = [bookingView EXCEPT !.step = 2]
    OBVIOUS
  <2>2. /\ v \in BookingViews /\ v.page = bookingView.page /\ v.filter = bookingView.filter
        /\ v.armed = bookingView.armed /\ v.step = 2
    BY <1>1, <2>1 DEF BookingViews
  <2>3. bookingView' = IF c.live THEN v ELSE bookingView
    BY <1>6, <2>1 DEF CreateAnswered
  <2>4. BookingQueriesSound'
    BY <1>2, <1>4, <1>6, <2>2, <2>3, InvalidateStep DEF CreateAnswered, Reported, BookingInv
  <2>5. BookingCallsSound'
    <3>1. CASE c.live
      BY <1>6, <2>2, <2>3, <3>1, FormReceived DEF CreateAnswered, Reported, BookingInv
    <3>2. CASE ~ c.live
      BY <1>1, <1>6, <2>3, <3>2, OtherReceived DEF CreateAnswered, Reported, BookingInv
    <3> QED
      BY <3>1, <3>2
  <2> QED
    BY <2>4, <2>5 DEF BookingInv
<1>7. CASE PaymentInitialized(c)
  <2>1. c.op \in {"payRow", "payForm"} /\ bookingView' = [bookingView EXCEPT !.popup = c.op]
    BY <1>7 DEF PaymentInitialized
  <2>2. /\ bookingView' \in BookingViews /\ bookingView'.page = bookingView.page
        /\ bookingView'.filter = bookingView.filter /\ bookingView'.step = bookingView.step
        /\ bookingView'.armed = bookingView.armed
    BY <1>1, <2>1 DEF BookingViews
  <2>3. BookingQueriesSound'
    BY <1>7, <2>2, BookingQueriesKept DEF PaymentInitialized, BookingInv, bookingRest, bookingServer
  <2>4. BookingCallsSound'
    BY <1>1, <1>7, <2>1, <2>2, OtherReceived
    DEF PaymentInitialized, BookingInv, bookingRest, bookingServer
  <2> QED
    BY <2>3, <2>4 DEF BookingInv
<1>8. CASE CallFails(c)
  <2>1. BookingQueriesSound'
    BY <1>8, BookingQueriesKept DEF CallFails, BookingInv
  <2>2. BookingCallsSound'
    <3>1. CASE c.op = "create" /\ c.live
      BY <1>1, <1>8, <3>1, FormReceived DEF CallFails, BookingInv
    <3>2. CASE ~ (c.op = "create" /\ c.live)
      BY <1>1, <1>2, <1>8, <3>2, OtherReceived DEF CallFails, BookingInv
    <3> QED
      BY <3>1, <3>2
  <2> QED
    BY <2>1, <2>2 DEF BookingInv
<1> QED
  BY <1>5, <1>6, <1>7, <1>8

\* A step of one fetch
LEMMA FetchBookingsInv == ASSUME BookingInv, NEW k \in BookingKeys, FetchBookings(k) PROVE BookingInv'
<1>1. PICK q : q = bookingCache[k]
  OBVIOUS
<1>2. q \in Queries(BookingRows) /\ Follows(q, 0) /\ bookingDebt \in Nat
  BY <1>1, BookingDataTyped DEF BookingInv, BookingQueriesSound
<1>3. k \in QueriesOf(bookingView) => Follows(q, bookingDebt)
  BY <1>1 DEF BookingInv, BookingQueriesSound
<1>4. PICK r : bookingCache' = [bookingCache EXCEPT ![k] = r]
               /\ r \in Queries(BookingRows)
               /\ (k \in QueriesOf(bookingView) => Follows(r, bookingDebt))
  <2>1. CASE bookingCache' = [bookingCache EXCEPT ![k] = ReadByServer(q, Snapshot(k))]
    <3>1. PICK d : d = Snapshot(k)
      OBVIOUS
    <3>2. d \in BookingRows /\ d.ver >= bookingDebt
      BY <3>1, SnapshotSound DEF BookingInv
    <3>3. ReadByServer(q, d) \in Queries(BookingRows) /\ Follows(ReadByServer(q, d), bookingDebt)
      BY <1>2, <3>2, ReadFollows
    <3> QED
      BY <2>1, <3>1, <3>3
  <2>2. CASE q.fetch = "read" /\ bookingCache' = [bookingCache EXCEPT ![k] =
                [Arrived(q) EXCEPT !.stale = k \notin QueriesOf(bookingView)]]
    <3>1. PICK b \in BOOLEAN : b = (k \notin QueriesOf(bookingView))
      OBVIOUS
    <3>2. PICK a : a = Arrived(q)
      OBVIOUS
    <3>3. a \in Queries(BookingRows) /\ ~ a.stale
      BY <1>2, <2>2, <3>2, QueryKept DEF Arrived, EmptyQuery
    <3>4. k \in QueriesOf(bookingView) => Follows(a, bookingDebt)
      BY <1>2, <1>3, <2>2, <3>2, QueryKept
    <3>5. PICK r : r = [a EXCEPT !.stale = b]
      OBVIOUS
    <3>6. r \in Queries(BookingRows)
      BY <3>3, <3>5 DEF Queries
    <3>7. k \in QueriesOf(bookingView) => r = a
      BY <3>1, <3>3, <3>5 DEF Queries
    <3> QED
      BY <2>2, <3>1, <3>2, <3>4, <3>5, <3>6, <3>7
  <2>3. CASE bookingCache' = [bookingCache EXCEPT ![k] = FetchOfPageFailed(k, q)]
    <3>1. PICK f : f = FetchFailed(q)
      OBVIOUS
    <3>2. f \in Queries(BookingRows) /\ f.stale
      BY <1>2, <3>1, QueryKept DEF FetchFailed, Queries
    <3>3. PICK g : g = [f EXCEPT !.failed = TRUE]
      OBVIOUS
    <3>4. g \in Queries(BookingRows) /\ g.stale /\ g.fetch = "idle" /\ f.fetch = "idle"
      BY <1>2, <3>1, <3>2, <3>3 DEF Queries, FetchFailed
    <3>5. Follows(f, bookingDebt) /\ Follows(g, bookingDebt)
      BY <3>2, <3>4 DEF Follows, UpToDate
    <3>6. FetchOfPageFailed(k, q) \in {f, g}
      BY <3>1, <3>3 DEF FetchOfPageFailed, ShownAsFailed
    <3> QED
      BY <2>3, <3>2, <3>4, <3>5, <3>6
  <2> QED
    BY <1>1, <2>1, <2>2, <2>3 DEF FetchBookings
<1>5. ASSUME NEW j \in BookingKeys
      PROVE  /\ bookingCache'[j] \in Queries(BookingRows)
             /\ j \in QueriesOf(bookingView) => Follows(bookingCache'[j], bookingDebt)
  BY <1>4 DEF BookingInv, BookingQueriesSound
<1>6. bookingCache' = [j \in BookingKeys |-> bookingCache'[j]]
  BY <1>4 DEF BookingInv, BookingQueriesSound
<1>7. bookingView \in BookingViews
  BY DEF BookingInv, BookingCallsSound
<1>8. CASE UNCHANGED <<bookingView, bookingCalls>>
  <2>1. BookingQueriesSound'
    BY <1>5, <1>6, <1>8, BookingCacheStep
    DEF FetchBookings, bookingRest, bookingServer, BookingInv
  <2>2. BookingCallsSound'
    BY <1>8 DEF FetchBookings, bookingRest, bookingServer, BookingInv, BookingCallsSound,
                BookingCallSound, FormSound, LiveCreates
  <2> QED
    BY <2>1, <2>2 DEF BookingInv
<1>9. CASE bookingView.page = "list" /\ Armed("none")
           /\ bookingCalls' = {[c EXCEPT !.live = FALSE] : c \in bookingCalls}
  <2>1. bookingView' = [bookingView EXCEPT !.armed = "none"]
    BY <1>9 DEF Armed
  <2>2. /\ bookingView' \in BookingViews /\ bookingView'.page = bookingView.page
        /\ bookingView'.filter = bookingView.filter /\ bookingView'.step = bookingView.step
        /\ bookingView'.armed = "none"
    BY <1>7, <2>1 DEF BookingViews
  <2>3. BookingQueriesSound'
    BY <1>5, <1>6, <2>2, BookingCacheStep DEF FetchBookings, bookingRest, bookingServer, BookingInv
  <2>4. bookingView.step # 2
    BY <1>9 DEF BookingInv, BookingCallsSound
  <2>5. BookingCallsSound'
    BY <1>9, <2>2, <2>4, PageLeft
    DEF FetchBookings, bookingRest, bookingServer, BookingInv, BookingCallsSound
  <2> QED
    BY <2>3, <2>5 DEF BookingInv
<1> QED
  BY <1>8, <1>9 DEF FetchBookings

LEMMA BookingStep == BookingInv /\ [BookingPagesNext]_bookingVars => BookingInv'
<1> SUFFICES ASSUME BookingInv, [BookingPagesNext]_bookingVars PROVE BookingInv'
  OBVIOUS
<1>1. CASE UNCHANGED bookingVars
  BY <1>1, BookingViewStep
  DEF bookingVars, bookingRest, bookingServer, BookingInv, BookingCallsSound
<1> QED
  BY <1>1, OwnPagesInv, LeavePageInv, AdminPageInv, BookingServerInv, BookingAnswerInv,
     FetchBookingsInv, RefocusInv
  DEF BookingPagesNext, BookingPageNames, AdminOps

\* A page hides no write that was reported to it, a pass through the form
\* creates one booking at most and has created it when it asks for the payment,
\* and to an API that spells like the enums only a new booking is sent
\* (frontend/app/bookings, app/admin/bookings, lib/react-query/hooks/bookings).
THEOREM BookingPagesFollow == BookingPagesSpec => []BookingPagesAgree
<1>1. BookingPagesInit => BookingInv
  BY BookingInitInv
<1>2. BookingInv /\ [BookingPagesNext]_bookingVars => BookingInv'
  BY BookingStep
<1>3. BookingInv => BookingPagesAgree
  BY BookingInvAgrees
<1> QED
  BY <1>1, <1>2, <1>3, PTL DEF BookingPagesSpec

-----------------------------------------------------------------------------
\* The composition

\* The steps of a part are those of its module, and steps of others leave it
\* alone.
LEMMA PartSteps ==
  ASSUME [PlatformNext]_platformVars
  PROVE  /\ part' = part
         /\ part = "registration" => [RegistrationNext]_registrationVars
         /\ part = "staff sign-in" => [SsoNext]_ssoVars
         /\ part = "mailing" => [MailNext]_mailVars
         /\ part = "escrow calls" => [EscrowClientNext]_escrowClientVars
         /\ part = "bookings" => [BookingPagesNext]_bookingVars
         /\ part = "notifications" => [NotificationsNext]_noticeVars
         /\ part = "administration" => [AdministrationNext]_adminVars
         /\ part = "workspaces" => [WorkspacePagesNext]_spaceVars
         /\ part = "money" => [MoneyPagesNext]_moneyVars
         /\ part = "reports" => [ReportsNext]_reportVars
<1>1. CASE PlatformNext
  BY <1>1 DEF PlatformNext
<1>2. CASE UNCHANGED platformVars
  BY <1>2 DEF platformVars
<1> QED
  BY <1>1, <1>2

\* Accounts come into being once, by the form or by the identity provider.
THEOREM AccountsAreConsistent == PlatformSpec => []AccountsConsistent
<1> DEFINE Held == /\ part = "registration" => SignUpInv
                   /\ part = "staff sign-in" => SsoInv
<1>1. PlatformInit => Held
  BY SignUpInitInv, SsoInitInv DEF PlatformInit
<1>2. Held /\ [PlatformNext]_platformVars => Held'
  <2> SUFFICES ASSUME Held, [PlatformNext]_platformVars PROVE Held'
    OBVIOUS
  <2>1. ASSUME part' = "registration" PROVE SignUpInv'
    BY <2>1, PartSteps, SignUpStep
  <2>2. ASSUME part' = "staff sign-in" PROVE SsoInv'
    BY <2>2, PartSteps, SsoStep
  <2> QED
    BY <2>1, <2>2
<1>3. Held => AccountsConsistent
  BY SignUpInvConsistent, SsoInvConsistent DEF AccountsConsistent
<1> QED
  BY <1>1, <1>2, <1>3, PTL DEF PlatformSpec

\* What the server believes of mail and of the ledger of the escrow contract is
\* what they did.
THEOREM OutsideServicesFollow == PlatformSpec => []OutsideServicesAgree
<1> DEFINE Held == /\ part = "mailing" => MailInv
                   /\ part = "escrow calls" => EscrowInv
<1>1. PlatformInit => Held
  BY MailInitInv, EscrowInitInv DEF PlatformInit
<1>2. Held /\ [PlatformNext]_platformVars => Held'
  <2> SUFFICES ASSUME Held, [PlatformNext]_platformVars PROVE Held'
    OBVIOUS
  <2>1. ASSUME part' = "mailing" PROVE MailInv'
    BY <2>1, PartSteps, MailStepInv
  <2>2. ASSUME part' = "escrow calls" PROVE EscrowInv'
    BY <2>2, PartSteps, EscrowStepInv
  <2> QED
    BY <2>1, <2>2
<1>3. Held => OutsideServicesAgree
  BY MailInvConsistent, EscrowInvAgrees DEF OutsideServicesAgree
<1> QED
  BY <1>1, <1>2, <1>3, PTL DEF PlatformSpec

\* What members see of their bookings and notifications, and are offered to do
\* with them, agrees with the rows the server keeps.
THEOREM MemberPagesFollow == PlatformSpec => []MemberPagesAgree
<1> DEFINE Held == /\ part = "bookings" => BookingInv
                   /\ part = "notifications" => NoticeInv
<1>1. PlatformInit => Held
  BY BookingInitInv, NoticesInitInv DEF PlatformInit
<1>2. Held /\ [PlatformNext]_platformVars => Held'
  <2> SUFFICES ASSUME Held, [PlatformNext]_platformVars PROVE Held'
    OBVIOUS
  <2>1. ASSUME part' = "bookings" PROVE BookingInv'
    BY <2>1, PartSteps, BookingStep
  <2>2. ASSUME part' = "notifications" PROVE NoticeInv'
    BY <2>2, PartSteps, NoticeStep
  <2> QED
    BY <2>1, <2>2
<1>3. Held => MemberPagesAgree
  BY BookingInvAgrees, NoticeInvAgrees DEF MemberPagesAgree
<1> QED
  BY <1>1, <1>2, <1>3, PTL DEF PlatformSpec

\* What administrators see and change of users, workspaces, payments and
\* invoices, and the figures they read, agree with the rows the server keeps,
\* and somebody is left who may change them.
THEOREM BackOfficeFollows == PlatformSpec => []BackOfficeAgrees
<1> DEFINE Held == /\ part = "administration" => AdminInv
                   /\ part = "workspaces" => SpaceInv
                   /\ part = "money" => MoneyInv
                   /\ part = "reports" => ReportInv
<1>1. PlatformInit => Held
  BY AdminInitInv, SpacesInitInv, MoneyInitInv, ReportsInitInv DEF PlatformInit
<1>2. Held /\ [PlatformNext]_platformVars => Held'
  <2> SUFFICES ASSUME Held, [PlatformNext]_platformVars PROVE Held'
    OBVIOUS
  <2>1. ASSUME part' = "administration" PROVE AdminInv'
    BY <2>1, PartSteps, AdminStep
  <2>2. ASSUME part' = "workspaces" PROVE SpaceInv'
    BY <2>2, PartSteps, SpaceStep
  <2>3. ASSUME part' = "money" PROVE MoneyInv'
    BY <2>3, PartSteps, MoneyStep
  <2>4. ASSUME part' = "reports" PROVE ReportInv'
    BY <2>4, PartSteps, ReportStep
  <2> QED
    BY <2>1, <2>2, <2>3, <2>4
<1>3. Held => BackOfficeAgrees
  BY AdminInvHolds, SpaceInvAgrees, MoneyInvAgrees, ReportInvAgrees DEF BackOfficeAgrees
<1> QED
  BY <1>1, <1>2, <1>3, PTL DEF PlatformSpec
==============================================================================
