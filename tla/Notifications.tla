----------------------------- MODULE Notifications ---------------------------
(***************************************************************************)
(* The notifications of one user: the rows, the bell in the side bar and   *)
(* the page with its two tabs, which read them each with a query of its    *)
(* own, once a minute and after every mark.  A list and the number of      *)
(* unread ones are two statements of one request.                          *)
(*                                                                         *)
(* noticeApi says whether answers carry the number where the pages look    *)
(* for it, in meta ("typed"), or beside data, as the controller puts it    *)
(* ("built").  Other users, later pages, icons and the socket, which no    *)
(* page opens, are left out, and so are whether the bell is unfolded and   *)
(* the data that a list of the page shows again when it is reopened.       *)
(***************************************************************************)
EXTENDS QueryCache, Sequences, FiniteSets

CONSTANTS
    NoticeApis,         \* {"typed", "built"}
    NoticeTabs,         \* the tabs of the page that are opened, of "all" and "unread"
    MaxNotices,         \* bound on the rows
    BellLimit,          \* 10 in the code
    PageLimit,          \* 20 in the code
    MaxNoticeCalls      \* bound on the marks under way

ASSUME NoticeLimitsAssumption == BellLimit \in Nat /\ PageLimit \in Nat

VARIABLES
    noticeApi,
    notices,            \* in the order they were created, "unread" or "read"
    noticeView,         \* "elsewhere", or the tab of the page: "all", "unread"
    noticeCalls,
    noticeCache,
    noticeDebt,         \* the rows of which the tab was told that they are read
    known               \* history: the rows a list has shown or "Mark all read" took along

noticeServer == <<noticeApi, notices>>
noticeVars == <<noticeView, noticeCalls, noticeCache, noticeDebt, known, noticeServer>>

NoticeKeys == {"bell", "page"}
NoticesShown(view) == IF view = "elsewhere" THEN {"bell"} ELSE NoticeKeys
NoticeLimit(k) == IF k = "bell" THEN BellLimit ELSE PageLimit

ShownNotices(q) == IF q.seen = NoData THEN {} ELSE q.seen.rows
IdsOf(rows) == {r.id : r \in rows}

NotificationsInit ==
    /\ noticeApi \in NoticeApis
    /\ notices = <<>> /\ noticeView = "elsewhere" /\ noticeCalls = {}
    /\ noticeCache = [k \in NoticeKeys |->
          IF k = "bell" THEN StartFetch(EmptyQuery, FALSE) ELSE EmptyQuery]
    /\ noticeDebt = {} /\ known = {}

-----------------------------------------------------------------------------
\* The pages

\* Another tab mounts its list; another route mounts the side bar again.
\* fresh: less than 30 s have passed since the bell was filled.
ShowNotices(view, fresh) ==
    /\ view # noticeView /\ noticeView' = view
    /\ noticeCache' = [bell |-> IF "elsewhere" \in {view, noticeView}
                                THEN OnMount(noticeCache["bell"], fresh) ELSE noticeCache["bell"],
                       page |-> IF view = "elsewhere" THEN EmptyQuery
                                ELSE OnMount(EmptyQuery, FALSE)]
    /\ UNCHANGED <<noticeCalls, noticeDebt, known, noticeServer>>

\* refetchInterval, and the focus of the window; to bound what is under way,
\* only while nothing else is fetched.
PollNotices(k) ==
    /\ k \in NoticesShown(noticeView) /\ \A j \in NoticeKeys : noticeCache[j].fetch = "idle"
    /\ noticeCache' = [noticeCache EXCEPT ![k] = StartFetch(@, FALSE)]
    /\ UNCHANGED <<noticeView, noticeCalls, noticeDebt, known, noticeServer>>

SendMark(op, by, ids) ==
    /\ Cardinality(noticeCalls) < MaxNoticeCalls
    /\ noticeCalls' = noticeCalls \cup {[op |-> op, by |-> by, ids |-> ids, at |-> "sent"]}
    /\ UNCHANGED <<noticeView, noticeCache, noticeDebt, known, noticeServer>>

\* data?.meta?.unreadCount ?? 0
ShownCount(k) ==
    IF noticeApi = "built" \/ noticeCache[k].seen = NoData THEN 0 ELSE noticeCache[k].seen.unread

\* The dot of an unread row, in the bell or on the page.
MarkOne(k, id) ==
    /\ k \in NoticesShown(noticeView)
    /\ [id |-> id, read |-> FALSE] \in ShownNotices(noticeCache[k])
    /\ SendMark("one", k, {id})

\* "Mark all read", disabled while its own answer is awaited.
MarkAll(k) ==
    /\ k \in NoticesShown(noticeView) /\ ShownCount(k) > 0
    /\ ~\E c \in noticeCalls : c.op = "all" /\ c.by = k
    /\ SendMark("all", k, {})

-----------------------------------------------------------------------------
\* The server

UnreadIds == {i \in DOMAIN notices : notices[i] = "unread"}

\* CreateNotificationProvider, for the webhook
Notify ==
    /\ Len(notices) < MaxNotices
    /\ notices' = Append(notices, "unread")
    /\ UNCHANGED <<noticeApi, noticeView, noticeCalls, noticeCache, noticeDebt, known>>

\* One UPDATE, which never writes isRead back.
MarkRead(c, ids) ==
    /\ notices' = [i \in DOMAIN notices |-> IF i \in ids THEN "read" ELSE notices[i]]
    /\ known' = IF c.op = "all" THEN known \cup ids ELSE known
    /\ noticeCalls' = (noticeCalls \ {c}) \cup {[c EXCEPT !.at = "done", !.ids = ids]}

ServeMark(c) ==
    /\ c.at = "sent"
    /\ MarkRead(c, IF c.op = "all" THEN UnreadIds ELSE c.ids)
    /\ UNCHANGED <<noticeApi, noticeView, noticeCache, noticeDebt>>

\* getManyAndCount: the newest ones, of the tab's kind
Listing(k) ==
    LET kind == IF k = "page" /\ noticeView = "unread" THEN UnreadIds ELSE DOMAIN notices
        newest == {i \in kind : Cardinality({j \in kind : j > i}) < NoticeLimit(k)}
    IN  {[id |-> i, read |-> notices[i] = "read"] : i \in newest}

-----------------------------------------------------------------------------
\* Answers and fetches

\* Variant: only the list of the page is fetched anew.
PageLists == {"page"}
\* queryKeys.notifications.all
InvalidatedNotices == NoticeKeys

\* useMarkNotificationRead, useMarkAllRead
MarkAnswered(c) ==
    /\ c.at = "done" /\ noticeCalls' = noticeCalls \ {c}
    /\ noticeCache' = [k \in NoticeKeys |->
          IF k \in InvalidatedNotices
          THEN Invalidated(noticeCache[k], k \in NoticesShown(noticeView))
          ELSE noticeCache[k]]
    \* A query without data keeps the fetch it has, whatever that reads.
    /\ noticeDebt' = IF \A k \in NoticesShown(noticeView) : noticeCache[k].seen # NoData
                     THEN noticeDebt \cup c.ids ELSE noticeDebt
    /\ UNCHANGED <<noticeView, known, noticeServer>>

MarkLost(c) ==
    /\ noticeCalls' = noticeCalls \ {c}
    /\ UNCHANGED <<noticeView, noticeCache, noticeDebt, known, noticeServer>>

\* The list is read, then the number of unread ones, and the answer arrives.  A
\* request that fails leaves the list stale, and is left out.
FetchNotices(k) ==
    LET q == noticeCache[k] IN
    /\ \/ /\ q.fetch = "sent"
          /\ noticeCache' = [noticeCache EXCEPT ![k] =
                [@ EXCEPT !.fetch = "listed",
                          !.copy = [status |-> "rows", rows |-> Listing(k), unread |-> 0,
                                    torn |-> Cardinality(UnreadIds)]]]
          /\ UNCHANGED known
       \/ /\ q.fetch = "listed"
          /\ noticeCache' = [noticeCache EXCEPT ![k] =
                ReadByServer(q, [q.copy EXCEPT !.unread = IF noticeApi = "built" THEN 0
                                                           ELSE Cardinality(UnreadIds),
                                               !.torn = /\ noticeApi = "typed"
                                                        /\ @ # Cardinality(UnreadIds)])]
          /\ UNCHANGED known
       \/ /\ q.fetch = "read"
          /\ noticeCache' = [noticeCache EXCEPT ![k] = Arrived(@)]
          /\ known' = IF k \in NoticesShown(noticeView)
                          THEN known \cup IdsOf(q.copy.rows) ELSE known
    /\ UNCHANGED <<noticeView, noticeCalls, noticeDebt, noticeServer>>

NotificationsNext ==
    \/ Notify
    \/ \E view \in {"elsewhere"} \cup NoticeTabs, fresh \in BOOLEAN : ShowNotices(view, fresh)
    \/ \E k \in NoticeKeys :
          \/ PollNotices(k) \/ MarkAll(k) \/ FetchNotices(k)
          \/ \E id \in DOMAIN notices : MarkOne(k, id)
    \/ \E c \in noticeCalls : ServeMark(c) \/ MarkAnswered(c) \/ MarkLost(c)

NotificationsSpec == NotificationsInit /\ [][NotificationsNext]_noticeVars

-----------------------------------------------------------------------------
\* What a user relies on: a row that was reported as marked is not shown as
\* unread again by a list that counts as current; a row is read only if a list
\* showed it to the user or "Mark all read" took it along; the number of unread
\* ones fits the list it came with, unless a mark or a new row fell between the
\* two statements; and without meta nobody is offered to mark all.
NoticesAgree ==
    /\ \A k \in NoticesShown(noticeView) :
          LET q == noticeCache[k] IN
          q.fetch = "idle" /\ ~q.stale =>
              \A r \in ShownNotices(q) : r.id \in noticeDebt => r.read
    /\ DOMAIN notices \ UnreadIds \subseteq known
    /\ \A k \in NoticeKeys :
          LET q == noticeCache[k]
              unread == {r \in ShownNotices(q) : ~r.read} IN
          noticeApi = "typed" /\ q.seen # NoData /\ ~q.seen.torn =>
              IF Cardinality(q.seen.rows) < NoticeLimit(k)
              THEN q.seen.unread = Cardinality(unread)
              ELSE q.seen.unread >= Cardinality(unread)
    /\ noticeApi = "built" => \A c \in noticeCalls : c.op = "one"
=============================================================================
