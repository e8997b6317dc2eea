------------------------------ MODULE QueryCache -----------------------------
(***************************************************************************)
(* One query of TanStack Query, the library the pages read the API with,   *)
(* as ReactQueryProvider configures it: stale at once unless a hook says   *)
(* otherwise, refetched by mounting and by focus.  The library is not part *)
(* of the repository; this module is how its code relies on it.  Data are  *)
(* records with a version, ver, that every write of the server raises.     *)
(***************************************************************************)
EXTENDS Naturals

NoData == [status |-> "none", ver |-> 0]
EmptyQuery == [seen |-> NoData, stale |-> FALSE, failed |-> FALSE,
               fetch |-> "idle", copy |-> NoData]

\* A fetch under way is left alone, unless it is to be cancelled and there is
\* something to show meanwhile.
StartFetch(q, cancelRefetch) ==
    IF q.fetch = "idle" \/ (cancelRefetch /\ q.seen # NoData)
    THEN [q EXCEPT !.fetch = "sent", !.copy = NoData]
    ELSE q

OnMount(q, fresh) ==
    IF q.seen = NoData \/ q.stale \/ ~fresh THEN StartFetch(q, FALSE) ELSE q

Invalidated(q, mounted) ==
    LET marked == [q EXCEPT !.stale = TRUE] IN
    IF mounted THEN StartFetch(marked, TRUE) ELSE marked

\* The server reads, and the answer arrives at a later step.
ReadByServer(q, data) == [q EXCEPT !.fetch = "read", !.copy = data]
Arrived(q) == [EmptyQuery EXCEPT !.seen = q.copy]
FetchFailed(q) == [q EXCEPT !.fetch = "idle", !.copy = NoData, !.stale = TRUE]
\* Where the page tells a failure from data that are old.
ShownAsFailed(q) == [q EXCEPT !.failed = TRUE]

\* What is shown and will not be fetched again is at least of this version.
UpToDate(q, ver) ==
    q.seen # NoData /\ q.fetch = "idle" /\ ~q.stale => q.seen.ver >= ver
=============================================================================
