------------------------------ MODULE AuthClient -----------------------------
(***************************************************************************)
(* Who is signed in, as the frontend keeps it: per tab the zustand store   *)
(* and the bearer token of the API client, and the two entries of          *)
(* localStorage that all tabs share.  The answer to a request arrives at a *)
(* later step, or never when the tab is reloaded first; a response handler *)
(* is one step, because it awaits nothing after the answer.  A token is    *)
(* known by the user it was issued to.  The route a tab shows is not kept:  *)
(* links lead from every page to every other and change nothing that is    *)
(* modelled, so that each form can be submitted at any time.  The value of *)
(* isLoading is left out, the writes to localStorage that setting it causes *)
(* are not.  The store's refreshAccessToken and updateProfile are left out: *)
(* no page uses them.                                                      *)
(***************************************************************************)
EXTENDS FiniteSets, Naturals

CONSTANTS
    Tabs, Visitors,
    Admins,         \* visitors with role admin
    MaxRequests,    \* bound on the requests under way
    NoUser

VARIABLES
    store,          \* per tab: user, accessToken and isAuthenticated of useAuthStore
    bearer,         \* per tab: the token of apiClient
    initialized,    \* tabs whose effects of the first render have run
    local,          \* localStorage authToken and authUser
    persisted,      \* localStorage AuthStore, written by every set of every tab
    requests        \* under way: op, tab, user, and the bearer they were sent with

clientVars == <<store, bearer, initialized, local, persisted, requests>>

Guest == [user |-> NoUser, token |-> NoUser, auth |-> FALSE]
SignedInAs(u) == [user |-> u, token |-> u, auth |-> TRUE]

ClientInit ==
    /\ store = [t \in Tabs |-> Guest] /\ persisted = Guest
    /\ bearer = [t \in Tabs |-> NoUser]
    /\ initialized = {}
    /\ local = [token |-> NoUser, user |-> NoUser]
    /\ requests = {}

\* set() of the store: the persist middleware writes what partialize selects.
Set(t, s) ==
    /\ store' = [store EXCEPT ![t] = s]
    /\ persisted' = s

\* set({isLoading}): the tab's own user and token over whatever another tab
\* has written to the shared entry since.
SetLoading(t) == Set(t, store[t])

\* Signing in asks for no token, and whether one is sent makes no difference.
SignIns == {"login", "register", "verify-otp", "verify-2fa"}

Send(t, op, u) ==
    /\ Cardinality(requests) < MaxRequests
    /\ requests' = requests \cup
          {[op |-> op, tab |-> t, user |-> u,
            bearer |-> IF op \in SignIns THEN NoUser ELSE bearer[t]]}
Receive(r) == requests' = requests \ {r}

-----------------------------------------------------------------------------
\* Pages

\* A full load: the store starts from AuthStore, the API client without token,
\* and answers to requests of the page before are gone.
LoadPage(t) ==
    /\ store' = [store EXCEPT ![t] = persisted]
    /\ bearer' = [bearer EXCEPT ![t] = NoUser]
    /\ initialized' = initialized \ {t}
    /\ requests' = {r \in requests : r.tab # t}
    /\ UNCHANGED <<local, persisted>>

\* initializeAuth
Restored(t) ==
    IF local.token # NoUser /\ local.user # NoUser
    THEN /\ bearer' = [bearer EXCEPT ![t] = local.token]
         /\ Set(t, [user |-> local.user, token |-> local.token, auth |-> TRUE])
    ELSE UNCHANGED <<bearer, store, persisted>>

\* useAuthInit, with RoleGate's mark of its first render.
InitializeAuth(t) ==
    /\ t \notin initialized
    /\ initialized' = initialized \cup {t}
    /\ Restored(t)
    /\ UNCHANGED <<local, requests>>

-----------------------------------------------------------------------------
\* Signing in

SubmitLogin(t, u) ==
    /\ Send(t, "login", u)
    /\ SetLoading(t)
    /\ UNCHANGED <<bearer, initialized, local>>

SubmitRegistration(t, u) ==
    /\ Send(t, "register", u)
    /\ SetLoading(t)
    /\ UNCHANGED <<bearer, initialized, local>>

SubmitOtp(t, u) ==
    /\ Send(t, "verify-otp", u)
    /\ UNCHANGED <<store, bearer, initialized, local, persisted>>

SubmitSecondFactor(t, u) ==
    /\ Send(t, "verify-2fa", u)
    /\ UNCHANGED <<store, bearer, initialized, local, persisted>>

\* All copies are written in the step of the answer.
SignedIn(t, u) ==
    /\ bearer' = [bearer EXCEPT ![t] = u]
    /\ Set(t, SignedInAs(u))
    /\ local' = [token |-> u, user |-> u]
    /\ UNCHANGED initialized

\* handleLogin of use-login: the redirect parameter or the dashboard.
LoggedIn(r) ==
    /\ r.op = "login" /\ Receive(r)
    /\ SignedIn(r.tab, r.user)

Registered(r) ==
    /\ r.op = "register" /\ Receive(r)
    /\ SignedIn(r.tab, r.user)

OtpVerified(r) ==
    /\ r.op = "verify-otp" /\ Receive(r)
    /\ SignedIn(r.tab, r.user)

SecondFactorVerified(r) ==
    /\ r.op = "verify-2fa" /\ Receive(r)
    /\ SignedIn(r.tab, r.user)

\* The backend asks for the second factor: login throws an object, and
\* handleLogin, which is what LoginForm calls, shows a message and stays.
SecondFactorRequired(r) ==
    /\ r.op = "login" /\ Receive(r)
    /\ SetLoading(r.tab)
    /\ UNCHANGED <<bearer, initialized, local>>

\* The catch branches of the store's login and register reset isLoading; the
\* other requests do not go through the store.
LoadingReset(r) ==
    IF r.op \in {"login", "register"}
    THEN SetLoading(r.tab) ELSE UNCHANGED <<store, persisted>>

\* Refused, not verified yet, a failure of the network, or a success that
\* changes only what the page shows.  An account that was deleted answers 204,
\* which request() cannot parse, and its tab stays signed in.
RequestFails(r) ==
    /\ Receive(r)
    /\ LoadingReset(r)
    /\ UNCHANGED <<bearer, initialized, local>>

-----------------------------------------------------------------------------
\* Signed in

\* PATCH /users/<id of the user shown>
SaveProfile(t) ==
    /\ store[t].user # NoUser
    /\ Send(t, "saveProfile", store[t].user)
    /\ UNCHANGED <<store, bearer, initialized, local, persisted>>

\* onPasswordSubmit
ChangePassword(t) ==
    /\ store[t].user # NoUser
    /\ Send(t, "password", store[t].user)
    /\ UNCHANGED <<store, bearer, initialized, local, persisted>>

\* handlePictureUpload: the token of storage, which another tab may have written.
UploadPicture(t) ==
    /\ store[t].user # NoUser
    /\ Cardinality(requests) < MaxRequests
    /\ requests' = requests \cup
          {[op |-> "picture", tab |-> t, user |-> store[t].user, bearer |-> local.token]}
    /\ UNCHANGED <<store, bearer, initialized, local, persisted>>

\* The answer is ignored and storage read again.
ProfileSaved(r) ==
    /\ r.op = "saveProfile" /\ Receive(r)
    /\ Restored(r.tab)
    /\ UNCHANGED <<initialized, local>>

\* Variant: the API client keeps its token.
SignedOutButBearer(t) ==
    /\ Set(t, Guest)
    /\ local' = [token |-> NoUser, user |-> NoUser]
    /\ UNCHANGED <<bearer, initialized>>

\* logout of the store
SignedOut(t) ==
    /\ Set(t, Guest)
    /\ bearer' = [bearer EXCEPT ![t] = NoUser]
    /\ local' = [token |-> NoUser, user |-> NoUser]
    /\ UNCHANGED initialized

Logout(t) ==
    /\ SignedOut(t)
    /\ UNCHANGED requests

DeleteAccount(t) ==
    /\ store[t].user # NoUser
    /\ Send(t, "delete", store[t].user)
    /\ UNCHANGED <<store, bearer, initialized, local, persisted>>

ClientNext ==
    \/ \E t \in Tabs :
          \/ LoadPage(t) \/ InitializeAuth(t) \/ SaveProfile(t) \/ ChangePassword(t) \/ UploadPicture(t)
          \/ Logout(t) \/ DeleteAccount(t)
          \/ \E u \in Visitors : \/ SubmitLogin(t, u) \/ SubmitRegistration(t, u)
                                 \/ SubmitOtp(t, u) \/ SubmitSecondFactor(t, u)
    \/ \E r \in requests :
          \/ LoggedIn(r) \/ Registered(r) \/ OtpVerified(r) \/ SecondFactorVerified(r)
          \/ SecondFactorRequired(r) \/ RequestFails(r)
          \/ ProfileSaved(r)

ClientSpec == ClientInit /\ [][ClientNext]_clientVars

-----------------------------------------------------------------------------
\* RoleGate: what a tab renders behind a gate of this role.
GateOpen(t, role) ==
    /\ t \in initialized /\ store[t].auth /\ store[t].user # NoUser
    /\ role = "admin" => store[t].user \in Admins

\* useAuthRedirect's canAccess, where role "any" is no required role
RoleOf(u) == IF u \in Admins THEN "admin" ELSE "user"
CanAccess(t, role) == store[t].auth /\ role \in {"any", RoleOf(store[t].user)}

\* Whatever the order of answers, links and reloads, and whatever the other
\* tabs write to the entries they share: a tab is a guest or shows the user
\* whose token it holds; it sends that token or none; a request about a user is
\* never sent with the token of another, pictures apart; and what a gate shows,
\* useAuthRedirect admits.
ClientAgrees ==
    /\ \A s \in {persisted} \cup {store[t] : t \in Tabs} :
          s = Guest \/ \E u \in Visitors : s = SignedInAs(u)
    /\ \A t \in Tabs : bearer[t] \in {NoUser, store[t].token}
    /\ local.token = local.user
    /\ \A r \in requests : r.op \in {"saveProfile", "password", "delete"} => r.bearer \in {NoUser, r.user}
    /\ \A t \in Tabs : /\ GateOpen(t, "user") => CanAccess(t, "any")
                      /\ GateOpen(t, "admin") => CanAccess(t, "admin")
=============================================================================
