------------------------------- MODULE StaffSso ------------------------------
(***************************************************************************)
(* Sign-in of staff through an identity provider (auth/sso): the page that *)
(* probes it and the assertions that arrive, several for one e-mail        *)
(* address at a time.  An assertion is handled in steps: the account is    *)
(* looked up, created or saved, and tokens are stored for it; meanwhile    *)
(* administrators grant roles, suspend and delete, and a member's edit     *)
(* saves the row it read.  The account's other columns, metadata and       *)
(* single logout are left out.                                             *)
(***************************************************************************)
EXTENDS Naturals, FiniteSets

CONSTANTS
    SsoBuilds,       \* {"typed", "built"}: whether the controller's default import
                     \* of passport is the library, or undefined as tsconfig has it
    SamlSettings,    \* SUBSET BOOLEAN: the four SAML variables are all set
    AccountIds,      \* 1..n, ids in the order of insertion
    Assertions,      \* requests to the assertion consumer service
    MaxStaffWrites   \* bound on the writes of administrators and of the edit

VARIABLES
    ssoBuild, samlEnabled,
    ssoPage,         \* what StaffSsoLoginPage shows
    ssoLink,         \* SsoLoginLink is visible
    staffRows,       \* AccountIds -> the row with the e-mail address asserted; NoStaff
                     \* if the id was never used
    assertion,       \* Assertions -> the request: pc and the row it holds
    ssoSessions,     \* rows of refresh_tokens minted here: account and role signed
    cookieSet,       \* the browser has the two cookies
    profileEdit,     \* the row an edit has read, NoStaff if none is under way
    roleAct,         \* what last settled the role on purpose
    suspendAct,      \* an administrator suspended last
    staleSaves,      \* a save wrote over a row that had changed since it was read
    staffWrites

ssoVars == <<ssoBuild, samlEnabled, ssoPage, ssoLink, staffRows, assertion, ssoSessions,
             cookieSet, profileEdit, roleAct, suspendAct, staleSaves, staffWrites>>
ssoPages == <<ssoPage, ssoLink, cookieSet>>
rowState == <<staffRows, roleAct, suspendAct, staleSaves>>
ssoFixed == <<ssoBuild, samlEnabled>>

NoStaff == [id |-> 0, role |-> "none", active |-> FALSE, by |-> "none", ver |-> 0]
NoAssertion == [pc |-> "none", held |-> NoStaff]
Deleted(id) == [NoStaff EXCEPT !.id = id]
Stored == {id \in AccountIds : staffRows[id].role # "none"}

SsoInit ==
    /\ ssoBuild \in SsoBuilds /\ samlEnabled \in SamlSettings
    /\ ssoPage = "closed" /\ ssoLink = FALSE /\ cookieSet = FALSE
    /\ \E first \in {NoStaff} \cup
                    [id : {1}, role : {"user", "staff", "admin"}, active : {TRUE},
                     by : {"form"}, ver : {1}] :
          staffRows = [id \in AccountIds |-> IF id = 1 THEN first ELSE NoStaff]
    /\ assertion = [a \in Assertions |-> NoAssertion]
    /\ ssoSessions = {} /\ profileEdit = NoStaff
    /\ roleAct = "none" /\ suspendAct = FALSE /\ staleSaves = FALSE /\ staffWrites = 0

-----------------------------------------------------------------------------
\* The pages

OpenSsoPage ==
    /\ ssoPage \in {"closed", "left"} /\ ssoPage' = "loading"
    /\ UNCHANGED <<ssoFixed, rowState, assertion, ssoSessions, profileEdit, staffWrites,
                   ssoLink, cookieSet>>

\* GET /auth/sso/status; the page shows a failure, the link is hidden.
StatusAnswered ==
    /\ ssoPage = "loading"
    /\ \/ /\ ssoPage' = IF samlEnabled THEN "ready" ELSE "notConfigured"
          /\ ssoLink' = samlEnabled
       \/ ssoPage' = "unavailable" /\ ssoLink' = FALSE
    /\ UNCHANGED <<ssoFixed, rowState, assertion, ssoSessions, profileEdit, staffWrites,
                   cookieSet>>

\* The form asks the server of the pages for /api/auth/sso/login, where nothing
\* answers; the other button goes to the login page.
LeaveSsoPage ==
    /\ ssoPage \in {"ready", "notConfigured", "unavailable"} /\ ssoPage' = "left"
    /\ UNCHANGED <<ssoFixed, rowState, assertion, ssoSessions, profileEdit, staffWrites,
                   ssoLink, cookieSet>>

-----------------------------------------------------------------------------
\* The assertion consumer service

AssertionAt(a, pc, row) == assertion' = [assertion EXCEPT ![a] = [pc |-> pc, held |-> row]]
OtherwiseIdle == UNCHANGED <<ssoFixed, ssoPages, profileEdit, staffWrites>>

\* Two answers to a request: 503 without a configuration, and the exception
\* that authenticate is called on undefined.
Callable == samlEnabled /\ ssoBuild = "typed"

\* acs and runStrategy: an assertion that does not verify is a 401.
ReceiveAssertion(a, verified) ==
    /\ assertion[a].pc = "none"
    /\ AssertionAt(a, IF Callable /\ verified THEN "find" ELSE "refused", NoStaff)
    /\ UNCHANGED <<rowState, ssoSessions>> /\ OtherwiseIdle

\* provision: findOne by the e-mail address.
FindStaff(a) ==
    /\ assertion[a].pc = "find"
    /\ \/ Stored = {} /\ AssertionAt(a, "create", NoStaff)
       \/ \E id \in Stored :
             AssertionAt(a, IF staffRows[id].role = "staff" THEN "mint" ELSE "promote",
                         staffRows[id])
       \/ AssertionAt(a, "refused", NoStaff)
    /\ UNCHANGED <<rowState, ssoSessions>> /\ OtherwiseIdle

\* save of a new entity, under an id of its own.  The e-mail address is unique:
\* of two first sign-ins one is refused.
CreateStaff(a) ==
    \E id \in AccountIds :
    LET row == [id |-> id, role |-> "staff", active |-> TRUE, by |-> "sso", ver |-> 1] IN
    /\ assertion[a].pc = "create"
    /\ \A used \in AccountIds : staffRows[used] # NoStaff <=> used < id
    /\ \/ /\ Stored = {}
          /\ staffRows' = [staffRows EXCEPT ![id] = row]
          /\ roleAct' = "sso" /\ suspendAct' = FALSE
          /\ AssertionAt(a, "mint", row)
          /\ UNCHANGED staleSaves
       \/ AssertionAt(a, "refused", NoStaff) /\ UNCHANGED rowState
    /\ UNCHANGED ssoSessions /\ OtherwiseIdle

\* repository.save of an entity that was read selects the row again.  One that is
\* gone is inserted, unless its address has been taken, and one deleted after the
\* SELECT stays so; of one that is there the columns that differed are written, so
\* that what others wrote meanwhile is undone or kept.
Saves(read, write) ==
    LET now == staffRows[read.id]
        Left(row) == staffRows' = [staffRows EXCEPT ![read.id] = [row EXCEPT !.ver = @ + 1]]
    IN
    /\ \/ now.role = "none" /\ UNCHANGED staffRows
       \/ now.role = "none" /\ Stored = {} /\ Left(write)
       \/ now = read /\ Left(write)
       \/ /\ now.role # "none" /\ now # read
          /\ \E role \in {write.role, now.role}, active \in {write.active, now.active} :
                Left([write EXCEPT !.role = role, !.active = active])
    /\ staleSaves' = (staleSaves \/ now # read)

\* Everyone else becomes staff, administrators too.
Promotes(row) == [row EXCEPT !.role = "staff"]

PromoteStaff(a) ==
    LET read == assertion[a].held IN
    /\ assertion[a].pc = "promote"
    /\ \/ /\ Saves(read, Promotes(read))
          /\ roleAct' = "sso"
          /\ AssertionAt(a, "mint", Promotes(read))
          /\ UNCHANGED suspendAct
       \/ AssertionAt(a, "refused", NoStaff) /\ UNCHANGED rowState
    /\ UNCHANGED ssoSessions /\ OtherwiseIdle

\* req.login, mintAuthTokensForUser and setAuthCookies: the token refers to the
\* account, which must still be there, and carries the role of the row held.
\* Whether the account is suspended is not asked.  The redirect leads to a page
\* that does not exist, and no guard reads the cookies.
MintAuthTokens(row) ==
    /\ row.id \in Stored
    /\ ssoSessions' = ssoSessions \cup {[account |-> row.id, role |-> row.role]}

SetAuthCookies == cookieSet' = TRUE

MintSsoTokens(a) ==
    LET row == assertion[a].held IN
    /\ assertion[a].pc = "mint"
    /\ \/ /\ MintAuthTokens(row) /\ SetAuthCookies
          /\ AssertionAt(a, "redirected", NoStaff)
       \/ AssertionAt(a, "refused", NoStaff) /\ UNCHANGED <<ssoSessions, cookieSet>>
    /\ UNCHANGED <<rowState, ssoFixed, ssoPage, ssoLink, profileEdit, staffWrites>>

-----------------------------------------------------------------------------
\* Other writers of the row

Writes == staffWrites < MaxStaffWrites /\ staffWrites' = staffWrites + 1
RowWritten == UNCHANGED <<ssoFixed, ssoPages, assertion>>

\* An administrator's update, which reads and saves in a moment here.
GrantRole(id, role) ==
    /\ Writes /\ id \in Stored
    /\ Saves(staffRows[id], [staffRows[id] EXCEPT !.role = role])
    /\ roleAct' = role
    /\ UNCHANGED <<suspendAct, ssoSessions, profileEdit>> /\ RowWritten

SuspendStaff(id, active) ==
    /\ Writes /\ id \in Stored
    /\ Saves(staffRows[id], [staffRows[id] EXCEPT !.active = active])
    /\ suspendAct' = ~active
    /\ UNCHANGED <<roleAct, ssoSessions, profileEdit>> /\ RowWritten

\* The tokens go with their account.
DeleteStaff(id) ==
    /\ Writes /\ id \in Stored
    /\ staffRows' = [staffRows EXCEPT ![id] = Deleted(id)]
    /\ ssoSessions' = {s \in ssoSessions : s.account # id}
    /\ roleAct' = "none" /\ suspendAct' = FALSE
    /\ UNCHANGED <<staleSaves, profileEdit>> /\ RowWritten

ReadForEdit(id) ==
    /\ Writes /\ id \in Stored /\ profileEdit = NoStaff
    /\ profileEdit' = staffRows[id]
    /\ UNCHANGED <<rowState, ssoSessions>> /\ RowWritten

SaveEdit ==
    /\ profileEdit # NoStaff /\ profileEdit' = NoStaff
    /\ \/ Saves(profileEdit, profileEdit) /\ UNCHANGED <<roleAct, suspendAct>>
       \/ UNCHANGED rowState
    /\ UNCHANGED <<ssoSessions, staffWrites>> /\ RowWritten

SsoNext ==
    \/ OpenSsoPage \/ StatusAnswered \/ LeaveSsoPage
    \/ \E a \in Assertions :
          \/ \E verified \in BOOLEAN : ReceiveAssertion(a, verified)
          \/ FindStaff(a) \/ CreateStaff(a) \/ PromoteStaff(a) \/ MintSsoTokens(a)
    \/ \E id \in AccountIds :
          \/ \E role \in {"user", "admin"} : GrantRole(id, role)
          \/ \E active \in BOOLEAN : SuspendStaff(id, active)
          \/ DeleteStaff(id) \/ ReadForEdit(id)
    \/ SaveEdit

SsoSpec == SsoInit /\ [][SsoNext]_ssoVars

-----------------------------------------------------------------------------
\* Every session this sign-in mints is a staff session of the one account with
\* the address, whatever role the account had before; without a configuration,
\* and with the code as it is compiled, there is none and no account is made.
SsoSessionsAreStaff ==
    /\ Cardinality(Stored) <= 1
    /\ \A s \in ssoSessions : s.role = "staff" /\ s.account \in Stored
    /\ ~Callable => ~cookieSet /\ \A id \in Stored : staffRows[id].by # "sso"

\* The role is what the last sign-in or the last administrator made it, and a
\* suspended account stays suspended, unless a save put back what it had read.
RoleIsLastAct ==
    ~staleSaves => \A id \in Stored :
        /\ roleAct # "none" => staffRows[id].role = (IF roleAct = "sso" THEN "staff" ELSE roleAct)
        /\ suspendAct => ~staffRows[id].active

\* The page offers identity providers only where sign-in is configured.
SsoOfferedWhenConfigured ==
    /\ ssoPage = "ready" \/ ssoLink => samlEnabled
    /\ ssoPage = "notConfigured" => ~samlEnabled

\* Accounts and sessions of staff agree with who signed in: see the three parts.
SsoConsistent == SsoSessionsAreStaff /\ RoleIsLastAct /\ SsoOfferedWhenConfigured
=============================================================================
