---------------------------- MODULE Administration ---------------------------
(***************************************************************************)
(* Accounts under administration: PATCH and DELETE /users/:id, PATCH       *)
(* /members/:id/status, and the two pages of one administrator that use    *)
(* them, the dashboard with its table of users and the page of members.    *)
(*                                                                         *)
(* An update loads the row, counts the administrators that would remain    *)
(* when it demotes one, saves the row it loaded and then records the       *)
(* change: steps of a request that no transaction joins.  The role an    *)
(* actor acts with is the one in its access token.  Names, passwords,      *)
(* searches and statistics are left out; "edit" is an update of such a     *)
(* field.  The pages show one row, that of OtherAccount.                   *)
(***************************************************************************)
EXTENDS QueryCache, FiniteSets

CONSTANTS
    AdminAccount,       \* the administrator whose pages are modelled
    OtherAccount,
    InitialRoles,       \* the roles OtherAccount may start with
    AdminSides,         \* {"none", "dashboard", "members"}: the page that is open
    ClientOps,          \* the requests that clients send while no page is open
    MaxUserWrites,      \* bound on the writes to the accounts
    MaxAdminCalls,      \* bound on the requests under way
    MaxRefreshes        \* bound on the requests of the dashboard under way

VARIABLES
    adminSide,          \* the page that is open
    accounts,           \* the rows of users
    usersVer,           \* the writes so far
    initialRole,
    tokenRole,          \* the role in the access token of each account
    adminCalls,         \* requests that change an account
    roleTrail,          \* the role changes in the audit log, or whose entry could not be
                        \* written when the request failed
    overlapped,         \* history: an update saved what it read before another write
    unguarded,          \* history: a route without the count took an administrator away
    userTable,          \* the dashboard: loading, adminUsers, the rows of the table if mounted
    refreshes,          \* its requests: fetchData, and fetchPage of the mounted table
    memberQuery,
    adminDebt           \* the version that own writes reported to the page

accountVars == <<accounts, usersVer, roleTrail, overlapped, unguarded>>
adminPageVars == <<userTable, refreshes, memberQuery, adminDebt>>
adminVars == <<adminSide, initialRole, tokenRole, adminCalls, accountVars, adminPageVars>>

Accounts == {AdminAccount, OtherAccount}
IsAdminLike(role) == role = "admin"
Roles == {"user", "staff", "admin"}

\* UpdateUserDto has no isSuspended, and an unknown field is refused.
UpdateOps == {"make-admin", "make-user", "edit", "deactivate", "suspend"}
Requested(op) == CASE op = "make-admin" -> "admin" [] op = "make-user" -> "user"
RoleOps == {"make-admin", "make-user"}
AdminOnlyFields == {"make-admin", "make-user", "deactivate"}
StatusOps == {"setSuspended", "setActive"}

Unloaded == [role |-> "none", active |-> FALSE, exists |-> FALSE]

AdministrationInit ==
    /\ adminSide \in AdminSides
    /\ \E r \in IF adminSide = "none" THEN InitialRoles ELSE {"admin"} :
          initialRole = [x \in Accounts |-> IF x = AdminAccount THEN "admin" ELSE r]
    /\ accounts = [x \in Accounts |->
          [role |-> initialRole[x], active |-> TRUE, exists |-> TRUE]]
    /\ tokenRole = initialRole
    /\ usersVer = 1 /\ adminCalls = {} /\ roleTrail = {}
    /\ overlapped = FALSE /\ unguarded = FALSE
    /\ userTable = [loading |-> TRUE, users |-> NoData, rows |-> NoData, mixed |-> FALSE]
    /\ refreshes = IF adminSide = "dashboard"
                   THEN {[of |-> "dashboard", at |-> "sent", copy |-> NoData, tag |-> 1]} ELSE {}
    /\ memberQuery = IF adminSide = "members" THEN StartFetch(EmptyQuery, FALSE) ELSE EmptyQuery
    /\ adminDebt = 0

Remains(c, at) == adminCalls' = (adminCalls \ {c}) \cup {[c EXCEPT !.at = at]}
Ends(c) == adminCalls' = adminCalls \ {c}
\* A refusal changes nothing on the page, so that it is not waited for.
Done(c) == IF c.page THEN Remains(c, "done") ELSE Ends(c)

\* A request of any client, while no page is modelled.
SendAdmin(x, op, t) ==
    /\ adminSide = "none"
    /\ Cardinality(adminCalls) < MaxAdminCalls
    /\ accounts[x].exists
    /\ adminCalls' = adminCalls \cup
          {[by |-> x, op |-> op, target |-> t, at |-> "sent", row |-> Unloaded, ver |-> 0,
            columns |-> {}, page |-> FALSE]}
    /\ UNCHANGED <<adminSide, initialRole, tokenRole, accountVars, adminPageVars>>

\* A sign-in or a refresh puts the role of the row into the token.
RefreshToken(x) ==
    /\ accounts[x].exists /\ tokenRole[x] # accounts[x].role
    /\ tokenRole' = [tokenRole EXCEPT ![x] = accounts[x].role]
    /\ UNCHANGED <<adminSide, initialRole, adminCalls, accountVars, adminPageVars>>

-----------------------------------------------------------------------------
\* PATCH /users/:id

\* JwtStrategy.validate: the token of an account that is gone opens nothing.
Authenticated(c) == accounts[c.by].exists
CanMutateUser(c) == c.by = c.target \/ IsAdminLike(tokenRole[c.by])
ChangesRole(c, row) == c.op \in RoleOps /\ Requested(c.op) # row.role
Demotes(c) ==
    ChangesRole(c, c.row) /\ IsAdminLike(c.row.role) /\ ~IsAdminLike(Requested(c.op))

MayUpdate(c) ==
    /\ Authenticated(c) /\ c.op # "suspend" /\ accounts[c.target].exists
    /\ CanMutateUser(c)
    /\ c.op \in AdminOnlyFields => IsAdminLike(tokenRole[c.by])
    /\ ~(ChangesRole(c, accounts[c.target]) /\ c.by = c.target)

LoadForUpdate(c) ==
    /\ c.at = "sent" /\ c.op \in UpdateOps
    /\ IF MayUpdate(c)
       THEN adminCalls' = (adminCalls \ {c}) \cup
               {[c EXCEPT !.at = "loaded", !.row = accounts[c.target], !.ver = usersVer]}
       ELSE Ends(c)
    /\ UNCHANGED <<adminSide, initialRole, tokenRole, accountVars, adminPageVars>>

\* Variant: the account itself is among those counted.
ActiveAdminsIncluding(x) ==
    {y \in Accounts : accounts[y].exists /\ accounts[y].active /\ IsAdminLike(accounts[y].role)}
RemainingAdmins(x) ==
    {y \in Accounts \ {x} :
        accounts[y].exists /\ accounts[y].active /\ IsAdminLike(accounts[y].role)}

CountAdmins(c) ==
    /\ c.at = "loaded" /\ Demotes(c)
    /\ IF RemainingAdmins(c.target) = {} THEN Ends(c) ELSE Remains(c, "counted")
    /\ UNCHANGED <<adminSide, initialRole, tokenRole, accountVars, adminPageVars>>

\* A suspended member is not active.
Applied(c) ==
    CASE c.op \in RoleOps -> [c.row EXCEPT !.role = Requested(c.op)]
      [] c.op \in {"deactivate", "setSuspended"} -> [c.row EXCEPT !.active = FALSE]
      [] c.op = "setActive" -> [c.row EXCEPT !.active = TRUE]
      [] OTHER -> c.row

\* repository.save, its SELECT: the columns in which the row differs from the
\* stored one, all of it being new if that is gone.
UserColumns == {"role", "active", "exists"}
OutOfDate(c) == {k \in UserColumns : Applied(c)[k] # accounts[c.target][k]}

SelectAccount(c) ==
    /\ c.op \in UpdateOps \cup StatusOps
    /\ c.at = IF Demotes(c) THEN "counted" ELSE "loaded"
    /\ adminCalls' = (adminCalls \ {c}) \cup {[c EXCEPT !.at = "selected", !.columns = OutOfDate(c)]}
    /\ UNCHANGED <<adminSide, initialRole, tokenRole, accountVars, adminPageVars>>

\* Its UPDATE of these columns, which misses a row that is gone; or its INSERT.
SavedRow(c) ==
    LET now == accounts[c.target]
        new == Applied(c)
    IN
    IF ~now.exists /\ "exists" \notin c.columns THEN now
    ELSE [role |-> IF "role" \in c.columns THEN new.role ELSE now.role,
          active |-> IF "active" \in c.columns THEN new.active ELSE now.active,
          exists |-> TRUE]

WriteAccount(x, row, ver) ==
    /\ usersVer < MaxUserWrites
    /\ accounts' = [accounts EXCEPT ![x] = row]
    /\ usersVer' = usersVer + 1
    /\ overlapped' = (overlapped \/ usersVer # ver)

SaveUserRow(c) ==
    /\ c.at = "selected"
    /\ "exists" \in c.columns => ~accounts[c.target].exists
    /\ WriteAccount(c.target, SavedRow(c), c.ver)

SaveAccount(c) ==
    /\ c.op \in UpdateOps /\ SaveUserRow(c)
    /\ IF ChangesRole(c, c.row) THEN Remains(c, "saved") ELSE Done(c)
    /\ unguarded' = (unguarded \/ (c.op = "deactivate" /\ IsAdminLike(c.row.role)))
    /\ UNCHANGED <<adminSide, initialRole, tokenRole, roleTrail, adminPageVars>>

\* users.role_change, on a statement of its own
RecordRoleChange(c) ==
    /\ c.at = "saved" /\ Done(c)
    /\ roleTrail' = roleTrail \cup {<<c.target, Requested(c.op)>>}
    /\ UNCHANGED <<adminSide, initialRole, tokenRole, accounts, usersVer, overlapped,
                   unguarded, adminPageVars>>

\* A statement fails or the process stops: the request has no success to report.
StatementFails(c) ==
    /\ c.at \in {"sent", "loaded", "counted", "selected", "saved"} /\ Ends(c)
    /\ roleTrail' = IF c.at = "saved" THEN roleTrail \cup {<<c.target, Requested(c.op)>>}
                    ELSE roleTrail
    /\ UNCHANGED <<adminSide, initialRole, tokenRole, accounts, usersVer, overlapped,
                   unguarded, adminPageVars>>

-----------------------------------------------------------------------------
\* DELETE /users/:id and PATCH /members/:id/status

DeleteMember(c) ==
    /\ c.at = "sent" /\ c.op = "delete"
    /\ IF Authenticated(c) /\ IsAdminLike(tokenRole[c.by]) /\ accounts[c.target].exists
       THEN /\ WriteAccount(c.target, [accounts[c.target] EXCEPT !.exists = FALSE], usersVer)
            /\ unguarded' = (unguarded \/ IsAdminLike(accounts[c.target].role))
            /\ Done(c)
       ELSE /\ Ends(c)
            /\ UNCHANGED <<accounts, usersVer, overlapped, unguarded>>
    /\ UNCHANGED <<adminSide, initialRole, tokenRole, roleTrail, adminPageVars>>

LoadMember(c) ==
    /\ c.at = "sent" /\ c.op \in StatusOps
    /\ IF /\ Authenticated(c) /\ tokenRole[c.by] \in {"staff", "admin"}
          /\ accounts[c.target].exists
       THEN adminCalls' = (adminCalls \ {c}) \cup
               {[c EXCEPT !.at = "loaded", !.row = accounts[c.target], !.ver = usersVer]}
       ELSE Ends(c)
    /\ UNCHANGED <<adminSide, initialRole, tokenRole, accountVars, adminPageVars>>

\* Nobody counts the administrators here.
UpdateStatusOfMember(c) ==
    /\ c.op \in StatusOps /\ SaveUserRow(c)
    /\ unguarded' = (unguarded \/ (c.op = "setSuspended" /\ IsAdminLike(c.row.role)))
    /\ Done(c)
    /\ UNCHANGED <<adminSide, initialRole, tokenRole, roleTrail, adminPageVars>>

-----------------------------------------------------------------------------
\* The dashboard: DashboardContent and AdminUserTable

UsersNow ==
    [status |-> IF accounts[OtherAccount].exists THEN accounts[OtherAccount].role ELSE "absent",
     ver |-> usersVer]
MayReadUsers(roles) == accounts[AdminAccount].exists /\ tokenRole[AdminAccount] \in roles

\* A request beside those under way.
StartRefresh(of, others) ==
    /\ Cardinality(others) < MaxRefreshes
    /\ refreshes' = others \cup
          {[of |-> of, at |-> "sent", copy |-> NoData,
            tag |-> CHOOSE n \in 1..MaxRefreshes : \A f \in others : f.tag # n]}

\* handleAction offers what the row shown allows.
Offers(status) ==
    IF status \in Roles
    THEN {"suspend", "delete", IF status = "admin" THEN "make-user" ELSE "make-admin"} ELSE {}
Sends(op) ==
    /\ Cardinality(adminCalls) < MaxAdminCalls
    /\ adminCalls' = adminCalls \cup
          {[by |-> AdminAccount, op |-> op, target |-> OtherAccount, at |-> "sent",
            row |-> Unloaded, ver |-> 0, columns |-> {}, page |-> TRUE]}

HandleAdminAction(op) ==
    /\ adminSide = "dashboard" /\ ~userTable.loading /\ op \in Offers(userTable.rows.status)
    /\ Sends(op)
    /\ UNCHANGED <<adminSide, initialRole, tokenRole, accountVars, adminPageVars>>

\* A search or another page of the table.
FetchPage ==
    /\ adminSide = "dashboard" /\ ~userTable.loading /\ StartRefresh("table", refreshes)
    /\ UNCHANGED <<adminSide, initialRole, tokenRole, adminCalls, accountVars, userTable,
                   memberQuery, adminDebt>>

\* While a page is open, an update of another client takes one step.
OthersUpdate(role) ==
    /\ adminSide # "none" /\ accounts[OtherAccount].exists
    /\ WriteAccount(OtherAccount, [accounts[OtherAccount] EXCEPT !.role = role], usersVer)
    /\ roleTrail' = roleTrail \cup {<<OtherAccount, role>>}
    /\ unguarded' = (unguarded \/ accounts[OtherAccount].role = "admin")
    /\ UNCHANGED <<adminSide, initialRole, tokenRole, adminCalls, adminPageVars>>

\* The success of an action: fetchPage and onRefresh, whose setLoading unmounts
\* the table, so that no answer to that table is shown any more.
ActionDone(c) ==
    /\ c.page /\ adminSide = "dashboard" /\ c.at = "done" /\ c.op # "delete" /\ Ends(c)
    /\ LET left == {f \in refreshes : f.of = "dashboard"} IN
       /\ StartRefresh("dashboard", left)
       /\ userTable' = [userTable EXCEPT !.loading = TRUE, !.rows = NoData, !.mixed = left # {}]
    /\ adminDebt' = usersVer
    /\ UNCHANGED <<adminSide, initialRole, tokenRole, accountVars, memberQuery>>

\* A 204 has no body, which apiClient takes for a failure: the table keeps the
\* row of an account that is gone.
ActionFails(c) ==
    /\ c.page /\ Ends(c)
    /\ c.at = "done"
    /\ UNCHANGED <<adminSide, initialRole, tokenRole, accountVars, adminPageVars>>

ServeRefresh(f) ==
    /\ f.at = "sent" /\ MayReadUsers({"admin"})
    /\ refreshes' = (refreshes \ {f}) \cup {[f EXCEPT !.at = "read", !.copy = UsersNow]}
    /\ UNCHANGED <<adminSide, initialRole, tokenRole, adminCalls, accountVars, userTable,
                   memberQuery, adminDebt>>

\* The table takes initialData when it is mounted, never afterwards.
FetchDataEnds(users) ==
    userTable' = [userTable EXCEPT !.users = users, !.loading = FALSE,
                                   !.rows = IF userTable.loading THEN users ELSE @]

RefreshArrives(f) ==
    /\ f.at = "read" /\ refreshes' = refreshes \ {f}
    /\ IF f.of = "dashboard" THEN FetchDataEnds(f.copy)
       ELSE userTable' = [userTable EXCEPT !.rows = f.copy]
    /\ UNCHANGED <<adminSide, initialRole, tokenRole, adminCalls, accountVars, memberQuery,
                   adminDebt>>

\* Silently: the table shows what the page had before.
RefreshFails(f) ==
    /\ refreshes' = refreshes \ {f}
    /\ IF f.of = "dashboard"
       THEN FetchDataEnds(userTable.users) /\ adminDebt' = 0
       ELSE UNCHANGED <<userTable, adminDebt>>
    /\ UNCHANGED <<adminSide, initialRole, tokenRole, adminCalls, accountVars, memberQuery>>

-----------------------------------------------------------------------------
\* The page of members: useGetAllMembers and useUpdateMemberStatus

MutateMember(op) ==
    /\ adminSide = "members" /\ op \in Offers(memberQuery.seen.status) \ {"delete"}
    /\ Sends(op)
    /\ UNCHANGED <<adminSide, initialRole, tokenRole, accountVars, adminPageVars>>

MemberUpdated(c) ==
    /\ c.page /\ adminSide = "members" /\ c.at = "done" /\ Ends(c)
    /\ memberQuery' = Invalidated(memberQuery, TRUE)
    /\ adminDebt' = usersVer
    /\ UNCHANGED <<adminSide, initialRole, tokenRole, accountVars, userTable, refreshes>>

FetchMembers ==
    /\ \/ /\ memberQuery.fetch = "sent" /\ MayReadUsers({"staff", "admin"})
          /\ memberQuery' = ReadByServer(memberQuery, UsersNow)
       \/ memberQuery.fetch = "read" /\ memberQuery' = Arrived(memberQuery)
       \/ memberQuery.fetch # "idle" /\ memberQuery' = FetchFailed(memberQuery)
    /\ UNCHANGED <<adminSide, initialRole, tokenRole, adminCalls, accountVars, userTable,
                   refreshes, adminDebt>>

RefocusMembers ==
    /\ adminSide = "members" /\ memberQuery.fetch = "idle"
    /\ memberQuery' = StartFetch(memberQuery, FALSE)
    /\ UNCHANGED <<adminSide, initialRole, tokenRole, adminCalls, accountVars, userTable,
                   refreshes, adminDebt>>

AdministrationNext ==
    \/ \E x, t \in Accounts, op \in ClientOps : SendAdmin(x, op, t)
    \/ \E x \in Accounts : RefreshToken(x)
    \/ \E c \in adminCalls :
          \/ LoadForUpdate(c) \/ CountAdmins(c) \/ SelectAccount(c) \/ SaveAccount(c)
          \/ RecordRoleChange(c) \/ StatementFails(c) \/ DeleteMember(c) \/ LoadMember(c) \/ UpdateStatusOfMember(c)
          \/ ActionDone(c) \/ ActionFails(c) \/ MemberUpdated(c)
    \/ \E op \in {"suspend", "delete", "make-admin", "make-user"} :
          HandleAdminAction(op) \/ MutateMember(op)
    \/ FetchPage
    \/ \E role \in {"user", "staff"} : OthersUpdate(role)
    \/ \E f \in refreshes : ServeRefresh(f) \/ RefreshArrives(f) \/ RefreshFails(f)
    \/ FetchMembers \/ RefocusMembers

AdministrationSpec == AdministrationInit /\ [][AdministrationNext]_adminVars

-----------------------------------------------------------------------------
\* An active administrator remains as long as updates run one at a time and no
\* route without the count took one away, whatever role stale tokens carry.
AdministratorRemains ==
    ~overlapped /\ ~unguarded =>
        \E x \in Accounts : accounts[x].exists /\ accounts[x].active /\ IsAdminLike(accounts[x].role)

\* A role other than the first one has its entry in the audit log, or its
\* request is about to write it, or failed doing so (roleTrail).
RolesTraced ==
    \A x \in Accounts :
        \/ accounts[x].role = initialRole[x]
        \/ <<x, accounts[x].role>> \in roleTrail
        \/ \E c \in adminCalls :
              c.at = "saved" /\ c.target = x /\ Requested(c.op) = accounts[x].role

\* What a page shows when nothing is on its way is no older than the writes
\* that were reported to it, unless two refreshes of the dashboard overlapped.
AdminPagesAgree ==
    /\ adminSide = "dashboard" /\ refreshes = {} /\ ~userTable.mixed =>
          /\ ~userTable.loading /\ userTable.rows.ver >= adminDebt
    /\ adminSide = "members" => UpToDate(memberQuery, adminDebt)

\* The promise of user administration: an administrator remains, every role is
\* accounted for in the audit log, and pages show their own writes.
AdministrationHolds == AdministratorRemains /\ RolesTraced /\ AdminPagesAgree
=============================================================================
