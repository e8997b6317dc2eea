---------------------------- MODULE WorkspacePages ---------------------------
(***************************************************************************)
(* Workspaces as administrators keep them and as members see them: the     *)
(* administrators' list with its form in a modal, the catalogue and the    *)
(* page of a workspace, in one tab, against a server other administrators  *)
(* use too.  The form sends every field as it was when the modal opened,   *)
(* changed or not; the server saves the row it read with these fields in   *)
(* it, every column in which that differs from the row stored by then.     *)
(*                                                                         *)
(* The types of lib/types/workspace.ts are in capitals, those of the       *)
(* backend's enum are not: spelling says which the API accepts.  Seats,    *)
(* descriptions, amenities, searches and pagination are left out.          *)
(***************************************************************************)
EXTENDS QueryCache, FiniteSets

CONSTANTS
    Spaces, FirstSpace, \* rows; FirstSpace may be there from the start
    SpaceNames, Rates,
    Spellings,          \* {"types", "enum"}
    MaxSpaceWrites,     \* bound on the writes to the workspaces
    MaxSpaceCalls       \* bound on the requests of the tab under way

ASSUME SpacesAssumption ==
    /\ FirstSpace \in Spaces /\ Rates # {} /\ SpaceNames # {}
    /\ "none" \notin SpaceNames

VARIABLES
    spelling,
    spaces,             \* the rows of workspaces
    spacesVer,          \* the writes so far
    spacePage,          \* "admin" or "catalogue"
    spaceForm,          \* the modal: closed, or the row it was opened with
    spaceCalls,
    spaceCache,
    spaceDebt,          \* the version that own writes reported to the tab
    meant,              \* history: the rows as the changes that were meant make them
    crossed             \* history: what makes the rows differ from it, or names clash

spaceServer == <<spelling, spaces, spacesVer, meant, crossed>>
spaceVars == <<spacePage, spaceForm, spaceCalls, spaceCache, spaceDebt, spaceServer>>

NoSpace == [name |-> "none", rate |-> 0, active |-> FALSE]
NoSpaceForm == [mode |-> "closed", of |-> FirstSpace, row |-> NoSpace, ver |-> 0]

\* One query a page: useGetAdminWorkspaces, and useGetWorkspaces, for which
\* useGetWorkspaceById stands too.
SpaceKeys == {"admin", "catalogue"}
SpaceQuery == spacePage

WorkspacePagesInit ==
    /\ spelling \in Spellings
    /\ spaces \in {[s \in Spaces |-> NoSpace], [s \in Spaces |-> IF s = FirstSpace
                    THEN [name |-> CHOOSE n \in SpaceNames : TRUE,
                          rate |-> CHOOSE r \in Rates : TRUE, active |-> TRUE]
                    ELSE NoSpace]}
    /\ meant = spaces /\ crossed = {} /\ spacesVer = 1
    /\ spacePage = "admin" /\ spaceForm = NoSpaceForm /\ spaceCalls = {} /\ spaceDebt = 0
    /\ spaceCache = [k \in SpaceKeys |->
          IF k = "admin" THEN StartFetch(EmptyQuery, FALSE) ELSE EmptyQuery]

\* Leaving the list unmounts the modal, not the requests it made.  A page that
\* is opened fetches; that it shows its last data meanwhile is left out.
Visit(p) ==
    /\ p # spacePage /\ spacePage' = p
    /\ spaceForm' = NoSpaceForm
    /\ spaceCalls' = {[c EXCEPT !.live = FALSE] : c \in spaceCalls}
    /\ spaceCache' = [k \in SpaceKeys |->
          IF k = p THEN OnMount(EmptyQuery, FALSE) ELSE EmptyQuery]
    /\ spaceDebt' = 0
    /\ UNCHANGED spaceServer

ListedSpaces == {s \in Spaces : spaceCache["admin"].seen # NoData
                                /\ spaceCache["admin"].seen.rows[s] # NoSpace}

-----------------------------------------------------------------------------
\* The modal

OpenNew ==
    /\ spacePage = "admin" /\ spaceForm = NoSpaceForm
    /\ spaceForm' = [NoSpaceForm EXCEPT !.mode = "new"]
    /\ UNCHANGED <<spacePage, spaceCalls, spaceCache, spaceDebt, spaceServer>>

OpenEdit(s) ==
    /\ spacePage = "admin" /\ spaceForm = NoSpaceForm /\ s \in ListedSpaces
    /\ spaceForm' = [mode |-> "edit", of |-> s, row |-> spaceCache["admin"].seen.rows[s],
                     ver |-> spaceCache["admin"].seen.ver]
    /\ UNCHANGED <<spacePage, spaceCalls, spaceCache, spaceDebt, spaceServer>>

\* Escape, the cross and Cancel work also while the answer is awaited.
CloseForm ==
    /\ spaceForm # NoSpaceForm /\ spaceForm' = NoSpaceForm
    /\ spaceCalls' = {[c EXCEPT !.live = FALSE] : c \in spaceCalls}
    /\ UNCHANGED <<spacePage, spaceCache, spaceDebt, spaceServer>>

SendSpace(op, s, dto, changed, ver, live) ==
    /\ Cardinality(spaceCalls) < MaxSpaceCalls
    /\ spaceCalls' = spaceCalls \cup
          {[op |-> op, of |-> s, dto |-> dto, changed |-> changed, formVer |-> ver,
            at |-> "sent", row |-> NoSpace, ver |-> 0, columns |-> {}, live |-> live]}
    /\ UNCHANGED <<spacePage, spaceForm, spaceCache, spaceDebt, spaceServer>>

SpacePending == \E c \in spaceCalls : c.live

\* handleSubmit of a new workspace, whose type is one of the form's
SubmitNew(n) ==
    /\ spaceForm.mode = "new" /\ ~SpacePending
    /\ SendSpace("create", spaceForm.of, [name |-> n, rate |-> CHOOSE r \in Rates : TRUE, active |-> TRUE],
                 "all", 0, TRUE)

\* handleSubmit of an edit: the user changed one field, the form sends all.
SubmitEdit(changed, n, r) ==
    /\ spaceForm.mode = "edit" /\ ~SpacePending
    /\ changed = "name" \/ n = spaceForm.row.name
    /\ changed = "rate" \/ r = spaceForm.row.rate
    /\ SendSpace("update", spaceForm.of, [name |-> n, rate |-> r, active |-> FALSE], changed,
                 spaceForm.ver, TRUE)

\* The power button negates what the list shows.
Toggle(s) ==
    /\ spacePage = "admin" /\ s \in ListedSpaces
    /\ SendSpace("toggle", s,
                 [NoSpace EXCEPT !.active = ~spaceCache["admin"].seen.rows[s].active],
                 "active", 0, FALSE)

-----------------------------------------------------------------------------
\* The server

Proceeds(c, at) ==
    /\ spaceCalls' = (spaceCalls \ {c}) \cup
          {[c EXCEPT !.at = at, !.row = spaces[c.of], !.ver = spacesVer]}
    /\ UNCHANGED <<spacePage, spaceForm, spaceCache, spaceDebt, spaceServer>>
Refused(c) ==
    /\ spaceCalls' = spaceCalls \ {c}
    /\ UNCHANGED <<spacePage, spaceForm, spaceCache, spaceDebt, spaceServer>>

\* IsEnum(WorkspaceType): an edit keeps the spelling it was given, unless the
\* type is chosen anew.
ValidType(c) == spelling = "types" \/ (c.op = "update" /\ c.changed # "type") \/ c.op = "toggle"

ActiveNames == {spaces[s].name : s \in {t \in Spaces : spaces[t].active}}

\* Variant: the name is not looked up.
AnyName(n) == FALSE
NameTaken(n) == n \in ActiveNames

FindSpace(c) ==
    /\ c.at = "sent"
    /\ IF ValidType(c) /\ ~(c.op = "create" /\ NameTaken(c.dto.name)) THEN Proceeds(c, "found")
       ELSE Refused(c)

WriteSpace(s, row) ==
    /\ spacesVer < MaxSpaceWrites
    /\ spaces' = [spaces EXCEPT ![s] = row]
    /\ spacesVer' = spacesVer + 1

\* Object.assign
Assigned(c) ==
    CASE c.op = "create" -> c.dto
      [] c.op = "update" -> [c.row EXCEPT !.name = c.dto.name, !.rate = c.dto.rate]
      [] c.op = "toggle" -> [c.row EXCEPT !.active = c.dto.active]
Meant(c, row) ==
    CASE c.op = "create" -> c.dto
      [] c.changed = "name" -> [row EXCEPT !.name = c.dto.name]
      [] c.changed = "rate" -> [row EXCEPT !.rate = c.dto.rate]
      [] c.changed = "active" -> [row EXCEPT !.active = c.dto.active]
      [] OTHER -> row

\* What a save leaves behind that no statement of the code prevents.
Crossings(c) ==
    (IF c.ver # spacesVer THEN {"save"} ELSE {})
    \cup (IF c.op = "update" /\ c.formVer # spacesVer THEN {"form"} ELSE {})
    \cup (IF c.changed \in {"name", "active"} THEN {"rename"} ELSE {})

\* repository.save of a row that was found, its SELECT: the columns in which the
\* row differs from the stored one.
SpaceColumns == {"name", "rate", "active"}
Diverged(c) == {k \in SpaceColumns : Assigned(c)[k] # spaces[c.of][k]}

SelectSpace(c) ==
    /\ c.at = "found" /\ c.op # "create"
    /\ spaceCalls' = (spaceCalls \ {c}) \cup {[c EXCEPT !.at = "selected", !.columns = Diverged(c)]}
    /\ UNCHANGED <<spacePage, spaceForm, spaceCache, spaceDebt, spaceServer>>

\* Its UPDATE of these columns, or the INSERT of a new row.
SavedSpace(c, s) ==
    IF c.op = "create" THEN c.dto
    ELSE [name |-> IF "name" \in c.columns THEN Assigned(c).name ELSE spaces[s].name,
          rate |-> IF "rate" \in c.columns THEN Assigned(c).rate ELSE spaces[s].rate,
          active |-> IF "active" \in c.columns THEN Assigned(c).active ELSE spaces[s].active]

SaveSpace(c, s) ==
    /\ IF c.op = "create" THEN c.at = "found" /\ spaces[s] = NoSpace
       ELSE c.at = "selected" /\ s = c.of
    /\ WriteSpace(s, SavedSpace(c, s))
    /\ meant' = [meant EXCEPT ![s] = Meant(c, @)]
    /\ crossed' = crossed \cup Crossings(c)
    /\ spaceCalls' = (spaceCalls \ {c}) \cup {[c EXCEPT !.at = "done"]}
    /\ UNCHANGED <<spelling, spacePage, spaceForm, spaceCache, spaceDebt>>

\* Another administrator: a new rate, or DELETE, which only deactivates.
OthersSave(s, row) ==
    /\ spaces[s] # NoSpace /\ row # spaces[s]
    /\ \/ \E r \in Rates : row = [spaces[s] EXCEPT !.rate = r]
       \/ row = [spaces[s] EXCEPT !.active = FALSE]
    /\ WriteSpace(s, row)
    /\ LET was == meant[s] IN
       meant' = [meant EXCEPT ![s] =
          [was EXCEPT !.rate = IF row.rate # spaces[s].rate THEN row.rate ELSE was.rate,
                      !.active = row.active = spaces[s].active /\ was.active]]
    /\ UNCHANGED <<spelling, crossed, spacePage, spaceForm, spaceCalls, spaceCache, spaceDebt>>

OthersCreate(s, n) ==
    /\ spelling = "types" /\ spaces[s] = NoSpace /\ ~NameTaken(n)
    /\ LET row == [name |-> n, rate |-> CHOOSE r \in Rates : TRUE, active |-> TRUE] IN
       WriteSpace(s, row) /\ meant' = [meant EXCEPT ![s] = row]
    /\ UNCHANGED <<spelling, crossed, spacePage, spaceForm, spaceCalls, spaceCache, spaceDebt>>

-----------------------------------------------------------------------------
\* Answers and fetches

\* Variant: only the administrators' list is fetched anew.
AdminOnly == {"admin"}
\* queryKeys.admin.workspaces.all and queryKeys.workspaces.all
InvalidatedKeys == SpaceKeys

\* useCreateWorkspace, useUpdateWorkspace, useToggleWorkspaceActive; then
\* onClose of the modal that sent it, which closes any modal.
SpaceAnswered(c) ==
    /\ c.at = "done" /\ spaceCalls' = spaceCalls \ {c}
    /\ spaceCache' = [k \in SpaceKeys |->
          IF k \in InvalidatedKeys THEN Invalidated(spaceCache[k], k = SpaceQuery)
          ELSE spaceCache[k]]
    \* A query without data keeps the fetch it has, whatever that reads.
    /\ spaceDebt' = IF spaceCache[SpaceQuery].seen # NoData THEN spacesVer ELSE spaceDebt
    /\ spaceForm' = IF c.op = "toggle" THEN spaceForm ELSE NoSpaceForm
    /\ UNCHANGED <<spacePage, spaceServer>>

\* No answer to a request that was done: the form stays open.
SpaceAnswerLost(c) == c.at = "done" /\ Refused(c)

\* The rows are used by the administrators' list only.
SpacesNow(k) ==
    IF k = "admin" THEN [status |-> "rows", ver |-> spacesVer, rows |-> spaces]
    ELSE [status |-> "rows", ver |-> spacesVer]

FetchSpaces(k) ==
    /\ \/ /\ spaceCache[k].fetch = "sent"
          /\ spaceCache' = [spaceCache EXCEPT ![k] = ReadByServer(@, SpacesNow(k))]
       \/ /\ spaceCache[k].fetch = "read"
          /\ spaceCache' = [spaceCache EXCEPT ![k] = Arrived(@)]
       \/ /\ spaceCache[k].fetch = "sent"
          /\ spaceCache' = [spaceCache EXCEPT ![k] = FetchFailed(@)]
    /\ UNCHANGED <<spacePage, spaceForm, spaceCalls, spaceDebt, spaceServer>>

WorkspacePagesNext ==
    \/ \E p \in SpaceKeys : Visit(p)
    \/ OpenNew \/ CloseForm
    \/ \E s \in Spaces : OpenEdit(s) \/ Toggle(s)
    \/ \E n \in SpaceNames :
          \/ SubmitNew(n)
          \/ \E r \in Rates : \E changed \in {"name", "rate", "type"} : SubmitEdit(changed, n, r)
    \/ \E c \in spaceCalls :
          \/ FindSpace(c) \/ SelectSpace(c) \/ SpaceAnswered(c) \/ SpaceAnswerLost(c)
          \/ \E s \in Spaces : SaveSpace(c, s)
    \/ \E s \in Spaces, r \in Rates, a \in BOOLEAN :
          OthersSave(s, [spaces[s] EXCEPT !.rate = r, !.active = a])
    \/ \E s \in Spaces, n \in SpaceNames : OthersCreate(s, n)
    \/ \E k \in SpaceKeys : FetchSpaces(k)

WorkspacePagesSpec == WorkspacePagesInit /\ [][WorkspacePagesNext]_spaceVars

-----------------------------------------------------------------------------
\* What administrators and members rely on: unless two saves crossed, or a form
\* was older than the row it was saved over, every row is what the changes that
\* were meant make it; active workspaces have different names unless saves
\* crossed or one was renamed or activated again, which nothing checks; no page
\* shows as current what is older than a write reported to the tab; and to an
\* API that spells the types like its enum no form adds a workspace.
WorkspacesAgree ==
    /\ crossed \cap {"save", "form"} = {} => spaces = meant
    /\ crossed \cap {"save", "rename"} = {} =>
          \A s, t \in Spaces :
              s # t /\ spaces[s].active /\ spaces[t].active => spaces[s].name # spaces[t].name
    /\ UpToDate(spaceCache[SpaceQuery], spaceDebt)
    /\ spelling # "types" => \A s \in Spaces \ {FirstSpace} : spaces[s] = NoSpace
=============================================================================
