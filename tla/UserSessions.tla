---------------------------- MODULE UserSessions ----------------------------
(***************************************************************************)
(* User accounts and refresh tokens of the NestJS backend: registration,   *)
(* login, rotation with reuse detection, password reset, profile edits and *)
(* deletion by an administrator, interleaved at their await points.  A     *)
(* handler that loads a user and saves it inserts the row again when it is *)
(* gone by then.                                                           *)
(*                                                                         *)
(* A token is <<family, version>>, the pair of the unique index; expiry    *)
(* only refuses requests and is left out, as are audit entries.  In a      *)
(* family whose rows were purged a late rotation may insert the same pair  *)
(* again, which the model then identifies.  Anonymisation is left out: its *)
(* transaction sets a password of null, which the column refuses, and its  *)
(* route is behind DELETE /users/:id; no row ever has isDeleted set.       *)
(***************************************************************************)
EXTENDS Naturals

CONSTANTS
    Users,
    Families,     \* familyId values
    UserOf,       \* [Families -> Users], the user a family id is minted for
    MaxVersion,   \* bound on the rotations of one family
    Workers,      \* concurrent handler invocations
    None

ASSUME UserOfAssumption == UserOf \in [Families -> Users]
ASSUME MaxVersionAssumption == MaxVersion \in Nat \ {0}
ASSUME NoneAssumption == None \notin Users

VARIABLES
    account,      \* users row: "none" before, "active", "gone" when deleted
    rows,         \* refresh_tokens rows
    consumed,     \* tokens with consumedAt set
    revoked,      \* tokens with revoked set
    minted,       \* families ever opened
    call          \* the handler each worker runs, with its locals

vars == <<account, rows, consumed, revoked, minted, call>>
tokens == <<rows, consumed, revoked, minted>>

Tokens == Families \X (1..MaxVersion)
Family(t) == t[1]
Version(t) == t[2]
Live == rows \ (consumed \cup revoked)
RowsOf(us) == {t \in rows : UserOf[Family(t)] \in us}

AccountStatus == {"none", "active", "gone"}
Labels ==
    {"idle", "mint", "otpSave", "resetSave", "editSave", "revokeAll", "mark",
     "rotate", "revokeFamily"}
\* The locals of a handler: the user it loaded and the stored token it read.
Calls == [pc : Labels, user : Users \cup {None}, token : Tokens \cup {<<None, 0>>}]
NoToken == <<None, 0>>
IdleCall == [pc |-> "idle", user |-> None, token |-> NoToken]

At(w, label) == call[w].pc = label
Return(w) == call' = [call EXCEPT ![w] = IdleCall]
Continue(w, label) == call' = [call EXCEPT ![w].pc = label]
\* The handler loads user u and suspends before label.
LoadUser(w, u, label) ==
    call' = [call EXCEPT ![w] = [pc |-> label, user |-> u, token |-> NoToken]]
LoadToken(w, t, label) ==
    call' = [call EXCEPT ![w] = [pc |-> label, user |-> UserOf[Family(t)], token |-> t]]

Init ==
    /\ account = [u \in Users |-> "none"]
    /\ rows = {} /\ consumed = {} /\ revoked = {} /\ minted = {}
    /\ call = [w \in Workers |-> IdleCall]

\* Rows that leave the table take their flags along.
DeleteRows(ts) ==
    /\ rows' = rows \ ts
    /\ consumed' = consumed \ ts
    /\ revoked' = revoked \ ts

-----------------------------------------------------------------------------
\* Sessions: register, login, OTP verification, refresh

\* The answer to a registration holds no refresh token.
Register(w, u) ==
    /\ At(w, "idle") /\ account[u] = "none"
    /\ account' = [account EXCEPT ![u] = "active"]
    /\ UNCHANGED <<tokens, call>>

\* The credentials are compared with those read.
Login(w, u) ==
    /\ At(w, "idle") /\ account[u] = "active"
    /\ LoadUser(w, u, "mint")
    /\ UNCHANGED <<account, tokens>>

VerifyOtp(w, u) ==
    /\ At(w, "idle") /\ account[u] = "active"
    /\ LoadUser(w, u, "otpSave")
    /\ UNCHANGED <<account, tokens>>

\* Inserts version 1 of a fresh family; the foreign key refuses a token of a
\* user whose row is gone.
Mint(w) ==
    /\ At(w, "mint")
    /\ \/ /\ account[call[w].user] # "gone"
          /\ \E f \in Families \ minted :
                /\ UserOf[f] = call[w].user
                /\ minted' = minted \cup {f}
                /\ rows' = rows \cup {<<f, 1>>}
       \/ /\ account[call[w].user] = "gone"
          /\ UNCHANGED <<rows, minted>>
    /\ Return(w)
    /\ UNCHANGED <<account, consumed, revoked>>

\* Variant: only a revoked token counts as reused.
SpentUnlessRevoked(t) == t \in revoked

Spent(t) == t \in revoked \cup consumed

\* Reads the user and the stored token; a token that is not stored is refused.
Refresh(w, t) ==
    /\ At(w, "idle") /\ t \in rows
    /\ \/ Spent(t) /\ LoadToken(w, t, "revokeFamily")
       \/ ~Spent(t) /\ Version(t) < MaxVersion /\ LoadToken(w, t, "mark")
    /\ UNCHANGED <<account, tokens>>

\* Variant: the token is not marked before its successor is stored.
MarkNothing(w) ==
    /\ At(w, "mark")
    /\ Continue(w, "rotate")
    /\ UNCHANGED <<account, tokens>>

\* UPDATE by primary key, whatever the row holds by now.
MarkTokenConsumed(w) ==
    /\ At(w, "mark")
    /\ consumed' = consumed \cup ({call[w].token} \cap rows)
    /\ Continue(w, "rotate")
    /\ UNCHANGED <<account, rows, revoked, minted>>

Successor(t) == <<Family(t), Version(t) + 1>>

\* The insert of the next version; the unique index on (familyId, version)
\* and the foreign key make it fail, and the request with it.
Rotate(w) ==
    LET t == Successor(call[w].token) IN
    /\ At(w, "rotate")
    /\ IF t \notin rows /\ account[call[w].user] # "gone"
       THEN rows' = rows \cup {t}
       ELSE UNCHANGED rows
    /\ Return(w)
    /\ UNCHANGED <<account, consumed, revoked, minted>>

RevokeFamily(w) ==
    LET unrevoked == {t \in rows \ revoked :
                        Family(t) = Family(call[w].token)} IN
    /\ At(w, "revokeFamily")
    /\ revoked' = revoked \cup unrevoked
    /\ consumed' = consumed \cup unrevoked
    /\ Return(w)
    /\ UNCHANGED <<account, rows, minted>>

-----------------------------------------------------------------------------
\* Handlers that load a user, await something and save it

\* Reset by a token in the row.  No route calls forgotPassword, which issues
\* one: only an administrator's PATCH, an EditUser, puts it there.
ResetPassword(w, u) ==
    /\ At(w, "idle") /\ account[u] = "active"
    /\ LoadUser(w, u, "resetSave")
    /\ UNCHANGED <<account, tokens>>

\* Profile, picture, member status, TOTP, passkey and OTP edits, and the reset
\* by an e-mailed code, which revokes no token.
EditUser(w, u) ==
    /\ At(w, "idle") /\ account[u] = "active"
    /\ LoadUser(w, u, "editSave")
    /\ UNCHANGED <<account, tokens>>

\* repository.save(user): a SELECT by id and then an UPDATE, or an INSERT when
\* the row is gone.  One step of both: a row deleted between them stays gone,
\* like one deleted after.
SaveUser(w) ==
    /\ call[w].pc \in {"otpSave", "resetSave", "editSave"}
    /\ account' = [account EXCEPT ![call[w].user] = "active"]
    /\ CASE At(w, "otpSave") -> Continue(w, "mint")
         [] At(w, "resetSave") -> Continue(w, "revokeAll")
         [] OTHER -> Return(w)
    /\ UNCHANGED tokens

RevokeAllRefreshTokens(w) ==
    /\ At(w, "revokeAll")
    /\ revoked' = revoked \cup RowsOf({call[w].user})
    /\ Return(w)
    /\ UNCHANGED <<account, rows, consumed, minted>>

-----------------------------------------------------------------------------
\* The end of an account

\* DELETE by an administrator; the tokens cascade.
DeleteUser(w, u) ==
    /\ At(w, "idle") /\ account[u] = "active"
    /\ account' = [account EXCEPT ![u] = "gone"]
    /\ DeleteRows(RowsOf({u}))
    /\ UNCHANGED <<minted, call>>

\* An exception or a restart at an await: what was written stays, an open
\* transaction rolls back, nothing resumes.
HandlerFails(w) ==
    /\ ~At(w, "idle")
    /\ Return(w)
    /\ UNCHANGED <<account, tokens>>

Step(w) ==
    \/ \E u \in Users :
          \/ Register(w, u) \/ Login(w, u) \/ VerifyOtp(w, u)
          \/ ResetPassword(w, u) \/ EditUser(w, u)
          \/ DeleteUser(w, u)
    \/ \E t \in Tokens : Refresh(w, t)
    \/ Mint(w) \/ MarkTokenConsumed(w) \/ Rotate(w) \/ RevokeFamily(w)
    \/ SaveUser(w) \/ RevokeAllRefreshTokens(w)
    \/ HandlerFails(w)

Next == \E w \in Workers : Step(w)

Spec == Init /\ [][Next]_vars

-----------------------------------------------------------------------------
\* Types of the variables; a token's flags exist only with its row, and rows
\* only in families that were opened.
TypeOK ==
    /\ account \in [Users -> AccountStatus]
    /\ rows \subseteq Tokens /\ consumed \subseteq rows /\ revoked \subseteq rows
    /\ minted \subseteq Families /\ \A t \in rows : Family(t) \in minted
    /\ call \in [Workers -> Calls]

\* The first row of a family is deleted only with all others.
Purged(f) == f \in minted /\ <<f, 1>> \notin rows

\* However many refresh requests present the same token at once, a family
\* whose rows were not purged has at most one token that can be refreshed:
\* two concurrent rotations end in the unique index, not in two sessions.
OneLivePerFamily ==
    \A s, t \in Live :
        Family(s) = Family(t) /\ ~Purged(Family(s)) => s = t

Refreshing(f) ==
    \E w \in Workers : call[w].pc \in {"mark", "rotate"}
                       /\ Family(call[w].token) = f

\* No live token, and no refresh that is past its check.
Closed(f) ==
    /\ f \in minted
    /\ \A t \in Live : Family(t) # f
    /\ ~Refreshing(f)

\* Rotation with reuse detection: a session whose family has no live token
\* and no refresh past its check is over; presenting any of its tokens again,
\* also after a crash between consuming one and storing its successor, never
\* reopens it.
ClosedStaysClosed == [][\A f \in Families : Closed(f) => Closed(f)']_vars
=============================================================================
