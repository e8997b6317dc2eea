----------------------------- MODULE SecondFactor ----------------------------
(***************************************************************************)
(* The second factor and the passkeys of one account: handlers that read   *)
(* the row of the user, await the check of a code or a signature and save  *)
(* the row they read, and the modal of the settings page with its query of *)
(* the status.  A save of TypeORM is a SELECT of the row and an UPDATE of  *)
(* the columns in which it differs from what is saved: two steps.  Other   *)
(* devices of the user send requests too.                                  *)
(*                                                                         *)
(* apiShape holds two facts of the surroundings: whether answers come in   *)
(* an envelope with a member data, as the page expects (the controllers    *)
(* return bare objects), and whether the WebAuthn library gives ids of     *)
(* credentials as text, which the service encodes once more.  A behaviour  *)
(* has the page, beside a device that disables the factor, or the requests *)
(* of devices alone, passkeys included.                                    *)
(***************************************************************************)
EXTENDS QueryCache, FiniteSets

CONSTANTS
    Envelopes,      \* {"data", "bare"}
    IdForms,        \* {"bytes", "text"}
    CodeNumbers,    \* of the backup codes of one confirmation
    MaxFactorSaves, \* bound on the writes to the row, of devices alone
    MaxPageSaves,   \* the same beside the page
    MaxChallenges,  \* bound on the challenges issued
    MaxFactorCalls  \* bound on the requests under way

VARIABLES
    apiShape,
    factorRow,      \* twoFactorEnabled, totpSecret, totpBackupCodes with the
                    \* confirmation they are from, passkeys; 0 is null
    factorCalls,    \* requests under way, with the row they loaded
    challengeStore, \* the challenge that waits per kind, 0 if none
    challengeCount,
    signed,         \* challenges that a verification was saved for
    burnt, burntTwice,  \* backup codes that signed somebody in
    overwritten,    \* "no", "stale": a save wrote over one its handler had not
                    \* read, or "torn": over one its own SELECT had not read
    factorView,     \* the modal: mode, step, secret shown; which opening it is
    statusQuery, statusDebt

secondFactorVars == <<apiShape, factorRow, factorCalls, challengeStore, challengeCount, signed,
                      burnt, burntTwice, overwritten, factorView, statusQuery, statusDebt>>
factorPage == <<apiShape, factorView, statusQuery, statusDebt>>
factorHistory == <<challengeStore, challengeCount, signed, burnt, burntTwice>>

Unconfirmed == [enabled |-> FALSE, secret |-> 0, batch |-> 0, codes |-> {}, keys |-> {}, ver |-> 1]
BackupCodes(batch) == {<<batch, n>> : n \in CodeNumbers}
\* The row of an account that enabled the factor before.
Confirmed == [Unconfirmed EXCEPT !.enabled = TRUE, !.secret = 1, !.batch = 1,
                                 !.codes = BackupCodes(1)]
ClosedModal == [mode |-> "none", step |-> "start", secret |-> 0]

SecondFactorInit ==
    /\ apiShape \in [envelope : Envelopes, ids : {"none"}] \cup [envelope : {"none"}, ids : IdForms]
    /\ factorRow \in {Unconfirmed, Confirmed} /\ factorCalls = {}
    /\ challengeStore = [register |-> 0, assert |-> 0] /\ challengeCount = 0 /\ signed = {}
    /\ burnt = {} /\ burntTwice = FALSE
    /\ overwritten = "no"
    /\ factorView = ClosedModal
    /\ statusQuery = EmptyQuery /\ statusDebt = 0

-----------------------------------------------------------------------------
\* Requests: arg is the secret a code is for, a backup code or a challenge;
\* live says whether the modal that asked is still open.  A handler that saves
\* keeps the columns to write, and the version of the row they were compared with.

FactorCall(by, op, arg) ==
    [by |-> by, op |-> op, arg |-> arg, at |-> "sent", copy |-> Unconfirmed, columns |-> {}, seen |-> 0,
     live |-> by = "modal"]
AskFactor(op, arg) ==
    /\ Cardinality(factorCalls) < MaxFactorCalls
    /\ factorCalls' = factorCalls \cup {FactorCall("modal", op, arg)}

\* What devices may send when the server reads for them.
SentByDevices ==
    {FactorCall("device", "disable", 0)}
    \cup IF apiShape.ids = "none" THEN {}
         ELSE {FactorCall("device", "setup", 0), FactorCall("device", "confirm", factorRow.secret)}
              \cup {FactorCall("device", "backup", code) : code \in factorRow.codes}
              \cup {FactorCall("device", kind, challengeStore[kind]) : kind \in {"register", "assert"}}
FromDevices == IF Cardinality(factorCalls) < MaxFactorCalls THEN SentByDevices ELSE {}

Become(c, d) == factorCalls' = (factorCalls \ {c}) \cup {d}
\* An answer to a device is not followed.
AnswerFactor(c, at, secret) ==
    IF c.by = "device" THEN factorCalls' = factorCalls \ {c}
    ELSE Become(c, [c EXCEPT !.at = at, !.arg = secret, !.copy = Unconfirmed,
                              !.columns = {}, !.seen = 0])

\* The passkey of a response among those of the user: never, when the library
\* gives text and the service stored an encoding of it.
MatchingCredentials(row) == IF apiShape.ids = "text" THEN {} ELSE row.keys

\* Whether a handler that read this row goes on to save.
Admitted(c) ==
    CASE c.op = "setup" -> TRUE
      [] c.op = "confirm" -> factorRow.secret # 0 /\ c.arg = factorRow.secret
      [] c.op = "disable" -> TRUE
      [] c.op = "backup" -> c.arg \in factorRow.codes
      [] c.op = "register" -> c.arg # 0 /\ c.arg = challengeStore.register
      [] c.op = "assert" -> /\ c.arg # 0 /\ c.arg = challengeStore.assert
                            /\ MatchingCredentials(factorRow) # {}

\* The handler up to its save; a wrong code, password or signature is refused.
LoadFactorRow(c) ==
    /\ c.at = "sent"
    /\ \/ Admitted(c) /\ Become(c, [c EXCEPT !.at = "loaded", !.copy = factorRow])
       \/ AnswerFactor(c, "refused", 0)
    /\ UNCHANGED <<factorRow, overwritten, factorHistory, factorPage>>

\* Variant: the code stays in the list.
AllCodes(c) == c.copy.codes
RemainingCodes(c) == c.copy.codes \ {c.arg}

\* The row a handler saves; what it generated is named fresh.  The counter of a
\* passkey is not kept.
RowToSave(c, fresh) ==
    CASE c.op = "setup" -> [c.copy EXCEPT !.secret = fresh]
      [] c.op = "confirm" -> [c.copy EXCEPT !.enabled = TRUE, !.batch = fresh,
                                            !.codes = BackupCodes(fresh)]
      [] c.op = "disable" -> [c.copy EXCEPT !.enabled = FALSE, !.secret = 0, !.batch = 0, !.codes = {}]
      [] c.op = "backup" -> [c.copy EXCEPT !.codes = RemainingCodes(c)]
      [] c.op = "register" -> [c.copy EXCEPT !.keys = @ \cup {c.arg}]
      [] c.op = "assert" -> c.copy

\* The columns in which a row differs from the stored one.
Differing(row) ==
    {k \in {"enabled", "secret", "keys"} : row[k] # factorRow[k]}
    \cup {k \in {"codes"} : <<row.batch, row.codes>> # <<factorRow.batch, factorRow.codes>>}

\* usersRepository.save, its SELECT: the counter of a passkey may have changed.
ReloadFactorRow(c) ==
    /\ c.at = "loaded"
    /\ \E counted \in IF c.op = "assert" THEN {{}, {"keys"}} ELSE {{}} :
          Become(c, [c EXCEPT !.at = "reloaded", !.seen = factorRow.ver,
                              !.columns = Differing(RowToSave(c, factorRow.ver + 1)) \cup counted])
    /\ UNCHANGED <<factorRow, overwritten, factorHistory, factorPage>>

\* Its UPDATE; ver counts the saves.
Writable == factorRow.ver < IF apiShape.ids = "none" THEN MaxPageSaves ELSE MaxFactorSaves
SaveFactorRow(c) ==
    LET row == RowToSave(c, factorRow.ver + 1) IN
    /\ c.at = "reloaded" /\ Writable
    /\ factorRow' = [factorRow EXCEPT
          !.enabled = IF "enabled" \in c.columns THEN row.enabled ELSE @,
          !.secret = IF "secret" \in c.columns THEN row.secret ELSE @,
          !.batch = IF "codes" \in c.columns THEN row.batch ELSE @,
          !.codes = IF "codes" \in c.columns THEN row.codes ELSE @,
          !.keys = IF "keys" \in c.columns THEN row.keys ELSE @,
          !.ver = @ + 1]
    /\ overwritten' = IF c.seen # factorRow.ver THEN "torn"
                      ELSE IF c.copy.ver # factorRow.ver /\ overwritten = "no" THEN "stale"
                      ELSE overwritten
    /\ UNCHANGED factorPage

Initiate2faSetup(c) ==
    /\ c.op = "setup" /\ SaveFactorRow(c)
    /\ AnswerFactor(c, "done", factorRow.ver + 1)
    /\ UNCHANGED factorHistory

Confirm2faSetup(c) ==
    /\ c.op = "confirm" /\ SaveFactorRow(c)
    /\ AnswerFactor(c, "done", c.arg)
    /\ UNCHANGED factorHistory

Disable2fa(c) ==
    /\ c.op = "disable" /\ SaveFactorRow(c)
    /\ AnswerFactor(c, "done", 0)
    /\ UNCHANGED factorHistory

VerifyBackupCode(c) ==
    /\ c.op = "backup" /\ SaveFactorRow(c)
    /\ AnswerFactor(c, "done", 0)
    /\ burnt' = burnt \cup {c.arg}
    /\ burntTwice' = (burntTwice \/ c.arg \in burnt)
    /\ UNCHANGED <<challengeStore, challengeCount, signed>>

\* Options replace the challenge that waits.
CreateOptions(kind) ==
    /\ apiShape.ids # "none" /\ challengeCount < MaxChallenges
    /\ kind = "assert" => factorRow.keys # {}
    /\ challengeCount' = challengeCount + 1
    /\ challengeStore' = [challengeStore EXCEPT ![kind] = challengeCount + 1]
    /\ UNCHANGED <<factorRow, factorCalls, signed, burnt, burntTwice, overwritten,
                   factorPage>>

\* The save of a verification deletes the challenge that waits by then.
VerifyRegistration(c) ==
    /\ c.op = "register" /\ SaveFactorRow(c)
    /\ AnswerFactor(c, "done", 0)
    /\ challengeStore' = [challengeStore EXCEPT !.register = 0]
    /\ signed' = signed \cup {c.arg}
    /\ UNCHANGED <<challengeCount, burnt, burntTwice>>

VerifyAssertion(c) ==
    /\ c.op = "assert" /\ SaveFactorRow(c)
    /\ AnswerFactor(c, "done", 0)
    /\ challengeStore' = [challengeStore EXCEPT !.assert = 0]
    /\ signed' = signed \cup {c.arg}
    /\ UNCHANGED <<challengeCount, burnt, burntTwice>>

-----------------------------------------------------------------------------
\* The settings page

factorServer == <<apiShape, factorRow, overwritten, factorHistory>>
AskedByModal(op) == \E c \in factorCalls : c.by = "modal" /\ c.op = op /\ c.live
TwoFaEnabled == apiShape.envelope = "data" /\ statusQuery.seen.status = "on"

\* The toggle opens the modal for what the status shows.
ToggleTwoFa ==
    /\ apiShape.envelope # "none" /\ factorView.mode = "none"
    /\ factorView' = [ClosedModal EXCEPT !.mode = IF TwoFaEnabled THEN "disable" ELSE "setup"]
    /\ UNCHANGED <<factorCalls, factorServer, statusQuery, statusDebt>>

\* The modal forgets what it asked; the requests go on.
Abandoned == {[c EXCEPT !.live = FALSE] : c \in factorCalls}
CloseModal ==
    /\ factorView.mode # "none" /\ factorView' = ClosedModal
    /\ factorCalls' = Abandoned
    /\ UNCHANGED <<factorServer, statusQuery, statusDebt>>

HandleStartSetup ==
    /\ factorView.mode = "setup" /\ factorView.step = "start" /\ ~AskedByModal("setup")
    /\ AskFactor("setup", 0)
    /\ UNCHANGED <<factorServer, factorView, statusQuery, statusDebt>>

NextStep ==
    /\ factorView.mode = "setup"
    /\ \/ factorView.step = "qr" /\ factorView' = [factorView EXCEPT !.step = "verify"]
       \/ factorView.step = "verify" /\ factorView' = [factorView EXCEPT !.step = "qr"]
    /\ UNCHANGED <<factorCalls, factorServer, statusQuery, statusDebt>>

HandleConfirm ==
    /\ factorView.mode = "setup" /\ factorView.step = "verify" /\ ~AskedByModal("confirm")
    /\ AskFactor("confirm", factorView.secret)
    /\ UNCHANGED <<factorServer, factorView, statusQuery, statusDebt>>

HandleDisable ==
    /\ factorView.mode = "disable" /\ ~AskedByModal("disable")
    /\ AskFactor("disable", 0)
    /\ UNCHANGED <<factorServer, factorView, statusQuery, statusDebt>>

\* Without the envelope there is no secret to show, and the modal stays.
SetupAnswered(c) ==
    /\ c.op = "setup" /\ c.at = "done" /\ factorCalls' = factorCalls \ {c}
    /\ factorView' = IF c.live /\ apiShape.envelope = "data"
                     THEN [factorView EXCEPT !.step = "qr", !.secret = c.arg] ELSE factorView
    /\ UNCHANGED <<factorServer, statusQuery, statusDebt>>

\* onSuccess of useConfirm2fa and useDisable2fa, also when the modal is gone.
StatusInvalidated ==
    /\ statusQuery' = Invalidated(statusQuery, TRUE)
    /\ statusDebt' = IF statusQuery.seen = NoData THEN statusDebt ELSE factorRow.ver

ConfirmAnswered(c) ==
    /\ c.op = "confirm" /\ c.at = "done" /\ factorCalls' = factorCalls \ {c}
    /\ StatusInvalidated
    /\ factorView' = IF c.live THEN [factorView EXCEPT !.step = "backup"] ELSE factorView
    /\ UNCHANGED factorServer

\* onClose belongs to the page: it closes the modal that is open by now.
DisableAnswered(c) ==
    /\ c.op = "disable" /\ c.at = "done"
    /\ factorCalls' = Abandoned \ {[c EXCEPT !.live = FALSE]}
    /\ StatusInvalidated
    /\ factorView' = ClosedModal
    /\ UNCHANGED factorServer

\* A refusal or a lost answer: a toast at most.
FactorFails(c) ==
    /\ c.by = "modal"
    /\ IF c.at \in {"done", "refused"} THEN factorCalls' = factorCalls \ {c}
       ELSE Become(c, [c EXCEPT !.by = "device", !.live = FALSE])
    /\ UNCHANGED <<factorServer, factorView, statusQuery, statusDebt>>

Get2faStatus ==
    /\ apiShape.envelope # "none"
    /\ \/ statusQuery.fetch = "sent"
          /\ statusQuery' \in {FetchFailed(statusQuery),
                               ReadByServer(statusQuery,
                                  [status |-> IF factorRow.enabled THEN "on" ELSE "off",
                                   ver |-> factorRow.ver])}
       \/ statusQuery.fetch = "read" /\ statusQuery' = Arrived(statusQuery)
       \/ statusQuery.fetch = "idle" /\ statusQuery' = StartFetch(statusQuery, FALSE)
    /\ UNCHANGED <<factorCalls, factorServer, factorView, statusDebt>>

SecondFactorNext ==
    \/ \E c \in factorCalls \cup FromDevices : LoadFactorRow(c)
    \/ \E c \in factorCalls :
          \/ ReloadFactorRow(c)
          \/ Initiate2faSetup(c) \/ Confirm2faSetup(c) \/ Disable2fa(c) \/ VerifyBackupCode(c)
          \/ VerifyRegistration(c) \/ VerifyAssertion(c)
          \/ SetupAnswered(c) \/ ConfirmAnswered(c) \/ DisableAnswered(c) \/ FactorFails(c)
    \/ \E kind \in {"register", "assert"} : CreateOptions(kind)
    \/ ToggleTwoFa \/ CloseModal \/ HandleStartSetup \/ NextStep \/ HandleConfirm \/ HandleDisable
    \/ Get2faStatus

SecondFactorSpec == SecondFactorInit /\ [][SecondFactorNext]_secondFactorVars

-----------------------------------------------------------------------------
\* However requests overlap, the codes are of the confirmation the row names, a
\* challenge that was used never waits again, the settings page does not hide
\* what its requests did, and with answers that come bare it never gets past the
\* first step of the setup.  Unless a save was committed between the SELECT and
\* the UPDATE of another, the row is one of a state of the flow: enabled with
\* the codes of a confirmation and a secret, or neither.  Unless a save wrote over
\* one its handler had not read, a backup code signs in once, and the passkeys
\* are those whose registration was saved.
FactorsConsistent ==
    /\ factorRow.codes \subseteq BackupCodes(factorRow.batch)
    /\ overwritten # "torn" => /\ factorRow.enabled <=> factorRow.batch # 0
                               /\ factorRow.enabled => factorRow.secret # 0
    /\ overwritten = "no" => /\ burnt \cap factorRow.codes = {} /\ ~burntTwice
                             /\ factorRow.keys \subseteq signed
    /\ \A kind \in {"register", "assert"} : challengeStore[kind] \notin signed
    /\ UpToDate(statusQuery, statusDebt)
    /\ apiShape.envelope = "bare" => factorView \in {ClosedModal, [ClosedModal EXCEPT !.mode = "setup"]}
    /\ apiShape.ids = "text" => signed \subseteq factorRow.keys \/ overwritten # "no"

\* What the modal tells about the backup codes: each can only be used once.
BackupCodeUsedOnce == ~burntTwice
=============================================================================
