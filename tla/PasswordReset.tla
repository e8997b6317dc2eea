---------------------------- MODULE PasswordReset ---------------------------
(***************************************************************************)
(* The forgotten password: the wizard of the frontend (e-mail, code, new   *)
(* password) against the handlers of the auth service, each of which loads *)
(* a user row, awaits and saves the row it read.  The save selects the row *)
(* again and writes the columns that differ then: what others wrote since  *)
(* the read is undone or, after this SELECT, kept.                         *)
(*                                                                         *)
(* Every code sent is an issue; two issues can carry the same four digits, *)
(* and the reset finds its user by the digits alone.  A password is known  *)
(* by the issue it was set with, 0 for the first.  The page behind a reset *)
(* link is modelled by what it can do: no route of the backend issues one. *)
(***************************************************************************)
EXTENDS FiniteSets, Naturals, Sequences

CONSTANTS
    Wizards,        \* mounted forms, each in a tab of its own
    Owners,         \* users, known by their e-mail address
    Digits,
    MaxIssues,      \* bound on the codes issued
    MaxResetCalls   \* bound on the requests under way

ASSUME ResetBoundsAssumption == MaxIssues \in Nat /\ MaxResetCalls \in Nat

\* A request of a form that was left belongs to "none".
ASSUME ResetFormsAssumption == "none" \notin Wizards

VARIABLES
    wizard,         \* per wizard: step, email, verifiedOtp, otp, cooldown
    resetRow,       \* per owner: passwordResetCode (an issue, 0 is none), password
    resetCalls,     \* requests under way
    issues,         \* owner and digits of each issue so far
    stale,          \* issues past passwordResetCodeExpiresAt
    mailed,         \* issues whose e-mail was queued, with their owner
    accepted,       \* <<owner, digits>> the server verified
    resets          \* <<owner, issue>> of every password saved

resetVars == <<wizard, resetRow, resetCalls, issues, stale, mailed, accepted, resets>>
formState == <<resetRow, issues, stale, mailed, accepted, resets>>

NoDigits == "none"
NobodysRow == [code |-> 0, password |-> 0]
EmptyForm == [step |-> "email", email |-> "none", verifiedOtp |-> NoDigits,
              otp |-> NoDigits, cooldown |-> FALSE]

PasswordResetInit ==
    /\ wizard = [w \in Wizards |-> EmptyForm]
    /\ resetRow = [o \in Owners |-> NobodysRow]
    /\ resetCalls = {} /\ issues = << >> /\ stale = {} /\ mailed = {}
    /\ accepted = {} /\ resets = {}

Pending(w, op) == \E c \in resetCalls : c.by = w /\ c.op = op

Post(w, op, owner, arg) ==
    /\ Cardinality(resetCalls) < MaxResetCalls
    /\ resetCalls' = resetCalls \cup
        {[by |-> w, op |-> op, owner |-> owner, arg |-> arg, at |-> "sent", copy |-> NobodysRow]}
Move(c, new) == resetCalls' = (resetCalls \ {c}) \cup {new}
Refuse(c) == Move(c, [c EXCEPT !.at = "refused", !.copy = NobodysRow])
Take(c) == resetCalls' = resetCalls \ {c}

-----------------------------------------------------------------------------
\* The form

SubmitEmail(w, o) ==
    /\ wizard[w].step = "email" /\ ~Pending(w, "send")
    /\ Post(w, "send", o, NoDigits)
    /\ UNCHANGED <<wizard, formState>>

ResendOtp(w) ==
    /\ wizard[w].step = "otp" /\ ~wizard[w].cooldown /\ ~Pending(w, "send")
    /\ Post(w, "send", wizard[w].email, NoDigits)
    /\ UNCHANGED <<wizard, formState>>

\* Typed or pasted into the four boxes.
EnterResetOtp(w, d) ==
    /\ wizard[w].step = "otp" /\ wizard[w].otp # d
    /\ wizard' = [wizard EXCEPT ![w].otp = d]
    /\ UNCHANGED <<resetCalls, formState>>

SubmitResetOtp(w) ==
    /\ wizard[w].step = "otp" /\ wizard[w].otp # NoDigits /\ ~Pending(w, "verify")
    /\ Post(w, "verify", wizard[w].email, wizard[w].otp)
    /\ UNCHANGED <<wizard, formState>>

SubmitPassword(w) ==
    /\ wizard[w].step = "new-password" /\ ~Pending(w, "reset")
    /\ Post(w, "reset", wizard[w].email, wizard[w].verifiedOtp)
    /\ UNCHANGED <<wizard, formState>>

CooldownEnds(w) ==
    /\ wizard[w].cooldown
    /\ wizard' = [wizard EXCEPT ![w].cooldown = FALSE]
    /\ UNCHANGED <<resetCalls, formState>>

\* onSuccess of the first submit and of a resend, which clears the boxes even
\* when the code before it is being verified.
CodeSent(c) ==
    /\ c.op = "send" /\ c.at = "mailed" /\ Take(c)
    /\ wizard' = [wizard EXCEPT ![c.by] =
          IF @.step = "email"
          THEN [@ EXCEPT !.step = "otp", !.email = c.owner, !.cooldown = TRUE]
          ELSE [@ EXCEPT !.otp = NoDigits, !.cooldown = TRUE]]
    /\ UNCHANGED formState

OtpAccepted(c) ==
    /\ c.op = "verify" /\ c.at = "saved" /\ Take(c)
    /\ wizard' = [wizard EXCEPT ![c.by].step = "new-password", ![c.by].verifiedOtp = c.arg]
    /\ UNCHANGED formState

PasswordChanged(c) ==
    /\ c.op = "reset" /\ c.at = "saved" /\ Take(c)
    /\ wizard' = [wizard EXCEPT ![c.by].step = "success"]
    /\ UNCHANGED formState

\* Variant: the step is set after the try block, also when it failed.
StepOnAnyway(c) ==
    /\ c.at = "refused" /\ Take(c)
    /\ wizard' = [wizard EXCEPT ![c.by].step = IF c.op = "verify" THEN "new-password" ELSE @]
    /\ UNCHANGED formState

\* A toast; the step stays.
RefusalShown(c) ==
    /\ c.at = "refused" /\ Take(c)
    /\ UNCHANGED <<wizard, formState>>

\* Sign in, Back to Sign In, a reload: the form starts over, and the answers
\* to what it sent are lost, though the server goes on.
LeaveForm(w) ==
    /\ wizard[w] # EmptyForm
    /\ wizard' = [wizard EXCEPT ![w] = EmptyForm]
    /\ resetCalls' = {c \in resetCalls : c.by # w}
                         \cup {[c EXCEPT !.by = "none"] : c \in {c \in resetCalls : c.by = w}}
    /\ UNCHANGED formState

\* The answer to a form that was left.
AnswerIsLost(c) ==
    /\ c.by = "none" /\ c.at \in {"mailed", "saved", "refused"} /\ Take(c)
    /\ UNCHANGED <<wizard, formState>>

\* The fields and the button are disabled while an answer is awaited.
LinkFormEnabled(w) == ~Pending(w, "link")

\* /reset-password?token=...: no token is stored, and none is found.
SubmitLink(w) ==
    /\ wizard[w] = EmptyForm /\ LinkFormEnabled(w) /\ ~Pending(w, "send")
    /\ Post(w, "link", "none", NoDigits)
    /\ UNCHANGED <<wizard, formState>>

LinkRefused(c) ==
    /\ c.op = "link" /\ c.at = "sent" /\ Refuse(c)
    /\ UNCHANGED <<wizard, formState>>

-----------------------------------------------------------------------------
\* The auth service

Unexpired(code) == code # 0 /\ code \notin stale
Matches(o, digits) == resetRow[o].code # 0 /\ issues[resetRow[o].code].digits = digits
Loaded(c, o) == Move(c, [c EXCEPT !.at = "loaded", !.owner = o, !.copy = resetRow[o]])

\* requestResetPasswordOtp up to the save
LoadToSend(c) ==
    /\ c.op = "send" /\ c.at = "sent" /\ Loaded(c, c.owner)
    /\ UNCHANGED <<wizard, formState>>

\* Saves the new code; a password saved since the read is kept or not.
SaveCode(c, d) ==
    LET issue == Len(issues) + 1 IN
    /\ c.op = "send" /\ c.at = "loaded" /\ issue <= MaxIssues
    /\ issues' = Append(issues, [owner |-> c.owner, digits |-> d])
    /\ \E password \in {c.copy.password, resetRow[c.owner].password} :
          resetRow' = [resetRow EXCEPT ![c.owner] = [code |-> issue, password |-> password]]
    /\ Move(c, [c EXCEPT !.at = "saved", !.copy = [NobodysRow EXCEPT !.code = issue]])
    /\ UNCHANGED <<wizard, stale, mailed, accepted, resets>>

\* The e-mail is critical: when it cannot be queued the request fails, with
\* the code stored.
MailCode(c) ==
    /\ c.op = "send" /\ c.at = "saved"
    /\ \/ /\ mailed' = mailed \cup {<<c.copy.code, c.owner>>}
          /\ Move(c, [c EXCEPT !.at = "mailed", !.copy = NobodysRow])
       \/ UNCHANGED mailed /\ Refuse(c)
    /\ UNCHANGED <<wizard, resetRow, issues, stale, accepted, resets>>

\* verifyResetPasswordOtp: the checks ...
VerifyCode(c) ==
    /\ c.op = "verify" /\ c.at = "sent"
    /\ IF Matches(c.owner, c.arg) /\ Unexpired(resetRow[c.owner].code)
       THEN Loaded(c, c.owner) /\ accepted' = accepted \cup {<<c.owner, c.arg>>}
       ELSE Refuse(c) /\ UNCHANGED accepted
    /\ UNCHANGED <<wizard, resetRow, issues, stale, mailed, resets>>

\* ... and the save, which has nothing to change: of what was written since the
\* read it undoes some or nothing.
SaveAfterCheck(c) ==
    /\ c.op = "verify" /\ c.at = "loaded"
    /\ \E row \in [code : {c.copy.code, resetRow[c.owner].code},
                   password : {c.copy.password, resetRow[c.owner].password}] :
          resetRow' = [resetRow EXCEPT ![c.owner] = row]
    /\ Move(c, [c EXCEPT !.at = "saved", !.copy = NobodysRow])
    /\ UNCHANGED <<wizard, issues, stale, mailed, accepted, resets>>

\* resetPassword: any user whose code has these digits; the rules for a
\* password and the breach check may refuse it.
FindByCode(c) ==
    /\ c.op = "reset" /\ c.at = "sent"
    /\ \/ \E o \in Owners :
             Matches(o, c.arg) /\ Unexpired(resetRow[o].code) /\ Loaded(c, o)
       \/ Refuse(c)
    /\ UNCHANGED <<wizard, formState>>

\* The code is set to undefined, which save does not write: it stays usable.
SavePassword(c) ==
    /\ c.op = "reset" /\ c.at = "loaded"
    /\ resetRow' = [resetRow EXCEPT ![c.owner].password = c.copy.code]
    /\ resets' = resets \cup {<<c.owner, c.copy.code>>}
    /\ Move(c, [c EXCEPT !.at = "saved", !.copy = NobodysRow])
    /\ UNCHANGED <<wizard, issues, stale, mailed, accepted>>

\* Codes live for ten minutes.
CodeExpires(i) ==
    /\ i \in DOMAIN issues \ stale
    /\ stale' = stale \cup {i}
    /\ UNCHANGED <<wizard, resetRow, resetCalls, issues, mailed, accepted, resets>>

PasswordResetNext ==
    \/ \E w \in Wizards :
          \/ ResendOtp(w) \/ SubmitResetOtp(w) \/ SubmitPassword(w) \/ CooldownEnds(w)
          \/ LeaveForm(w) \/ SubmitLink(w)
          \/ \E o \in Owners : SubmitEmail(w, o)
          \/ \E d \in Digits : EnterResetOtp(w, d)
    \/ \E c \in resetCalls :
          \/ c.by # "none" /\ \/ CodeSent(c) \/ OtpAccepted(c) \/ PasswordChanged(c)
                              \/ RefusalShown(c)
          \/ AnswerIsLost(c) \/ LinkRefused(c)
          \/ LoadToSend(c) \/ \E d \in Digits : SaveCode(c, d)
          \/ MailCode(c) \/ VerifyCode(c) \/ SaveAfterCheck(c)
          \/ FindByCode(c) \/ SavePassword(c)
    \/ \E i \in 1..MaxIssues : CodeExpires(i)

PasswordResetSpec == PasswordResetInit /\ [][PasswordResetNext]_resetVars

-----------------------------------------------------------------------------
\* Through resends that cross a verification, answers that come late or never,
\* rows that save back what they read and codes that share their digits: a form
\* asks for a code only of an address one was mailed to, for a new password only
\* after the server accepted this code for this address, and reports success
\* only of a password saved with this code; no form sends a request twice; and
\* the code and the password a user has come from codes issued to that user.
RecoveryEarned ==
    /\ \A w \in Wizards :
          /\ wizard[w].step # "email" => \E i \in DOMAIN issues : <<i, wizard[w].email>> \in mailed
          /\ wizard[w].step \in {"new-password", "success"}
                => <<wizard[w].email, wizard[w].verifiedOtp>> \in accepted
          /\ wizard[w].step = "success"
                => \E r \in resets : issues[r[2]].digits = wizard[w].verifiedOtp
          /\ \A op \in {"send", "verify", "reset", "link"} :
                Cardinality({c \in resetCalls : c.by = w /\ c.op = op}) <= 1
    /\ \A o \in Owners :
          /\ resetRow[o].code # 0 => issues[resetRow[o].code].owner = o
          /\ resetRow[o].password # 0 => /\ <<o, resetRow[o].password>> \in resets
                                         /\ issues[resetRow[o].password].owner = o
=============================================================================
