---------------------------- MODULE Registration ----------------------------
(***************************************************************************)
(* From the registration form to a verified address: the two steps of the  *)
(* form, the page that asks for the code, and the handlers createUser,     *)
(* verifyOtp, resendVerificationOtp and login of an unverified user.  The  *)
(* handlers await between reading a row and writing it, the unique index   *)
(* on the e-mail address is what serialises two registrations, and save    *)
(* writes back every column as it was read.  A code is known by its number *)
(* in the order of issue; which requests the validation of a field refuses *)
(* is open.                                                                *)
(***************************************************************************)
EXTENDS FiniteSets, Naturals, Sequences

CONSTANTS
    Forms,              \* tabs
    Emails,
    MaxVerifications,   \* bound on the codes issued
    MaxSignUpCalls      \* bound on the requests under way

ASSUME SignUpBoundsAssumption == MaxVerifications \in Nat /\ MaxSignUpCalls \in Nat

\* A form that was not filled in has the address "none".
ASSUME SignUpFormsAssumption == "none" \notin Emails

VARIABLES
    form,           \* per tab: page, email, code typed, countdown
    userRow,        \* per email: isVerified, verificationCode (0 is ''), stored
    signUpCalls,    \* requests under way
    codeOwner,      \* the email of each code so far
    lapsed,         \* codes past verificationCodeExpiresAt
    registered,     \* <<tab, email>> of every registration that succeeded
    spent,          \* codes a verification was saved for
    undone          \* history: emails whose verification was undone by another save
                    \* between the SELECT and the UPDATE of one that had found it

registrationVars == <<form, userRow, signUpCalls, codeOwner, lapsed, registered, spent, undone>>
serverState == <<userRow, codeOwner, lapsed, registered, spent, undone>>

NoRow == [verified |-> FALSE, code |-> 0, stored |-> FALSE]
BlankForm == [page |-> "personal-info", email |-> "none", code |-> 0, countdown |-> FALSE]

RegistrationInit ==
    /\ form = [f \in Forms |-> BlankForm]
    /\ userRow = [e \in Emails |-> NoRow]
    /\ signUpCalls = {} /\ codeOwner = << >> /\ lapsed = {}
    /\ registered = {} /\ spent = {} /\ undone = {}

Busy(f, op) == \E c \in signUpCalls : c.tab = f /\ c.op = op

Request(f, op, e, code) ==
    /\ Cardinality(signUpCalls) < MaxSignUpCalls
    /\ signUpCalls' = signUpCalls \cup
          {[tab |-> f, op |-> op, email |-> e, code |-> code, at |-> "sent", copy |-> NoRow,
            columns |-> {}]}
Proceed(c, at, copy) ==
    signUpCalls' = (signUpCalls \ {c}) \cup {[c EXCEPT !.at = at, !.copy = copy, !.columns = {}]}
Reject(c) == Proceed(c, "rejected", NoRow)
Answered(c) == signUpCalls' = signUpCalls \ {c}

-----------------------------------------------------------------------------
\* The pages

SubmitPersonalInfo(f, e) ==
    /\ form[f].page = "personal-info"
    /\ form' = [form EXCEPT ![f].page = "account-setup", ![f].email = e]
    /\ UNCHANGED <<signUpCalls, serverState>>

BackToPersonalInfo(f) ==
    /\ form[f].page = "account-setup"
    /\ form' = [form EXCEPT ![f].page = "personal-info"]
    /\ UNCHANGED <<signUpCalls, serverState>>

SubmitAccountSetup(f) ==
    /\ form[f].page = "account-setup" /\ ~Busy(f, "register")
    /\ Request(f, "register", form[f].email, 0)
    /\ UNCHANGED <<form, serverState>>

\* /verify-otp?email=... can be opened without a registration.
OpenVerifyPage(f, e) ==
    /\ form[f] = BlankForm
    /\ form' = [form EXCEPT ![f].page = "verify-otp", ![f].email = e]
    /\ UNCHANGED <<signUpCalls, serverState>>

EnterCode(f, code) ==
    /\ form[f].page = "verify-otp" /\ form[f].code # code
    /\ form' = [form EXCEPT ![f].code = code]
    /\ UNCHANGED <<signUpCalls, serverState>>

HandleVerify(f) ==
    /\ form[f].page = "verify-otp" /\ form[f].code # 0 /\ ~Busy(f, "verify")
    /\ Request(f, "verify", form[f].email, form[f].code)
    /\ UNCHANGED <<form, serverState>>

HandleResend(f) ==
    /\ form[f].page = "verify-otp" /\ ~form[f].countdown /\ ~Busy(f, "resend")
    /\ Request(f, "resend", form[f].email, 0)
    /\ UNCHANGED <<form, serverState>>

CountdownEnds(f) ==
    /\ form[f].countdown
    /\ form' = [form EXCEPT ![f].countdown = FALSE]
    /\ UNCHANGED <<signUpCalls, serverState>>

\* The login form, whose user has not verified the address.
SubmitUnverifiedLogin(f, e) ==
    /\ form[f] = BlankForm /\ ~Busy(f, "login")
    /\ Request(f, "login", e, 0)
    /\ UNCHANGED <<form, serverState>>

\* useRegisterUser goes to the verification page of the address registered.
RegistrationAnswered(c) ==
    /\ c.op = "register" /\ c.at = "done" /\ Answered(c)
    /\ form' = [form EXCEPT ![c.tab] =
                   [BlankForm EXCEPT !.page = "verify-otp", !.email = c.email]]
    /\ UNCHANGED serverState

VerificationAnswered(c) ==
    /\ c.op = "verify" /\ c.at = "done" /\ Answered(c)
    /\ form' = [form EXCEPT ![c.tab] = [BlankForm EXCEPT !.page = "dashboard", !.email = form[c.tab].email]]
    /\ UNCHANGED serverState

ResendAnswered(c) ==
    /\ c.op = "resend" /\ c.at = "done" /\ Answered(c)
    /\ form' = [form EXCEPT ![c.tab].countdown = TRUE, ![c.tab].code = 0]
    /\ UNCHANGED serverState

\* A toast: a failure, or the message to a login that was not verified.
MessageShown(c) ==
    /\ c.at = "rejected" \/ (c.op = "login" /\ c.at = "done")
    /\ Answered(c)
    /\ UNCHANGED <<form, serverState>>

-----------------------------------------------------------------------------
\* The handlers

\* createUser: a known address is refused, as is a weak or breached password.
CheckRegistration(c) ==
    /\ c.op = "register" /\ c.at = "sent"
    /\ \/ ~userRow[c.email].stored /\ Proceed(c, "checked", NoRow)
       \/ Reject(c)
    /\ UNCHANGED <<form, serverState>>

Issue == Len(codeOwner) + 1
IssueTo(e) ==
    /\ Issue <= MaxVerifications
    /\ codeOwner' = Append(codeOwner, e)

\* Variant: the address is taken to be free since it was checked.
InsertUnchecked(c) ==
    /\ c.op = "register" /\ c.at = "checked"
    /\ IssueTo(c.email)
    /\ userRow' = [userRow EXCEPT ![c.email] =
                      [verified |-> FALSE, code |-> Issue, stored |-> TRUE]]
    /\ registered' = registered \cup {<<c.tab, c.email>>}
    /\ Proceed(c, "mail", NoRow)
    /\ UNCHANGED <<form, lapsed, spent, undone>>

\* The insert, which the unique index refuses when another came first.
InsertUser(c) ==
    /\ c.op = "register" /\ c.at = "checked"
    /\ IF userRow[c.email].stored
       THEN Reject(c) /\ UNCHANGED <<userRow, codeOwner, registered>>
       ELSE /\ IssueTo(c.email)
            /\ userRow' = [userRow EXCEPT ![c.email] =
                              [verified |-> FALSE, code |-> Issue, stored |-> TRUE]]
            /\ registered' = registered \cup {<<c.tab, c.email>>}
            /\ Proceed(c, "mail", NoRow)
    /\ UNCHANGED <<form, lapsed, spent, undone>>

\* A critical e-mail: if it cannot be queued the request fails, and the row
\* stays.
SendVerificationEmail(c) ==
    /\ c.at = "mail"
    /\ Proceed(c, "done", NoRow) \/ Reject(c)
    /\ UNCHANGED <<form, serverState>>

\* verifyOtp: a code that is of the row and did not lapse is accepted.
VerifySignUpCode(c) ==
    LET row == userRow[c.email] IN
    /\ c.op = "verify" /\ c.at = "sent"
    /\ IF row.stored /\ row.code = c.code /\ c.code # 0 /\ c.code \notin lapsed
       THEN Proceed(c, "loaded", row)
       ELSE Reject(c)
    /\ UNCHANGED <<form, serverState>>

\* What verifyOtp and resendVerificationOtp make of the row they loaded.
RowMade(c) ==
    IF c.op = "verify" THEN [c.copy EXCEPT !.verified = TRUE, !.code = 0]
    ELSE [c.copy EXCEPT !.code = Issue]

\* userRepository.save, its SELECT: the columns in which that differs from the
\* row.  Its UPDATE writes these and no other.
SelectRow(c) ==
    /\ c.at = "loaded"
    /\ signUpCalls' = (signUpCalls \ {c}) \cup
          {[c EXCEPT !.at = "selected",
                     !.columns = {x \in {"verified", "code"} : RowMade(c)[x] # userRow[c.email][x]}]}
    /\ UNCHANGED <<form, serverState>>

SaveVerified(c) ==
    /\ c.op = "verify" /\ c.at = "selected"
    /\ LET row == userRow[c.email] IN
       userRow' = [userRow EXCEPT ![c.email] =
          [row EXCEPT !.verified = IF "verified" \in c.columns THEN TRUE ELSE row.verified,
                      !.code = IF "code" \in c.columns THEN 0 ELSE row.code]]
    /\ spent' = spent \cup {c.code}
    /\ undone' = IF "verified" \in c.columns \/ userRow[c.email].verified THEN undone
                 ELSE undone \cup {c.email}
    /\ Proceed(c, "done", NoRow)
    /\ UNCHANGED <<form, codeOwner, lapsed, registered>>

\* resendVerificationOtp, on its own or from login, loads the row ...
LoadToResend(c) ==
    /\ c.op \in {"resend", "login"} /\ c.at = "sent"
    /\ IF userRow[c.email].stored /\ (c.op = "login" => ~userRow[c.email].verified)
       THEN Proceed(c, "loaded", userRow[c.email])
       ELSE Reject(c)
    /\ UNCHANGED <<form, serverState>>

\* ... and saves it with a new code, which is in no row before, and isVerified
\* as it was read.
ResendVerificationOtp(c) ==
    /\ c.op \in {"resend", "login"} /\ c.at = "selected"
    /\ IssueTo(c.email)
    /\ LET row == userRow[c.email] IN
       userRow' = [userRow EXCEPT ![c.email] =
          [row EXCEPT !.verified = IF "verified" \in c.columns THEN c.copy.verified ELSE row.verified,
                      !.code = Issue]]
    /\ Proceed(c, "mail", NoRow)
    /\ UNCHANGED <<form, lapsed, registered, spent, undone>>

\* Of a code that is in no row it does not matter yet.
CodeLapses(i) ==
    /\ i \in {userRow[e].code : e \in Emails} \ (lapsed \cup {0})
    /\ lapsed' = lapsed \cup {i}
    /\ UNCHANGED <<form, userRow, signUpCalls, codeOwner, registered, spent, undone>>

RegistrationNext ==
    \/ \E f \in Forms :
          \/ BackToPersonalInfo(f) \/ SubmitAccountSetup(f) \/ HandleVerify(f)
          \/ HandleResend(f) \/ CountdownEnds(f)
          \/ \E e \in Emails : \/ SubmitPersonalInfo(f, e) \/ OpenVerifyPage(f, e)
                               \/ SubmitUnverifiedLogin(f, e)
          \/ \E i \in DOMAIN codeOwner : EnterCode(f, i)
    \/ \E c \in signUpCalls :
          \/ RegistrationAnswered(c) \/ VerificationAnswered(c) \/ ResendAnswered(c)
          \/ MessageShown(c) \/ CheckRegistration(c) \/ InsertUser(c)
          \/ SendVerificationEmail(c) \/ VerifySignUpCode(c) \/ SelectRow(c)
          \/ SaveVerified(c)
          \/ LoadToResend(c) \/ ResendVerificationOtp(c)
    \/ \E i \in 1..MaxVerifications : CodeLapses(i)

RegistrationSpec == RegistrationInit /\ [][RegistrationNext]_registrationVars

-----------------------------------------------------------------------------
\* However registrations, verifications, resends and logins for one address
\* overlap: one registration at most succeeds; an account that is not verified
\* always holds a code issued for its address, so that it can be verified,
\* unless its verification was undone in the midst of a save of another; a
\* code that verified an address is never stored again; and a tab goes on to
\* the dashboard only for an address that one of its own codes verified.
SignUpConsistent ==
    /\ \A e \in Emails :
          /\ Cardinality({r \in registered : r[2] = e}) <= 1
          /\ userRow[e].stored <=> \E r \in registered : r[2] = e
          /\ userRow[e].stored /\ ~userRow[e].verified => userRow[e].code # 0 \/ e \in undone
          /\ userRow[e].code # 0 => /\ codeOwner[userRow[e].code] = e
                                    /\ userRow[e].code \notin spent
    /\ \A f \in Forms : form[f].page = "dashboard" =>
          \E i \in spent : codeOwner[i] = form[f].email
=============================================================================
