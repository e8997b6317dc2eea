-------------------------------- MODULE Mailing ------------------------------
(***************************************************************************)
(* The newsletter, the contact form and the queue that carries their       *)
(* e-mails.  A request loads the row of the subscriber, saves it, and then *)
(* queues an e-mail without caring whether that worked; requests overlap.  *)
(* Bull retries a job until its attempts are used up, and may run a job    *)
(* again whose worker died after the e-mail left.  A behaviour is about the *)
(* newsletter or about the contact form; only the second keeps the jobs of *)
(* the queue, since a link may be used as late as one likes anyway.  A save *)
(* of a row that exists is a SELECT and an UPDATE of the columns in which   *)
(* the row differs: two steps.                                             *)
(* Disposable addresses, rate limits, templates and the administrators'    *)
(* list are left out.                                                      *)
(***************************************************************************)
EXTENDS Naturals, FiniteSets, Sequences, SequencesExt

CONSTANTS
    Addresses,      \* addresses typed into the contact form
    MailSides,      \* {"newsletter", "contact"}: which half a behaviour is about
    MaxAttempts,    \* EMAIL_RETRY_ATTEMPTS
    MaxTokens,      \* bound on the tokens issued
    MaxMailCalls,   \* bound on the requests under way
    MaxMessages     \* bound on the requests of the contact form

ASSUME MailAttemptsAssumption == MaxAttempts \in Nat \ {0}

VARIABLES
    mailSide,
    subscriber,     \* the row of one address; a token serves confirmation and leaving
    tokenCount,
    expiredLinks,   \* tokens past verificationTokenExpiresAt
    mailCalls,      \* requests under way: op, token (or address and number), at, the
                    \* row loaded, the columns to write and the version compared, whose
    jobs,           \* the queue: kind, token, tries, at
    inbox,          \* e-mails that arrived
    clicked,        \* tokens that were presented for confirmation
    leftAt,         \* the last token when the subscriber last left
    overwrote,      \* "no", "stale": a save wrote over one its handler had not
                    \* read, or "torn": over one its own SELECT had not read
    newsForm,       \* Newsletter is loading
    confirmPage,    \* the status NewsletterConfirm shows
    contactForm,    \* ContactUsPage: what is shown and typed, whether it was edited
                    \* since it was sent, whether it is loading, and the requests
                    \* answered (sent) and the answers lost so far
    messages        \* rows of contact_messages: the address each gives

mailVars == <<mailSide, subscriber, tokenCount, expiredLinks, mailCalls, jobs, inbox,
              clicked, leftAt, overwrote, newsForm, confirmPage, contactForm, messages>>
listState == <<mailSide, subscriber, tokenCount, expiredLinks, clicked, leftAt, overwrote>>
queueState == <<jobs, inbox>>
newsPages == <<newsForm, confirmPage>>
contactState == <<contactForm, messages>>

Nobody == [stored |-> FALSE, verified |-> FALSE, active |-> FALSE, token |-> 0, issued |-> 0,
           deleted |-> FALSE, ver |-> 0]
EmptyContact == [shown |-> "form", typed |-> "", edited |-> FALSE, loading |-> FALSE,
                 sent |-> 0, lost |-> 0]

MailInit ==
    /\ mailSide \in MailSides
    /\ subscriber = Nobody /\ tokenCount = 0 /\ expiredLinks = {}
    /\ mailCalls = {} /\ jobs = {} /\ inbox = {}
    /\ clicked = {} /\ leftAt = 0 /\ overwrote = "no"
    /\ newsForm = FALSE /\ confirmPage = "none"
    /\ contactForm = EmptyContact /\ messages = << >>

-----------------------------------------------------------------------------
\* The queue

\* enqueueCritical, enqueueBestEffort: the answer is whether the job is queued,
\* and these callers ignore it.
Enqueue(kind, token) ==
    \/ /\ mailSide = "contact"
       /\ jobs' = jobs \cup {[kind |-> kind, token |-> token, tries |-> 0, at |-> "waiting"]}
       /\ UNCHANGED inbox
    \/ /\ mailSide = "newsletter" /\ kind # "newsletter-unsubscribed"
       /\ inbox' = inbox \cup {<<kind, token>>}
       /\ UNCHANGED jobs
    \/ UNCHANGED <<inbox, jobs>>

Requeue(j, new) == jobs' = (jobs \ {j}) \cup new

\* handle: SMTP takes the e-mail.  When the worker dies before Bull learns of it
\* the job runs again, which is no other state of the queue.
Deliver(j) ==
    /\ j.at = "waiting" /\ Requeue(j, {})
    /\ UNCHANGED <<listState, mailCalls, inbox, newsPages, contactState>>

\* handleFailure: with no attempts left the job goes to the dead letters.
Exhausted(j) == j.tries >= MaxAttempts

HandleFailure(j) ==
    /\ j.at = "waiting"
    /\ LET failed == [j EXCEPT !.tries = @ + 1] IN
       Requeue(j, {IF Exhausted(failed) THEN [failed EXCEPT !.at = "dead"] ELSE failed})
    /\ UNCHANGED <<listState, mailCalls, inbox, newsPages, contactState>>

-----------------------------------------------------------------------------
\* Requests to the newsletter

MailCall(by, op, token) ==
    [by |-> by, op |-> op, token |-> token, at |-> "sent", copy |-> Nobody, columns |-> {}, seen |-> 0]
PostMail(by, op, token) ==
    /\ Cardinality(mailCalls) < MaxMailCalls
    /\ mailCalls' = mailCalls \cup {MailCall(by, op, token)}
\* A client that does not show the answer forgets the request with it.
Forgotten(c) == c.by = "client" /\ c.at \in {"done", "refused"}
MailTurn(c, d) == mailCalls' = (mailCalls \ {c}) \cup (IF Forgotten(d) THEN {} ELSE {d})
MailAt(c, at) == [c EXCEPT !.at = at, !.copy = Nobody, !.columns = {}, !.seen = 0]
MailDone(c, at) == MailTurn(c, MailAt(c, at))

\* What the row must be for the request to go on to its save.
Subscribed(row) == row.active /\ row.verified /\ ~row.deleted
Found(c) ==
    CASE c.op = "subscribe" -> ~Subscribed(subscriber)
      [] c.op = "confirm" -> /\ c.token = subscriber.token /\ c.token \notin expiredLinks
                             /\ ~subscriber.deleted
      [] c.op = "unsubscribe" -> c.token = subscriber.issued
\* What needs no save: a confirmation or an unsubscription done before.
Idempotent(c) ==
    \/ c.op = "confirm" /\ Subscribed(subscriber)
    \/ c.op = "unsubscribe" /\ (~subscriber.active \/ subscriber.deleted)

\* Who subscribes is given a token, one for both links.
MakeToken(c) == IF c.op = "subscribe" THEN tokenCount + 1 ELSE c.token

LoadSubscriber(c) ==
    /\ mailSide = "newsletter" /\ c.at = "sent"
    /\ \/ ~Found(c) /\ MailDone(c, "refused") /\ UNCHANGED tokenCount
       \/ Found(c) /\ Idempotent(c) /\ MailDone(c, "done") /\ UNCHANGED tokenCount
       \/ /\ Found(c) /\ ~Idempotent(c)
          /\ c.op = "subscribe" => tokenCount < MaxTokens
          /\ tokenCount' = IF c.op = "subscribe" THEN tokenCount + 1 ELSE tokenCount
          /\ MailTurn(c, [c EXCEPT !.at = "loaded", !.token = MakeToken(c), !.copy = subscriber])
    /\ clicked' = IF c.op = "confirm" THEN clicked \cup {c.token} ELSE clicked
    /\ UNCHANGED <<mailSide, subscriber, expiredLinks, leftAt, overwrote,
                   queueState, newsPages, contactState>>

\* Variant: the row of someone confirmed before stays verified.
StillVerified(row, token) ==
    [row EXCEPT !.stored = TRUE, !.deleted = FALSE, !.active = FALSE,
                !.token = token, !.issued = token]
\* The row is revived as pending, under a new token.
PendingRow(row, token) ==
    [row EXCEPT !.stored = TRUE, !.deleted = FALSE, !.verified = FALSE, !.active = FALSE,
                !.token = token, !.issued = token]

ListRow(c) ==
    CASE c.op = "subscribe" -> PendingRow(c.copy, c.token)
      [] c.op = "confirm" -> [c.copy EXCEPT !.verified = TRUE, !.active = TRUE, !.token = 0]

\* save, its SELECT: the columns in which the row differs from the stored one.
ListColumns == {"verified", "active", "token", "issued", "deleted"}
Outdated(row) == {k \in ListColumns : row[k] # subscriber[k]}

ReloadSubscriber(c) ==
    /\ c.op \in {"subscribe", "confirm"} /\ c.at = "loaded" /\ c.copy.stored
    /\ MailTurn(c, [c EXCEPT !.at = "reloaded", !.seen = subscriber.ver,
                             !.columns = Outdated(ListRow(c))])
    /\ UNCHANGED <<listState, queueState, newsPages, contactState>>

\* Its UPDATE.  A row that is new is inserted whole, without the SELECT.
SaveRow(c) ==
    LET row == ListRow(c)
        written == IF c.copy.stored THEN c.columns ELSE ListColumns
    IN
    /\ c.at = IF c.copy.stored THEN "reloaded" ELSE "loaded"
    /\ subscriber' = [subscriber EXCEPT
          !.stored = TRUE,
          !.verified = IF "verified" \in written THEN row.verified ELSE @,
          !.active = IF "active" \in written THEN row.active ELSE @,
          !.token = IF "token" \in written THEN row.token ELSE @,
          !.issued = IF "issued" \in written THEN row.issued ELSE @,
          !.deleted = IF "deleted" \in written THEN row.deleted ELSE @,
          !.ver = @ + 1]
    /\ overwrote' = IF c.copy.stored /\ c.seen # subscriber.ver THEN "torn"
                    ELSE IF c.copy.ver # subscriber.ver /\ overwrote = "no" THEN "stale"
                    ELSE overwrote

\* subscribe: two inserts of an address conflict.
SaveSubscription(c) ==
    /\ c.op = "subscribe"
    /\ \/ /\ c.at = "loaded" /\ ~c.copy.stored /\ subscriber.stored
          /\ MailDone(c, "refused") /\ UNCHANGED <<subscriber, overwrote>>
       \/ /\ c.copy.stored \/ ~subscriber.stored
          /\ SaveRow(c) /\ MailTurn(c, MailAt(c, "saved"))
    /\ UNCHANGED <<mailSide, tokenCount, expiredLinks, clicked, leftAt, queueState, newsPages, contactState>>

\* confirm: the token is gone with it, so that the same link is invalid next; the
\* e-mail gives the token of the row that was loaded.
SaveConfirmation(c) ==
    /\ c.op = "confirm" /\ SaveRow(c)
    /\ MailTurn(c, [MailAt(c, "saved") EXCEPT !.token = c.copy.issued])
    /\ UNCHANGED <<mailSide, tokenCount, expiredLinks, clicked, leftAt, queueState, newsPages,
                   contactState>>

\* unsubscribe: softRemove writes the date of the deletion and nothing else.
SoftRemove(c) ==
    /\ c.op = "unsubscribe" /\ c.at = "loaded"
    /\ subscriber' = [subscriber EXCEPT !.deleted = TRUE, !.ver = @ + 1]
    /\ leftAt' = tokenCount
    /\ MailTurn(c, MailAt(c, "saved"))
    /\ UNCHANGED <<mailSide, tokenCount, expiredLinks, clicked, overwrote, queueState, newsPages,
                   contactState>>

KindOf(op) == CASE op = "subscribe" -> "newsletter-confirmation"
                [] op = "confirm" -> "newsletter-confirmed"
                [] op = "unsubscribe" -> "newsletter-unsubscribed"

SendTemplateEmail(c) ==
    /\ c.at = "saved"
    /\ Enqueue(KindOf(c.op), c.token) /\ MailDone(c, "done")
    /\ UNCHANGED <<listState, newsPages, contactState>>

LinkExpires(t) ==
    /\ t = subscriber.token /\ t \notin expiredLinks
    /\ expiredLinks' = expiredLinks \cup {t}
    /\ UNCHANGED <<mailSide, subscriber, tokenCount, clicked, leftAt, overwrote, mailCalls,
                   queueState, newsPages, contactState>>

-----------------------------------------------------------------------------
\* Newsletter and NewsletterConfirm

\* handleSubmit
SubmitNewsletter ==
    /\ mailSide = "newsletter" /\ ~newsForm
    /\ PostMail("newsForm", "subscribe", 0)
    /\ newsForm' = TRUE
    /\ UNCHANGED <<listState, queueState, confirmPage, contactState>>

\* The link of an e-mail, which may be opened or reloaded at any time.
OpenConfirmLink(t) ==
    /\ <<"newsletter-confirmation", t>> \in inbox /\ confirmPage # "loading"
    /\ PostMail("confirmPage", "confirm", t)
    /\ confirmPage' = "loading"
    /\ UNCHANGED <<listState, queueState, newsForm, contactState>>

\* The frontend has no page for the link to leave; the API has the endpoint.
PostUnsubscribe(t) ==
    /\ <<"newsletter-confirmed", t>> \in inbox
    /\ PostMail("client", "unsubscribe", t)
    /\ UNCHANGED <<listState, queueState, newsPages, contactState>>

\* An answer, or none (lost): what the page says then.
NewsletterAnswered(c, lost) ==
    /\ mailSide = "newsletter" /\ (c.at \in {"done", "refused"} \/ lost)
    /\ IF lost THEN c.by # "client" /\ MailTurn(c, [c EXCEPT !.by = "client"])
       ELSE mailCalls' = mailCalls \ {c}
    /\ newsForm' = (newsForm /\ c.by # "newsForm")
    /\ confirmPage' = IF c.by # "confirmPage" THEN confirmPage
                      ELSE IF c.at = "done" /\ ~lost THEN "success" ELSE "error"
    /\ UNCHANGED <<listState, queueState, contactState>>

-----------------------------------------------------------------------------
\* The contact form

contactRest == <<listState, newsPages>>

\* The fields stay open while the request is under way.
HandleInputChange(a) ==
    /\ mailSide = "contact" /\ contactForm.shown = "form" /\ contactForm.typed # a
    /\ contactForm' = [contactForm EXCEPT !.typed = a, !.edited = TRUE]
    /\ UNCHANGED <<contactRest, mailCalls, queueState, messages>>

ValidateForm == contactForm.typed # ""
Submittable == contactForm.shown = "form" /\ ~contactForm.loading /\ ValidateForm

HandleSubmit ==
    /\ mailSide = "contact" /\ Submittable /\ contactForm.sent + contactForm.lost < MaxMessages
    /\ PostMail("contactForm", "contact",
                <<contactForm.typed, contactForm.sent + contactForm.lost>>)
    /\ contactForm' = [contactForm EXCEPT !.loading = TRUE, !.edited = FALSE]
    /\ UNCHANGED <<contactRest, queueState, messages>>

\* submit: the row, then two e-mails whose queueing may fail.
SubmitContact(c) ==
    /\ c.op = "contact" /\ c.at = "sent"
    /\ messages' = Append(messages, c.token[1]) /\ MailTurn(c, [c EXCEPT !.at = "stored"])
    /\ UNCHANGED <<contactRest, queueState, contactForm>>

SendContactConfirmation(c) ==
    /\ c.op = "contact" /\ c.at = "stored"
    /\ Enqueue("contact-confirmation", c.token)
    /\ MailTurn(c, [c EXCEPT !.at = "confirmed"])
    /\ UNCHANGED <<contactRest, contactState>>

SendContactNotification(c) ==
    /\ c.op = "contact" /\ c.at = "confirmed"
    /\ Enqueue("contact-notification", c.token) /\ MailDone(c, "done")
    /\ UNCHANGED <<contactRest, contactState>>

\* A failure keeps what was typed, and a lost answer looks like one.
ContactAnswered(c, lost) ==
    /\ c.op = "contact" /\ c.by = "contactForm" /\ (c.at = "done" \/ lost)
    /\ contactForm' = IF lost THEN [contactForm EXCEPT !.loading = FALSE, !.lost = @ + 1]
                      ELSE [contactForm EXCEPT !.loading = FALSE, !.shown = "sent",
                                               !.sent = @ + 1]
    /\ IF c.at = "done" THEN mailCalls' = mailCalls \ {c}
       ELSE MailTurn(c, [c EXCEPT !.by = "client"])
    /\ UNCHANGED <<contactRest, queueState, messages>>

SendAnother ==
    /\ contactForm.shown = "sent" /\ contactForm' = [contactForm EXCEPT !.shown = "form", !.typed = ""]
    /\ UNCHANGED <<contactRest, mailCalls, queueState, messages>>

MailNext ==
    \/ \E j \in jobs : Deliver(j) \/ HandleFailure(j)
    \/ \E c \in mailCalls :
          \/ LoadSubscriber(c) \/ ReloadSubscriber(c) \/ SaveSubscription(c)
          \/ SaveConfirmation(c) \/ SoftRemove(c) \/ SendTemplateEmail(c)
          \/ SubmitContact(c) \/ SendContactConfirmation(c) \/ SendContactNotification(c)
          \/ \E lost \in BOOLEAN : NewsletterAnswered(c, lost) \/ ContactAnswered(c, lost)
    \/ \E t \in 1..tokenCount : OpenConfirmLink(t) \/ PostUnsubscribe(t) \/ LinkExpires(t)
    \/ \E a \in Addresses : HandleInputChange(a)
    \/ SubmitNewsletter \/ HandleSubmit \/ SendAnother

MailSpec == MailInit /\ [][MailNext]_mailVars

-----------------------------------------------------------------------------
\* However requests overlap and e-mails fail: nobody is on the list before a
\* token was presented; unless a save was committed between the SELECT and the
\* UPDATE of another, who is on it presented the token the row gives, and unless
\* a save wrote over one its handler had not read, one issued after they last
\* left; a page says confirmed only after a token was presented; a job has
\* attempts left or is dead; and every message the contact page calls sent is
\* stored once, a second row telling of a lost answer, under the address it shows
\* unless the form was edited meanwhile.
MailConsistent ==
    /\ subscriber.verified => clicked # {}
    /\ overwrote # "torn" /\ subscriber.verified => subscriber.issued \in clicked
    /\ overwrote = "no" /\ Subscribed(subscriber) => subscriber.issued > leftAt
    /\ \A j \in jobs : j.tries < MaxAttempts \/ j.at = "dead"
    /\ confirmPage = "success" => clicked # {}
    /\ contactForm.sent <= Len(messages)
    /\ Len(messages) <= contactForm.sent + contactForm.lost
                        + (IF contactForm.loading THEN 1 ELSE 0)
    /\ contactForm.shown = "sent" /\ ~contactForm.edited => contactForm.typed \in ToSet(messages)
=============================================================================
