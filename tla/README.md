# A TLA+ model of NovaLabs

NovaLabs runs a coworking business: a NestJS backend (`src/backend`) with PostgreSQL, Paystack
for payments and Bull for background jobs; Soroban smart contracts (`src/contracts`) for escrows,
on-chain bookings, access control, credits and memberships; and a Next.js frontend
(`src/frontend`), whose pages keep a session per tab and a cache of queries.

This directory holds TLA+ modules translated from that source, the TLC configurations that check
them on small instances, and TLAPS proofs of their main invariants for every value of the
constants. `PROJECT.json` links every definition to the lines it models, every property to a
plausible bug that breaks it (the definitions marked `Variant:`), and every known hazard to the
properties that cover it.

Contents: 1 inventory · 2 modules · 3 the backend's bookings and payments · 4 the contracts · 5
accounts, pages and services · 6 runs and bounds · 7 findings · 8 proofs · 9 limits · 10 plan · 11
how to run.

## 1. Inventory

### Backend

| component | state | operations | what is hard | what makes it correct |
|---|---|---|---|---|
| bookings | `bookings` rows, `users.memberSince` | create (member), create day pass (guest), confirm, cancel, complete, hourly expiry sweep, reactivate an expired booking | check-then-insert under a row lock; saves of an entity read earlier; sweep against webhook | seats never oversold on any day; a confirmed booking never expires; abandoned checkouts release their seats |
| payments | `payments` rows | initialize, webhook success and failure, refund | at-least-once, unordered events; two saves around a call to Paystack; restart between steps | one delivery has effects; settled payments never revert; refunds only of captured money; every captured charge is decided |
| Paystack client | none (remote state) | initialise, verify, refund | answers lost, events late | assumed, see 3 |
| Soroban escrow client | none (ledger state) | `createEscrow`, `releaseEscrow`, `refundEscrow`, `getEscrowStatus` | one sequence number for all callers; a transaction may land after the poll gave up | what it reports is what the ledger did |
| workspaces | `workspaces` rows | create, update, delete, seat count per day | `totalSeats` changes under running requests; forms save fields nobody changed | the seat sum counts exactly the bookings of a day; rows are what was meant |
| invoices | `invoices`, a sequence | generate once per payment, resend | check then insert | launched only for what was honoured |
| auth | refresh tokens, codes, secrets, backup codes, passkeys | register, verify, login, rotation with reuse detection, logout, both resets, second factor, SAML | two refreshes of one token; rows saved as they were read; a code of four digits identifies its user | one live token per family; a code resets only the account it was issued to |
| users | `users` | profile, suspend, delete, change of role; an anonymisation that never takes effect (7) | saves of rows read earlier against deletion and revocation; counting administrators without a lock | a session that a reuse, a reset by token or a deletion ended stays ended; an administrator remains |
| workspace-tracking | check-in logs | check in, check out, occupancy | check then insert | one open visit per user and room unless check-ins overlap |
| newsletter, contact, email | subscribers, messages, a Bull queue and its dead letters | subscribe, confirm, leave; send; retry | stale and mixed saves, links used late, retries exhausted or repeated | who is on the list presented the token of their row, unless saves were mixed; no message lost silently |
| notifications | rows | create, list with count, mark one or all | a list and its count are two statements | a marked row is not shown as unread again |
| dashboard | none | revenue, ranking, occupancy, own figures, overview | several statements while rows change; time boundaries | each figure is made of the rows it names |
| audit-log | entries | written after a change of role | the change is saved before, and the entry may fail | no role without its entry, or a failure to write it |
| hub, metrics, common, config, cloudinary, migrations | inserts, counters or none | – | – | not modelled: no invariant across requests |

Interaction: the webhook calls bookings (`confirm`, `reactivateExpired`), the escrow client and
invoices in that order; the day pass and the sweep write bookings and payments in one
transaction; bookings lock and read the workspace row; everything else is loosely coupled through
e-mail and notifications, whose failures are swallowed.

### Contracts

| contract | state | operations | what makes it correct |
|---|---|---|---|
| payment_escrow | escrows, indexes, default window | create, release, refund, dispute, resolve, claim | its funds are those of the undecided escrows |
| workspace_booking | workspaces, bookings, indexes | register, rate, availability, book, cancel, complete | capacity at every instant; refund of what was paid |
| access_control | roles, config, pause, multisig proposals | two initialisations, direct operations, proposals and votes | in multisig mode only proposals govern; counts agree; thresholds stay in reach of the votes |
| resource_credits | balances, supply | mint, transfer, spend | supply is the sum of the balances |
| manage_hub: tokens | tokens, allowances, shares, rewards, versions, metadata | issue, transfer, delegate, fractionalize, distribute, recombine, renew, upgrade, roll back | shares add up; owners consent; the past of a token is kept |
| manage_hub: products | subscriptions, tiers, promotions, stakes, attendance | pause, renew, change tier, promote, stake, log, report | paid time is kept; counters agree; stakes are backed; reports add up |
| membership_token | tokens | issue, transfer | not modelled: superseded by manage_hub, whose token is |

An invocation of a contract is atomic on Soroban: an error or a panic reverts all it wrote, the
host forbids re-entry, and ledgers order invocations. Contract models therefore have no
interleaving inside an operation; their hazards are sequences of operations, time and arithmetic.

### Frontend

Pages keep a session per tab (a zustand store, a bearer token, `localStorage` shared by the tabs)
and a TanStack Query cache. Every request is a pair of steps, its sending and its answer, between
which the server and other tabs move. What is hard: answers out of order, pages left before their
answer, forms that still can be edited while they are sent, and types that do not match the
backend's. Static pages, the demo pages under `app/sandbox`, layout and wording are not modelled.

## 2. Modules

| module | role |
|---|---|
| `UnitSums` | sums of a function over a finite set, with their algebra proved |
| `SeatMath` | booked seats, overlapping windows, days |
| `SeatLedger` | the abstract promise about seats: admission in one step, day by day |
| `BookingPayments`, `MCBookingPayments`, `BookingPaymentsProofs` | bookings, payments, webhook and sweep, composed with Paystack and the chain; the proofs also cover `PaymentEscrow`, where a payment is held on the ledger |
| `UserSessions`, `UserSessionsProofs` | accounts and refresh tokens; the proofs also cover `AuthClient`, `PasswordReset`, `Registration`, `StaffSso`, `Mailing` and `EscrowClient` |
| `PaymentEscrow`, `MCPaymentEscrow` | the escrow contract |
| `WorkspaceBooking`, `MCWorkspaceBooking` | the booking contract |
| `AccessControl`, `MCAccessControl`, `AccessControlProofs` | the access-control contract |
| `TokenOwnership` | owners, allowances, shares and rewards of membership tokens |
| `ContractProofs` | the proofs of the two contracts whose state is sums, `WorkspaceBooking` and `TokenOwnership` |
| `LedgerBase` | accounts, tiers and the timestamp, shared by the modules of the next row |
| `TokenTerms`, `HubSubscriptions`, `HubTiers`, `HubStaking`, `TokenMetadata`, `ResourceCredits`, `Attendance` | one product of manage_hub (and the credits) each |
| `MCHubProducts`, `HubProductsProofs` | their instance, and their proofs |
| `AuthClient` | who is signed in, in several tabs |
| `PasswordReset`, `SecondFactor` | how accounts are recovered and secured |
| `MCUserSessions` | the instance of `UserSessions`, `AuthClient`, `PasswordReset` and `SecondFactor` |
| `Registration`, `StaffSso` | how accounts come about |
| `QueryCache` | one query of the cache, used by the pages below |
| `BookingPages`, `CheckIns`, `Notifications`, `WorkspacePages`, `MoneyPages`, `Administration`, `Reports` | pages with the handlers behind them |
| `Mailing`, `EscrowClient` | services the backend calls |
| `PagesProofs` | lemmas on queries, and the proofs of `CheckIns`, `SecondFactor`, `Administration`, `WorkspacePages`, `MoneyPages` and `Reports` |
| `MCPlatform`, `PlatformProofs` | the instance of `Registration`, `StaffSso`, the pages and the services, and the proofs of `Notifications`, `BookingPages` and of the composition |

Bookings and payments are one module because no useful property of either holds without the
other: the webhook, the day pass and the sweep write both tables, and the races are between them.

## 3. The backend's bookings and payments (`BookingPayments`)

**Actors.** `Workers` is a set of concurrent handler invocations. `call[w]` is what worker `w` is
doing: a label for the next await (`pc`), the booking and the payment it works on, and the one
column it read that a later save may write back (`snap`). An action is the code between two
awaits. A handler that answers early, with an error or because its conditional UPDATE matches no
row, leaves no trace and is not an action of its own. The expiry sweep runs beside the workers,
as `stale`: the ids its SELECT returned and its transaction has not handled.

| state | code |
|---|---|
| `status`, `escrowId`, `due` | `bookings.status`, `sorobanEscrowId`, "the effective deadline has passed" |
| `payStatus`, `payRef` | `payments.status`, `providerReference` is stored |
| `members`, `totalSeats`, `lock` | `users.memberSince`, `workspaces.totalSeats`, holder of `FOR UPDATE` |
| `invoiced` | `InvoicesService.generate` was launched |
| `charge`, `failedEvents`, `refundCalls` | Paystack's side, external |
| `onChain` | escrows in the contract, external |

| handler | actions, one per stretch between awaits |
|---|---|
| POST /bookings | `CreateCheck`, `CreateSave` |
| POST /bookings/public/day-pass | `DayPassCheck`, `DayPassSave` (Paystack is called inside the transaction) |
| cancel, complete | `CancelRead`/`CancelSave`, `CompleteRead`/`CompleteSave` |
| PATCH workspace | `UpdateWorkspace` |
| confirm | `StaffConfirm`, `ConfirmUpdate`, `Activate` |
| initialize | `InitializeRead`, then `InitializeReuse`, or `InitializeFindNone`, `InitializeSave`, `InitializeOpen`, `InitializeRef` |
| webhook | `ChargeSuccess`, `Resolve`, then `ConfirmUpdate` or `ReviveRead`, `ReviveCheck`, `ReviveSave`; `EscrowCall`, `EscrowStore`, `LaunchInvoice`; `ChargeFailed` |
| refund | `RefundRead`, `RefundCall`, `RefundMark` |
| hourly sweep | `SweepSelect`, `SweepExpire`, `SweepAbort` |
| any failure or restart | `HandlerFails` |

Details that matter:

- *Saves.* TypeORM's `save` of a loaded entity SELECTs the row again and UPDATEs the columns in
  which the two differ; if it finds no row it INSERTs one. Cancel, complete and reactivation thus
  may write `escrowId` back as they read it (`SaveSnapshot`), and the second save of `initialize`
  the status `pending` it created the row with. The two statements are one action here: `status`
  is assigned, and of the one column a request leaves as it read it, what is written between them
  is either kept or undone, and both are outcomes of `SaveSnapshot`. Where more columns depend on
  each other (second factor, newsletter, registration, workspaces, administration) they are two
  actions (5).
- *Lock.* Creation and reactivation hold the workspace row from the check to the commit; an
  exception or a restart rolls back and frees it. `UpdateWorkspace` waits for it. Cancel, confirm
  and sweep do not take it, and only ever free seats or keep them.
- *Sweep.* The two UPDATEs of one transaction become visible together, so they are one action.
- *Webhook.* An event, once raised, may be delivered any number of times, in any order, to any
  worker. An invalid signature, a stale event and an unknown reference change no state.
- *Paystack and the chain* are modelled from how the backend uses them: a checkout is opened,
  then paid once; attempts on it may fail before; a refund call is accepted or throws; an escrow
  transaction lands or not, and the client may report failure for one that landed.

**Bounds.** Finite `Payments` (with none left, `initialize` ends), `MaxRefundCalls`, `SeatChoices`.
Since ids are finite the system may run out of requests, hence `CHECK_DEADLOCK FALSE`.

**Abstractions.** One workspace (no handler reads bookings of another). Prices, names, dates
as such (a deadline has passed or not), e-mails, listings and `isActive` are left out.

**Fairness** (`FairSpec`, for `booking_liveness` only). A handler whose next step is possible
takes it or fails (`WF Step`); a handler waiting for a row lock gets it in the end, since
PostgreSQL queues requests (`SF ReviveCheck`); Paystack redelivers an event until it is answered
200 (`SF ChargeSuccess` per payment); deadlines pass; the hourly cron selects each plan's overdue
rows again and again, and not every one of its transactions fails (`SF SweepSelect`,
`SF SweepExpire`). Nothing is assumed about customers, staff or failures: `HandlerFails` may
strike any handler any number of times.

**Properties.** `SeatsAdmittedAtomically` (refinement of `SeatLedger`), `CheckedSeatsStillFree`,
`ConfirmedNeverExpires`, `MoneyMovesOnce` (`OneDeliveryResolves` and `RefundOnlyCaptured`),
`SettledNeverReverts`, `OnlyHonouredIsFulfilled` (`InvoiceOnlyWhenHonoured` and
`EscrowOnlyWhenHonoured`), `AbandonedIsReleased`, `PaidIsDecided`.

`SeatLedger` is the specification the front desk has in mind: a set of admitted bookings grows by
one booking at a time and only if, *on every day* of its window, the admitted seats fit. The code
instead sums *all* bookings that overlap the window, which is stricter, and does so in a
transaction of several steps. The refinement mapping is `held <- Holders`, the rows PENDING or
CONFIRMED, and `seats <- totalSeats`. A resize may go below what is admitted: the ledger allows
this, as the code does.

## 4. The contracts

**PaymentEscrow.** One action per entry point that changes state; `escrow[e]` is the stored record
or `Unused`. Token transfers move `balance` and `vault`; one that cannot be covered panics and is
therefore a guard. `created_at + dispute_window` keeps its width (`MaxU64`): the release profile
has `overflow-checks`, so the sum panics. Left out: descriptive fields, views, tokens sent to the
contract directly, the re-entry guard, and the indexes by depositor and beneficiary, which only
views read. Fairness (`EscrowFairSpec`): ledgers close, and a beneficiary
who may claim does; `UndisputedIsPaid` needs nothing of the administrator. Properties:
`MoneyExplained` (funds and every balance), `TermsNeverChange`, `UndisputedIsPaid`.

**WorkspaceBooking.** Slots are half-open intervals of timestamps, prices are started hours times
the rate, and seats saturate at `MaxU32` as in the code. Occupancy is computed over the index of
the workspace, as the contract does, and the exactness of the index is what makes this the sum
over bookings. Properties: `SeatsExplained` (the indexes, and the capacity at every instant, not
per slot), `MoneyExplained` (`FundsBacked` and `RefundedInFull`), `AvailabilityAgrees`
(`check_availability` against `book_workspace`).

**AccessControl.** Single-admin and multisig mode, roles, blacklist, pause and emergency mode, the
two-step admin transfer, and proposals with votes for and against, time lock, expiry, cancellation
and clean-up. A proposal's action is a record of kind and payload; `Perform` is the `match` that
executes it, with the kinds it refuses having no disjunct. The list of pending ids is read only
for its members and their number, so that `pending` keeps how often it holds each id; `Dismiss`
removes one administrator from the list, as the loop of the code does. Calls of an administrator
name the caller as a parameter, as the contract's functions do. Entry points that always fail in
their mode change nothing and are no actions. Left out: subscription tiers and the counter of
access attempts. `validate()` does not exclude duplicate administrators, so that a list of
administrators is a set of entries `<<address, n>>`: the contract compares its thresholds with
the number of entries, and each address votes once. Proposed and initial lists may hold
duplicates; the instance proposes one. Properties: `RecordsAgree` (`TypeOK`, `PendingExact`,
`VotesAreSingle`), `GovernedByProposals`, and `VotesSuffice`: the thresholds stay in reach of the
different administrators unless a list with a duplicate is installed, and a proposal that has its
approvals is still pending only if its time lock was closed at the last of them. What becomes of
such a proposal is in 7.

**TokenOwnership.** `owner` is the token's user, `shares`, `pending` and `allowance` are maps with
0 for "no entry". Fractionalization gives all shares to the owner; shares move in multiples of the
smallest fraction; a reward is split by integer division, the last holder of the iteration taking
the remainder; recombination needs every share in one hand. The status of a token and the pauses
belong to `TokenTerms`; here any token may be inactive or paused at any time. `distributed` is a
history variable: the rewards since the token was fractionalized.

**TokenTerms.** `token[t]` is the term of a token: status, expiry, tier, grace period, version.
Every upgrade and rollback stores the snapshot of the version that ends and appends to the
history, and a rollback counts as a new version. Renewals may be signed, automatic, or fall into
the grace period; the emergency pause lifts itself at its deadline without a write. `TermsKept`:
the history is the chain of versions, a version that was left is never written again, rollbacks
are bounded, and renewals add up within a version.

**HubSubscriptions.** Creation, pause and resume by member or administrator, cancellation,
renewal, and changes of the pause configuration. `account` is a history variable (time bought,
time used, whether anything was forfeited), with which `PausesConsistent` states that paid time is
neither made nor lost.

**HubTiers.** Two specifications over different variables. `TiersSpec`: life of tiers, promotions
and their redemption, the tier of each subscription, requests to change it (numbered by timestamp
modulo a constant, so that two of one second share an id), and the counter of subscribers, which is
lowered with saturation. `PricingSpec`: prices by cycle, discounts, the expiry of one plan, quotes
for a change of tier by whole days, and the features the plan grants. Properties:
`TiersConsistent`, `PricingConsistent`.

**HubStaking.** One stake per account in a vault they share, an emergency exit with a penalty
that stays in the vault, and rewards from the same vault or another. `kept`, `paidOut` and
`deposited` are history variables: penalties kept, rewards paid out of the vault of stakes, time
of the last deposit. The staking token is assumed never to be replaced while stakes are open: the
code would pay them in the new one. When rewards are paid in the staking token they come out of
the stakes' vault, which `StakesBacked` states as an equation rather than as cover.

**TokenMetadata**, **ResourceCredits**, **Attendance.** The index by attribute and value that answers
queries, with the history of changes (`IndexExact`, `HistoryExplains`); balances and supply
(`SupplyIsSum`; `MaxSupply` bounds it); the log by member and by
id, with summaries and peak hours as operators over it (`AttendanceAddsUp`: the log by id and by
member agree, entries and sessions are counted once, and every entry falls on one hour and one
day).

The products share ids and the timestamp (`LedgerBase`) but no state: `MCHubProducts` runs one of
them per behaviour, `part`, and leaves the others as they are.

## 5. Accounts, pages and services

**UserSessions.** Handlers are workers as in 3: `call[w]` holds the user a handler loaded and the
token it read. `Register` inserts the account and opens no session; `Login` and `VerifyOtp` end in
`Mint`; `Refresh` in `MarkTokenConsumed` and `Rotate`, or in `RevokeFamily` for a token already
spent; `EditUser` (edits, and the reset by code) and `ResetPassword` (by token, with
`RevokeAllRefreshTokens` after it) save the row they read (`SaveUser`), which inserts it again if an
administrator deleted it meanwhile. A token is the pair of the unique index, family and version.
Any handler may fail at any await (`HandlerFails`). Properties: `OneLivePerFamily`,
`ClosedStaysClosed`.

It runs in `MCUserSessions` with `AuthClient`, `PasswordReset` and `SecondFactor`; the other modules
run in `MCPlatform`. The parts of a composition share no state; `part` says which one a behaviour
exercises, the view `PartView` keeps only its variables, and the composite properties ask of the
part that moves only. (`Compared` makes TLC normalise the functions of the initial states, which
it otherwise cannot write to disk under a view.)

| module | what it keeps | what its steps are | property |
|---|---|---|---|
| `AuthClient` | per tab: the store, the bearer token, whether its first effects ran; shared: two `localStorage` entries and the persisted store; requests under way | loading a page, restoring a session, every form sent and every answer, logout; each change of a store, of its loading flag too, rewrites the shared entry with this tab's user and token | `ClientAgrees` |
| `PasswordReset` | the wizard's step, e-mail and code; rows with their reset code; codes issued, mailed, expired and accepted | the wizard's three forms, resending, leaving; the handlers, which save rows as they read them (in one step: what others wrote since is undone or kept) | `RecoveryEarned` |
| `Registration` | the form of each tab; the row of each address, its code; requests under way | the form's two steps, the code page, resend, login of an unverified user; handlers that await between read and write, and between the SELECT and the UPDATE of a save; the unique index | `SignUpConsistent` |
| `StaffSso` | rows of one address, assertions under way, tokens minted, the page's probe | an assertion is looked up, created or promoted, and given tokens, while administrators and a profile edit write the same row | `SsoConsistent` |
| `SecondFactor` | the row (enabled, secret, backup codes, passkeys), requests with the row they loaded and the columns they found to differ, challenges, the settings modal | setup, confirmation, disabling, backup codes, passkeys, from the page or from other devices; a save is `ReloadFactorRow` and `SaveFactorRow` | `FactorsConsistent` |
| `BookingPages` | one booking, the queries that show it, the page shown | list, detail, form and administrators' list; create, pay, cancel, confirm, complete; writes of others | `BookingPagesAgree` |
| `Notifications` | rows, the bell and the page with a query each | creation, polling, marking one or all | `NoticesAgree` |
| `CheckIns` | logs, the page, its query of the active visit | check-in and check-out as read then write, from several devices | `VisitsAgree` |
| `WorkspacePages` | rows, the form in its modal, lists of administrators and members | create, edit (all fields are sent), toggle, a save in two statements; saves of others | `WorkspacesAgree` |
| `MoneyPages` | payments, invoices, the refund modal, the page of one invoice | listing, refund, following an invoice's address | `MoneyPagesAgree` |
| `Administration` | rows of two accounts, the roles in their tokens, audit entries, two pages | PATCH and DELETE statement by statement, the SELECT and the UPDATE of a save included, suspension, refreshes that overlap | `AdministrationHolds` |
| `Reports` | sales, stays, visits, accounts, one report under way | each statement of a report, between which rows change; filters by day | `ReportsAgree` |
| `Mailing` | one subscriber, its tokens, the queue, the contact form | subscribe, confirm and leave by links, resubscribe, each save in two statements; jobs retried and repeated | `MailConsistent` |
| `EscrowClient` | the account's sequence number, transactions waiting and applied, calls under way | build, send, poll for thirty seconds of a validity of ten minutes; restarts | `EscrowCallsAgree` |

*What is shared between pages and backend.* Where the two sides do not agree on a spelling or on
the shape of an answer, a parameter of the initial state says which one the API speaks: "types"
(or "typed"), what the pages were written for, and "enums" (or "enum", "built"), what the backend
sends. The properties are checked for both, and state what the difference entails: that to the API
as built only a new booking is ever sent, that no refund is made from the page, and so on (7).

*`QueryCache`* is the library the pages read with (external: modelled from how they use it). Data
are records with a version, and `UpToDate` says that what a page shows as current is no older than
the writes that were reported to it.

*History variables* only serve the properties: `overwritten`, `overwrote`, `undone`, `staleSaves`,
`overlapped`, `crossed`, `doubtful`, `unsure` record that two requests overlapped, which is the
exception a property makes. Of these, `overwritten` and `overwrote` tell a save over one that its
handler had not read ("stale") from a save over one that was committed between its own two
statements ("torn"), and `undone` names the addresses whose verification a save in two statements
took back. Further, `meant` the rows as the changes that were meant make them; `known` what
a user has been shown; `unguarded` that a route without the count took an administrator away;
`roleTrail` which changes of role the audit log names or could not be told of; `roleAct` and
`suspendAct` what last settled a role or a suspension; the `...Debt` variables the version a page
was told of.

What each module leaves out is said in its header.

## 6. Runs and bounds

| run | instance | distinct states | shows |
|---|---|---|---|
| `booking_seats` | guest day pass (1 seat, day 2) against a member's monthly booking (2 seats, days 1–2); `totalSeats` 2 or 3; one payment; 2 workers | 0.70 M | the two requests do not both fit in 2 seats but do in 3, and meet on one day only; creation, revival, resize and stale saves race |
| `booking_settlement` | one monthly booking, two payment ids, 2 workers (interchangeable) | 1.05 M | deliveries, initialize, refund, cancel and sweep race on one booking |
| `booking_liveness` | one booking, one payment, 2 workers, `FairSpec` | 41 k | seats are released and charges decided although handlers fail |
| `user_sessions` | four parts, below; the server with one user, two families, three versions, 2 workers | 0.67 M | sessions on the server and in two tabs, the recovery of a password, the second factor |
| `payment_escrow` | 2 escrows, 2 accounts (either may be depositor, beneficiary or both), amounts 0–2, windows and release times 0–1, timestamps 0–2, `MaxU64` 2 | 0.74 M | all orders of decisions, with a window that overflows |
| `workspace_booking` | 1 workspace, 3 bookings, 2 members, slots in 0–2, capacities 0, 2, 3 with `MaxU32` 3, rates 0–2 | 0.88 M | overlap of two and three bookings, rate changes between booking and refund |
| `access_control` | 2 initial administrators and one more account, 2 proposals, timestamps 0–2, a proposed list that names one administrator twice | 0.62 M | add and remove administrators under open votes, expiry against time lock |
| `token_ownership` | one token, three accounts of which one may be approved, 1, 3 or 4 shares, fractions of 1 or 2, three rewards | 0.73 M | shares that do not divide, transfers to oneself, remainders |
| `hub_products` | eight parts, below | 1.12 M | the products of manage_hub |
| `platform_services` | eleven parts, below | 1.79 M | accounts, pages, services |
| `finding_refund_initiated_once`, `finding_backup_code_used_once` | as `booking_settlement`; requests of devices on one account | 6.6 k, 1.4 k until the violation | 7 |

States per part of `hub_products`: terms 287 k, subscriptions 204 k, tiers 381 k, staking 209 k,
attendance 12 k, metadata 8 k, credits 31, pricing 18 k. Of `user_sessions`: server 47 k, client
208 k, reset 62 k, second factor 351 k. Of `platform_services`: registration 295 k, bookings 132 k,
check-ins 159 k, mailing 124 k, administration 299 k, workspaces 74 k, money 129 k, notifications
306 k, escrow calls 72 k, staff sign-in 108 k, reports 97 k.

Why the bounds are enough. Races in the backend are between two handlers and the sweep (which is a
third actor in every run); the lock and the conditional UPDATEs make a third request equivalent to
one of the two. Two payment ids show everything a second attempt can do to the first. Two escrows
are what it takes to pay from another's funds; three bookings are the smallest set whose pairwise
overlaps differ from their common overlap. Two tabs, two requests under way and two or three writes
of the server are what an answer out of order takes; two requests that save in two statements and
two or three saves (`MaxFactorSaves`, `MaxPageSaves`) give every mixed row of two.
`booking_settlement` allows one refund call per payment; two at once are the finding's run.
`EventIds` has one element, which is also the id a subscription's entries get, so that entries
collide (7). `MaxRefreshes` is 1: the mixed rows of two refreshes that overlap, an exception of
`AdministrationHolds`, do not occur. The proofs in 8 remove the bounds for most safety properties.
The instances are named in the `MC` modules; symmetry is used for workers, bookings and members, in
runs without liveness properties only.

`CHECK_DEADLOCK FALSE` is set where ids, versions or timestamps run out, which stops the system
by its bounds and not by its code.

## 7. Findings

Runs that TLC must find violated:

| run | the repository says | the code does |
|---|---|---|
| `finding_refund_initiated_once` | `refund-payment.provider.ts:51-53`: concurrent refund requests are guarded | both pass the status check and both call Paystack before either marks the row; only the mark is conditional |
| `finding_backup_code_used_once` | `verify-totp.provider.ts:67`: "Remove the used code"; `TwoFactorModal.tsx:261-262`: each can only be used once | the code is compared with a row read earlier, bcrypt is awaited, and the remaining codes are saved without a condition: two requests with one code both sign in |

Other disagreements met while modelling. The models follow the code, and where a property has an
exception it is one of these. Paths are below `src/backend/src`, `src/contracts` and `src/frontend`.

*Payments and bookings*

- `payment.entity.ts:22-33` gives FAILED no successor; a sweep between the two saves of
  `initialize` is overwritten, and FAILED becomes PENDING.
- `reactivate-expired-booking.provider.ts:9-20` says a payment after the sweep is recorded and may
  revive its booking; the sweep fails the payment too, and `charge.success` only moves PENDING
  rows: the charge stays captured and FAILED.
- Two `initialize` requests may create two payments of one booking; a booking that expires between
  its check and the insert leaves a PENDING payment of an EXPIRED booking.
- A restart between marking a payment SUCCESS and confirming its booking leaves a paid booking that
  no redelivery repairs.

*Contracts*

- `payment_escrow/README.md:90`: the dispute window prevents immediate release; `release` and an
  early `claim` do not look at it.
- `workspace_booking/src/lib.rs:102-105`: a saturated sum compares correctly against any capacity;
  with capacity `u32::MAX` it equals the capacity and is admitted (hence the exception in
  `SeatsExplained` and `AvailabilityAgrees`).
- `access_control_tests.rs:943-951`: the rejection above the threshold removes the proposal; it
  then returns an error, which the entry point unwraps, so that removal and vote are reverted (the
  test calls the module function directly, where nothing reverts).
- The ids of a subscription's entries in the attendance log are its id's length
  (`manage_hub/src/subscription.rs:634-646`): entries of subscriptions with ids of one length
  replace each other under `AttendanceLog(id)`, which `attendance_log.rs:74` calls immutable.
- A proposal with a time lock that has all its approvals before the lock opens waits
  (`access_control.rs:875-882`): `execute_proposal` (906) is no entry point, and who voted may not
  vote again (849). It executes only with the approval of yet another administrator; if all have
  voted it is lost when it expires.
- `MultisigConfig::validate` (`types.rs:267-277`) counts entries: a list that names an administrator
  twice is accepted, and a threshold may then ask for more votes than there are administrators.
- One clock-out ends several clock-ins in the summaries, and `first_clock_in` stays `u64::MAX`
  where there is no session.
- A tier whose price is 0, or a discount of 100 %, cannot be sold, since the payment of 0 is
  refused. Quotes of annual subscriptions spread the *monthly* price over 365 days. Renewals count
  their subscriber again.
- The pause of a token is documented to block renewals (`membership_token.rs:1546`);
  `process_auto_renewal` does not look at it.

*Accounts*

- `updateUser.provider.ts:31-33`: the last active administrator cannot be demoted; two demotions
  that overlap both count the other one. DELETE `/users/:id`, PATCH `/members/:id/status` and
  `isActive: false` do not count at all. The role that authorises is the one in the token.
- `isSuspended` is not in the DTO, so that suspending from the dashboard answers 400; no sign-in
  reads `isSuspended` or `isActive`.
- `users.controller.ts:149` calls DELETE `/users/:id` a hard delete; a handler that read the row
  before saves it afterwards (`updateUser.provider.ts:120`), and `save` inserts it again.
- The anonymisation that `users/README.md:7-19, 60-65` and `users.controller.ts:186-194` promise never
  takes effect: its transaction saves a password of `null` into a column that refuses it
  (`anonymise-user.provider.ts:148`, `user.entity.ts:44-45`) and rolls back, after an audit entry was
  written; its route (195) is shadowed by `@Delete(':id')` (151); and the nightly sweep's `find`
  excludes rows with `deletedAt` set, which is what an anonymised row has.
- A reset by code revokes no refresh token (`auth.service.ts:465-499`): every session stays valid.
  The reset by token revokes all (`resetPassword.provider.ts:57`), but no route issues its token:
  one would have to come with an administrator's PATCH. A sign-in or a rotation that passed its
  checks before stores its token after that, and the token stays valid.
- Saves in two statements mix rows: of the second factor (disabled with codes left; enabled without
  a secret, which no code can satisfy), of the newsletter (on the list with a token that was never
  presented), of registration (neither verified nor with a code), of workspaces and of users.
- Every change of the auth store goes through `persist`, that of its loading flag too
  (`authStore.ts:47-109`): an attempt to sign in, or its failure, in a tab that still shows a user
  writes that user back into the entry another tab has cleared, and a reload shows them without
  a bearer token.
- Two check-ins of one member that overlap open two visits (`check-in.provider.ts:78`).
- Answers 204 are parsed as JSON (`lib/apiClient.ts`) and reported as failures.
- Answers of `/auth/2fa/*` are bare objects where the modal reads `data`: it never leaves its first
  step. Overlapping saves restore a used backup code (`verify-totp.provider.ts:68`). A new setup
  overwrites the secret of an enabled factor. Credential ids are encoded twice, so that a passkey
  assertion finds none.
- The reset finds its user by four digits alone. The page behind a reset link has no route that
  issues one, and its POST `/users/reset-password` is refused without a bearer token, which a
  signed-out user has not got. A resend's stale save can take a verification back. An e-mail that
  cannot be queued leaves the account created, and the retry answers 409.
- Sign-in by second factor or passkey stores no refresh token. The settings page never sends the
  current password, and shows the old user after saving. Registration signs in before the address
  is verified.
- As built, SAML sign-in fails before it starts (default import without `esModuleInterop`); its
  cookies sign nobody in, since `JwtStrategy` reads the header; a cookie of "1 day" lives 86 s; an
  administrator is "upgraded" to STAFF.

*Pages*

- Enums of bookings, invoices, workspaces and notifications are in lower case in the backend and
  in capitals in `lib/types`; only payments match. Hence no booking offers Pay or Cancel, filters
  answer 400, no invoice counts as paid, and no workspace can be created from the page.
- Every GET `/payments` with parameters answers 400 (its query class has no decorators), so that the
  payments page lists and refunds nothing. The page of an invoice is at `/invoices`, without an id.
- Lists without `meta` count 0 unread notifications and 0 totals. Nothing opens the socket. The
  price estimate and the member's total read fields the backend does not send.
- The booking form can be left, and Back pressed, while it creates; a lost answer and a retry
  create two bookings, and two messages in the contact form.
- The workspace form sends every field, and undoes what another administrator changed; an answer
  that arrives late closes whichever modal is open, as in the refund and 2FA modals.

*Reports, mail, ledger*

- GET `/dashboard/admin/analytics` compares `payments.status` with `'SUCCESS'`, which is no value
  of the enum: it always fails. A month ends at 23:59:59.000, the day of `to` at its midnight; a
  booking with two successful payments is ranked twice; the bars of registrations are cumulative;
  occupancy counts visits in inactive workspaces, and `occupancy.provider.ts` visits that ended.
- The unsubscribe page does not exist; a second use of a confirmation link answers 404; nothing
  consumes the queue of dead letters.
- The escrow client accepts only a passphrase of the public network that is wrong; reads the status
  of an escrow twice through its mapping, so that `getEscrowStatus` never succeeds; ignores the
  status of `sendTransaction`; and waits 30 s for what stays valid 10 minutes. The
  booking stores the transaction's hash as its escrow id.

## 8. Proofs

All proofs are checked by `tlapm` to the last leaf and hold for any finite sets of ids, any number
of workers, accounts and members, and any windows, amounts and times that satisfy the named
assumptions of the modules (which TLC evaluates on every run). The assumptions say that sets whose
sizes or sums are taken are finite, that amounts and limits are numbers, that `None` (`Nothing`,
`"none"`, `"unpaid"`) is no other value, and that what an instance begins with (its first workspace
and booking, the member's bookings) is among what it has; none of them restricts what the program
does.

| theorem | states | argument |
|---|---|---|
| `TypeCorrect` | `TypeOK` of `BookingPayments` | `TypeInv`: types, and the ids each label carries |
| `PaymentsMoveOnce`, `SettlementIsFinal` | `MoneyMovesOnce`, `SettledNeverReverts` | `SettleInv` |
| `ChecksStayTrue`, `SeatsRefineLedger`, `ConfirmedIsKept` | `CheckedSeatsStillFree`, `SeatsAdmittedAtomically`, `ConfirmedNeverExpires` | `SeatInv`, and lemmas on seats and days |
| `HonouredIsFulfilled` | `OnlyHonouredIsFulfilled` | `FulfilInv` |
| `SessionsTypeCorrect`, `RotationIsSingle`, `ClosedIsFinal` | `OneLivePerFamily`, `ClosedStaysClosed` | `Inv` of `UserSessionsProofs` |
| `TabsAgree` | `ClientAgrees` | `ClientInv` |
| `RecoveryIsEarned` | `RecoveryEarned` | `ResetInv` |
| `VisitsAlwaysAgree` | `VisitsAgree` | `VisitsInv` |
| `FactorsAgree` | `FactorsConsistent` | `FactorInv` |
| `SignUpAgrees`, `StaffSignInAgrees` | `SignUpConsistent`, `SsoConsistent`, the parts of `AccountsConsistent` | `SignUpInv`, `SsoInv` |
| `MailAgrees`, `EscrowCallsFollowLedger` | `MailConsistent`, `EscrowCallsAgree`, the parts of `OutsideServicesAgree` | `MailInv`, `EscrowInv` |
| `NoticesFollow`, `BookingPagesFollow` | `NoticesAgree`, `BookingPagesAgree`, the parts of `MemberPagesAgree` | `NoticeInv`, `BookingInv` |
| `AdministrationFollows`, `WorkspacesFollow`, `MoneyPagesFollow`, `ReportsFollow` | `AdministrationHolds`, `WorkspacesAgree`, `MoneyPagesAgree`, `ReportsAgree`, the parts of `BackOfficeAgrees` | `AdminInv`, `SpaceInv`, `MoneyInv`, `ReportInv` |
| `AccountsAreConsistent`, `OutsideServicesFollow`, `MemberPagesFollow`, `BackOfficeFollows` | `AccountsConsistent`, `OutsideServicesAgree`, `MemberPagesAgree`, `BackOfficeAgrees` of the platform | the invariants of the rows above |
| `EscrowTypeCorrect`, `EscrowMoneyExplained`, `EscrowTermsFixed` | the safety of `PaymentEscrow` | `Accounting` |
| `WorkspaceTypeCorrect`, `WorkspaceIndexesExact`, `WorkspaceSeatsExplained`, `WorkspaceMoneyExplained`, `WorkspaceAvailabilityAgrees` | the safety of `WorkspaceBooking` | indexes first, then capacity; `Accounting` |
| `ProposalsGovern` | `GovernedByProposals` | `GovInv` |
| `RecordsAlwaysAgree`, `AdministratorsSuffice` | `RecordsAgree`, `VotesSuffice` | `RecordInv` |
| `OwnershipTypeCorrect`, `FractionsConserved`, `OwnerFixed`, `DelegationsConsented`, `RewardsAreConserved` | the safety of `TokenOwnership` | `OwnershipInv` (types and the sum of shares), then whole holdings and rewards |
| `StakesAreKept` | `StakesKept` | `StakingInv` |
| `LedgersAgree` | `LedgersConsistent` | `MetadataInv`; the supply is inductive as it stands |
| `TiersAgree` | `TiersConsistent` | `TiersInv` |
| `TermsAreKept` | `TermsKept` | `TermsInv` |
| `PausesAgree` | `PausesConsistent` | `PlansInv` |
| `PricesAgree` | `PricingConsistent` | `PricingInv`, and lemmas on quotients |

*Payments.* None of the properties is inductive. `RefundOnlyCaptured` fails after a step
from a state in which a refund handler works on an unsettled payment; `SettledNeverReverts` from
one in which `initialize` is between its saves on a payment that is already settled.
`SettleInv` excludes both: a handler between the saves of `initialize` works on a row whose
reference is not stored yet, no delivery can find such a row, so that it is neither settled nor
shared with another handler; handlers past the winning UPDATE work on distinct settled payments;
refund handlers on settled ones; settled payments are captured at Paystack. Deliveries are told
apart by the conditional UPDATE alone: the proof shows it is enough, without any lock.

*Fulfilment.* `FulfilInv` says which statuses a booking can have once a delivery honoured it
(CONFIRMED, CANCELLED, COMPLETED: neither the sweep nor a stale save takes it back to PENDING or
EXPIRED), and that the escrow id a handler read, and may write back late, names an escrow on chain.

*Seats.* `SeatInv` says that the check of the lock holder still holds. Every action without the
lock only shrinks `Holders` or leaves it alone (confirmation moves PENDING to CONFIRMED, both
holding seats), resizing waits for the lock, and a booking being created is still `none`, so that
cancel, complete and sweep cannot meet it. A stale save could revive a booking in principle;
`CancelSave` and `CompleteSave` write statuses that hold no seats. At the save, the sum over
overlapping bookings becomes the sum on each day: the bookings of a day of `b`'s window all overlap
`b`, and sums of naturals grow with the set.

*Sums.* `Total(S, f)` is the number of pairs of an element and one of its units, so that the
library's theorems on cardinality apply and no recursion is involved. `UnitSums` proves that a sum
only depends on the values in its set, how it changes with one element or one value, that it is
monotone and additive, and that a factor moves out of it.

*Escrow and workspace accounts.* `Accounting` is the conjunction of types and of the two balance
equations. It is inductive because every decision moves one element between the sets the sums
range over.

*Capacity.* The check at booking time sums all active bookings that overlap the slot; at each
instant of the slot the occupants are among them. `IndexesExact` connects the index the contract
reads with the bookings; the largest `u32` is excluded because there the statement is false (7).

*Proposals.* `GovInv` says that ids are handed out in order (so that a new id is absent), that
proposals exist in multisig mode only, and types of what the step reads. The only actions that
change the governed state in multisig mode are `CreateProposal` and `ApproveProposal` through
`StoreAndExecute`, whose guard `Executable` is the statement. `RecordInv` adds that what is pending
is what is stored and undecided, each listed once. For `VotesSuffice` the step that executes a
proposal is looked at by kind: adding an entry takes nobody away; dismissing one address from a
list whose addresses reach the thresholds leaves enough, because the guard of removals keeps more
entries than the largest threshold asks; a replaced list of different addresses has as many of
them as `validate` counts. Of a vote that completes a proposal, only a closed time lock is a way
not to execute it.

*Sessions.* In a family that was not deleted with its user every version below a stored one is
stored and spent, and a handler past its check holds a stored token that is spent by the time it
inserts the successor; the unique index then refuses the second of two successors. `ClientInv` adds
to the property what each request under way was sent with.

*Recovery and registration.* `ResetInv` and `SignUpInv` say of each request under way which form it
belongs to, in which state that form still is, and what the request has achieved
(of a save, what its SELECT found): a mail sent, a
code accepted, a password saved. That a form has one request of a kind at a time carries the rest:
the answer that moves a form on is then the only one it waits for. The forms are told from the
value `"none"` by an assumption on their names.

*Rows held over an await.* Handlers of the second factor load a row, and save it in two statements.
`FactorInv` says that a row they hold is the row there is or a version of it that is past, in
either case one of a state of the flow unless a save was torn (`HoldsVersion`, `RowSound`), and
that the columns a save is about to write include those in which it differs, if nobody saved since
its SELECT (`ComparedSound`). An UPDATE over the version selected then makes exactly the row the
handler meant. Whatever is mixed, confirmation and codes are written together, so that the codes
belong to the confirmation the row names. Codes carry the version they were made at, above all
that were used. The challenges that requests hold are not the one that waits for the other kind.
`SsoInv` says the same of assertions: the row an assertion or an edit holds was one of an account,
and is the row there is unless the save counts as stale.

*Visits.* `VisitsInv` relates check-ins that passed the check and are not saved yet to the active
visits and to each other: two that are alike have overlapped, and know it. The version of a
user's visits never falls, because a visit that ends counts more than one that is active.

*Queries of pages.* A query follows a version if what it shows, or will show when the answer
arrives, is of that version or will be fetched again. This is kept by every step of the library's
model, and established by an invalidation of a query that shows something; the pages of check-ins,
of the second factor, of bookings and of the back office rest on these lemmas.

*Pages of bookings.* `BookingInv` says that a page shows or awaits what follows the version reported
to it, and that a call under way is live only while a page that sends such calls is shown: what it
invalidates then includes all that is shown. The form has at most one live creation, and counts it
from the moment the server has done it. To an API with the spelling of the enums every call is a
creation that is not done, because the other calls need a status the pages recognise.

*Notifications.* A list and the number of unread rows are two statements. `NoticeInv` says that a
list which is on its way fits the number read in the same moment (`ListingFits`: the newest rows are
all rows if they are fewer than the limit), so that the two fit when the answer arrives unless they
are torn; that everything shown or on its way heeds the rows reported as read; and that a call to
mark one row names a row that was shown.

*Users of the back office.* An update loads a row, may count the administrators, and saves.
`AdminInv` says that the row it holds is the row there is unless something was written since, and
that an administrator remains beside one it counted; as the version of the rows tells whether
something was written, a save that overlaps nothing leaves an administrator. Every role a held row
has is traced in the log too, so that a save which writes an old role back needs no new entry. A
save that has selected a row nobody wrote since will write all that it changes, and only that. The
table of the dashboard is no query: unless two refreshes mixed, one that has read is as new as the
writes reported, and the table waits only while a refresh for it is under way.

*Workspaces.* `SpaceInv` says what the list, the form and each request hold of a row: the row of
their version, except for a name, which nothing checks for, if one was renamed. A save of columns
that differ then makes the row it was meant to make, unless it crossed another, between its two
statements or before them, or its form was old.

*Refunds and invoices.* `MoneyInv` counts: of a charge in no doubt, at most one request is refunding
it, none is about to ask Paystack that was asked before, and if Paystack was asked and the row
does not say so, the request which asked is on its way to save it. The timers of the invoice's
sheet are those of its address as long as addresses are given time.

*Reports.* A report asks one statement at a time. `ReportInv` says of each figure already read that
it agrees with the rows *now*, except on the rows written since the report began, which the report
carries (`touched`); a write adds to that set what it changes, so that every figure stays sound
without being told when it was read. A booking's rows in the join with payments are as many as its
payments by a bijection.

*Mail.* `MailInv` says that a request that read a subscriber holds the row there is or a version
of it that is past, that one which confirms was sent with the token of the row it read, that the
columns it compared are those in which it differs while nobody saves, and that no request of the
newsletter and of the contact form is under way at once. Messages are counted
against attempts: the messages stored and the requests not stored yet are together no more than
the attempts that were answered, those that were lost and the one being made.

*Calls of the escrow contract.* `EscrowInv` says that the transactions applied have the numbers
from 1 to the account's sequence, each once; that the state of an escrow on the ledger is the
one its successful transactions made, of which there is at most one that creates it and one that
settles it; and that every escrow on the ledger, or in the pool, is one the backend noted, counted
as unsure, or has a request under way for.

*The platform.* The parts share no variable, and a step moves one of them. An invariant of a part
is therefore kept by the steps of its module alone.

*Ownership and rewards.* Shares add up because each transfer takes from one and gives to another,
to oneself too. A reward `n` splits into `n * s \div T` per holder of `s` of the `T` shares, and
the last holder takes what is missing: that this is not negative is `T * Total(parts) <= n * Total(shares)`,
by distributing the factor over the sum. The last holder exists because a finite non-empty set of
numbers has a least element, by well-foundedness.

*Stakes.* `StakingInv` has the vault's equation and, for each stake, that it unlocks the duration
of its tier after its *last* deposit. A penalty never exceeds its stake: `n * p \div scale <= n`
for `p <= scale`.

*Metadata.* `MetadataInv` is stated entry by entry: the index has the token under an attribute
and value exactly if the stored map gives it that value, and the last entry of the history that
names an attribute gave it its value. A write restricts the index to what was not superseded and
adds what is new; a removal leaves the history alone, so that the entry by entry statement, and not
the last entry alone, is inductive.

*Tiers.* `TiersInv` adds to the property that promotions have different ids and that every promotion
a subscription was sold with is stored. A change of one subscription then changes two counts by at
most one each; the saturating subtraction never loses, because the tier that is left counts at
least the subscription that leaves it.

*Terms of tokens.* That each renewal starts where the one before it ended is not inductive: a
rollback sets the expiry to what a snapshot kept. `TermsInv` adds what makes the chain hold: no
renewal has a version above the token's, the last renewal of the *present* version ended at the
present expiry, and a snapshot exists of the versions below the present one and of no other. As a
rollback takes a new version (and not the one it restores), no renewal has that version yet. The
number of rollbacks is a cardinality over the positions of the history; one more record adds at
most one position, and the guard compares before it is added.

*Pauses.* `PlansInv` is stated over the history entry by entry, and adds the order of the last
resumption, the pause and the expiry, without which the time left on resumption would not be the
time left at the pause. The time paused is a `Total` over the positions of the resumptions. Time is
conserved as `used + left = bought` while nothing was forfeited, and `<=` in any case.

*Prices.* A quote is a difference of two quotients by the length of the cycle, times the days left;
each loses less than one unit, so that their difference is off by less than one unit a day. That
the quote has the sign of the difference follows from quotients keeping the order.

## 9. Limits

Out of the prover's reach, and checked by TLC only: `AbandonedIsReleased`, `PaidIsDecided` and
`UndisputedIsPaid` (liveness under fairness), and `AttendanceAddsUp` (its
reports are folds over the log, and what a recursive definition computes for every log needs
induction over data). Every other property of the passing runs is a theorem.

Assumed: an UPDATE with a WHERE, a row lock and a unique index of PostgreSQL are atomic and durable;
TypeORM's `save` of an entity is a SELECT by its id, then an UPDATE of the columns in which the two
differ, an INSERT if there was no row, and nothing if they are equal; Soroban reverts a failed
invocation and orders invocations, and its storage does not expire; Bull runs a job at least once
while it has attempts left; TanStack Query refetches as configured.

The two statements of `save` are two steps where more than one column a request leaves as read
matters (`SecondFactor`, `Mailing`, `Registration`, `WorkspacePages`, `Administration`). They are one
step where the outcomes are the same: in `BookingPayments`, `PasswordReset` and `StaffSso` a column
left as read is undone or kept, as the step chooses; in `UserSessions` an edit has no column that
another handler of the module writes.

Not modelled, with the reason of each in `PROJECT.json` under `components`: hub, metrics, common,
config (the providers of secrets included), cloudinary, migrations, membership_token, scripts and
tests; of the frontend the static pages, the demo pages under `app/sandbox`, layout and wording;
throttling, hashing, templates of e-mails and rendering of PDFs; royalties and the analytics of
revenue of manage_hub; the indexes of payment_escrow, which only views read; anonymisation, which
takes no effect (7), and the audit entry it leaves.

The hazards without a property are in `PROJECT.json` with a note each, and in 7.

## 10. Plan

Done: every component of 1 that keeps state across requests is modelled and checked, and the
safety of the contracts, of the membership products, of bookings, payments, sessions and accounts,
and of the pages with the handlers behind them is proved.

Next: an abstract specification of an escrow (locked once, paid once, to one of two parties) that
`PaymentEscrow` implements, and of a proposal that `AccessControl` implements.

A run exists for each distinct question; a new one takes the place of the weakest.

## 11. How to run

    tlasany BookingPayments.tla
    tlc -workers 2 -config BookingSeats.cfg MCBookingPayments
    tlapm BookingPaymentsProofs.tla

Each row of `runs` in `PROJECT.json` names its module and configuration.
