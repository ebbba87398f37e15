# Bonde Backend: TLA+ models and proofs

Bonde is a NestJS service over PostgreSQL (Prisma), Redis and Supabase Auth. Its
own core logic is money: a customer wallet with bank accounts at Safe Haven and
virtual cards at Sudo, kept by a double-entry ledger in `src/src/modules/finance`.
The two providers are asynchronous and unreliable from the service's point of
view, and the same rows are written by requests, provider callbacks, a scheduled
job and administrators at once. Around it are the parts that deal with a user:
registration and sign-in, chat, support, settings, administration. They have no
provider, but overlapping requests, caches and steps that stop half way.

Paths below are relative to `src/`; `finance/` is `src/modules/finance/`.

## 1. The system

### Finance

| Component | State | Operations | Talks to |
| --- | --- | --- | --- |
| Ledger (`ledger.service.ts`) | `FinanceJournal`, `FinanceEntry`, `FinanceAccount.balance` | `post`: one balanced journal, unique reference; customer accounts are debited by a conditional update | called inside the transactions of every component below |
| Commands (`finance.service.ts`, controller) | `FinanceOperation`, idempotency keys, single-use proofs | `execute` for ISSUE, WITHDRAW, ALLOCATE, RETURN, RULES, THRESHOLDS, PAUSE, RESUME, CANCEL, RETIRE, APPROVE, DECLINE, MERCHANT_ENROLL, MERCHANT_BIND | ledger; `worker.process` inline |
| Worker (`finance-worker.service.ts`) | `FinanceOperation.status`, lease, `providerReference` | `run`, `process`, `withdraw`, `settleWithdrawal`, `fail`, `issue`, `lifecycle`, `sweep`, `reconcile`, `discover` | Safe Haven, Sudo, ledger, retirement |
| Inbox (`finance-events.service.ts`) | `FinanceInbox` | `receive` (stores a hint), `run` (fetches the truth and books it): bank credits and debits, card transactions, declines, card status | both providers, ledger, worker, retirement |
| Authorizations (`finance-authorizations.service.ts`, `finance-policy.service.ts`, `card-policy.ts`) | `FinanceAuthorization`, `FinanceCapture`, card locks | the gateway callback: replay, hard rules, balance, approval, hold | ledger, retirement |
| Retirement (`finance-retirement.service.ts`) | `Card.retiredAt`, `retirementStatus`, provider lease | `mark`, `ensureDue`, `scan`, `lease`, `process` | Sudo, ledger |
| Merchants (`finance-merchants.service.ts`) | identities, catalog, enrolments | `observe`, `candidate`, reviews, `resolveRules`, `enroll`, `bind` | authorizations, commands |
| Identity (`finance-identity.service.ts`) | `FinanceCustomer`, `KycVerification` | `initiate`, `completeBank`, `cardholder`, the administrator's `customer` reconciliation | both providers |
| Billing (`billing/`) | `BillingOrder`, plan and its end, AI credits | orders, settlement, cancellation, renewal job | ledger |
| Provider clients (`providers.ts`) | cached token | `call`: every error is definitive (the provider refused) or not | the providers |
| Reports, capabilities, installation | none of their own | reports and configuration checks | ledger |

How they interact:

- Every transaction that moves a customer's money first locks the owner's
  `profiles` row (`SELECT ... FOR UPDATE`), so one transaction is one atomic
  step. What is not protected is everything between two transactions of one
  handler: each provider call is an `await` outside any lock.
- `scripts/finance-worker.mjs` posts to `/finance/jobs` every minute for ever;
  that runs `worker.run()` and then `events.run()`. A tick that is slower than
  the client's timeout, a second server, `POST reconcile` by an administrator, and
  the request that executed a command (it calls `worker.process` itself) all run
  the same code at the same time.
- Webhooks carry no state that is trusted. They create a row per event, provider
  id and status; the row is processed by asking the provider.

### Around the user

| Component | State | What is hard |
| --- | --- | --- |
| Registration and invitation (`auth/`, `invites/`, `otp/`) | the identity at Supabase, profile, account and wallet, codes, `UserInvite` | identity, profile and account are written by three systems; overlapping registrations, releases, stops |
| Sign-in (`auth/`) | `AuthSession`, parked logins in Redis, TOTP secrets, recovery codes, reset tokens | a refresh in progress against a revocation; single use of challenge, step and recovery code |
| Support chat (`chats/`) | chats, messages, items and their approvals | one reply per message, one decision per approval |
| Support tickets, passcode (`profile-hub`, `admin-console`, `passcode/`) | tickets, passcode attempts and lock | one live request for deletion; attempts are read, compared and written back |
| Waiting list (`marketing/`) | `WaitlistSignup` | concurrent submissions must not replace saved details |
| Throttling (`common/throttling`) | Redis counters, memory of each server | counter and expiry in two calls, Redis lost in between |
| Contact data (`profile`, `otp/`) | telephone, e-mail, `OtpCode` | checked number stale when marked as verified |
| Settings, alerts (`profile-hub`, `biometrics`, `notifications`, `activity`) | preferences, enrolments, payees, devices, audit and feed | merges of what was read; audit, alert and push are three writes |
| Administration (`admin-console/`, `crud/`) | account and wallet flags, broadcasts, grid rows | chunks of one broadcast, a registry that must fit the schema |
| Lists (`cards`, `transactions`, `approvals`, `thresholds`, ...) | none of their own | a badge filtered by a `where` and derived once more |

### What makes each part correct

- *Ledger*: balanced journals, no reference twice, no customer account below
  zero, cached balances equal to their entries.
- *Withdrawals*: one transfer per operation; never both released and paid; the
  ledger never ahead of the bank; every outcome is booked in the end.
- *Card money*: the hold is what the authorization says is outstanding; nothing
  is booked twice; limits hold under concurrency; a retired card is empty.
- *Card lifecycle*: one provider write at a time; stale provider news never
  reopen a card; a retirement ends and empties the card.
- *Commands*: one operation per idempotency key, one proof per operation, one
  action at a time on a card, what the app offers is accepted.
- *Deposits, sweeps*: a credit is booked once; a settled sweep tells the truth.
- *Billing*: at most one charge per period, none without a mandate.
- *Setup*: each provider is asked to create once; complete means READY.
- *Merchants*: a card is bound to what is valid when the command commits.
- *Users*: one account per address, revoked sessions stay revoked, decisions,
  settings and contact data are never lost or another person's, sends are whole.

`PROJECT.json` lists the hazards at their lines, with the properties that cover
them.

## 2. Modules

| Module | Models |
| --- | --- |
| `Payout` | abstract: what is promised about a withdrawal |
| `Envelope` | abstract: what is promised about the money of one card |
| `Payin` | abstract: what is promised about a deposit and its way to the treasury |
| `AtomicLedger` | abstract: what a ledger promises to the code that posts to it |
| `Withdrawals` | worker, reconcile and inbox for WITHDRAW operations |
| `Sums` | sums over finite sets, as sizes of disjoint unions |
| `CardAuthorizations` | gateway callback, card events, allocations, approvals, retirement of one card's money |
| `CardLifecycle` | issue, pause, resume, cancel, retire, deadline, lease, late and lost provider calls |
| `CardRules` | limits, uses, monthly budget, alerts and their change by RULES |
| `Commands` | proof, key, plan capacity, pending operations and the ledger effect of each command |
| `Ledger` | `post` statement by statement against other transactions |
| `Deposits` | bank credits, their SWEEP to the treasury, reversals |
| `CustomerSetup` | bank account and cardholder of one user |
| `Billing` | Premium, AI credits, renewal job |
| `Merchants` | identities, catalog, enrolment, allowlist of a card |
| `Listings` | thirteen paged lists, their filters, badges and searches; views of a card |
| `Onboarding`, `Signin`, `Conversations`, `Helpdesk`, `Waitlist`, `Throttling`, `Contact`, `Settings`, `Administration` | the parts around the user |
| `WithdrawalsProofs`, `CardMoneyProofs`, `CardLifecycleProofs`, `DepositsProofs`, `FinanceProofs`, `LedgerProofs`, `AccountsProofs` | theorems and their proofs (section 4) |
| `SumLemmas` | the lemmas about sums that several of them need |
| `MCWithdrawals`, `MCCardAuthorizations`, `MCCardLifecycle`, `MCFinance`, `MCAccounts` | instances for TLC |

A definition whose comment starts with "Mutant:" or "Defect:" is a plausible bug
in the definition that follows it. It is not part of the model; it shows that a
property would notice (`PROJECT.json`, "mutants").

In every module a transaction under a row lock is one step, a statement outside
a transaction is a step of its own, and what a handler has read is kept in the
record of its request or run (`proc`, `run`, `job`, `request`, `visit`, `desk`,
...) with a program counter. `MCFinance` and `MCAccounts` put parts side by side
that share no row in the instance: the variable `scene` names the part that
moves, so that their states add up instead of multiplying. `MCCardAuthorizations`
does the same with the card's rules, which are chosen at the start and then stay.

### Payout and Withdrawals

`Payout` has two variables per withdrawal: `money`, where the ledger says it is,
and `bank`, what really happened. The promise is that `money` never runs ahead of
`bank`.

`Withdrawals` keeps the columns the handlers branch on (`status`, `known` for
`providerReference`, `inbox`), the ledger (`journals`, `wallet`, `hold`,
`clearing`, `variance`), the bank's side (`transfer`, `reversed`, `fee`) and one
`proc[p]` for each concurrent run:

| `pc` | Code |
| --- | --- |
| `idle` -> `claimed` | `Claim`: the conditional update in `process` |
| `claimed` -> `posting` | name enquiry done, POST /transfers sent; or `RejectRecipient` |
| `posting` -> `posted` | the response; or `Refused`; or `Uncertain`, the catch in `process` |
| `posted` -> `settle` | `RecordReference`, the unconditional update of `withdraw` |
| `settle` -> `idle` | `settleWithdrawal` with the snapshot in hand |
| `lookup`, `query` | `discover` and `reconcile` |
| `event`, `verified`, `ack`/`retry` | `bankEvent` from the fetch to the update of the row |

`SettleTx` is the transaction of `settleWithdrawal`: its three alternatives are
the terminal check, the posting, and the posting that rolls back.

External, as the code relies on it: Safe Haven takes a POST at most once (it
carries one `paymentReference`), may take it after the caller gave up, and a
transfer that is Completed or Failed stays so; only a Completed one is reversed.

### CardAuthorizations

One card of one owner. `auth` is the `FinanceAuthorization` rows, `hold`,
`wallet`, `card`, `clearing` the ledger accounts, `balance` the column of `cards`,
`booked` the journal of each provider transaction, `inbox` and `tagged` the rows
and their `cardId`, `run` the event runs. `Authorize` is the whole callback:
marker, hard rules, balance, approval and hold in the source's order.
`Fetch` and the `Apply...` actions are the two halves of `sudoEvent`: the fetch,
which ties the row to the card, and the transaction that books. An exception
rolls back and is recorded on the row in a later step, without the lock.
`FinishRetirement` is the last transaction of `FinanceRetirement.process`; the
provider calls before it are in `CardLifecycle`.

External, as the code relies on it: Sudo hears the recorded answer after the
callback's transaction ended (the transaction gives up after 2.9 s, Sudo after
4 s) or declines by itself; it captures at most what was approved and not
reversed, reverses only before a capture, and refunds at most what it captured.
The end of the month and the card's deadline may come at any time. The rules of the
card, `rules`, are any of `Rules` and do not change here; `CardRules` changes them.

`Envelope` says what all of this is for, in ten actions without callback, webhook, run
or approval: a purchase is taken out of the card whole and once, captured from what it
holds or given back, refunded at most as far as captured; budget and uses count what is
held; the last use closes the card; a closed card is emptied once and stays empty.
`ImplementsEnvelope` maps `CardAuthorizations` to it: a purchase is open while its row is
HELD (`Phase`), the stage is the retirement marker (`Stage`), and what the owner decides,
what the inbox holds and what a run does between fetch and booking are stutters.

### CardLifecycle

`card` has the columns that decide (`status`, whether `externalReferenceId` is
set, `retirement`), `op` the operation rows, `money` and `journals` the ledger,
`lease` the provider lease while valid, `run` the jobs, `sudo` the card at the
provider with the PUTs that are still under way. Issuance is five steps (claim,
card created at Sudo, its reference on the operation, then on the card, allocation
booked); a PUT can be
refused, lost, or take effect after its caller gave up. `hint` stands for the
inbox rows of card.updated and card.terminated, which all lead to one fetch. Sudo may
lose such a webhook (`Reports`), and nothing asks for it again: a late RESUME that is
not reported leaves a RETIRED card active at Sudo, where it is declined here for want of
money and of a usable card. `stuck` says that a transaction's row names the card and is
RETRY or REVIEW (`RowFails`): `WaitsForSettlement` counts it as the code does
(`finance-retirement.service.ts:151-157`), so that a row nobody can book keeps the
retirement PENDING for ever.
A claim and a lease last 60 s, a provider call 8 s. They lapse when their run stopped
(`OperationLapses`, `LeaseLapses`), and as a fault also under a run that goes on
(`Overruns`, remembered in `overran`): its claim is UNKNOWN and another may take it. The
catch of a retirement then writes UNKNOWN over whatever became of the operation
(`Overwrites`), the catch of the worker only over PROCESSING (`GivesUp`). `money.held`
counts what purchases hold; their detail is in `CardAuthorizations`. A PAUSE or RESUME
whose PUT never took effect stays UNKNOWN, as in the code. A user can recover what
`lifecycle_stranded` shows with a RETIRE of his own, which the property does not
count on.

### Commands, CardRules, Ledger

`Commands!Execute` is the one transaction of `execute`: key, proof, pending
operation, capacity, then the effect of the kind. Before it the code runs `validate`, which
looks at the clock, the fees and the currencies and may refuse any request, a
repeated one too, and `ensureDue`, a transaction of its own (`EnsureDue`, also the scan).
What is refused or replayed changes nothing, so that the module has no answers: it does
not say that a retry is answered with its operation, because a retry may be refused. The
worker is reduced to the status it leaves; a card's own RETIRE (`retires`) is beside the
operations, because it has no key of a client. An ISSUE whose card Sudo has not switched
on ends PENDING, with its card funded, and SUCCEEDED later (`SwitchedOn`).
`CardRules` has one SELF_DESTRUCT card with a budget, whole
captures, and a month that ends between transactions. A run matches a transaction with
its card and reads it before it has the owner's lock (`ReadCard`); the alerts are those
of that card, the limits those of the current one (`CapturePurchase`). `outdated` says
that a capture went by a card that was changed since. Parsing of rules,
categories and time windows are left out. `Ledger` takes `post` apart into the insert
of the journal and, account by account in the order of the keys, a conditional update
with its entry, under PostgreSQL's row locks until commit. A reference that another
transaction is posting is waited for, as a unique index does; a caller may try again
after a rollback. Journals are of one currency, as with every caller. `AtomicLedger` has
one action, the posting of a whole journal on the balances committed before it;
`ImplementsAtomicLedger` says that this is all that other transactions see of `post`.
The other modules rely on that when they book in one step.

### Deposits, CustomerSetup, Billing, Merchants

`Deposits`: an inbox row per webhook status; credit and SWEEP are one transaction;
`Claim`, POST, `settleSweep`, `reconcile`, `discover` are steps of `job[j]`. A
transfer that is reversed after its credit goes to REVIEW. `Payin` has the deposit without
rows, leases and runs: it is credited once, moved once, and what is told of the move was
true; `ImplementsPayin` maps `Deposits` to it.
`CustomerSetup`: no handler takes the owner's lock, so `request[r].read` keeps the
row as it was; Sudo's list is searched by the e-mail the profile has now.
`Billing`: months are the clock; the job lists, upserts the period's order and
settles it in separate steps. Orders paid by card (`CARD`) never settle in the
code and are left out; one user.
`Merchants`: administrators take no lock of the user; what a command relies on is
share-locked until it commits.

### Listings

One row of a table, its columns reduced to "this" (the caller's, or what is asked
for) and "that", changes between query and view. Conditions are records and the
spread of objects is `Spread`, in the source's order, later over earlier. Plain lists
are given rows that differ from the request in at most two columns; the approval
columns of payments may have any legacy value. Observed on the way: `GET
approvals/:id` answers DECLINED for a row that is held again. Pages, order and
totals are left out.

### The parts around the user

- `Onboarding`: one address; `identity` at Supabase, `profile`, `accounts`, codes,
  registration tokens and invitations. An e-mail that is reported as refused did
  not arrive. The unique `user_id` of accounts makes provisioning atomic.
- `Signin`: sessions of Supabase mirrored in `AuthSession`; parked logins; a second
  factor with TOTP steps (bounded periods) and recovery codes. Passwords are checked
  by Supabase. A refresh starts only for a session that has a row. The password
  reset shares no row with sessions and is a scene of its own.
- `Conversations`: replies of the agent and decisions on their items, one item for a
  reply; approvals come from outside the module.
- `Helpdesk`: tickets, deletion requests behind the passcode, administrators'
  replies and status changes. The passcode's value is right or wrong; attempts are
  counted from what was read. A ticket that a user titles like a deletion request,
  and support's own messages, are left out; the obligations that forbid a deletion
  are one flag.
- `Waitlist`: one address; the fields are filled one statement each, in any order.
- `Throttling`: `INCR` and `PEXPIRE` are two steps; a command may fail at either and
  the server then counts in memory. Windows end at any time. The block lasts longer
  than nothing, as the guard sets it.
- `Contact`: the PHONE channel of `OtpCode` against the number of the profile; the
  e-mail change at Supabase, which holds an address once. Names and avatars, and
  their copy at Supabase, are left out.
- `Settings`: the preferences under the row lock. The body of a patch is an instance of
  its DTO, whose fields are all there and undefined where the body says nothing
  (`Instance`); it is spread over what is stored (`Over`), and the JSON column drops what
  is undefined (`AsJson`). Biometric enrolments, payees, address, budget, avatar; the audit row, the alert and the pushes that follow a
  change. `pushAllowed` is true for every action that reaches it here: at present
  no preference silences them.
- `Administration`: suspension and restoration, broadcasts in chunks with their row,
  and the data grid with its registry. A payload differs from what the table
  requires by at most one column; a value is well-formed or not. A user's chat
  may exist at the start.

## 3. Runs

| Run | Question | Result |
| --- | --- | --- |
| `withdrawals` | one withdrawal, two runs at once, four webhooks, one fault, fee below and above the quote | two invariants and the refinement of `Payout` hold |
| `withdrawals_live` | as the first, under the fairness below | outcomes are booked, reservations end |
| `withdrawals_outcome` | does a booked payout stay reported as such? | **violated**, finding 1 |
| `cards` | three scenes: two requests for the last use with a capture in two parts, a refund or reversal, two event runs and month end; three requests that need first-time and large-amount approval, with declines by Sudo; a verification of no amount; the deadline in the last two | 5 invariants and the refinement of `Envelope` hold |
| `cards_refund_first` | does a captured purchase always keep its slot? | **violated**, finding 2 |
| `lifecycle` | a card issued, resumed, cancelled and overtaken by its deadline, two runs, lost webhooks, one fault | one invariant and 3 action properties hold |
| `lifecycle_live` | as before with one run, under fairness | retirements end unless a row cannot be booked, a late RESUME that is reported is undone |
| `lifecycle_stranded` | can a retired card still hold money? | **violated**, finding 3 |
| `finance` | eight scenes: setup, deposits, billing, merchants, commands, ledger, card rules, lists | 10 invariants, 2 action properties and the refinements of `AtomicLedger` and `Payin` hold |
| `setup_ready` | is a completely set-up customer READY? | **violated**, finding 4 |
| `accounts` | twelve scenes of the parts around the user | 5 invariants and 4 action properties hold |
| `settings_choices` | does a patch keep the preferences it does not name? | **violated**, finding 5 |

What the properties of the two large runs say:

| Property | Says |
| --- | --- |
| `ProvisionedOnce` | at most one subaccount and one cardholder, READY only with both on record |
| `DepositCreditedOnce`, `ImplementsPayin` | a completed transfer is credited once, then moved by at most one transfer; what is told of that was true, and nothing is sent after a refusal |
| `ChargedOncePerPeriod`, `RenewalNeedsAMandate` | a month is paid once; the job charges only an expired, not cancelled Premium that was once bought |
| `OneProofOneOperation`, `OffersAreHonoured` | every operation has its own proof and money adds up; an offer is accepted |
| `OneActionPerCard` | two unfinished commands of one card, its issuance included, only ever retire or close it |
| `BindingsAreCurrent` | a committed rule names only identities not revoked and a version still published |
| `BalancesAreEntries` | cached balances are sums of entries under rollback and retry |
| `ImplementsAtomicLedger` | journals appear whole, one after the other, each on the balances before it |
| `AlertsAreExact`, `UsedUpIsRetired` | a boundary is announced once, not in advance, and not at all only where a capture went by a card changed since it was read; a limit changed between purchases never leaves a spent card without its marker |
| `PageIsHonest` | a list has the rows asked for and shows the badge it was asked for |
| `OnboardedOnce`, `SessionsStayRevoked` | one account per address; no refresh brings a revoked session back |
| `DecisionsAgree`, `RequestsAreSerial` | one reply and one decision; one live deletion request |
| `SavedDetailsStay`, `LimitsHold`, `ContactsAreOwned`, `SettingsAreKept`, `AdministrationIsWhole` | as their comments say, for one address, one key, two users, one user, two administrators; of preferences, that a choice never comes back (that it may get lost is finding 5) |

The type invariants of the five instances are definitions (`TypeOK`, `MCTypeOK`,
`...TypeOK`). The cfgs leave them out, because there they only cost time: each holds in
the same instance when it is named as an INVARIANT. So do the inductive invariants
`Withdrawals!IInv` and the card's `CardInv`, `QueueInv` and `AnswerInv`, which were
checked that way before they were proved.

Bounds and why they are enough. *Two runs or requests*: every race in these handlers
is between what one read and what another wrote since; a third repeats the second's
role. `Throttling` has three hits, because a limit of one takes a hit that passes, one
that is refused and one in between. *One operation* in `withdrawals`: operations
share only the wallet, and the ledger guards that. *`MaxFaults`, `MaxLost`,
`MaxMishaps` = 1* count crashes, lost answers and refused calls together; one already
separates a call from what follows it, and the proof covers any number for
withdrawals. *Fees 0 and 2 around a quote of 1*: below and above; equal in
`withdrawals_live`. *Cards*: amounts of 2 captured in parts of 1 give every prefix
(nothing, part, all); in the first scene the usage limit of 1 binds, in the second the
budget of 3, one purchase and a half. In the first scene the deadline does not pass: it
acts through the retirement, which the last use starts there, and with it the run would not
end in time; it passes in the other two. *Lifecycle*: one operation of each of ISSUE,
RESUME and CANCEL and the automatic RETIRE, in `lifecycle_live` too, where Sudo may refuse
the CANCEL that began the retirement; its one fault may be a row that cannot be booked or a run
that outlasts its claim; PAUSE takes the same path as RESUME but for its last
status, which the properties tell apart on the RESUME side. *Commands*: two keys and
proofs, every kind on the card of the first key, and a third key and proof for a PAUSE, RESUME,
RETIRE or CANCEL of that card while another command on it is unfinished
(`LastProofIsForTheCard`); plan limits 1 and 3 so that Premium
that ends leaves more cards than are allowed. *Ledger*: six journals of two customers
that meet on the bank and revenue accounts, two of them under one reference.
*CardRules*: amounts 1, 2 and 2 against budgets 4 and 5 meet, pass and jump
boundaries; two captures wait with the card they read (`MaxReads`), so that each may be booked
by an older budget than the other. *Billing*: two months, so that one renewal follows a purchase. *Merchants*:
two identities, two catalog rows, three versions. One row of the
catalog grows up to its revocation; the other stays the draft of its first review, which
the revocation of a shared identity hits too (`OneRowGrows`). *Onboarding*: two visitors, two
invitations, two codes. *Contact*: two users, two numbers, three addresses, one code. Inbox, lease and block times are untimed: what may have lapsed may
lapse at any moment.
Symmetry (`MCSymmetry` of the instances) swaps values that no definition names or chooses:
runs and operations, the two halves of a capture, proofs and orders. The runs that use it
check no liveness.
`CHECK_DEADLOCK FALSE` is set where the system comes to rest when every operation,
request and event is done.

Fairness (`MCWithdrawals!Fairness`, `CardLifecycle!FairSpec`).
`scripts/finance-worker.mjs` never ends, so an expired lease is noticed (WF), a started
run goes on (WF), a PUT that is under way takes effect or is lost (WF), and an operation that stays on a list is picked although the runs
are busy with others in between (SF). This assumes fewer uncertain operations than the
20 and fewer rows than the 25 a tick looks at; starvation behind rows that never
succeed (`finance-events.service.ts:55`) is a hazard no property covers. Webhooks
are *not* fair: the bank's outcomes are found by `reconcile` without them, and what
depends on one is conditional on it, `RevivalIsUndone` on a reported card. Nor is an
administrator's retry of a row: `RetirementEnds` excepts a card with a row that is not
processed. The bank answers, and holds are settled in the end. Faults are unfair and
bounded.

### Findings

1. `withdraw` stores the response of its POST with an unconditional update to
   PENDING (`finance-worker.service.ts:227`). If the inbox settled the operation
   during the call, SUCCEEDED is lost for good: the second payout journal cannot
   be posted and `reconcile` repeats that failure. The money is right; the outcome
   that `docs/sudo-safehaven.md` promises to retrieve is not reported, and a
   reversal is never credited, because it waits for SUCCEEDED.
2. A refund that is processed before the capture it belongs to is taken for a
   reversal of the hold (`finance-events.service.ts:382`). It frees the slot and
   the budget, and the capture can then never be booked. The doc says captured
   purchases consume their slot even after a refund.
3. `issue` stores the provider's card before it books the allocation
   (`finance-worker.service.ts:143`). If the deadline passes in between, the retirement
   finds nothing to return, finishes, and the allocation is then posted to a RETIRED
   card, which no scan looks at again.
4. `completeBank` and `cardholder` write the customer's status from what they read
   before their provider call (`finance-identity.service.ts:108`). Overlapping, each
   misses the other's half: everything is set up and the status stays PENDING.
5. `updatePreferences` spreads the instance that the ValidationPipe made of the body
   over what is stored (`profile-hub.service.ts:41`). Under the target ES2023
   (`tsconfig.json:13`) its fields are own properties, undefined where the body says
   nothing, so that one patch takes away what earlier ones chose. The unit test, which
   promises the contrary, passes a plain object.

Seen while modelling, without a run of their own: `accept` of an invitation stores a
verified profile and provisions it in a later transaction, so that a stop in between
leaves a verified user without an account (`invites.service.ts:252`; the comment at
`user-provisioning.service.ts:16-17` says this never happens). A stop between `INCR`
and `PEXPIRE` leaves a counter without an expiry
(`redis-throttler.storage.ts:83`). A number that changes between the comparison of a
code and the update is marked as verified (`otp.service.ts:172`). A search replaces the
OR of the deadlines in the list of cards (`cards.service.ts:84-85`), and an
administrator's badge filter replaces a status filter. The filter `pending` of the
administrators' user list also has users suspended before onboarding, who are rendered as
suspended (`admin-console-users.service.ts:316`, against the comment at 282). A late
RESUME whose webhook is lost leaves a retired card active at Sudo, and a transaction that
cannot be booked keeps its card's retirement from ending. A capture that read its card
before the budget changed may leave a boundary of the new budget unannounced
(`finance-events.service.ts:339`, `:498`). A retirement that outlasts its lease marks
the operation that another run has completed UNKNOWN (`finance-retirement.service.ts:226`);
it is carried out once more and returns nothing then. The properties except exactly
these cases, in their comments and in the hazards' notes.

## 4. Proofs

Every safety and action property that a passing run checks, and each of the four
refinements, is also proved of its module's specification, for every value of the constants that the
module's ASSUMEs allow: any sets of operations, requests, runs, users and provider
transactions, any amounts and limits, any number of faults. The runs then show on a
small instance what the theorems say of all of them. The theorems are about `Spec`,
`DepositSpec` and so on; the instances of the runs take fewer of the same steps
(`MCNext` of `MCCardAuthorizations` limits who plays in a scene, `MCFinance` and
`MCAccounts` let one part move).

| Module | Theorem | States |
| --- | --- | --- |
| `WithdrawalsProofs` | `Invariant` | `IInv`, the inductive invariant |
| | `AtMostOneTransfer` | `OneTransferPerOperation` |
| | `MoneyConserved` | `MoneyIsConserved` |
| | `Refinement` | `ImplementsPayout`: initial states map to initial states, steps to steps or stutters of `Payout` |
| | `TypeCorrect`, `NeverReleasedAndPaid`, `NothingBookedInAdvance`, `TerminalHasJournal`, `HoldIsAllOrNothing` | what `IInv` says of types, journals and holds |
| `CardMoneyProofs` | `CardInvariant`, `CardTypes` | the inductive invariant; `TypeOK` |
| | `MoneyIsWhole`, `LimitsAreKept`, `LastUseRetires`, `RetiredIsEmpty`, `RowsFollowJournals`, `ApprovalsAreUsedOnce` | `MoneyStaysWhole`, `LimitsHoldOut`, `LastUseIsLast`, `RetiredStaysEmpty`, `RowsAreJournals`, `ApprovalsAreSpent` |
| | `EnvelopeIsKept` | `ImplementsEnvelope`: the refinement of `Envelope` |
| `CardLifecycleProofs` | `Invariant`, `TypeCorrect`, `MoneyConserved` | the inductive invariant; types; money |
| | `Serialized`, `StaysRetired`, `RetirementLeavesNothing`, `OutcomesAreFinal` | `WritesAreSerial`, `NeverRevived`, `RetirementEmpties`, `OutcomeIsFinal` |
| `DepositsProofs` | `DepositInvariant`, `DepositTypes`, `CreditedOnce`, `SweepIsTrue` | the inductive invariant; types; `DepositCreditedOnce`; `SweepTellsTheTruth`, that a settled sweep is the transfer's |
| | `PayinIsKept` | `ImplementsPayin`: the refinement of `Payin` |
| `FinanceProofs` | `ProvisioningHappensOnce` | `ProvisionedOnce` |
| | `MonthsArePaidOnce`, `RenewalHasAMandate` | `ChargedOncePerPeriod`, `RenewalNeedsAMandate` |
| | `BindingsStayCurrent` | `BindingsAreCurrent` |
| | `ProofsAreUsedOnce`, `OffersHold` | `OperationsHaveProofs`, `OffersAreHonoured` |
| | `PagesAreHonest` | `PageIsHonest` |
| | `SetupTypes`, `BillingTypes`, `ListingTypes` | the type invariants of these modules |
| `LedgerProofs` | `CommandsMoveMoneyOnce`, `CardsActOneByOne` | `OneProofOneOperation`, `OneActionPerCard` |
| | `AlertsAreSentOnce`, `UsesAreLimited` | `AlertsAreExact`, `UsedUpIsRetired` |
| | `BalancesAreTheirEntries`, `LedgerTypes`, `PostingIsAtomic` | `BalancesAreEntries`; `LedgerTypeOK`; `ImplementsAtomicLedger`, the refinement of `AtomicLedger` |
| `AccountsProofs` | `OnboardedOneUser`, `SigninTypes`, `RevocationLasts` | `OnboardedOnce`, `SigninTypeOK`, `SessionsStayRevoked` |
| | `WindowsAreLimited`, `DecisionsHold`, `DetailsStay` | `LimitsHold`, `DecisionsAgree`, `SavedDetailsStay` |
| | `RequestsAreOneByOne`, `ContactsStayOwned` | `RequestsAreSerial`, `ContactsAreOwned` |
| | `SettingsStayKept`, `AdministrationStaysWhole` | `SettingsAreKept`, `AdministrationIsWhole` |

### The arguments

Almost none of these properties is inductive by itself; what each invariant adds says
what a handler may still rely on after an await.

*Withdrawals.* `ReleasedIsNeverPaid`, say, depends on nobody releasing an operation that
another run is about to send. `IInv` adds `OpInv` (the possible sets of journals, and
what a status, a reference or an inbox row says about the transfer), `ProcInv` (between
claim and POST the operation is only reserved and nothing was sent; a final state that was
read is still the state, so a stale snapshot is never a wrong one) and `OneClaimant`. The
refinement maps the journals of an operation to `money` and the transfer to `bank`; each
action keeps the mapping, or takes the step of `Payout` that `IInv` shows to be enabled.

*Card money.* `CardInv` joins all six properties with `RowsInv`. They need each other:
the budget holds because an authorization counts what is on hold, and a hold is what its
row leaves of the amount (`HoldFollowsAuthorization`); a retired card stays empty because
no hold is left that a late reversal could give back; a row is the sum of its journals
because a booked transaction is not booked again (`BookedOnce`) and Sudo's decline ends the
authorization. `QueueInv` types the inbox and the runs. The refinement adds `AnswerInv`,
what the recorded answer says of the row: without it an authorization that Sudo never
heard of could not be told from one that is done. Each booking transaction either idles
or books one capture, reversal, refund or decline (`CaptureBooks` and its like), and
`ShownOf` says what of that `Envelope` sees; the limits that `Capture` and `Reserve` ask
for are those that `CardInv` keeps.

*Card lifecycle.* Until some run outlasts its claim, a run that claimed an operation finds it
PROCESSING until it leaves it and is the only one on it (`Exclusive`); the lease names the
operation of the run that writes to Sudo (`LeaseInv`), so that two writers would be two runs
on one operation. The rest of `IInv` does without that: whoever is about to create the card
at Sudo is alone and finds none there (`SudoInv`), since only the step from QUEUED leads
to it; `IssueInv` and `CardInv` say what the one issuance has reserved and booked; a final
retirement means that nothing is held. So a RESUME is not finished on a retired card and a
retirement leaves nothing on it, however many runs work on it at once.

*Deposits.* A row of a transfer that was credited is one that the bank completed; between
claim and POST of a sweep nothing was sent and one run executes it; what a run read of a
transfer that ended is still true (`TransferInv`, `JobInv`, `ExecutesAlone`). The refinement maps
the SWEEP's status to what is told (`Told`) and its transfer to `Moved`, where a second
transfer would be no state of `Payin`.

*Setup, billing, merchants.* The claim of a kind (PROCESSING) is held by one request, and
nothing exists before its POST. A month that is paid is followed by an expiry one month
later, so that whoever settles next in that month finds Premium live. What a command has
share-locked is not changed before it commits.

*Commands, ledger, rules.* A proof that an operation has is consumed, so never fresh for
another. The purse, the holds and the cards of all keys add up to the balance at the
start: an ISSUE that is in hand has not funded its card, and only an ISSUE, a RETIRE or a WITHDRAW
waits as PENDING (`PurseInv`). A second command is let through on a card only when none is in
hand; what is PENDING then is a RETIRE, whose card is marked and takes only RETIRE and
CANCEL, or an ISSUE, which no longer acts on it (`ActionInv`). A transaction of the ledger holds its rows on top of what is committed
(`RowsInv`) and its reference is nobody else's while it posts (`ReferencesInv`). So a
commit writes, for each of its accounts, what is committed plus its own line
(`CommitWrites`): a whole posting of `AtomicLedger`, and every other statement shows
nothing. The
boundaries that were announced are at most what is settled, each met by one capture, and those
of the present budget are all between what was settled when the rules changed and now, unless a
capture went by an older card (`RulesInv`).

*Lists.* What a page copied fits what was asked for, whatever happens to the row afterwards
(`PageInv`), and a card without uses left is marked (`RowInv`). The rest are two lemmas by
cases: a badge's condition selects the rows rendered with that badge, and list, badge and
availability tell the same of a row. The
proof found an arm of the availability of a card that overlapped another in the model; it
follows the order of the source now.

*Around the user.* Who is between claiming an invitation and giving it back is alone. A
refresh that started for a revoked session has not passed its check, where it will be
refused (`AttemptInv`). Hits that passed map one to one to the counts they were
answered, which are at most the limit. Whoever looked for a live request holds the
profile's lock (`HelpdeskInv`); an address about to be copied to a profile was confirmed
by its owner, and a request that is about to mark a number as verified was sent some code
back (`ContactInv`); what was read under the row lock is still there when it is written,
so that the stored preferences are those of one patch, and audit row, alert and push come in that order (`SettingsInv`); a broadcast under way
has no copies and one that committed went to everybody (`AdministrationInv`).

The modules have one lemma per action, or per group of actions with the same effect: an
operator (`Moves`, `Emptied`, `RowsGo`, ...) says what the step does to each part of the
state, and one lemma per part of the invariant starts from there. The temporal steps are
one PTL leaf each. Sums of amounts over sets of operations, holds or entries are sizes of
disjoint unions (`Sums`), so that they follow from the library's facts about cardinality
instead of an induction; `MCCardAuthorizations` has TLC compare them with the community
modules' fold (`SumsAreFolds`).

### What they assume

Only the ASSUMEs of the modules, which TLC evaluates in the runs: natural amounts, fees and
bounds; finite sets where something is counted or summed (`Ops`, `Auths`, `Txns`,
`Transfers`, `Keys`, the billing orders, `Purchases`, `Members`); some webhook kind and some
transfer, which pick the idle job; deposits above the bank's fees; one TOTP period, one
rate window and one passcode attempt at least; a registration of every user under an
address of its own, as the unique index demands; commands that passed the controller's
validation; account keys without repetition; provider transactions that name an
authorization, and authorizations of no amount that are verifications; and that the
grid's registry passes the check that `CrudService` makes when the process starts. What
providers are relied on for is
in the modules' actions, marked external in section 2.

### Only model-checked

- Liveness: `OutcomeIsBooked`, `ReservationEnds`, `RetirementEnds`, `RevivalIsUndone`. The
  prover handles neither fairness nor ENABLED.
- The properties of the violation runs, which the code does not have.
- The type invariants of `Merchants`, `Commands`, `CardRules`, `Onboarding`, `Throttling`,
  `Conversations`, `Waitlist`, `Helpdesk`, `Contact`, `Settings` and `Administration`; they
  hold in the runs' instances. The invariants proved for these modules type what their
  arguments need and leave the rest out.


## 5. Not modelled

- Decimal arithmetic and formatting: amounts are small integers.
- Database failures inside a transaction other than those the code causes; a
  transaction is all or nothing (`Ledger` has the rollbacks).
- Requests that fail validation before they reach any state; controllers, DTOs,
  guards and configuration.
- Provider payloads that do not match the operation they are fetched for; the
  handlers refuse them before any write. The token cache of Safe Haven.
- The bounded batches of a tick.
- Parsing of rule documents, categories and time windows of `card-policy.ts`.
- E-mail sign-in codes, which share the codes of registration; the guard that reads
  access tokens; the providers' own password checks.
- `CacheService.getOrSet`: nothing in the repository calls it.
- Plain reads: histories, statistics and dashboards, wallet and transaction views,
  installation and capability reports; columns of the deletion request's legacy
  balances.
- Mail templates and delivery, object storage and signed URLs, contact messages,
  health checks.

Each component's status and reason is in `PROJECT.json`.

## 6. What is left

In the order in which it would pay off:

1. Proofs: the type invariants that section 4 lists as only model-checked.
2. The bounded lists of a tick, and what starves behind rows that never succeed.
3. `CardPolicy` as pure operators against a reference: time windows, categories.
4. E-mail sign-in codes in `Signin`, the cached token of the provider clients.
