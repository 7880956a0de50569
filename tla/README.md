# Verification of the loyalty platform

TLA+ models of the backend under `src/backend/src` and of its four clients under
`src/clients`, TLC runs that check them on small instances, and proofs that TLAPS
checks for every instance. Paths below are relative to `src/backend/src` unless
they start with `src/`.

## The system

The backend is a NestJS API over MongoDB. Merchants (tenants) issue points or
stamps to customers by scanning a QR code, and customers redeem rewards. Merchants
and the platform's administrators use two web dashboards; customers a web
application or one for the phone.

| Part | State it keeps | Operations | Interacts with |
|---|---|---|---|
| Transactions (`transactions/`) | `transactions`, `redemptions` | issuePoints, redeemPoints | ledger, outbox, rewards, customers |
| Ledger (`ledger/`) | `loyalty_ledger_entries` | appendEntry, getBalance, history | called by transactions, customers, operator tools |
| Outbox (`outbox/`) | `outbox_events` | writeEvent; a dispatcher polls every 5 s and publishes to NATS | transactions, NATS |
| Read models (`readmodels/`) | `customer_balances`, `transaction_summaries` | two NATS consumers | outbox, pilot metrics |
| Scan (`scan/`, `common/qr-payload.ts`) | `used_qr_tokens`, `scan_events` | apply (CHECKIN, PURCHASE, REDEEM), simulate | transactions, customers |
| Customers (`customers/`) | `customers`, `customer_merchant_accounts` | adjustBalance, memberships, account deletion, cards and lists | ledger |
| Operator tools (`operator-tools/`) | the collections above | manualAdjustment, reverseTransaction, enable and disable, the platform's pages | ledger, users |
| Rewards, rulesets | `rewards`, `rulesets` | create, update, delete | read by transactions |
| Auth, users (`auth/`, `users/`) | passwords, one-time codes and reset links in `users` | login, codes, reset, refresh, registration, staff | e-mail |
| Onboarding, merchant | `tenants.config`, `locations`, the funnel | sign-up, programme, invitations, settings, late geocoding answers | e-mail, geocoding |
| Analytics, pilot metrics | counters, milestones | dashboards, weekly report, track... | called by most of the above |
| Clients (`src/clients/`) | tokens in storage, a query cache, the state of pages | sign-in, renewals, lists, edits, the wizard, the customer's code | the API |
| Rate limiter, fraud, audit, devices | a counter in memory, logs | check, log | scan and redeem routes |

What is hard in it:

- **Interleaving.** Each request is an async function; every `await` on MongoDB
  lets other requests run. Checks and the writes they guard are far apart. In the
  clients every await lets the person, a timer or another answer in.
- **Two variants of every write.** With a replica set the writes of a request
  share a session; without one, or once a `hello` command has thrown, each
  save stands alone and nothing is rolled back.
- **Writes one after the other.** Registration, sign-up, deletion, reversal and
  configuration write several documents without a session and may stop half way.
- **Retries.** Clients resend with the same Idempotency-Key, while the first
  attempt runs, after it failed half way, or after a commit whose answer was lost.
- **Crashes.** A process may stop between any two steps; its cached answer about
  transaction support is lost with it.
- **Delivery.** Events go through a polled outbox and core NATS to two consumers.
- **Copies.** Configs are read and written back whole; dashboards keep rows they
  changed themselves; cards and reports compute one number from two collections.
- **Time.** Codes rotate, links and tokens expire, geocoding answers when it
  likes, days end while sessions are open.

What makes each part correct: a posting is atomic, happens once per key and is
there when its client is told; a debit never overdraws (transactions, ledger);
every event written is published and counted, and read models follow (outbox, read
models); a code is used once, and a scan can be repeated (scan); whatever wrote in
the books, statements, cards and reports tell the same story (customers, operator
tools, analytics); secrets admit once, and only those who are enabled (auth); a
merchant is where its address says, its invitations and its programme are those it
made (onboarding); a client shows who is signed in, what the server has, and what
was asked for. `PROJECT.json` lists the hazards line by line.

## Modules

| Module | What it is |
|---|---|
| `LoyaltyLedger` | the transaction core: issue, redeem, adjust, append, outbox write, the scan's stamp mark |
| `LedgerPromise` | the abstract specification: postings that take effect at one instant, once per key |
| `EventDelivery` | outbox dispatcher, core NATS, the consumers, their read models and counters |
| `LoyaltyLedgerProofs` | the inductive invariant of `LoyaltyLedger` and what follows in every deployment; what holds where every `hello` finds a replica set, and that the handlers implement `LedgerPromise` there; its balances; then the inductive invariants of `EventDelivery`, of the dispatcher and of the consumers' counts, which share no name with the ledger |
| `ScanPipeline`, `ScanPipelineProofs` | scans of QR codes: single use, throttle, enrolment, retries; posts through `LedgerPromise`; its inductive invariant |
| `AccountBooks`, `AccountBooksProofs` | everybody who writes in a customer's books: scans, both adjustments, simulated scans, reversals, membership switches, deletion, beside a reader of the history; its inductive invariant, with what positions and balances need beyond it |
| `Reports` | extends `AccountBooks` with what cards, lists, dashboards and reports show of the books; its theorems are in `AccountBooksProofs` |
| `Identity`, `IdentityProofs` | users, passwords, codes, links, tokens, registration, staff and their guards; its inductive invariant |
| `TenantSettings`, `TenantSettingsProofs` | sign-up, address and geocoding, programme, rewards, invitations, milestones; its inductive invariant |
| `ClientSession` | tokens, renewals, start-up, sign-in and sign-out of the four clients |
| `Desk` | edits on the pages of the two dashboards: query cache, optimistic changes, dialogs |
| `Listings` | lists, filters and pages of all clients |
| `PagesProofs` | the inductive invariants of `Desk`, of the rows `Listings` shows and of the history it loads page after page; it extends both, which have no name in common |
| `FrontDoor` | the pages before a person is in: forms, codes, links, the wizard; extends `HomeCode` |
| `HomeCode` | the customer's code on the Home page against the clock of its rotations |
| `FrontDoorProofs` | the inductive invariants of `FrontDoor`, `HomeCode` and `ClientSession`; it extends the three, in whose front one stands before a session begins and which share no name |
| `Sums` | laws of sums over finite sets, and of the amounts of ledger entries |
| `MC...` | one module for each run or pair of runs: the instance TLC checks |

How they compose. `ScanPipeline` takes the actions `Post` and `Tell` of
`LedgerPromise`, and `KeepsPromise` shows that the handlers of `LoyaltyLedger` keep
that promise on a replica set. `Reports` extends `AccountBooks`, whose postings are
those of `LoyaltyLedger` with a session, seen from the books: one step reads,
one commits. `LoyaltyLedger` and `EventDelivery` meet in `outbox_events`:
`LoyaltyLedger` writes an event with its posting, and `EventDelivery` starts from a
feed of such events, any of which may become visible next. The dispatcher writes no
other collection, and no handler reads the fields it writes, so the two are checked
apart. `FrontDoor` and `HomeCode` run in one specification, the second once the
pages of the first have led a customer home. The client modules see the API as an
answer, a refusal or silence; what the API does is in the modules above.

### The runs

| Run | Instance | Shows |
|---|---|---|
| `ledger_points` | 4 requests: an issue of 2, two redemptions of 2 with keys of their own, a debit of 1; replica set | atomic, once per key, posted when answered, no overdraft without a race; implements `LedgerPromise` |
| `ledger_mixed` | 3 requests, all intents (stamps, refused requests), `hello` may throw or promise too much | the order of saves while both variants overlap |
| `events_faults` | 2 events, 1 poll, 1 consumer, every fault | nothing is marked published that was not sent |
| `events_fair` | 2 events, 2 overlapping polls, updates to PUBLISHED may fail every time; fairness | every event is published or given up, and not early; what is published gets its summary; activity is complete at rest |
| `scan_codes` | 3 requests, 1 customer, 2 codes, 2 merchants, clock up to 2 | single use, throttle, retries, answers that are recorded |
| `books_requests` | four plans: 3 requests of 10 intents, 3 scans of one book, a reader with 3 writers, 3 requests by place; 2 merchants, 2 customers, 2 stamp rewards, days of 2 ticks and weeks of 2 days, a list of the busiest with one place | books, lists, cards, totals and reports agree |
| `identity` | 3 requests of 15 intents, the owner of a merchant and a customer with a code, one free address, one attempt | admissions are due, guesses limited, registrations whole |
| `settings` | 3 requests of 16 intents, a merchant with one stamp reward, 2 addresses | map, invitations, programme and milestones |
| `session` | 4 tasks on each of the 4 clients, two accounts of which one may use a dashboard | out means out, in means in |
| `desk` | 3 requests on each of 9 pages, 2 rows in 2 versions | the page ends with the server's rows; buttons change what they were opened for |
| `listings` | 11 screens, 4 entries of 2 kinds, pages of 2, 3 requests | rows are those asked for, pages exist, nothing is skipped |
| `frontdoor` | 4 clients, 2 requests, 2 addresses, 2 programmes; a rotation of 4 ticks, clock up to 9, timers and answers up to 2 ticks late, 2 fetches | what pages claim is so; the code shown works |

Request and task names are used once, so their number bounds retries and
concurrency together; three hold an operation, its retry or rival, and one change
of the world around them. Names are interchangeable, and the runs that check no
liveness use symmetry (other sets are added where nothing distinguishes their
members). `CHECK_DEADLOCK FALSE` everywhere, because the requests, events or ticks
of an instance run out. Fairness is assumed in `events_fair` only.

Type invariants are not repeated in the runs: each is a part of the inductive invariant
that the proofs establish; `Reports` has no variables of its own. History variables, marked as such where they
are declared, record what a property needs of the past; where a guard reads one it
stands for something the person sees. The properties use them to name exactly the
races the code leaves open.

### LoyaltyLedger

Its state is the collections (`transactions`, `ledger`, `redemptions`,
`outbox`, as sets of documents), the set `stamped` of transactions whose
metadata says `stampIssued`, the reward documents, the customers, the cached
`transactionsSupportedCache` (`txnSupport`), and for each request its label
`pc` and locals. A request is one HTTP call. It may start with any intent,
one that another request has already: that is a retry.

| Label | Code |
|---|---|
| lookup | issuePoints up to line 138, redeemPoints up to 307, adjustBalance up to the debit check |
| reward, stamps, points, balance | redeemPoints 309-354: one read of the reward, then the pre-flight check; a points reward reads stamps and balance one after the other |
| mode, hello | supportsTransactions: the cache, or a `hello` command |
| recheck, recheckPlain | redeemPoints 370-378 and 471-478; `getBalance` takes no session |
| open, commit | the writes of the session: keys are claimed and the snapshot is read at the first save, all is published by `commitTransaction` |
| saveRedemption, saveTransaction, append, insert, event | the saves of the variants without a session and of adjustBalance, each visible at once |
| track | fraud tracking and milestone, after the commit |
| FallBack | a save of the session fails because the server knows no transactions: the handler aborts, caches "no" and starts over without a session (213-228, 445-460) |
| mark | the scan pipeline overwrites the metadata of the transaction it was answered with |

`Fail` is any database call that throws, or an answer lost on the way: it is
possible at every label, and what was saved stays. `Restart` kills every request
in flight and the cache.

Abstractions, each with its reason:

- One tenant: every query of these handlers filters by tenantId.
- The ids of a request's documents are the request's name (they are fresh uuids,
  and a request writes at most one document per collection).
- A redemption's transaction uses the key `K-tx`. Keys of transactions are pairs
  `<<op, key>>` here; clients are assumed not to send keys that end in `-tx`.
- Writes of a session become visible at the commit. Two sessions conflict only
  on a unique key; nothing else is written by two sessions.
- A save without a session of a key that an open session has claimed waits for it.
- The duplicate-entry branch of appendEntry and its 11000 handler are not
  reachable: the transaction's unique key is saved before the entry.
- computeStampCount is two aggregations, taken as one read.
- A device that is not found, and any infrastructure error, is `Fail`.
- Amounts are small integers; the range of a payload is not limited by the code.

Bounds. Four slots hold the longest interesting story on sessions:
an issue, two redemptions that compete for it, and a retry or debit beside
them; three slots hold a request, its retry and one competitor without sessions.
The instances have one customer with an account and one without: balances
of different customers never meet in a handler. Slots are interchangeable, so
the runs use symmetry (none checks liveness). `CHECK_DEADLOCK FALSE`
because the slots run out. No fairness is assumed: all properties are safety.

Properties:

- `AllOrNothing`: transaction, entry, event and redemption exist together.
- `WritesInOrder`: what still holds without sessions: no event without its entry, no
  entry without its transaction, no debit of a reward without its redemption.
- `OneEffectPerKey`: no key moves points twice or redeems twice.
- `AnsweredIsPosted`: success means posted, for retries too.
- `OverdraftOnlyByRace`: a write takes a balance below zero only if another
  request debited the customer after this one had checked: the checks are right
  for a request that runs alone.
- `KeepsPromise`: the handlers implement `LedgerPromise`. Every step of a
  request is a posting, an answer or nothing at the abstract level.

### EventDelivery

An event is its place in `Feed`, which is the order of `createdAt`. `visible`
says which events have been committed; `status` and `retryCount` are fields of
the outbox documents. A poll slot is one run of `processOutboxEvents`: the timer
starts a run every five seconds even while the last one is still awaiting, so
slots overlap. A consumer is an API process with its two loops.

| Action | Code |
|---|---|
| OutboxWrite | `outbox.service.ts`: a posting with its event commits |
| StartDispatcher, CrashDispatcher | onModuleInit sets the timer only if NATS answers at that moment; a restart ends all polls |
| LoadBatch | the query for the oldest pending events; the copies, `retryCount` included, are used to the end of the poll |
| Publish | publish and flush; delivers to the consumers that listen now |
| MarkPublished, RecordRetry | the two updates of the event; after the second fails the poll is over |
| Subscribe, CrashConsumer | a consumer subscribes to both subjects, or to none for good if NATS is not there |
| Take, SetBalance, Summarise | a message, the balance it carries, its summary |
| FindCounter, Count | each pilot metrics document is looked for, then incremented or created |
| DropMessage | any await of a handler rejects: it is logged and the loop goes on |

Each fault is named in `Faults`, and a run enables those its question is about
(the list heads the module). The balance in an event is data of the feed, and
the payload's missing `tenantId` is matched as null, which `TenantOf` says.
The milestone a consumer may record once per tenant is left out.

Bounds. Two polls are enough for each to write back a number older than the
other's; two retries are enough for a count to be written back and for an event
to be given up. `MaxInbox` bounds the messages that wait in a subscription:
`Deliver` waits at the bound, which only delays a poll. `Bounded` stops counting
above the number of events plus one, and `failures` at `MaxRetries`: no
property tells larger numbers apart. `events_fair` has only the
fault `mark`: a rejected flush goes through the same `RecordRetry`, and to add it
makes the run four times larger. Both feeds are of issues: a redemption takes the same
steps of the other loop and counts a reward as well, and a feed with one is beyond the
time a run should take, so its steps are read, not run.

Fairness (`FairSpec`): the timer fires again and again and a poll's awaited calls
end, so each poll slot makes progress (`PollStep`); a process starts in the end; a
subscription with messages is served and a handler's awaited calls end. Nothing is
assumed of faults: they may happen for ever or never. That a counter of
failed attempts makes progress although overlapping polls write back older
numbers is what `Settles` is about: every poll that fails writes at least one more
than it read while the event was pending.

Properties: `PublishedWasSent`; `GivenUpAfterRetries`; `Settles`: every event ends
published or given up; `ReachesReadModels`: what is published gets its summary, where no
handler fails; `ActivityIsComplete`: at rest each customer's activity counts every
published issue at least once (two polls may publish it twice, and consumers check
nothing). `TypeOK` says beside types that a poll is off exactly if it has no batch and
that a loop works on an event of its own kind which was sent.

### ScanPipeline

| Label | Code of `ScanService.apply` |
|---|---|
| account, enrol, verify | find the account, insert it on a first scan, verify the code |
| lookup | a check-in looks for the event of its key first |
| claim | consumeJti: the insert into `used_qr_tokens` |
| throttle | a check-in looks for a recent check-in of the customer, with any merchant |
| post, mark | issuePoints or redeemPoints, then their answer and the metadata |
| record, audit | the scan event, the audit log, the answer |

`Fail` ends a request at any label, and stands for refused amounts and rewards
too, which come after the claim; what was written stays. `MakeCode` is
getQrToken; `ForgetClaim` is the TTL index, at any time from `expiresAt` on.
A retry has the intent of an earlier request: body and key are the same.
`Date.now()` of the throttle is read with its query; in the code it is read just
before, which makes the throttle refuse more, never less.
Processes share one clock, and membership changes only by enrolment.

A purchase and a redemption take the same steps here, so the run has a redemption.

Bounds. Three slots hold two scans that compete for a code or for the throttle
and a retry. One tick is the throttle's 60 s and one rotation of the code, so that
a clock up to 2 takes a code from its making to its expiry. Slots are
interchangeable and symmetric; deadlock is off because slots and time run out.

`UsedOnce`: of the requests that claim a code before it expires one succeeds. It
says nothing of a request that verified its code in time and stalls
until the claim of another has been deleted: such a request claims the code again.
`ThrottledUnlessRaced`: check-ins are too close only if neither saw the other.
`CheckinRetryIsAnswered`: the retry of an answered check-in is not refused as used or
throttled. `AnsweredIsRecorded`: success means the event of the key and the
posting exist, whoever wrote them.

### AccountBooks and Reports

A transaction, its entry and its request share one name. A request passes the labels
of its handler, one await each; the posting of a scan and of `manualAdjustment` is a
session (`open` reads the ledger sum, `commit` publishes all), `adjustBalance` saves
transaction and entry one after the other.

| Action | Code |
|---|---|
| Enrol, Check, Open, Commit, MarkRead, Mark | `ScanService.apply` with the posting of `TransactionsService`: account, pre-flight check, the session, the metadata |
| SimulateResolve, SimulateFind | `ScanService.simulate`: a customer by place in the list, no code, no scan event |
| FindTransaction, FindAccount, Reread, NoteReversal | `manualAdjustment` and `reverseTransaction`: an adjustment by the stored amount, then the metadata of the copy read before |
| ResolvePlace, CheckBalance, SaveTransaction, AppendRead, AppendInsert | `CustomersService.adjustBalance` |
| FindMembership, SwitchMembership | `disableCustomer`, `enableCustomer` |
| FindUser, DeleteLedger ... DeleteUser | `deleteCustomerAccount`, five deletes; redemptions stay |
| ReadPage | a customer reads the history page by page |

What a purchase gives and what a redemption costs is a matter of the request, as in the
code: `reward` is the reward whose stamps a purchase gives (`dto.stampRewardId`) or the
reward that is redeemed, and `StampRewards` those that cost stamps. Any merchant may do
both, so a purchase of stamps is points until `Mark` has written its metadata, and
`Affords`, the check before the session, lets a reward of points have them meanwhile.

`Reports` adds no state: each view is an operator over the collections, written with
the collection its query reads. `Card` is a customer's card, `CustomerList` and
`CustomerDetail` the merchant's pages, `MerchantCustomers`, `PlatformCustomerDetail`,
`PlatformDashboard` and `Forecast` the administrator's, `Dashboard` and
`TransactionList` the merchant's, `getWeeklyReport` the weekly report.

Bounds. All plans in one run is more than TLC can finish, so `Plans` names the groups of
requests that may meet in a behaviour. Three of everything: a posting, what is done about
it, and a rival. Three scans of one book: stamps, points and redemptions of both, with
both keys repeated. A reader with three adjustments, whose entries are dated before they are
saved: pages of one entry move under the reader, and the history is longer at its end than at its start. Three requests by place: a
customer enrols between the look at the list and the use of the place. A day of two
ticks and a week of two days let days and weeks end during a behaviour; the list of the
busiest merchants has room for one of two.

Properties. `StatementMatchesLedger`: transactions and entries tell the same story,
whoever wrote them and however the sign is stored. `BalanceAfterUnlessRaced`.
`NothingLeftBehind`: when the login is gone so is everything a deletion covers.
`ListsAreSteady`: a place in a list means who it meant, because those who enrol come
last, and whoever reads the history page by page gets all that was there at the start,
because entries only go deeper and the reader goes on to the number of entries the last
answer told; deletions move both.
`ReversalRecorded`. `CardsShowBalances`: points and stamps of the card, computed from
three collections, make up the balance the other screens compute from one, and a reward
the app calls redeemable passes the check of the till. Both have exceptions the code
leaves open. A card may show more, never less, once stamps were spent as points: by a
debit that is no redemption, which does not look at stamps; by a redemption that ran
beside another scan of the book (`beside`), which may find a purchase that is not marked
yet; by a scan that was asked for again, which marks again. And the app counts stamps
reward by reward where the till counts them together, so stamps redeemed for another
reward are missed by the app only.
`VolumesMatchBooks`: what was issued less what was redeemed is what is held; totals,
trend, forecast and weekly report agree, and the list of the busiest merchants, however
ties are broken, accounts for no more than the totals, for all of them when it has room
for everyone. `ClosedDaysStay`: a day that is over keeps its
row.

The type of a reward does not change here (`TenantSettings` has that). Days are those of
one clock: the server is taken to run in UTC, because the code mixes local midnights with
the UTC dates of documents.

### Identity

A request makes at most one code, link, token, customer or user, so its name is theirs.
`Lapse` is time passing for one secret. `FindUser` to `refresh` are the handlers of
`AuthService`, `CheckAddress` to `UndoCustomer` the two registrations with their
clean-up, `FindStaff` to `UpdateStaff` those of `UsersService`, `SwitchUser` and
`SwitchTenant` those of the operator. The guards read the signed payload only, and a
required `merchant:*` is met by any scope of the area, which `Grants` says.

Bounds. One attempt (`OTP_MAX_ATTEMPTS`) puts the limit between two requests that
overlap; the third switches somebody off or sends a newer code.

`AdmissionsAreDue`: a code or link that was used is not accepted from a request that
begins afterwards, and nobody who was disabled during the whole of a request gets tokens
from it. `GuessesAreLimited`: a request that begins when the wrong guesses at a code have
reached the limit compares no more. `RegistrationIsWhole`: no customer without a user
and no user without a customer, unless the clean-up was cut.

### TenantSettings

`ReadSettings`, `SaveSettings`, `SaveConfig` and `GeocodeAnswers` are `updateSettings`;
its geocoding is started before the address is stored and answers on its own. `SaveConfig`
is the whole config a body may carry, which no client sends: an address or a programme
in it is only stored, without geocoding or rulesets (`Merged`).
`CheckEmail` to `CreateAdmin` are `createMerchant`, `CheckMember` to `DropInvite` the
invitations, which are a list in the config that is read, changed and written whole,
`RetireRulesets` to `completeMerchantOnboarding` the wizard's requests, the rest the
catalogue and the redemptions that name it. Milestones are tracked at the end of the
requests that pass them, in two writes: the moment, then the times computed from the
answer. A merchant's config is cut down to the fields that more than one writer touches
(`Config`).

Bounds. Three requests: two writers that overlap and one that reads or undoes. The
run does not ask for the registration of a device, whose milestone is looked for
and passed like the purchase's.

`OnTheMapWhereItIs`: an address that is said to be resolved is where both pages show
it. `InvitesStand`: an invitation can be accepted from its answer until its acceptance,
and not again. `CatalogueStands`: the programme in force and the one the map shows are
the same, and stamps that were charged stay charged. `OnboardingIsRecorded`: the times
on the onboarding page fit the milestones beside them, and what was answered has left
its milestone. Each leaves out whom a race the code leaves open has touched
(`crossed`, `contested`, `muddled`, `retyped`, `tangled`).

### ClientSession

Four clients, one plan: a start-up question, sign-ins, sign-outs, page requests, and a
renewal when the access token is refused. They differ in where tokens are kept
(awaited on the phone, at once on the web), in whether a second copy is in a store (the
dashboards), in who cancels what, and in what a failure clears; `app` picks one.
`Crossing` and `Writing` name the overlaps after which the code may end in a mixture,
`Beside` those of a sign-out with something that may show a user. SecureStore may fail to
delete a token: the phone's sign-out and its failed renewal ignore that, and the tokens
wait for the next start, which has the gesture `kept`. Reads and writes of SecureStore
that fail are left out.

`OutMeansOut` has two parts. From a sign-out to the next start or sign-in nobody is shown,
although a renewal under way may put its tokens back and deletes may fail; only a sign-in
or a start-up question beside the sign-out (`contested`) is left out. And once all has
settled no token is left either, where no writer of tokens met the sign-out (`crossed`)
and every delete worked: the code does not do more. `InMeansIn`: who has
signed in is, on the screens, in the requests and in the cached data, the account that
signed in. It leaves out overlaps of a sign-in or sign-out with work that writes
tokens, and lost answers. The answer 401 of the sign-in route itself, the
profile and the flag of the onboarding are left out.

### Desk

`cache` is what the page has of the server's rows, `fetch` the reload under way,
`calls` the requests with the snapshot their failure puts back. `Mutate`, `Succeed` and
`Fail` are the hooks of react-query with the page's callbacks; `dialog`, `entry` and
`compressing` are the page's own state. Nine pages: the merchant's Settings, Rewards
(list, and the rate above it), Staff, Customers, Transactions and Scan, the
administrator's Merchants and MerchantDetail.

`CacheConverges`: when nothing is under way, the page has the server's rows.
`EditsHitTheirRow`: a dialog's button sends what the dialog was opened for. Left
out: lost answers of hooks that reload on success only, two toggles of one merchant,
the Transactions page, which does not reload after an adjustment; and the 200 ms in
which a closed dialog fades and still works.

### Listings

Eleven screens in three kinds: rows kept by query in a cache, a list of the page's own,
and the activity of the web application (`Activity.jsx`), loaded page after page. An entry
is its number; postings go on while answers are under way, and accounts may be deleted
(`Leave`): a list of customers loses one row, a list of transactions those of the
customer one after the other. Filters that only change what is drawn of the rows already
loaded are left out, but for the activity's, which decides whether Load More is there.

`RowsAreAsAsked`: rows are the answer to what the screen asks for now, and it asks for
what was chosen; the administrator's search and log, which cancel nothing, are left
out. `PageExists`: nobody stands on a page the list does not have, except after
accounts were deleted. `NothingSkipped`: who has loaded the history to its end has seen
what was there at the start, except when an entry is posted between the two reads of
one answer.

### FrontDoor and HomeCode

`screen` is the page, `calls` the requests with a flag for whether their page is still
there: an answer sets nothing on a page that is gone, but still navigates. A request whose
answer was lost may be served long after its page has gone on (`ServeLate`). `Links` are
the ways from page to page. `HomeCode` counts time in ticks, which wait for nobody: the
timer of a page in the background goes off late (`MaxStall`), and an answer may take longer
than `Patience`, or never come. A code is good in the rotation it was issued in and the
next, and for one scan (`Scan`: consumeJti); the page fetches at half a rotation and does
not learn of scans.

Bounds. Two requests, two addresses and two programmes are what an answer for an
older gesture needs. A clock of 9 ticks is more than two rotations of 4, so a code of the
first is seen to fail; two fetches overtake each other; two ticks of delay beyond
patience are half a rotation.

`ClaimsAreTrue`: what a page says has happened has happened. `FinishIsAsChosen`:
the wizard's last page stands for the programme chosen, unless the person went Back
while a choice was saved, or a choice whose answer was lost was saved after the next.

`ShownCodeWorks`: the code on the page is one the till takes, or one it took; and one it
took is gone a period and a delay later. The code does not do better: a scanned code stays
until the timer asks again, half a rotation later at most, 150 s for the 300 s of customers
who register, and the till refuses it meanwhile, unless the person taps Refresh, which
only the phone has. The property speaks of codes issued, and used, since the page was last
late (`missed`): since a timer had not gone off, an answer had not come in `Patience`, or a
fetch was sent that failed. It asks for room (`Roomy`): half a rotation for the page's
minimum, a quarter for an answer. The customers of the seed script have a rotation of 30 s,
and the phone asks no sooner than after 30 s: there a code may expire on the page. The web
client sets no timeout, so an answer can be as late as the network lets it.

## Where code and documents part

The models contain these; the properties above are stated around them.

- *Overdraft.* Two redemptions pass the same balance check and both commit
  (`transactions/transactions.service.ts:371`), although a comment calls the check the
  safety net (373) and `src/docs` speak of a lock. `OverdraftOnlyByRace` says when.
- *Stamps before they are stamps.* Until the scan has marked its purchase
  (`scan/scan.service.ts:180`), its stamps count as points; a crash leaves them so.
- *One failed `hello`* turns sessions off for the life of the process
  (`transactions.service.ts:74`); the README promises transactions. Without sessions
  a retry of a request that failed between transaction and entry is answered with
  success: `AnsweredIsPosted` is a property of sessions.
- *Purchase retries.* A purchase claims its code before it looks for its key
  (`scan.service.ts:157`), so the retry that an end-to-end test expects to be answered
  is refused.
- *Events.* A handler that fails once drops its message (`readmodels.consumer.ts:100`),
  although documents promise at-least-once delivery. The payload has no `tenantId`, so
  balances are kept under no tenant; two loops set them in any order.
- *Reversals* pass the stored amount without its sign (`operator-tools.service.ts:197`,
  and `Math.abs` at 104): the reversal of an operator's debit debits again, against the
  comment above it.
- *Addresses.* Clearing one removes the point, as a comment says
  (`merchant.service.ts`, updateSettings), but not the flat coordinates, which are
  still shown. A failed geocoding leaves the old coordinates and the old formatted
  address; saving the same address again does not ask again.
- *Onboarding.* Completing it records a first scan, over the real one if there was one.
  Two overlapping sign-ups of one address both pass.
- *Volumes.* The merchant's dashboard adds redemptions up as they are stored, so a
  scan's (negative) and an operator's (positive) cancel. The weekly number of active
  customers is that of the best day, so the repeat rate can exceed 1.
- *Deletion* leaves the redemptions of the customer.
- *Refresh* does not ask whether the tenant is active; access tokens outlive a
  disabled user until they expire.
- *Sessions.* A renewal under way at sign-out puts tokens back; a failed renewal clears
  tokens, and nobody sets the user to null. A delete that fails is ignored, so a sign-out
  may leave the tokens for the next start.
- *Codes.* A scanned code stays on the Home page until the next fetch, and is refused.
- *Cards.* The app offers a stamp reward by the stamps given for it; the till counts all
  stamps together, so it may take what the app does not offer, and refuse what it does.
- *Pages.* Back is alive while the wizard saves; the forgot-password pages show the
  address now in the field, not the one sent; a lost answer of a sign-up, a reset or an
  acceptance makes its retry fail although it is done.

## Proofs

TLC checks instances; the theorems hold for every value of the constants that meets the
named assumptions of the module a theorem is about, and nothing else is assumed unless
it is said here. Each module has one inductive invariant (two where two parts do not
touch), shown by `InitInv` or its like, one lemma for each action or group of actions, and
an invariance theorem; every property follows from it. The invariants were checked with
TLC on the instances of the runs before they were proved.

| Theorem | Property | Holds for |
|---|---|---|
| `TypeCorrect`, `SavesInOrder`, `OneEffect` | types, `WritesInOrder`, `OneEffectPerKey` | any deployment |
| `NoDebitAloneOverdraws` | `OverdraftOnlyByRace` | any deployment, requests, amounts |
| `Atomicity`, `Answered`, `Promised` | `AllOrNothing`, `AnsweredIsPosted`, `KeepsPromise` | replica sets whose `hello` does not fail |
| `PublishedIsSent`, `NeverGivenUpEarly`, `DispatcherTypeCorrect` | `PublishedWasSent`, `GivenUpAfterRetries`, types | any feed, polls, faults |
| `ActivityCounted` | `ActivityIsComplete` | consumers that are there in time, stay, and do not fail |
| `SingleUse`, `ThrottleHolds`, `CheckinRetries`, `Recorded` | `UsedOnce`, `ThrottledUnlessRaced`, `CheckinRetryIsAnswered`, `AnsweredIsRecorded` | any scans, codes, windows |
| `Admissions`, `Guesses`, `Registration` | `AdmissionsAreDue`, `GuessesAreLimited`, `RegistrationIsWhole` | any users, requests, limit on attempts |
| `Invites`, `Catalogue`, `Onboarding`, `OnTheMap` | `InvitesStand`, `CatalogueStands`, `OnboardingIsRecorded`, `OnTheMapWhereItIs` | any requests and bodies |
| `Statement`, `NothingLeft`, `ReversalNoted`, `Steady` | `StatementMatchesLedger`, `NothingLeftBehind`, `ReversalRecorded`, `ListsAreSteady` | any merchants, customers, requests |
| `BalanceAfterHolds`, `DaysStay` | `BalanceAfterUnlessRaced`, `ClosedDaysStay` | any merchants, customers, requests, length of a day |
| `CardsAgree` | `CardsShowBalances` | finitely many merchants; any customers, requests, rewards of stamps and points |
| `VolumesAgree` | `VolumesMatchBooks` | finitely many merchants, any room in the list of the busiest; any customers, requests, days, weeks |
| `Claims`, `AsChosen`, `CodeWorks` | `ClaimsAreTrue`, `FinishIsAsChosen`, `ShownCodeWorks` | any clients, requests, rotations |
| `SessionsAreTyped`, `OutIsOut`, `InIsIn` | types, `OutMeansOut`, `InMeansIn` | any tasks, accounts and roles, the four clients |
| `PagesConverge`, `EditsAreMeant` | `CacheConverges`, `EditsHitTheirRow` | any requests and rows |
| `RowsAnswerTheQuery`, `PagesExist`, `HistoryIsWhole` | `RowsAreAsAsked`, `PageExists`, `NothingSkipped` | any screens, requests, size of a page, number of entries |

### The ledger

`IInv` of `LoyaltyLedgerProofs` strengthens the properties with: documents say what their
request says (`DocumentsMatch`), a request has no document before the label that saves it
(`NothingEarly`) and has one after it (`NothingSkipped`), unique indexes hold
(`KeysUnique`), and the keys of an open session stay free until it commits
(`ClaimsHold`) - the last is what makes a commit safe beside saves without a
session, and is why those saves wait.

Its second half assumes `Sessions` (`ReplicaSet /\ ~HelloFails`) and adds `SessionInv`: no
issue or redemption ever takes the variant without a session, and a request at
`track` or later has its entry. With `HelloFails` the assumption fails, and so do its
theorems: a cached failure takes the sessions away. `Promised` is the refinement. The
mapping reads the abstract postings off the ledger entries and the answers off `pc`, so a
commit is `Post`, the insert of an adjustment `Adjust`, an answer `Tell`, and every other step,
`Fail` and `Restart` included, is a stutter; that `Post` finds its key free is
`ClaimsHold` and `KeysUnique`, that `Tell` finds its key posted is `SessionInv`.

`NoDebitAloneOverdraws` needs sums. `Sums` shows that what `MapThenSumSet` computes is the
only function of sets that grows by an element's amount when it is added; induction over
subsets of a finite set is an appeal to its smallest counterexample, as a theorem of
the library that takes sets only allows. The invariant `DebitsChecked` then says that a
request past its last check either adds points or has seen a balance that covers its debit.

### Events

`DispatchInv` adds `CountsAreEarned` to the properties: retry counts, stored or in a poll's
memory, are at most the failed attempts, and less while a failure waits to be written.
The feed is a sequence and the limits are positive.

`ActivityCounted` assumes `Reliable` (consumers subscribe before the first poll, do not
stop, and no handler throws) and that there is a consumer: the code has no answer to these
faults, as the section above says. `Tallied` compares the size of the set of events that a
consumer has counted with the counter, which several consumers increment: a counter is at
least as large as any of these sets. What breaks it in careless code is the first count,
which reads, finds nothing and creates: a consumer that has found nothing has counted
nothing yet, so the document created with 1 loses nothing of its own.

### Scans

`ScanInv` adds: a claim lasts until its code expires (`ClaimsLast`), an event says what its
request says and is the last thing a request writes (`EventsMatch`), a check-in about to be
saved saw old check-ins only (`LooksAreOld`), and a request that repeats an answered one
finds its event (`RetriesFindTheirEvent`). Lemma `MoveKeeps` covers all steps that
only move a request. Assumed: a key belongs to one intent (clients generate a fresh
uuid for each).

### Identity

`IdentityInv` says of every secret that one user at most has it, that a request which has
looked its holder up still means that user, and that it is gone once used (`SecretsHold`);
of every guess that the counter of its code includes it, which compares the size of a set
with a counter that `$inc` increments (`GuessesHold`); of accounts that they are made by requests
on their way, in that order, so that a failure can undo them (`AccountsHold`); of
whoever is barred that they are inactive, and that what a request read before it is not
whom it admits (`BarsHold`). Assumed of the users at the start: ids are unique, codes and
links belong to one user each, and customers and staff have their tenants.

### Settings

`SettingsInv` has one part for each thing a merchant configures, and each compares the
document with the copies that requests hold to write back: `ListsHold` (an uncontested
invitation is in the list and in every copy of it until it is taken), `ProgrammeHolds` (one
ruleset in force, except while a lone configuration replaces it), `CatalogueHolds`,
`MilestonesHold` (the times are those between the milestones, and a copy that will
be written back is what is stored), `MapHolds` (one lookup or one save at most is about to
change the place, and it is for the address stored). The histories `contested`, `muddled`,
`retyped`, `tangled` and `crossed` name the overlaps the code leaves open; the
invariants say that nothing goes wrong without one.

### Books

`BooksInv`: documents and copies say what their request says (`RowsFit`); transactions and
entries stand together, but for an adjustment between its two saves (`BooksMatch`); what a
deletion has passed is empty and no writer is under way for the customer
(`DeletionsClear`); and a reversal noted stays noted, because the two writers of a
metadata field, the scan's mark and the reversal, read it in an order that can be told
from their copies (`NotesHold`).

`SteadyInv` rests on it for what is read by position: accounts are dated one by one
(`AccountsDated`), so no two are at one place and a new one comes last; the account staff
saw is at its place still (`PlacesHold`), which the switch of a membership keeps through a
bijection between the lists; and an entry only goes deeper, so whatever the pages read so
far have not shown is deeper than they reach (`PagesHold`).

`BalancesInv` is about `balanceAfter`. Requests that have read a book and not yet appended
to it know each other as rivals (`RivalsKnown`); one without a rival has read a balance that
is the book's still, and every entry of it is older than its own will be (`AloneSees`); so
the sum of the entries up to an appended one is what it names, and stays so, because
whoever appends later is dated later or was a rival (`AfterHolds`).

`DaysStay` needs only that the set of transactions is finite: new metadata is put on
documents one to one and changes nothing a row is made of (`MetadataOnly`, `SameRowOf`), and a
new transaction is dated today or when its session began (`DatedToday`).

`CardsInv` is behind `CardsAgree`, where a card, computed from transactions, their metadata
and redemptions, meets a balance computed from entries. A redemption has its entry, which
debits what it says (`RedemptionsFit`); stamps are given by scans only, whose transactions
have entries (`StampsFit`); whoever has entries has an account, so the home screen leaves
nobody out (`Enrolled`). The heart is what a book may hold: its entries fall apart into
those that are, or are about to be, stamps and the rest (`Free`), and unless somebody
debited it otherwise or redeemed beside another scan, neither part is overdrawn (`Sound`).
A redemption that runs alone was checked against the part it takes from, which is there
until it commits (`Approved`), because whoever could take from it meanwhile would be beside
it (`BesideKnown`). A purchase that is not marked yet counts with the stamps to come, which
is what a second scan that asks in between gets wrong, and why `beside` is in the property.
The sums over merchants follow from the laws in `Sums` of sums by parts.

`VolumesInv` is behind `VolumesAgree`: a customer has one account at a merchant
(`OneAccount`), what is issued is stored as it is, and no transaction is of a day to come
(`RowsAre`). Entries at a merchant and its transactions correspond one to one and move the
same points (`EntriesAreRows`); the entries fall apart by account, which is what the
customers hold (`HeldAre`); the transactions fall apart into points issued, stamps issued
and redemptions (`VolumesAddUp`), by merchant for the platform's totals, by day for trend and
report (`TrendCounts`, `WeekCounts`), and every one has a row on one of the pages
(`PagesAre`). That the forecast is bounded is arithmetic (`ProjectionBounded`). A
list of the busiest is some of the merchants, whose sum is part of the sum over all.
That nobody is a member
twice at the start (`MembersAssumption`) is the unique index of the collection, at
`CustomerMerchantAccount.schema.ts:26`.

### Pages and codes

An answer comes late, to a page that may have changed: `DoorInv` says of each request
under way who asks (`AskerFits`), what its answer says of the server (`AnswerFits`), and
for the wizard that page, choice and request agree unless the person went back or
a lost choice came late (`SavingFits`); `FlagsFit` is why a form of the dashboards has one request at a time.

`HomeInv` is arithmetic over any rotation. While the page is not late, every timer and
every answer under way is within its time (`Noticed`, `Sent`). The code shown will be
replaced by the timer no later than `Reach` after its issue, or by a fetch sent between the
two, and a used one likewise within `Span` of its use (`AtHand`); whatever makes the page
late moves `missed` past both. `Reach` is the page's period plus the delay of an answer,
and `Roomy` puts it and another delay within one rotation, for which a code is good at
the least (`WorksARotation`).

### Sessions

What makes `OutMeansOut` and `InMeansIn` hard is that every token may be renewed, wiped or
read by a task that began under somebody else. `SessionInv` therefore follows tokens, not
pages. A renewed token remembers whose renewal it is: `TokensFit` says that it exists only
if that task has spent its one renewal, and `RefusedBefore` that whoever has renewed has seen
another token refused, so a request that is refused again has met two dead tokens, which is
what `trouble` counts. `RenewalFits` ties the phone's shared renewal to a request that waits
for it. `StartsAlone` says that the start-up question is asked while nobody is on the
screens, and is asked again by the merchant's page only; `Uncrossed` that a sign-in or a
sign-out has the device to itself unless a crossing is on record.

With these, `Out` says what may be under way after a sign-out (requests whose answers write
neither token nor user), `Arriving` how far a sign-in has got - each place of its task says
which of the tokens are its own - and `In` whom the tokens, the user, the renewal and every
answer to come belong to afterwards. `Forgotten` is the phone's cache: between a sign-out
and the next sign-in it is empty and every page's request under way has been cancelled,
which is why no answer of the last account fills the next one's pages.

That nobody is shown after a sign-out holds where `Out` does not, so it has an invariant of
its own: `Nobody` says that no sign-in is under way, that a start-up question has been
cancelled or has yet to look for a token, and that none is about to be found. A renewal that
meets the sign-out may store tokens, and no step before the next start turns them into a
user.

### Edits

`DeskInv` says of every key of the cache that its rows are the server's, or will be read
again, or that a request under way disturbs them: an optimistic one until its reload, any
other from the server's commit to its callback (`Reloaded`). An answer that overtakes another is why
a key is read again although it looked settled. On the administrator's pages the
rows are not read again after every change; there the server is one toggle ahead of the page exactly while one
is done and unanswered (`InTurn`). A dialog edits the row it was opened for, whatever
has become of the list behind it (`AsOpened`), so that what a button sends is what was
meant (`CallsFit`).

### Lists

`ListsInv` says of answers kept by query that they are to the query that is their key, and
that their total is one the list still has (`KeptAnswers`, for which a list may only
grow: until an account is deleted), and of a page with a list of its own that every request whose answer it would
accept is for what it asks now, or the answer is there (`OwnLists`). So `NextPage`, whose
button looks at the total of an older answer, still turns to a page that exists.

`ActivityInv` is about pages of a list that grows at the front: with n entries posted,
`Covers(list, f, n)` says that pages in `list` have those of the first f entries that
they have room for. A posting lowers what has to be covered (`CoversStill`), the next page read
adds to it, wherever its entries have moved (`CoversMore`), and when the server says
there is no next page there is room for all (`LastPage`), if it counted no fewer than
it read.

### What is only model-checked

Liveness (`Settles`, `ReachesReadModels`), which is out of the prover's reach. Every safety
property the runs check is stated by a theorem.

No module declares a RECURSIVE operator.

## Not modelled

- Seeding (it runs before the system is used; a second run wipes the seeded tenant's
  books, although `scripts/seed.ts:5` calls it idempotent), configuration, start-up.
- The rate limiter: a synchronous counter in one process. It runs before the guards,
  so it counts by device or address, not by user.
- Fraud signals, audit and devices: logs nothing reads back to decide. That their calls
  fail after a commit is `Fail` of their callers.
- The phone's activity screen (`ActivityScreen.tsx`): it reads `items` and `hasMore`, which
  the backend does not answer, so it shows nothing there is a property about.
- The expiry of an invitation after seven days (`onboarding.service.ts:69`): `InvitesStand`
  is about the time before it.
- Branches after the first, and coordinates typed in by hand (deprecated).
- Views of single collections: popular rewards, hours of the day, insight cards, the log
  viewer. The daily metrics of the weekly report are a parameter of `getWeeklyReport`;
  the runs give it none.
- The wording of mails and pages, layout, exports, and dialogs no button opens.
