# Poulix platform: models and proofs

TLA+ modules about the Poulix platform: its money (wallets, envelopes, goals,
spending limits, deposits through ZarinPal, scheduled payments), who may use it
(accounts, sessions, the lockout), what surrounds a payment (the throttle of
failed operations, notifications, remembered destinations), and the frontend
that asks for all that (cooldowns, the session across tabs, pages, forms,
lists). The backend (`src/backend`, NestJS with Prisma on PostgreSQL) keeps
everything in database rows; what is hard about it is what concurrent requests,
aborted transactions, an unreliable gateway and overlapping timer runs do to
those rows. What is hard about the frontend (`src/frontend`, Next.js) is that
answers are late, lost, refused or overtaken. The modules model the services
statement by statement, TLC checks them on small instances, and TLAPS proves
the most important properties for every instance.

## Inventory of the system

| Component | State | Operations | Modelled in |
|---|---|---|---|
| PostgreSQL (external) | row locks, committed rows | UPDATE, SELECT FOR UPDATE, COMMIT, ROLLBACK, deadlock detection | `RowLocks` |
| Transactions, `transactions.service.ts` | `Wallet.balance`, `Envelope.allocatedAmount`, Transaction rows | withdraw, transferToUser, transferInTx, deposit | `Ledger`, `Transactions` |
| Spending limits, `spending-limits.service.ts` | `UserSpendingLimit`, usage summed over Transaction rows | assertWithinLimitsInTx, updateLimit | `Transactions` |
| Envelopes, `envelopes.service.ts` | `Envelope.status`, `allocatedAmount` | create, allocate, release, cancel | `Envelopes` |
| Goals, `goals.service.ts` | `Goal.status`, `savedAmount`, `targetAmount` | create, contribute, release, cancel | `Goals` |
| Payments, `payments.service.ts` with the ZarinPal client | `Payment.status`, `authority` | createDeposit, handleCallback, settleVerifiedPayment | `Deposits` |
| Scheduled payments and their timer | `ScheduledPayment`, `ScheduledPaymentExecution` | create, pause, resume, cancel, processDuePayments, computeNextExecutionAt | `Scheduled`, `Calendar` |
| Security service, `security.service.ts` | `SecurityEvent`, `UserSession` | recordSuccessfulLogin, revokeSession, revokeSessionEnvironment, touchSession | `Access` |
| its throttle | failed operations of the last hour | assertOperationAllowed, recordFailedOperation, assertNotAbusive | `Operations` |
| Authentication, `auth.service.ts`, `jwt.strategy.ts` | `User`, `UserSession`, token | register, login, logout, validate | `Access` |
| Login lockout, `login-lockout.service.ts` | two Redis keys per user, or a map in memory | assertNotLocked, recordFailure, recordSuccess | `Access` |
| Rate limiting | Redis counters, a counter in memory | increment, the order of the throttlers, 429 with Retry-After | `Cooldowns` |
| Administration and its bootstrap | `User.status`, `User.role` | setAccountStatus, ensureAdminFromEnv; lists | `Access`; lists in `Listing` |
| Financial destinations | `FinancialDestination` | save, rename, delete, remember | `Operations` |
| Notifications | `Notification` | written after a payment; listed; marked as read | `Operations`, `Listing`, `Pages` |
| Lists of the backend | | history, notifications, security events, five lists of the administrator | `Listing` |
| Audit log, request logging, profiles of users, configuration | rows and lines nobody decides on | | not modelled |
| Frontend: rate-limit store and API client | cooldowns in memory and in `sessionStorage` | fetchWithAuth, setRateLimitCooldown, reload | `Cooldowns`; getAllTransactions in `Listing` |
| Frontend: session | the user of each tab, the cookie, the `BroadcastChannel` | probe, signOut, expiry, login | `Session` |
| Frontend: 31 pages and lists | rows, filter, page number | load, fail, choose, change, ask again | `Pages` |
| Frontend: nine forms that send | `loading`, the checks before | submit, answer, next page, leave, open again | `Forms` |
| Frontend: messages, formats, layout | texts in two languages | | not modelled |
| Deployment | containers, nginx, CI | | not modelled |

How they interact: the controllers call one service per request; Transactions
calls SpendingLimits inside its database transaction; ScheduledPayments calls
both inside its own. Everything else they share is rows: Transactions,
Envelopes, Goals, Payments and ScheduledPayments all change `Wallet.balance`.
Notifications and security events are written after the transaction and not
waited for. The only external party that changes money is the gateway. Every
request but registration and login passes JwtStrategy first, which reads the
rows that logins, revocations and administrators write.

What is hard, and at which line, is listed under `hazards` in `PROJECT.json`;
in short: lost updates and overdrafts between concurrent transactions; checks
made on rows that were read without a lock; opposite lock orders; rollbacks at
any statement; midnight between a limit check and its insert; callbacks that are
repeated, late or lost; timer runs that overlap; logins, revocations and changes
of an account's status between the statements of other requests.

## Modules

```
RowLocks --- Ledger --- Transactions --+
                  \---- Envelopes -----+-- Wallet --- Books (implements Bank)
                  \---- Goals ---------+
RowLocks --- Deposits (implements Account)
RowLocks, Calendar --- Scheduled (implements StandingOrder)
Access          Operations
Cooldowns, Session, Pages, Forms, Listing --- Browser
```

* `RowLocks` is the part of PostgreSQL the services lean on: an exclusive lock
  per row, held until the transaction ends, and the detection of a cycle of
  waiting transactions. The isolation level is the default, READ COMMITTED.
* `Ledger` holds the money rows and the statements that every money operation
  consists of: a conditional UPDATE that debits, an UPDATE that credits, and the
  COMMIT. Its variables are the committed rows; a transaction's own writes are
  applied when it commits. That is sound because the rows it has written are
  locked until then, and a conditional UPDATE of another transaction that meets
  a locked row waits and evaluates its condition again (`Debit`). A row whose
  committed version does not satisfy the condition is skipped without waiting,
  as PostgreSQL does.
* `Transactions`, `Envelopes` and `Goals` add the statements of their services:
  reads, limit checks, status changes, completion at the target. A read that the
  code makes without a lock is a step of its own (`ReadEnvelope`, `ReadGoal`),
  so that whatever it has read may be stale when it is used.
* `Wallet` is the composition of the three on the same rows.
* `Bank` is the abstract specification: money moves between rows in one
  indivisible step, once per request, and only if it is there. `Books` defines the
  refinement mapping and the properties `BooksBalance`, `MovesAreAtomic` (the
  services implement the bank) and `OnlyOwnersMove`, and two that no run lists because
  they are proved: `MoneyIsConserved` and `WealthIsMovedBySpends`.
* `Deposits` is PaymentsService with an external gateway. `createDeposit`,
  the user, the gateway and any number of callbacks are separate actors. `Account`
  is what they add up to: a balance, the payments that are verified, and those
  that are credited; `TopUp` maps PAID payments to the latter
  (`CreditsAreAtomic`).
* `Scheduled` is one scheduled payment with overlapping runs of the scheduler
  and requests of its owner; its dates are numbered slots. `Calendar` is
  `computeNextExecutionAt`: `SlotsAreRegular` says what the numbers mean.
  `StandingOrder` is what the runs add up to: the slot whose turn it is is paid in
  one step, when it is due, with money that is there (`InstalmentsAreAtomic`).
* `Access` is authentication, the lockout, sessions and the status of accounts.
  Nothing there is in a transaction with anything else that matters, so every
  statement of a handler is a step, and requests overlap in any order.
* `Operations` is what surrounds the transaction of a payment, which it takes as
  one step that commits, refuses or throws (`Transactions` has its statements):
  the throttle before it, and after it the notification, the destination, and
  the record of a failure, which nobody waits for.
* `Cooldowns` is the rate limits of the backend together with what one tab makes
  of a refusal: the two sides of one protocol.
* `Session` is the tabs of one browser, the cookie they share and the messages
  between them; of the backend, which sessions are live.
* `Pages` and `Forms` are one machine each, and a record per component of the
  source: what it offers to the user, in which state it disables what, and which
  of the usual precautions it takes (drop an old answer, keep the lock until the
  next page is there, show an error or swallow it). That is the control of a
  component; its markup and what it computes from its rows are abstracted. A
  record of `Pages` is mapped to the whole component all the same, since what a
  component offers while it loads is decided in its markup.
* A form can be left at any time (`LeaveForm`): the button that closes
  `DepositModal` works while a request is under way, and so does every link. Its
  handler goes on. Opened again (`OpenAnew`) it is mounted with the state it
  starts with, unlocked, and what it does then is another visit; `GoBack` is the
  exception of a page that the browser has kept with its state.
* `Listing` is the list queries of the backend, two statements each, with the
  three ways of reading them to the end.
* `Browser` composes the five machines of the frontend. They share no state, and
  whatever one does to another (a sign-out to a page, a cooldown to a form) is an
  action of that other one which may happen at any time. So one of them runs in
  a behaviour, and the others rest.

`MCWallet`, `MCDeposits`, `MCScheduled`, `MCAccess`, `MCOperations`, `MCBrowser`
and `MCSession` give the constants their values for TLC. The operators commented
"Variant:" are plausible bugs of the code next to the definition they would
replace; no specification uses them. Each property of a passing run has a
variant that violates it.

### State and code

| Model | Code |
|---|---|
| `funds[u]`, `funds[e]`, `funds[g]` | `Wallet.balance`, `Envelope.allocatedAmount`, `Goal.savedAmount` |
| `status` | `Envelope.status`, `Goal.status` |
| `pc[r]`, `op[r]` | the statement a request's transaction executes next, and its arguments |
| `used[u][kind][period][i]` | the sum `computeUsage` takes over the Transaction rows of a day or month |
| `maxAmount`, `peak` | `UserSpendingLimit` or the default; history of the largest value |
| `stamp[r]` | `createdAt` of the Transaction row |
| `payment`, `stored`, `rows` | `Payment.status`, `authority` set, number of DEPOSIT rows |
| `gateway`, `code` | ZarinPal's view of the authority; its answer to a verification |
| `sched`, `exec`, `paid` | `ScheduledPayment`, execution status per slot, transfers per slot |
| `now`, `slot`, `mark`, `sent` | local variables and uncommitted writes of a run |
| `edit[e]` | a pause, resume or cancel between its read and its update |
| `account[u]`, `session[s]` | `User.role` and `status`; a `UserSession` row, with its `deviceKey` and `revokedAt` |
| `failures`, `locked` | `lockout:fails:<user>`, `lockout:<user>`, or the entry in memory |
| `known` | NEW_DEVICE_LOGIN events and devices of registrations |
| `guesses`, `faults`, `late` | history: wrong passwords since the last reset, failed Redis commands, requests that came after a revocation |
| `row[d]`, `failed`, `reported` | a `FinancialDestination` row; FAILED_TRANSFER and FAILED_WITHDRAWAL events of an hour; history: a SUSPICIOUS_ACTIVITY event |
| `stage[r]`, `job[r]`, `answer[r]` | the next statement of a request, what it has read, what the client was told |
| `window[l]`, `until[s]`, `request[q]` | `rate-limit:<name>:<tracker>` in Redis; `globalUntil`, `lockoutUntil` and `actions` of the store; a call of fetchWithAuth |
| `told` | history: windows whose refusal has reached the tab |
| `owner`, `live`, `cookie`, `shown[t]` | `UserSession.userId`, not revoked; `poulix_session`; the user of a tab's UserProvider |
| `leaving[t]`, `probe[t]`, `inbox[t]` | signOut and refresh between their request and its answer; messages of the BroadcastChannel |
| `behind` | logouts of pages that are gone (`keepalive`) |
| `page`, `view`, `choice`, `acked` | which page; its rows and its error, and history whether a load has failed unseen (`hidden`); filter and page number; its changes that were acknowledged |
| `form`, `locked`, `try[n]` | which form; `loading` of the mounted component; a submission, its checks and its request |
| `visit`, `excuses` | history: how often the form was opened; errors this visit has shown, and locks a cooldown ended |
| `rows`, `query`, `got`, `len` | the rows of a list; the page that is asked for and what its statements saw; what the reader has |

## What is checked

| Run | Question | Instance |
|---|---|---|
| `MCWallet` | all services together: the books balance, the statements implement the bank, only owners move money out of a row or into an envelope or goal, a cancelled envelope pays nothing, a cancelled goal returns everything, a goal that reaches its target is completed, for good, whatever overlaps, no circle of waits among requests that lock the wallet first | 2 users, 1 envelope, 1 goal, 3 requests of 9 kinds |
| `MCWalletLive` | every accepted request is answered, deadlocks included; no row is overdrawn; spending limits on both sides of a midnight, while a limit is changed | 2 users, 2 envelopes, 1 goal, 2 days, 2 requests of 9 kinds |
| `MCDeposits` | credited once, and the wallet holds exactly what is PAID; each credit is one step of `Account`, of a verified payment and for good; money that was paid stays creditable and is credited in the end | 2 payments, 3 callbacks, 2 deaths |
| `MCScheduled` | no slot paid twice, skipped, or paid ahead; SUCCESS has a transfer; never backwards; the runs implement `StandingOrder`; slots are regular; every due slot is attempted | 2 runs, 2 slots, 1 owner request, 1 abort; dates from 14 months |
| `MCAccess` | no revoked session and no inactive account reaches a handler; guessing is bounded; every device is announced; sessions only begin and end, and only owners revoke | 2 users, 2 requests at a time, 3 sessions, 1 device, 1 failure of Redis |
| `MCOperations` | the throttle is exceeded only by requests already let through; abuse is reported; whoever has paid is told so; payments leave saved destinations as they were | 1 destination, 2 rows, 2 requests at a time, at most 2 failures allowed |
| `MCBrowser` | a cooldown covers the window that refused; no second refusal by it; pages at rest show nothing that was overtaken; a form that is open asks once; a growing list is read completely; tabs agree on who is signed in | 2 calls, 2 tabs, 2 loads and 2 changes, 3 submissions in 2 visits, 4 rows on pages of 2 |

In `MCDeposits` the callback page of one payment (`Early`) may be opened before
the user has paid, that of the other only when the gateway sends the browser
there; the last two promises are made for the second kind. A payment of the
first kind may be FAILED by a verification that was sent before the user paid,
and is then not credited although the money is taken.

Some promises of the frontend hold for a part of the components only, and the
property says for which:

* `NewestIsShown`: pages that drop an old answer, or let nothing be asked while
  they load (`Orderly`). `NotificationsPage`, the bell, `SecurityPage`,
  `WalletBalance`, the dashboard and the user detail of the administrator do
  neither, so that an old answer may stay; likewise the collections when two
  changes overlap, and the limits beside `WithdrawForm` and the confirmation of a
  transfer, which the form loads again when it is sent. After a load that failed
  a page shows an error, or, if it swallows failures (home, statistics, profile,
  the lists of transfer and send, the funding sources; some others after a 401),
  no rows, or those of a demo, which the user cannot tell from having none. What is excluded is data that was overtaken.
* `AskedOnce`: as long as it is open, a form that keeps its lock until the next
  page is there (deposit, login, registration) asks once per excuse. The others
  release it with the answer and can be sent again before they are gone; the
  backend has no key by which it would recognise that. For them the property says
  that one submission is under way at a time. Across visits it says nothing: see
  the observation below.
* `PaymentsKeepDestinations`: payments that overlap no change of their
  destination; those that do may undo it.
* `AbuseIsReported`: unless the process dies of a failure it does not handle,
  which loses what was still to be reported.
* `TabsConverge`: to a guest or to the user of the cookie, if every tab is
  focused again and again (see Fairness).
* `ListMissesNothing`: lists whose rows are read before they are counted. The
  lists of the administrator send both statements at once, so a row may be in
  neither, and lists filtered by a status lose rows by themselves. The queries
  order by `createdAt` alone; that rows of the same instant keep their order from
  one query to the next is assumed.

Five runs are expected to find a violation; each states what a test of the
repository expects, and shows how the code departs from it:

* `MCWalletStranded` (`CancelledIsEmpty`): `EnvelopesService.cancel` decides on a
  row it has read and updates by id; an allocation that commits in between leaves
  its money in a cancelled envelope, from which nothing can be released. Likewise
  a contribution that has read the goal as ACTIVE credits it after its
  cancellation.
* `MCScheduledRecord` (`PaidIsRecorded`): of two runs that retry a failed slot,
  the one that is refused overwrites the SUCCESS of the one that paid.
* `MCScheduledCancel` (`CancelledIsFinal`): a pause that overlaps a cancellation
  writes PAUSED over CANCELLED, and the payment can be resumed.
* `MCAccessAdmins` (`ActiveAdminRemains`): two administrators disable each other;
  each request counts the other administrator before either has written, and
  nobody is left who could enable an account. Only a restart with ADMIN_EMAIL
  helps, which that run leaves out (`Root = Nothing`).
* `MCSessionLogin` (`LoginSurvives`): a 401 of the old session, or the message
  of a sign-out, reaches a tab when the user has signed in again in another one;
  the tab asks for a logout of its own, which carries the new cookie and revokes
  the new session.

### Other observations

What modelling the code showed besides, without a run of its own:

* `getAllTransactions` (`api.ts`) goes on while it has fewer rows than were
  counted; after a row that was inserted between the two statements of a page it
  asks for empty pages for ever.
* A monthly payment selected for the 31st moves to the last day of the first
  shorter month and stays on that day.
* An answer to GET /users/me that arrives after a sign-out shows the user again,
  until the next probe.
* Failures are recorded by `void this.record...()` without a handler of
  rejections: a database that fails at that moment ends the process
  (`Operations.Die`), and with it the other requests.
* `upsertDestination` writes back every column it has read: a payment that
  overlaps a rename or a removal of the same destination undoes it.
* The end of a cooldown ends the lock of the login and registration forms, even
  while their request is under way.
* `DepositModal` unmounts `DepositForm` when it is closed, which it can be while
  the deposit is being created. Opened again the form has no lock, so the user
  may ask for a second deposit while the first is under way; whichever answer
  comes last decides where the browser goes.
* Eight pages and lists show no rows after a load that failed, without an error
  and without a button to ask again.

### Account Lockout

`GuessesBounded` bounds the wrong passwords that are tried on an account between
two resets of its count by `MaxFailures + Cardinality(Reqs) - 1 + faults`. The
first term is the configured maximum. The second is not slack: `assertNotLocked`
and `recordFailure` are separate commands, so the other requests at work may have
passed the one before the failure that locks. The third counts Redis commands
that fail, which the service ignores on purpose. A reset is a login with the
right password, an expiry, and a lost Redis, from which the service goes on with
an empty map.

### Bounds, and why they are enough

A request of the money runs once, so the number of requests bounds a behaviour.
Every hazard there is between two transactions; three let one interfere with two
that already interfere. A deadlock needs two, and the rows of the instance allow
no longer circle, so `MCWalletLive` has two. Amounts are 1 and balances at most
4, so that one request fits, two fit, or neither does. Two days put a midnight
between any two statements. `MaxAborts`, `MaxBalance`, `MaxSlot`, `MaxDay` and
`MaxMonth` are the only bounds on counters; aborts of money requests need none,
since a request is not repeated. Symmetry over requests is used where no
liveness is checked; identities of requests are only compared.

In `Access` and `Operations` a request ends and another takes its place, so two
at a time already give histories of any length, over the `Sids`, which bound the
logins that succeed, and the `Ids` of rows. Three sessions let two of one user
and one of another be on the same device. `MaxFaults` bounds the failures of
Redis. `Scenarios` lists which kinds of request occur in one behaviour: those
that are kept apart write nothing the others read. `MaxFailed` is 2, so that one
failure is below the maximum and two requests together exceed it.

In `MCBrowser` a second is two ticks, so that a window can end within one, which
is where rounding shows; two calls give answers in either order, and `MaxTime`
lets the shortest window end and another begin. `Scarce` lists the limiters that
are used up in one behaviour: the two behind the global cooldown, the two that a
login meets, and those of deposits one at a time. Two choices, loads and changes let each overtake the
other; a third would be overtaken in the same way by one of the two. Three
submissions allow one after a success and one after an error, made in their
order; two visits (`MaxVisits`) let an answer to an earlier one arrive in a later
one, and one rate limit (`MaxBlocks`) ends one lock. Four rows on pages
of two shift a row over a page's edge; three pages are enough for an export to be
cut off. A tab keeps one message (`MaxInbox`), since hearing of a second sign-out
does what the first did. `MCBrowser` does not check deadlock, since lists end
and forms are left; `MCSessionLogin` has a second session for the second login.

### Fairness

Statements of a transaction are weakly fair: the server executes them, and a
statement that waits for a row is enabled again when the row's holder ends. The
deadlock detector of PostgreSQL is weakly fair. The five-second timeout of
Prisma, deaths, the owner's requests, the clock and the limits changes are not
assumed to happen. In `Deposits` the user is assumed to open the callback page
again as long as the payment is PENDING: nothing in the backend asks the gateway
on its own, and without that assumption `PaidIsCredited` fails. In `Scheduled`
the timer is weakly fair: the interval never stops while the process is up.
In `Session` messages and answers arrive and tabs are looked at again and again
(each navigation probes, and so does each focus at least five seconds after the
last probe), which is weakly fair: an assumption about the user, who must not
leave a tab aside for ever, and not about the code. Answers to probes are strongly
fair: some may fail, but not all of them.

## What is proved

All proofs are checked by TLAPS for any number of users, rows, requests,
payments, days, calls, submissions and pages, from the named assumptions on the
constants (`NoReqAssumption`, `LedgerAssumption`, `TransactionsAssumption`,
`GoalsAssumption`, `DepositsAssumption`, `ScheduledAssumption`,
`CalendarAssumption`, `AccessAssumption`, `OperationsAssumption`,
`CooldownsAssumption`, `SessionAssumption`, `PagesAssumption`,
`FormsAssumption`, `ListingAssumption`), which TLC also evaluates.

* `WalletProofs`, `WalletIsSafe`: `LedgerInv` is an invariant of the composition
  of all services. It says that a transaction past its debit still has the row
  locked and the row still covers the amount (`DebitSecured`), and that one past
  its credit still has that row (`CreditSecured`). The type invariant, in which
  balances are natural numbers, is not inductive without it: nothing else
  explains why the subtraction at the commit does not go below zero. There is one
  lemma per statement, and then one step per action. `WalletFirstNeverDeadlocks`:
  a request that locks the user's wallet first holds nothing when it asks for it
  and only wallets when it asks for more (`OrderInv`), while whoever is on a
  circle of waiting requests already holds a row that another one asks for.
* `WalletProofs`, `WalletKeepsLimits`, `TransactionsKeepLimits` and
  `TransactionTypesHold`: `UsageWithinLimits`. The inductive invariant
  `LimitsInv` adds that a spend past FOR UPDATE has its user's wallet locked
  (`SpendSerialised`), that there is room for it in the period its row will count
  in (`RoomKept`), and that nothing is recorded in the future
  (`NothingInTheFuture`), which is what makes midnight between check and insert
  harmless.
* `HoldersProofs`, `SpendsAreFromActive`, `CancellationsReturnEverything` and
  `TargetsCompleteForGood`: from `HoldersInv`, an envelope that pays stays
  active until the commit, and what a request has read of a goal under the lock
  is what the goal holds. A commit that makes or keeps a goal active leaves it
  below its target because an active goal is below it before (`UnderTarget`) and
  the amount compared is the one the increment returns; a cancellation commits
  over no completion because it has the row since before it looked at the status. `ServicesImplementBank` and `MoneyLeavesByItsOwner`:
  each statement maps to a stutter of the bank and each commit to one of its
  moves, from a row of the caller and, but for deposits and transfers, to one
  (`UsesOwnRows`). `BooksAlwaysBalance`: the requests that have committed are finitely many
  (`BooksInv`), so what they paid and received are sums, and a commit adds the
  same amount to two of them and to two balances. `MoneyIsNeverMade` is the same
  for any finite set of rows together, such as all of them or those of one user:
  what a commit moves inside the set cancels out (`CommitMovesSum`), so that
  moves inside it make nobody richer. `SettingAsideKeepsWealth` says it of the rows
  of one user: they lose only by the user's own withdrawal or transfer and gain only
  by a deposit or by a transfer to the wallet.
* `Sums` holds what these proofs need of `SumFunctionOnSet`: a sum over one more
  element, over one less, over equal values, over values one or two of which
  change (`SumChanges`, `SumMoves`). The operator is a fold, that is, a
  recursive function; that a function satisfies its equation is proved first
  (`FoldExists`). The prover cannot apply an induction theorem whose parameter
  is an operator, so an induction here takes the smallest counterexample, which
  exists because inclusion of finite sets, and the order of the numbers, are well
  founded (`SmallestSet`, `CountingUp`).
* `DepositsProofs`, `DepositsAreCreditedOnce`, `DepositsAreVerified` and
  `PaidStaysPaid`: from `DepositsInv`, a callback that settles has the payment
  locked and PENDING, what it settles has been verified, and `createDeposit` has
  ended before the user can pay, so that its catch block meets no PAID payment.
  `PaidMoneyStaysCreditable` needs in addition (`CreditableInv`) that no callback
  of a payment that is not early carries an answer from before it was paid.
  `DepositsImplementAccount`: the COMMIT of a settlement is the credit of the
  account, the answer of the gateway its verification, and every other statement
  a stutter; that PAID is final and verified is then part of the account. What
  the wallet holds is a sum over the PAID payments, which are finitely many.
* `ScheduledProofs`, from one inductive invariant (`ScheduledIsSafe`): slots are
  paid at most once (`SlotsArePaidOnce`) and in their order
  (`SlotsArePaidInOrder`), a SUCCESS has its transfer (`SuccessesArePaid`), and
  the schedule never goes back (`SchedulesMoveForward`), although a run acts on
  rows that it read before others wrote them. `ScheduledImplementsOrder`: a run
  that commits a transfer still holds the row that pays, has found its slot
  unpaid, and so executes the slot whose turn it is (`CommitPaysOrStutters`); a
  run that commits a failure changes nothing of the order. `RecordsAreTrueOneAtATime`
  says what the violation of `PaidIsRecorded` needs: while no run overlaps another,
  a paid slot is recorded as SUCCESS, because a run's rows are then still what it
  has read (`RecordHolds`). `SlotsKeepRegular` is about the
  dates alone: seven days beyond a date are one week later whether or not the
  month has ended (`WeeksAreSevenDays`, with `DaysBefore` as a sum over the
  months), and a month is missed by no date, short as it may be
  (`MonthsAreNotMissed`); `CountingUp` takes this from one date to all.
* `AccessProofs`, from `AccessInv`: `LateRequestsAreRefused`, because what was
  wrong at the arrival of a request is still wrong at the statement that tests it
  (`LateInv`); `RevocationsAreByOwners`, because the session that was found is the
  caller's until it is written (`OwnInv`), which also says that a session begins
  once, ends once and never changes its owner or device; `AdminsRemainOneAtATime`,
  which says what the violation of `ActiveAdminRemains` needs: with one request at
  a time the administrators that were counted are still active when the status is
  written (`CountHolds`); `SessionsAreOnKnownDevices`
  (`SessionInv`, `LoginInv`); and `GuessingIsBounded`. The bound alone is not
  inductive: `LockoutInv` says that before the lock the count has missed only what
  Redis has, and that after it the guesses and the requests that are about to
  fail together are within the bound.
* `OperationsProofs`, from `OperationsInv`: `FailuresAreBounded`, because the
  requests that have passed `assertOperationAllowed` count like failures that
  are already there (`RoomForFailures`); `AbuseIsAlwaysReported`;
  `PaymentsAreConfirmed`; and `DestinationsAreKept`, because what a payment has
  read of a row is still there unless the payment overlapped a change
  (`SeenIsThere`, part of `RequestInv`).
* `BrowserProofs`, from `BrowserInv`: `CooldownsAreLongEnough` and
  `NobodyIsRefusedTwice`, because the rest of a window that an answer carries,
  counted from any later moment, still reaches the end of the window, and what
  the tab knew when it sent a request was over by then (`CooldownsInv`);
  `FormsAskOnce`, because each time the lock of a visit was open there was an
  excuse that no submission of this visit has used up, while what was sent before
  the visit belongs to an earlier one and opens no lock of this one (`FormsInv`); `ListsMissNothing`, because the pages that
  have arrived hold every row of the beginning but those that are still behind
  them (`ListInv`), which is an argument about how many newer rows there are;
  `NewestIsAlwaysShown`, because on a page that drops old answers the newest load
  brings what should be shown, unless it is shown already, has failed, or a timer
  will ask for it (`DropsOld`), and a page that offers nothing meanwhile has one load or one
  change under way at a time (`OneByOne`). `BrowserTypesHold` adds what the
  machines need to keep to their types: no page and no load has seen a change
  that the backend has not made (`DataServed`), every effect of a form belongs to
  a submission of its own that is over with the backend (`FormBounds`), and all
  that a list asks for and shows are rows that were created (`ListBounds`).

Only model-checked: liveness (`EveryWalletRequestAnswered`, `PaidIsCredited`,
`DueSlotIsAttempted`, `TabsConverge`), since fairness and ENABLED are out of the
prover's reach. Every other property of the passing runs is a theorem.

## What is not modelled

The text of messages, formats of amounts and dates, HTTP, validation of DTOs,
audit log rows and log lines, profiles of users, password hashing, the
cryptography of stored destinations: nothing in the modelled parts decides on
them. Amounts are natural numbers; the column is DECIMAL(20, 0) and the DTOs
bound a request, so no width matters. A wallet, envelope or goal is never
deleted by the backend. The foreign-key locks of PostgreSQL are left out because
they add no wait (see `RowLocks`). `Scheduled` leaves out the recipient's
wallet, whose part in deadlocks is in `Transactions`, and the batch of 100: the
code promises nothing for more than 100 due payments. `Access` leaves out the
expiry of tokens, which only refuses more; changes of a password; the bootstrap
that stops because another user has the administrator's username; and that a
process which lost Redis and restarts finds the keys there that were written
before. `Cooldowns` leaves out how a limiter finds an address or a user, and
represents the limiters of single operations by that of deposits. `Operations`
leaves out `useCount` and `lastUsedAt`, which only order a list.

Of the frontend: markup, charts, receipts, themes and the two languages; the
lookup of a recipient in `SendForm`; what the page of the deposit callback shows
(that it calls the backend is `Deposits.MayComeBack`); what pages compute from
their rows.

Deployment (containers, nginx, CI) is configuration. The components and their
status are in `PROJECT.json`.

## Plan

1. `Batch`: the 100 oldest due payments per run; starvation by payments that
   keep failing.
2. An abstract `Sessions` (a token is good until it is revoked) that `Access`
   implements, and liveness of its requests.
