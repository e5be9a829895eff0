# TalimCRM: specifications, model checking and proofs

TalimCRM (`backend/`, NestJS + Drizzle on Postgres; `frontend/`, Next.js) runs
learning centers ("tenants"): leads, groups, lessons, attendance, payments,
salaries, messages, telephony, and the centers' own subscription to the
platform. All state is in Postgres. Several server processes may run at once;
they meet only in the database (row locks, advisory locks, unique indexes,
`SKIP LOCKED` claims), in timers, and at the outside services that call back
or may not answer (Click, Payme, SMS, Telegram, mail, Google Calendar, PBX).
That is what is hard here and what these modules are about: transactions
interleaved with what was read before them, answers that are lost, retries,
workers that die between a send and its record, clocks against deadlines.

## 1. Inventory

| Component (backend/src) | State | Operations | Hard behaviour | What makes it correct |
|---|---|---|---|---|
| **Platform billing** (`platform-billing`, part of `platform`) | `platform_subscriptions`, `platform_payment_claims`, `tenants.status/plan/paid_until/suspended_reason` | links, Click and Payme callbacks, card receipts, manual payments, admin's changes, renewal pass | callbacks retried or answered too late, five payment paths on one month, month read before the lock, pass deciding on what it scanned | a month is paid once; the providers and we agree; what was confirmed stands; only the unpaid are downgraded |
| **Trial lifecycle** (`trial`) | `tenants.trial_*`, `trial_notices` | first notice, last notice, deletion, reset on extension | several workers with stale copies, undelivered mail, payment at the moment of deletion | nothing is deleted before the date its owners were told, nor after a payment |
| **Notice outbox** (`notice-outbox`) | `notice_outbox` | enqueue, claim, send, record, retry | a worker dies or stalls past its lock, `kick` during a run | at least once, no late result overwrites a newer one, attempts bounded |
| **Student gateway** (`billing`) | `billing_transactions`, `payments`, `allocations`, `invoices` | Click/Payme callbacks of a center's own accounts | status read unlocked then written, cancel after payment | one payment per transaction, a paid transaction has its payment |
| **Payments, invoices, ledger** (`payments`, `invoices`, `ledger`) | payments, allocations, invoices, ledger | record, allocate, void, refund | concurrent allocation of one invoice, void against allocation | balances are sums of what stands; an invoice is never over-allocated |
| **Student card payments** (`card-payments`) | `card_payment_claims` | submit, confirm, reject | key replay, two admins at once | a receipt becomes one payment |
| **Notifications, SMS** (`notifications`, `reminders`) | `notifications`, month's SMS count | send, retry, budget | budget counted by concurrent sends, unknown outcome of a provider call | the month's budget is not exceeded, nothing is sent twice knowingly |
| **Telephony** (`telephony`) | `calls`, `call_events`, leads of unknown numbers | provider events, pairing with leads, live hub | duplicated and reordered events, hangup before answer | a call ends in the state its events say, whatever their order |
| **Calendar sync** (`calendar`) | `calendar_connections`, `calendar_event_links` | connect, choose, sync, clean up, disconnect | remote calls between reads and writes, two workers | remote events converge to local ones |
| **Chat** (`chat`) | messages, `seq`, reads | send, read, stream | sequence numbers against commits | a reader misses no message |
| **Auth, sessions, sign-up** (`auth`, `invitations`) | sessions, codes, invitations | sign in, refresh, revoke, phone code, accept | refresh races, code attempts, accept against revoke and the staff limit | a revoked session stays out; a code is used once |
| **Leads, conversion** (`leads`) | leads, trials, waiting list | move, convert, trial lessons | two staff convert one lead | one student of one lead |
| **Make-ups, lessons, schedule, attendance** (`makeups`, `lessons`, `schedule`, `attendance`, `calendar-touch`) | credits, bookings, occurrences, marks | book, cancel, reconcile, mark | six writers of what a credit or a booking rests on; cancelled lesson with bookings | a credit is spent once, for something missed; a booked make-up can take place |
| **Groups, enrollments, students, staff, teachers, limits** (`groups`, `enrollments`, `students`, `staff`, `teachers`, `plans`) | memberships, plan limits | add, move, archive | count-then-insert under advisory locks | limits and capacity hold |
| **Mock tests, homework, exams, placement** | attempts, import jobs, grades | start, answer, submit, import worker | heartbeat and takeover of an import, double submit | one result per attempt |
| **Salary, expenses, cash, reports** | payrolls, expenses, cash days | calculate, pay, close a day | late changes to a closed period | what was paid is not paid again |
| AI tutor and quotas (`ai`, `trial/trial-limits`) | counters | charge, refund | charge then failure | never above the limit |
| Custom fields, branches, subjects, files, custom domains, site, certificates, announcements, feature flags, center events, hiring, export, import, onboarding, audit, portal, telegram menus | rows | create, read, update, delete | mostly none beyond unique indexes | see the code's own tests |
| Frontend, nginx, scripts, migrations, browser tests | - | - | - | not modelled: no protocol of their own |

How the parts interact: a *server process* runs the HTTP handlers, the timers
(renewal pass, trial pass, outbox, reminders, calendar) and the callbacks of
the providers. `platform-billing` writes `tenants.status` and `paid_until`;
the trial pass reads both and deletes the center; `platform` (the admin)
writes them too. A payment handler writes its message to the notice outbox in
its own transaction and kicks the outbox after the commit. Nothing else is
shared in memory, except the `running` and `again` flags of one process.
The student's money is written by four services (desk, receipts, gateway,
invoices) under one ledger lock; a lesson of the day by six (timetable, group,
lessons, attendance, make-ups, reconcile) under one timetable lock. The SMS
budget, phone calls and the calendar share no state with each other.

## 2. Modules

| Module | What it is | Code |
|---|---|---|
| `Calendar` | days, month labels, "the same day of the next month" | `addMonth`, `monthLabelOf` in `billing-period.ts` |
| `PlatformBilling` | a center pays the platform | `platform-billing/*`, `updateSubscription` and `recordPayment` in `platform.service.ts` |
| `PaidTime` | abstract: what billing promises about paid time | - |
| `PlatformBillingProofs` | types, the inductive invariant `Consistent`, Payme's states, the renewal pass; that `PlatformBilling` implements `PaidTime` | - |
| `NoticeOutbox` | messages written with the business change, sent by workers | `notice-outbox.service.ts`, `deliverMessage` |
| `NoticeOutboxProofs` | types, that a sent message stays sent, the cause of a second copy, the bound of attempts, the kick that is not lost | - |
| `TrialPurge` | an unpaid trial is deleted after two notices | `trial-lifecycle.service.ts` |
| `TrialPurgeProofs` | types, the last check, the invariant `CycleInv` of a cycle that nobody resets under another, and `ReachInv` and `DatesInv`, which hold when somebody does | - |
| `StudentLedger` | a student's month: invoices, payments, allocations, receipts, the center's Click and Payme | `payments`, `invoices`, `ledger`, `card-payments`, `billing` |
| `StudentLedgerProofs` | sums over finite sets, the inductive invariant `LedgerInv` | - |
| `CalendarSync` | a user's lessons in a Google calendar | `calendar-sync.service.ts` |
| `CalendarSyncProofs` | the inductive invariant `SyncInv` | - |
| `SmsBudget` | the month's SMS and the right to send a key once | `notifications.service.ts` |
| `CallIngest` | events of phone calls, the leads they open | `call-ingest.service.ts`, `contact-match.ts`, `createFromCall` and `assignFromCall` of `leads` |
| `PhoneProofs` | the inductive invariants `SmsInv` and `CallInv` | - |
| `MakeUps` | a day's lessons, marks, make-up credits and bookings | `makeups`, `lessons`, `attendance`, `schedule.service.ts`, a group's trash |
| `Vouchers` | abstract: what make-ups promise of a missed lesson | - |
| `MakeUpsProofs` | the inductive invariant `MakeUpInv`; that `MakeUps` implements `Vouchers` | - |
| `MC...` | values, scenes and symmetry for TLC | - |
| `ServicesProofs` | that the scenes of `MCServices` are runs of the four services, and keep all their invariants | - |

`PROJECT.json` gives the source lines of every definition. A rule holds for all
modules: what the code does in one transaction under one lock is one step, and
what it read before, or does after, is a step of its own.

### PlatformBilling

One center, because nothing crosses centers: every lock and unique index of
this code is per center. A transaction takes the center's advisory lock or row
lock before it writes, so it is one step; what is read *before* the lock is
a step of its own and may be old by then: the month a link or receipt is for
(`LinkBegin`, `CardBegin` read, `LinkOpen`, `CardInsert` write), and the
candidates of the renewal pass (`RenewalScan`, `RenewalCommit`).

| Variable | Code |
|---|---|
| `center` | the `tenants` row: `status`, `suspended_reason`, `plan`, `paid_until` |
| `sub` | `platform_subscriptions`; `end # 0` stands for `paid_at IS NOT NULL` |
| `claim` | `platform_payment_claims` |
| `req`, `pass` | the local variables of a handler or pass between its read and its transaction |
| `order`, `told` | external: what a provider's payment was made for, and the last answer it heard |
| `adminHold` | history: the admin's last word on the status was SUSPENDED |

Abstractions. `BILLING_ENFORCE` is on. The organisation's time zone is left
out: it shifts the instant a month begins and nothing else. The amount a
provider names is the price of the tariff the link had (`order`), compared with
the price of the invoice's tariff now. Click calls complete and Payme calls
create, perform and cancel for payments opened from a link the center made; a
provider repeats a call until it hears an answer (`heard`), may ask again for
one it heard succeed, and Payme gives the money back as it cancels. Handlers that
only read (`CheckPerform`, `CheckTransaction`, Click's prepare, statements,
lists) have no action. A year of the model is a long and a short month: the
least calendar in which clipping to the last day of a month happens.
`MaxTime` ends the clock and `MaxMonth` the months that can be paid; with no month
left, no new link or receipt is begun (the code would go on to the next month).

### NoticeOutbox

A row per dedupe key, a pass per process with its own copy of what it claimed
and then read (two statements), a step for each statement and each send. The clock is
abstracted to the two things the code compares with it: `due`
(`next_attempt_at` has come) and `lapsed` (`locked_until` has passed), which come
true at any time after they may. Which of the due rows a claim of `Limit` rows
takes is left open. A process is one event loop: the end of a pass and the test
of `again` are one step, for no other callback runs between them. `copies` counts to two.

### TrialPurge

One center and several processes with `TRIAL_PURGE` on. A pass compares
everything with the time it began; each statement and each mail is a step, at the
time of the clock; a transaction is one step. `center` holds the five trial columns, `notices` the
row per kind and recipient (`id` tells rows made before a reset from those made
after), `pass` what a process has read, `told` (external) the last mail that
reached a person: when it left, when its pass had begun, the date it named. Days are ticks. The clock may go on while a
pass runs only as one of `MaxFaults` slow passes, for a pass takes minutes and
the periods are days. The provider may take a mail and lose the answer. Left
out: the recipients do not change, a refund does not unpay a center, the phone
claim written before the delete, the preview (it writes nothing). A date that is
NULL where the pass reckons with it throws in the code and ends the model's pass.

### StudentLedger

One student and one month, for the ledger lock is per student and the debt per
month. An operation that holds `lockStudentLedger` is one step. The gateway's
callbacks read the link without a lock and write it by id later, so each is
`Receive` and then `Prepare`, `Settle` or `Cancel`, several at once. `Shares` and
`Issue` are the code's loops over invoices by due date and over loose payments by
date (recursive functions over the ids, which stand for that order). `accepted`
and `taken` are what the providers believe. Sums are small numbers. The
inputs include a card receipt of the earlier code, which could stop between the
payment and the receipt's state; what it left is what confirm adopts.
`crossed` marks links whose callbacks overlapped or that were refunded: the
code does not keep the three tables together there (section 5), and the properties about
links say so in the open. The statement that cancels an invoice takes no lock;
its own condition is its guard.

### CalendarSync

One user's connection; a worker per poller (and the clean-up a request does
itself), each with its lease token. Every statement and every call to
Google is a step; a call may be refused, may be lost before or after Google did it,
and its worker may die or lose the lease while it waits. `shown` is what the
accounts' calendars really hold, under the ids the code derives from the row and the
lesson. A request compares accounts by a remote call first (`Look`) and takes the
connection's lock later. `epoch` and the grants in `conn` are the code's
columns. Time is left out: backoff, the window of dates, tokens that expire while
the grant stays. A list of calendars matters when it fails: `ListFailed` writes to the
row that `AskList` read, by its epoch and lease. Three excuses are variables, so that a
reader sees what is not promised: `adrift` (events whose write was never recorded,
whose account was assumed, or whose link outlived a switch because the worker died
between the switch and the delete of the links), `crowded` (a second actor: a worker claimed
the row, or a reconnect brought another grant, between another worker's check of the lease and the
record of the write it allowed) and `counted` (events the user is told to remove by hand).
One actor who dies is never `crowded`: what he leaves is named event by event.

### SmsBudget, CallIngest

`SmsBudget`: a send reads counts and its own row under the lock of the month
(`LookSms`), writes the reservation (`TakeSms`) in the same transaction, calls the
provider and records the outcome. Reading and writing are two steps because
transactions under the locks of *two* months can overlap; `torn` marks a key that
was reserved that way. A delivery whose answer was lost is UNKNOWN and keeps its place.

`CallIngest`: an event and its call's row change in one transaction; matching
the number, opening a lead, linking the call, giving the lead to who answered and
the note are steps of their own, by several requests. Events come in any order,
any number of times, or never; a request may fail at any step (the provider does not
deliver again once the event is stored). What a Zadarma event can carry
(`NamesPhone`, `NamesNumber`) is read off the provider's parser.

### MakeUps

One day of a center, which ends (`DayPasses`). A lesson is its timetable row;
slots do not overlap each other, and each group has one teacher, who stands for the room
too. All writers hold the center's timetable lock, so each is one step. `timetable` is where each row is
that day (AWAY: on another day or CANCELLED), `dated` the rows with a date of their own
(staff may give a weekly row a date, or make a dated one weekly), `calledOff` the day's
`lesson_cancellations`, which the code keeps when a row is given a date and then does
not look at, `marks` the attendance of a lesson or of the group's day,
`bookings` the ones still BOOKED or ATTENDED. A voided credit is history nobody
reads, so its place is free again. Two excuses: `forced` (somebody planned over a clash with
`allowCollision`), `pardoned` (staff reinstated a credit whose ground is gone, or the day's
mark became a lesson's that had a credit of its own). `CreditHasGround` names a third: a
lesson called off, with credits, whose row was then given a date, is held again (section 5).
`VoucherOf` maps a credit and its booking to a voucher of the abstract `Vouchers`: whose, of
which lesson, how it stands (the credit says) and where its make-up is (the booking says).
Left out: edits from the group's form, groups from before timetable rows, a row given
to another group or teacher, members that change, expiry dates, topics.

## 3. Runs

`outbox` checks deadlock; the other runs may stop (`CHECK_DEADLOCK FALSE`):
their bounds end the clock and the rows, a deleted center is the end of
`TrialPurge`, and users need not do anything.

A run that would be too large as one instance has **scenes**: the initial state
chooses one, and its sizes add up instead of multiplying. A scene restricts which
actions are at work, never what one of them does.

| Run | Asks | Bounds, and why they are enough |
|---|---|---|
| `billing` | do providers and center agree; is a month paid once, at its price; does Payme see only its own state machine; do confirmed receipts stand; does all this implement `PaidTime` | `Providers`: a Click and a Payme payment, three rows, two tariffs, two ticks: two providers on one month, a link of another tariff between, time-out and reuse of a row. `ClickAndCards`: two requests and receipts, a shared key or none, a Click payment of the same months |
| `billing_renewal` | does a pass lower only the unpaid; is an unpaid center lowered in the end | six ticks are two model years: paid time ends, grace ends; two invoices of two months, so that one is paid and the other can be between the scan of a pass and its commit, by Payme, by a receipt or by the admin, who also sets ACTIVE and SUSPENDED. The payer uses Payme or sends a receipt, not both; one tariff |
| `billing_hold` | violation, see section 5 | |
| `outbox` | is what is sent final; does a second copy have a cause; are attempts bounded; is a kick never forgotten; is every message sent or given up in the end | two messages and two processes while nothing fails (a commit meets a pass under way); one message with two faults and the admin's retry: one stalled or dead worker against a live one |
| `outbox_fence` | violation, see section 5 | |
| `trial` | had everybody both notices of this cycle; has the date they named come; is a paid center kept | ALONE: one process at a time beside an admin who changes the trial's end and the status, two recipients, failing mails, one slow or dead pass. TOGETHER: two processes in one cycle of a center that does not pay, one copy of the last notice tried twice |
| `trial_carried`, `trial_cancelled` | violations, see section 5 | two processes and one extension, no fault at all |
| `ledger_books` | do the three tables agree, is money used once, is the debt what is left, do receipts and links have their payments | DESK: sums to 2, two payments and two invoices in any order, a discount, a key, a closed day. RECEIPTS: two receipts, one of the earlier code. CLICK, PAYME: one link with two provider ids, two callbacks at once, the desk beside them |
| `ledger_discount` | violation, see section 5 | |
| `services` | what `LinksHold` to `BookingsStand` say of the four services below; does a disconnect end; do make-ups implement `Vouchers` | scenes below |
| `call_opener` | violation, see section 5 | |

`services` has eight scenes of four modules that share no state:

| Scene | What is at work |
|---|---|
| LESSONS | two workers and one lesson whose content changes while they write; a reconnect, the choice of a calendar; one fault: a refused or lost call, a death, a stall, or a list of calendars that fails |
| ACCOUNTS | two workers and the user's requests: connect, another account, disconnect, dismiss; one such fault |
| MONTHS | two senders, two centers, one key each, over the turn of a month: the total and the center's own budget are one place each |
| KEYS | two senders, two keys of one center and one of another, tries up to two |
| CALL | one call, rings at one extension and is taken at another, four events, two requests at once, one failure |
| CALLS | four calls of two numbers (one outgoing, one of a student), three events, no failure |
| MARKS | one student's marks, credits and bookings while his own lesson moves, is given a date or made weekly, called off, deleted and put back; three edits |
| SEATS | two students with a credit each, one free seat, every lesson moves, the other group's is given a date, a one-off is added, the group goes into the trash and back; three edits |

What the runs between them do **not** show: `DeletedAsTold` and
`ToldInThisCycle` with two processes *and* an extension. There the second one is
violated (`trial_carried`), and the first is what the theorem `DatesAreKept` is about
(section 4).

Symmetry is used for rows, receipts, links' payments, workers and recipients in
runs without liveness; the code tells them apart by identity only. Runs with
liveness use none.

Fairness. `billing_renewal`: weak fairness of a pass's scan and its commit,
because `setInterval` starts a pass and a started pass ends; nothing is promised of users,
providers or the admin. `outbox`: the event loop, the database and the provider
answer, a lock that nobody alive holds runs out, and the timer runs. A slow worker's lock running
out is a fault, never promised. `services`: weak fairness of each calendar worker
(its poller runs every minute, a call to Google ends) and of the lease of a worker
that is gone; `DisconnectEnds` says that a disconnect ends: in the row's deletion, in the
list of what is left for the user, in the next grant or the user's connecting again - or, after
a list of calendars that Google refused, in NEEDS_RECONNECT with the events still there (section 5).

Each property names in its comment what code it is about, and has a mutant in
`PROJECT.json`: the change to a definition, the way a bug would change the
code, under which its run fails. The mutated operators are in the modules, marked
"Mutant".

## 4. Proofs

All theorems are of a module's specification, for all values of the constants that
satisfy its named assumptions: any number of rows, invoices, payments, requests,
callbacks, workers, recipients, tariffs, attempts, senders, keys, calls, accounts, browser
tabs, groups, lessons and make-ups, and any sums. Where a proof counts or adds, the
assumptions say that the sets are finite, as tables are.

* `TypeCorrect`, `OutboxTypeCorrect`, `TrialTypeCorrect`, `Types` (ledger), `CalendarTypes`,
  `SmsTypeCorrect`, `CallTypeCorrect`, `MakeUpTypeCorrect`: types, by
  one lemma per group of actions. The first two and the last four are not run as well: TLC
  would only see small instances of what is proved.
* `ScenesAreRuns`, `ScenesKeepTypes`, `ServicesSideBySide`, `ScenesImplementVouchers`: what TLC
  explores in the run `services` is what the theorems are about. Every step of a scene is one of its
  service and none of the others; the calendar, SMS and call scenes are runs of their specifications, and
  SEATS, which begins with credits already issued, begins where `MakeUpInv` holds. So all thirteen
  safety invariants, the types and the refinement hold in every instance of the scenes.
* `MonthPaidOnce`, `ProvidersAgree`, `PaymentsAtTheirPrice`, `ReceiptsStand`:
  the four safety invariants of billing, from the one inductive invariant
  `Consistent`. None of the four is inductive alone. `Consistent` adds `RowShape` (an
  invoice no provider has begun to pay carries no transaction, and only a paid or
  taken-back one a period) and `ReceiptShape` (a confirmed receipt's invoice carries no
  provider's transaction: this is why no callback finds it). The lemmas
  `OpenedRows`, `PaidRow`, `CancelledRow` say once what opening, paying and
  cancelling do to the rows; the steps of links, Click, Payme, cards and admin cite them.
* `BillingImplementsPaidTime`: the refinement. `PeriodOf` maps an invoice to
  what it bought; every step of the five paths is a `Buy`, a `TakeBack`, a `Wait` or
  leaves the ledger as it is. It uses `OneLiveInvoice` (the month is not paid by
  another) and `RowShape` (what is taken back is what was bought).
* `PaymeAdvancesOnly`: Payme sees its own state machine and nothing else, from
  `Consistent` before and after a step: at most one row carries a transaction, so its state is
  that of the row a step writes, and no other path takes over an invoice that Payme began.
* `PassesOnlyLowerUnpaid`: the renewal pass, from the types alone: the commit
  asks again what the scan asked. The run has two invoices, the theorem any number.
* `SentMessagesStay`: from `Arrived` (a row is SENT, and a worker holds the result OK,
  only of a message that reached its recipient).
* `AttemptsStayBounded`, `CopiesAlwaysHaveCause`: from `OutboxInv`, which says of every row
  who is at it. As long as nothing excuses it, only its holder is (`OneAt`), what a
  holder read is what the row says (`HeldOf`), and a row that was claimed but is free
  again has cost a fault (`TriesOf`): the fence of `Record` keeps all three.
* `NewMessagesAreServed`: `KickIsOnItsWay`, for a backlog a pass can take whole
  (`Cardinality(Notices) <= Limit`; the code's limit is 50). With more, the rest waits for
  the next pass, which the timer starts: a bound of the code and no flaw of the kick.
* `OnlyUnpaidTrialsGo`: `PaidIsKept`. Of all the actions only `DeleteIfStillDue` deletes,
  and its check is of the row under the lock, not of what the pass read.
* `NoticesComeFirst`: `ToldInThisCycle` and `DeletedAsTold`, for any number of processes, as
  long as no process resets a cycle while another is at work on it (`ResetsAlone`). The condition is
  in the theorem because the code does not see to it: `trial_carried` is what happens without.
  `OneProcessTells`: a single process needs no condition. The invariant
  `CycleInv` says that the notices, the marks, the mails under way and the passes about to mark
  are all of the one cycle; that what a last notice told is a week after the start of its pass and not after
  the purge date, which only moves on; and that a kind is marked only after everybody had it - accepted rows may be
  overwritten by a slower worker, what was told cannot.
* `NobodyUntold`, `DateHasCome`, `DatesAreKept`: what is left of this when processes *do* reset cycles
  under each other, for any number of them, mails repeated and lost, and extensions. Nobody's center is
  deleted who never got a first and a last notice, and the last one left at least `LastLead` before the day it
  named, less the time a mail may leave after its pass began (`MailsWithin(delay)`: the code reckons the week from
  the start of the pass, so that a slow pass makes it shorter, and nothing bounds a pass but its work). `DeletedAsTold`
  allows every mail as much as it was late (`ReachInv`: an accepted row, a mark and a result under way are only of somebody who was reached, in this
  cycle or an older one). The day last told has come, of whatever cycle it was: `DatesInv` says that no date
  named lies further off than a cycle begun now would set, nor after the date of the cycle under way. The
  second half needs one condition, for `beginCycle` reckons from the time its pass *started*: if a pass
  begins a cycle `delay` late (it mails other centers first), the deletion is early by `delay` at most.
  With `BeginsWithin(0)` that is `DeletedAsTold`. The condition is needed: in a scripted run of three
  processes, a pass that began its cycle two days late, after the cycle of a faster one had told people day 3,
  was followed by a deletion on day 2. A pass takes minutes, so this is a matter of minutes in the code.
  These theorems add `LastLead <= Lead` to the assumptions (7 and 14 days in the code).
* `Books`, `UsedOnce`, `NoMoneyOnCancelled`, `ReceiptsDecided`, `LinksRight`, `OncePaid`,
  `DebtRight`: all seven safety invariants of `StudentLedger`, from `LedgerInv`. Its heart is
  `MoneyInv`: allocation rows are the only record of what went where, an invoice's paid and remaining
  sums are those of its rows (`InvoicesAddUp`), a payment covers its rows (`PaymentsSuffice`), and
  rows lie between rows that stand (`RowsStand`). `KeysStand`, `LinksStand` and `LinkedExist` tie
  receipts, links and callbacks to their payments; `UncrossedPaidOnce` says what a link on which no
  callbacks overlapped may look like while one of them is under way. The loops of `Shares` and `Issue`
  are recursive functions along 1 .. n: that there is such a function, and what it computes, is
  proved by induction over 0 .. k, and a sum is taken apart by induction over subsets. Neither uses
  an induction rule with a predicate as parameter: a family of subsets of a finite set has a
  smallest member, so the smallest counterexample is looked at. `DebtRight` then adds up the rows by
  invoice and by payment and compares.
* `LinksAreHeld`, `LeftIsTold`, `ChangesAreSynced`: from `SyncInv`, all while nobody came between a
  check of the lease and the record of the write it allowed (`~crowded`, as the properties say).
  `Alone`: then who is in the middle of a write is the only one, and what the lease's holder knows of
  the links is what the table says. `Owned`: the linked events are in the account the grant is of, also
  before the row knows that account by name. `AllShown`: a linked event, and a write on its way to be
  recorded, is in Google as the table says. `AllTold`: the events no link leads to are not more than the
  user was told of; what a switch, a dismissal or a lost record leaves is counted against the links it took away.
  `LinksHold` itself excuses, event by event, what is `adrift` (section 2).
  A failed list changes the status or frees the lease, and nothing else of the row (`HandedRow`). Freeing a
  lease makes nobody `crowded` by itself: the next claim does, if the worker is then in the middle of a write.
  `AllDone`: a connection that is not asked to sync, and a worker about to say so, have caught up.
* `BudgetHolds`, `SentOnce`: from `SmsInv`. A place is counted from the reservation
  on, so the proof must say of every send between its steps what its row still is: the
  holder of a key's row is one send, a send that has looked and found room still has it
  unless another month's lock let somebody in (`torn`), and a message that arrived has a
  row that keeps its place. The counting is by the library's facts on cardinalities.
* `StatusIsOfEvents`, `LeadGoesToWhoAnswered`, `OpenerIsMarked`, `CallersKept`,
  `NoteIsMadeOnce`: from `CallInv`, which relates a call's row to the *set* of
  its stored events - that is what makes the order of arrival immaterial - and each request
  between its steps to what it will still do (the request that ends the call is the only one that may
  write the note, and the one that found no contact still has it to link).
* `CreditsFollowTheirBookings`, `CreditsHaveGround`, `BookingsCanTakePlace`: from
  `MakeUpInv`. The first is inductive with the types. The ground of a credit needs
  `GroundInv`: a lesson that a credit was given for keeps a mark, or stays called off, in that its
  cancellation stays or its row is gone (a restore is refused while the credit stands, a deleted
  row never comes back). A day's mark adopted by such a lesson leaves the day's credit, which is then
  `pardoned`; and a dated row is held whatever its cancellation says, which the property excuses. The bookings need `NotOwnGroup`, since a
  booking into a group is not in the way of that group's own lessons. `Closes` says once
  what reconciling, calling off and cancelling do to bookings, and every property is
  carried over by it; the seats are counted by an injection into the bookings before.
* `MakeUpsImplementVouchers`: the second refinement. Issuing is a `Give`, booking a `Hold`, marking
  a `Use` or a `Forfeit`; what reconciling, calling off, deleting and cancelling close is one `Release` of
  all the vouchers concerned, and a save of marks one `Correct`, which voids only what nobody has booked or
  used and moves the day's credit to its lesson. The mapping takes a voucher's place from the bookings and
  its state from the credit, so it needs `CreditsFollowBookings` on both sides of a step. That a lesson has one
  voucher (`OneCredit`) is proved of the abstract specification and carried back.

Model-checked only: the liveness properties `GraceEnds`, `Settles` and `DisconnectEnds` (liveness
under fairness is out of the prover's reach); and that the scenes of the other `MC` modules are instances
of their specifications (they choose an initial state and restrict the next step; for `MCServices` it is
proved). `ToldInThisCycle` is false beyond `ResetsAlone`, as `trial_carried` shows.
The invariants named above were tried with TLC on small instances before they were proved.

## 5. Disagreements found

* `billing_hold` - `updateSubscription` sets the status and leaves
  `suspended_reason`. A center suspended for non-payment, and then by the admin,
  keeps `NON_PAYMENT`, and its next payment makes it ACTIVE, against the comment over
  `applyPayment`, the billing doc and a test that writes both columns itself.
* `outbox_fence` - "a worker whose hold ran out never overwrites the next one's
  result" is not so: the attempt number a result is fenced by is read after the
  claim, and starts again at the admin's retry.
* `trial_carried` - `deliverDue` reads that a notice was accepted and marks the
  center in a later statement. If another process resets the cycle and begins a new
  one in between, the new cycle counts as told; the center can be deleted without that
  notice.
* `trial_cancelled` - `greatest(NULL, date)` is the date, so a last notice under
  way writes a deletion date into a cycle cancelled meanwhile; the branch written
  for that case is never taken, and no new cycle begins afterwards.
* `ledger_discount` - a discount given with a payment before the invoice exists
  counts until the invoice is issued, and then no more: the debt comes back.
* `call_opener` - a lead is opened in one statement and the call linked in
  another; when another event of the call links it in between, the call never says
  that it opened the lead, and who answers is not made its manager.

Smaller ones, seen while modelling and not run:

* Trial. The last notice is to come "7 days before the deletion date" (the class comment; line 230: "a
  last notice that leaves less than 7 days moves the date first"), and the deletion is to wait six days from its
  acceptance. Both are reckoned from the start of the pass, which goes over all centers and waits for
  the provider at each mail: a mail that leaves late in a slow pass gives that much less.
* Billing. Click's complete, repeated after its answer was lost, is answered -4; the
  class comment says retries answer the same, the billing doc documents the -4.
* Gateway. A callback that read a link before another one settled it writes PENDING
  over PAID, or settles a link that was cancelled; `cancel` of a performed
  transaction leaves the student's payment, which `voidPayment` refuses. These are the links in `crossed`.
* Payments. `voidPayment` reads whether the day is closed and the closing is
  inserted without that lock; `cash.close` reads its figures and inserts later, so a
  payment recorded in between is neither in the expected cash nor "after closing".
* Calendar. "One actor per connection": a reconnect with the same account clears
  the lease of a worker in the middle of a write. An event whose insert was not recorded
  stays after a disconnect. A grant of another account that arrives between the clean-up's last read and
  its delete is deleted with the row. When the verdict on the account is only ASSUMED, links with equal
  contents are kept and the new account gets no copies. A late disconnect turns CLEANUP_FAILED back
  into DISCONNECTING without a grant. A list of calendars that fails writes to the row as it was read
  (`calendars`, lines 373-382, and `failed`, 617-632): it frees the lease of a worker in the middle of a write, so
  that another may begin; and refused by Google while a clean-up runs, it turns DISCONNECTING into
  NEEDS_RECONNECT, so that the clean-up the user asked for is given up with its events still in Google.
  A worker that dies after the switch to another account (503-508) and before it deletes the old account's links
  (511) leaves them to the new grant, against the comment there ("never touched with the new grant"): the next
  sync finds those lessons linked and, as long as they are unchanged and their links name `primary`, adds none of
  them to the new account.
* SMS. Two reservations of one refused message, under the locks of two months,
  may both take it (`torn`).
* Calls. A note may say "missed" of a call that a later event makes ANSWERED; a
  failure after the end's transaction loses the note for good.
* Make-ups. A new weekly row of a group from before timetable rows does not
  reconcile the bookings into the lessons it replaces. `reinstate` does not look at
  the ground again. A scan does not take over the day's mark, so a present
  student can keep the day's absence and its credit. A lesson may be planned over a make-up
  marked ATTENDED. A weekly lesson that was called off, with a LESSON_CANCELLED credit, and is then made one of
  that date (`updateSchedule` writes `date`, schedule.service.ts:752) is held again, for a dated lesson ignores
  the cancellation (occurrences.ts:121-127), while its credit can be spent; and a day's absence that then becomes
  this lesson's leaves the day's credit without a mark (attendance.service.ts:161-167). Two comments still say that attendance is kept per day.
* Leads. A conversion writes enrollments without the students' lock, and locks groups in the order the
  request names them, so two conversions can wait on each other. Enrolling takes no timetable lock and looks at
  no make-up bookings; trial lessons and make-up sessions share lock keys and do not look at each other.

## 6. Not modelled

The components with status `not_modelled` in `PROJECT.json`: chat, sign-in and sessions,
leads and their conversion, groups and people, mock tests and homework, salary,
expenses and reports, the cash day, the AI tutor's quota, settings. Those with a protocol are in the
plan below. The rest is single-row forms, presentation, configuration, and
cryptography (hashing, tokens), which TLC has nothing to say about. The frontend is
half of the repository's lines and has no protocol of its own: what a browser may
send is the input of the modelled handlers.

## 7. Plan

1. Sessions: refresh and rotation against a switch of the workspace, code
   attempts, an invitation's acceptance against its revocation.
2. Leads: conversion, trial lessons and the waiting list, with enrollments, the
   students' lock and the locks of groups in the request's order.
3. The cash day against the payments of `StudentLedger`.
4. Chat's sequence numbers; the import worker of the mock tests.
5. Theorems: the budget of attempts of a trial's notices; that the scenes of the other `MC`
   modules are runs of their specifications.
