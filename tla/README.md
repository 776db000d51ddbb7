# LendersHub in TLA+

LendersHub is a multi-tenant loan-management system: a NestJS back end over one
PostgreSQL schema per tenant, a Next.js front end, and a mobile application that
takes payments offline. The modules here model the part in which correctness is
hard: several requests that read, check and write the rows of one loan, its
installments, its payments and its ledger, each statement on a pooled database
connection, only some of them in transactions.

## The system

`B` stands for `src/backend/src/`.

| component | state it keeps | operations that change it | what must hold |
|---|---|---|---|
| Loan lifecycle (`B tenant/loans/tenant-loans.service.ts`) | `loans` (status, pending_closure, deleted_at, terms), `installments` | create and update per cycle, approve, reject, close, request and accept closure, reopen, delete | the disbursement is on the ledger exactly for granted loans; the schedule is the one of the current terms; installments follow the loan's status |
| Collections (`B tenant/collections/tenant-collections.service.ts`) | `payments`, `installments.paid_amount/status`, `collection_audit` | collectPayment, recordPayment, confirmPayment, undoCollection, assignAgent | no increment lost, none counted twice; no installment overpaid; oldest debt first; a retry credits once; payment, installment and ledger agree |
| Loan-page payments (`tenant-loans.service.ts` recordPayment, undoInstallmentPayment) | the same rows | a payment cascading over installments, its undo; installments added past the term and removed | as for collections; no installment removed under a payment; no gap in the schedule |
| Ledger posting (`B tenant/ledger/tenant-ledger-posting.service.ts`) | `ledger_transactions` | post, reverse | rows are only added or flipped; one reversal per row; one row per idempotency key |
| Reconciliation (`B tenant/reconciliation/`) | ledger status, daily snapshots | reconcile, generate and lock a snapshot | a reconciled row stays counted; a locked day does not change |
| Direct payments (`B tenant/payments/tenant-payment-webhook.service.ts`) | `payment_events` | receive, match, reject | an event becomes at most one payment |
| Overdue ageing and NPA (`B scheduler/overdue-ageing.service.ts`, `B tenant/common/npa.ts`) | installment status, NPA flags, the threshold setting | the daily job, mark and clear NPA, set the threshold | every overdue installment is eventually marked; a loan in arrears leaves the NPA list only by what the staff means to |
| Tenant lifecycle (`B super-admin/tenants/tenant.service.ts`) | tenant status, schema | create, suspend, reactivate, delete | a deleted tenant stays deleted; provisioning can be resumed |
| Authentication (`B tenant/auth/tenant-auth.service.ts`) | OTP codes, the connection pool | login, forgotten password | a code is used once; no request waits on itself |
| Funders (`B tenant/funders/`) | funder transactions, allocations | record, reverse, allocate | a loan is allocated whole, and once |
| Mobile offline payments (`src/mobile/src/db/`) | a local queue | take, synchronise, retry | a payment taken once is recorded once |
| Schedule computation (`tenant-loans.service.ts`) | none | pure functions | installments add up to principal and interest |
| Reports, dashboards, ledger views | none | read only | |
| Users, roles, permissions (`B tenant/users/`, `B tenant/permissions/`) | `users`, the values of the enum `user_role`, `role_permissions`; tokens | create, update, deactivate a user; add, rename, delete a role; log in | nobody holds a role nobody knows; somebody can administer |
| Schema repair (`B super-admin/tenants/tenant-schema-repair.ts`) | the fingerprint of the DDL last applied | a pass over every statement at boot | what is recorded as repaired is |
| Customers, branches, loan types, settings | one row each | a check, then one row written | a customer with an approved loan stays active |
| Notifications, activity log | rows nothing else reads | inserts | |
| Web front end | none of its own | calls the API | |

The loans row decides which of the others may act: collections and payments
read `loans.status` before they write installments; closing and reopening write
`loans` and then `installments`; collections, undos and approvals post to the
ledger through a client that is inside the caller's transaction, so the ledger
row and its cause commit together; reconciliation changes ledger rows the undo
looks for. There is no lock that spans a handler's read and its write except
where the code says `FOR UPDATE` or guards an UPDATE by the status it expects.
What is hard is therefore: a status or balance that is stale when it is used,
handlers that write two statements without a transaction (closing, reopening,
creating, editing) and are interrupted or interleaved between them, retries of
a submission whose answer was lost, and the order of settlements on shared
arrears. `PROJECT.json` lists each of these, at its line, under `hazards`.

## The modules

| module | what it is |
|---|---|
| `LoanContract` | the abstract specification of one loan: a status and the disbursement; five operations |
| `LoanLifecycle` | the handlers of the loan, statement by statement, implementing `LoanContract` |
| `MCLoanLifecycle`, `LoanLifecycle*.cfg` | its small instances |
| `LoanLifecycle_proofs` | its theorems |
| `Collections` | installments, payments and ledger of one active loan under the collection handlers, the office and closing, implementing `LedgerContract` |
| `MCCollections`, `Collections*.cfg` | its small instances |
| `Collections_proofs` | its theorems |
| `LoanPayments`, `MCLoanPayments` | the loan page's cascading payment and its undo, installments added and removed, and the calendar's undo of the same payments |
| `LoanPayments_proofs` | its theorems |
| `LedgerContract` | the abstract specification of a ledger: what is posted counts until it is reversed, once |
| `LedgerBooks`, `MCLedgerBooks` | ledger and funder postings, reversals, reconciliation, snapshots and the allocations of a loan to funders, implementing `LedgerContract` |
| `LedgerBooks_proofs` | its theorems |
| `TenantLifecycle` | the organisations of the platform and the super-admin's operations on them |
| `Npa` | when a loan counts as non-performing (pure) |
| `OverdueAgeing`, `MCOverdueAgeing` | `TenantLifecycle` composed with the daily job, the loans it ages and the NPA marks |
| `PaymentWebhook`, `MCPaymentWebhook` | a provider's reports, the inbox and the officers who match or reject |
| `OfflineSync`, `MCOfflineSync` | payments captured on a phone, their queue and its synchronisation |
| `ProductSchedules` | the schedule each loan product stores (pure) |
| `Schedules`, `MCSchedules` | the live projection of a per-1000 loan and what is decided about missed installments |
| `Schedules_proofs` | theorems of `Schedules` and `ProductSchedules` |
| `Authentication`, `MCAuthentication` | one-time codes and the connection pool their requests share |
| `AcceptedOnce_proofs` | theorems of `PaymentWebhook`, `Authentication` and `OfflineSync`: what may be accepted once only |
| `Access`, `MCAccess` | users, roles, the tokens that carry them, and the repair of the schema at boot |
| `Platform_proofs` | theorems of `Access`, `TenantLifecycle` and `OverdueAgeing`: the platform around the loans |
| `SumTheorems` | sums over finite sets, the lemmas behind every theorem about money; and the theorem of `Npa` |

### LoanLifecycle

One loan. `loan` is its row (status, `plan` for the terms, `pendingClosure`,
`deleted`), `rows` its installments by number, `payments` the payments tied to
it, `disbursed` the amount on the ledger row keyed `disbursement:<loanId>`.
A session `s` is one HTTP request at a time; `req[s]` is the step it has
reached and what it has read. Each handler is cut where the code gives up its
connection's atomicity:

* the read and its checks are one step (`ReadForApproval`, `ReadForClose`, ...):
  every check in the code is on rows selected in one or two statements before
  anything is written;
* each write statement is a step of its own: `CommitClose` is `UPDATE loans`,
  `WaiveRows` the `UPDATE installments` after it; creating a loan is
  `InsertLoan` and then one `InsertRow` per installment; an edit is `CommitEdit`,
  `ClearRows` and one `InsertRow` per installment;
* a transaction is one step (`CommitApproval`, `CommitPayment`): it changes rows
  whose locks it holds from the first UPDATE to the COMMIT, and the rows it
  inserts are visible to nobody before.

`StillPending` is the `WHERE status = 'PENDING'` of approveLoan and rejectLoan;
`LoseApproval` and `LoseReject` are the branch where the UPDATE matched no row.
`InsertRowConflict` is the UNIQUE constraint on (loan_id, installment_number).
`ClearRows` also sets the payments' installment to NULL, as the foreign key
says, and takes the installment from a payment that had read its id but not yet
written (`PaymentRolledBack`). `Crash` drops a request anywhere. `crashed` and
`raced` are history: whether a request died between two of its writes, and
whether a later write of a request landed on a loan another had moved on.

The status enum also has DISBURSED, which only reopenLoan sets, and DEFAULTED,
which no handler sets. An OVERDUE installment is a PENDING one past its date and
is counted as PENDING. Roles are not part of the state: any session may be any
user. The customer checks, the shift of the first due date in approveLoan, the
activity log and the notifications are left out: none of them is read by another
action.

### Collections

One loan that has been granted. `rows` are the installments in due-date order,
`payments` and `ledger` the tables in insertion order. A try `t` is one HTTP
request; `ask[t]` is what it asks for (collectPayment or recordPayment, the
installment, the amount, the idempotency key) and tries with one key are one
submission sent again. `tries[t]` is its step and the `paid_amount` it read.

* `CollectLookup` is the idempotency lookup, `CollectRead` the read of the
  installment and the loan before BEGIN (both outside the transaction, so another
  request may come between each of them and the next);
* `CollectSettle` is the transaction: the check of the amount against the
  arrears (read under the locks) and the requested installment's balance (read
  before them), and the settlement loop, stated by `Settles` as the sequence of
  what remains after each installment. `CollectRefused` is the failed check and
  the UNIQUE violation of the key;
* `RecordRead` and `RecordCommit` are the office payment on one installment;
* `ConfirmPayment`, `UndoCollection` and `Reconcile` are the office's steps; the
  undo also posts the reversal through `Linked` (findByPaymentIdWithClient) and
  `Reversed` (insertReversal);
* `CloseLoan`, `WaiveRows`, `ReopenLoan`, `RestoreRows` are the two statements each
  of closing and reopening, by one manager at a time; that closings race each
  other is LoanLifecycle's subject.

The latest payment of an installment is the last one inserted; the code orders
by created_at, the time the payment's transaction began, which differs only for
two payments that overlap. confirmed_amount is recorded in the code and read by
no action, so it is left out, and so is collection_audit. The split of a ledger
amount into principal and interest is left out: its parts add up to the amount.

### LoanPayments

One active loan as the loan page sees it. What matters here are reads without a
lock, so each handler but undoCollection (which locks from its first
read) is two steps, the read with its decision and the write: `ReadPayment` computes
the whole allocation, `CommitPayment` is the transaction that applies it as increments;
`ReadUndo` computes the absolute paid_amount and status that `CommitUndo` stores;
`ReadAdd`/`AddInstallment`/`AddConflict` and `ReadDelete`/`DeleteInstallment` likewise.
The allocation loop is stated unit by unit: `Allocated(n, ..)` counts the units of
money that what is owed before `n` leaves to it, and nothing once the rest is within
`Dust` (the code's `remaining <= 0.01`). Payments are never removed from the sequence:
"deleted" and "erased" say what became of the row, "row" is its installment_id,
which ON DELETE SET NULL clears, and "to" remembers where it went. `book` is its
COLLECTION row. The history `stale` and `overtaken` say whether a write relied on
something that has changed since it was read; a removal's `known` is how many payments there
were when it looked, and `misled` whether a write had been overtaken by then. OVERDUE is a
PENDING row past its date.

### LedgerBooks and LedgerContract

`books` holds ledger_transactions and funder_transactions together: their posting and
reversal handlers have the same form, and the types tell them apart. A posting is
`PostLookup` (the idempotency key) and `PostInsert`, or `PostConflict` when the UNIQUE
key was taken in between. A reversal is `ReverseRead`, `ReverseInsert` and `ReverseFlip`,
three autocommitted statements, and `ReverseDies` between the last two. A snapshot is its
reads in the code's order (`SnapshotOpening`, `SnapshotMoved`, `SnapshotCapital`, `SnapshotCash`) and
then its write, `SnapshotUpsert`. `Counts` is liveLedgerSql; `Outstanding`, `CashMovement`, `Capital` and
`MovedOn` are the sums of ledger-sql.ts and of the snapshot. In the refinement `posted` is
every row that is not a reversal and `counted` what `Counts` accepts. `Collections` implements the same contract
by the same mapping.

The rows of one loan in loan_funder_allocations are `funding`. setLoanAllocations is
`AllotRead` (the principal and the check of the sum, before BEGIN), `AllotClear` (the DELETE,
which finds what is committed by then) and `AllotCommit` (the INSERTs and COMMIT) or
`AllotFails` (ROLLBACK: UNIQUE (loan_id, funder_id), a deadlock or a crash); `EditLoan`
changes the principal. `funding.mixed` and `funding.outdated` are history: whether allocations
overlapped, and whether the principal has changed since the one that counts.

### TenantLifecycle, OverdueAgeing and Npa

`TenantLifecycle` has the row of each subdomain (`tenants`, and `row`, the number of rows
it has had, which stands for the id a request remembers), how much of its schema exists, the
platform's e-mail addresses, and per admin the request under way. create is
`CreateTenantRead`, `DeleteFailed` (only a FAILED row is replaced), `CreateTenant` or
`CreateRefused`, `AddAdmin`, `Provision` or `ProvisionFails`, and `Activate` or `Fail`;
suspend, reactivate and softDelete are a read each and `WriteStatus`, or `RowGone`.

`OverdueAgeing` EXTENDS it with a loan per tenant and the job: `StartRun` lists the
ACTIVE tenants, `AgeTenant` is the UPDATE in one tenant's schema and `TenantFails` its
logged error, `EndRun` ends the run. `PastDue` and `IsNpa` are npa.ts; `Npa` states the
gaps-and-islands query.

Whatever the staff does to the loan is here too, as any of it may change what the query counts, but
one step per operation: what other modules take apart statement by statement, the job reads none
of half-way. `Approve` and `Edit` take the same first date or one not past, and an edit any term;
`Close` waives and `Reopen` gives back the status that balance and date have by then, OVERDUE
included; `AddInstallment` appends past the term when one was missed and `DeleteInstallment` takes
the last such one out again; `UndoInstallmentPayment` does so when nothing is paid on it;
`SetThreshold` is the setting. An installment is its status, what was paid, and `onFile`, whether the payments
table has a row for it: that is what an edit and a removal ask for, and a cancelled payment counts. Left
out is pending_closure, which only forbids some edits.

### PaymentWebhook

`Send` is the provider, reporting again whatever it has no 2xx for; `HookLookup`,
`HookInsert` and `Answer` are receiveWebhook, `AnswerLost` and `Crash` its faults. matchToLoan is
`MatchRead` (its checks before BEGIN), `MatchPost` (the payment and the installment, whose
row it now holds, and the ledger's lookup of the key) and `MatchCommit`, or
`MatchConflict` when the key was taken in between: the failed INSERT has aborted the
transaction, so the handler of the conflict fails too. `Locked` is the row lock of the
installment; a match to the loan as a whole has none. rejectEvent is one guarded
UPDATE. `overlapped` is history: events decided while another match of theirs was under way.

### OfflineSync

`Captures` are the payments taken and `SyncRequests` the ids their POSTs may have.
`screen` is the capture screen's progress, `stored` the row in the phone's database,
`syncs` the calls of _doSync, `requests` the POSTs on their way. The server decides a
request (`ServerRecords`, `NotRecorded`) whether or not anybody waits; `AnswerNeverCame` and `Kill` leave
it under way with nobody to hear of it. `SyncOkUnmarked` is markPaymentSynced throwing after
the server has recorded, `SyncRejects` markPaymentFailed throwing in the catch: it ends the loop, and the
payment stays pending with its answer forgotten. (getPendingPayments throwing is a sync that does nothing.) `MayStart` is the module-level `_syncInProgress`. `unsure` is
history: requests given up with their outcome unknown.

### ProductSchedules and Schedules

`ProductSchedules` computes the stored schedule of each product, in paise and in
exact arithmetic (rates are fractions): `WeeklySchedule`, `DailySchedule`,
`MonthlySchedule`, `TermSchedule`, `Per1000Schedule`. The balances are recursive functions over
0..n. `Agreed` is what a loan may be, `OutlastsRounding` whether rounding to paise leaves its last
installment something to pay. `Schedules` keeps what a per-1000 loan's
projection depends on (what was collected per installment, what was decided about
missed ones, how many have fallen due) and computes `Projection` as the code's loop: `Turns` is the state after each number of turns, from
`Start`, one `Turn` per period, until the loan is `Settled`. `ExtendEmi` is resolveMissedInstallment with its refusals,
`Changes` the comparison that accepts it.

### Authentication

`conns` is what each request holds of the pool: a step of one query of its own needs a
free connection (`Query`), a step that keeps one takes it (`Acquire`). forgotPassword keeps
its connection while issueOtp and the text message need another; verifyLoginOtp keeps
it while Prisma looks the tenant up (`NameTenant`). issueOtp is `IssueStart` (the UPDATE
that replaces live codes) and `IssueInsert`; consumeOtp is `ConsumeRead` and `MarkEnds` or
`MarkLogin`. `shared` and `raced` are history: codes that were consumed, and users for whom
codes were issued, by two requests at once.

### Access

A role is a number: the place of a value in the enum `user_role`, whose name is `labels[r]`. So
renaming a role (`RenameLabel`, ALTER TYPE ... RENAME VALUE) renames it for whoever holds it,
and a role that is deleted keeps its label. `matrix` is the set of roles that have rows in
role_permissions; a role is `Known` if it is built in or has rows. Each handler checks in one
step (`CreateRead`, `UpdateRead`, `AddRead`, `RenameRead`, `DeleteRead`, `AllowRead`) and
writes in others, without a transaction; `NameGone` is the error of a name that is no value of the
enum any more. `SetActive` and the platform's `PlatformCreate` check and write at once (one
UPDATE; an INSERT under UNIQUE (email)). `tokens` says whom a token lets act as an
administrator: `SignIn` gives one, `Expire` ends it, and no other step looks at the users row.
repairTenantSchema is `RepairBegin` (the fingerprint is compared), `RepairMigrate` (the UPDATEs
that empty the old roles), `RepairSeed` and `RepairRecord`; `RepairFails` is a
statement whose error is noted before the next one runs, and `CanMove` the one error that the tenant
can cause: an old role's name renamed away. `history` is kept for the exceptions of the properties.

## What is checked

| run | instance | result |
|---|---|---|
| `lifecycle` | 2 sessions, 5 forms (every cycle, two weekly ones of 1 and 3 installments), due 2 on each | 1,308,939 distinct states, no error |
| `lifecycle_delete` | the same | `ActiveLoanNotDeleted` is violated: approve reads, delete reads PENDING, approve commits, delete sets deleted_at |
| `collections` | 2 tries, 2 installments of 2, amounts 1..3, 4 office steps | 139,793 distinct states, no error |
| `collections_retry` | one submission sent twice | `RetryNotDoubleCredited` is violated: `RetrySpec` lets the second begin only when the first is over; the earlier installment takes the whole amount, so no payment carries the key, and the second is credited again |
| `loan_payments` | 2 sessions, 1 installment of 4 and 2 to add, amounts 2 and 5, two days | 2,102,977 distinct states, no error |
| `ledger_books` | 2 sessions, 6 kinds of posting, 1 key, 2 funders with 4 allocations, 2 principals, 4 requests, 2 days | 2,038,417 distinct states, no error |
| `overdue_ageing` | a founded tenant with a loan of 1 or 2 installments of 2, thresholds 1 and 2, a failed tenant, 2 admins, 2 e-mail addresses, the cron and a manual run, 3 days | 100,959 distinct states, no error |
| `payment_webhook` | 2 events, 2 deliveries, 2 officers, 1 installment, 1 fault | 870,850 distinct states, no error |
| `offline_sync` | 2 payments, 2 syncs, 2 faults, 2 retries | 36,008 distinct states, no error |
| `schedules` | 9 per-1000 loans of 1 to 4 periods with every receipt (up to 4 amounts, 2 for the longest), date and resolution; the other products over 5 principals, 1 to 4 periods, 3 rates and 3 round-ups | 22,404 distinct states, no error |
| `authentication` | 1 user, 2 requests, a pool of 2, 2 codes | 44,140 distinct states, no error |
| `access` | 2 users (the administrator and one who may hold an old role), 5 role names, 2 builds, 2 sessions, 4 requests | 868,839 distinct states, no error |

The two violations are the ones PROJECT.json lists under `findings`, each with the
comment in the code that says otherwise.

**`lifecycle`.** `DisbursedIffLent`: the disbursement is on the ledger
exactly when the loan lent money. `ScheduleFollowsTerms`, `RowsFollowStatus`: the schedule is the one of the
current terms, a closed loan has nothing open and an active one nothing waived, in
every state where no request is between its writes, none died there and none wrote
onto a loan another had moved. The condition is needed: without it TLC finds two
edits to different forms leaving a mixture, and a close and a reopen leaving waived
installments on an active loan. `PaidIsThePayments`: an installment has been paid what
the payments tied to it add up to, edits included. `ImplementsContract`: every step is
a step of `LoanContract` or leaves its variables alone.

**`collections`.** `PaidIsLivePayments`: paid_amount is the sum of the
live payments. `LedgerFollowsPayments`:
one original ledger row per payment, counted while the payment is live; after the
undo one negated row against it, unless reconciled before. `CollectNeverOverpays`,
`OldestDebtFirst`, `WholeAmountUnlessStale` constrain every settlement. `KeepsContract`: the totals
of the ledger change only as `LedgerContract` allows: by a whole settlement at its commit, and by one
undo of a posting; a row that was reversed is not brought back by reconciling it.

**`loan_payments`.** What holds whatever overlaps: `LedgerExceedsByDeleted` (the ledger
is ahead of the live payments by exactly those the loan page's undo deleted) and
`RemovalSparesWhatItSaw` (an installment that goes takes along no live payment that was there when
the request looked). A payment committed between that look and the DELETE does lose its installment: the
check and the DELETE are separate statements, and the property says what they guarantee all the same. It has
one exception, an undo, as its test is not the payments but whether anything remains paid: that is
wrong where a write overtaken before had left paid_amount too low (`misled`), and where a payment the calendar had
cancelled is subtracted again (`Retaken`). When `Retaken` is left out the
run finds a violation. `misled` lies beyond its `MaxOvertaken` = 1; an instance with 2, begun where the first installment
is paid and two are added, was run once and needs it: an undo overtaken by a payment writes 0, a second payment
comes, and the undo of that one finds nothing paid and removes the installment from under the first. For
any bound the property is a theorem. What holds
as long as no write was overtaken: `PaidIsLivePayments`, `ScheduleHasNoGaps` (whose first part, that
the contract's own installments are never lost, is unconditional) and `ArrearsFirst`.
`PaidIsLivePayments` also names a sequential exception TLC found: a payment the calendar
cancelled and the loan page then undoes is subtracted twice.

**`ledger_books`.** `ReversalsTakeEffect`: a REVERSED row has a negated row against it, and a
negated row takes its original out of the totals unless the request died half-way.
`CleanSnapshotIsTrue`: a snapshot during and after whose reads nothing up to its day changed
agrees with the books. `FundAvailableAgrees`: two queries of the dashboard and the financial
statement give one figure, but for deleted loans and disbursements with a fee.
`AllocationsAreWhole`: the allocation of a loan is replaced whole, so that what is allocated is its
principal, unless it was edited since; and there is one, unless two overlapped. `KeepsContract`: what counts
changes only as `LedgerContract` allows, so an overlapping or dead reversal never counts twice.

**`overdue_ageing`.** `ActiveIsProvisioned`: an ACTIVE tenant has its schema, unless it was suspended
early. `NpaIsNotShakenOff`: a borrower in arrears does not get off the NPA list by a token payment (which
turns an OVERDUE installment PARTIALLY_PAID, and nothing ages it back), by one that is undone, by an installment added
to the end, by an edit that keeps term and dates, or by the job, its absence or its order. What does take a loan
off is each named, and TLC finds a step when any of them is left out: settling an installment past due whole, removing
an added one, an edit before any payment to a shorter term or later dates, clearing the mark, raising the
threshold, ending the loan. The liveness property `EventuallyOverdue`: an unpaid installment past its date does not stay
PENDING for ever, whichever other tenants' runs fail.

**`payment_webhook`.** `LedgerHasEventOnce`, `RejectedHasNoMoney`, `PaidTwiceOnlyByOverlap`, and
the liveness property `EveryReportIsKept`.

**`offline_sync`.** `RecordedOncePerKnownOutcome`: a payment is recorded at most once more
than the phone gave up requests of it without knowing their outcome. `CapturedIsKept`, and the liveness property
`PendingIsTried`: a saved payment does not stay pending for ever, unless a sync waits for ever for one
request. fetch has no timeout (client.ts:140), so nothing in the code rules that out; failing writes on the
phone and kills do not have that effect.

**`schedules`.** `OnTimeNeverExtends`: paid as contracted, projected as contracted.
`ExtendEmiKeepsItsPromise` has three parts. `PaidWholeIsNeverShort`: spreading one shortfall on top of
another never makes an installment that was paid whole look short. `SpreadEndsOnTime`: if every shortfall was
spread the loan ends with its term, to the paisa. `SpreadingCostsNoMore`: to spread a shortfall is never
dearer nor longer than to leave it, whatever was decided about the others. `NpaIsLongestStreak` (against a direct definition of the longest streak) and
`ContractsAddUp` (against the sums of the schedule, product by product, with the error rounding allows
each). The conditions in them are roundings, and each is needed: without it TLC, or a search over
larger loans, finds an extension, a dearer choice or a negative principal.

**`authentication`.** `OneCodeOnce`: only the last issued code is live and it is accepted once,
unless requests overlapped. `EveryRequestEnds`, liveness: a request is answered, unless
all connections are held by requests each waiting for a second one.

**`access`.** `RolesInUseAreKnown`: whoever holds a role holds one the matrix knows, or an old one
that is still to be migrated, unless he was given it while the roles were being changed; TLC
finds each of these overlaps when its exception is left out: a deletion whose count is
stale, a role renamed and added again between the check and the write, a rename that a deletion
overtook. `RepairedSchemaIsCurrent`: what is recorded as repaired is, however passes of
several builds overlap, fail in part or die; whoever has an old role all the same was given it
by the platform's API afterwards, or it is a role the tenant added or deleted under an old
name. `AdminRemains`: the tenant keeps an administrator, unless one gave up his own role
or acted on a token that was out of date.

### The bounds, and why they are enough

Two sessions (tries, officers, admins, deliveries) are enough for a stale read: one
request reads, the other writes, the first writes. One larger instance of `lifecycle` was
run once: three sessions, two weekly forms of at most two installments, 7.5 million
states, no error. Due 2 (or 3) makes a partial payment possible; 3 installments make a
gap in the schedule possible; the largest amount covers one installment and part of
the next (`collections`, `loan_payments`, whose smaller amount pays half an installment, so that
two payments share one and one of them can be cancelled). Two installments to add let
one be removed under the other.
`MaxPayments` bounds how many payments exist when another is begun;
`MaxOffice` = 4 suffices for reconcile, undo, close and reopen in one behaviour;
`MaxOvertaken` = 1 begins no request of `loan_payments` after the first stale write, from which on
its conditional properties say nothing; `MaxRequests` = 4 of `ledger_books` suffices for a posting,
two overlapping reversals of it and a snapshot, or for two overlapping allocations with an edit between;
the 4 of `access` for adding a role, deleting it, assigning it and renaming it, in any order. `MaxFaults` and
`MaxEvents` bound crashes and lost answers: one fault separates any step from the next, a
second one hits what recovers from the first. `Apart` of `overdue_ageing` keeps two halves from
multiplying: while super-admins act on the second tenant or the server crashes, the first one's loan is only
approved and aged; all that staff can do to it is explored with the tenants left alone. No handler of the one reads
what the other writes, but for the job, which both halves have. Two rows let one be added after a contract
of one or lost by an edit of a contract of two, and make a streak that a threshold of 2 counts. The pool has the two connections two requests need to exhaust it. A
rupee of `schedules` has ten paise, so that the rounding of small amounts happens
at terms of three and four.

Sessions are interchangeable and declared symmetric in `lifecycle`, `loan_payments`,
`ledger_books` and `access`, where every property is a safety property, for which this is sound. No
run with a liveness property uses symmetry, and the tries of `Collections` differ by what
they ask for.

**Deadlock** is not checked: a rejected loan with no request in flight, and an
instance whose bounds are used up, have nothing left to do.

### Fairness, and why the code justifies it

No fairness is assumed of loans, payments and the ledger: nothing in the code runs their
requests to completion (a request that dies is not resumed, and no job repairs what
it left). Where something drives the system on, it is stated:

* `OverdueAgeing`: the cron fires every day (`@Cron`), and a run that has begun goes on while
  the server does, as every tenant is awaited in a try of its own. Both weak. Manual runs,
  admins and crashes are not fair.
* `PaymentWebhook`: a provider repeats what has not had a 2xx. Strong, because the delivery
  slots of the model are shared: one event's turn may be taken by another again and
  again. The steps of receiveWebhook are weak: the server answers. Officers are not fair.
* `OfflineSync`: the agent returns to the app (which starts a sync), and a sync that has its answer goes
  on. Nothing is assumed of the answer, as fetch has no timeout. Failing writes and kills are finitely many.
  Nothing makes the agent retry what failed, so no liveness is claimed of it.
* `Authentication`: each request goes on; strong, because pg's pool serves those who wait
  in the order they came, so that one who waits while connections come and go gets
  one. Users are not fair.

## What is proved

The theorems hold for every value of the constants that satisfies the named
assumption of the component: any number of sessions or requests, of installments,
of forms, any amounts, any assignment of keys to requests.

### LoanLifecycle_proofs

From `ConstantsAssumption`. The inductive invariant is `IInv`:

* `TypeOK`;
* `DisbursedIffLent`, and `ClosureAskedOnlyOfLentLoans`: a pending closure never reaches an application, so
  that accepting one, which checks nothing else, cannot close a loan never granted;
* `LoanHasForm`: a loan that exists has the terms of one of the forms;
* `RequestsAgree`: what a request in flight has read still holds as far as its next
  write relies on it. It is what makes the rest inductive: closeLoan, requestClosure and
  the edit write on a status they read earlier, without a guard in the UPDATE. They are
  safe for these properties because "the loan has lent money" is stable once true,
  whereas being ACTIVE is not; approveLoan and rejectLoan read PENDING, which is not
  stable either, and are safe because their UPDATE asks for it again.

`InductiveInvariant` is `Spec => []IInv`, one lemma per group of handlers. From it
`TypeCorrect`, `LedgerAgreesWithStatus` (DisbursedIffLent), `ClosureRequestsAreSound`
(ClosureAskedOnlyOfLentLoans) and `HandlersImplementContract` (ImplementsContract): the
commit of each handler is the operation of `LoanContract` it stands for, and every
other step leaves the contract's variables alone.

The installments need a second invariant, `RowsInv` (`RowsInvariant`), as `RowsFollowStatus` and
`ScheduleFollowsTerms` speak only of moments when no request is between its writes:

* `ClosedRows` and `OpenRows`: nothing of a closed loan is open, unless the request that closed it
  has still to waive it, and nothing of another is waived, unless the one that reopened it has still
  to restore it;
* `ScheduleGrows`: the rows are of the current terms, the first is there or some request is about to
  insert it, and each that is there has the next there or under way. Two edits to one form
  build the same rows at once; whoever meets the other's row (`InsertRowConflict`) ends, and it is
  the other who owes the rest. `ScheduleIsTheTerms` follows by the least row that is missing;
* `RowsExist` and `PaidIsThePayments`: a payment under way finds its installment, and adds to
  it what it adds to the sum.

Theorems: `InstallmentsFollowStatus` (RowsFollowStatus), `ScheduleIsTheTerms` (ScheduleFollowsTerms) and
`PaidIsTheSumOfPayments` (PaidIsThePayments).

### Collections_proofs

From `CollectionsAssumption`. The inductive invariant is
`TypeOK /\ StatusTellsBalance /\ LedgerAgrees`.

* `StatusTellsBalance` is needed by the settlement: an installment counts as open by
  its status, and only because the status follows the balance does an open one owe a
  positive amount. Hence what remains of the money never grows along the loop
  (`LeftDescends`, a least-counterexample argument), each settled installment gets at least 1 and at most its balance, and nothing remains
  beyond an installment that stays open.
* `LedgerAgrees` states LedgerFollowsPayments with a witness row instead of
  cardinalities, and adds that no ledger row names a payment that does not exist: the
  payment inserted next therefore starts with no row, and its posting is its only one.

Theorems: `CollectionsInvariant`, `CollectionsTypeCorrect` (TypeOK),
`StatusFollowsBalance` (StatusTellsBalance), `LedgerTellsPayments`
(LedgerFollowsPayments), `SettlementsNeverOverpay` (CollectNeverOverpays) and
`OldestDebtClearedFirst` (OldestDebtFirst). Two more are about sums, and rest on `SumTheorems`:

* `PaidIsTheSumOfPayments` (PaidIsLivePayments): the settlement inserts one payment per
  installment it settles, of what it adds to it, so the sum over the new payments is re-indexed by
  installment (`SumOfImage`) and joined to the old one (`SumOfUnion`);
* `WholeAmountIsApplied` (WholeAmountUnlessStale): the check bounds the amount by what the open
  installments owe up to the requested one. Were something left, none of them
  would have been left open, so that as much as they owe was taken, which is all of it.

`CollectionsKeepContract` (KeepsContract) maps each step to one of `LedgerContract`, or to none: a settlement appends
postings only (`AppendingPosts`), an undo flips the posting it found, which counted since it was POSTED
(`UndoReverses`), and its negated row counts for nothing; a reconciled row counts as before (`ReconciledCounts`).

### LoanPayments_proofs

From `LoanPaymentsAssumption`. The inductive invariant `IInv` (`InvariantHolds`) is about reads without
a lock. `Fresh` says that a request whom no write has overtaken (`~stale`) would read now what it
read: the same allocation, the same latest payment and balance, the same next number. `RequestsHold`
says what a request keeps to even when overtaken: it pays only installments that were there unless they
have `gone` since, and removes none of the contract's. `Seen` says of a removal that every live payment
on its installment came after it looked, or is the one it undoes, unless it was misled. With `PaymentsHold` (a payment names the
installment it was recorded on, or none, and its ledger row was reversed exactly if the calendar cancelled
it) the properties follow: `BalancesAddUp` (PaidIsLivePayments), `NumbersStay` (ScheduleHasNoGaps),
`RemovalsSpareWhatTheySaw` (RemovalSparesWhatItSaw), `LedgerIsOffByDeletions` (LedgerExceedsByDeleted),
and `TypeCorrect`. `StatusIsTheBalance` (StatusTellsBalance) is proved though no run states it: an overtaken
undo writes an amount and a status that belong together.

`OldestDebtFirst` (ArrearsFirst) needs the allocation besides: what is given to an installment is
more than nothing only if more is left than all that is owed before it, so that everything before it is
given what it owes. The proof compares the sums of what is owed before two numbers (`SumOfPart`).

### LedgerBooks_proofs

From `LedgerBooksAssumption`. `BooksInv` (`BooksInvariant`) is the part about rows: `RowsLinked` (a
negated row negates the row it names), `RequestsHold` (a request about to flip a row has a negated
row against it) and `RowsEffective`, which is `ReversalsTakeEffect` row by row. From it
`ReversalsAreEffective` and `BooksKeepContract` (KeepsContract): an insertion is a posting of the contract,
the first flip of a row is its reversal, and every other step (a lookup, a negated row, a
second flip, a reconciliation, a snapshot, an allocation) changes neither what is posted nor what counts. `FundsAgree`
(FundAvailableAgrees) is a sum row by row: the component the statement adds up is the total, with
the sign the dashboard gives it.

`CleanSnapshotsAreTrue` (CleanSnapshotIsTrue) has an invariant of its own, `FiguresHold`: what a snapshot under
way has read so far is the sum as it is now, unless it was marked dirty. `FiguresKept` is the heart: a step
that leaves what counts up to a day alone (`BooksKeptTo`) leaves every figure of those days alone, although
it may add rows, whose presence changes the function that is summed.

`AllocationsStayWhole` (AllocationsAreWhole) has another, `AllotmentsApart`: two allocations under way have
noted the overlap on both sides, and one that overlapped nothing has seen every committed row and so
cleared it.

### AcceptedOnce_proofs

From `PaymentWebhookAssumption`. The inductive invariant is `IInv`:

* `TypeOK`;
* `HooksHaveEvents`: a delivery under way is of an event;
* `LedgerAgrees`: a key has one ledger row; an event has a row exactly if it has a payment, and a
  payment exactly if it is POSTED; and the row a match has found for its key stands, so that the
  match is right to post no other;
* `NoOverlapNoSecond`: of an event none of whose decisions overlapped no match is under way once
  it is POSTED, and it has one payment at most.

`WebhookInvariant` is `Spec => []IInv`. From it `WebhookTypeCorrect` (TypeOK),
`LedgerCountsEventOnce` (LedgerHasEventOnce), `RejectionsHaveNoMoney` (RejectedHasNoMoney)
and `OnlyOverlapPaysTwice` (PaidTwiceOnlyByOverlap), for any number of events, deliveries,
officers and faults.

For `Authentication`, from `AuthenticationAssumption`, the inductive invariant is `AuthInv` (`AuthInvariant`):

* `RequestsFit`: a request holds exactly the connections its step needs (`Needed`, the place where a missing
  release would show) and the code it is about exists;
* `AcceptedOnce`: a live code was not accepted yet, and a code two requests did not consume at once is
  being consumed by one at most, who is the first;
* `LastIsLive`: of a user and purpose not issued for twice at once the last code is the live one, and while one
  is about to be inserted none is live, nor is another about to be inserted.

Theorems: `AuthTypeCorrect` (AuthTypeOK; in particular no request holds a third connection) and
`CodesAreAcceptedOnce` (OneCodeOnce), for any number of users and requests and any pool.

For `OfflineSync`, from `OfflineSyncAssumption`, the inductive invariant `SyncInv` strengthens the two results by `Bounded`:
of every payment, what the server has recorded, plus the requests under way, plus one if the phone
may still send it, is at most one more than the requests given up with their outcome unknown.
`WaitingAgrees` (whoever waits for a request is posting that payment, and one at most does),
`SyncsAgree` (one sync runs at a time, on payments that are pending, each either left or
being posted) and `AcceptedIsRecorded` (what was answered with success is recorded) make it
inductive. Requests
under way are counted by Cardinality; lemmas on adding and removing one element take
the place of an induction.

Theorems: `SyncInvariant`, `SyncTypeCorrect` (SyncTypeOK), `CapturedMoneyIsKept`
(CapturedIsKept) and `RecordedOnceUnlessUnsure` (RecordedOncePerKnownOutcome), for any number
of payments, syncs, faults and retries.

### Platform_proofs

From `AccessAssumption`, `TenantLifecycleAssumption` and `OverdueAgeingAssumption`; one module for
three components, as each is about what a handler may still rely on when it writes.

* **`Access`.** `AccessInv` (`AccessInvariant`): no two values of the enum have one name and the built-in names
  stay (`LabelsHold`); only existing users are active; and `Crossing`: a request that was not marked as
  crossed finds the role it checked still known, and no other request is changing roles, while everyone
  who came to hold a role since its deletion looked is in `history.crossed`. `RolesStayKnown`
  (RolesInUseAreKnown) and `AnAdminRemains` (AdminRemains) are then proved step by step; each
  handler is first reduced to what it does to users, labels and matrix (`MigrateIs`,
  `RenameIs`, `GivesKeeps`, ...). `RepairedStaysCurrent` (RepairedSchemaIsCurrent) adds `Repairing`: a pass that has not
  failed yet leaves behind it what its statements did, until it is recorded.
* **`TenantLifecycle`.** `TenantInv`: tenants that are ACTIVE or SUSPENDED are provisioned or were suspended
  early, and so are those of requests about to make them so. `ActiveStaysProvisioned`
  (ActiveIsProvisioned).
* **`OverdueAgeing`.** `NpaIsLeftOnPurpose` (NpaIsNotShakenOff): a step that is none of the exceptions
  leaves at least the same installments past due under the same threshold or a lower one, and by
  `NpaIsMonotone`, from `QueryFindsLongestStreak`, more past due never makes a loan perform again. An edit that keeps
  or lengthens the term and moves no date on rebuilds every row that was past due, unpaid; an added installment
  comes after the others; the ageing job leaves each as much due as it was, whatever it does.

### Schedules_proofs

From `SchedulesAssumption`, which says of each loan that it may be `Agreed`: any principal, rate, term and
round-up, any receipts, and any order of payments, misses, resolutions and days. Every invariant of
`Schedules` is a theorem here.

* **Recursion.** A recursive function on 0..n is a CHOOSE of a function that satisfies its equation.
  `RecursionHasSolution` and `SolutionsAgree` show that there is one and only one, by `IntervalInduction` (a
  least counterexample again, in place of the library's induction, which takes an operator), with the step of the
  recursion as a function, so that no operator is passed. `Power`, `WeeklyBalance`, `DailyBalance` and `Turns` then
  unfold as they are written.
* **`ContractsAddUpAlways`** (ContractsAddUp), product by product. The installments' principal is what the
  balance falls by, so it telescopes (`SumTelescopes`) to the loan less the last balance. That the last
  installment then has something to pay is `OutlastsRounding`: before rounding, a reducing loan's balance
  after k installments is the EMI times a geometric sum (`BalanceLasts`), and an EMI rounded by less than a paisa
  still falls short of the EMI of one period less. A term loan's parts telescope
  before they are rounded (`TermTelescopes`), and `RoundedSum` bounds by half a paisa each what rounding adds.
* **The loop.** `ProjectionInduction`: a set of states that has `Start` and is closed under `Turn` has the
  projection. Three theorems are such a set each. `OnTimeNeverExtendsAlways`: `AsContracted`, after k
  periods exactly k shares of the principal are paid. `PaidWholeIsNeverShortAlways`: `PaidWholeSoFar`, no extension
  is eligible where the original amount was paid. `SpreadEndsOnTimeAlways`: `OnTimeSoFar`, what is owed is no more
  than the shares of the periods left and the add-ons pending on them; a period that falls short adds to what is
  pending, by its extension, exactly what it left (`SharesAreTheShortfall`: the last share is the remainder).
* **Two loops at once.** `SpreadingCostsNoMoreAlways` compares two projections that differ by one resolution. They
  are turned together (`ProjectionsTogether`) and stay `SideBySide`: until the one that spreads is settled it owes no
  more, asks for as much plus at least the other's add-ons, and has been charged no more (`Keeps`).
  `MoreDueMorePaid` is the heart: when more is asked for in a period, what remains after it is no more, whether
  it is past, due today or ahead. The two hypotheses of the property are what `Keeps` needs of rounding: last
  shares that are not negative, and not lower on the side that owes less.
* **`NpaIsLongestStreakAlways`** (NpaIsLongestStreak) is `QueryFindsLongestStreak` for the installments past due.

`ExtendEmiKeepsItsPromiseAlways` (ExtendEmiKeepsItsPromise) puts the three parts together.
`LoanIsAgreed`, `SchedulesTypeCorrect` and `ResolutionsTypeCorrect` say what the state is made of.

### SumTheorems

The community modules define `SumFunctionOnSet` by a fold over a CHOOSE, and the library's induction theorem for
finite sets takes an operator, which no installed backend instantiates. `SetInduction` replaces it by a
least counterexample: the strict subsets of a finite set are well-founded
(FS_StrictSubsetOrderingWellFounded), so a collection of good subsets that misses one misses a least
one. From it the value of the fold at a set and its independence of the order of summation, and
then what money needs: `SumWith` and `SumWithout` (one element), `SumOfUnion` (disjoint sets), `SumOfImage`
(re-indexing), `SumOfTwo` (sums of sums), `SumAfterChange` (one value), `SumOfEquals`, `SumIsNatural`
and `SumOfPart` (a part is no more than the whole). `OrderedListing` lists a finite set of numbers in
increasing order, for the settlements. For the same reason sums are written with SumFunctionOnSet in the
modules proved about.

`QueryFindsLongestStreak` is the theorem of `Npa`, which two other modules rest on. The query groups
installment numbers by number minus row number. The groups are intervals without a gap (`IslandIsInterval`,
by the row number growing by exactly one from each number to the next), and each streak lies within one
group; so the largest group is the longest streak, for every finite set of numbers.

### Only model-checked

* Liveness: `EventuallyOverdue`, `EveryReportIsKept`, `PendingIsTried`, `EveryRequestEnds`. Liveness under fairness
  and ENABLED are beyond the proof system. What the liveness of `Authentication` rests on, the
  connections each step holds, is proved.
* The violations, which are counterexamples.

Every other property of a run is a theorem: each invariant and action property, and the three refinements.

## Where code and expectation differ

Met while modelling. The first two are runs; the others are documented by the
exceptions of the properties named, or by a comment of the module.

* The two `findings`: a loan deleted after it was approved; a retry credited twice.
* A collection that checked its amount on a stale balance is answered with success for money put on
  no installment (tenant-collections.service.ts:913: two collectors "must not both read the same balance
  and both succeed"); `WholeAmountUnlessStale` names the condition.
* Two allocations of a loan to different funders that overlap both stay, and the loan is funded
  twice (tenant-funders.service.ts:320: "Replaces this loan's full allocation set atomically");
  an edit of the principal leaves the allocations (`AllocationsAreWhole`).
* A user may be left with a role that is gone (tenant-permissions.service.ts:247: "Refuses if any user still
  holds the role"); the platform's API still offers the roles the repair migrates away from
  (tenant.service.ts:348), and its users keep them once the repair was recorded; a
  tenant that renames a role added under an old name makes every later repair fail on that
  statement, and so run again in full at each boot (`RepairedSchemaIsCurrent`).
* Two administrators who deactivate each other leave none: a token is good for eight hours (`AdminRemains`).
* An edit of a loan that was checked to have no payments may delete an installment a
  payment was recorded on meanwhile (tenant-loans.service.ts:852-855: loans can only be edited before any money
  has moved, as deleting installments "would orphan that payment's row").
* A per-1000 loan paid on time is extended after all when the rounded share of the
  principal leaves a few paise, and when the contract's last installment is below the EMI
  (per-1000-schedule.spec.ts:86, "an on-time loan matches the contract and never extends";
  even its reference loan of 50,000 over 20 weeks ends on 3,607 against an EMI of 3,617). `OnTimeNeverExtends`
  names both conditions, and a third: a loan of so few paise that its shares, rounded up, use it up early.
* EXTEND_EMI may be offered, because the next collection would change, and then refused ("Every later
  installment is already paid"), because length and total would not: after two missed installments of
  three, for the first, with nothing paid or decided in between (tenant-loans.service.ts:3371 and 3438;
  `Changes`).
* Spreading a missed installment may cost more than leaving it when the other shares, rounded up, leave less
  than nothing for the last one, or less of a greater shortfall than of a smaller one (`SpreadingCostsNoMore` names
  both as conditions; paise are lost, and a few paise cost a period's interest).
* A daily reducing loan with its EMI rounded up schedules more principal than was
  lent; a weekly reducing one may end on a negative principal (`AddsUp` states the bounds).
* A payment cancelled on the calendar is taken for the latest one by the loan page's undo,
  which subtracts it again; and that undo never reverses the payment's ledger row. It removes an added
  installment "if this was the installment's only payment" (tenant-loans.service.ts:3525), but tests only
  that nothing remains paid: subtracted twice, nothing does although another payment is on it
  (`Retaken` in `RemovalSparesWhatItSaw`). A payment recorded between the check and the DELETE of a removal is left
  without its installment.
* Two officers matching one event at once record two payments against one ledger row, or one
  is rolled back; a match that began before a rejection overrides it (`PaidTwiceOnlyByOverlap`,
  `RejectedHasNoMoney`).
* A payment that failed to synchronise is not sent again until the agent asks, although the
  capture screen says it "will sync when you have internet"; and as posts carry no key, one whose answer
  was lost is recorded again by the retry. A sync whose markPaymentFailed throws skips the rest of the queue and
  leaves its payment pending, to be posted again; a request that never ends keeps every later sync waiting.
* PROVISIONING and FAILED tenants can be suspended and then reactivated to ACTIVE without a
  whole schema (`suspendedEarly`). A FAILED row is deleted before its e-mail address is
  found to be taken, by the users row the failed attempt left: the repeated creation is
  refused and the tenant is gone. create's last UPDATE by id overrides a suspension or deletion.
* The branch of the ageing UPDATE that restores a future OVERDUE row to PENDING has no
  path to it: an edit rebuilds its rows as PENDING.
* As many forgotten passwords and verifications at once as the pool has connections stop the
  service for good (`Exhausted`; pg's Pool has 10 and no timeout). Two verifications that overlap both
  accept one code; two overlapping requests for a code leave two live ones
  (database-schema.md:321 says that earlier ones are marked used).
* reopenLoan sets DISBURSED; DEFAULTED is set by nothing.

## What is not modelled, and why

* **In the lifecycle.** assignLoanAgent, which no other action reads; the loan number, COUNT(*) + 1
  (two creations may compute one number, and the UNIQUE constraint refuses the second);
  due dates (Sundays, month lengths, time zones).
* **In the collections.** assignAgent, collection_audit and confirmed_amount, which no
  other action reads; receipt numbers, also COUNT(*) + 1; a crash between the two
  statements of closing or reopening, which is in LoanLifecycle. The branch
  `applied <= 0: continue` of the settlement loop is not a step of its own: by
  StatusTellsBalance every row selected by the loop owes something.
* **Row locks.** A transaction is one step because it holds FOR UPDATE locks on the rows
  it changes until COMMIT. The loans row it reads under such a lock is thereby stable;
  the one it reads without (the status before BEGIN) is a separate step here. The
  statement that locks the arrears has no ORDER BY, so two transactions may wait on
  each other; PostgreSQL then aborts one, which has changed nothing. Here that is a
  request that takes no further step, which no fairness rules out.
* **Abstractions of data.** The loan page's several SELECTs before BEGIN are one read step;
  reconcile is one row per step; amounts are small units; `Schedules` uses exact
  arithmetic where the code uses doubles; interest and fees of a ledger row are one `rest`; the audit
  trail, notifications, wording and roles are left out.
* **Around the modules.** The manual cash and bank entries of the financial ledger; the signature
  checks and parsing of the webhook adapters; password hashes, the expiry of a tempToken and the
  master code; updates of branding and subscription.
* **Other components**, with status `not_modelled` in `PROJECT.json`: notifications (a daily scan
  that only inserts rows nobody reads back), customers, branches, loan types and settings
  (record keeping of one row at a time, with a check before the write: a code already taken, a
  customer's active loans before deactivation; the loan modules start from a customer whose checks
  have passed), reports that only read. What a permission of the matrix
  says is not modelled either: no handler of the back end decides by it. The web front end
  is 30,000 of the 55,700 lines of the implementation: pages that render what the API answers and
  keep nothing between requests. The one protocol it takes part in, the idempotency key of the
  calendar page, enters `Collections` as any assignment of keys to tries.

## Plan

What the modules cover is complete as far as state changes with a protocol go, and every safety
property the runs check is proved. What is left:

1. the exclusion of syncs in `OfflineSync` as the refinement of a lock;
2. due dates (Sundays, month lengths), which would let `past` and `dueToday` be computed from a calendar;
3. the records of customers, branches and loan types, each a check and then one row.
