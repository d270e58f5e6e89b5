# TLA+ models of the Azad e-school platform

A Flask application served by gunicorn (`gthread`, several workers of two
threads, `src/gunicorn.conf.py`) over PostgreSQL. Every write goes through
`tx()` (`src/app/core/db.py`), which commits once or rolls everything back. The
application's own risk is therefore not in single handlers but in what several
handlers do to the same rows: what each one read, which rows it locked, and
which keys and indexes stop a second one. These modules model that part,
starting where an error costs money.

## Inventory

| Component | State | Operations | Hard behaviour | What makes it correct |
|---|---|---|---|---|
| Wallet ledger (`services/wallet_service.py`, `modules/wallet_api.py`, ledger pages of `modules/admin`) | `wallets.balance`, `wallet_transactions` | create wallet, transfer, deposit, reverse | two threads on one wallet, retries under one key, locks in different orders, rows loaded before they are locked | no overdraft, one row per key, one reversal per movement, balance equals the sum of rows, nobody waits for ever |
| Top-up requests (same service, family and admin routes) | `wallet_topup_requests` | ask, approve, reject | overlapping reviews, a wallet inserted twice, the child leaves the school | an approval and its deposit stand together, one deposit per request |
| Tutoring settlement and payouts (`services/tutoring.py`, its routes, `review_payout`) | `tutoring_sessions`, `tutor_commissions`, `tutor_payouts`, two ledger legs per lesson | confirm (student, tutor), reject, edit, complete, time out, ask for a payout, review it | payment, completion and timeout in any order and overlapping, a nested `tx()` that fails, a tutor without school or wallet | one inflow and one commission per lesson, record and legs agree, paid by both, payouts within earnings |
| Transactions (`core/db.py`) | depth and hooks in context variables, the SQLAlchemy session | outermost `tx`, nested `tx`, post-commit hooks | errors caught between levels, errors of the database and of the program, hooks that fail or call `tx`, a killed worker | all or nothing; hooks after the commit only, each once |
| Billing (`services/billing.py`, billing and admin routes, the cron jobs) | subscriptions, manual payments, memberships | subscribe, record, approve, reject, expire (page view, hourly and five-minute jobs) | stale reviews, an expiry against an approval, two subscriptions at once | one running subscription per seat, paid for; what is over ends |
| Gateways and webhooks (`services/payments.py`) | processed events, ledger entries | start a payment, deliver an event, activate or flag | events delivered again or twice at once, errors swallowed after the gateway was told "success", renewals | an event counts once, activation and ledger row stand together |
| Quizzes (`services/assessment.py` and its routes) | attempts, answers | start, save, submit, forced submission, grade | double submit, save against submit, the time limit in the middle, a teacher grading meanwhile | number of attempts, complete submissions, no question paid twice |
| Tenancy (`core/tenancy.py`, `core/rls.py`, `services/whatsapp.py`) | settings of a pooled connection and of a transaction, the request's snapshot, the depth of scopes | set for a request, pin in each transaction, enter and leave scopes | a transaction ends inside a scope, scopes nest, the next request gets the connection | outside a scope the request's own user and school, inside the platform |
| Gradebook (`services/gradebook.py`, `services/grade_calc.py`, `services/report_card.py`, `tasks/grading.py`) | categories, items, marks | create, set one, set many; grade, class summary, average | rounding at every step, two calculations of one thing, a batch without the tests of the single write | a grade is the student's own, within the categories, and better marks never lower it |
| Classes and membership (`services/schools.py`) | members | join, leave, invite | the last seat | capacity (not modelled) |
| Approvals, appeals, AI, tasks, communication, content, reports, browser client | see `PROJECT.json` | | | not modelled, with the reason there |

The money components share the ledger table: `review_topup` calls
`admin_deposit` and `admin_credit` in its own transaction, completing a lesson
writes its two legs with the wallet row locked, a gateway payment writes a row
and leaves the balance alone. Every statement of every one runs in the
tenant context `TenantScope` models and every write in the `tx()` `NestedTx`
models. All share the database and the behaviour of the SQLAlchemy session,
which decides most of what follows:

* a query returns the object that the session already holds for a row, as it is
  held, and `with_for_update()` without `populate_existing()` is no exception.
  A value read before a lock survives the lock;
* the session holds its objects weakly, so a row whose object nobody kept is
  read anew (this is why `review_payout` and the source of a transfer are safe
  while `review_topup` and the destination are not);
* `tx()` expires everything after a commit or an outermost rollback.

`PROJECT.json` lists the hazards with their lines, those not covered yet too.

## Modules

| Module | Models |
|---|---|
| `Journal` | the promise of the ledger: an append-only list of movements, each key once, each movement taken back at most once with its sides exchanged |
| `WalletLedger` | transfers, deposits and reversals step by step; implements `Journal` |
| `WalletLedgerProofs` | its safety theorems |
| `TopupReview` | top-up requests and their review, with the `admin_deposit` an approval runs |
| `TopupReviewProofs` | that an approval has its deposit, and a balance its deposits |
| `TutoringSettlement` | the lessons, commissions, ledger legs and payouts of one tutor |
| `TutoringSettlementProofs` | its safety theorems, the balance among them |
| `Billing` | subscriptions of a seat, manual payments and their review, gateway charges and their webhooks, the expiries |
| `BillingProofs` | its safety theorems |
| `QuizAttempts` | the attempts of one student at one quiz, from several tabs, and the teacher's grading |
| `QuizAttemptsProofs` | its safety theorems |
| `TenantScope` | the row-security context of requests that share threads and pooled connections |
| `TenantScopeProofs` | its safety theorems |
| `Gradebook` | the marks of a school and the calculations made from them |
| `GradebookProofs` | its safety theorems and action properties, with the lemmas on sums and on rounding |
| `NestedTx` | `tx()` itself: nesting, errors, hooks, a crash |
| `NestedTxProofs` | that nothing is half written, and hooks run for what is committed |
| `MC...` | model values, symmetry and the users of TLC's instances |

**WalletLedger.** `exists`, `balance` and `ledger` are the committed rows; a row's
id is its place in `ledger`. `pc` says where each request stands in its handler
and `session` what its SQLAlchemy session holds of `wallets.balance`. Locks are
not a variable: they follow from `pc` (`HeldWallets`, `HeldRow`), are taken by
the `Lock*` actions and go with the commit or the rollback (`End`). One action
is one database round trip whose result can change before the next: `EnsureFrom`,
`EnsureTo`, `Create`, `Lookup`, `LockOriginal`, `LockFrom`, `LockTo`, then `Post`
(flush and commit) or `RollBack`. `Abort` at any point is the statement timeout
of `src/config.py:36`, a killed worker or a lost connection; `DeadlockVictim` is
PostgreSQL's deadlock detector. A retry is another request with the same key.

**TopupReview.** `Open` keeps the row's status, `LockTopup` tests that status
under the lock, and the approval goes on through the membership test, the wallet
(inserted in the same transaction, hence the wait in `InsertWallet`), the look
for the key and the deposit.

**TutoringSettlement.** `held` is the lesson's object a request loaded first and
keeps. `Flushed` is the UPDATE SQLAlchemy writes: only the columns whose value
differs from the object's. What a handler does after locking the lesson touches
only rows locked to its commit, so it is one action; `UpdateSession` (no lock)
and the reload of `create_commission_record` (`Reload`) are steps of their own.
`Timeout` is a run of the auto-timeout command, with the nested transaction
whose error it catches.

**Billing.** `subs`, `payments`, `processed`, `rows` and `members` are tables;
`charges` is what the gateway collected, with the history of its deliveries. A
handler is two actions, the load (`Subscribe`, `OpenReview`, `OpenPayPage`,
`Deliver`) and the commit, because the rows it writes are locked between its
lock and its commit and its tests are made on what it loaded. A status is
written only when it differs from the one loaded (`Activated`). `over` says that
`end_at` or the grace of a pending row has passed. The cron jobs are single
UPDATE statements. In `HandleExact` event, activation and ledger row are one
commit whose failure is logged and answered as a success (`told`).

**QuizAttempts.** `session` is the status and the answers a handler loaded; its
own commit drops them, as `tx()` expires everything. `Look` and `Write` are the
two halves of `save_answer` (the look for the row and the commit), `ReadAttempt`
the reload that `attempt.id` forces before the lock, `TooLate` the refused
submission that is made again. `answers` has no index: two rows of one question
are possible, and `Picks` is whichever of them the query returns last.

**TenantScope.** `pool` is what `set_config(..., false)` leaves on a connection,
`txn` the open transaction with its context, `pinned` the snapshot in `flask.g`,
`scopes` the open scopes. `Pin` is what the two `after_begin` listeners do,
`SetTenant` is `set_tenant_for_request`; a request may commit, roll back, and
open and leave scopes in any order.

**Gradebook.** Marks, weights and maxima are integers, a percentage is counted
in tenths, a score in hundredths and a weight in hundredths, as the code rounds
them. `Mean` is both functions of `grade_calc.py` and the average of
`report_card.py`: they differ in the classes and in the marks they are given
(`OwnEntries`, `LastEntries`), which is the point.

**NestedTx.** `stack` holds the `_TxContext` objects, `session.state` what an
error leaves of the transaction ("aborted": PostgreSQL refuses, "inactive":
SQLAlchemy refuses too). `raising` follows an exception from a body to the
caller of its call, where `Catch` may stop it. A call adds at most one row and
one hook, which bear its number, so that what is committed and what is run can
be compared with who asked for it.

## Runs

| Run | Bounds | Shows |
|---|---|---|
| `wallet_concurrent` | 3 requests, 2 threads, 2 wallets, 2 keys, amount 1 | all safety properties, `Journal` implemented, every request ends |
| `wallet_lost_update` | as the first | with overlap the balance leaves the sum of its rows (expected violation) |
| `topup_concurrent` | 5 requests, 3 threads, 2 children, amounts 1, 2 | approvals are credited, no money twice |
| `settlement_concurrent` | 4 requests, 2 threads, 1 lesson, prices 0 and 10, payout 8 | legs once, balance = sum of legs, record and leg agree, payout decisions final |
| `settlement_payouts` | 5 requests, 1 thread | payouts of twice the earnings approved (expected violation) |
| `billing_concurrent` | 2 threads, 1 seat, 2 subscriptions, 1 manual payment, 1 charge delivered any number of times | one running subscription, paid for, members, events once, and both expiries happen |
| `gateway_renewal` | 1 thread, 1 subscription, 2 charges | the second payment has no row (expected violation) |
| `quiz_attempts` | 2 threads, 1 attempt allowed, 1 question | attempts within the limit, complete submissions, nothing paid twice, a submission ends |
| `tenant_scope` | 2 threads, 2 connections, 4 users of 2 schools, 3 nested scopes | own context outside scopes, the platform's inside |
| `gradebook` | 2 students, 2 classes, 2 categories, 2 items, 3 weights | grades bounded, own, monotone; the average between the grades |
| `gradebook_summary` | as above | the class summary gives all students one grade (expected violation) |
| `nested_tx` | 3 calls, depth 3 | all or nothing, hooks once and only for committed rows |

**Further configurations** beside the listed runs (a run list is kept to the
questions that matter most; each of these is one command away):

| Configuration (module) | TLC says |
|---|---|
| `WalletSerial` (`MCWalletLedger`) | passes: one request after another, 4 requests, amounts 0..2, balance = sum of rows and every credit fresh |
| `WalletLockOrder` (`MCWalletLedger`) | `NoDeadlock` violated: wallets are locked source first, not by id as the docstring at `wallet_service.py:232` says |
| `TopupStaleReview` (`MCTopupReview`) | `CreditIsApproved` violated: a rejection that loaded the row before an approval committed overwrites it; the deposit stays |
| `SettlementStaleConfirm` (`MCTutoringSettlement`) | `PaidByBoth` violated: the same pattern on a lesson's payment (`tutoring.py:907`) |
| `SettlementRecord` (`MCTutoringSettlement`) | `RecordHasLegs` violated: a caught error of a nested `tx()` (`tutoring.py:970`) |
| `SettlementTimeout` (`MCTutoringSettlement`) | `TimeoutReachesAll` violated: the first commit expires the other candidates (`tutoring.py:948`) |
| `BillingStaleReview` (`MCBilling`) | `ActiveIsPaid` violated: an approval and a rejection of one payment both take effect (`billing.py:262`) |
| `QuizDoubleSubmit` (`MCQuizAttempts`) | `SubmittedOnce` violated: the status tested under the lock is the one loaded before it (`assessment.py:284`) |
| `TenantActor` (`MCTenantScope`) | `ActsAsItself` violated: until its context is set a request has the user the connection was left with (`tenancy.py:163`) |
| `GradebookMaximum` (`MCGradebook`) | `MarksWithinMaximum` violated: the batch does not look at the maximum (`tasks/grading.py:209`) |
| `NestedTxCaught` (`NestedTx`) | `FailedCallLeavesNothing` violated: the savepoint comes after the work (`db.py:158`), so the rows of a failed nested call whose error is caught are committed |
| `NestedTxStray` (`NestedTx`) | `StrayRuns` violated: a hook registered outside every call is never run, though `db.py:94` says the next call picks it up |

Why the bounds are enough to be of interest. The conflicts of these handlers are
between two requests on one row, with a third that made the row exist: a deposit
and two movements, a request and two reviews, a completion and a payout with two
reviews. Two wallets give both directions of a transfer and the cycle of two
locks; two keys give a retry and a different request at once. A lesson's legs
concern one lesson, and a second one matters only to the timeout's loop. A balance of 1
with movements of 1 makes every second debit an overdraft; in `WalletSerial`
the amount 0 reaches the early return and 2 an insufficient balance that is not
zero. Price 0 stands for a lesson without price (the finalization skips its
inflow, completion posts zero legs) and lets an edit change what is charged.
`Requests`, `Threads`, `Amounts`, `Prices` and `Payable` are the only bounds of
the wallet modules; no action there is guarded by a counter. `MaxSubs`, `MaxPayments`,
`MaxCharges`, `MaxDepth`, `MaxCategories`, `MaxItems` and `MaxCalls` bound what
the others create. The unique index of subscriptions needs two of them and two
handlers; one charge is enough for duplicates, because an event may be delivered
for ever; a second charge is the renewal. A quiz attempt has its races between
two handlers on one question, which has to be both saved and submitted; a larger
quiz repeats them. Three scopes reach one in another in another, and two
connections let either thread meet what the other left. Weights 33 and 60 make
sums that must be rounded; 0 makes a class without weight. Three calls of `tx()`
reach a call in a call in a call, two calls one after the other in a third, and
a hook's call after both. `NestedTx` with four calls (2.4 million states) also
passes. Deadlock checking is off because a
behaviour ends when its requests or a bound are used up; that no request waits
for ever is checked as `EveryRequestEnds`.

**Fairness.** `FairSpec` assumes weak fairness of every request's own steps and
nothing of arrivals or aborts: a gunicorn thread runs its handler to the end,
PostgreSQL grants a lock that is free, and its detector breaks a cycle after
`deadlock_timeout`. Weak fairness is enough because a granted lock stays
available to the only request that can take it or is held by one that ends.
`Billing` assumes that the two expiry jobs run again and again
(`src/deploy/crontab:17` and `:20`, `src/scripts/scheduled_jobs.sh:51`) and that
time passes, and nothing of handlers: `LapsedSubEnds` and `PendingPaymentsEnd`
hold however these interfere. `QuizAttempts` assumes that a handler which has
begun runs to its end; `NestedTx` that `tx()` and the loop over hooks go on once
a body has ended (`Continue`), not that a body ends. Nothing in
`TutoringSettlement` must happen, since `tutoring-auto-timeout` is run by no
schedule of the repository.

## What the expected violations say

1. *Lost update* (`wallet_service.py:278`, `:423`). `get_or_create_wallet`
   leaves the destination's object in the session; the later lock returns it
   unrefreshed, and the credit is written from the old balance. Debits are not
   affected (`DebitsAreExact`, `NonNegativeBalance`): the source's object is
   dropped before it is locked.
2. *Payouts* (`tutoring.py:767`). Requested amounts are not taken off what can be
   asked for, and approval compares nothing. (An approval also withdraws every
   pending commission, however small the payout; no document says otherwise.)
3. *Renewal* (`payments.py:900`). The key of a gateway payment's ledger row names
   subscription, amount and gateway. The row of a second payment at the same
   price violates the unique index, activation and event are rolled back with
   it, and the gateway is answered "success".
4. *Class summary* (`grade_calc.py:210`). One entry per item is kept for all
   students, so every member is given the same grade.

The stale reviews of the configurations above have one cause, described under
Inventory: a status tested under `FOR UPDATE` on an object loaded before it.

## Proofs

`WalletLedgerProofs` proves for every set of requests, wallets and keys, every
number of threads and every set of amounts: `TypeOK`, `NonNegativeBalance`,
`TakenBackOnce`, `AnsweredIsPosted`, `DebitsAreExact` and `ImplementsJournal`,
from `WalletAssumption` alone.

None of these is inductive: that a debit leaves a balance non-negative needs
that the balance tested is the balance committed, which holds because the source
row was read under its lock, has been locked since and is locked by nobody else.
`IInv` says so. `JobOK` is what a request knows of its job at each point,
`WalletsOK` that the rows it names exist, `SessionOK` that a locked source's
object equals the committed balance, `LocksOK` that no two requests hold one
wallet row, `RowsOK` what every row of the ledger is (in particular that a
reversal mirrors an earlier row that is no reversal, under the key derived from
it, so that keys being unique makes reversals unique). There is one lemma per
action; `QuietStep` takes the ones that write no row together. `Implements` maps
`Post` to `Move` or `Reverse` of `Journal` and every other step to a stutter.

The listed run shows that a balance need not be the sum of its rows; two theorems
say how far that goes. `OnlyStaleCreditsLose`: for any number of threads, in every
behaviour in which each destination is credited from the balance committed at that
moment (`CreditsAreFresh`), `BalanceIsSumOfRows` holds. So the destination loaded
before its lock is the only way to lose money, no lock order, retry, reversal,
deadlock or abort is another, and reading the locked row anew would be enough.
`SerialBalance`: with one thread every credit is fresh (`SerialCreditsFresh`: while
a request is in flight nobody else commits, `Alone`, so what its session holds is
what is committed, `HoldsCommitted`), and the balances agree without a condition.
The sum is a recursive function of the ledger; that exactly one function satisfies
its recursion (`Summed`) is part of the invariant.

`BillingProofs` proves `TypeOK`, `OneActivePerSeat`, `ActiveWasPaid`,
`ApprovedIsMember`, `EventOnce` and `RowPerActivation` for every set of threads,
seats and gateways and without the bounds. `IInv` adds what the properties rest
on: `ForeignKeys`, `Handlers` (the row a handler works on exists; nothing is
assumed of the status it holds, which may be stale) and `Ledger` (an event has
counted exactly if it is processed, and has its row exactly if it then activated).
A step is judged table by table: `SubsStep`, `PaymentsStep`, `ChargesStep` and
`ThreadStep` say what it may do to each, and `StepsKeep` joins them. The argument
for `OneActivePerSeat` is the index alone: an activation either meets no other
running row or leaves the row as it was.

`TenantScopeProofs` proves `TypeOK`, `OwnContext` and `ElevatedInScope` for any
users, schools, threads, connections and any nesting, from `TenantAssumption`.
`OwnContext` is not inductive: leaving a scope restores the snapshot, so one needs
that the snapshot is the request's own (`PinnedIsOwn`), that a scope opens only
after it is taken (`ScopesArePinned`), and that a webhook scope is alone
(`WebhookIsAlone`), for which leaving it cannot leave another. `OneThread` states
once that a step of one thread leaves the others as they were, which the
connections they share do not change: what one leaves is never used once the
next request has its own snapshot.

`TopupReviewProofs` proves `TypeOK`, `ApprovalIsCredited` and `NoMoneyFromNothing`
for any requests, threads, children and amounts. The invariant says where a
request stands (`Fits`): past the lock it is an approval of an existing row, from
the look for the deposit on it holds a balance. That a row is locked is not used:
the deposit and the status share a commit, and that is enough for the first two.
For the third the sum of a child's deposits is a recursive function; that exactly
one function satisfies its recursion is carried along as a part of the invariant
(`Summed`), so that a deposit adds its amount to the sum without an induction.

`TutoringSettlementProofs` proves all safety properties of the run for any
requests, threads, lessons and prices: `TypeOK`, `LegsOnce`, `LegMatchesRecord`,
`DecisionIsFinal` and `BalanceIsSumOfLegs`. A request under way is only known to
have an existing lesson or payout and an object that was once a row (`OnLesson`,
`OnPayout`); nothing is assumed of how old the object is. What keeps the legs
single is that `Posting` looks for the key in the transaction that writes the leg.
The balance is the sum by the technique of the top-ups.

`QuizAttemptsProofs` proves `TypeOK`, `AttemptsWithinLimit`, `SubmittedIsComplete`
and `NoQuestionPaidTwice` for any quiz, any number of attempts and handlers.
`ThreadsOK` says that what a handler is about to write names an attempt and a row
that exist; the tables only grow, so other handlers cannot take them away.
`RowsHold` gives the properties from what a step may do to rows: keep them, add
some, or close an attempt that then has a row of each question. A submission's
sum counts questions, and not rows, which is why doubled rows do not matter.

`GradebookProofs` proves `TypeOK`, `GradeIsOwn`, `RaisedMarksNeverLower` and
`GpaBetweenClassGrades` for any students, classes, weights, maxima and marks, and
`GradeWithinCategories` for weights that are zero or at least a tenth (a lone
category of weight 0.05 is a counterexample: its score is rounded to a hundredth
and divided by 0.05 again). With small weights among others, 0.05 beside 0.95,
`HeavyGradeWithin` says the same of every class whose total weight is more than a
tenth per category that weighs something: each score is off by half a hundredth at
most (`ScoreNear`), and that is then less than half a tenth of the whole. Sums are over sets, in an order the library leaves
open. The lemmas show that the order does not matter, that sums are linear,
monotone and split over parts; each takes the smallest subset for which it fails
(`SmallestSet`), since strict inclusion is well founded on finite sets. `RoundAtMost`
and `RoundAtLeast` say exactly what rounds to what, ties to even included. The
average lies between the grades because what no class falls short of, all classes
together do not (`ClassesTogether`), and a tie in every class is a tie of the whole.

`NestedTxProofs` proves `TypeOK`, `AllOrNothing` and `HookHasItsRow` for any number
of calls and any nesting. Its invariant is what a reader of `tx()` keeps in mind:
the calls that run have one outermost call (`StackOK`), the rows in the session
are all its own, and once a database error struck it the session does not work
until it ends (`SessionOK`). For the hooks it adds where each row is (`RowsKnown`)
and that the hooks waiting in the contexts, in the queue and those run are all
different and of known calls (`HooksApart`, `HooksKnown`).

Only model-checked: all liveness (`EveryRequestEnds`, `LapsedSubEnds`,
`PendingPaymentsEnd`, `SubmissionEnds`, `HooksRun`), because fairness is out of the
prover's reach. Every safety invariant and action property of a passing run has
its theorem.

## Abstractions

* One school and one currency; a wallet is a user. `wallets.status` is left
  out: no code sets anything but `active`. `Numeric(10, 2)` overflow is left out;
  amounts are integers (cents).
* A client's key is never the key of a reversal (`wallet_reversal:<id>`): clients
  send UUIDs. `NonNegativeBalance` speaks of the three operations of the module:
  the commission leg of a lesson debits without a test and is modelled elsewhere.
* Audit rows, notifications, logs and the rendering of answers are left out.
  Where an audit row is written in the same transaction, its failure is an `Abort`.
* The tutor's wallet changes in `TutoringSettlement` only by the legs; prices are
  multiples of five, so that 20 % is exact. `ended` is a second word for
  `completed`. The age test of the timeout's candidates is a free choice. A tutor
  who lost the school does not get another.
* In `Billing` a seat is a student in a class; plans, prices and receipts are one
  price, and a charge's `kind` says whether the amount read from the payload is
  that price. Students do not leave a class. Discount codes are left out:
  `apply_discount_code` has no caller in `src/`, and neither has
  `process_tutor_commission` in the wallet service nor a refund of a gateway.
* In `QuizAttempts` a mark is 0 or 1. The re-grading task of `tasks/grading.py`
  is enqueued by nothing. The sum a teacher's grading writes is modelled but no
  property speaks of it: what it should be on a doubled row is written nowhere.
* In `TenantScope` the five settings are an actor and a tenant. Failures of
  `set_tenant_for_request` itself, which it swallows, are left out; so are the
  SQL policies, which are text generated from a table.
* In `Gradebook` weights are not negative and exact ties of `round()` go to the
  even neighbour. All students are active members. Marks are not negative
  (`set_grade` does not refuse a negative one). That two first writes of one mark
  meet the unique index is left out: one of them fails whole. A lone weight under
  0.1 lets rounding push a grade outside its categories; the runs use weights of
  schools.
* In `NestedTx` no body ends the transaction of the session itself (none in `src/`
  does); a lost connection during COMMIT, whose outcome nobody knows, is left out.
* In `TopupReview` a child has one parent and top-ups are the only movements.

## Plan

Done: all modules of the table above.

Left, in this order:

1. Booking requests in `TutoringSettlement`, and its wallet shared with the
   operations of `WalletLedger` (an inflow spent before the commission is taken).
2. Class membership: capacity against joins, invitations and approvals, which
   `Billing` would share.
3. The deduplication of WhatsApp messages (`services/whatsapp.py`).

Proofs left: for the other violated properties, what `OnlyStaleCreditsLose` is for
the balance: that approvals and rejections which meet no stale row agree with their
deposits (`CreditIsApproved`, `PaidByBoth`, `ActiveIsPaid`).

## Not modelled

* SQL row policies, migrations, seeds, templates, translations and the browser
  client: generated or declarative text.
* AI services, mail, video, notifications: calls of external services, with
  counters in the memory of one process that fail open.
* Approvals of schools and roles, appeals, content, calendar, attendance, family
  links: handlers of one row, which the patterns of `TopupReview` and `Billing`
  repeat (a test on a loaded row before its lock).
* Celery: its tasks are called through a synchronous fallback; delivery is
  external.
