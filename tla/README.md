# Specifications of the LP platform

TLA+ models of the liquidity-provider platform in `src/`: an API (NestJS, PostgreSQL through Drizzle), worker
processes (BullMQ on Redis), a broker portal and an admin console (Next.js) and the packages they share. Brokers send
signed orders and ask for deposits and withdrawals; admins decide on money, brokers and each other; workers fill
orders and carry out approved actions; the pages show what is in the books. The modules model what makes this hard to
test: several processes that act on the same rows between awaits, transactions that overlap, jobs that are delivered
twice, processes that die in between, answers that come too late, and reports that read books which change.

Paths below are relative to `src/`; `api/` stands for `apps/api/src/modules/`, `workers/` for `apps/workers/src/`.

## Inventory

| Component | State | Operations | Interacts with | What is hard, what makes it correct |
|---|---|---|---|---|
| Order intake `api/orders` | `trading.orders` | `place` | HMAC guard (which broker), orders queue, audit service | row, job and audit row are three separate writes: ACCEPTED only for what the queue has |
| Order processor `workers/processors/order-processor.ts` | `trading.trades`, `trading.charges`, `ledger.*`, order status | `process`: load, fill, mark, publish | queue, PostgreSQL SERIALIZABLE, Redis channel `lp.events` | 8 slots per process, redelivery, crashes: unbroken chain per broker, one trade per delivery, commissions booked with their trade |
| Orders queue (BullMQ, external) | job state, lock, stall count | take, complete, fail, recover | order processor | a job whose lock lapsed is handed out again while its worker lives |
| Funding requests `api/broker-portal`, `api/admin/deposits` | `ledger.deposit_requests`, wallets, entries | submit deposit or withdrawal, approve, reject | ledger, audit interceptor, commissions | reads without locks at READ COMMITTED: one decision per request, covered withdrawals |
| Ledger `api/ledger` | `ledger.wallets`, `ledger.ledger_entries` | find or create a wallet, post, sum | everything with money | select-then-insert without a constraint |
| Audit interceptor `api/admin/common` | `audit.audit_logs` | wraps an admin handler in a transaction | all admin writes | an action and its audit row commit together |
| 4-eyes queue `api/admin/interventions`, `api/admin/approvals` | `admin.pending_actions` | wallet-adjust, approve, reject | interceptor, approval watcher | decisions race each other and expiry; nobody decides an own request |
| Approval watcher `workers/processors/approval-watcher.ts` | the same rows, ledger | `pollOnce`, `executeOne`, `expireStale` | `packages/core` dispatcher | polls overlap, a COMMIT's answer is lost, failing rows come back: once, and eventually |
| Chain verifier `workers/processors/chain-verifier.ts`, `infra/scripts/verify-chain.ts` | none | walk and recompute | trades | walks a chain that grows; recomputes hashes from database text |
| Admin sessions `api/admin/auth`, the guards of `api/admin/common` | `auth.admin_sessions`, `auth.users` | login, TOTP set-up and verification, recovery, reauth | every admin request | the guards hand rows to the handler that are some awaits old: suspension, tokens, secrets, single-use codes |
| Admin users `api/admin/admin-users` | `auth.users` | create, suspend, reset 2FA | sessions | admins act on each other at the same time |
| Broker administration `api/admin/brokers-admin` | `auth.brokers`, `auth.api_keys` | create, suspend, reactivate, delete | interceptor, HMAC guard | status read without a lock; the audit trail tells the status |
| HMAC guard `api/hmac` | none | verify a signed request | brokers, keys | a suspension while a request is verified |
| Trades API, portal dashboards, console queries `api/trades`, `api/broker-portal`, `api/admin/operations`, `api/admin/audit-query` | none | list, page, sum | everything with rows | several queries outside of a transaction, cursors, LIMITs |
| Positions feed, gateway `api/positions`, `api/websocket` | snapshot in Redis, sockets | mark to market, fan out | Redis channel | stored and published in two awaits, pushes overlap, the snapshot expires |
| Web and admin pages, SDK `apps/web`, `apps/admin`, `packages/sdk` | cached answers, forms, fields, pages | fetch, filter, page, export, submit | the API | the SDK gives up after 10 s and the server goes on; lists that shrink under an open page |
| Risk, matching, charges service, money | none | compute | | boundaries and rounding; the first three have no caller |
| Settlement, archive, broker login, infrastructure | none or external | count, upload, check a password, deploy | | not state of the system |

`PROJECT.json` lists the same components with the status of each, and all hazards at their lines.

## Modules

| Module | What it is |
|---|---|
| `TradeChain` | abstract: per broker, one append-only chain of trades |
| `TradeChainProofs` | the chain never forks |
| `OrderPipeline` | intake, queue, processor and their tables |
| `OrderPipelineProofs` | types, the chain, the refinement of `TradeChain`; how orders, jobs, trades, events, charges and wallets agree |
| `MCOrders` | instances for TLC |
| `FundingRequests`, `MCFunding` | deposit and withdrawal requests of a broker |
| `FundingProofs` | books, audit rows and status agree; one decision, no overdraft and no second wallet unless calls overlap |
| `FourEyes` | abstract: what the approval queue promises |
| `ApprovalQueue`, `MCApprovals` | requests, decisions and the watcher |
| `ApprovalProofs` | the queue does what `FourEyes` allows |
| `ChainVerify`, `MCChainVerify` | the worker and the script that verify the chains |
| `ChainVerifyProofs` | what they are silent about is as it was recorded, what they accuse was changed, and they agree |
| `AdminSession` | sessions, guards, two-factor enrolment, recovery codes, admin users |
| `BrokerAccess`, `MCAccess` | composes `AdminSession` with the brokers' life and the HMAC guard |
| `AccessProofs` | suspensions, tokens and audit rows hold for what begins after them; enrolment and recovery codes |
| `Reports` | operators: the queries of the dashboards, and what the pages make of the answers |
| `Portal`, `MCPortal` | the dashboards at work, while the books change |
| `PortalProofs` | types, paging, reports of several queries, figures and lists, the wallet page, the positions feed |
| `Sums` | lemmas about sums over finite sets, for the proofs about money |

### OrderPipeline

One action per await of `place` and of `process`; what happens between two awaits of one process is one step.

* `api`, `placed`: `Place` is the broker check and `repo.insert`, `Enqueue` is `queue.add`, `Reply` is
  `audit.record` (which swallows its errors: the audit row is there or not) and the answer. `ApiError` is an await
  that throws or a process that dies; nothing is undone.
* `job`, `stalls`, `owner`: BullMQ, external, from how `main.ts` uses it: jobs without attempts, a lock per active
  job, the stalled checker that hands a job out again at most `MaxStalled` times. A worker may lose its lock and
  go on (`LoseLock`); only the holder's outcome is recorded (`Release`).
* `pc`, `cur`, `snap`, `rowId`: the slots of the worker. `BeginFill` fixes the snapshot of the SERIALIZABLE
  transaction, `InsertTrade` draws the id from a sequence that no rollback takes back, `CommitFill` makes trade,
  charge, wallet and debit visible at once, if no other transaction has added a trade of that broker since the
  snapshot (`Serializable`). That guard is the meaning of SERIALIZABLE for two transactions that read the rows of
  a broker and add one; otherwise `RefuseCommit`, and the error ends the job.
* A delivery `<<o, k>>`, the k-th hand-out of the job of order `o`, records at most one trade; it serves as the
  ULID of that trade and, because the hash covers the ULID and SHA-256 is taken as collision free, as its hash.

Abstracted: prices, symbols, sides, the payloads of events; the commission is an amount per lot.

### FundingRequests

One broker, one currency. `form` is the portal's handler; `pc`, `target`, `verdict`, `wallet`, `basis` are those of
each decision, one action per await. The transaction of the interceptor runs at READ COMMITTED: `ReadRequest` reads
without a lock, `Decide` inserts the entry and takes the row lock with the UPDATE, `Commit` adds the audit row and
makes all visible. `basis` records the entries a balance check summed up, `seen` the decisions and the fills that were there
when a call began; no guard asks for them. `ChargeCommission` is the
debit of a fill (`OrderPipeline` has the transaction in detail). A broker made in the console starts with a wallet
and an opening credit, a seeded one without. A fill is one step here, so one that makes a wallet while an approval is
under way comes before or after that approval's own statements; the property about second wallets would allow it.

### ApprovalQueue

`WalletAdjust` queues what is over the threshold and posts the rest at once. `ReadAction` is the pipe, `findById`
and the test for one's own request; `UpdateAction` the UPDATE with its test of `pending`, which waits for the row
lock; `CommitDecision` the audit row and the COMMIT. A runner is one `pollOnce` in flight. `Claim` is its UPDATE
with its test of `approved`; `Execute` posts the pair, adds the audit row and commits; `ExecuteUnanswered` does so
and takes it for a failure; `ThrowPoisoned` and `ThrowFault` are the catch block; `Die` is a crash. `moved` counts
the committed ledger pairs of an action (both legs are posted to the broker's own wallet, so balances do not tell
them apart).

`PipeRefuses` says what the validation pipe may do. In the code it refuses every decision (see the notes below), so
approved rows come from SQL alone; `{TRUE, FALSE}` lets decisions through, so that the rest of the queue is
checked for what it was written for.

### ChainVerify

`RecordFill` is the fill of a trade in one step (`OrderPipeline` has its transaction and implements `TradeChain`, so a
row names the last row of its broker). `Edit` is what the chains are there to show: SQL that changes or removes a row,
past grants and trigger. A verifier reads the brokers (`ReadBrokers`), then the rows of one broker (`ReadRows`) and
walks over them (`CheckRow`) before it reads the next; fills and edits go on between the queries. The worker and
the script differ in `Findings` and in what makes `computeHash` throw.

A hash is the tuple of what is hashed, so it is collision free, and a decimal is its value and the number of places
printed: as few as possible in `Money.toString` (`MoneyText`), four in `numeric(20,4)::text` (`DatabaseText`). One
amount stands for quantity and price. Nobody notices that the last rows of a chain are gone: no row names them, and the
next fill follows on what is left. The properties say nothing of rows that were not read.

### AdminSession and BrokerAccess

A call is a request of an admin's browser. `ReadSession` is `AdminJwtGuard` up to the session row, `Admit` the user's row
and the guards behind it, `RevokeSession` the idle timeout, `Deny` a refusal; the handler then acts on the rows that
were read (`row`, `reauth`, `totp` of the call). Handlers that read nothing else are one step; `ConsumeRecoveryCode` and
`MarkRecovered` are the two UPDATEs of a recovery, `ReadBroker` and `UpdateBroker` the SELECT and UPDATE of a status
change, `CheckEmail` and `InsertBroker` those of an onboarding. The UPDATE and the COMMIT are one step: the row lock is
held in between, and nothing another call reads before the COMMIT differs.

What a browser sends it has: secrets, codes and tokens come from answers that arrived (`MadeBy`), and an answer that came
after the SDK's ten seconds is `lost`. Time is abstracted: expiry, idle time and the reauth window may be over at any
test. `began` and `seen` record which calls were over when a call or a signed request began; no guard asks for them.
They say what a race is: two calls overlap when neither was over when the other began. Passwords, hashes and TOTP codes
are right or wrong; a code is named after its secret. Logout clears a cookie and no row.

### Reports and Portal

A table is a sequence of rows, and the position is both id and timestamp; an answer is a sequence of ids. `Reports`
has an operator for each query (WHERE, ORDER BY, LIMIT, sums) and for each page (sums, filters, pager, exports).
`Portal` has the steps: `Fill`, `PostRequest`, `Approve`, `Reject` change the books (one step each: the transactions
are the subject of `OrderPipeline` and `FundingRequests`); `RunQuery` is one query of a handler with several;
`ReadPage` one page of the trades API, read by an external client that follows `nextCursor` (no page of the repository
does); `Open` to `Close` are what a reader does with a table; `Submit` to `FetchAgain` the wallet page's forms with
the SDK's timeout and react-query's cache; `ReceivePush` to `ExpireSnapshot` the positions feed.

The list of the wallet page is react-query's entry for it: whether it has `data`, what its fetch has read (`fetch`,
`got`), and whether a submission has invalidated it. `Succeed` invalidates it: a fetch under way is dropped and sent
again if there is data already, and kept if there is none (that is how react-query 5.59.0, which the repository pins,
treats a first fetch), so a first list that the server had read by then (`early`) may settle without the request that
was reported. The next fetch (`FetchAgain`, or that of another submission) shows it. What the cache does with the list
of a page that was left is not modelled.

Reading changes no row, the forms and the feed share nothing but the books with the rest, and each property is about one
of them. So a behaviour watches one of four parts (`part`): the calls, the tables, the wallet page or the feed. Steps of
the other parts that change the books are in each part; those that do not would be stutters for its properties. In
`tables`, pushes also change what the blotter shows. In `wallet` no trade is filled: a fee would only lower the balance a
withdrawal is held against, as an approved withdrawal does.

Abstracted: several currencies, and what formats and labels say. `LIMIT`s, the page size and the floor are constants.

## Runs

| Run | Instance | Checks |
|---|---|---|
| `orders` | 2 orders of one broker, the second closes a position; a second broker with a wallet; 2 slots, 1 stall per job, 2 faults; 360,652 states | safety of `OrderPipeline`, that it implements `TradeChain`, and that an ACCEPTED order settles |
| `orders_replay` | 2 orders with one `clientOrderId`, no fault | violated: replay is not stopped |
| `funding` | 1 deposit, 2 withdrawals, 3 decisions, 2 commissions, with and without an opening wallet; 2,195,326 states up to symmetry | books, audit and status agree; what races may do, second wallets included |
| `funding_rejected` | 1 deposit, 2 decisions | violated: a REJECTED request moved money |
| `funding_floor` | 2 withdrawals, 2 decisions | violated: the floor is passed |
| `approvals` | 2 adjustments over and 1 at the threshold, 2 admins, 2 decisions, 2 polls, 1 poisoned action, batches of 2, 1 fault; 71,952 states | `FourEyes` is implemented; audit; execution |
| `approvals_starved` | batches of 1, a poisoned action first | violated: an approved action starves |
| `verify` | 3 trades of 2 brokers, the worker and the script, 2 edits while one broker has all trades, else 1; 1,453,374 states | silence, alarms and agreement of the verifiers |
| `verify_format` | no edit | violated: an untouched table has breaks |
| `access` | 2 founders and an admin to be added, a session beside the founders' own, 2 calls, 1 broker and 1 email, 1 signed request; 606,095 states up to symmetry | suspensions, tokens, secrets, codes, audit rows; what overlapping calls may do |
| `portal` | 4 legs of 2 brokers, a page size of 1, LIMITs of 1 to 3, 2 pushes; 2 submissions; 2 to 4 writes, by part; 1,049,749 states | paging, reports of several queries, figures of the pages, submissions, the feed |
| `portal_net_pnl` | an open leg, closed under its `clientOrderId` or under the LP's trade id | violated: the trades page and the dashboard show different net P&L |

Bounds. Two orders of one broker are what a fork of a chain needs, and two slots what an overlap needs; one stall per
job is BullMQ's default, and with it a job is handed out twice while its first worker may be anywhere. Two faults let
a lapse of a lock meet a crash. Three decisions let two race and a third come after; two withdrawals and a commission
are the debits one balance check can miss, and with a second commission two fills meet a broker without a wallet. Two
polls and two decisions are the pairs that race for a row, and the batch of two next to one poisoned action leaves
room for the healthy one (`approvals_starved` shows what happens otherwise). Three trades are the least that have an
altered row behind a removed one and a row after both, and the amounts are one that is printed alike by Money and the
database and one that is not, which at most one trade has. Two calls are what a race needs, and each property of
`access` is about a pair of calls; the third admin is the one who is created, and tells the roles apart. Calls and
founders are interchangeable, so `access` uses their symmetry, and `funding` that of calls and of fills; no property
orders them. In `portal`, every LIMIT is below what the writes can add, so that lists both fit and are cut off; the
second broker's trade leaves a gap among the ids; a page size of 1 has several pages of two rows. Two submissions are
what a repeated one needs. `MaxFaults`, `MaxStalled`, `MaxEdits`, `MaxWrites`, `MaxRequests` and `MaxPosts` are the
only bounds on counters.

Fairness. `orders`: running slots go on (`Process`), the stalled checker and the polling of free slots are
periodic in BullMQ. Nobody has to send an order or a request, and faults are never forced. `approvals`: the timer
keeps polling and a poll goes on while its row is not locked; a decision may stay open for ever, but locks a row
that is not approved.

`access` and `portal` state no liveness: nothing there retries or has to happen.

Deadlock is off where orders, requests, actions, calls and writes end; the verifiers start again, and their runs check it.

## Findings

Each has a run that violates the property named, and is written up in `PROJECT.json`.

* A replayed `clientOrderId` is executed again (`docs/security.md:8`).
* A REJECTED deposit may have credited the wallet (`deposits-admin.controller.ts:162`).
* Withdrawals together pass the floor (`0004_request_kind.sql:5`).
* Failing actions starve approved ones (`docs/admin-operations.md:47`).
* Every trade with a decimal that ends in zeros is reported as HASH_MISMATCH (`docs/adr/0004-hash-chained-trades.md:22`).
* The trades page's net P&L is not the dashboard's: it looks for the open of a close under the LP's `tradeId`, the
  dashboard under the open's `clientOrderId` (`trades/page.tsx:108`).

## Proofs

Checked by TLAPS for every value of the constants, from the assumptions of each module (`OrdersAssumption`,
`FundingAssumption`, `ApprovalAssumption`, `ChainVerifyAssumption`, `SessionAssumption`, `ReportsAssumption`,
`PortalAssumption`: the types of the constants, and that the table of trades a verifier walks is finite;
`DistinctAssumption`, `FundingDistinct`, `ApprovalDistinct`, `SessionDistinct`, `BrokerAssumption`, `ScreensAssumption`:
the sentinels are not values), which TLC evaluates on every run.

* `OrderPipelineProofs`. `TypeOK` is inductive. `ChainLinear` is not: a commit preserves it only because the id drawn
  at the INSERT is above all ids of the rows in the snapshot (`FillInv`: the snapshot was the broker's rows when it was
  taken, those rows only grow, and the row's id is above each of them) and because `Serializable` makes the snapshot
  the current rows. That no hash occurs twice needs that a delivery is processed once: `QueueInv` bounds deliveries
  by the stall count, `DeliveryInv` says that two slots never hold the same delivery, `OnceInv` that a delivery still
  before its commit has no trade. From these: `ChainStaysLinear`, `IdsOnlyGrow`, and `PipelineBuildsChain`, the
  refinement: a commit of a fill is an `Append`, every other step a stutter.
* `TradeChainProofs`. `ChainNeverForks`: hashes are distinct, each predecessor is a hash of the chain or GENESIS, and
  the head is nobody's predecessor.
* `OrderPipelineProofs`, second part. `LifeInv` says for each order what its handler, row and job may be at the same
  time, for each slot what its position implies of the trade and the status, and for each job and event what they
  imply of the order. From it: `TradesBounded`, `FilledOrdersTraded`, `OutcomesFilled`, `AcceptedOrdersQueued`.
  `CommissionAlwaysBooked`: a fill makes a wallet only together with a trade, so a snapshot that has the current
  trades of its broker has its current wallets as well (`SnapInv`), and what `Serializable` refuses keeps the wallets
  single although no constraint of the table does.
* `FundingProofs`. `FundingInv` says of a call at work that its request has a row and that none of the decisions it
  saw when it began is about that request (`CallInv`); that a call is seen only after it has committed, with one
  audit row (`SeenInv`); and that a call's wallet is committed or its own, and the opening one where there is one
  (`WalletInv`). From it: `FundingTypeCorrect`, `BooksMatchAudits`, `ShownStatusAudited`, `DecidedTwiceOnlyInRace`,
  and that an opening wallet stays the only one. The row lock is not needed for any of them: it orders overlapping
  decisions, but refuses none. `SecondWalletNeedsRace` is about a broker that has none at first: a wallet of a call is
  committed by that call, a fill makes one only when there is none, so at most one is a fill's, and a call that makes one
  found none and so has seen nobody who had (`RaceInv`); a call that begins later sees who made the first.
  `OverdrawnNeedsRace`: an entry of a request is of the call that approved it (`EntryInv`), and a withdrawal that passed
  its check is covered by entries of its wallet that do not include its own, a check that saw another withdrawal having
  seen all that one saw (`BasisInv`). So of the withdrawals of a wallet one saw the most; if it saw every other debit,
  what it saw covers it, and what it did not see are credits (`CoveredUnlessRaced`).
* `ApprovalProofs`. `LockInv`: whoever holds a row's lock has found it in the status its UPDATE asks for, and nobody
  else can change it - a decision holds a pending row, a runner an approved one. `BookInv`: what the ledger and the
  audit log say of an action in each status. From these: `ApprovalsTypeCorrect`, `LargeMovesApproved`,
  `VerdictsUnique`, and `QueueKeepsFourEyes`, the refinement: a commit of a decision, an execution and an expiry are
  the steps of `FourEyes`, everything else a stutter.
* `ChainVerifyProofs`. `SilenceIsFaithful`: a changed row keeps the hash it was recorded with (`FromWritten`), so a row
  whose recomputed hash is the stored one has the recorded columns (`HashTellsRow`), and `expectedPrev` is GENESIS or
  the hash of a row that was read of the same broker (`OneChain`). `Checked` says so of each row the walk has passed.
  `BreaksAreCaused` and `WalkersAlwaysAgree` need the converse, that the walk judges each row by its true predecessor
  (`OrderInv`). Of the table: ids and trades of the rows as written are single (`Identified`), each names a row below
  it (`Chained`), and a written row whose predecessor is still there follows on the row next below it (`Linked`:
  a removed row leaves a gap that nothing can step over). Of a walk: one SELECT gave it a broker's rows (`ReadOnce`), it
  goes up their ids (`Upwards`), `expectedPrev` is the hash of the row below the next one (`Positioned`), and what it has
  found is a function of the rows read alone (`Judged`), whichever of the two programs walks. `ChainTypes` is `TypeOK`.
* `AccessProofs`. `TypedInv` (rows, calls, brokers, and that a status call has read a status) is inductive, and `StepFacts`
  says once what a step may do to calls and sessions: one call moves on, a call that is over stays what it was, a
  session keeps its owner. Each safety proof then adds what it needs and looks at the few actions that matter.
  `SuspensionsKnown`: who is suspended was suspended by a call that is over, of another admin; with `BeganDone` (what was
  over when a call began is over) and the fact that nothing clears a suspension, `SuspendedAdminsRefused`, and
  `LockedOutOnlyInRace`: the admin who suspends the last one was suspended by then, and got through, so the two overlap.
  `TokensKnown`: the token of a session, and the one a call has read, is as new as every unlock that is over:
  `SupersededTokensRefused`. `ActiveKnown` and `HitsKnown`: an active broker was reactivated after each stop:
  `SuspendedBrokersRefused`. `TrailKnown`: what a call has read was the last row's status, unless a call that overlaps
  it has added a row since: `StatusesAudited`. `FactorsRead`: the second factor that an admitted call has read is the
  stored one, unless a call that changes it has finished after this one began, and so overlaps it. From it
  `EnrolledWithCheckedSecrets`, and with the fact that codes are distinct and of a generation that was shown
  (`DistinctCodes`, `CodesSent`: removing one by its position removes no other) `RecoveryCodesStayExact`.
* `PortalProofs`. The rows of an answer are given by `CHOOSE`; a row's place is one more than the number of rows above
  it (`PlaceTaken`: the n rows have n different places among n), so an answer goes down (`NewestDescends`), has every
  row with fewer than LIMIT above it (`NewestShows`), and a full one has all rows down to its last (`NewestRows`).
  `PagingShowsAll`: the pages so far hold the broker's trades of the first page's time that are above the cursor
  (`Collected`), and new trades come above those. `SubmittedOnceThenShown`: of the submissions of what is in a form,
  one at most is neither refused nor given up (`Intents`), and what was read of the list after a request was reported
  shows it (`Fresh`): a list with data is invalid until such an answer is in, and what a fetch without data had read
  before a report is marked `early` until it is replaced. `BlotterNeverGoesBack`: what is behind a push was answered,
  and so is the event (`Answered`). `PortalTypes`: all of these together, with the audit rows and the open page.
  `ReportsReadInOrder`: the queries answered so far are the first ones (`Asked`), and each answer is that of the first
  rows of the books, as many as there were at the time (`CommissionsRead`, `DashboardRead`, `ConsoleRead`), which rows
  that are added later do not change. `FiguresAlwaysAgree`: `BalancesAddUp` is the invariant, an entry for each charge
  and for each approval and none else; a list as long as its table has all rows (`WholeList`), so the sums of a page
  are those of the server, and sums over all rows are sums over brokers of sums over the rows of each.
  `ListsAlwaysAgree`: each decided request has one audit row, with its verdict, and no other request has any
  (`DecisionsLogged`); an answer is told by the places of its rows (`NewestIs`), so answers above and below a time
  make up the whole one (`NewestMeet`). `ReportsAlwaysAgree` joins the two, as the run checks them. `TablesStayWhole`:
  a filter keeps the rows at some places (`Keep`; the n-th of them is the one with n-1 below it), so it keeps each
  selected row once and no other (`KeptRows`, `FilteredRows`). Row k is on page (k-1) div PAGE_SIZE + 1 and on no
  other (`OnePage`, `RowOnOnePage`), the pages' lengths add up to the list's (`PagesTotal`, by `SumGroups`), the
  clamped page starts within the list (`PageHasRows`), and an export is as long as the filtered list (`ExportLength`).
  What makes this true of an open table is `TableInv`: its rows are numbers, each there once, whatever was booked
  since they were fetched (`AnswerRows`), and on the audit page each is of the action and the times in the fields
  (`Found`), now as when it was fetched, since audit rows only get more (`AuditsGrow`). A full A-book counts down from
  the last trade (`AllNewest`), and what is kept of one broker has the places it has among that broker's trades
  (`KeptNewest`).
* `Sums`. The community modules define a sum by a choice of one element after the other. `SumsExist` and `SumsAgree`
  say that such a function exists and is the only one, `SumAdd` that any element may be the first; from these come
  unions (`SumUnion`), groups (`SumGroups`), bounds (`SumAtLeast`) and the sums of equal, zero or negated values. Where
  a proof by induction would be natural, a least counterexample is taken instead (`SmallestPart`): inclusion is well-founded
  on the parts of a finite set.

The constants' assumptions are what the code gives: LIMITs and page limits are positive, fees, prices, quantities and
amounts are not negative, an account is one broker's, and a request is a deposit or a withdrawal. A page has at least
one row (`PagesAssumption`), a push carries a number of positions, and a date field is empty or a time
(`FiltersAssumption`); that a menu or a search field asks for one value is the guard of `Requery`, and a page below 1
is excluded by the invariant, not assumed.

Only model-checked: liveness (`AcceptedSettles`, `ApprovedIsExecuted`; the prover does not treat fairness and ENABLED). All
other properties of the passing runs have a theorem.

## Plan

1. Done: `TradeChain`, `OrderPipeline`, `FundingRequests`, `FourEyes`, `ApprovalQueue`, and the proofs of their safety.
2. Done: `ChainVerify` and the proof of what its silence means.
3. Done: `AdminSession` and `BrokerAccess` and the proofs of their safety; `Reports` and `Portal`.
4. Done: the proofs of all other invariants of `AdminSession`, `ChainVerify` and `Portal`.
5. Done: sums with lemmas of their own, and from them overdrafts, reports of several queries and the pages' figures.
6. Done: `TablesWhole`, with the filter given by the places of the rows it keeps, as `Newest` is.

## Noticed, without a run of their own

* The approvals controller's approve and reject answer 400 to everybody, and so never 403 to the requester as
  `docs/admin-operations.md:44` has it: `@UsePipes` gives the `actionId` of the path to the body's schema too
  (`approvals.controller.ts:64`). `ApprovalQueue` has it as `PipeRefuses`; with `{TRUE}` no decision gets through.
* `expireStale` writes no audit row, though the schema asks for one for each transition.
* A request that is reported during the wallet page's first fetch may be missing from the list until the next fetch
  (`features/account/hooks.ts:50`): the invalidation does not repeat that fetch. Nothing in the repository promises
  otherwise.
* `broker-portal.controller.ts:376` says that equity is balance plus floating P&L; the answer has the balance.
* The console's "Total PnL" sums ledger entries of type TRADE, which nothing writes: it is zero (`FiguresAgree`).
* The Clear button of the wallet page keeps the page number, the date fields do not; the pager's clamp hides it.
* Commissions are debited without a floor, so a balance may become negative.
* A closed broker can be reactivated by id.

## Not modelled

* Risk, matching and the charges service: pure functions without a caller. Rounding of `Money`.
* Settlement and the audit archive count rows and upload files; they change no row.
* The broker's dashboard login (a password check and a JWT), and how a socket connects.
* The order list and `me` endpoints, memory and queue figures of the console: single reads without a claim.
* Parsing of answers in the SDK, validation schemas, formatting, layout and logging, except where a finding is about them.
* Containers, CI and the seed, whose users and brokers are initial states.
