# TLA+ models of mountainbakes-server

This directory holds TLA+ specifications of the Mountain Bakes server (an Express/TypeScript API over
Postgres, most of whose state changes are plpgsql functions called through Prisma), the TLC runs that
check them on small instances, and TLAPS proofs about them for every value of their constants.

## 1. The system and its parts

One API call usually ends in one plpgsql function, which is one transaction. That makes most operations
atomic, and puts the hard behaviour in four places:

* what the API reads **before** the function, in a transaction of its own (checks, message texts,
  resolved links, statuses), and uses after somebody else changed it;
* calls that are **several transactions** (a delivery moved product by product, a return raised product by
  product, a closing computed in three queries), and break off or are overtaken between two of them;
* work that **outlives a request**: the WhatsApp outbox, its leases and Meta's webhooks, scheduled
  jobs with claims that go stale, idempotency keys;
* **people deciding in any order**: versions, approvals, rejections, reversals, corrections of what was
  already booked.

| part | state it keeps | operations | hard behaviour | what makes it correct | module |
| --- | --- | --- | --- | --- | --- |
| Purchase demands (`20261020000002_whatsapp_purchasing`, `services/purchasing`) | demand, lines, quotations, bills, links, receipts, ingredient stock | create, edit, verify, send, resend, cancel; submit/approve/reject quotation and bill; delivery, receipt, stock adjustment | checks and texts made from an earlier read; links resolved before the submission; a version overtaking an approval; repeated submissions | what was sent was checked; one link in force; bill made out against the approved version; stock follows receipts | `PurchaseDemand` |
| Payments and supplier credit (same migration, `finance.service.ts`) | payments, credits, payment status, vouchers | record, approve, reject, reverse; request, decide | Finance does not lock the demand; vouchers are corrected in the general ledger; a bounced repayment reopens a credit | never overpaid; statuses agree with the posted payments; one voucher per payment | `SupplierSettlement` |
| WhatsApp outbox and webhook (`services/whatsapp`) | outbox rows, messages, webhook events | claim, send, complete, retry, apply status, record inbound | lapsed leases, crashes, statuses overtaking the record of a send | no message lost, no dead link resent, statuses move forward | `WhatsAppOutbox`, `MessageLife` |
| Finance ledger (`0_baseline`, `finance-ledger.service.ts`) | entries with a running balance, day closings | post, edit, adjust, delete, recompute, close day | check before the lock, a closing computed in several transactions, lock order | the balance is the prefix sum; a closed day stays as signed off | `FinanceLedger` |
| Cash deposits (`0_baseline`, `20261028000002`, `cash-transfers.service.ts`, `support.routes.ts`) | deposits and their receipts in the ledger | create, edit, submit, decide, resubmit; correct, redate, amend, delete | two corrections read before they lock; the ledger changes the receipts without the deposit | the book follows the deposit; no decision without Accounts; closed days kept | `CashDeposits` |
| Idempotency of HTTP requests (`middleware/idempotency.ts`) | a key per operation | claim, complete, release, purge | crash or closed connection between the handler's commits and the recording of its answer | applied once; the client hears the truth, and hears something | `Idempotency` |
| Branch returns (`stock.routes.ts`, `branch-returns.service.ts`) | return rows, branch stock, return stock | raise, revise, withdraw, resubmit, decide, record, transfer | several transactions per call, rows written by id after an earlier status check | units are in one place; received once; a decision stands | `BranchReturns` |
| Branch demands on the production pool (`production-orders.routes.ts`, `support.routes.ts`) | demand, lines, pool, two movement ledgers | create, add, edit, review, verify, approve; correct, delete | a check under locks and a write of other lines; goods moved after the commit; corrections retried | what is promised is covered; what arrives is what left and what the lines say | `ProductionOrders` |
| Closing of a business day and its summaries (`daily-closing.service.ts`, `closing-notifications.service.ts`) | a claim per date, reports, sent logs | claim, archive, record; dispatch, log, escalate | two first claims, stale claims, dispatches that overlap or die | one run closes a date; nobody is spammed or forgotten | `DayClosing` |
| Price activation (`price.service.ts`, `price-activation.job.ts`) | prices, their history, a claim per date | change now, schedule, activate | rows read before their locks; job killed, repeated, overlapping | the live price is the newest; a scheduled price arrives | `PriceActivation` |
| Backups (`services/backup`, `claim_backup_job`) | a lock per type, S3 objects and manifests | claim, dump, upload, check, release; retention | stale lock of a slow run, lost answers, retention from an older read | a verified row is there; the newest is kept; locks are freed | `Backups` |
| Finance approval workflow, loans, payroll, branch accounts, daily sale records | documents and their postings | submit, decide, post | each step is one locking function | see section 8 | |
| Everything else (sessions, reports, exports, data engine, notifications, master data, generated client) | | | read-only, best effort or plain CRUD | see section 8 | |

`PROJECT.json` lists every part with its sources and status, and under `hazards` what in this code is hard
to test, each at its line, with the properties that cover it.

How the parts meet: demands queue messages in the outbox; payments, deposits and vouchers post into the
finance ledger through `post_finance_ledger_entry`, where they meet at one advisory lock; a route that moves
stock runs behind the idempotency middleware; the nightly jobs (closing, prices, backups) run in every API
instance and meet at a claim row. Each module keeps the interface of its neighbours and leaves what is behind
it to theirs: `SupplierSettlement` has the ledger's lock and its corrections of a payment's voucher,
`WhatsAppOutbox` knows which messages carry a link, `CashDeposits` has the general ledger's edits of a receipt
and its closings, `Idempotency` takes a handler as a sequence of commits. `WhatsAppOutbox` instantiates
`MessageLife`, the promise made to staff and suppliers, and implements it.

## 2. Conventions

* A plpgsql function, or one Prisma transaction, is one action, with all the helpers it calls. A function that
  raises changes nothing: the action is not enabled. Where a function waits for a second lock after it has
  looked at something, it is several actions.
* An API call that makes several transactions is several actions of one *caller* (`call`, `at`, `tx`, `worker`,
  `request`, `run`, `screen`, `portal`: what the request has read and where it stands). Between any two of them
  other callers move, and the call may break off.
* `faults`, `slips`, `loads`, `edits`, `turns`, `calls` count what a bound bounds. `crossed`, `outlived`,
  `mishaps`, `marred`, `strained`, `touched`, `overtaken` and `torn` are history variables: they name the causes
  a property excuses, are set in the step where the cause occurs, and no guard reads them. A property with such
  an exception says exactly when the code's promise may fail; section 7 describes each case.
* A bound is a constant named `Max...`, used in guards only, except where the code itself has it
  (`MaxAttempts`, `MaxTries` of the outbox; `Attempts` of the price job; `MaxParts` types the parts of a handler).
* A definition that ends in another word than its neighbour (`ClaimedStale` before `Claimed`, `OutstandingPending`
  before `Outstanding`) and is used nowhere is a mutant of it; see section 4.

## 3. Modules

### PurchaseDemand

One demand from draft to goods received. Each action is one plpgsql function of the migration, with all the
helpers it calls (`purchase_issue_token`, `purchase_revoke_tokens`, `enqueue_whatsapp`,
`apply_ingredient_movement`). Every one of those functions locks the demand row first and holds it to the
end of its transaction, so a function is one atomic step.

| variable | code |
| --- | --- |
| `demand` | the `purchase_demands` row: status, revision, verified revision, current and approved version, approved bill, delivery status; `content` stands for header and lines |
| `quotations`, `bills` | `purchase_quotations` (index = version), `purchase_bills` |
| `tokens` | `supplier_access_tokens`, oldest first: live, expired or revoked |
| `receipts`, `goods` | `purchase_receipts`, and per line the received and damaged totals, manual movements and stock balance |
| `messages` | `whatsapp_outbox` rows by dedupe key, with the content they were composed from and the link they carry |
| `screen` | what a request of a staff member read before its function runs |
| `portal` | the link a supplier's request resolved, and the version its page showed |

`StaffRead` and `PortalResolve` are the reads in front of a function; `Verify`, `Send`, `ResendEarly`,
`CancelEarly`, `PortalSubmitQuotation` and `PortalSubmitBill` use them later. `ResendLate`/`CancelLate` are
the same calls when the read happens after the demand was sent: from then on its content no longer changes,
so the read is part of the call.

Abstractions: content is one of two values (passes the checks of `verifyDemand`, or does not); rates and
totals are reduced to what the functions compare (a positive total; equal quantities and charge); units,
names, wording and events are left out. Links expire by an action of their own.

### SupplierSettlement

The payments of one approved bill. Production's functions are one action each (they hold the demand's and
the bill's locks). Finance's `supplier_payment_approve` and `supplier_payment_reverse` are transactions of
three steps: `BeginApprove`/`BeginReverse` (row lock of the payment, the checks), `Refresh` (the ledger lock
is taken inside `post_finance_ledger_entry`; the posted payments are read and the demand's and credit's new
statuses computed), and `CommitApprove`/`CommitReverse`. `Rollback` may end a transaction at any point. The
variables are `payments`, `credits`, `book` (the ledger entries per payment), `paymentStatus` (of the
demand) and `tx` (per clerk). `EditVoucher` and `DeleteVoucher` are the general ledger's own corrections
(`edit_ledger_entry`, `reverse_finance_ledger_entry`), and `DeskDelete` the Help Desk's deletion, of any entry;
none of them knows anything of the payment. Closed days are
left to the ledger module; ledger heads, methods and references are abstracted, and amounts are small
integers instead of `numeric(14,2)`.

### WhatsAppOutbox and MessageLife

How a queued message reaches Meta and how Meta's receipts come back. Each database function is one step; the
send is a network call outside any transaction, so claiming a batch, delivering a row and recording the
answer are three steps of a worker, and the process may die, or the answer or its bookkeeping be lost, between
any two of them.

| variable | code |
| --- | --- |
| `outbox` | a `whatsapp_outbox` row per message: status, attempts, `ripe` (due, or its lease has lapsed), and whether its text still carries the link |
| `message` | `whatsapp_messages`: status and `provider_message_id` |
| `worker` | per API process: the rows it claimed and has not sent, and the answer it has yet to record |
| `meta` | what Meta accepted, in order: the position is the id it gave (external) |
| `events` | `whatsapp_webhook_events` by dedupe key: stored or processed, and how often it was tried |
| `faults`, `retries` | what the bounds count |

`Linked` are the messages whose `masked_content` is set: they carry a supplier link, which is masked in the
row once Meta took the message. `LeaseOutlasts` says whether a lease outlives the batch of a live worker:
`outbox.ts:31` argues that it does. The run assumes it; the theorems `NeverADeadLink` and `LinkToldRight`
hold without it.

`MessageLife` is the abstract specification: one send at a time, until an answer of WhatsApp is on record; a
further copy goes out only when the answer to the former was lost, on its way (`SendUnheard`) or before it was
recorded (`Lose`); once an answer is on record the status moves forward or fails, no copy follows and the
message never waits again. `WhatsAppOutbox` implements it for the messages with a link (`LinkLife`): `shown` is
the status staff see, `place` tells whether the row is done (`known`), a worker has an answer to record (`sent`)
or neither (`here`), and `copies` counts what Meta really took. The copies are not bounded by one: a send that
times out is repeated, and after the last attempt by a person (section 7). For plain messages not even this
holds, and the code does not mean it to: a retry sends again what Meta took.

Left out: templates and the 24-hour window, signature checks, inbound messages, the wording of errors.

### FinanceLedger

The general ledger and the closing of a finance day. A posting (`BeginPost`, `LockToPost`, `CommitPost`)
checks that its day is open, then waits for the ledger's advisory lock, reads the last balance and inserts. A
correction (`Look`, `BeginEdit`, `BeginAdjust`, `BeginDelete`, `BeginDeskDelete`, then `CommitUnmoved`, or
`LockToRebalance` and `Rebalance`) locks its voucher's row, checks its days, changes it, waits for the same
lock and rewrites the balances behind it. An edit sends the fields it sets and, if it likes, what its screen
showed of some (`set`, `expected`): the latter are compared under the row lock, and a field it does not set stays
what it is then (`OnRow`). `closeFinanceDay` is three calls of their own: `ReadDay`,
`CountPending`, `InsertClosing`. `Abort` ends any call: a refusal, a lost connection, or the victim Postgres
picks of a deadlock. The variables are `entries` (posting order, with the stored running balance), `pending`
(documents waiting, per day), `closings` (per day, the net figure signed off) and `tx` (per clerk).

A voucher is reduced to its day, its signed figure and whether it was deleted, by the book or by the Help
Desk; heads, accounts, wallets, series and references are left out, and the figures of a closing are reduced
to their net. A voucher that changes wallet without changing its figure is not represented. What counts as
pending is one kind of document.

### Idempotency

The middleware around a handler. A request is `sent`, claims its key (`Claim`, or `Repeat` when the row is
there: replay, "in progress", parked when the claim is stale, refused when the body differs), runs the handler
(`Commit` per transaction, then `Succeed`, `Refuse`, `StopShort` or `Break`), records the outcome (`Record`:
complete for a success or a reported shortfall, release for any other refusal) and answers (`Deliver`).
`ClaimFails` and `RecordFails` are failed database calls, `Close` is the `close` event of the connection (under
a running handler it settles the request: nothing will be recorded), `Crash` the end of the process, `KeyAges`
and `Purge` the clocks.

| variable | code |
| --- | --- |
| `keys` | `idempotency_keys`: in progress (stale or not) or completed, with the fingerprint |
| `request` | an HTTP request on the server: step, connection, what its handler has committed |
| `applied` | what the handlers committed, per operation, body and part (external) |
| `torn` | of that, what handlers that broke had committed when their 500 gave the key back (history) |
| `expired` | the business date of the operation has left the sync window of seven days |
| `heard` | what the client was last told (external) |

A handler may throw after any of its transactions (`Break`). The error handler's 500 has no `committed`, so the
middleware releases the key and the next attempt starts from the beginning: what the broken handler had committed is
applied again. `torn` counts exactly those parts, in the step that releases the key, and `AppliedOnce`,
`AnswersAreTrue` and `KeyRemembers` are about the rest; the run breaks handlers before, between and after the two
parts. A refusal that reports its parts is no such case: releasing its key would break `AppliedOnce`.
`Reports` are the operations that list what they committed in a refusal (`persistIfCommitted`).

### BranchReturns

Returns from a branch to Production. `RaiseStart`, `RaiseCommit`, `RaiseStops`, `RaiseInsert` are
`POST /stock/return`: the products leave the branch one by one (`commit_branch_return`) and the rows are
inserted last. `Load`, `Move`, `Write` are a revision or withdrawal: the row is read, the difference of units
moves, the row is written by its id. Resubmission guards its write by the status, and so do the decisions, whose
movement of the branch's units (`Settle`: the refund of a rejection, the debit of a return Production recorded
itself) is a transaction after them. `Transfer` spends return stock, `Sell` and `CloseDay` are the branch going on
meanwhile, `Break` ends a call anywhere. `off` and `credited` are the two movement ledgers by return id,
which the code uses as their idempotence key.

### ProductionOrders

Branch demands on the central pool. `Create`/`Insert`, `AddItem`/`Insert` are an unlocked look and an insert.
`CheckReview` is the check half of `review_production_order_checked`, under the pool rows' locks, and
`WriteReview` its update of whatever lines the demand then has; `Override` is the admin's way round the check.
`Verify` checks and commits the branch's count; `MoveOut` and `MoveIn` move the goods afterwards, a line
and a ledger at a time in any order, each idempotent by (demand, product, type) (`Once`): of two lines of one
product one moves, and the two ledgers need not take the same one. `StartCorrect`, `CorrectLines`,
`FixBranch`, `FixPool`, `Resolve` are the help desk's correction of a demand under a query, `Delete` its
deletion. `Prepare` and `Sell` move the pool. `Fail` breaks a request off: a correction's movements are awaited
one by one, so the rest is never made, but a delivery's are sent together (`Promise.all`), so any of those under
way when one rejects may still arrive.

`StartCorrect` reads the query without a lock, so several admins may pass its check with one query, and several
queries may be about one demand. `marred` holds the demands one of whose movements was lost, set at the movement:
one that broke off (`Fail`), that found its key taken (`MoveOut`, `MoveIn`, `FixBranch`, `FixPool`), or that
`CorrectLines` does not ask for because the goods of a verified demand have not arrived. Overlapping corrections,
resends and corrections of corrections are not excused as such: they mar a demand only if a movement is lost.

A line keeps the one figure that counts (wanted until approved) and who put it there; packing lines, the
order window and prices are left out, and so is the manual adjustment of the pool, which is one function.

### DayClosing

`runDailyClosing` and `dispatchClosingSummaries` for one date, by the job and by hand, in two instances.
`Claim` finds the row of the date and holds it; `LookInVain` and `InsertClaim` are the same function when there is
no row to hold. `Succeed`, `AnswerLost` and `Fail` build the archive and write the outcome by the date alone.
A dispatch reads the reports (`ReadReports`), stores and deletes them (`Persist`, `PersistFails`), reads recipients
and logs (`ReadRecipients`, `RecipientsUnread`), sends and logs one delivery at a time (`Send`, `Log`) and escalates
(`Finish`). `row.archive` is a ghost: which run's archive the row ended up with.

### PriceActivation

`Ask` and `Apply` are a change of price: the business date is computed in the API, the function runs later.
The job of an instance claims the date (`Claim`, `Skip`), reads what is due (`ReadDue`), locks the products one by
one and activates (`LockNext`, `Commit`), closes the run (`Close`); `CallFails` is a failed or unanswered call,
retried `Attempts` times, `Crash` the end of the process, `ClaimAges` the takeover of a stale claim, `NextDay`
the 2 AM tick. `history` is `product_price_history` by version, each row with its new and old price, its date, its
status and how often `activated_on` was set; `lock` is `price_activation_locks`.

### CashDeposits

A deposit and its receipts. `Create`, `Edit`, `Forward`, `Approve`, `RejectDeposit`, `Resubmit` are the branch,
Accounts and Finance; each is one function or one conditional update. The help desks' `AmendWrite` and `CorrectWrite` use
the row their call read earlier (`call`); deletion and redating hold the row. `Slices` are the receipts a
deposit is worth (cash and bank together, fuel apart), and `sync_cash_transfer_entries` is one operator: claim the live
receipt of each slice, change, insert or remove. `EditVoucher` and `RemoveVoucher` are the general ledger, `CloseDay`
its closings.

### Backups

The backups of one type. `ClaimBackup` is `claim_backup_job` (the completed id and the fresh lock refuse, a stale
lock is taken over), then `FoundComplete` or `Dump`, `Upload`, `Check`, `PutManifest`, `Complete`. `FailRun` ends a run
with the row marked or not, its write possibly made (`WroteAnyway`); `CrashRun` leaves the row. `ReadVerified`, `Plan` and
`Delete` are the retention command. A dump is a number standing for its size and checksum; S3 is `object` and
`manifest`.

## 4. Runs

A run stops when its ids are used up, so the models may stop where the system would not: deadlock is not checked
(`CHECK_DEADLOCK FALSE`), and what must not stop for ever is stated as liveness. Symmetry is over interchangeable
people, processes and ids, and never used where liveness is checked.

| run | question | bounds, and why they are enough |
| --- | --- | --- |
| `demand_life` | One demand from draft to receipt, with reads in flight, expiring links and repeated submissions: is what was sent what was checked, is one link in force, does a repeat take effect once, does stock follow receipts? | two lines, one adjusted at a time; 2 revisions (read one, verify or edit the other); 2 versions, 2 links, 2 receipts: room for a duplicate and a successor |
| `demand_negotiation` | Versions, changes requested, approvals overtaken, bills of the supplier and of staff | two people of staff and 2 revisions, so that one resends or cancels on a read an edit made stale while the other sends; 3 versions: one before, at and after an approval; 2 bills, two charges; 3 links |
| `settlement_paying` | Two clerks approve and reverse at once while direct payments, credits and repayments are recorded, vouchers are corrected and transactions roll back | total 3, amounts to 2: a sum below, at and across the total; 3 payments, 2 credits: a credit repaid in parts and reopened |
| `outbox` | Two processes send a message with a link and a plain one, with crashes, lost answers, receipts and a person's retry; under fairness | two messages so that one of a batch fails while the other waits; two attempts, one fault (a crash or a lost answer) and one retry: a late answer for a row that is another worker's, done, or given up; the receipts `sent` and `failed`, which may overtake each other and the record of the send |
| `ledger` | Two clerks post, edit, move, adjust and delete vouchers of two days and close one | two vouchers: one corrected, one behind it; one document pending; one closing; two forms of edit (`MCForms`): one sets the figure it also expects, one sets both fields and expects the day only, so that a field is expected, set unseen, or left as it is |
| `retries` | One operation of two transactions sent again and again; under fairness | 3 requests at once: an abandoned one, the live one, a repeat; 2 bodies; 2 faults: one to lose the record, one to lose the answer |
| `returns` | Returns of two products raised together, changed, sent back and decided while units are sold | three returns, one of them recorded by Production; quantities to 2: a revision up and down; 2 corrections at once; one call breaks off |
| `orders` | Two demands on one pool, two requests at once, two help desk queries about the first demand | one product, quantities to 1: the last unit is what is fought over; one line beside the branch's; one broken request or override. The constraint `Competes` stops exploring where the second demand, there to compete for the pool, is withdrawn, approved in the end or given a line beside its branch's: the first demand does all of that. Larger figures and more products are the proof's (section 6) |
| `deposits` | A deposit through Accounts, Finance and two help desk requests while the ledger changes a receipt and days are closed | figures 0 or 1; 2 days: the deposit's and today; one resubmission; 2 vouchers: two slices, or one and its repost |
| `night` | Two instances close one date and send its summaries; under fairness | one branch and the production scope, 2 recipients; 2 calls, which is what can meet; one fault; a branch goes and comes back |
| `prices` | Two products' prices are scheduled, replaced and changed at once while two instances run the job; under fairness | 4 days: scheduled, missed, made good; 2 changes; 2 attempts; one fault |
| `backups` | Two runs of two days' backups and a retention command; under fairness | 2 days: the newest and an expired one; two faults: a lost write and a crash |

Every property of a run has a mutant in `PROJECT.json`: a definition changed the way a plausible bug would change
the code, under which TLC finds the property violated by the same run. The mutated definitions stand in the
modules just before the ones they change.

The type invariants (`TypeOK`, and `SettlementTypeOK`, `ReturnTypeOK`, `DepositTypeOK`, `BackupTypeOK` where a
module's names had to differ from its neighbour's) are not part of the runs: they are proved (section 6).

What the properties say, in the order of the modules:

* **demands**: `SentContentWasChecked`, `OneLinkInForce`, `NoDuplicateSubmission`, `StockFollowsReceipts`;
  `ApprovalNamesCurrentVersion`, `BillFollowsApproval`, `DifferencesAccepted`, `SupplierIsAsked`, and the action
  property `ApprovedBillIsFinal`.
* **settlement**: `NotOverpaid`, `PaymentStatusTrue`, `CreditStatusTrue`, `BookFollowsPayments`.
* **outbox**: `NoDeadLink`, `LinkInOneHand`, the refinement `LinkLife`, the liveness `EveryMessageSettles`.
* **ledger**: `BalanceIsPrefixSum`, `EditReplacesWhatWasSeen`, and the action property `ClosedDayIsKept`: once the
  calls that passed their check before the closing have ended, nothing but a Help Desk deletion touches the day.
* **idempotency**: `AppliedOnce`, `AnswersAreTrue`, the liveness `EveryOpAnswered`.
* **returns**: `UnitsAgree`, `ReceivedOnce`, `DecidedIsFinal`.
* **orders**: `PromisesAreCovered`, `UnitsFollowOrder`.
* **deposits**: `BookFollowsDeposit`, `DecidedAsSubmitted`, `ClosedDayKept`.
* **night**: `ArchiveIsTheClaimants`, `NoSpam`, the liveness `EveryoneReached`.
* **prices**: `PriceIsNewest`, `HistoryStands`, the liveness `ScheduledArrives`.
* **backups**: `VerifiedIsThere`, `NewestIsKept`, the liveness `LockIsFreed`.

## 5. Fairness

The runs `outbox`, `retries`, `night`, `prices` and `backups` use the `FairSpec` of their module; all others check
safety under `Spec`. Every assumption is weak fairness of a step the code itself takes:

* **outbox**: each worker claims everything claimable, delivers a row of its batch (accepted or refused) and records
  its answer. The worker is a timer that fires every few seconds in every API process and skips a
  tick only while it is still busy; a send ends, because the provider call has a timeout; the `for` loop of
  `processOutboxOnce` records each answer before it takes the next row. `BackoffPasses` and `LeaseLapses` are
  comparisons with the wall clock.
* **retries**: a handler that runs goes on to its answer; a client that was told nothing final sends again (the
  application's offline queue does); a claim in flight grows stale.
* **night**: a call that runs goes on: every await returns or throws.
* **prices**: a call on its way arrives, a run goes on, and days pass; `NextDay` starts the job of every instance.
* **backups**: the day comes round, each day's job or catch-up calls `runBackup`, and a run's steps return or time
  out.

Nothing is assumed of Meta, of receipts, of people, of crashes and failures: these are bounded (`MaxFaults`) and may or
may not happen. A process that dies at every send retries its row for ever, by design.

## 6. Proofs

Eight modules hold proofs, which TLAPS checks for every value of the constants that satisfies the modules'
assumptions: any number of people, clients, clerks, payments, vouchers, days, workers, runs, products, returns,
deposits, requests, faults and retries. Components of one department share a module, which extends them all:
`PurchasingProofs` (`PurchaseDemand`, `SupplierSettlement`), `ProductProofs` (`PriceActivation`, `BranchReturns`),
`NightProofs` (`DayClosing`, `Backups`), `FinanceProofs` (`FinanceLedger`, `CashDeposits`); `WhatsAppOutboxProofs`,
`IdempotencyProofs` and `ProductionOrdersProofs` are about one each. `SumTheorems` has the lemmas about sums and least
elements they rest on.

| theorem (module) | what it says | argument |
| --- | --- | --- |
| **PurchaseDemand** (`PurchasingProofs`) | | |
| `TypeCorrect` | every reachable demand is well typed; among other things no stock balance is negative and no counter passes its bound | `TypeOK` is inductive; a lemma per helper (a link issued, a quotation submitted, a receipt recorded), then one step per action |
| `OneLinkCorrect` | `OneLinkInForce` | inductive given `TypeOK`: every action leaves links and closedness alone, expires one, replaces it while the demand stays open, or revokes all (`LinkStep`) |
| `SentContentCorrect` | `SentContentWasChecked` | not inductive: the check runs on a screen read earlier. `ContentInv` adds that no screen is ahead of the demand, a screen of the current revision shows the current content (`ScreensBehind`), and a verified demand is sendable (`VerifiedIsSendable`) |
| `ApprovalCorrect`, `BillsCorrect`, `DifferencesCorrect` | `ApprovalNamesCurrentVersion`, `BillFollowsApproval`, `DifferencesAccepted` | `DealInv`: which statuses of the demand go with which statuses of its current version and no other (`VersionStands`), which version a bill was made out against and when it may still be decided (`BillsStand`), and that a bill not marked different has the approved version's lines (`MarksAreTrue`). The lock of the demand makes each function one step; the invariant says what two steps far apart may rely on |
| `ApprovedBillStays` | `ApprovedBillIsFinal` | the same `DealInv`, one step lemma per action |
| `StockCorrect` | `StockFollowsReceipts` | `GoodsInv` adds that goods arrive only once a bill is approved (`ArrivedIsLate`), so that what they are measured against is fixed |
| `SubmittedOnce` | `NoDuplicateSubmission` | inductive given `TypeOK` (`OnceStep`): a version, bill or receipt is added only when its function found no row of the request id |
| `SupplierAsked` | `SupplierIsAsked` | `AnswerInv` and `BillsBehind` on top of `DealInv` and `ContentInv`: the message of the stage a demand waits in (`StageKey`) went out with the newest link or before the resend that has it (`StageTold`); no message is swallowed by an older one's dedupe key, because every key in use names a link issued or a version or bill decided before (`KeyUsed`), and no bill answers a version that is still to be decided (`BillsBehind`) |
| **SupplierSettlement** (`PurchasingProofs`) | | |
| `SettlementTyped`, `BookCorrect` | `SettlementTypeOK` and `BookFollowsPayments` | `SettlementInv` adds what a decision checked before it waited for other rows: the payment still waits (or is posted, its voucher live), and no other transaction holds it (`DecidesOnWhatItChecked`, `OnePerPayment`). Without the row lock an approval could post twice |
| `StatusCorrect`, `CreditsCorrect`, `NeverOverpaid` | `PaymentStatusTrue`, `CreditStatusTrue`, `NotOverpaid` | `MoneyInv`: one transaction holds the ledger lock (`OneHolder`); what it computed under it is still what the payments give (`AllFresh`), and commits it; pending and posted payments together stay within the bill and the credits (`BillHolds`, `CreditsHold`), so that a decision, which checks no amount, cannot exceed them. Rests on the lemmas about sums below |
| **WhatsAppOutbox** | | |
| `NeverADeadLink` | `NoDeadLink` | `LinkInv`: the text is masked only in a row that is done, and every claimed copy is whole (`TextIsWhole`); a retry takes no done row of a link |
| `LinkToldRight` | `LinkTellsQueue` | the same `LinkInv`: an answer to be recorded names the message Meta took under that id (`AnswerIsMetas`), a message has an id only once its row is done (`IdComesWithDone`) |
| `NeverInTwoHands` | if `LeaseOutlasts`, `LinkInOneHand` | `HandInv`: a worker has one copy of a message with a link, a held row is being processed with its lease running, and has one holder |
| `LivesAsPromised` | if `LeaseOutlasts`, `Spec => LinkLife`: the outbox implements `MessageLife` | from `LinkInv` and `HandInv`, each step maps to a step of one message or to a stutter (`OneLife`, `QuietLife`): only one worker can have an answer for a message, so a send finds it `here`, and losing an answer brings it back there; ids are unique because Meta's record of an id names one message |
| **FinanceLedger** (`FinanceProofs`) | | |
| `EditsReplaceWhatWasSeen` | `EditReplacesWhatWasSeen` | `LedgerInv`: the voucher of a correction in progress is live and says what it said when it was checked (`Held`), and one correction has it (`OneCorrector`); what was expected agreed then, and what is not named is written as it was then (`AllAsked`); a rewrite of balances moves no date and no figure (`RebalancedRows`) |
| `ClosedDaysAreKept` | `ClosedDayIsKept` | one lemma per step from the same `LedgerInv`: a call that begins after the closing is refused by its check, one that began before it is excluded by `Quiet`, and a correction's voucher is, by `Held`, on the day the call checked |
| `BalancesCorrect` | `BalanceIsPrefixSum` | `BalanceInv` adds that the ledger lock has one holder and that a posting that holds it has in hand the sum of the book as it is (`SumInHand`): the last balance it read is that sum (`LastIsSum`), and whoever could change the sum needs the lock, but for a correction that moves no figure. Rests on the lemmas about the running sum below |
| **Idempotency** | | |
| `IdempotencyTyped`, `OperationAppliedOnce`, `ClientToldTruth` | `TypeOK`, `AppliedOnce`, `AnswersAreTrue` | `IdemInv`: a request that runs owns its key alone, and what it has committed is exactly what stands applied beyond `torn` (`OwnerOK`, `OneOwner`); an answer that gives the key back leaves nothing standing (`RecordTorn`); an operation without a key is untouched unless it expired, a completed key says what was done (`KeyOK`); an answer on its way and one that was heard are true (`AnswerOK`, `HeardOK`) |
| `AppliedKeyKept`, `SettledStaysSettled` | an operation that stands applied keeps its key; nothing is done to it after its final answer | the same `IdemInv` |
| **DayClosing** (`NightProofs`) | | |
| `ClosingTyped` | `TypeOK` | a lemma per field of a caller that its handlers set, then one step per action |
| `OneRunClosesTheDate` | `ArchiveIsTheClaimants` | `ClaimInv`: while no run outlived its claim and no two first claims met, whoever builds the archive has its name in a running row, and whoever lost the answer has it in a closed one. The claim works as a lock although nothing in the code releases it |
| `NobodyIsSpammed` | `NoSpam` | `DispatchInv`: deliveries in hand are of wanted reports that have an id, each to do or done. `LogInv`, for a dispatch that is alone: its ids are those of the stored rows, what it still has to send was never sent, and what was accepted is in the logs under the stored id or about to be |
| **Backups** (`NightProofs`) | | |
| `TypeCorrect`, `LockExcludes`, `VerifiedStands`, `RetentionKeepsNewest` | `BackupTypeOK`, `OneHolder`, `VerifiedIsThere`, `NewestIsKept` | `BackupInv`: a run that did not outlive its lock holds it (`Owned`) and is alone with its id (`HoldAlone`); the dump in S3 and the manifest are the ones it has got to (`Carried`); whatever retention will delete was verified (`Planned`) and has a verified successor (`Replaced`) |
| **PriceActivation** (`ProductProofs`) | | |
| `PricesTyped`, `OnePlan`, `NewestPrice`, `Standing` | `TypeOK`, at most the newest row is scheduled, `PriceIsNewest`, `HistoryStands` | `PriceInv`: the rows a run read exist, one of each product (`HandsMade`), and are the product's last unless it was changed between read and lock, which is what `crossed` records (`HandIsLast`); nothing but the last row is scheduled |
| **BranchReturns** (`ProductProofs`) | | |
| `ReturnsTyped`, `ReturnsAgree` | `ReturnTypeOK`, `UnitsAgree` | `ReturnInv` says what whoever is at work on a return may rely on, as long as the return is not marred: a raise that nobody else knows its products' returns (`RaiseFine`, `Apart`), a correction that the row is still the one it read (`CorrectionFine`), a settlement that the decision stands, its units have not moved, and no other settles it (`SettlingFine`, `OneSettles`). So the ledgers agree with the row when no call is between its two halves (`RowFine`). One lemma says that a step leaves everybody else's work as it was (`Elsewhere`), so each action is left with its own call and its own returns. For the balance: what the branch is short of, Production's own returns have taken (`NothingOversold`) |
| `ReturnsReceivedOnce`, `DecisionsStay` | `ReceivedOnce`, `DecidedIsFinal` | the same `ReturnInv`: a raise inserts rows only where there are none, and a resubmission's write is guarded |
| **CashDeposits** (`FinanceProofs`) | | |
| `TypeCorrect`, `BookFollows`, `NeverBookedTwice`, `Decided`, `SubmittedStays`, `ClosedStays` | `DepositTypeOK`, `BookFollowsDeposit`, one live receipt per slice, `DecidedAsSubmitted`, figures after submission, `ClosedDayKept` | `DepositInv`: per deposit, that its record is sound and, where nothing overtook it, that the book agrees with it; the lemma `SyncBooks` says what `sync_cash_transfer_entries` leaves behind, for every state of the book |
| **ProductionOrders** | | |
| `OrdersTyped`, `PromisesCovered` | `TypeOK`, `PromisesAreCovered` | inductive only with the requests in flight counted: a pool row is held by one review (`RowsHeld`), and for a product nobody took or promised unseen, what waits, what verified demands have still to take and what a review has set aside under its locks are together on the shelf (`SetAside`) |
| `UnitsFollow` | `UnitsFollowOrder` | `GoodsInv`: nothing has moved for a demand not verified (`Untouched`), one request delivers it (`OneDelivery`), and its branch gets only what left (`OutFirst`). Nor does the pool give anything for a correction whose branch got nothing (`FixesFit`). Unless the demand is marred, each ledger, its corrections' rows included, and what all the requests together have still to move of it make up what its lines say (`Straight`): one equation per ledger, a sum over every request, so that it holds through any overlap of a delivery and corrections; each step moves a figure from one term to another (`StraightMoves`) |

The assumptions are the named `ASSUME`s of the modules: `ContentsAssumption` and `BoundsAssumption` (demand),
`SettlementAssumption`, `OutboxAssumption`, `LedgerAssumption`, `IdempotencyAssumption`, `DayAssumption` and
`BoundAssumption` (backups), `ScopesAssumption` and `BoundsAssumption` (closing), `PriceAssumption`,
`ReturnsAssumption`, `DepositsAssumption`, `OrdersAssumption`. They give the constants their kinds. Beyond that they
say that `Payments`, `Credits`, `Products`, `Admins`, `Returns`, `Runs`, `Scopes`, `Orders`, `Tickets` and the
`Callers` of production orders are finite (sums and counts are taken over them), and that there are enough dump
numbers for every dump to be new (`MaxDumps`). Two theorems of the outbox name a further hypothesis in their
statement, `LeaseOutlasts` (section 3).

**Sums.** A fact about a recursive function needs induction, and the library's induction theorems take an operator as
a parameter, which the provers cannot instantiate. The proofs take the least counterexample instead: the set `Bad` of
the sets (or numbers) for which the claim fails is a first-order object, a nonempty `Bad` has a least member by
well-foundedness (`SmallestBad` on the strict subsets of a finite set, `SmallestNat` on the naturals, both from
`WFMin`), and that member is refuted. `SumTheorems` proves this way that the function `SumFunction` chooses exists and
is unfolded in any order (`CountsExists`, `CountsAgree`, `SumRemove`), and from it `SumType`, `SumLess`, `SumSplit`,
`SumSame`, `SumOrder`, `SumAdd`, `SumGrouped`, `SumOfZeroes`, `SumElsewhere` and `SumChange`; `FinanceProofs` that the
running sum obeys its recursion (`RunningExists`, `RunningUnfolds`), and `RunningType`, `SumsAgree`, `SumStays`.

**Model-checked only.** The liveness properties `EveryMessageSettles`, `EveryOpAnswered`, `EveryoneReached`,
`ScheduledArrives` and `LockIsFreed`, because fairness and `ENABLED` are beyond the prover. Every other property of
the runs is stated by a theorem of the table.

## 7. What the modelling showed

Places where the code's behaviour differs from what a comment beside it says, or where a property needs an
exception. None is claimed by a run; each is in a model as an action or as the cause of an exception
(section 2), at the line named.

*Purchasing*

* A bill can ride in on an old link: `portal.service.ts:18` promises that the function re-checks under its lock; it
  re-checks the demand's stage, not the link.
* Nothing renews a link that expires: a demand may wait for a supplier whom the portal answers 410
  (`portal.service.ts:38`) until a person resends, and `SupplierIsAsked` allows it.
* `cancelDemand` and `resendLink` (`demands.service.ts:360`) compose their message from an unlocked read and pass
  no revision, so a cancellation may describe a demand the supplier was never sent (`CancelEarly`, `ResendEarly`).
* A reversal "by what it now says" books the payment's account, not the voucher's: only the amount is compared
  (`20261020000002` migration, lines 1829 and 1846).
* The Help Desk deletes a reversed payment's voucher or the entry that reversed it (`0_baseline`, line 7320, looks at no
  status): the other stays, and the book is off by the payment.
* A bounced repayment of a settled credit cannot be reversed while another credit of the bill is open: reopening it
  (line 768) violates `supplier_credits_one_open`.
* A claim counts an attempt and never compares it with `max_attempts` (line 1956).
* A message whose answer was lost is sent again, a link as well as a plain one, by the next attempt or, after the
  last, by a person's retry: Meta gets it twice (`meta.provider.ts:73` accepts this as the lesser harm). A retry of a
  plain message that failed after Meta took it, or while a worker still holds it, sends it again although the answer
  was heard.

*Ledger and deposits*

* A closed day may hold a voucher its figures do not: `closeFinanceDay` (`finance-ledger.service.ts:561`) reads the
  figures, counts what is pending and inserts the closing in separate transactions, and a posting checks the
  closing before it waits for the ledger lock.
* `expected` lets the database refuse an edit "if somebody else has changed it since, instead of silently writing over
  their change" (`finance.schemas.ts:158`): it is optional, and only the fields it names are compared
  (`edit_finance_ledger_entry`, `0_baseline`, line 5062), so a field that is set without being expected is written
  over, and an adjustment (`finance.routes.ts:261`, `BeginAdjust`) compares nothing at all.
* `soft_delete_finance_record` (`0_baseline`, line 7302) deletes a voucher of a closed day; every other correction
  refuses one.
* `finance.routes.ts:261` and `finance-ledger.service.ts:260` describe an adjustment as a reversing entry; the
  function changes or deletes the entry in place (`BeginAdjust`, `BeginDelete`). `support.routes.ts:994` likewise
  says that vouchers are reversed.
* `amend_finance_record` reads the deposit's status and old figure without its lock (`0_baseline`, line 2132): an approval
  between the read and the write leaves vouchers with the old figure, two amendments of one field with the same old
  value skip the repost, and one that read before a deletion posts receipts for a deleted deposit (`overtaken`).
* An amendment to zero removes the slice's voucher even from a closed day, where editing it is refused; a slice that is
  added is dated today, not the deposit's day.
* Nothing reopens a finance day, though refusals say "Reopen the day first".

*Stock and demands of branches*

* A raise of several products that loses a race answers 409 and leaves the units it took debited with no return row
  (`stock.routes.ts:338`); a crash between a rejection and its refund leaves them off the branch.
* `withdraw` and `revise` (`branch-returns.service.ts:554`, `:468`) write by id after an earlier status check, so a
  decision in between is overwritten, although line 75 says "before Production has decided, yes; afterwards, never".
  `resubmit` (`:519`) guards its write.
* A retried correction "completes the products that never moved" (`support.routes.ts:1674`): the retry's differences
  are computed against lines already rewritten, so nothing moves and the query is resolved.
* "A SECOND correction from the same ticket" is refused (`support.routes.ts:1679`), but by an unlocked read of the
  query (`:1658`, `:1686`): an admin who read it before the first correction resolved it rewrites the lines again,
  and the movements find the first one's key and "silently no-op" (`marred`).
* "No window between validating and writing" (`production-orders.routes.ts:527`): the checked review reads what is wanted
  before it locks the order, so an edit committing in between is approved unchecked.
* `/verify`'s check and write are one transaction (`:984`), the goods leave in later ones (`:1033`): others may
  promise them meanwhile.
* Lines are inserted after an unlocked look at the status (`:796`), so one may land after the review: it is reserved, but
  never approved or moved. A line Production adds for a product the branch asked for as well is counted once: both
  lines' moves start together (`production-stock.service.ts:141`, and the `Promise.all` at
  `production-orders.routes.ts:1034`) and each ledger takes one per (demand, product, type), so the pool may lose one
  line's quantity and the branch gain the other's.
* `delete_production_order` reverses a delivered demand's goods, but every demand that was ever sent is held by its
  share snapshot (`20261024000001`), so the route answers 409.
* A correction of a demand verified with every count zero, or verified and not yet moved, rewrites the lines and moves
  nothing: line 1735 takes it that "verification has not run yet and will move whatever approved_qty now says", while a
  verification that has committed goes on to move the figures it read (`production-orders.routes.ts:1029`).
* When one movement of a delivery is refused, the others of its `Promise.all` go on (`production-stock.service.ts:141`),
  the answer is an error, and nothing sends the delivery again: the demand is verified and `/verify` refuses it.

*Nightly work and retries*

* Two first claims of a date that meet both get it (`0_baseline`, line 3474); the outcome is written by the date alone.
* A dispatch of summaries ignores a failed read of the sent logs (`closing-notifications.service.ts:159`) and a failed
  insert into them (`:199`), and an error reading the recipients passes the escalation. A branch deactivated and
  activated again gets a new report id, and its summary is sent again.
* The price job reads its due rows before it locks their products, so a price changed by hand in that window is
  overwritten by the older plan, and the row that change superseded goes live (`price.service.ts:20` "always holds the currently-active price").
  `price-activation.job.ts:8` names a startup catch-up that nothing calls.
* "Every change appends an immutable `product_price_history` row" (`price.service.ts:21`), and the activation is called
  idempotent (`:24`), but `activate_due_prices` writes each row it read by its id alone (`0_baseline`, line 1681): of two
  overlapping runs the second finds the row live, sets `old_price` to the row's own new price and `activated_on` to its
  own time. Price, date and status survive it, which is what `HistoryStands` shows.
* `release` marks the handle released before the row is updated (`backupLock.ts:42`): if that update fails, the
  type's lock stays until it is stale. After a crash and a quick restart the catch-up finds the lock fresh, and the
  day is made good only by the next job.
* "A request that failed after moving something" keeps its key (`idempotency.ts:38`), but only if its answer lists what
  it moved. A branch return that throws at its second product (`stock.routes.ts:349`) or at the insert after the last
  (`:381`) answers 500: the key is released, and the retry, with new ids, takes the first product's units again. A
  withdrawal whose delete fails gives the units back twice the same way, although `branch-returns.service.ts:545` calls
  it idempotent. `torn` counts these; the units are really moved twice.
* An idempotency key whose handler outlived its connection stays in flight and is parked for a person; keys of
  deposits, loans and purchasing have no business date, so only the purge's `--days` bounds a late repeat.

## 8. What is not modelled

* **Finance approval workflow, loans, payroll, branch account ledger, daily sale records**: each decision is one function
  that locks its document, checks the status and posts through `post_finance_ledger_entry`. The waiting behind the
  posting is `FinanceLedger`'s; a document corrected after its posting is `CashDeposits`'. What is left is
  arithmetic on one employee's, loan's or branch's rows.
* **Special orders, restriction requests, support tickets**: one row each, moved by a function that locks it or by a
  conditional update.
* **Sessions and sign-in**: tokens rotated and revoked in one transaction; what matters of them is access control, which
  is not a question of this development.
* **Reports, exports, dashboards, data engine**: read-only. **Notifications, mail, attachments, AI capture**: best
  effort or I/O; nothing reads what they did. **Settings, users, products, branches**: master data.
* **Generated Prisma client** (`src/generated/prisma`, most of the repository's lines) and the schema: generated code.
  Much of what the models translate is plpgsql in `prisma/migrations`.
* Within modelled parts: the daily limit of deposits (read before the insert), wallets of the ledger, inbound
  messages and templates of the outbox, manual adjustments of pool and branch stock, invoices, packing lines,
  re-verification of old backups. `PROJECT.json` gives the reason part by part.
