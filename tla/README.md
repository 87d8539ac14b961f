# WerTe backend: specification, model checking and proofs

The WerTe backend is a NestJS service over PostgreSQL (Prisma), Redis and BullMQ
for ordering from shops: customers check out carts, merchants accept and prepare
orders, riders deliver them, payment providers report money by webhook. This
directory holds TLA+ models of its core, the TLC configurations that check them on
small instances, and theorems about them with TLAPS proofs.

Paths in this file are relative to `src/` of the repository; most services are in
`src/modules/<module>/services/`.

## How the program runs, and what is hard about it

The API and the workers are processes of one code base. Three facts shape everything
below.

* **Handlers read, check, then write by id.** Nearly every service loads a row,
  asks a policy about what it loaded, and then opens a transaction whose `UPDATE`
  names the row by id and repeats none of the conditions. PostgreSQL runs at READ
  COMMITTED. Between the read and the commit anybody else may commit.
* **What follows the commit is not in the transaction.** Jobs are enqueued, dispatch
  attempts are resolved and messages are published afterwards, mostly
  "best-effort". A process may die in between.
* **Jobs are delivered at least once, in no particular order.** BullMQ runs them on
  five workers per queue (`WORKER_CONCURRENCY`), delays some, tries a failed one
  three times, and hands a dead worker's job out again.

## Inventory

Each row: the component, the state it keeps, what it does, what is hard, and what
makes it correct. The status of each component is in `PROJECT.json`.

| Component | State | Operations | Hard behaviours | Correct when |
|---|---|---|---|---|
| Rider dispatch (`dispatch/auto-dispatch`) | `Order.status`, `Delivery`, `OrderDispatchAttempt`, dispatch queue, advisory locks | jobs for an order, for a rider who came online, for an unanswered assignment; `assignAndNotify`, giving up | two workers pick one rider; timers race answers; a worker dies after the attempt or after the assignment | one order per rider; every unanswered assignment has its timer; nobody asked twice; gives up only after asking enough |
| Rider delivery actions (`deliveries`) | `Order`, `Delivery`, attempts, cash payment | accept, reject, cancel, pick up, on the way, deliver, fail | answers cross timeouts and cancellations; the attempt is resolved after the commit | order and delivery tell one story |
| Rider availability (`riders`), manual dispatch | `RiderAvailability`; as dispatch | online (scans for waiting orders), offline; the admin assigns a rider | the manual assignment takes no lock | as dispatch |
| Merchant order handling (`orders`) | `Order`, history, stock, cash payment | accept, reject, preparing, ready, pickup confirmation, auto-advance of pickup orders | three transactions in a row; stale reads | moves only along the policy; an accepted pickup order gets ready |
| Cancellation, admin override (`orders`), timeouts (`jobs/order-timeout`) | `Order`, stock, delayed jobs | cancel by customer, admin, system; override; merchant and rider timeout | stale reads reopen closed orders; timers fire late | stock back once; nothing waits for the merchant for ever |
| Inventory lifecycle (`menus/menu-inventory-lifecycle`, inventory and lots) | stock of items, options, combinations, lots | reserve, restore, adjust, receive a lot, adjust a lot, update | the number and the lots are two records of one thing; checks precede transactions; tracking is switched while orders hold units | no unit comes from nowhere; the number is the sum of the lots |
| Payment lifecycle (`payments`) | `Payment` | confirm, fail, cancel, expire, with automatic cancellation of the order | payment and order are moved by different handlers | no unpaid order waits for the merchant; cash settled at hand-over; an outcome stays |
| Carts (`carts`) | `Cart`, `CartItem` | add, change, remove, clear, each recomputing the total | two mutations each sum what they see; two additions create two carts | totals heal |
| Checkout (`checkout`) | order, payment, cart, promotion use | place an order, idempotently | races on the key, on stock, on a promotion's limit | one order and one answer per key; the payment is the total |
| Promotions | `Promotion`, `PromotionUsage` | create, update, delete; eligibility, discount, use | the limit is counted before the transaction | overrun bounded by the submissions under way |
| Refunds (`refunds/refund-operations`) | `Refund`, `Payment.refundedAmount` | request, succeed, fail, cancel | balance and totals computed from reads | refunds within the payment; the payment's total agrees |
| Provider events (`provider-webhooks`, `refunds`, `payments`) | `RefundProviderEvent`, `PaymentProviderEvent`, queue | intake, processing job, reconciliation | duplicated and lost deliveries, retries of half-done work | every event settled; a processed one had its effect, once |
| Queue and dead letters (`infrastructure/queue`, `admin-ops`) | jobs, attempts, DLQ hash | add, run, retry, dead-letter, manual retry, prune | crash between re-adding and removing; two admins | work neither lost nor doubled |
| Sessions (`auth`) | sessions, cached copies | login, refresh, revoke, validate | copy written after its deletion; the two writes of a sign-out run side by side | copy agrees, or is soon gone |
| Store types, menus, their caches (`store-types`, `menus`, `branches`) | assignments, primary type, items, option groups, combinations; four Redis caches | assign, review, reject; edit; read through, invalidate | transactions interleave at statements; edits check what they read; fills cross invalidations | one primary type; bounds that can be met; three judges agree; entries fresh but for named gaps |
| Notifications inbox, inventory alerts (`notifications`) | notices, audit verdicts, unread badge | post, read, page, prune; publish, acknowledge, resolve, dismiss, remind, escalate | duplicates, stale verdicts, overlapping cycles, crossing counts | no twins, right badge, no page misses, closed is closed |
| Push (`jobs/push-notification`) | delivery rows, tokens, jobs | publish, send, retry | own retries beside the queue's; deaths between row and job | no row waits unwatched; SENT means sent |
| Alert preferences | the preference, timers in memory | update, timers, tell clients | several instances, restarts | clients know the state |
| Messaging | conversation, participants, receipts, pointers | open, write, mark, page, prune | joins cross sends; messages become visible out of order | everyone has a receipt; the pointer agrees |
| Addresses; support tickets | default flag; status, history, replies | create, change, delete; reply, change status | crossing requests; reply and reopening are two transactions | one default; unbroken history, answers taken up |
| Customers, merchants, staff, users, zones, rider accounts, ratings, reports, audit, uploads, metrics | rows | single-row maintenance, queries | none of the above | not modelled, below |

Interactions: checkout takes stock and enqueues the merchant timeout; the merchant's
acceptance enqueues dispatch and the rider timeout; dispatch assigns and enqueues its own
timeout; riders' answers resolve attempts and enqueue dispatch again; every closing
handler calls the inventory lifecycle, whose falls publish alerts into the inbox, which
writes push rows and enqueues their jobs; payments cancel orders; cash is settled by the
merchant's and the rider's hand-over; provider events call the payment and refund
services; edits of the menu and the store types invalidate caches; jobs that fail three
times become dead letters.

## Modules

| Module | What it is |
|---|---|
| `OrderPolicy` | Statuses and the policy tables shared by the order modules (`orders/policies`, `deliveries/policies`). |
| `Dispatch` | Orders, deliveries, attempts, the queue, the lock and the workers: dispatch composed with the handlers that touch the same rows. |
| `RiderBooking` | Abstract: a rider is booked only when he holds no order. `Dispatch` implements it. |
| `OrderLifecycle` | Every handler that moves an order, with stock and payment. |
| `StockLedger` | Abstract: a unit is reserved, then spent or returned, once. `OrderLifecycle` implements it. |
| `Refunds`, `RefundEvents` | Refunds of one payment with the steps of the finalising transaction; composed with the webhook endpoint, the event rows, the job and its worker. |
| `Purchase` | Carts, promotions and submissions of one branch. |
| `CheckoutLedger` | Abstract: at most one order per idempotency key, for good. `Purchase` implements it. |
| `Stockroom` | Items with lots, options, combinations; orders and merchants on them. |
| `Inbox`, `AlertDesk` | The notification center; on top of it the inventory alerts and their follow-up. |
| `Rows` | What modules over rows share: the missing row. |
| `Caches`, `Storefront`, `Catalogue` | A read-through cache; on top of it the store types of branches; on top of that the menu and the three judges of a selection. |
| `PushDelivery`, `PaymentEvents`, `Sessions`, `Messaging`, `QuietHours`, `Addresses`, `SupportTickets`, `DeadLetters` | One service each. |
| `MCDispatch`, `MCLifecycle`, `MCRefunds`, `MCPurchase`, `MCShop`, `MCFront`, `MCServices` | Model values, symmetry and the instances for TLC. |
| `DispatchProofs`, `LifecycleProofs`, `RefundProofs`, `PurchaseProofs` | Theorems about the modules of these names. |
| `FrontProofs` | Theorems about the caches, the storefront and the menus. |
| `ServiceProofs` | Theorems about the one-service modules but `PushDelivery`: jobs and provider events; sessions, conversations, quiet hours, addresses and support tickets. |
| `NoticeProofs` | Theorems about what users are told (pushes, the inbox and its alerts) and about the stock. |
| `Sums` | Lemmas about finite sums, counts and greatest elements, for the proofs. |

`Dispatch` and `OrderLifecycle` look at the same handlers from two sides and are kept
apart on purpose: one knows riders, jobs and attempts and ignores stock and money, the
other knows stock, money and every status an order can take and lets dispatch's writes
come whenever the status they look for holds. Together they would not be checkable, and
no property needs both. In the same way `OrderLifecycle` follows one unit through every
handler that closes orders, and `Stockroom` follows quantities, lots, options and the
merchant's counts through the two calls an order makes.

In all modules an overtaken handler is visible: a request is a record that holds what
it has read, and other requests may step before it writes. Where two of them cross, the
code often leaves something wrong behind, for good or until the next undisturbed request.
The models record exactly that in a history variable (`skewed`, `raced`, `crossed`,
`overlapped`, `overwritten`, `apart`, `doubled`, `hurt`, `stranded`, `forgotten`, ...), set by the
step that causes it and reset by the step that repairs it, and the properties say that
nothing *else* goes wrong. Each such exception is named in the comment of its property.

### Dispatch: state and actions

| Variable | Code |
|---|---|
| `status`, `delivery` | `Order.status`; the `Delivery` row (`riderId`, `status`, or no row) |
| `online` | `RiderAvailability` rows that are online and available |
| `attempts` | `OrderDispatchAttempt` rows of an order in order of `attemptedAt` |
| `queue` | the BullMQ queues `dispatch` and `order-timeouts`, as one bag |
| `lock` | `pg_advisory_xact_lock(hashtext(riderId))` |
| `worker` | the job each worker runs and the step it has reached |
| `request` | the HTTP request each client has in flight |

A job or request is a sequence of actions, one for each point where another process
may intervene: take and first read, pick, create the attempt, lock, count, write and
commit, enqueue the timer (`assignAndNotify`); read, mark, check, reset, recount
(`handleRiderDispatchTimeout`); read, commit, resolve the attempt, enqueue (requests).
`Faults` lets a worker or a request die between any two of them; a dead worker's job
returns to the queue, its uncommitted transaction and its lock are gone.

### OrderLifecycle: state and actions

`status`, `stock`, `payment` are the rows; `prepared` is the `PREPARING` row of
`OrderStatusHistory`; `released` counts how often the stock of an order was given back;
`timer` is the merchant timeout in its queue. Every handler is `Begin...` (the read and
the policy) followed by `Commit...` (the transaction: the status, the stock decided
from the status that was *read*, the payment). `_autoAdvancePickupToReady` is three
transactions in a row (`ReadAgain`).

### Refunds and RefundEvents: state and actions

`refund`, `payment`, `event` are rows; `request` and `job` say what each admin and each
worker is doing; `jobs` is the queue, `hook` the webhook requests in flight. The
transaction of `finalizeRefund` is split: `TransitionRefund` (writes and locks the
refund), `TotalRefunds` (reads the payment's refunds: the committed ones and its own),
`CommitSuccess` (writes the payment, commits). Webhook: `Deliver`, `StoreEvent`,
`QueueEvent`; job: `TakeEvent`, `CallLifecycle`, `Finalize`, `PublishOutcome`, one of
`MarkProcessed`, `MarkIgnored`, `MarkFailed`.

### Purchase: state and actions

`cart`, `line`, `promotion`, `usage`, `order`, `payment` are the rows, `menuItem` and
`stock` what the merchant sets and orders take, `latest` the order of `updatedAt`. `edit`
holds the lines and the sum a cart mutation has in its transaction (`BeginEdit`,
`CommitEdit`), `submission` what a checkout has read and priced: `ReadContext`,
`PriceSubmission`, `LookUpKey`, `CreateOrder` or `KeyCollides`, `ReplayAfterCollision`.
`answers` records what clients were told.

### Stockroom, Inbox and AlertDesk: state and actions

`shelf` holds the stock columns of items, options and combinations, `lot` the
`MenuItemInventoryLot` rows, `held` the snapshots an order keeps of what it took. A
handler is a `hand` that has read and then writes: `Reserve`, `Restore`, adjusting an
item, a lot, an option, receiving a lot, updating a row. `told` and `unheard` follow which
falls were announced, `books` which units came in. In `Inbox` `notice` are the rows,
`badge` the last count shown on the sockets, `page` a client following cursors; `AlertDesk`
adds the verdicts in the audit log (`log`), publication with its duplicate check, single
and bulk verdicts, the compensation of a cancelled order, and the digest cycles
(`reminded`, `escalated`). The two halves share the run `shop`: what one emits is what the
other takes as given (an alert may be published whenever the item is low).

### Caches, Storefront and Catalogue: state and actions

`Caches` has entries, readers between their read and their fill, and writers between
their commit and their deletions; deaths and Redis errors lose either. `Storefront` runs
`syncBranchPrimaryStoreType` statement by statement in transactions (`tx`) that lock what
they wrote. `Catalogue` has one item with its category, option groups, options and
combinations, the edits of each (`edit`), and as operators the three judges: what the
catalogue shows, what the cart accepts, what the checkout accepts.

### The services: state and actions

| Module | Rows | Actors and steps |
|---|---|---|
| `PushDelivery` | delivery rows of each notification, device tokens | publisher: row, then job; worker: read, send, drop rejected tokens, record, enqueue the next attempt; the queue runs a job again; pruning deletes rows under a job |
| `PaymentEvents` | the payment, the order, event rows | webhook: store, enqueue; clerk: take, resolve, `handleTransition` in three steps (check, transaction, message), mark; admin: the same transition by hand; the merchant accepts meanwhile |
| `Sessions` | the session row, its copy in Redis with a lifetime, a clock | `validate`: read, fill; refresh, sign-out: the row and the key in either order, the key perhaps not at all |
| `Messaging` | participants, messages, receipts, pointers | open a lane, send in two steps, mark read, page, prune |
| `QuietHours` | the preference; timers of each instance | update: save, tell, set the timer; timers fire; instances restart |
| `Addresses` | the default flags | create, update, delete in the statements of their transactions |
| `SupportTickets` | status, stamps, history, replies | every request reads first; reply, then perhaps the change of status; change of status with its entry |
| `DeadLetters` | the job and its re-additions, the dead letters | worker: take, succeed, fail, push the letter; deaths and stalls; admin: re-add, then remove; remove, prune |

## Abstractions

* **Time.** A delayed job may run at any moment after it was enqueued. Everything that
  holds here holds for every delay. Where durations matter (session lifetimes, cooldowns,
  quiet hours) a small clock counts them.
* **Take and first read** of a job are one action: a job that has read nothing has done
  nothing. The two queues of `Dispatch` share one pool of workers, which is more
  interleaving for the same number of workers, not less.
* **Transactions** are atomic, except those with a protocol inside them
  (`assignAndNotify`, `finalizeRefund`, cart mutations, `syncBranchPrimaryStoreType`,
  addresses), which are split at the statements that matter, under READ COMMITTED and row
  locks. In `OrderLifecycle` the payment transaction reads the order inside the
  transaction, and that read is taken together with the write.
* **Requests in flight.** In `Dispatch`, `OrderLifecycle` and `Refunds` the constant
  `SplitRequests` says whether another handler may step between a handler's read and its
  commit. The code allows it (`TRUE`); with `FALSE` handlers still interleave with jobs,
  follow one another in every order, and die between steps. Where a property needs
  `FALSE`, this file says so, because it is a statement about what the code relies on and
  does not enforce. The other modules always let handlers overtake one another and name
  the consequences.
* **Data.** Amounts, quantities and ratings of severity are small integers; in
  `OrderLifecycle` one tracked item and one unit per order, payments are cash or online
  (`MANUAL` behaves like online for the transitions modelled); a rider's position decides
  only who is tried first, so the choice is free; texts, names and metadata are left out.
  The words of a provider's report are a set of words, judged in the code's order.
* **Lists in pages.** Cursors, the row behind a cursor and its disappearance are modelled
  where a client pages (`Inbox`, `Messaging`); sort orders that only a screen sees are not.
* **Events** whose signature was rejected, or whose provider does not match, are stored
  as `FAILED` without any effect and without a retry: left out of `RefundEvents`, and in
  `PaymentEvents` only the mismatch is there.
* **Reconciliation** (`jobs/provider-webhook-reconciliation.job.ts`) has a handler and
  nothing in the source enqueues it, although `docs/operations-runbook.md:52` describes
  it as part of operations. The models leave it out.
* **External.** BullMQ's own retries and stalls, Redis's expiry, PostgreSQL's locks and the
  push provider are modelled from how the code uses them.

## Properties

A property of a run is often a conjunction of parts, each defined and commented on its
own beside it: `PurchaseAgrees`, `StockIsKept`, `InboxAgrees`, `AlertsMoveOn`,
`MenuRulesHold`, `PushAgrees`, `PaymentsAgree`, `SessionsAgree`, `MessagesAgree`,
`TicketAgrees`, `LetterAgrees`. Definitions commented "Broken variant" are plausible mistakes
in the code; replacing the definition that follows by its variant makes TLC report the
property, and there is one for every part.

## Runs

`CHECK_DEADLOCK FALSE` is set throughout: nobody is obliged to send a request, and a
system in which every order is closed rightly stops.

| Run | Instance | Properties | What it shows |
|---|---|---|---|
| `dispatch_order` | 1 order, 2 riders, 1 worker, 1 desk, requests split | `TypeOK`, `UnansweredIsWatched`, `NeverAskedTwice`, `GivenUpOnlyAfterAsking` | answers, timers and new attempts in any order: an unanswered assignment has its timer in the queue or in a worker's hands, no rider is asked twice, dispatch gives up only after asking `MAX_FAILED_ATTEMPTS` riders |
| `dispatch_pool` | 2 orders, 1 rider, 2 workers | `NoDoubleBooking`, `BookingSpec` | both workers pick the one rider; lock and count keep one from committing, and dispatch refines `RiderBooking` |
| `dispatch_desk` | 1 order, 1 rider, all operations, faults | `OrderMatchesDelivery` | rider and desk operations with deaths at every step leave order and delivery in agreement |
| `dispatch_answered` | 1 order, 2 riders, fairness | `UnansweredIsLeft` | an ignored assignment is taken back |
| `lifecycle_books` | 2 orders (cash pickup, online delivery), 1 unit, 2 handlers, all operations, faults | `TypeOK`, `LedgerSpec`, `UnpaidIsNotPlaced`, `CashIsSettled` | the last unit is contested and every closing handler may close: stock refines `StockLedger` |
| `lifecycle_moves` | the same orders, fairness | `PlacedIsLeft`, `PickupAdvances` | nothing waits for the merchant for ever; an accepted pickup order gets ready |
| `refund_events` | 2 refunds of a payment of 2, 2 events about one of them, 1 admin, 1 worker, all faults, fairness | `TypeOK`, `BalanceKept`, `PaymentAgrees`, `ProcessedAgrees`, `EventIsSettled` | repeated and lost deliveries, dying workers and failing messages neither repeat a refund nor lose an event |
| `purchase` | 2 clients, 2 customers, 2 keys, 2 orders, 1 promotion with a limit of 1; three sides: carts edited, carts submitted, promotions changing | `PurchaseAgrees`, `OverrunIsBounded`, `LedgerSpec` | whatever crosses: one order and one answer per key, the payment is the order's total, units leave with orders only, a wrong cart total is put right by the next mutation, a limit is overrun only by submissions under way together, and submissions refine `CheckoutLedger` |
| `shop` | an item with 2 lots; an item with an option and a combination; 2 handlers, 2 orders; 3 notices, 2 requests, a clock to 3; six sides | `StockIsKept`, `FallsAreAnnounced`, `InboxAgrees`, `AlertsMoveOn` | no unit comes from nowhere; the number is the sum of the lots but for five named paths; every fall is announced; no twin alerts, right badge, complete pages, closed alerts stay closed and follow-ups keep their distance |
| `storefront` | 1 branch, 2 store types, 2 writers, 2 readers; an item with a variant group, an extra group and a combination; four sides | `PrimaryAgrees`, `FrontCoherent`, `MenuRulesHold` | the primary type is the marked approved one; a cache entry is stale only for three named reasons; catalogue, cart and checkout judge a selection alike and every group can be filled |
| `services` | eight sides, one per service: 2 reports and an admin; 1 push to 2 devices, 2 workers; 1 session, 2 requests, a clock to 4; 2 messages in 2 lanes; 2 instances; 4 addresses in 2 tabs; 4 changes of status, 3 replies; 3 jobs, 2 admins | `PushAgrees`, `PushSettles`, `PaymentsAgree`, `OutcomeIsFinal`, `SessionsAgree`, `MessagesAgree`, `HistoryIsKept`, `ToldAgrees`, `DefaultIsOne`, `TicketAgrees`, `LetterAgrees` | see the comments of the properties |

The sides of a run are separate small instances behind one variable `side`, which is
chosen at the start; what a side leaves alone is written in the `Quiet...` operators of
its MC module. A side names which requests may be under way together; each pair that
shares a row is on some side.

One run finds a behaviour that contradicts what the repository says, a finding in
`PROJECT.json`: `dispatch_late_accept` violates `TimeoutRevokesOwnAttempt`
(`auto-dispatch.service.ts:185`, "If rider hasn't accepted, try next rider or cancel."):
the timeout checks the delivery before its transaction and resets it there
unconditionally; a rider who accepts in between loses the delivery he accepted.

### Bounds and why they are enough

* Two of everything that competes (workers for a rider, orders for a unit, riders for an
  order, refunds for a balance, clients for a key, writers of a row); one where a second
  adds nothing the property can see. Every handler treats the row it works on alone, so
  what a third competitor could do to it a second one does.
* *Dispatch.* `MaxFailedAttempts` is 2 (3 in the code) or 1, so that giving up is reached
  after more than one rider, or at once. `MaxAttempts` stops riders from *coming online*
  once an order has that many attempts: it bounds only the number of scans; timers and
  retries add attempts beyond it. `dispatch_pool` leaves out faults and rejections, which
  the theorem about it covers.
* *Lifecycle.* `MaxReleased` = 2: no handler begins on an order whose unit was returned
  twice, which is once more than `StockLedger` allows.
* *Refunds.* `MaxDeliveries`: the first event is delivered up to twice and may be lost in
  between, the second once; a third delivery does what the second does, as the row exists.
  `MaxAttempts` of `RefundEvents` is 2 (3 in the code): the second attempt already finds
  the event terminal. `Amounts` {1, 2} of a payment of 2 reach both `PARTIALLY_REFUNDED`
  and `REFUNDED`.
* *Purchase.* Two prices, so that a price changed between two reads shows in a total; a
  discount of 4 on a subtotal that may be 2, so that the cap bites; a limit of 1 and two
  submissions, so that the limit can be overrun; a stock of 2, so that it can run out.
* *Shop.* `Most` = 2 is the largest number an item, option or lot reaches; with counts of
  0, amounts of 1 and 2 and a threshold of 1 every fall (to low, to out) and every
  refusal occurs. `MaxNotices` = 3 with `Keep` = 2 lets one be pruned, and `PageLimit` = 1
  makes every notice its own page. Cooldowns and ages of 1 and a clock to 3 let an alert
  be published, followed up, held back and followed up again.
* *Storefront.* Two store types for one branch, and `MaxSelect` = 2 with groups of one and
  two options: a group's bounds can exceed, meet and undercut what it holds.
* *Services.* Push: 3 attempts as in the code and 2 runs of a job, one more than the
  happy path. Provider reports: two rows, and 2 tries instead of 3, as the second finds
  the event terminal. Sessions: `CacheTtl` 2 < `AccessLife` 3 < `RefreshLife` 4 keeps the
  order of the code's lifetimes, and a request takes 1 at most. Messaging: two messages in
  one of two lanes, with `Keep` = `PageSize` = 1, so that each is its own page and one would be pruned.
  Quiet hours: a day of 2 hours seen over 3, one restart. Addresses: 4 rows over
  time, two tabs. Tickets: 4 changes of status, enough to close, reopen
  and answer once more. Dead letters: 3 jobs, 3 attempts and one stall as in the code, 3
  faults.
* *Sides.* The step relations of the MC modules restrict a side further, by conjuncts that
  are commented where they stand: which requests run beside one another (`Together`,
  `Quiet`, `QuietAlerts`, `QuietFront`), how many jobs or notices there are at once
  (`Waiting`, `Busy`, `Logged`), which of several like values a request carries, and
  that some step waits for another (`Prompt`; in the chat, the messages come before the
  admin). They keep each side small, and they limit what its run shows to what they
  allow.
* Symmetry is used in runs without liveness only.

### Fairness

* *Handlers and workers go on* (weak fairness of the steps that follow a begin): a
  process that is alive executes its next statement. Deaths are separate actions, without
  fairness. In `RefundEvents` the worker's steps have strong fairness, because another
  process holding the row, or the turn, may disable them again and again.
* *A queued job is served* (strong fairness per job): BullMQ takes waiting jobs first in
  first out, and a job is never removed unserved; a job is enabled only while some worker
  is idle, again and again, hence strong.
* *A provider sends again until it is answered* (strong fairness of `Redeliver`, up to
  `MaxDeliveries`; the last permitted delivery does not die): this is how the
  providers' webhooks work, and `ingestRefundWebhook` is written for it.
* *Push* (`PushFairness`): a publication that has written its row goes on or dies, and
  each worker goes on with its job or takes one that waits (weak fairness of either, as
  nobody else takes the step away for good). Faults are bounded and owed nothing;
  `PushSettles` excuses the rows they strand.
* *Clients owe nothing*: no fairness on beginning a request. An admin in the middle of
  an operation goes on or gives up.

## Proofs

All theorems hold for every value of the constants allowed by the modules' `ASSUME`s
(`ConstantsAssumption`, `OpsAssumption`, `LifecycleAssumption`, `RefundsAssumption`,
`RefundEventsAssumption`, `PurchaseAssumption`, `SessionAssumption`,
`DeadLetterAssumption`, `MessagingAssumption`, `QuietAssumption`, `AddressAssumption`,
`SupportAssumption`, `PaymentAssumption`, `PushAssumption`, `FrontAssumption`,
`CatalogueAssumption`, `InboxAssumption`, `AlertAssumption`, `StockroomAssumption`): any
number of orders, riders, workers, refunds, events, keys, sessions, messages, addresses,
reports, pushes, jobs, branches, store types, readers, writers, rows of a menu, items and
lots. The assumptions of the services and of the storefront say
that a bound is a number, that `None` is not a row, that the options of a menu are
finitely many and that its items, groups and combinations are different things; those of
the stock, besides, that lots and orders are finitely many.

* **`DispatchProofs!TypeCorrect`**, `Spec => []TypeOK`. `TypeOK` is not inductive: a step
  indexes `status` and `attempts` by the order and attempt in the worker's or client's
  hands. `TypeInv` adds that those exist at every step that uses them. The queue lemmas
  show that adding to and taking from a bag of jobs leaves a bag of jobs.
* **`DispatchProofs!NobodyAskedTwice`**, **`AssignmentsWatched`**, **`GivenUpAfterAsking`**:
  `NeverAskedTwice`, `UnansweredIsWatched`, `GivenUpOnlyAfterAsking`, under `Alone`: one
  worker, nobody dies, no manual assignment; any number of orders and riders, requests
  overtaking one another. A second worker, or a job run over again, may be about to ask
  the same rider, and the manual assignment asks off the books. `AskingInv` says that an
  attempt is in the worker's hands (`InHand`) until its assignment is committed and that
  nobody else knows of it; that once it has left them its rider is passed over, its order
  has a `Delivery` row (`OrdersFit`), its timer is of an offer that was made (`TimersFit`)
  and a rider who is answering was asked (`AnswersFit`); and that a worker that cancels
  has counted enough riders (`WorkersFit`).
* **`DispatchProofs!BookedOnce`**, `Spec => []NoDoubleBooking`, under `Disciplined`
  (requests not overtaken, no manual assignment). The inductive invariant adds `LockHeld`:
  a worker from its count to its commit holds the lock of its rider, and after counting
  zero, the rider is on no order. It stays true because every other assignment to that
  rider needs the lock and everything else that writes a delivery only releases
  (`OnlyReleases`); for the rider actions this in turn needs `ReadStillTrue`: what a
  request has read is still so at its commit. Neither proviso can be dropped: the manual
  assignment takes no lock, and a stale `accept` writes `ACCEPTED` into a delivery that
  may have been delivered by the next rider, who is on another order by then.
* **`DispatchProofs!DispatchImplementsBooking`**, `Spec => BookingSpec`: the same
  invariant shows that a commit is `Book`, every other change of a delivery `Release` and
  the rest stutters.
* **`DispatchProofs!RowsAgree`**, `Spec => []OrderMatchesDelivery`, if requests are not
  overtaken: the status of an order and of its delivery are written together everywhere,
  each from a row read in the same step.
* **`LifecycleProofs!TypeCorrect`**; since `stock \in Nat`, stock never goes negative.
* **`LifecycleProofs!UnpaidNeverPlaced`**, for *every* interleaving, split or not, if no
  override sets `PLACED`. The payment's transaction reads the order inside itself, and no
  other handler's target is `PLACED`, so once left it is never entered again.
* **`LifecycleProofs!CashAlwaysSettled`**, for every interleaving, if no override sets
  `DELIVERED`: the only writes of `DELIVERED` settle a pending payment in the same
  transaction, and a cash payment never becomes pending again.
* **`LifecycleProofs!LifecycleImplementsLedger`**, `Spec => LedgerSpec`, if handlers are
  not overtaken and no override reopens an order. The strengthening relates what a
  handler read to the row (`seen` = `status` at its commit) and `released` to the status.
* **`RefundProofs!ProcessedForGood`**, `Spec => []ProcessedAgrees`, under `Orderly`
  (`~SplitRequests`), whatever dies. The inductive invariant `RefundInv` says of a
  process in its transaction that the refund it names is still finalizable (it was when
  read, and no second process is that far), of one after its commit that the refund has
  the target status, of a worker that what its job and its call say fits together, and of
  a processed event that its refund has the reported status *and that this status is
  final*: that part makes it inductive, since no finalizable refund is final. What the
  payment holds and what is queued plays no part, so the sums do not stand in the way.
* **`RefundProofs!TypeCorrect`**, for every interleaving, and **`NeverPaidBackTwice`**
  (`BalanceKept`) and **`PaymentTellsRefunds`** (`PaymentAgrees`) under `Orderly`. The
  strengthening says of whoever is between the balance check and the insert that his amount
  still fits, and of whoever is in the finalising transaction that the sum he has computed
  is the sum of the rows.
* **`PurchaseProofs!PurchaseImplementsLedger`**, `PurchaseSpec => LedgerSpec`, and
  **`AnswersAlwaysAgree`**. `PurchaseInv` says that a submission keeps the key and the
  customer it began with, that what is answered under a key names an order of that key and
  customer, and that no two orders share a key; the unique index in `Commit` is what
  keeps the last part. Prices, stock and promotions play no part, and no
  proviso is needed: the submissions may overlap in any way.
* **`PurchaseProofs!BooksAgree`** (`PurchaseAgrees`) and **`OverrunStaysBounded`**
  (`OverrunIsBounded`), again with everything overlapping. `BooksInv` adds what those in
  flight know: a mutation holds lines of its own cart only, no two hold one line, and its
  total is the sum of its lines over the present ones unless it was told of another
  mutation; a submission's two amounts are equal once it is priced, its subtotal is the sum
  of the lines it read if the cart was right, and the promotion it claims exists. A claim
  becomes a use in the transaction, so that uses and claims together never exceed the
  limit by more than the clients at the moment of pricing.
* **`ServiceProofs!OutcomeStays`**, `PaymentSpec => OutcomeIsFinal`, and
  **`EffectHappensOnce`**. The lifecycle service checks the payment before its
  transaction; `PaymentInv` says that whoever is between the two either still has an
  unfinished payment before it or is marked as overtaken, and that an order which has left
  `PLACED` never returns there, so that its stock is given back by one of them.
* **`ServiceProofs!ReportsTold`**, `PaymentSpec => []PaymentsAgree`. `ReportsInv` says that what
  a worker makes of a report is decided by the report's kind and by what the payment was
  when it was asked, and that the mark it leaves on the row says the same. A report of an
  outcome is under way as long as there is no outcome: every way of laying it down leads
  through the payment, or through a failure the model marks. Where two decisions
  overlapped (`overwritten`), the later may contradict the mark of the earlier.
* **`NoticeProofs!PushesAgree`**, `PushSpec => []PushAgrees`. `PushInv` says where a notification
  is: unpublished, with a row and no job, in the queue, in the hands of one worker, or over.
  Each phase knows how many rows and sends are behind the attempt and the run that is on
  (so that the sends never exceed `MaxAttempts * MaxRuns`), and that unless something
  failed there is a queued row to settle and what was accepted has been settled.
* **`NoticeProofs!InboxIsRight`**, `AlertSpec => []InboxAgrees`. `AlertInv` says what a
  request that has read something still knows (`TaskFits`): a publication nobody came
  before has nothing to repeat, a bulk read that counted no unread notice has none before
  it. And it says of a client who pages that whatever matches and is not behind him lies
  beyond his cursor (`PageFits`): ids grow, pruning takes the oldest, and nothing begins to
  match again, because a notice stays read and an alert with a verdict is never untouched
  again (`Moved`, `Shifted`).
* **`NoticeProofs!AlertsOnlyMoveOn`**, `AlertSpec => AlertsMoveOn`, from the same invariant: a
  request that means to write on an alert which nobody wrote on since it looked finds it
  due (`DecisionFits`, `DigestFits`).
* **`NoticeProofs!StockIsRight`**, `StockSpec => []StockIsKept`, and **`FallsAreHeard`**
  (`FallsAreAnnounced`), with everything overlapping. `StockInv` adds what those at work
  know: a handler's quantities are of the item and the parts it has read (`HandsFit`), a
  lot it names stays a lot of its item, an order holds units of lots of its own item only,
  and what a handler saw to be short (`SeensFit`) is short still and was announced as
  such, unless the handler was told that the resource has recovered. Each step is shown
  to move the units on the shelf, with the orders and in the books together
  (`SumsBeforeAndAfter`, `OneBook`). The lots are emptied in the order of their expiry,
  whatever is open and however ties fall: `AllocateGivesAll` shows, by a smallest
  counterexample among the turns, that together they give exactly what was asked.
* **`ServiceProofs!CopiesAgree`**, `SessionSpec => []SessionsAgree`. `SessionInv` adds
  what a request in flight is about to do to the cache: one that fills it knows the row as
  it is, or is marked old and began before the revocation; and a copy that disagrees is
  excused by the very request that has written the row and not yet deleted the key.
  Lifetimes enter by their order only.
* **`ServiceProofs!ConversationsAgree`**, `MessagingSpec => []MessagesAgree`, and
  **`NothingDisappears`** (`HistoryIsKept`). `MessagingInv` says what those who are under
  way know: a message being sent has everybody among its recipients but those who joined
  after its sender looked; a request to read has marked what it has to, or what it missed is
  marked as overtaken; a page shows or leaves for later whatever its reader could see when
  he began; and that every message has somebody's receipt, which is why pruning removes
  nothing.
* **`ServiceProofs!ClientsAreTold`**, `QuietSpec => []ToldAgrees`. `QuietInv` adds that
  somebody waits for the next boundary of the quiet hours, or is about to
  (`BoundaryIsAwaited`); its arithmetic is that between now and the next boundary the state
  does not change, for any length of the day.
* **`ServiceProofs!OneDefault`**, `AddressSpec => []DefaultIsOne`. `AddressInv` says that a
  request which nobody has overtaken knows the addresses as they are (`Knows`): it clears
  the very default there is before it writes its own, and promotes another address only
  when it deletes the default. So after every commit there is one default, if there is an
  address, unless two requests crossed.
* **`ServiceProofs!TicketsAgree`**, `SupportSpec => []TicketAgrees`. `TicketInv` adds that a
  request which saw the last entry of the history saw the status it led to, and that a
  ticket which waits for a customer who has answered has a request about to take it up.
* **`FrontProofs!PrimaryIsOne`**, `CatalogueSpec => []PrimaryAgrees`. `RowsInv` says that a
  transaction nobody has overtaken knows the rows as they are: the assignment it has read
  is the assignment, the type it has chosen is among the choices there are, and the marks
  it has cleared are all the marks. So of the rows it writes, one is marked.
* **`FrontProofs!CachesAgree`**, `CatalogueSpec => []FrontCoherent`. `CacheFits` adds that a
  reader which no write has overtaken holds what the database says. Every action that
  writes names the entries it deletes and those it forgets; the lemma `ChangesCome` says
  what an entry depends on, and so the steps show that what changes is among them, or was
  not there to be cached.
* **`FrontProofs!MenusAgree`**, `CatalogueSpec => []MenuRulesHold`. `CatalogueInv` says that an
  edit which no other has overtaken has seen the row it changes, and that the row it has
  judged is the row there will be; an item is compared in the columns the rules ask for,
  because deleting a category writes into an item under edit. That catalogue, cart and
  checkout agree is then no matter of states: of a menu whose combinations differ from one
  another, at most one has the options selected, and the three judgements come down to the
  same formula (`JudgedAlike`).
* **`ServiceProofs!NothingLostOrDoubled`**, `DeadLetterSpec => []LetterAgrees`.
  `LetterInv` says where the copies of a piece of work are (waiting, running, exhausted, dead-
  lettered): a letter whose retry has already added its job does not count, and of the
  others there is at least one unless the work is done, given up or dropped in a named
  way, and at most one unless a flag says how it was doubled.

Sums and counts: `SumFunctionOnSet` picks the elements of a set in an unknown order, by a
recursive function. The library's induction rules cannot be instantiated, but a minimal
counterexample among the subsets of a finite set exists (`WFMin` on the strict subset
ordering), and with it `Sums` shows that the recursion has one solution, that the order does
not matter, what an element more or a changed value does to a sum, and how sums compare and
add up.

Only model-checked: all liveness (`UnansweredIsLeft`, `PlacedIsLeft`, `PickupAdvances`,
`EventIsSettled`, `PushSettles`), which needs `ENABLED`. Every other property of the
passing runs is stated by a theorem, some under a named proviso.

## What modelling showed beyond the findings

Where two requests cross, by service. Each item is a behaviour of the models; the lines
are in `src/modules/<module>/` unless another path is given.

* **The provisos are where the code relies on luck.** With `SplitRequests`, TLC also
  finds: a timer of an earlier attempt taking away the assignment of the next rider; an
  order that is cancelled and then assigned; an order accepted again after its stock was
  given back (`test/unit/modules/orders/order-policy.service.spec.ts:234` allows
  acceptance of placed orders only); `PaymentAgrees` and `BalanceKept` violated by two
  refunds at once
  (two requests both pass the balance check, which
  `test/unit/modules/refunds/refund-operations.service.spec.ts:251` has refuse; and of two
  finalised together the later commit overwrites the total of the earlier);
  `ProcessedAgrees` violated by an admin who fails a refund while the worker makes it. A
  condition on the `UPDATE` (`WHERE status = ...`), as `reserveTrackedInventoryForOrder`
  has it, would remove the whole class.
* **Dispatch.** `riderTimeout` fires once: an order that loses its rider after that has
  nothing left to close it. A rider who comes online is never offered an order that had a
  rider before, because its `Delivery` row remains (`auto-dispatch.service.ts:275`,
  `dispatch.repository.ts:69`). Enqueuing dispatch is best-effort
  (`merchant-order-handling.service.ts:294`). Cancelling an order leaves its `Delivery`, so
  that the rider stays busy (`order-cancellation.service.ts:87`). A rider's older position
  that arrives late overwrites a newer one (`rider-location.service.ts:57`).
* **Orders.** An override to `DELIVERED` settles no cash
  (`admin-order-operations.service.ts:215`). The goods of a cancelled order are restocked by
  the status that was read, also when the merchant has begun to prepare them since, which
  `test/unit/modules/orders/order-inventory-lifecycle.helper.spec.ts:34` rules out.
* **Provider events.** The queue's retry of an event never repeats anything: the first
  failure marks the event `FAILED`, which is terminal, and the second attempt returns at
  once. Only reconciliation would try again, and it is never started; `EventIsSettled`
  therefore counts `FAILED` as settled. A refund may be made while its event is `FAILED`:
  the message that follows the commit failed. A payment report that bears only a reference is
  ignored (`payment-provider-event-processor.service.ts:158`), and words are judged by
  substring, so that "unpaid" contains "paid" (the normaliser, `:193`).
* **Checkout and promotions.** Trying again with the key of a submission that succeeded and
  emptied the cart is refused for the empty cart before the key is looked up in the
  transaction (`checkout-submission.service.ts:74-82`). One cart submitted with two keys
  gives two orders. A promotion's code stays taken after the promotion is deleted.
* **Stock.** A first lot received on a number read earlier, or beside a direct adjustment,
  leaves the number and the lots apart, as does a return to an item that is no longer
  tracked (`COALESCE`).
* **Caches.** Nothing drops the branch and menu entries when the primary store type or a
  type changes, although `branch-cache.service.ts:11` has the entry
  "invalidated on any write to the branch"; assigning a store type to a
  branch never drops discovery.
* **Inbox.** The verdicts of an alert are listed newest first and put into a map, which keeps
  the last, hence the oldest (`notification-event.service.ts:460`).
* **Sessions.** Two refreshes with one token both succeed (`auth.service.ts:192`).
* **Messaging.** A system message about an order goes to the order's chat, which needs an
  assigned rider: what happens before is dropped (`system-message.service.ts:75-83`).
`pruneOldMessages` runs after every message and its error is dropped: a message that has a
  receipt cannot be deleted (`MessageReceipt_messageId_fkey` is `RESTRICT`), and every
  message to somebody has one.
* **Quiet hours.** Two updates at two instances lose one of them; a timer belongs to the
  instance that took the update, and is gone with it.
* **Addresses.** A change of the label alone writes back the `isDefault` it read.
* **Support.** The reply and the reopening are two transactions, the second on the status
  read before the first. The ticket number is kept in Redis only
  (`support-tickets.repository.ts:164`).
* **Queue.** A job that arrives before its handler is registered completes without
  doing anything (`src/infrastructure/queue/queue.service.ts:211`); a dead letter that cannot be
  written is only logged; a job that stalls twice fails without a dead letter.

## Not modelled

* Customers, merchants, staff, users, zones and rider accounts; ratings; reports and
  audit; uploads, metrics, logging: maintenance of single rows by their owner, reads, and
  I/O. The models read these rows as given.
* Reconciliation of provider events, which nothing queues.
* Of the components that are partly modelled: registration, verification codes and
  passwords; sockets, attachments and moderation of messages; assignment, categories and
  numbers of tickets.
* Delivery zones at checkout, sort orders and display names, the authentication of
  requests, signatures, and the mapping between rows and API entities.
* `Dispatch` with the manual assignment is outside `NoDoubleBooking`: it takes no lock, and
  with it TLC finds a rider on two orders.

## Running

    tlc -workers 2 -config dispatch_order.cfg MCDispatch
    tlc -workers 2 -config lifecycle_books.cfg MCLifecycle
    tlc -workers 2 -config refund_events.cfg MCRefunds
    tlc -workers 2 -config purchase.cfg MCPurchase
    tlc -workers 2 -config shop.cfg MCShop
    tlc -workers 2 -config storefront.cfg MCFront
    tlc -workers 2 -config services.cfg MCServices
    tlapm DispatchProofs.tla
