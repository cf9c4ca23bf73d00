# Protocols of gredice in TLA+

This directory specifies, model-checks and proves parts of the gredice
repository: the durable protocols around paid checkouts, the offline queue of
the farmers' application and the queue of automation runs. The repository is a
monorepo of Next.js applications (`apps/*`) over shared packages (`packages/*`).
Most of it renders or edits data; its own concurrent logic lives in
`packages/storage/src/repositories`, `apps/api/lib` and
`apps/farm/lib/offline`: leases, outboxes, cursors and idempotent effects over
PostgreSQL, driven by webhooks and crons that may be duplicated, killed or late.

Run everything from this directory: `tlc -workers 2 -config X.cfg M` for a run
of `PROJECT.json`, `tlapm M.tla` for a module of proofs.

## Inventory

| Component | State | Operations | Hard behaviour | Correct when |
|---|---|---|---|---|
| Stripe payment claims (`transactionsRepo.ts`) | one row per Stripe session: status, token, lease, attempts, next attempt; review audit rows; the transactions row | acquire, renew, complete, fail, requeue, resolve; the worker's frame with its heartbeat | lease expiry under a live worker, duplicate deliveries, crashes, clock readings older than the row lock | one owner ends an attempt, effects once and in order, every claim ends |
| Paid checkout fulfilment (`processCheckoutSession.ts`) | none of its own; writes rewards, operations or plants, cart, transaction, outputs | one callback of many transactions | check-then-write gaps, retries over partial work | a completed claim means a fulfilled payment |
| Durable outputs (`stripePaymentCompletionOutputsRepo.ts`) | two e-mail rows and their links on the claim | ensure, verify | written under the claim's row lock | both or none, once |
| Stripe reconciliation (`stripePaymentReconciliationRepo.ts`, cron, webhook) | discovery checkpoint (range, cursor, revision), recovery cursor (after, through, revision) | commit a page, take the next candidate | overlapping cron passes, stale revisions, provider pages that change | no listed session is skipped, no claim starves |
| Checkout attempts (`stripeCheckoutAttemptRepo.ts`, orphan reconciliation) | one attempt per cart with a snapshot, bound session, misses | create, bind, release, record a miss, verify the live cart | a session paid while its attempt is being released | a cart is frozen while it can still be paid |
| Outlet offers (`outletOffersRepo.ts`) | offer stock, reservation holds | reserve, extend, convert, release, expire, edit, publish, pause, close | expiry against payment, checks without the lock, edits under reservations | a hold counts against the stock as long as its cart can be paid, a paid hold is converted |
| Order confirmation outbox, checkout notification outbox | message rows with claim, submission and result | enqueue, claim, start submission, mark, reconcile | a crash after the provider accepted | at most one submission without evidence |
| Sunflower ledger and packages | ledger entries with unique keys | top up, reserve, release, capture, refund | one-time package bought twice concurrently | each payment credited once, a one-time package once |
| Cart and item locks (`shoppingCartRepo.ts`, `checkoutCartItemLock.ts`) | cart and item status, advisory locks | edit, pay, normalise inventory use | edits while an attempt is active | only what was paid is delivered |
| Inventory (`inventoryRepo.ts`) | event-sourced amounts | add, consume by source | retry after the amount is gone | consumed once per cart item |
| Farm offline queue (`apps/farm/lib/offline`) | IndexedDB drafts and queue records; completion events on the server | save, hand off, claim, upload, submit, report, confirm, discard, expire | several tabs, expiring claims, lost answers, tasks that change meanwhile | a report is kept until the server has it or the farmer is told, and completes the task once |
| Delivery lifecycle notifications | processed markers | list candidates, send, mark | crash between send and mark | nobody is left unnotified |
| Automations runner (`automations/runner.ts`, `automationsRepo.ts`) | event cursor, runs, steps | enqueue, poll, claim due, execute, recover stale, retry, replay | overlapping crons, writers that die or commit late, results written by id alone | no event passed without its run, no more runs at once than allowed, results stand |
| Caches | Redis entries | read through, invalidate | a slow reader storing what was invalidated | staleness bounded |

Refresh tokens, account deletion, deliveries, billing documents, web push,
shared algorithms, the applications and the game are listed in `PROJECT.json`
with the reason they are not modelled.

## Modules

| Module | What it is |
|---|---|
| `StripeClaimRow` | one claim row: its type and the transition each repository function makes on it under the row lock |
| `StripePaymentClaims` | workers, callback steps, operators, discovery and time over those rows |
| `PaidCheckout` | the abstract promise of a paid checkout, implemented by `StripePaymentClaims` |
| `StripeDiscovery` | the scan that finds completed sessions at Stripe and records them as claims |
| `StripeRecovery` | the cursor that offers recorded claims, one by one, to the invocations of the cron |
| `OrderConfirmationOutbox` | the cron that claims confirmation e-mails, submits them and reconciles lost answers |
| `AtMostOnceSubmission` | the abstract promise of an outbox, implemented by `OrderConfirmationOutbox` |
| `StripeCheckoutAttempt` | the attempts that freeze a cart while a Stripe session for it may be paid |
| `CartCheckout` | the abstract promise of a cart's checkout, implemented by `StripeCheckoutAttempt` |
| `OutletOffers` | an offer's stock, the holds of the carts that reserve from it, and their checkouts, which implement `CartCheckout` too |
| `FarmCompletionQueue` | draft, offline queue, tabs and forms of one scheduled task, and its completion on the server |
| `AutomationRuns` | events, the cursor over them, and the runs the cron claims and executes |
| `MC...` | the instances TLC checks, one module for each of the eight systems |
| `...Proofs` | theorems, for every value of the constants, about each of the eight |

Claims, discovery and recovery meet in the table
`stripe_payment_processing_claims`. Discovery and webhooks insert its rows;
recovery chooses the next row for an invocation of the cron; claims models what
an invocation (or a webhook) then does with it. Each module keeps of its
neighbours what its own properties can see: in `StripeDiscovery` a claim is its
presence (`recorded`), in `StripeRecovery` a status in which an attempt may end
in any way, in `StripePaymentClaims` discovery is the insertion of a row at any
time. The outbox takes over where the claims write their outputs
(`EnsureOutputs`) or a cart without a Stripe payment turns paid; either is
`Enqueue`. Attempts come before the claims: they lead to the session a claim is
about, and what `StripePaymentClaims` does in detail with a paid session is in
`StripeCheckoutAttempt` a few steps: `VerifyPaid` or `ReplayPaid`, `PayCart`,
`Fulfil`, `ReleaseCompleted`, and the ends without success. `OutletOffers`
composes several carts, each with a coarser checkout (`Charged` and the steps
after it), over one offer, and shows that each still implements `CartCheckout`:
what `StripeCheckoutAttempt` establishes in detail is what the holds rely on.
The farm queue and the automations share nothing with the others or with each
other.

### StripePaymentClaims and the code

`withStripePaymentProcessingLock` is the frame of a worker (a webhook delivery
or one candidate of a cron pass); its callback is `processCheckoutSession`.
`proc[w].pc` names the next database transaction of the callback:

| pc | Action | Code |
|---|---|---|
| idle | `Acquire`, `AcquireExhausted` | `acquireStripePaymentProcessingClaim` |
| retrieve | `Retrieve` | the session is read from Stripe; an unpaid one defers |
| check | `Check` | an earlier attempt's transaction and outputs are looked for |
| item | `LockItem` | transaction under the cart item's lock: `assertOwned(db)`, item status, reward |
| place | `PlacePlant` / `CreateOperation` | planting transaction with `assertOwned(transaction)` / `getOrCreateCheckoutOperation` |
| pay | `SetCartItemPaid` | `setCartItemPaid` |
| cart | `MarkCartPaid` | `markCartPaidIfAllItemsPaid` |
| txn | `CreateTransaction` | `createTransaction` |
| outputs | `EnsureOutputs` | `ensureStripePaymentCompletionOutputs` |
| final | `Complete` | `completeStripePaymentProcessingClaim` |
| failing | `RecordFailure` | the frame's `catch` |

Before each step of the table from `check` on stands `AssertOwned`
(`claimControl.assertOwned()`): it renews the lease or leaves the callback.
Between it and the write anything may happen, the lease running out and a
successor starting included; only the writes that check the claim in their own
transaction (`LockItem`, `PlacePlant`, `EnsureOutputs`, `Complete`) are fenced,
and `FencedOut` is how they fail. `Heartbeat` renews between any two steps,
`FailStep` is an error anywhere in the callback, `Crash` the platform's time
limit or a deployment. The in-memory lock of `checkoutCartItemLock.ts` only
serialises callbacks of one process; workers stand for different processes, so
it is not modelled.

Operators requeue (`Requeue`) or resolve (`Resolve`) a dead-lettered claim;
`DeleteTransaction` is the soft deletion the repository offers (no application
calls it today, the completion code guards against it). `Settle` is a delayed
payment method settling at Stripe, `Enqueue` the insertion of the queued row by
discovery, `Tick` the clock. `plantings` says what each item is, a plant or an
operation; no step changes it.

Data that is abstracted: a deadline is the time left, a token is the worker
that acquired (a UUID is fresh for each acquisition and a worker has one at a
time), the two attempt columns are their difference, a cart has one item, the
two outputs are written by one transaction and are one flag, error reasons are
their class. A step compares the lease with a clock reading up to `MaxLag` old:
the code reads `new Date()` before it waits for the row lock
(`transactionsRepo.ts:508` and `:533`, `:607` and `:640`).

The guide's sentence "An old worker cannot complete or fail a claim after its
lease expires" (`docs/stripe-checkout-processing-claims.md:44`) therefore holds
only up to the age of that reading: a worker that waited for the lock may end
its claim after the lease ran out, as long as nobody took the claim over
meanwhile. `OnlyTheOwnerEnds` says what the code guarantees, that the lease ran
by a reading at most `MaxLag` old; the theorem `OwnersEndInTime` gives the
condition of the guide's sentence, that no time passes between the reading and
the lock.

### PaidCheckout

Each payment has six effects (reward, delivery, item paid, cart paid,
transaction, outputs); each happens once and in this order; the sealed ones
(`sealed`: reward, plant, outputs) only while the claim is not under review;
completion needs them all. `ImplementsPaidCheckout` maps the durable state of
`StripePaymentClaims` to it.

### StripeDiscovery and the code

A pass is one invocation of `handleStripeCheckoutReconciliationCron`. Its `now`
is `invocationNow`, read once at the start; `cp` is the checkpoint it holds.

| pc | Action | Code |
|---|---|---|
| idle | `Start` | the invocation begins, `invocationNow` |
| begin | `ReadCheckpoint` | `getStripePaymentDiscoveryCheckpoint` |
| init | `Initialize` | `initializeDiscoveryCheckpoint`; a pass that comes second reads the row of the first |
| ready | `Fetch` | `collectStripeCheckoutSessionDiscoveryPage`: one page of Stripe's list |
| fetched | `Commit`, `Stale` | `commitStripePaymentDiscoveryCheckpoint`: claims and next position in one transaction, or a stale revision |
| exhausted | `Stop` | the pass has reported its range exhausted through the invocation |

`Stop` at any pc is the page limit, the discovery budget, an error or the
platform ending the function. `NextCheckpoint` is the arithmetic of
`runDiscovery`: the cursor after the page, or the next range, which starts the
overlap before the end of the exhausted one and ends at the later of the
invocation's clock and that end.

`Create`, `CompleteSession` and `Webhook` are Stripe's; they are external and
modelled from how the repository calls the list (`status: 'complete'`,
`created` between two bounds, `starting_after`, newest first). `created` is
Stripe's stamp, which may be off the API's clock by `Skews`.

Data that is abstracted: a tick is a second (both bounds are floored to
seconds by the request); the revision is, in each pass, whether its copy is
still the current one; `exhaustiveUpperBound` always equals `rangeLte`, so
`lte` stands for both; a claim is the membership of `recorded`.

A session is *timely* when it completes within `Overlap` of its stamp and was
stamped after the lower bound of the first range. That is what the scan can
promise, and the limit is real: the list shows only complete sessions and
ranges go by the time of creation, so a session that stays open longer than the
overlap (five minutes) after its range was exhausted is in no later range and
depends on its webhook. No document of the repository promises more; the
hazard is listed in `PROJECT.json` without a property.

### StripeRecovery and the code

`cursor` is the row of `stripe_payment_recovery_cursors`: the id after which
the cycle continues, and the frozen id through which it goes (0 before a cycle
begins). A claim is absent, due (`take` would offer it), busy (leased),
waiting, under review or completed.

| pc | Action | Code |
|---|---|---|
| idle | `Start` | `runRecovery` begins with the cursor's revision |
| ready | `Take`, `CompleteCycle`, `StaleRead` | `takeNextRecoverableStripePaymentCandidate`, one transaction: the first due claim of the cycle and the cursor on it, the end of the cycle, or the current row for a stale revision |
| taken | `Acquire`, `Unavailable` | `acquireStripePaymentProcessingClaim` for the candidate |
| working | `EndAttempt` | `processCheckoutSession` returns or fails; the loop goes on |
| complete | `Stop` | the cycle is reported |

`Enqueue`, `WebhookAcquire`, `WebhookEnd`, `Expire` and `FallDue` are what
happens to claims meanwhile: ids become visible out of order, webhooks compete,
leases run out under a live pass, retries fall due, operators requeue. `owed`
and `offered` are history, read by no guard: what was due when the cycle began
and has not been offered or taken up, and what the cycle has offered. Which
limit stops a pass (50 candidates, 100 moves of the cursor, 45 seconds) is not
modelled; `Stop` may come at any point, which covers them all.

### OrderConfirmationOutbox and the code

A worker is one message's turn in `runOrderConfirmationEmailWorker`: an
iteration of its delivery loop or of its reconciliation loop.

| pc | Action | Code |
|---|---|---|
| idle | `Claim`, `ClaimRefused` | `claimOrderConfirmationEmail`; a due row without attempts left or with an unreadable payload is closed |
| render | `FailBefore` | rendering, the client or the time budget fails in `sendEmail` before the request |
| render | `Start`, `StartUnavailable` | `beforeProviderSubmission`: `startOrderConfirmationEmailSubmission`, the fence; its answer may be lost |
| post | `Post` | `client.beginSend` sends the request |
| posting | `Accepted`, `Refused`, `Uncertain` | its answer, as `classifyEmailProviderSubmissionFailure` reads it |
| polling | `Polled`, `Uncertain` | `poller.pollUntilDone` |
| mark | `Mark` | `markOrderConfirmationEmailSent`, `markOrderConfirmationEmailFailed` |
| idle | `ClaimReconciliation` | `claimOrderConfirmationEmailReconciliation` |
| lookup | `Lookup` | `getOperationStatus` |
| finalize | `Finalize`, `FinalizeUnavailable` | `finalizeOrderConfirmationEmailReconciliation` |

A row's `stage` is its status and provider status in one: before the fence
`queued` and `claimed`; behind it `started`, `uncertain`, `reconciling` and
`pending`, all of them `sending`. Every stage has at most one deadline in the
metadata, and `elapsed` says whether it has passed. `Elapse` may come at any
moment; an invocation may also act on a deadline it has not seen passing, as
the code compares it with a clock read before the row lock, so `Start` and
`Finalize` do not look at `elapsed`. A claim id is the worker (a UUID is fresh
for each claim, and a worker has one claim at a time).

The provider is external. A request under way is refused, accepted or lost, and
it may arrive after nobody waits for it any more (`Arrive`, `Lose`); what was
accepted ends at some time (`Finish`). The code takes an answer of 400 to 499
other than 408 for proof that the message was not accepted, and so does
`Refused`; whether the provider keeps to that is outside the repository.
`Failed` and `Canceled` are one outcome; `posts` is history.

### AtMostOnceSubmission

A message is offered to the provider only while no earlier offer may have been
accepted, and is recorded as delivered or as undelivered only when that is the
truth and cannot change. A refused offer may be made again: retries on evidence
are part of the promise, retries without are not.

### StripeCheckoutAttempt and the code

A tab is one request of the customer to `checkoutRoutes.ts`: to check out the
cart, to resume a checkout, or to cancel a session.

| tab pc | Action | Code |
|---|---|---|
| idle | `StartCheckout` | the checkout route meets no active attempt and builds the snapshot |
| build | `CreateAttempt` | `createStripeCheckoutAttempt`, under the cart's lock, against the live cart |
| idle | `SendCreate` | `recoverStripeCheckoutAttemptSession` before the deadline: the create call with the attempt as idempotency key |
| sent | `ReceiveSession` | Stripe's answer arrives |
| bind | `BindSession` | `bindStripeCheckoutAttempt` |
| idle | `CancelAtStripe` | the cancel route expires an open session at Stripe |
| cancel | `CancelAttempt` | and releases its attempt |
| any | `GiveUp` | the request is refused, times out or dies |

A worker is one candidate of a pass of `stripeCheckoutOrphanReconciliation.ts`
over attempts without a session.

| worker pc | Action | Code |
|---|---|---|
| idle | `PickCandidate` | the next candidate, with its last miss as read now |
| list | `ListSessions` | the exhaustive scan of Stripe's sessions for the attempt |
| found | `ReconcileFound` | the session is bound, or the attempt of an expired one released |
| absent | `ObserveAbsence` | the clock is read after the scan; before the deadline nothing follows |
| observed | `RecordMiss` | the miss is recorded; an old enough last miss makes the pass try a release |
| release | `ReleaseAbsent` | `releaseStripeCheckoutAttemptAfterReconciliationMisses` |
| any | `WorkerStops` | a scan that is not exhaustive, an error, the end of the invocation |

`EditCart` and `DeleteCart` are the mutations that assert that no attempt is
active. `ReleaseExpired` is the webhook of an expired session, and what a
resumed checkout, the cancel route and the reconciliation of a bound attempt do
when they find the session expired.

| Processing of a payment | Code |
|---|---|
| `VerifyPaid` | the claim is taken (`Claims`), which counts a try, and the paid session is verified against its attempt and the live cart |
| `ReplayPaid` | the claim is taken and the transaction is already there |
| `PayCart`, `Fulfil`, `ReleaseCompleted` | the cart is marked as paid, the transaction written, the attempt released |
| `ProcessorStops` | the processor dies, loses its claim or fails and may try again |
| `DeadLetter` | it fails for good or in its last try, or the next claim finds no try left: manual review |
| `RequeuePayment` | an operator gives the claim a new cycle of tries |

`tries` counts the claims of a cycle and `review` is manual review. An operator
who resolves the claim instead does not release the attempt, so the decision
changes nothing here.

Stripe is external: `StripeCreates`, `RequestEnds`, `CustomerPays`,
`StripeExpires`. A create request may arrive at any time after it was sent,
several times, and after whoever sent it gave up. What the model takes from
Stripe, and the code relies on, is

* one session for an idempotency key, which is the attempt's id;
* no session with less than a minimum lifetime (thirty minutes,
  `checkoutRoutes.ts:124`), measured by Stripe's clock, which is behind the
  application's by at most `StripeLag`, less than that minimum;
* a list that, scanned to its end, shows every session created before;
* no payment of an expired session.

Application and database share one clock. A processor that has lost its claim
may still be at work when the next one takes it; what it may still write is the
subject of `StripePaymentClaims`, and here it ends at the latest when the
payment comes under review. Data that is abstracted: there is one cart; its
content, which the code compares line by line through the snapshot, is one
value; an attempt's events are folded to a record, as the repository folds them
on every read; a customer who reaches a bound session's page is `CustomerPays`
at any time.

### CartCheckout

A cart is shopped in, checked out, charged and settled. It is charged at most
once, for what it contains at that moment, its content does not change from the
moment a charge is possible, a checkout is abandoned only when it cannot be
charged any more, and a charge is never abandoned. `ImplementsCartCheckout`
reads the phase off the attempts, the paid sessions and the fulfilments.

### OutletOffers and the code

A cart stands for its one outlet item of one seedling. `row` is the item's
latest row of `outlet_offer_reservations`, `offer` the row of `outlet_offers`,
`phase` the cart: shopping, under an active attempt (`checkout`), paid
(`charged`), its transaction written (`settled`), deleted. A `charged` cart has
its session bound.

| Action | Code |
|---|---|
| `StartAdding`, `Add` | `reserveOutletOffer`: the clock is read, then the locks of cart, offer and holds are taken and `CanReserve` is decided |
| `Remove`, `DeleteCart` | the cart's mutations, refused once an attempt is active |
| `StartCheckout`, `Refresh`, `Begin` | the card checkout: validation, the hold taken again for the length of the payment, and the attempt, which reads the hold once more |
| `StartCheckout`, `Debit` | `directSunflowerCheckout.ts`: the validation, then the debit, which compares the cart and not the hold |
| `Abandon`, `Charge` | the end of an attempt releases its hold; the customer pays |
| `CheckHold`, `Convert`, `Settle` | `convertOutletReservationForCartItem`: the row is selected without a lock, `Sellable` is decided, and the row is updated by its id; then the cart is finished |
| `RefuseSale` | the same function throws: there is no hold, or it has ended and no attempt captures it |
| `RollBack` | the planting transaction fails after the conversion (an occupied field, a lost claim) |
| `ExpireReservation`, `CloseEnded` | the lifecycle cron: one conditional update per hold, by the time it runs |
| `SetStatus`, `OpenEdit`, `SaveEdit` | the administrator's actions; an edit is validated against what was committed when it was validated and saved later |

A hold is *captured* by an active attempt whose snapshot lists it; a captured
hold counts against the stock after its time is over, and the cron, the release
of other attempts and the removal leave it alone. `peak` (the largest quantity
an offer ever had, since an administrator may save a smaller one meanwhile),
`late` (the conversions of a hold that no longer counted) and `refused` (the
paid carts whose sale was refused) are history.

`Cart(c)` is an instance of `CartCheckout` for each cart;
`ImplementsCartCheckout` says that for carts paid by card the hold and the
offer are the content that cannot change from the moment a charge is possible.

The code does not keep what the test "reserveOutletOffer creates a held
reservation and blocks overselling" names: see Findings. What it does keep is
split into `StockCoversCommitments` (everybody agrees which holds count),
`CardSalesAreCovered` (a captured hold is never late) and
`CardPaidIsNeverRefused` (what was paid by card finds its hold good, however
late). That a paid cart is delivered in the end is not claimed: its tries are
limited, and a field that is occupied for good is an operator's.

Data that is abstracted: an item is for one seedling, a cart has one outlet
item and keeps its way of payment (`DirectCarts`); a draft offer and one that
has not started behave as a paused one; prices and texts are left out, an edit
changes the status or the quantity. Sessions of the time before attempts, which
have no snapshot, are not modelled. A sunflower cart whose hold ended between
its debit and its fulfilment stays charged and is not fulfilled; the hazard is
listed without a property.

### FarmCompletionQueue and the code

One task of one farmer, from one device. `version`, `status` and `log` are the
task on the server: its last event, its projected status, its completion
events. `draft` and `item` are the two IndexedDB records of the task, which all
tabs share. `proc[a]` is what a coordinator (a `drainOwnedQueue` loop, one in
each tab) or a form (`CompleteOperationModal`) is doing:

| pc | Action | Code |
|---|---|---|
| closed | `OpenDrain`, `OpenForm` | the tab acquires the lease of the session; the form loads record and draft |
| idle | `Claim` | `claimNextOperationCompletionQueueItem`, an expired claim included |
| idle | `Edit`, `SubmitForm`, `Handoff`, `Reload`, `DiscardDraft` | the form saves its draft, saves it and sends it, hands it to the queue, finds it changed elsewhere, discards it |
| photo, again | `AskPhoto` | `recoverFarmOperationCompletionImage` |
| upload | `Upload` | the upload to Blob, whose route validates the task; a failed upload asks again |
| send | `Send` | `completeFarmOperationWithImageUrls` is called |
| waiting | `LoseAnswer`, or the answer | the connection breaks, or the request has been answered |
| report | `ReportToQueue`, `ReportToForm`, `ConfirmDraft` | what the store makes of it: retry, failure, upload recorded, receipt |

A request lives in `requests` and is served in three steps, as
`completeFarmOperation` does it: `Resolve` (the id is looked up under the task's
lock), `Validate` (task and photograph are read without it) and `Submit` (under
the lock: the id again, the version, the completion event). It goes on when the
tab that sent it is closed (`Orphaned`). `Mine` is the comparison every change
of a claimed record makes: the session's lease, the submission id and the claim.
`Abandon` is a heartbeat that was refused or the end of the session; between
the end of a claim and the heartbeat that tells of it the tab goes on.
`OthersChange` is a reschedule, block, cancellation or completion by somebody
else; each is an event of the task and so a new version.

`owed` is history: what was handed to the queue and not discarded, expired or
logged out since.

Data that is abstracted: a report is one of `Contents` with one photograph,
whose path depends on the submission id and not on the content; times are left
out, so claims, records and drafts may expire at any moment and a queued record
may be claimed at any moment (its backoff only delays it; the retry button
shortens that delay and changes nothing else); identical requests nobody waits
for are one. The account, its memberships and the assignment stay valid: a
refusal on their account leads where a changed task leads. The store's limits
of count and size, several tasks in one queue, Web Locks, and what happens to a
task after it is completed (verification, evidence) are left out. So is the
submission without an id that the form makes where offline reporting is off or
draining (modes `off` and `drain_only`, `CompleteOperationModal.tsx:695`,
`scheduleTaskSubmissionsRepo.ts:958`): nothing here is about it. A logout
removes everything on the device; the takeover by a new session is that logout.

### AutomationRuns and the code

A worker is an invocation of `runAutomations`, and the runs are those of one
automation. `worker[w].pc` names its next step; executions of claimed runs go on
beside each other (`executors`), as `Promise.all` starts them.

| pc | Action | Code |
|---|---|---|
| idle | `ReadCursor` | the poll reads `automation_event_cursors` |
| list | `ListEvents` | the events after it, by id |
| enqueue | `EnqueueListed`, `AdvanceCursor` | one insert per event, with the unique index of definition and event; then the cursor is set, not raised |
| recover | `RecoverStale` | runs whose lock is older than fifteen minutes are queued again or fail |
| claim, locked | `LockDefinition`, `CommitClaim` | the claim counts the free capacity under the advisory lock of the automation and takes due runs |
| execute | `Complete`, `EndBatch` | the run is executed, and its result written by its id alone |

A writer calls `createEvent` outside of a transaction (`WriteEvent`,
`EnqueueAtOnce`, or `WriterDies` in between) or inside one, or inserts the row
itself (`InsertEvent`, `CommitEvent`, `AbortEvent`). `Crash` and
`LoseExecution` end an invocation anywhere, the second because one execution of
several could not record its result; `RetryDue` and `LockExpires` are time;
`RetryFailed` and `Replay` are an operator's.

Ids are given out at the insert and become visible at the commit, so the cursor
may pass an event that commits behind a newer one; `late` is the history of the
events that did so without `createEvent`, which nobody enqueues.
`CursorLeavesNothingBehind` is about the others, and the hazard is listed
without a property. So is another: an operator's retry makes the run of an event
`manual`, which the unique index does not count, so that a poll that meets the
event again makes a second run, other than `docs/automations.md` has it.

Data that is abstracted: definitions share the cursor only, so one is enough; a
run skipped by a condition ends like one that succeeded; which due runs a claim
takes depends on lists read before the lock and on what is left of its batch,
so it is any of them that fit; times are what they permit, and a lock becomes
stale only after the execution is gone, for the platform ends an invocation
long before fifteen minutes. Definitions and their graphs, schedules, test
runs, the steps of a run and what the modules do are left out, and so is
`startAutomationRun` (`automationsRepo.ts:402`), which starts one run without
looking at the cap and which no application calls: `InProgressWithinCap` is
about the runs the cron claims.

## Runs

| Run | Instance | Shows |
|---|---|---|
| `claims` | 2 workers, a plant or an operation, lease 2, delay 1, lag 1, 2 attempts, 1 review, fair | `TypeOK`, `CompletedIsFulfilled`, `OnlyTheOwnerEnds`, `TerminalStatesHold`, `ImplementsPaidCheckout`, `PaidIsSettled` |
| `discovery_race` | 2 interchangeable passes, 2 sessions, stamps off by one either way, a webhook for one of them, pages of 1, clock to 2 | `TypeOK`, `TimelySessionsAreRecorded`, `ExhaustedReportIsTrue` |
| `discovery_live` | 2 passes, 2 sessions, no webhook, fair | `TimelyIsRecorded` |
| `recovery_cycle` | 2 passes, 2 claims, fair | `TypeOK`, `CycleOffersAllDue`, `DueIsServed`, no deadlock |
| `confirmation` | 2 workers, a readable and an unreadable message, 2 attempts, fair | `TypeOK`, `ClosedRowsAreTrue`, `ImplementsAtMostOnceSubmission`, `AcceptedIsRecorded`, `QueuedIsTried` |
| `attempt_race` | 2 tabs, 1 pass, 2 attempts, 2 sessions, 2 contents, Stripe's clock behind by 1, life 1, 1 try, clock to 2, checkouts started up to 2 | `TypeOK`, `AbandonedIsUnpayable`, `OnePayableSession`, `HistoryHolds`, `ImplementsCartCheckout` |
| `attempt_live` | 1 tab, 1 pass, 1 attempt, 1 session, life 2, 2 tries a cycle, clock to 5, checkouts started up to 1, fair | `AttemptsEnd`, `PaidIsCompleted` |
| `outlet` | a card cart and a sunflower cart, an offer of one seedling and one of two that ends early, 1 request at a time, 1 edit, clock to 2 | `TypeOK`, `StockCoversCommitments`, `CardSalesAreCovered`, `CardPaidIsNeverRefused`, `ImplementsCartCheckout` |
| `outlet_oversell` | the same | `BlocksOverselling` is violated |
| `farm` | 2 tabs and a form, 1 submission id, 2 contents, 1 change by others, 1 fault of the tabs and 1 of the network, fair | `TypeOK`, `ReceiptIsTrue`, `CompletedOnce`, `NoWorkIsLost`, `OnlyTheHolderReports`, `QueuedIsResolved` |
| `farm_receipt` | the same with 2 ids | `FailedIsNotCompleted` is violated |
| `automation` | 2 interchangeable workers, 2 events, pages of 1, 1 run at once, 2 attempts, 1 incident | `TypeOK`, `InProgressWithinCap`, `CursorLeavesNothingBehind`, `ResultsStand` |

`OncePerCycle`, `AtMostOneSubmission`, `OneActiveAttempt` and `PaidMatchesCart`
are proved and not checked by a run: the first says of one cycle what
`CycleOffersAllDue` does not need, the others follow for the instances from the
refinements the runs check.

The bounds: payments share nothing (every row, lock and index entry belongs to
one `stripe_payment_id`), so one payment shows every race. Two workers are an
owner and its successor, by turns the stale predecessor. Two attempts give the
first, the last and the exhausted case of the attempt limit; one review gives a
second cycle. A lease of two ticks against a retry delay of one outlives a
retry that is due and a heartbeat that is late, and with a lag of one can be
taken for current after it has ended. Deadlock is not checked: with every
payment completed and no timer left the system rightly stops.

Two sessions with pages of one give a full page, a last page, a page with a
successor and a session that completes behind the cursor; an overlap of one
second against a window of two gives stamps inside and outside the overlap. Two
passes give every way in which one makes the other's copy stale. The race needs
a range and its successor (clock to 2). Two claims give, by turns, one below,
at and above the cursor, one above the frozen end of the cycle, and one that
fails for ever in front of the other.

Messages share nothing either, except the order of the queue, which decides
only who waits; a readable message and one that is closed at the claim show
every case. Two workers are one behind the fence or with a stale claim, and its
successor or its reconciliation; two attempts are the first and the last.
Deadlock is not checked: with the row closed the outbox rightly stops.

Attempts of different carts share nothing but the lock-free list at Stripe. Two
tabs race to create an attempt and leave requests behind each other; two
attempts are one and its successor after it was given up; two sessions let a
lost answer be followed by a second session, were there no key, and the first
attempt's session outlive it, were it given up too soon. One pass has its own
misses to rely on; that two passes over one attempt may each use the other's is
covered by the proofs, which are for any number of workers. A life of one or
two units, the minimum lifetime next to it and a grace of one put creation on
either side of Stripe's limit and misses on either side of the deadline and the
grace. `LastStart` bounds the clock at which a checkout is started. In
`attempt_race` it is `MaxTime`: the first attempt, started at 0, is given up by
misses at 1 and 2, or because its session expired or was cancelled, a late
create request of it may still be under way, and a successor is started, also
for other content, paid and completed. The successor's own deadline may lie
past the bound, but that it is given up too is what the first one shows, and a
third attempt would be needed to follow it. In `attempt_live` it leaves room
for life, lag and grace before `MaxTime`, so that every attempt can end; a pass
is not cut off at `MaxTime`, where it could not be repeated. One try in the
race and two a cycle in `attempt_live` are the first and the last; requeues are
not bounded. Deadlock is not checked: with the cart deleted or paid the
checkout rightly stops.

Two carts of either kind compete for one seedling; the second offer lets an
item change offers and an offer end before the hold does. A hold of one unit,
one of two for the payment and a clock to two give holds that end before,
during and after the payment. One request at a time is enough for the stale
readings, because `Add`, `Refresh`, `Begin` and `Debit` use the time their call
started with while the other cart's steps go on; one edit is one smaller or
larger quantity at any moment. Deadlock is not checked: with both carts settled
and the clock at its bound nothing is left to do.

Two tabs are the holder of a claim and its successor, or a stale predecessor; a
form next to them is the direct way of the same report, and a second open
form meets the first only in the draft, whose revision `known` stands for. Two
contents let one submission id be used for different reports. One id is given
out once: the record or the draft keeps it, and after they are gone a second id
would start the protocol afresh against a task that is done or has changed. The
violation needs no second id either and has one to show that. One change by
others is a task that changed after the farmer saw it; a fault of each kind is a
closed tab, lapsed claim or logout together with a lost answer, failed upload or
lost photograph, in any order. Deadlock is not checked: with everything expired
or confirmed and the tabs idle nothing is left to do.

Two events are one behind the other in a page of its own, and one that commits
late behind a newer one; two workers set the cursor back on each other, and are
the holder of the lock and who waits for it; a cap of one makes any second
execution one too many. Two attempts are the first and the last. An incident is
a crash, a lost result, an operator's retry or a replay; one of them is enough
for a stale lock and its recovery, or for a second run of an event. Deadlock is
not checked: with every event handled and the incidents used up nothing is left
but empty polls.

The safety properties, action properties and refinements of all eight systems
are proved for any number of workers, passes, tabs, carts and rows (see
Proofs); a run that checks safety and liveness together explores
the behaviours of the specification without fairness for the former.

Fairness of `claims`: time passes; a worker moves on or is killed (the
platform kills a function at 60 seconds); the hourly cron takes a recorded
claim that stays recoverable. No fairness is assumed for success of a step, for
heartbeats, operators, Stripe or discovery, so "settled" may mean manual
review; that a permanently failing payment does reach an operator depends on
every acquisition being counted, and one that is not counted breaks the run.

Fairness of `discovery_live` and `recovery_cycle`: the cron is started again
and again (it is scheduled hourly); an invocation takes its next step or is
stopped; and the platform does not for ever stop invocations between the same
two steps. The last is strong fairness on the read, the fetch and the commit of
a fresh checkpoint, and on the move of the cursor and the acquisition of a
taken claim: each is a call of at most a few seconds in an invocation of a
minute. Nothing is assumed of webhooks, of Stripe, of the ends of attempts or
of operators. In `recovery_cycle` a claim may fail and fall due for ever; the
others are served all the same.

Fairness of `confirmation`: time passes, the connection string is set in
some deployment, a request does not travel for ever, and the provider ends what
it accepted. An invocation moves on or is ended. The minutely cron claims what
stays due, oldest first (strong fairness, for a claim may die and the row fall
due again). A lookup under a current lease of minutes does not for ever go
unanswered, nor is its answer for ever cut off before it is recorded. Nothing
is assumed of submissions: they may fail, be lost or be cut off every time.

Fairness of `attempt_live`: time passes; every attempt without a session is
picked again and again, for the cron moves its cursor before each candidate and
wraps around; and passes are not for ever cut off between the same two steps
(strong fairness: the cron repeats them without a limit). An expired session is
announced by the webhook until it is processed, an open one expires. Of payments
no more is assumed than in `claims`: a recorded claim that has a try left is
taken (weak fairness), a processor moves on or stops, by failure, death or dead
letter. No try is assumed to succeed, and tries are counted, so both properties
end in "or the payment is under review"; what an operator then does is free,
and a requeued payment owes its end again. Nothing is assumed of tabs, of create
requests, of the customer or of operators. A unit of the clock is the grace
of two minutes, which no invocation (60 seconds) outlasts and which is shorter
than the cron's period (five minutes): hence `PatientTick` advances only
while no pass is under way and, since the clock is bounded, only after each
overdue attempt was missed in the unit that ends.

Fairness of `farm`: a tab is opened again and its coordinator takes its next
step (the farmer comes back to the application, online, as the message of a
handoff asks), the server serves a request somebody waits for, and a claim
nobody renews runs out (two minutes,
`OPERATION_COMPLETION_QUEUE_CLAIM_MAX_AGE_MS`). Nothing is assumed of forms, of
discards, or of requests nobody waits for.

## Findings

* `outlet_oversell`. `convertOutletReservationForCartItem` reads the hold
  without a lock, compares its end with a clock read before, and updates the
  row by its id. A cart paid by card is protected by its attempt; one paid with
  sunflowers is not: its hold may end and its seedling go to another cart
  between the two, and both are sold. The test of the name "blocks overselling"
  (`tests/outletOffersRepo.node.spec.ts:262`) reserves and does not convert.
* `farm_receipt`. The documentation of the farm queue says a lost response can
  be retried or queued under the same identity and returns the original receipt
  (`docs/farm-offline-operation-completion.md:85` and `:100`). The queue asks
  for the photograph first, and `recoverFarmOperationCompletionImage` validates
  the task without looking at the submission id: once the lost request has
  completed the task, the queued copy is refused as `task_changed`, which is
  terminal. The task is completed and the device shows a failure.

## Proofs

Assumptions are those of the modules' constants: `RowAssumption` and
`PaymentsAssumption` (claims), `DiscoveryAssumption`, `RecoveryAssumption`,
`OutboxAssumption`, `AttemptAssumption`, `OutletAssumption`,
`AutomationAssumption`, `FarmAssumption` and `NoneAssumption` (the absence of a
command or record is none of them). In particular any number of workers, passes,
tabs, forms, sessions, claims, messages, attempts, carts, offers, events and
runs, any lease, overlap, window, page size, clock skew, grace and limit of
attempts. The one assumption that is more than a type is `StripeLag < MinLife`
of `AttemptAssumption`.

`StripePaymentClaimsProofs`

* `TypeCorrect`: `Spec => []TypeOK`. The row operators map well-formed rows to
  well-formed rows (one lemma each); `TypeInvariant` adds that a busy worker has
  a payment and a failing one an error, which the row of `RecordFailure` needs.
* `FulfilledBeforeCompleted`: `Spec => []CompletedIsFulfilled`.
  `completeStripePaymentProcessingClaim` looks only at the transaction and the
  outputs, so the property is not inductive. `OrderInvariant` adds that the
  durable effects are a prefix of their order (`EffectsInOrder`) and that no
  worker, a stale one included, is ahead of them (`WorkerBehindEffects`).
* `OwnersEnd`: `Spec => OnlyTheOwnerEnds`, `OwnersEndInTime`: with `MaxLag = 0`
  the owner ends a claim while its lease runs in truth (`EndsWithinLease`), and
  `TerminalStatesAreHeld`: `Spec => TerminalStatesHold`. Every step changes at
  most one claim, or is a tick, and is for each claim one of four kinds
  (`ClaimStep`): nothing, a claim that is not closed moves on, the owner ends
  it, an operator decides. A tick is the reason for `ClosedRows`: a closed row
  has no deadline left to lower, so that time does not change it either.
* `PaidCheckoutRefined`: `Spec => ImplementsPaidCheckout`. The state of
  `PaidCheckout` is computed from the durable effects and the claim. One lemma
  for each effect shows that a step either produces it, with all earlier ones
  there (from `WorkerBehindEffects`, which is why a worker that has lost its
  claim does no harm) or finds it done and changes nothing (the replay of a
  takeover). The effects that `PaidCheckout` seals are those whose transaction
  checks the claim, so the claim is in processing when they happen; an
  operation, the item and cart marks and the transaction are not sealed, and a
  late worker may still produce them under review. Every other step moves the
  outcome of one payment or nothing (`OutcomeStep`, from `OneClaim`), and a
  claim becomes completed only with all six effects (`EffectsInOrder`).

`StripeDiscoveryProofs`: one invariant, `Inv`, gives `TypeCorrect`,
`NoTimelySessionIsSkipped` (`TimelySessionsAreRecorded`) and
`ExhaustedReportsHold` (`ExhaustedReportIsTrue`). To the properties it adds

* `Ranges`: a later range starts no earlier than the first and is wider than
  the overlap, so that the end of what was exhausted can be read off its start;
* `Copies`: a fresh copy is the current checkpoint;
* `Scanned`: every session of the range at or above the cursor that completed
  before the end of the range is recorded, which is what one page hands to the
  next although other passes commit pages and sessions complete in between;
* `Pages`: a fetched page that can still be committed holds every such session
  from the cursor down to its last; what joined the list since the fetch
  completed too late to be owed.

`StripeRecoveryProofs`: its `Inv` gives `TypeCorrect`, `NobodyIsPassedOver`
(`CycleOffersAllDue`) and `NobodyIsOfferedTwice` (`OncePerCycle`). It adds

* `OwedIsAhead`: what is owed is due, above the cursor and within the cycle, so
  a cycle that finds nothing to offer owes nothing;
* `OfferedIsBehind`: what was offered is at or below the cursor;
* `Ownership`: an invocation that owns a claim owns a busy one, and only one
  invocation does.

`OrderConfirmationOutboxProofs`: its `Inv` gives `TypeCorrect`,
`NoSecondSubmission` (`AtMostOneSubmission`), `ClosedRowsTellTheTruth`
(`ClosedRowsAreTrue`), `SubmissionsAreBounded` (`AttemptsAreBounded`) and
`Refinement` (`Spec` implements `AtMostOnceSubmission`). It relates each row to
its message at the provider, and each invocation to the row it works on:

* `MessageOK`: before the fence nothing is under way or accepted, and a claim
  has an attempt left for the submission it may make;
* `WorkerOK`: from the fence to the end of its request an invocation holds the
  claim, which nobody can take from it while the row stands behind the fence
  (this is what keeps two requests apart); the holder of a claim that has not
  crossed has sent nothing; and what an invocation is about to report, of its
  own submission or of a lookup, is what the provider will still say later.

`StripeCheckoutAttemptProofs`: its `Inv` gives `TypeCorrect`, `OneFence`
(`OneActiveAttempt`), `NothingAbandonedIsPaid` (`AbandonedIsUnpayable`),
`NoSecondCharge` (`OnePayableSession`), `PaidCartIsHeld` (`PaidMatchesCart`),
`HistoryIsFinal` (`HistoryHolds`) and `Refinement` (`ImplementsCartCheckout`).
It is needed because a release says nothing of Stripe:

* `AbandonedHasEnded`: the session of an abandoned attempt has expired, or the
  attempt has none and its deadline has passed, after which Stripe, with its
  minimum lifetime, refuses to create one;
* `WorkerHolds`: the absence a pass saw can be relied on if there had been a
  miss before the scan, for misses are recorded after the deadline
  (`MissesAreLate`). This is what the second miss is for: the scan of the first
  may have ended before the deadline and the request arrived after it;
* `PayableIsKept`, `Fulfilment`, `CartIsHeld`: what can be paid belongs to the
  active attempt, which holds the cart as it was, until the payment is settled;
* `TabHolds`: what a request has read of a session is still true when it binds
  or releases.

The steps are first classified by their effect on the durable state (`Effect`:
thirteen kinds, most of them the step of several actions) and the invariant is
shown to survive each kind.

`OutletOffersProofs`: its `Inv` gives `TypeCorrect`, `CommitmentsCovered`
(`StockCoversCommitments`), `CardSalesCovered` (`CardSalesAreCovered`),
`CardPaidNeverRefused` (`CardPaidIsNeverRefused`) and `CartsImplementCheckout`
(each cart paid by card implements `CartCheckout`). It adds for each cart
(`CartOK`) what its phase says of its hold: a hold is on an offer, a captured
one is held or converted, a settled cart's is converted, and a conversion under
way belongs to a charged cart with a row. No conversion of a card cart is late,
since a captured hold counts after its end, and none is refused, since a
captured hold that is not sold yet is still held; and the quantity of an offer
never exceeds its `peak`, so that an edit to a smaller one leaves the
commitments covered by what the offer once had.

`AutomationRunsProofs`: its `Inv` gives `TypeCorrect`, `WithinCap`
(`InProgressWithinCap`), `ExecutedOnceAtATime` (`OneExecution`),
`NothingLeftBehind` (`CursorLeavesNothingBehind`) and `ResultsAreFinal`
(`ResultsStand`). None of them is inductive alone:

* `ExecutorsOK`: an execution is of a run that is running, whose lock is not
  stale, on the attempt it was claimed for, and no other execution is of the
  same run. This is what lets a result that names only the run be the right
  one;
* `CapacityOK`: the running runs are within the cap; and while an invocation
  holds the advisory lock, the runs it chose stay due and still fit beside those
  that run, because only the holder of the lock starts any;
* `CursorOK`: events are written in order but for late ones; the cursor and
  every position an invocation may set it to (`Passed`) have all events up to
  them enqueued, late ones apart; and the rest of a page an invocation has read
  (`PageOK`) has no gap. Two invocations may set the cursor back on each other,
  but neither to a position that was not passed.

`FarmCompletionQueueProofs`: its `Inv` gives `TypeCorrect`, `CompletesOnce`
(`CompletedOnce`), `ReceiptsAreTrue` (`ReceiptIsTrue`), `ConfirmationsAreTrue`
(`ConfirmationsHold`), `WorkIsKept` (`NoWorkIsLost`) and `HoldersReport`
(`OnlyTheHolderReports`). To the properties it adds

* `ServerOK`: the completion event is the only one and ends the task, in the
  version its command names, because version and submission id are looked up
  again under the lock;
* `RequestsOK`: a request that was granted has its event; one that a tab waits
  for is the only one of that tab and carries the command the tab works on,
  though older requests of the same tab, which nobody waits for, may still be
  under way;
* `HolderOK`: a live claim is on a record under way, and a coordinator that
  holds the record and works, works on its command: a claim taken over and
  answered late reports nothing (`Mine`), and one that is still held reports
  what it sent.

Every step is one of a tab (`ActorStep`), of the server, or of neither
(`EveryStep`), which gives the requests and the tabs; the record, the draft and
the task each have a lemma that names the few actions that change them
(`WhoMovesTheRecord`, `WhoMovesTheTask`). That the documentation's promise of
the first receipt does not hold (run `farm_receipt`) does not contradict these
theorems: they say that a receipt is true, not that there is one.

Each inductive invariant was checked by TLC on the instances of the runs before
it was proved. Only model-checked: the liveness properties (`PaidIsSettled`,
`TimelyIsRecorded`, `DueIsServed`, `AcceptedIsRecorded`, `QueuedIsTried`,
`AttemptsEnd`, `PaidIsCompleted`, `QueuedIsResolved`), which rest on fairness,
beyond this prover's reach. No other property of a passing run is without its
theorem.

## Not modelled

Items paid with sunflowers or from inventory, several items, package checkouts,
billing automation (best effort, only in the attempt that creates the
transaction), output fingerprints, the drain fence of migration 0078; the
wall-clock budget of the cron (15 of 45 seconds for discovery, recovery only
while 30 are left) and its health report; of attempts the cursor of their
reconciliation and the deletion of the account; of the outbox the health
snapshot, the delays between attempts and checks, and the batch limits of an
invocation; what the sections on the outlet offers, the farm queue and the
automations name; and the components the inventory lists without a module. Of
those the checkout notification outbox and the sunflower packages have
protocols of their own that are worth a module; a ledger entry, for one, starts
from the balance of the entry with the latest `created_at`
(`sunflowerLedgerRepo.ts:204`), which is when a transaction began and not when
it got the lock of the account, so that overlapping ones may be read in another
order than they were written. Of the rest, deliveries, billing and the
rest of the applications are mostly single transactions, or calls of external
services whose outcome is not recorded.

## Plan

In this order, each module with its invariants written to be proved:

1. `SunflowerPackageCheckout`: the package branch of the callback and the
   ledger's unique keys (`topUpSunflowerPackage`); a one-time package bought
   twice at once, each payment credited or rejected once; the balance as the sum
   of its entries, whatever order overlapping transactions began in.
2. `CheckoutNotificationOutbox` (Slack and e-mail channels, skipped messages,
   no reconciliation), a second refinement of `AtMostOnceSubmission`.
3. Several items of mixed currencies in `StripePaymentClaims`, and a module
   that composes discovery, recovery and claims over one table: a paid session
   is settled though every webhook is lost.
