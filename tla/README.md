# Verification of Javi

Javi lets a small shop send its customers a message when their order is on the
way, with a tracking link, and asks for a rating afterwards. It is a Django
application: gunicorn with two processes of four threads on Cloud Run (which may
start and stop instances), Postgres at READ COMMITTED, and HTTP calls to message
providers (Infobip, WhatsApp, Telegram), Google Maps, Cloud Tasks and Whop.

`ATOMIC_REQUESTS` is not set, so every ORM statement commits on its own except
inside `transaction.atomic()`. Most handlers read a row, decide on the Python
object, and save some columns later. What makes this code hard is therefore not
any one handler but what happens between its statements: another request, a
second copy of a task, a receipt, a killed instance. This project models the
handlers statement by statement and checks what they guarantee together.

All source paths below are relative to the repository root.

## 1. Inventory

| Component | State | Operations | Where it is hard |
|---|---|---|---|
| Delivery lifecycle (`deliveries/services.py`, `api.py`, `views.py`) | `Delivery`, `TrackingToken`, its `Notification`, `OutboundSend` rows | create, ready, start, edit, delivered, delete, restore, resend | requests race on one row; the provider is called after the commit; crashes |
| Retention (`deliveries/retention.py`) | the same rows, `pii_purged_at` | daily `purge_recipient_pii` in batches | ids are read first and erased later |
| Send quotas (`notifications/quotas.py`) | `OutboundSend` journal, the shop row as a lock | `reserve_send` | counts over all shops under the lock of one |
| Message status (`notifications/services.py`, `webhooks.py`, `deliveries/services.py`) | `Notification.status`, `provider_message_id`, `NotificationAttempt` | send, record, resend, receipts | receipts late, twice, out of order |
| Escalation (`deliveries/services.py`, `tasks/`) | attempts, a Cloud Task | schedule, escalate | tasks come at least once |
| Rating (`tasks/views.py`, `deliveries/services.py`, `tracking/views.py`) | `Notification` of kind rating_request, `OptOut`, `Rating` | callback, opt out, rate | one task per edit of the time, late and repeated |
| Shop pages and API (`deliveries/views.py`, `forms.py`, `api.py`, `tracking/views.py`) | none of their own; pages stay open in browsers, links in phones | board, forms, buttons, customer page | pages and links that are older than the row |
| Delivery API create (`deliveries/api.py`) | `ApiIdempotencyKey` | create with key | check, create, then insert the key |
| API keys (`deliveries/auth.py`, `views.py`) | `ApiKey` | generate, revoke | counted, then inserted |
| Billing (`billing/`) | `ShopSubscription`, `BillingPayment` | checkout, webhook, sync, payment, refund | API is read before the row is locked |
| Limits (`common/ratelimit.py`, `accounts/`, `tracking/`) | `RateLimitCounter` | hit, exceeded, lockout, signup | tested before, counted after; rows swept |
| Shop profile (`deliveries/views.py`, `api.py`) | settings and origin of the `Shop` | save, geocode, purge of the cache | every setting is saved from an older read |
| Maps, cache, metering (`integrations/`) | `GeocodeCache`, `ProviderUsage` | geocode, route, count | look up, call, store are separate |
| Messaging providers (`integrations/`) | `TelegramContact`, `ProviderUsage` | the chain of channels | an answer may be lost although the text was taken |
| Merchant webhooks (`notifications/outbound.py`) | none | sign and enqueue | order and number of events |
| Funnel, client IP, logging, settings, landing, locale | statistics, configuration | - | not a protocol |

How they interact: `start_delivery` locks the delivery, calls `reserve_send` (which
locks the shop) in the same transaction, commits the queued Notification, then
calls the provider chain, saves the outcome, enqueues the rating task and (with
the escalation flag) the escalation task, and emits `delivery.started`. Receipts
find the Notification by the provider's message id. Billing and staff change the
limits that `reserve_send` reads. The purge erases what all of them wrote. The
profile gives the origin from which arrival times are computed; creating a delivery
geocodes through the same cache. Sign-in, sign-up and the tracking pages share one
kind of counter.

What makes each part correct: one first message per delivery, paid for and
announced once; repeats within their cap; a delivery on the way is complete and
can be resent after a crash; no lock cycle; recipient data erased when due and
not before; every send within its shop's limits; nothing told to shop or
merchant that did not happen to a message; every channel tried in the end; a text
copied only when an answer was lost; one delivery per Idempotency-Key; a customer
who is asked for a rating in the end and about once; one true answer to a start
and a history that is final; the subscription follows Whop, is not charged in the
trial and does not outlive its grace period; limits that concurrent requests pass
by a known number only; an address paid for about once.

## 2. Modules

| Module | Models | Run by | Proofs |
|---|---|---|---|
| `DeliveryLifecycle` | one Delivery row, its handlers and the purge | `MCDeliveryLifecycle` | `DeliveryLifecycle_proofs` |
| `CustomerNotice` | the abstract promise: announced once, sent once, repeated at most Cap times | instantiated in `DeliveryLifecycle` | `DeliveryLifecycle_proofs` (implemented) |
| `SendQuotas` | `reserve_send` for many shops, numbers, days | `MCSendQuotas` | `SendQuotas_proofs` |
| `MessageStatus` | the on_the_way Notification: chain, resend, escalation, receipts | `MCMessageStatus` | `MessageStatus_proofs` |
| `Subscription` | the subscription row of one shop and its memberships at Whop | `MCSubscription` | `Subscription_proofs` |
| `Payments` | trial, checkout, grace period, one payment and its refunds | `MCAccount` | `Account_proofs` |
| `ApiCreate` | `POST /deliveries` with one Idempotency-Key; the shop's API keys | `MCRequests` | `ApiCreate_proofs` |
| `OneDelivery` | the abstract promise of an Idempotency-Key | instantiated in `ApiCreate` | `ApiCreate_proofs` (implemented) |
| `DeliveryRequests` | pages, API calls and customer link of one delivery over time | through `Board` | `DeliveryRequests_proofs` |
| `Board` | an open board while `DeliveryRequests` goes on | `MCRequests` | - |
| `TimeWindow` | `clamp_to_window`, `rating_send_time` in minutes | through `RatingRequest` | `RatingRequest_proofs` |
| `RatingRequest` | rating tasks, callback, opt-out, rating | `MCRequests` | `RatingRequest_proofs` |
| `RateLimits` | one counter, two ways of using it | `MCAccount` | `Account_proofs` |
| `ShopProfile` | profile settings, geocoding with cache and metering | `MCAccount` | `Account_proofs` |
| `Channels` | one text through the chain of channels, and its count | `MCAccount` | `Account_proofs` |

`MCRequests` and `MCAccount` put modules together that share no state: a variable
`part` says which of them a behaviour exercises, so that one run checks them all
without multiplying their states.

**Shape.** In every module a worker is a thread serving a request. `pc[w]` is the
statement it is at, and `seen`, `arg`, `flow`, `job`, `data`, `call`, `limits`
are the Python objects it holds, cleared as soon as the handler no longer looks
at them. One action is one committed statement, one transaction (a lock is taken
in its own action, and the writes appear at the commit), or one call to the
outside. A definition whose comment starts with "Mutant:" is not part of the
model: it is a plausible bug, used to show that a property can fail.

**DeliveryLifecycle.** `Receive` is the view's or API's read (404 for an erased
row; the edit form also for a deleted one). `StartCheck ... StartEvent` are
`start_delivery` in order; `ResendCheck ... ResendRecord` are
`resend_on_the_way`; `Ready`, `Delivered`, `Delete`, `Restore` save their own
column of the row on the strength of the object read. `Edit` saves the fields
that differ from that object. `PurgeScan`/`PurgeBatch` are the two halves of the
purge. The start of a delivery that is delivered or soft-deleted is allowed, as
in the code (`services.py:464-468` looks at neither). Time is abstract: an
arrival time is a value, and a deletion or delivery is `recent` or `old`
against the retention cutoff.

**CustomerNotice** is what the customer is promised. `NoticeSpec` maps
`announced` to "a Notification exists", `first` and `again` to the provider calls
made.

**SendQuotas.** `Begin` reads the clock, `Lock` waits for the shop row and reads
its limits, `CheckRecipient`, `CheckShop`, `CheckGlobal` are the counts in the
order of `_check`, `Insert` adds the row and ends the transaction. In
`start_delivery` the transaction goes on until the outer commit; nothing that
happens there touches the journal, so the end is put at the insert, and `Abort`
covers the rollback. `limits` in a journal row is a history variable.

**MessageStatus** starts where the transaction of `start_delivery` commits.
`SendChain` is `ChainedMessagingProvider`: a prefix of the chain was tried and
either the last accepted or all refused. `Record`, `Wipe`, `Fill` are the saves
of `_send_and_record` and `_record_attempts`/`_append_attempts`, in the different
orders that start and escalation make them. `Receipt` reads the row that carries
the message id; `Apply` decides on that object and saves. `Reports` lists what
Infobip may have reported of a message by now, in any order and number.

**Subscription.** `Checkout`/`CheckoutSave` are `start_checkout`; `Webhook` takes an
event (and may leave it, to come again); `PaidRead`/`PaidLink` are the last lines
of `record_payment`; `Read` is `sync_membership`'s call of Whop, `Find` is the search
for the shop that `apply_membership` makes before it locks the row (nothing is searched
when the data carry a shop token, `Answered`), `Apply` is what it does under the lock,
with `Stored` for the new columns. `Tokened` and `Linked` are the memberships whose data
at Whop carry the shop token and the checkout's id. The start of the grace period
(`past_due_since`) is in `Payments`. Whop statuses are grouped by `WHOP_STATUS_MAP`.
`raced` is history: two answers overlapped, or a read of Whop's API failed.

**Payments** takes from `Subscription` only that some status is stored, in any order
and with repetitions (`Membership`). Time is in ticks, `DayTicks` of them to a day, so
that the rounding of `trial_days_left` shows. `plan` is the last checkout: what
Whop was asked to wait, and the end of the trial the shop saw. `due` is history.
`mail` holds webhooks that may come again; a refund is found, read at Whop and
saved in three steps.

**ApiCreate.** `Authenticate`, `Lookup`, `Create`, `MarkSource`, `InsertKey` and
`DropOwn`/`Answer` are the statements of `DeliveriesView.post`. The unique constraint is
the condition in `InsertKey`. `lost` is history: what a stopped instance left.
**OneDelivery** sees only which deliveries exist, which one is the key's and which
ones answers named (`Once`).

**DeliveryRequests** runs one request at a time, but lets time pass, pages stay
open and links grow old between them. `Start`, `Resend`, `After` are the services as
one step each (their statements are in `DeliveryLifecycle`); every view and API call
is an action with its own conditions and answer. `said` is the last answer.
`form` is an open edit page and the time it shows.

**Board** composes `DeliveryRequests` with one browser that has the board open.
`ReadRows` and `ReadSignature` are the two queries of `DeliveryListView`, anything may
happen between them, and `torn` records that the card moved there. `Poll` is the timer
of the page that got another signature from `DeliveryFeedView` and reloads.

**RatingRequest.** Arrival times are minutes; a task is named by the arrival time it
was made for, stays until a callback answers 200, and may come again even then, also
because a time that is moved and moved back has two tasks. `Callback` reads the row and
drops a task that is early; `CheckAsked`, `CheckOptOut`, `Reserve`, `CreateAsk`,
`SendAsk` are `send_rating_request`. `asks` counts Notifications, `sent` says that a
request went to the provider, and `cut` (history) that an instance was stopped between
the two. Ratings are taken of a delivered delivery only.

**RateLimits.** `use` tells the two orders apart: tracking pages count first, sign-in
and sign-up look, act and count. `Count` is the `get_or_create` of `hit`, `Add` its increment
of a row that was there, `Sweep` the removal of rows that are over, `Refresh` the read
that decides. `let` is history: who was let through in which window.

**ShopProfile.** `Ask` reads the shop; `SavePage` and `SaveApi` save it; `Lookup`,
`Meter`, `Call`, `Store`, `SaveOrigin` are the geocoding that follows, also for a new
delivery. `KeyOf` is `normalize_address`. `Purge` is the loop of
`purge_recipient_pii` that deletes rows of the cache that are past the limit; `purged`
counts how often it hit an address.

**Channels.** `Chain` is `_default_chain_paths` for any settings; `Try` goes to the next
channel, `Post` is the request (taken, refused, or taken with a lost answer), `CountText`
is the metering. `copies`, `lost`, `unheard` and `cut` are history.

## 3. Runs

| Run | Instance | Shows |
|---|---|---|
| `lifecycle_start` | 3 workers, start/ready/resend, cap 2, crashes | `StartedOnce`, `PaidBeforeSent`, `ResendCapHolds`, `NoLockCycle`, refinement `NoticeSpec` |
| `lifecycle_retention` | 2 workers, start/edit/delivered/delete/restore/purge, 2 numbers, 2 times, crashes | `RatingFollowsEta`, `OnTheWayIsComplete`, `NeverEraseActive` |
| `lifecycle_live` | 2 workers, start/resend/delivered/delete/purge, fairness | `MessageGetsOutcome`, `NoticeFairSpec`, `DueIsErased` |
| `quotas` | 2 workers, 2 shops, 2 numbers, 2 plans, 2 days, caps 1 and 2 | `WithinPlan`, `RecipientOvershoot`, `GlobalOvershoot` |
| `message_race` | 2 workers, 2 channels, 1 resend, 2 messages, crashes | `StatusIsEarned`, `CheckIsPlanned` |
| `message_serial` | 1 worker, 3 channels, 1 resend, 5 messages, fairness | `StatusBelongsToMessage`, `AttemptsWithinChain`, `StartIsAnnounced`, `NoReceiptDowngrade`, `EveryChannelTried` |
| `billing` | 2 workers, 2 memberships (one with a token, one with the checkout's id), all webhooks, failures, crashes | `ActiveIsEarned`, `AgreesWhenQuiet`, `OldMembershipHarmless` |
| `requests` | create: 2 threads, 3 deliveries, 3 API keys, crashes; pages: 4 ticks; board: 1 tick and 1 arrival time; rating: 2 threads, 2 arrival times, 4 instants over two days, 1 crash | refinement `OnceSpec`, `DuplicatesOnlyByCrash`, `KeysNearCap`; `OneTrueOutcome`, `HistoryIsFinal`; `BoardCatchesUp`; `AskedBound`, `AskedInTheEnd`, `RatingToldOnce` |
| `account` | limits: 3 threads, limit 2, 2 windows; profile: 2 threads, 4 spellings of 2 addresses, 1 purge of each, 1 crash; payments: 2 clerks, 6 ticks; channels: 2 threads, 2 texts, every chain | `LimitHolds`; `GeocodingPaidOnce`; `GraceFromFirstWord`, `NeverChargedInTrial`, `RefundNeverAhead`; `UsageTellsChannels`, `CopiesOnlyUnheard` |
| `erased_reappears` | 2 workers, violated | `ErasedStaysErased` |
| `duplicate_on_retry` | the instance of `requests`, violated | `NoDuplicate` |
| `secret_restored` | the instance of `account`, violated | `SecretKept` |

`message_serial` and `message_race` divide the work: what receipts and tasks may
do in any order is asked of one request at a time, because with overlapping
requests the stronger properties fail (section 5); what
survives every overlap is `StatusIsEarned` and `CheckIsPlanned`.

**Bounds.** Two workers give every pairwise overlap of statements; three are used
where a third request could profit from what two did (start). Two numbers and two
times tell "changed" from "unchanged". `SentBound` bounds accepted messages:
with it the retries of a resend and of every escalation still fit. `LastDay` stops
the calendar after one midnight inside a month. The caps are as small as the
case "one below, at, one above" allows. `EventBound` holds Whop back while a
webhook is on its way (a change adds up to two), which leaves every pair of events
in either order. `Row` and `Token` allow one delivery and one key more than the case
needs. The instants of the rating lie before and after the planned times, by day and at
night, with both arrival times able to be the earlier one; `LinkEnd` lies between
them. `Horizon` is long enough for a time and a link to be over. `CallBound`, `TextBound`
and `CountBound` stop new requests once each thread has met the others in every
step; `KillBound`, `StopBound` and `CutBound` allow one stopped instance, `PurgeBound` one
purge of an address (with it a third call for one address happens, which no two threads
make without it; with `CallBound` 3 the bound of four is met, and still holds, in
7,587,437 states). The board's part keeps the clock, the edit page and the choice of a
time out of the run, none of which moves a card. `LastTick`
lets trial and grace period end, and the grace period begin twice. Symmetry is used for workers, numbers and
times in runs without liveness; no definition names one of them.

**Deadlock** checking is off where the system may come to rest: `DeliveryLifecycle`
when the row is erased (every request is a 404), `MessageStatus` when all messages
have their final fate and the bound is reached, and `MCRequests` and `MCAccount` when a
bound is reached: nothing waits for anything there, since these handlers take no
lock. `SendQuotas` and `Subscription` are checked for deadlock.

**Fairness.** `DeliveryLifecycle!FairSpec`: an accepted request is carried on
(strong fairness per worker, because Postgres serves lock waiters in turn, so a
request that is offered a lock again and again gets it), and Cloud Scheduler calls
the purge daily (strong, because another request may delay one call). Liveness is
stated for runs without crashes: after a crash nothing in the code repeats a send.
`MessageStatus!FairSpec`: requests are carried on, and Cloud Tasks delivers a task
it holds. `RatingRequest!RFairness`: time goes on, Cloud Tasks runs a task that was not
answered 200 (it repeats it after a crash), and a thread that answers goes on; the
run bounds the crashes. `Board!BFairness`: a page that was begun is loaded, and the timer
asks again. The timer is a `setInterval` of 15 seconds that skips a turn while the page is
hidden or somebody types in it, and a fetch that fails is tried again at the next; so this
says that the shop looks at its board again, with a session that is still good. Nothing is assumed of clients, of the recipient, of Infobip or
of the scheduler, which may fail to take a task. `AskedInTheEnd` is therefore about a
task that is there; that there is one for the time of the row is `RatingFollowsEta`.

## 4. Proofs

| Theorem | Says | Argument |
|---|---|---|
| `TypeCorrect` | `DeliveryLifecycle!TypeOK` | per action |
| `StartsOnce` | `StartedOnce` | the row lock is held by at most one worker between the second check and the commit; after the commit a Notification exists, so the check fails for ever; counters of later steps are bounded by the worker that made the commit |
| `OnTheWayComplete` | `OnTheWayIsComplete` | status, time, Notification, journal and token are written by one commit, and only the purge removes the token |
| `ResendsCapped` | `ResendCapHolds` | between the count and the insert the worker holds the shop lock |
| `LocksNeverCycle` | `NoLockCycle` | a resend gets to its insert only if a Notification exists, a start to its shop lock only if none does, and the start's row lock keeps that so |
| `RatingFollows` | `RatingFollowsEta` | `TaskIsUnderWay`: unless a task was lost, the time of the row has its task, or the worker that saved it still holds it |
| `OnlyOverIsErased` | `NeverEraseActive` | only `PurgeBatch` erases, and it checks the row again in the same transaction |
| `EverySendIsPaid` | `PaidBeforeSent` | `RepeatsPaid`: repeats sent plus workers that have paid for one are at most the journal's rows |
| `KeepsNotice` | refinement `NoticeSpec` | under `NInv` a commit is `Announce`, the two provider calls are `SendFirst` and `SendAgain`, and every other step is a stutter |
| `QueuedInHand` | `QueuedIsInHand`, the safety half of `MessageGetsOutcome` | a step that queues puts its worker before the send, and only a crash or the record takes it from there |
| `ErasedAlone`, `ReadyAlone` | `ErasedStaysErased`, `ReadyOnlyFromNew`, when requests do not overlap | `Undisturbed`: what the one request read is still so |
| `MessageTypes` | `MessageStatus!TypeOK` | per action, with `FlowSteps`: which message and attempt a worker holds at which step |
| `MessageEarned` | `StatusIsEarned` | `AllEarned`: the status of the row, what was told and every receipt about to be applied happened to a message that was sent, and what happened to a message stays so |
| `MessageCheckPlanned` | `CheckIsPlanned`, the safety half of `EveryChannelTried` | `Planning`: a task is waiting or lost, or a start or an escalation is on its way to plan one, or every channel was tried; a start is alone with the message until then, and an escalation sends on all that `Only` left over |
| `MessageBelongs` | `StatusBelongsToMessage`, one worker | `Belongs`: a receipt about to be applied is about the message of the row, and read the status that still stands |
| `MessageNoDowngrade` | `NoReceiptDowngrade`, one worker | `Belongs` again: the row a receipt decides on is the row it saves |
| `MessageAttempts` | `AttemptsWithinChain`, one worker | `Once`: the attempts of the row and those in a worker's hands repeat no channel; an escalation takes what `Only` leaves of the chain |
| `MessageAnnounced` | `StartIsAnnounced`, no crash, and escalation off or every channel declared | `Announcing`: until the announcement a worker carries the start on |
| `QuotaTypes` | `SendQuotas!TypeOK` | per action |
| `ShopLimitsHold` | `WithinPlan` | the counts a worker passed stay valid while it holds the shop lock, since only the holder inserts rows of that shop; rows of later days than its clock do not count against it |
| `RecipientNeverFarOver`, `GlobalNeverFarOver` | `RecipientOvershoot`, `GlobalOvershoot` | rows plus bookings that passed the count stay below cap + shops: at most one worker per shop is between count and insert |
| `RowTypes` | `Subscription!TypeOK` | per action |
| `AccessIsEarned` | `ActiveIsEarned` | a live status is read, reported or paid only of a membership that was live |
| `OthersDoNoHarm` | `OldMembershipHarmless` | a row that is active records a membership, so `Ignored` covers every other one |
| `SettledRowAgrees` | `AgreesWhenQuiet`, if Whop sends changes of memberships | `Settling`: while no answers overlapped, the row agrees, or a webhook or a worker that still has to read is on its way, or the one answer in hand is news |
| `CreateTypes`, `SameDeliveryHolds`, `DuplicatesBounded` | `ApiCreate!TypeOK`, `SameDelivery`, `DuplicatesOnlyByCrash` | `IInv`: what a thread holds is there, is not the key's and is nobody else's |
| `CreateImplementsOnce` | `OnceSpec` | under `IInv` every step is `Spawn`, `Choose`, `Tell`, `Drop` or a stutter |
| `KeysNearCapHolds` | `KeysNearCap` | `KInv`: active keys plus threads past the count |
| `RequestTypes`, `OneTrueOutcomeHolds`, `HistoryIsFinalHolds` | `DeliveryRequests!DTypeOK` and the two properties | `HInv`: an erased delivery has no link, one on its way has a time, and the last answer is true |
| `ClampInWindow`, `ClampInOrder`, `SendTimeInWindow` | what `clamp_to_window` and `rating_send_time` return for every minute | integer arithmetic |
| `RatingTypes` | `RatingRequest!RTypeOK` | per action |
| `AskedBoundHolds` | `AskedBound` | requests made plus threads past the test are at most the threads, since the test fails once one was made |
| `RatingToldOnceHolds` | `RatingToldOnce` | the webhook sent and those about to be are one together, and none without a rating |
| `PaymentTypes` | `Payments!MTypeOK` | per action |
| `NeverChargedInTrialHolds` | `NeverChargedInTrial` | days rounded up cover the rest of the trial, and nobody moves its end after a checkout |
| `GraceFromFirstWordHolds` | `GraceFromFirstWord` | `since` is `due` while the payment is due |
| `RefundNeverAheadHolds` | `RefundNeverAhead` | every sum in a letter, in a thread's hands or in the row was given back by then |
| `LimitTypes`, `ProfileTypes` | `RateLimits!LTypeOK`, `ShopProfile!PTypeOK` | per action |
| `LimitHoldsAlways` | `LimitHolds` | `LimitInv`: who was let through in a window, against its row (`Current`), who counted into a row that was swept (`Swept`), who has looked and not counted (`Looked`) and who read the clock before (`Leaving`) |
| `GeocodingPaidOnceHolds` | `GeocodingPaidOnce` | `PaidInv`: an address that is not in the cache was paid for, beyond what its purges account for, by threads that still hold the answer or were stopped with it |
| `SecretAlone` | `SecretKept`, when saves do not overlap | `ReadIsStored` |
| `UsageTellsChannelsHolds`, `CopiesOnlyUnheardHolds` | `UsageTellsChannels`, `CopiesOnlyUnheard` | inductive together with `CallShape`, which says what a thread knows of its text at each step |

They hold for every finite set of workers and every set of threads, shops, numbers, plans, arrival times and
prices, and every cap, under the assumptions on the constants (`ConstantsAssumption`,
`QuotaConstants`, `SubscriptionConstants`, `ApiConstants`, `RequestConstants`,
`RatingConstants`, `PaymentConstants`, `MessageConstants`, `LimitConstants`,
`ProfileConstants`, `ChannelConstants`), and rest on an inductive invariant each. The
larger ones: `TypeOK /\ Core` for the delivery, where `Core`
(in `DeliveryLifecycle_proofs`) says which steps hold which lock, what is still
untouched before the start committed, what is there afterwards, that one worker at
most carries a start on, and that every resend under way is counted; and `Locked`
with the bounds `NumberBound`, `TotalBound` and `WithinChecked` for the quotas; and
`Known` for the subscription: every webhook on its way was really sent, every worker
past a read holds what Whop said at some time, and no two workers open the page of
one membership. The proofs include failed reads, crashes and any overlap. The
properties alone are not inductive, since they do not say who holds which lock at
which step or what a worker past a check still relies on. `Settling`, the least obvious
of them, was checked by TLC on two instances before it was proved.

Some theorems have a hypothesis, and each has a reason in the code. `OneWorker`,
`OneAtATime` and `OneServer` (requests do not overlap) belong to promises that no lock
guards: TLC finds each of the six violated with two workers (section 5), so the
overlap is the cause. `~Crashes` belongs to promises that nothing in the code restores
after a crash. `~(Escalation /\ Raises)` leaves out the one configuration in which
`chain_channel_paths` raises: escalation on, with a provider that names no channel.
The default (escalation off, the default chain) is covered. `"membership" \in
Sent` says that Whop reports changes of memberships; without it no row could follow.

`Only` is a recursive function, and the library's induction theorems take an operator
as a parameter, which the provers cannot instantiate. `SetInduction` in
`MessageStatus_proofs` states induction for a set instead, from the well-founded order
of the natural numbers; with it `OnlyProperties` says for every chain what `Only`
returns: members of the given set only, every one that the chain has, and none twice
if the chain has none twice.

Only model-checked: liveness and fairness, which are out of the prover's reach
(`MessageGetsOutcome`, `NoticeFairSpec`, `DueIsErased`, `EveryChannelTried`,
`AskedInTheEnd`, `BoardCatchesUp`). Of the first two and of `EveryChannelTried` the safety half is proved
(`QueuedIsInHand`, `KeepsNotice`, `CheckIsPlanned`): what fairness adds is that the
request or the task that is there goes on. Every invariant, action property and
refinement that a passing run checks is stated by a theorem. `QueuedIsInHand` is
not in a configuration: it was checked by TLC on the instance of `lifecycle_live`
(127291 states) before it was proved.

## 5. Where code and comments disagree

Shown by a run:

* `erased_reappears`: a resend with a corrected number (`deliveries/services.py:622`)
  writes the number into a row erased meanwhile; no later purge selects it.
* `duplicate_on_retry`: an instance that stops between the delivery and its
  Idempotency-Key (`deliveries/api.py:464`) leaves a delivery, and the retry makes a
  second one; the API documentation (line 359) excludes it.
* `secret_restored`: a profile form with an empty secret field writes back the secret
  it read (`deliveries/views.py:164`), over one that was set or removed meanwhile;
  the comment at line 159 says an empty field leaves the saved one.

Met while modelling, and reachable in the models, without a run of their own:

* `mark_ready` (`deliveries/services.py:555`) overwrites `on_the_way` with `created` when a
  start commits between its read and its save (`ReadyOnlyFromNew`, proved for requests
  that do not overlap); its docstring calls every status but `new` a no-op. The delivery
  can then not be started again;
* two receipts at once lower `read` to `delivered` (`notifications/webhooks.py:62`),
  which the comment at line 31 excludes; one at a time they do not
  (`NoReceiptDowngrade`);
* with `FALLBACK_ESCALATION_ENABLED` (default off) and the default chain,
  `chain_channel_paths` raises for `ViberProvider` and `SmsProvider`, which have no
  `channel`; the start fails after its message went out (`StartIsAnnounced` when
  `Declared` is not all of the chain);
* two `mark_delivered` requests that read the row first both emit
  `delivery.delivered` (`services.py:567`; "idempotent" in the docstring);
* `restore` after a read that preceded the purge restores an erased delivery
  (`services.py:591`);
* the daily cap of one number is passed when two shops book at once
  (`quotas.py:143`); `RecipientOvershoot` says by how much at most;
* two copies of one escalation task send on the same channel (`services.py:437`);
* two rating callbacks at once ask the customer twice (`services.py:632`;
  its docstring says one); `AskedBound` says how often at most;
* an instance that is stopped after the rating_request Notification is made and before
  it is sent (`services.py:651-656`) leaves the customer unasked: the repeated task ends
  at line 632. `AskedInTheEnd` excludes that stop (`cut`); without it TLC finds the loss;
* a board whose rows and signature are read on both sides of a change
  (`deliveries/views.py:81-113`) shows the old card under the new signature, and no poll
  notices until something else changes. `BoardCatchesUp` excludes such a board (`torn`);
* a rating task that runs late, or is repeated by Cloud Tasks at night, asks the
  customer outside the hours of `clamp_to_window`, which only places the task;
* an older read of a membership can be stored after a newer one
  (`billing/services.py:367`); `billing_sync` repairs it, but is run by hand;
* with two live memberships the later event decides which one is recorded, so
  access can end although one is live (`billing/services.py:324`);
* a repeated `payment.succeeded` sets the refunded amount back
  (`billing/services.py:425`); `RefundNeverAhead` says it is never too high;
* a delivery that was delivered without a start can be started afterwards
  (`services.py:464-468`) and its customer told that it is on the way;
* a client that retries while the first request still runs may see the delivery of
  the one that loses on the board until it is deleted (`api.py:477`).

## 6. Not modelled

Provider, map and Whop HTTP calls beyond "accepted, refused, failed, answer lost";
the texts of messages and pages; the validation of one request's fields; search and
paging; hashing and headers of API keys; the signed envelope of merchant webhooks; the
monthly summary of usage; of the purge the phones of old journal rows, the size of its
batches and its time budget; summer time (a day has 1440 minutes); statistics; settings,
except where a module reads them as a constant. `PROJECT.json` lists each part.

What overlapping requests do to a delivery is in `DeliveryLifecycle`, what a sequence
of pages and calls does is in `DeliveryRequests`; no module has both, since their
product is out of TLC's reach. Counters and amounts are bounded.

## 7. Plan

1. Proofs: that `Only` keeps the order of the chain, so that an escalation is shown to
   try channels in that order.
2. Proofs: which of the `OneWorker` theorems hold with several workers when only
   receipts, or only tasks, overlap.
3. Sign-in under two counters at once (account and address), as two `RateLimits`.
