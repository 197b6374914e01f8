# Verification of the shop

TLA+ specifications of the stateful core of this repository (a Django shop with a React storefront:
carts, orders with stock reservations, payments through an external provider,
refunds, SMS notifications, product images, one-time codes and sessions, the cached catalogue, the
session in the browser), the TLC runs that check them on small instances and the theorems TLAPS proves
about them. Paths below are relative to the repository.

Run everything in this directory:

    tlc -workers 2 -config orders_contention.cfg MCOrders     # one run; see "Runs"
    tlapm OrdersProofs.tla                                    # the proofs of one module

## 1. The system

| component | state it keeps | operations | talks to |
|---|---|---|---|
| cart (`apps/cart/services.py`) | `CartItem.quantity` per user and product | add, update, remove, clear | reads products; emptied by checkout |
| checkout (`apps/orders/services/checkout.py`) | a new `Order`, its `OrderItem`s and `StockReservation`s | replay a key, cancel a stale order, create | cart, products, transitions |
| reservations (`.../reservations.py`) | `released_at` / `consumed_at` per line | release, consume, validate | product stock |
| order transitions (`.../transitions.py`, `orders/tasks.py`, `orders/admin.py`) | `Order.status`, `cancellation_reason`, `late_payment_detected_at` | expire, cancel failed payment, confirm, ship, deliver, sweep | reservations, SMS outbox |
| catalogue writes (`apps/products/services.py`, `products/admin.py`) | `Product.stock`, `is_active` | create, update, admin form, delete | orders (protects ordered products) |
| payment attempts (`apps/payments/services/{initialization,verification,reconciliation}.py`) | `Payment` rows with an operation token and lease | initialize, verify, reconcile, rearm | provider, order transitions, refunds |
| refunds (`.../refunds.py`) | `Refund` rows with token, lease, retries | obligation, execute, record external completion | provider |
| SMS outbox (`apps/notifications`) | `SmsDelivery` rows with token, lease, retries | create with the order change, deliver, rearm, sweep, scrub | SMS provider |
| authentication (`apps/users/services`, `apps/lib/security_cache.py`, `apps/users/jwt.py`) | one-time codes, attempt counters, outstanding tokens | OTP login/signup, reset, phone change, refresh, revoke | Redis, database |
| catalogue cache (`apps/products/cache.py`, `signals.py`) | versioned cache keys | read, invalidate | product writes |
| product images (`apps/products/services.py`, `tasks.py`) | image rows and files | add, replace, delete, thumbnail | storage |
| storefront (`frontend/src`) | token store, cart context | refresh, logout, cart calls | the API |

**Interaction.** Services talk through rows locked with `select_for_update`. A
customer's services lock the user row first, then order, cart, products, lines.
Work that must outlive a request is a Celery task: tasks are acknowledged late and
redelivered (`config/settings/base.py`), so each may run late, twice or, if the
broker loses it, never; beat sweeps re-queue what is overdue. No provider is called inside a
transaction: a service claims a row (a token and a 30 second lease), calls, and
finishes in another transaction that checks the token again.

**What is hard.** Expiry, failure and confirmation of one order racing one another and the stale-order retry of
checkout; a payment worker whose claim was taken over while it waited; attempts that fail and come back to life
through a late answer; two captures for one order; crashes between claim and finish; staff editing stock while
customers reserve it; a session that is rotated while it is revoked; verifications of one code that overlap; a page
that is cached after the write it misses; tabs that refresh one cookie. `PROJECT.json` lists each of these hazards at
its line with the property that would catch it.

**What makes each part correct.** Carts and orders: stock is neither lost nor invented, an order is paid once or
cancelled once, a customer has one waiting order and one order per key, nothing is sold after its deadline, no
reservation lasts for ever. Payments: each capture the shop sees either buys the order or is owed back, an order is
bought once and with the right amount, at most one session is payable, workers without a claim have no say, a due
attempt is looked at until it is decided or waits for a human (but a row in manual review that a callback claimed, and
whose worker then died, is on no sweep). Refunds: a refund is final once there is evidence. Images: no cleanup takes a
file that is shown, none is forgotten. SMS: one obligation per event, no automatic second send through a provider that
cannot recognise it. Accounts: no session survives a password change, a code works once, guesses are limited.
Catalogue: what was
invalidated is not served, but after a lost or late cache command, and then for minutes at most. Storefront: a logout ends the session in every tab, and a page always
starts.

## 2. Modules

| module | what it is |
|---|---|
| `OrderTransitions` | what each order service does to ONE locked row and its reservation set: guards and resulting rows as operators, used by `Orders` and `Payments` |
| `OrderLifecycle` | abstract: an order is placed once and then paid once or cancelled once, its goods following |
| `Orders` | carts, stock, checkout, order rows and staff edits; implements `OrderLifecycle` |
| `OrdersProofs` | the theorems about `Orders` |
| `PaymentSettlement` | abstract: a capture is decided once, buys or is owed; an order is bought once |
| `Payments` | payment attempts over the order rows of `OrderTransitions`; implements `PaymentSettlement`, and `OrderLifecycle` for the orders it drives |
| `PaymentsProofs` | the theorems about `Payments` |
| `MCOrders`, `MCPayments` | instances for TLC: symmetry sets only |
| `Refunds`, `RefundsProofs` | the life of a refund once it is owed: claims, retries, review, external completion; its theorems |
| `SmsOutbox`, `SmsOutboxProofs` | the life of a message once an order transition obliged it; its theorems |
| `ProductImages` | image rows and their files: uploads, replacements, deletions, thumbnail tasks |
| `Sessions`, `SessionsProofs` | the refresh tokens of one account against logins, rotations, password changes and the staff site; its theorems |
| `AuthGuards`, `AuthGuardsProofs` | one-time codes and password guesses: leases, failure counters and locks in the cache; its theorems |
| `CatalogCache` | cached catalogue pages under a version that writers advance |
| `CatalogProofs` | the theorems about `ProductImages` and `CatalogCache` |
| `Storefront`, `StorefrontProofs` | the session in the browser: several tabs, one cookie, the Web Lock; its theorems |
| `MCSessions`, `MCAuthGuards` | instances for TLC: symmetry sets only |
### Orders

One action is one database transaction; a service that raises rolls back and is
the absence of a step. This is faithful because every row a service decides on is
locked until it commits, with two exceptions that the model splits: the admin change form
(`OpenForm`, `PostForm`, `SaveForm`: the page is rendered, the form object is
built from an unlocked row at the POST, and the difference is applied under the lock),
and checkout's loop (`CheckoutReconcilesStale` commits before the next pass,
`CheckoutCreate`). The clock is one flag per order, `lapsed`, that only rises.
`listing` is the existence and `is_active` of a product, `cart` the quantities (0 for no
item), `order` the rows with `lines`, `rsv` the state of the reservation set (the
services change all lines of a set in one transaction), `form` the admin form, and
`shelved` a history variable: what staff put on the shelf, net.

`CancelFailedPayment` and `ConfirmVerifiedPayment` may happen at any moment for any
order: in `Orders` the payments are an unconstrained environment, so what is shown
holds whatever they do. `Payments` then constrains them.

### Payments

A worker is one running request or task, its name the token it drew. Variables:
`order` and `payment` rows, `gateway` (what the provider knows of each attempt) and
`worker` (which call a worker waits in, or which transaction it is about to begin).

* `InitiatePayment` / `FinishCreate` / `ExpireAfterwards` are `initialize_payment`.
* `Callback` and `Reverify` claim (`ClaimVerification`), `FinishVerification`
  finalizes: `FinishWithoutMoney` needs the claim, `FinishWithMoney` does not.
* `ReconcilePayment`, `Reverify`, `FinishLookup` are `reconcile_payment`; between
  its transaction and the claim of `verify_payment` anything may happen.
* `Rearm` is the superuser's recovery, `WorkerLost` a crash, a time limit or a
  rollback, `LeaseLapses` and `HorizonPasses` the clock.

The provider has no adapter in the repository, so `Answers`, `ProviderDecides` and
`CustomerPays` are external, taken from the protocol (`providers/base.py`) and its use.
A provider's knowledge only goes from no to yes: a "no" it answers was true when the call
began, a "yes" is true when it is used. Errors and timeouts may come at any time;
"invalid", "security" and "ambiguous" stand for the groups of errors the
services treat alike. A task may run for any started payment at any time, because
every payment is due when it is made and tasks are delivered at least once; there is
no queue variable. A save that `payments_one_open_per_order` refuses rolls the
transaction back and is `WorkerLost`. The horizon (24 hours) passes only after the order
stopped waiting or lapsed (15 minutes). A customer pays only a session the shop
recorded, since the redirect follows the recording. Reservation lines are abstracted to
the set's state, which `Orders` justifies.

### Refunds

`Payments` creates the obligation (its field `refund`); `Refunds` is what happens to
the row then. `ExecuteRefund` is the claiming transaction of `execute_refund` and
`FinishRefund` the finishing one; between them the worker waits for the provider and
anything may happen to the row, a takeover included. As in `Payments` a worker's name is its token. `queued` is
"a task for this row is in the broker": a delivered message may come again (tasks
are acknowledged late), and a publication after the commit may fail. `Sweep` is
`sweep_pending_refunds`, `RetryReviewed` and `RecordCompletion` the superuser's two
actions. `attempts` is compared only with
the limit of five, so it saturates one above it. The provider is external: it may carry out a request it was
sent at any later time, answers "refunded" only if it did, and recognises the refund's uuid,
as `providers/base.py` requires. An answer whose reference another refund holds is "conflict":
rows share nothing else, so one row is the whole system.

### SmsOutbox

An order transition owes a message exactly when it records an event: the field `told`
of an order row in `OrderTransitions`, and `StatusDecidesRow` relates it to the status.
`CreateDelivery` then makes the row. `ExecuteDelivery` is the claim, with the
two refusals of `_claim_delivery` (not due; a stale claim of a provider that
cannot recognise a repeated request), `FinishDelivery` and `FinishUnserved` the
transactions after the call, `Rearm` the superuser's confirmed resend, `Scrub` the
removal of numbers. A row being sent keeps the end of its lease in `next_retry_at`, as the code
does, so `TimePasses` is both a retry that becomes due and a lease that lapses. What the provider
accepted is the history variable `texts`; it is external, and the model takes from `providers/base.py`
that a transport error comes before acceptance, a rejection is final, and everything else
tells nothing. A worker that dies may have had its message accepted.

In both modules a takeover of a call that still runs is allowed at any time. With a task time limit below
the lease it is rare, not impossible: clocks differ between hosts and a paused process is not
killed in time. Safety is shown with it; liveness assumes that it stops happening.

### ProductImages

The database rolls back, the object storage does not. So a transaction that writes a file is
split there: `StoreOriginal` | `CommitUpload` or `RefuseUpload`, and
`TakeTask` | `SaveThumbnail` | `CommitThumbnail`. Between the parts the worker holds the row
locks of its transaction (`Holds`, `ProductFree`), and its rows are not yet visible. An upload
may replace an image: that is the admin form, whose deletions, updates and new images share one transaction.
Callbacks after a commit are the states "discard" (the reference check) and "delete". A commit may
succeed and be reported as failed: then no callback runs and the service cleans up after
itself, which is why it first looks whether a row names the file. Failures of the
storage, of the reference check and of processes leave files behind; the history variable `lost` names
them, and `NoFileLeftBehind` says that nothing else does. A model value of `Images` is reused
only when nobody remembers it, so that finitely many stand for any number of uploads. `Old` rows
have a thumbnail under its old flat name, which may be damaged. A transaction takes its locks in one step: that
two of them may wait for each other is left to the plan's `LockOrder`.

### Sessions

One account, because tokens of different accounts share nothing. A password is the number of its hash,
and the claim of a token (`REVOKE_TOKEN_CLAIM`) the number it was issued for. A session is named after the token
its login issued. A transaction that locks the row before it reads is one step, and so is every
change of password with its revocation. Three paths are not: `Login` reads an unlocked row and `IssueTokens`
writes later, outside any transaction; a refresh checks under the lock (`RefreshCheck`) and
rotates (`RefreshRotate`), with a logout, which takes no lock, possibly in between; and the staff form
loads the whole row unlocked (`OpenForm`) and writes every column of it under the lock (`SaveForm`). The last
one can put an older hash back. Nothing in the repository excludes it, so the property
excepts it (the history variable `reverted`). Two more things the model has and no doc line excludes: a login in
flight when the account is deactivated leaves a token that works again after a reactivation, and a token
whose account is deleted stays live without an owner. The expiry of a token only refuses, and is absent.

### AuthGuards

One phone number, one username, and the five guards in front of them: a code for each of the four purposes, and the
password. `Ask` is the first look at the lock; `TakeLease` the `add` of the 5 second lease; then `CheckLock`, and
`WrongCode` or `RightCode`. Success is `ResetPassword` (before the code is deleted, `on_success`) or `ConsumeCode`
followed by what the code was for, in a transaction of its own that looks again: `VerifySignupOtp`,
`VerifyPhoneVerification`, `VerifyLoginOtp`. What a request submits is only whether it is the stored code. The keys
expire on their own clocks (`CodeExpires`, `FailuresExpire`, `LockExpires`, `LeaseLapses`). That the failures that set
a lock are gone before it (the guard of `LockExpires`) rests, for codes, on the default settings: `OTP_EXPIRY_SECONDS`
(120) is less than `OTP_VERIFICATION_LOCK_SECONDS` (300). The history variable `spent` counts the successes of each
code. A lease that lapses under its holder, and a process that dies between the commit of a reset and the delete, let
one code succeed again, and so the properties allow one more per fault (`faults`). A code that is sent while a
verification runs is deleted by its `delete_many`. The password guard has no lease: the limit is exceeded by as many
guesses as requests passed the first look together.

### CatalogCache

One page under each version, since list and detail pages share nothing but the version. A request is `GetVersion`
(then `SetFirstVersion` when there is none), `GetPage`, `QueryDatabase`, `StorePage`, `Respond`; a write is `Commit`
and, later, its hook, which is two commands: `AddVersion` makes a version 0 if there is none, `Increment` raises the
one there is. Requests between the two use version 0, and a hook that does not get as far as its `incr` leaves it
(`InvalidationLost`). The content of a page is the number of the last commit it saw. The cache starts empty, as after
a deploy that changes `CATALOG_CACHE_SCHEMA`. `incr` does not renew the key's 7 days, so the version may also be lost
in the middle of business and start again at 1, over pages that were stored under 1 in the last minutes:
`VersionExpires`. Every cache command may fail, which `lib/cache.py` swallows (in production the backend itself
ignores the error, so that after a failed `add` the `incr` is still sent: `AddVersionFails`).

`FreshAfterInvalidation` says that no request gets a page older than the last invalidation before it began, with two
exceptions. One is a lost key or a failed command (`lapses`). The other is a race that needs neither, and the history
variable `undone` records it: `SetFirstVersion` writes its 1 over whatever is there. Two first requests find no
version; one of them sets 1 and stores its page under 1; a commit's hook raises the version to 2; then the other sets
1 again, and whoever asks now is served the page from before the commit. In every case stale pages die with their time
to live (60 seconds, 5 minutes): `StalePagesDieOut`, which excepts nothing.

### Storefront

`tab` is what a page shows, `call` its three calls, `cookie` what all tabs share, `live` the tokens the server
accepts. A refresh is single-flight in its tab (`QueueRefresh`) and, like a logout, takes the Web Lock
`exon-auth-session` (`Enter`); a login does not. An answer may fail to come (`RefreshFails`, `LogoutFails`,
`LoginFails`): the request never arrived, the server has served it, or it serves it later, after a gateway or the
connection gave up (`Unanswered`). A reload releases the lock while its request is still on the way. What is still to
be served when nobody waits any more is in `ghosts`; the bound `MaxCuts` counts reloads and such calls. The server's
side is `Sessions` without passwords. Left out: the fallback of browsers without Web Locks, a protected request that
is refused after its tab signed out, and the cart context.

## 3. Runs

| run | shows | bounds |
|---|---|---|
| `orders_contention` | stock is never negative and moves with the one order it moves for, an order's status decides its reservations, reason and messages, one waiting order per customer and one order per key, a deleted product is in no cart or order, nothing is sold after its deadline, `Orders` implements `OrderLifecycle`, no reservation stays active for ever | 2 customers, 1 product with 1 piece, 2 orders, 2 keys, 2 staff writes |
| `orders_admin_form` | **violated**: a saved admin form changes stock by what staff changed | 1 customer, 1 product, 1 order |
| `payments_attempts` | rows are consistent (types, the table's constraints, every unclaimed attempt is swept), a capture settles one way and goods are sold against one right payment, one payable session, stale workers bring only money, `Payments` implements `PaymentSettlement` | 2 payments on 1 order, 2 workers |
| `payments_resolve` | a due attempt is verified, fails or reaches manual review | 1 payment, 1 order, 2 workers |
| `payments_review` | **violated**: a payment leaves manual review only through a superuser | 1 payment, 1 worker |
| `refunds_resolve` | rows are consistent (types, claims match status, retries are bounded, unresolved refunds are swept), a refund is final and rests on evidence, overtaken workers write nothing, every owed refund is returned or reaches a human | 1 refund, 2 workers, 5 attempts |
| `sms_outbox` | the table's lifecycle constraints, SENT was accepted, no automatic second message through a provider that cannot recognise it, review waits for a human, every message is resolved | 1 delivery, 2 workers, 5 attempts, 2 resends |
| `product_images` | types and one primary image, files of shown images stay, redelivered tasks spoil no thumbnail, no file is left behind without a failure | 1 product, 2 images (one old), 2 workers |
| `sessions` | no token from before a password change is accepted after it, a session has one live token and none after its revocation | 3 requests, 3 tokens, 2 password changes |
| `auth_guards` | a code succeeds once and guesses stay within the limit, but for what each fault may add | 2 requests at a time of 4, 2 codes, limit 2, 1 fault |
| `catalog_cache` | from an empty cache, no page older than the last invalidation is served, but after a loss or a late first version; whatever is lost, stale pages die out | 2 readers, 2 writes, 1 loss |
| `storefront` | an answered logout ends the session in every tab, no tab presents a rotated token, every start of a page ends | 2 tabs, 3 tokens, 1 reload or late call |

The bounds. Two customers and two orders are the smallest instance with a rival for the last piece, a waiting
order beside a finished one, and a stale order that checkout replaces; with one piece in stock every checkout
decides whether it fits. Larger quantities, several products and lines, and more orders are covered by the theorems: all
safety properties of this run are proved without bounds. `MaxEdits` bounds only staff writes; customers and
tasks are bounded by the number of orders, since an order row is never removed. Two payments and two
workers are the smallest instance with a rival attempt and a takeover; a third
attempt can only repeat the role of the second, as a claim involves one row and a
rivalry two. Symmetry is used in runs that check no liveness property.

Refund and message rows are independent of one another, so one row is enough; two workers
are a claim and its takeover. The limits of attempts are the code's five and the setting's default,
so that runs of crashes reach and pass them.

Two images and two workers are an upload beside a deletion or a task, a redelivered task
beside the cleanup of its first delivery, and two candidates for primary.

Three requests of an account are a rotation, a password change and a login in flight. In `auth_guards` the limit of
failures is 2 (the code's is a setting), so that four requests reach and pass it; two of them overlap, and a fault is
a lost lease or a death. Two readers and two writes are a page that is stored late beside one that is served, or two
first requests that make the version beside the first hook; one loss lets any key be lost, or any command fail, at any
moment, and a late first version costs none. Two tabs and three tokens are a refresh in one tab beside a logout or a
login in the other, and one rotation more; one reload, or one call that the server serves after the browser gave it
up, is enough to leave the browser without the newest token.

All runs but `orders_contention` and `orders_admin_form` set `CHECK_DEADLOCK FALSE`: when every row is resolved, every
product deleted, an account deleted or a bound reached, the modelled part of the system really stops. (In `Orders`
customers can always clear a cart.)

**Fairness.** `Orders!FairSpec`: time passes (`DeadlinePasses`), and `ExpireUnpaidOrder` is weakly fair: beat runs
`sweep_expired_orders` every minute and the task it queues is retried on database and broker errors. No fairness is
assumed of customers, payments or staff. `Payments!FairSpec`: time passes; a running service ends, if only because its
task's time limit kills it (`WorkerEnds`, which `WorkerLost` satisfies); the sweep's task for a due payment runs again
and again at a moment when nobody holds the lease (strong fairness, because a lease makes the task a no-op); and
callbacks are finitely many, which is an assumption on the outside world: an endless stream of callbacks could claim
the payment each time the sweep comes round. `Refunds!FairSpec` and `SmsOutbox!FairSpec`: time passes, beat sweeps, a
running call ends (weak fairness: the tasks have time limits), a task in the broker is executed if it is there again
and again (strong fairness, because deliveries may come while the lease makes them a no-op); workers die only finitely
often, and from some time on no lease lapses under a running call. The last is what the settings arrange: a refund's
soft time limit is 25 seconds and its lease 30, and the check `notifications.E004` refuses a lease that does not
exceed the provider's network budget. Without it a row can be taken over for ever (refunds: review follows only an
answer). `CacheFairSpec` of `CatalogCache`: a stored page ends with its time to live, and a request that was begun
goes on or dies; nobody has to begin one, and no invalidation has to happen. `Storefront!FairSpec`: a page that mounts
restores its session (an effect of React), a request is answered or fails, and a waiter for the Web Lock is granted it
(strong fairness, because the lock is granted in the order it was requested, while others come and go). `Sessions` and
`AuthGuards` promise nothing in the end: their requests may always be refused.

**Runs that find a violation.** `orders_admin_form`: `save_model` computes the change
against `form.initial`, which is built from the row as it is at the POST, not as the page
showed it; a checkout in between is undone, although the service's docstring promises a
merge "without stale overwrites". `payments_review`: a payment in manual review leaves
it through a callback, although `docs/architecture.md` says that it has no lease until
a superuser rearms it.

**The same divergence in refunds.** The guard of `execute_refund` (`refunds.py:52`) lets a row in
review pass, so a task that was still in the broker claims it and calls the
provider again, while `docs/architecture.md:391-394` names the retry of a reviewed refund a superuser's action.
`Refunds` has this step (`Claimable`), and everything it promises holds in spite of it.

## 4. Proofs

Eight modules hold theorems, each for every value of the constants (any numbers of customers, products, orders,
payments, workers, tokens, refunds, deliveries, codes, requests, tabs, and any limits) under the assumptions its
specification declares:

| theorem | says |
|---|---|
| `OrdersProofs!TypeCorrect` | stock never goes below zero, every row stays in its domain |
| `OrdersProofs!ReservationsCorrect` | an order's status decides the state of its reservation set, its cancellation reason and the messages it owes |
| `OrdersProofs!CheckoutUnique` | one waiting order per customer, one order per key |
| `OrdersProofs!DeadlineRespected` | an order past its deadline is never sold |
| `OrdersProofs!StockIsConserved` | what staff shelved is on the shelf, reserved or sold, summed over all orders |
| `OrdersProofs!NamedProductsCorrect` | a deleted product is in no cart and no order |
| `OrdersProofs!OrdersImplementLifecycle` | `Orders` refines `OrderLifecycle` |
| `SessionsProofs!TypeCorrect` | domains, and the lock is held exactly by a refresh between check and rotation |
| `SessionsProofs!RefreshCannotRacePasswordChange` | no token of a login from before the last password change is accepted |
| `SessionsProofs!SessionsHaveOneHead` | one live token per session, none after its revocation |
| `PaymentsProofs!RowsStayConsistent` | types, table constraints and sweep list of every payment row |
| `PaymentsProofs!CapturesAreSettledOnce` | a capture bought its order or is owed back, and an order is sold for exactly one payment |
| `PaymentsProofs!AWaitingOrderHasOneSession` | one payable session of a waiting order |
| `PaymentsProofs!OvertakenWorkersOnlyBringMoney` | an overtaken worker changes a row only by a capture |
| `PaymentsProofs!PaymentsKeepMoneyPromise` | `Payments` refines `PaymentSettlement` |
| `PaymentsProofs!PaymentsKeepOrderPromise` | `Payments` refines `OrderLifecycle` as `Orders` does (proved only: no run lists it) |
| `RefundsProofs!RowsStayConsistent` | types, claims, retry limit and sweep list of every refund row |
| `RefundsProofs!RefundsRestOnEvidence` | a refunded row holds a reference, the provider's only if it paid |
| `RefundsProofs!CompletedRefundsAreFinal` | nothing touches a completed refund |
| `RefundsProofs!OvertakenWorkersAreMute` | an overtaken worker writes nothing |
| `SmsOutboxProofs!LifecycleStaysConsistent` | the constraints of the outbox table; SENT means accepted |
| `SmsOutboxProofs!MachinesTextOnce` | no automatic second message through a provider that cannot recognise it |
| `SmsOutboxProofs!OnlyHumansEndReview` | only a rearming ends a review |
| `AuthGuardsProofs!TypeCorrect` | domains of the cache keys and of the requests |
| `AuthGuardsProofs!CodesAreSingleUse` | a code succeeds once, and once more for each lapsed lease or dead request |
| `AuthGuardsProofs!GuardsBoundGuesses` | guesses stay within the limit but for such faults (and concurrent password requests) |
| `CatalogProofs!CacheTypeCorrect` | domains of versions, pages and requests |
| `CatalogProofs!InvalidatedPagesAreNotServed` | from an empty cache, what was invalidated is not served to who asks later, but after a loss, a failed command or a late first version |
| `CatalogProofs!ImageRowsStayConsistent` | domains, and at most one primary image per product |
| `CatalogProofs!OriginalsAreKept` | no cleanup takes the original of an image that has a row |
| `CatalogProofs!NoFileIsForgotten` | a file without a row is about to be removed, or a recorded fault left it |
| `CatalogProofs!ThumbnailsAreKept` | no delivery, retry or cleanup spoils a good thumbnail |
| `StorefrontProofs!TypeCorrect` | domains, and the session lock is held exactly by the call on its way |
| `StorefrontProofs!LogoutIsFinal` | an answered logout ends the session in every tab |
| `StorefrontProofs!TabsShareOneToken` | no tab presents a token that was replaced, unless a call the server served, or may yet serve, got no answer |

*Orders.* The invariant is `IInv`: the types, `StatusDecidesRow` and the two uniqueness facts. None is inductive
alone: that stock stays a natural number when lines are given back needs the types of rows, that a cancelled order
cannot be confirmed needs the reservation state, and that checkout does not break uniqueness needs that it looked
under the lock. Steps are split once (`NextSplits`) into cart steps, one row written by `WriteOrder` through an
operator of `OrderTransitions` (`RowStepFacts` states what any such write preserves), a checkout (`CreateFacts`), and
staff steps (`StaffIsShelfStep`), and each property is preserved by these cases. The sum in `StockConserved` is the
cardinality of a set with one element per held unit (`HeldUnits`), so that no fold over orders needs induction: a step
balances the row it writes against the shelf (`StepBalanced`), and the units of the other rows are the same set before
and after (`UnitsMoveWithRow`). That only finitely many units are ever out is part of the invariant, not an
assumption. The refinement maps a row write to one step of `OrderLifecycle` or a stutter (`RowStepRefines`).

*Sessions.* `HashesGrow` says that, as long as no form put an older hash back, nothing that was read or issued is
newer than the row and everything outdated is strictly older; a stale token then fails the comparison of claims.
`OneHead` says that names of sessions are issued tokens (so a fresh login never reuses one), that a session has at
most one live token, and that the token a refresh has checked is still that one, or a logout took it, until the
rotation: a revocation in between is what the row's lock excludes.

*Payments.* The invariant `IInv` relates four kinds of state. A payment and its order (`Linked`): what was captured is
what the provider has, an applied capture is exact and its order's goods are sold, a capture that was not applied has
a rival that was or a cancelled order (so a later worker cannot apply it), and a session of a waiting order belongs to
an attempt that is still open (so a failed attempt that revives can never make a second one). An order sold: some
attempt is applied. A worker in a call (`WorkerSound`): a create or a lookup whose claim still stands finds no session
when it comes back. The row itself (`RowSound`): what is verified is claimed by nobody. Steps are of three kinds
(`StepKinds`): a transaction on one attempt and its order, one that writes no payment, and one of the provider;
`AttemptKeeps` says what the first may make of the rows, one lemma per action shows that it does (`...Kind`), and the
invariant follows once for all (`OneAttemptWritten`). The refinement uses the same split: the fate of an attempt
leaves `open` once, and only for what its capture allows (`AttemptSettles`). `Payments` creates, expires and ships
orders itself and drives the rest, so it has its own refinement of `OrderLifecycle` (a step turns one order at most:
`StepTurnsOrders`); with that of `Orders`, the two modules that write order rows provably keep one and the same
promise, although TLC never runs them together.

*Refunds.* `RowSound` adds to the checked row properties that only a completed row has no retry time, review
included (otherwise a superuser's retry that crashes would be off the sweep's list), and that only a row being
processed is leased. Every action writes at most one row (`OneRowWritten`), through operators that are shown to
leave it sound (`ClaimSound`, `AnswerSound`).

*SMS.* `NoAutomaticDuplicate` is far from inductive: it must count the calls whose message may still be
accepted. `Budget` bounds accepted messages plus calls in flight by one more than the confirmations of humans, and by
exactly those while the row waits to be claimed; a claim spends one, and only an answer that excludes acceptance
makes the row wait again. The counting is over finite sets (`CallStarts`, `CallEnds`).

*Codes and guesses.* Neither property is inductive: both bound what was done, and a request between two cache
commands may do it once more. `IInv` counts the requests in flight by state. `LeaseSound`: beyond the one that
holds the lease, every request at work cost a fault. `LiveSound`: while a code is still in its guard, what it was
spent for is with a request that is about to delete it, or was lost with one. `SpendSound`: successes and
requests that may still succeed are together at most one more than the faults. `GuessSound` and `PasswordSound`:
over the limit each further guess, made or to come, was paid by a fault, or by a password request that had passed
the check. `CodesAtHome` keeps a code in the keys and requests of one purpose. A request moves between states
by one of five kinds of step (`Staying`, `Leaving`, `Entering`, `Overstepping`, `Dying`), whose effect on the counts
is proved once; one lemma per action says of which kind it is.

*Product images.* Of `ImageInvariant`, the four checked properties are the visible part. `LocksHold`: rows are locked
by one worker each and only while they exist. `UploadReady`: the image of an upload is nobody else's, its file is there, and
the primary rows it found under the product's lock are still the only ones. `CleanupSound`: once the references were
checked, what a cleanup holds will never be named again; before, it may hold the thumbnail of a row that a task renamed
in between. `TaskSound`: a task works on a thumbnail that is not valid, or on the one it has just saved. The argument is
one of rely and guarantee: `Undisturbed` says what a step owes the workers that do not take it, `OthersSound` that their
parts of the invariant then survive, and each action is shown to pay it once.

*Cached pages.* `FloorOfVersion` says that, while nothing was lost and no version was set back, the page under a
version is at least as new as the floor of every request that uses the version, and that what one request has queried
is new enough for all others under its version (`StoresFor`), however late it is stored. It holds because a version
that is still to come has no page and no request (`PagesSound`, `RequestSound`), whether the first version is the 1 of
a request or the 0 of a hook (`FirstVersionSound`). `VersionsSuffice` gives each advance of the version a commit of
its own, pending ones included.

*Storefront.* `CallsSound` adds that a tab has one call under the lock. `LoginsAreOwn`: the token of a login that was
served is carried by nothing else until the browser stores it, so neither another tab's refresh nor its logout ends
it. `TokensLive`: while every call got its answer that the server served or may yet serve, the cookie is accepted
unless the holder of the lock was served and is about to replace it. `NobodyReturns`: after an answered logout no
refresh on its way carries a token.

**Only model-checked.** Liveness (`EveryOrderSettles`, `DueAttemptsResolve`, `RefundResolves`, `DeliveryResolves`,
`StalePagesDieOut`, `StartupEnds`) is out of the prover's reach, with the fairness it rests on.

## 5. Not modelled

Refusals that change nothing (throttles, permissions, validation) are absent steps. Names, prices, addresses and
snapshots of products are data no property distinguishes. Callback counters and audit metadata of a payment are
write-only. The cart context of the storefront and its pages, the SMS task that carries a one-time code, the
onboarding of a profile, the order in which transactions take their locks, and the scripts that release the frontend
are left to the plan. `PROJECT.json` lists every component with its status and reason.

## 6. Plan

Done: every module of the table above, and the proofs of `Orders`, `Payments`, `Refunds`, `SmsOutbox`, `Sessions`,
`AuthGuards`, `CatalogCache`, `ProductImages` and `Storefront`. In this order next:

1. `LockOrder`: the transactions' lock orders and the absence of deadlock.
2. The cart context of the storefront (answers out of order), the SMS task that carries a one-time code, the
   release scripts of the frontend.
