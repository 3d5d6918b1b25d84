# Order service: TLA+ models and proofs

A formal model of the parts of this repository where several processes share state: creating and
cancelling orders, payments and refunds in `order-service`, the way of an order event from the
outbox through Kafka to `product-service`, the product cache and the circuit breaker in front of
Redis, order pages, and the life of a pod. TLC checks the modules on small instances; TLAPS proves
the safety properties of all of them, for any number of orders, keys, replicas, products, events and
requests, and that payments, order creation and event delivery each implement an abstract
specification.

## 1. Inventory

Paths are below `src/order-service/internal/` unless they say otherwise.

| Component | State | Operations | Module |
|---|---|---|---|
| State machines (`domain/order.go`, `domain/payment.go`) | none | `CanTransition`, `CanTransitionPayment` | `PaymentDomain` |
| Payment store (`repository/payment_repo.go`, goose 005, 007, 008) | `orders`, `payments`, `payment_events`, `refunds` | `StartOrResume`, `Transition` | `PaymentStore` |
| Cancellation (`repository/order.go`, `CancelOrder`) | the same, stock | check for a pending payment, refund row, stock back | `PaymentStore` |
| Provider stub (`payment/fake_provider.go`) | its own journal of charges and refunds, `down` | `Charge`, `Refund`, `ChargeStatus`, `ListCharges` | `Provider` |
| Payment idempotency (`repository/idempotency_repo.go`, `handler/idempotency.go`) | `payment_requests` | `Claim`, `Complete`, `Release`; lease 15 s, life of a key 24 h | `IdempotencyStore`, `PayService` |
| Payment request (`service/payment_service.go`) | one execution | look up, insert, charge, record, answer | `PayService` |
| Refund worker (`worker/refund_worker.go`) | leased batch | lease, call the provider, record | `RefundWorker` |
| Stuck payment worker (`worker/reconcile_worker.go`) | leased batch | lease, ask the provider, settle, expire or hand over | `ReconcileWorker` |
| Reconciliation (`reconciliation/`, `repository/job_lease.go`) | period lease, two snapshots, items | list, read, classify, repair, record | `Classify`, `ReconciliationJob` |
| Outbox relay (`worker/outbox_relay.go`) and direct sending (`service/order_service.go`, `kafka/producer.go`) | `outbox`, `outbox_dlq`, locked batch | insert, select, write, record, move, clean up | `OutboxRelay` |
| Consumer (`src/product-service/consumer.go`) | fetch position, committed offset, `inbox` | fetch, run the handler, commit the inbox transaction, commit the offset | `Consumer` |
| Circuit breaker (`breaker/breaker.go`, `guard` in `cache/redis.go`) | state, failures, probe | `Allow`, `Done` | `Breaker` |
| Order creation and stock (`service/order_service.go`, `repository/order.go`, `txm`, `retry`) | `orders`, `products.stock`, `idempotency_keys`; row locks | join or start an execution, insert the key, take stock row by row, commit, retry; cancel | `Orders` |
| Product cache (`repository/l1_product_repo.go`, `cached_product_repo.go`, `cache/redis.go`) | two levels of copies, flights | read, lead, fill, invalidate, expire | `ProductCache` |
| Order pages (`GetOrders` in handler, service and repository) | the client's cursor | one page | `OrderListing` |
| Startup, readiness, shutdown (`app/app.go`, `handler/health.go`, `repository/schema.go`, `main.go`) | where `main` is, the readiness flag, running requests, pool | start, probe, SIGTERM, drain, `Shutdown`, close the pool | `Pod` |
| HTTP plumbing | none shared | the deadline and the checks of a creation are in `Orders` and `Pod` | partly |
| Metrics, other services' handlers, deployment | see section 7 | | not modelled |

**How they interact.** A request claims its key in `payment_requests`, inserts a pending payment,
calls the provider outside any transaction, and records the outcome with the order's status in one
transaction. The three background processes run on every replica and change the same rows: the
refund worker works on rows that `CancelOrder` writes, the stuck payment worker on payments that
stay pending, the job on whatever the two sides' records disagree about. They meet only in the
database and in the provider's journal. Separately, the transaction that creates an order writes an
outbox row; relays on every replica publish it, the request sends the event once more by itself, and
the consumer recognises duplicates by its inbox. Requests for one order key meet in a
singleflight group on one replica and at the key's row across replicas; orders and cancellations
meet at the product rows they lock, and both invalidate the product in the caches that reads fill.

**What is hard.** Calls to the provider take place between two transactions, so every process acts
on something it read before; leases are shorter than the work they protect; a commit or a call may
take effect and be reported as failed; a process may die between any two steps; expiry races a late
retry; repairs work from snapshots; the consumer's handler runs before the transaction that records it
commits. Orders lock several product rows, cancellations lock them in
another order; a cached value can be written after the invalidation that was meant to remove it; ids
become visible out of order; a pod is told to stop while requests still arrive. `PROJECT.json` lists
these hazards with their lines.

**What makes it correct.** Money is taken at most once for an order that keeps it; what a settled
row or an answer says is what the provider did; a pending payment holds its order; money of a
cancelled order is refunded once or somebody is working on it; nothing stays undecided in silence.
For events: none is forgotten, none is given up twice, each arrives, and none is handled again once
its inbox row is committed; before that its handler runs again only when the run before was lost to a
failure. For the breaker: it
opens on failures in a row, and half open is always being decided, by one probe. For orders: one
order for one key and one id for all its clients, stock neither lost nor sold twice, every request
ends. For the cache: an old value lives for a bounded time. For pages: every order once. For a pod:
it is sent requests only when it can serve them and loses none when it stops.

## 2. Modules

```
PaymentDomain <- PaymentStore <- Provider, IdempotencyStore
PayService = Provider + IdempotencyStore      ReconciliationJob = Provider + Classify
PaymentSystem = PayService + RefundWorker + ReconcileWorker + ReconciliationJob
  PaymentLiveness (fairness), PaymentClaims, PaymentInvariant, OrderLedger (abstract)
  PaymentTypeProofs <- PaymentMoneyProofs <- PaymentLedgerProofs (and PaymentClaims)
Classify <- ClassifyCheck (reference) <- PaymentClaims
OutboxRelay <- Consumer <- OrderEvents <- EventsProofs      EventDelivery, AtomicOrders (abstract)
Orders, OrderListing <- OrdersProofs          ProductCache <- CacheProofs
Breaker <- BreakerProofs                      Pod <- PodProofs
MCPay, MCPayLive, MCEvents, MCOrders: instances for TLC
MCPayCast = PaymentSystem with one of two sets of processes, chosen at the start
MCParts = OrderEvents, Breaker, ProductCache, OrderListing, Pod side by side
```

On the payment side each transaction takes its row locks before it reads what it decides on, so it
is one action; a transaction that creates or cancels an order locks row after row, so in `Orders`
each lock is a step. What
happens between transactions (a provider call, a crash, another replica) is interleaved. Actions
keep the names of the functions they model. Operators marked "Mutant of" are broken variants
used to see that the properties notice; the specifications do not use them.

**`PaymentStore`.** A payment is named by its idempotency key, unique in `payments`. Operators
return an outcome `res`: `start` and `Transition` can fail for the reasons the code distinguishes,
for a failed database call (`"db"`), or take effect with an error seen by the caller (`"lost"`).
`recon[k].age` is 0, 1 (older than `stuckAfter`) or 2 (older than `expireAfter`); attempt counters
stop at their maximum, since they are only compared with it.

**`Provider`.** Journal by key, like the stub's tables, so repeating a call gives the first outcome.
`isDown` ignores its query's error: `seemsUp` lets a call go on when the database may fail.

**`PayService`.** One executor is the request that leads its singleflight group; the others wait for
its answer and are not processes of their own. The steps: `ClaimKey`, `Lookup`, `Insert`,
`ChargeStep`, `Record`, `Finish`. The flag `live` is the leader's 8 s context: it ends before the
15 s lease, so an execution whose lease ran out has a dead context, and its `Complete` fails. The
provider call and the recording use detached contexts and go on.

`Patient` is the one assumption about time: a request lasts seconds and the steps between a
payment's ages are minutes (2 and 15 by default), so when a payment gets older, every request still
running for it arrived after the previous such moment. A request may still resume a payment that is
about to expire.

**`RefundWorker`, `ReconcileWorker`.** A lease returns any subset of what is due (batch limit and
`SKIP LOCKED`); a leased row may come due again while its worker is still busy. A lost answer of a
lease is the same as a lease followed by a crash.

**`ReconciliationJob`.** `TryClaim` takes the period and fixes the window, the keys that exist by
then; provider list and our rows are read in two steps, so other processes move between them.

**`OutboxRelay`, `Consumer`, `OrderEvents`.** A batch holds row locks from `SelectBatch` to `Record`.
`Write` answers message by message: accepted, rejected for good, or temporary error with or without
effect. `moveToDLQ` is a step of its own, as in the code. The topic is one partition; a consumer
continues from what it fetched last and goes back to the committed offset only on a restart.

`Process` is a fetch and `processWithInbox` up to its commit: `BeginTx`, the `INSERT`, and for a new event
the handler. `CommitInbox` is `tx.Commit`. The handler gets no transaction, so `effects` counts its runs
and no failure takes a run back: after a failed commit, or a death between the two steps, it has run and
the inbox does not know. Fetch and `INSERT` are one action because a fetched message is known to nobody
else, and dying after the fetch is dying before it. The handler returns nil in all cases and only logs;
its error branch is left out, and what `effects` says is how often the code runs it, whatever it will do.

**`Breaker`.** `Allow` and `Done` hold the mutex and are one step each; `streak` is a history
variable. A call may take as long as it likes: it may be let through while the breaker is closed and
report when it is half open. `outlived` remembers that some call ran for all of an `openFor`. In the
shipped configuration none does: client timeouts are 100 ms, `openFor` is 5 s.

**`Orders`.** `Arrive` joins the execution of the same key on the same replica or starts one.
`ClaimKey` is the `INSERT ... ON CONFLICT`: it waits for an uncommitted insert of the same key and
then sees its order or goes on. `LockRow` is the conditional `UPDATE` of one product, in the order
of the ids for `CreateOrder` and in any order for the `UPDATE` of `CancelOrder`. What a transaction
changes shows at `Commit`, so `stock` is the committed stock and `tx[x].locks` the rows it holds.
`Victim` is the database breaking a circle of waits; `retry.Do` covers creations only. `Commit` can
succeed and be answered with an error, because it runs on the execution's context. Whether a payment
in progress refuses a cancellation is decided in `PaymentStore`; here it is a choice.

**`ProductCache`.** One product, since products are independent. A value is the number of the
committed write it shows, and `old` counts the ticks since a value was overwritten. A leader reads,
then sets L2 and hands out what it read, in two steps; every reader then fills L1. `CreateOrder`
invalidates before its commit, `CancelOrder` after. A read that Redis or the breaker refuses leads
to the flight like a miss; `Delete` goes past the breaker and may still fail. Eviction from L1 for
lack of space only removes copies and is left out.

**`OrderListing`.** An order takes its id when it is inserted and is visible from its commit on. A page
is one query below the cursor; the page's last id is the next cursor unless the page is not full.
Deleting is no operation of the service, but a test of the repository does it.

**`Pod`.** `clock` runs from SIGTERM. The constants stand for the 5 s pause (`Drain`), the 10 s deadline
plus 2 s of a detached commit (`RequestLimit`), the 12 s of `Shutdown` and the 20 s grace period.
`Spread`, the time until nobody sends requests to the pod any more, is the cluster's; that it is
shorter than the pause is assumed, as the pause is there for it. A request is a connection of its
own. A worker may hold a connection when the pool closes: `ClosePool` waits for it, `Kill` does not.

## 3. Runs

| Run | What it shows | States |
|---|---|---|
| `retries` | two keys for one order, which may run out and be claimed again, ReconcileWorker, all faults: one active payment, pending holds the order, two charges only after an expiry, complete audit trail | 1.8 M |
| `takeover_repair` | two executions of one key with ReconcileWorker, leases and keys run out: answers are true, a stored answer stays, paid is backed by money. Or the job repairs from snapshots next to a request and the refund worker: what it reports as repaired is settled; also the inductive invariant, and the verdicts of `Classify` on the snapshots it meets | 1.6 M |
| `refunds` | two refund workers with overlapping leases, cancellation, all faults: refunds neither lost nor repeated nor undone; refinement of `OrderLedger` | 294 k |
| `settle` | liveness: a pending payment is settled or with a person; a charge under an expired payment is reported | 252 k |
| `owed` | liveness: a refund ends although the job repairs in two transactions | 173 k |
| `orders` | two clients of one key on one or two replicas, a third for the same products, two cancellations, all faults: one order and one answer for a key, stock conserved, creations never deadlock among themselves; refinement of `AtomicOrders`; liveness: every request ends | 312 k |
| `delivery` | two relays, all kinds of trouble: nothing forgotten, given up once; refinement of `EventDelivery`, so never handled after it was entered | 2.3 M |
| `parts` | five parts that share no state, each by itself in one run: liveness of events while relays live and databases work; the breaker with four overlapping calls of any length and threshold 3; an old product is served for a bounded time and new readers do not join an old flight; pages are complete while orders are added, committed late and deleted; a pod gets requests only with its schema, is back in service after an outage, and loses no request when it stops | 311 k |
| `expired_charged` | violation, see section 6 | |
| `skipped` | violation, see section 6 | |
| `repeated` | violation, see section 6 | |
| `stranded` | violation, see section 6 | |

**Bounds.** One order and one or two keys: every rule is per order or per key, and the only rule
between keys is between two of one order. The two casts of `takeover_repair` share one instance with all
faults; the processes of the other cast stay idle. Two workers of a kind where their leases interact, one
elsewhere. `MaxReconcile` and `MaxRefund` are 1 or 2 (10 and 8 in the code): the
counter only separates "again" from "the last time". Two events, up to two relays, `MaxRetries` 1 or
2, `MaxTrouble` 2: a message accepted and one rejected share a batch, an event is rejected by two
relays in turn, and trouble can hit the step that follows trouble. `MaxDisturbances` bounds crashes
and outages in the liveness runs. In `orders` there is one piece of the second product, which
the clients of the key and the third client want; one cart names a product that does not exist, another a quantity of 0;
`MaxAttempts` 1 gives a retry and a last attempt (five attempts in the code). The cache has two
replicas with both readers on one of them, lifetimes and limit of one tick each: a copy written at
the end of a leader's time goes through both levels. Four orders and limits below, at and above the
default make listings of up to five pages. The pod's times are the code's, scaled down, with their
order kept. The theorems do not depend on these bounds.

`CHECK_DEADLOCK FALSE` where an instance may come to rest: without a job nothing is left to do once
every payment and refund is settled, once all events are handled, once every client of `Orders` has
its answer, and once a pod has stopped.

**Fairness.** Weak fairness of the steps of running requests, of the workers' and the relays' loops
(tickers that always fire again) and of the consumer's loop; of timers (a payment ages, a lease or a
period passes); of the provider coming back. None for clients, crashes, outages or failing calls.
Trouble is bounded, so a behaviour has a last crash; the code promises nothing under endless ones.
`CallsEnd` in `Breaker` is the Redis client's timeout. `OrdersFairness`: statements end, the database
breaks deadlocks, an execution's result is handed out; a request that waits for a row or a key has no
such step, so `RequestsEnd` depends on the others letting go. `PodFairness`: the kubelet goes on
probing.

**Refinement.** `OrderLedger` is the promise about one order's money: open, then paid or closed
unpaid; a paid order that is cancelled owes until the money is returned, once. `LedgerOf` reads it
from an order's status and payments. Payments, keys, requests, workers and provider are hidden, and
every one of their steps is a ledger step or a stutter.

`AtomicOrders` has neither executions nor replicas, locks, retries or crashes: an order is made with
its whole cart in one instant, cancelled in one instant, and a client is told one order, the one its key
names. `Orders` implements it with `orders`, `keys` and `stock` as they are and `told` read from the
clients. `EventDelivery` has neither batches, offsets nor duplicates: an event waits, Kafka gets hold of it,
rejections are counted, it leaves because it is held or because its attempts are used up. What Kafka
holds is handled (`Handle`), and a run of the handler is then entered (`Enter`) or forgotten (`Drop`);
nothing is handled after it was entered. In the mapping a published and a deleted row have both left, the
topic is the set of its events, and the run that is open is the one of the inbox transaction under way, so
cleaning up, sending again, duplicates and offsets are stutters.

## 4. Proofs

Every invariant and every action property that a passing run checks is a theorem, and so are the three
refinements. Type invariants are proved with each inductive invariant. The inductive
invariants say more than the runs check; `MoneyInv` is a property of run `takeover_repair`, and the
others are in the proof modules, where TLC can evaluate them too.

**The money.** `PaymentTypeProofs` proves `TypeCorrect`. `PaymentMoneyProofs` proves the invariant
`MoneyInv` and from it `PendingHoldsOrder`, `PaidIsBacked`, `SettledAsProvider`, `OneActivePayment`,
`DoubleChargeOnlyAfterExpiry`, `NoLostRefund`, `RefundsAreOwed`, `RefundRecordTrue`, `AnswersTrue`
and the action property `SettledStays`, for every set of orders, keys and processes, every attempt
limit and every set of faults, with the job included.

None of these properties is inductive. Whether `Record` keeps `SettledAsProvider` depends on what
the executor remembers of a call it made some steps before, and whether that is still true depends
on everyone else. So `MoneyInv` (module `PaymentInvariant`) has two parts besides types: `Rows`, what
tables and journal say of each other, and `Knowledge`, what each process may still rely on of what it
has read. The argument goes through `Forward`: every step moves rows and journal only forward. The
lemmas `...KeepsKnowing` say that knowledge survives any forward step, so for each action only two
things are left to prove: that it keeps `Rows` and moves forward, and that the process taking it
knows what it claims. `MoneyStep` puts the actions together; `SettledStays` follows from `Forward`.

**The ledger.** `PaymentLedgerProofs` first shows `EveryStepMoves`: whatever process takes a step, what
it does to orders, payments and `payment_events` is one of four moves (nothing; an order created or
cancelled; a payment inserted; a payment moved along the state machine). The rest looks at these moves
only. `AuditKept`: each move keeps a payment's history a chain that ends in its status. `StockReturned`:
no move leads out of `cancelled`, because only a pending order can become paid, which `MoneyInv` says.
`LedgerKeptBySpec` is the refinement: an inserted payment and a declined or expired one leave
`LedgerOf` as it is, success makes an open order paid, a cancellation closes it or makes it owe, a
refund returns what is owed. That success and refund meet the order in the right state is `MoneyInv`
again.

`AnswerStaysStored` needs `Owners`: a request whose 8 s context is alive holds the unexpired lease of
its key, alone. Only such a request can call `Complete`, and a completed key has no lease. `JobSaysRight`
needs that a snapshot never shows a refund without its payment (`Snapshots`); over such records
`ClassifyCorrect` proves `Classify` equal to the reference.

`RepairsHold` (`FixedIsSettled`) needs what a job is about to record (`Reports`): an item counts as repaired
only after a `Transition` without an error, which has moved the payment, or after the second write of a
refund's repair, before which `MoneyInv` has the payment refunded; `Forward` keeps it settled from then
on. A `Transition` that was applied but reported as failed makes the item a person's, which errs on the
safe side.

**Order creation.** `OrdersProofs` proves `OrdersInv`. Its part `Executions` says for every execution
what it holds (`Shape`: rows of its cart only, and a creation has locked every row below the one it
waits for), what it shares with others (`Apart`: no row, past the key's row no key, no cancelled order
with another cancellation), and what follows for creations (`CreationOk`: past its key it is the first
of it, and stock covers what it took) and for cancellations (`CancelOk`). `Made` ties orders to keys,
`Clients` ties those who wait to the execution they wait for. `OneOrderPerKey` and `AnswersAgree` follow
from `Made` and `Clients`. `CreationsNeverCircle`: in a circle somebody waits for the creation that wants
the smallest id; the row it waits for is held by that creation and so smaller still.

`StockConserved` sums over the orders that hold a product, with no bound on their number. The sum is
the community modules' `MapThenSumSet`, a fold; the lemmas `SumExists`, `SumUnique` and `SumStep` get
its defining equation by taking a smallest set for which it fails, instead of induction over an
operator, and `SumRemove` is what commits and cancellations need.

`OrdersAreAtomic` is the refinement. `EveryVisibleStep` sorts all steps into four: a commit, the commit of a
cancellation, an answer, and the rest, which `AtomicOrders` does not see. A commit writes only what it has
locked, so it is `Create` only if the locked rows are the whole cart, the key is free and the stock
suffices *at this moment*, though each was looked at some steps before, with deadlocks and retries in between:
`Shape` and `CreationOk` say so. A cancellation is `Cancel` because nobody else can have cancelled
the order since its row was locked (`CancelOk`). That an invalid cart never gets as far, and that nobody is
told twice, is the additional invariant `Checked`.

**Order pages.** `ListingCorrect`: in a walk with a cursor, orders from the start at or above it
are listed once and nothing below it is (`Walk`); a page takes the newest rows below the cursor, so
those below the new cursor are the ones it left out; and an id that appears later is new, so it is not
among the orders the walk began with (`StillThere`).

**Events.** `EventsProofs` proves `EventsInv`, from which `NothingForgotten`, `DeadOnce` and
`RepeatsCostTrouble` follow: locked rows belong to one relay and stay waiting with attempts left (`Locks`),
what a relay counts as accepted is in the topic (`Accepted`), only written events are sent and handled
(`Written`), and every run of a handler was entered, is open, or was paid for by a failure (`Effects`).
`Locks` is what keeps two relays from giving up an event twice although recording and `moveToDLQ` are two
transactions.

`DeliveredInOnePiece` is the refinement of `EventDelivery`, one lemma for each visible step: what a recorded
batch settles is held and still waiting with attempts left (`Accepted`, `Locks`); a row that
`moveToDLQ` moves has not been moved before (`DeadOnce`); a handler that runs is at a message the
topic has and the inbox has not, with no other run open (`Written`, `Effects`).

Three theorems bound the findings of section 6. `LostOnlyByInboxErrors`: without `"inbox"` among the faults
an event whose way is over was given up or handled, whatever else happens; the invariant `InHand` has every
fetched message in the inbox except the one at hand. `RepeatedOnlyByDroppedRuns`: without `"inbox"` and
`"restart"` no handler runs twice, because every run is in the inbox or open (`Undropped`).
`StrandedOnlyByRelayFaults`: without `"crash"`, `"db"` and `"unsure"` no exhausted row is left behind, since the relay that counts the last rejection is the one that moves the row.
So these failures are the only ways to those states.

**The cache.** `CacheProofs` proves `CacheInv`. `Ages` follows a value on its way: a leader's value was
overwritten at most the leader's age ago, a copy in L2 at most limit plus lifetime less the time it
has left, what a reader carries to L1 at most limit plus lifetime, a copy in L1 at most `StaleLimit` less
the time it has left. So `StalenessBounded` holds without anything being assumed of invalidation.
`Promises` is for `FlightsAreFresh`: a reader that has yet to join is promised no more than its replica
knows, and a flight that can still be joined has read nothing older than that, since `ForgetFlight`
closes the flight in the step that raises what is known. `Numbered` bounds versions by the writers that
have committed; the type invariant needs it.

**Breaker and pod.** `BreakerProofs` proves, for any number of calls and any threshold:
`BreakerCorrect` (a half-open breaker has a probe under way, calls of any length), `OpensOnRow`, and
`QuickCallsOneProbe` (a second probe needs a call that outlived `openFor`). The invariant adds that failures
are counted only while closed, that the count never exceeds the row of failures actually reported, and,
until a call has outlived `openFor`, that a half-open breaker has no call but its probe (`AloneInv`).

`PodProofs` proves `NoRequestLost` and `TrafficNeedsSchema` for any number of requests and workers and
any settings with `PodAssumption`: the pause outlasts the spreading of the news, `Shutdown` waits as
long as a request may take, the grace period covers both. `RequestsKept` alone is not inductive. The
invariant adds a timetable (in which interval of time a pod is draining or closing, and until when it
may be addressed), and that a running request came before the news had spread, so that its age
bounds the time since SIGTERM; from that `ShutdownError` and `Kill` never meet a running request.

**Assumptions on constants.** `StoreAssumption` (`None` is neither key nor order), `AttemptsAssumption`
(limits are at least 1), `KeysExpireAssumption`, `BreakerAssumption` (threshold at least 1, as `New`
enforces), `PodAssumption`, `RelayAssumption` (at least one attempt), `OrdersAssumption` (product ids
are numbers, carts and keys come from their sets), `ListingAssumption` (limits are at least 1),
`CacheAssumption` (finitely many writers, each on a replica; lifetimes of at least a tick).
`DisturbancesAssumption` is used by TLC only.

## 5. Only model-checked

Liveness (`PaymentsSettle`, `StrayChargeReported`, `RefundsSettle`, `RequestsEnd`, `EventsArrive`,
`EventsHandled`, `BackInService`): fairness and ENABLED are outside what the prover handles.
The findings of section 6 are counterexamples
TLC shows. TLC's runs include the job only next to one key; the proofs have no such limit.

## 6. Where comments and code differ

Four runs show behaviours in which the code does not do what a comment or document says:

- `expired_charged`: ReconcileWorker gives up a payment that the provider did not know when asked; a
  client's retry that had resumed it charges afterwards. `reconcile_worker.go:74` says the request
  "will not get there any more". Run `settle` shows that the job puts such a charge before a person.
- `skipped`: after a failed inbox transaction the consumer goes on, and the next commit covers the
  message that failed. `docs/mq_desync.md:108` says the event is certain to arrive. In the run the direct
  send of the event fails, so the topic has one copy of it, sent by the relay; its row is published, the
  group is past that copy, and the handler has never run. An event with a second copy behind survives;
  the relay's copy is the only one whenever the direct send fails.
- `repeated`: the handler runs before `tx.Commit` and outside the transaction; a consumer that dies
  between the two runs it again for the same event. `consumer.go:68` says handler and inbox row are one
  transaction, `docs/mq_desync.md:113` that outbox and inbox make exactly-once. Today's handler only logs.
- `stranded`: the retry counter is committed before `moveToDLQ`; a relay that dies in between
  leaves a row nobody selects again. The comment at `outbox_relay.go:252` says exhausted events are
  moved.

More were met while modelling and have no run of their own:

- `payment_repo.go:62`: a key past its 24 hours can be claimed for another order; its payment is
  found by the key alone, and the request is answered from the first order's payment.
- `payment_service.go:89`: when another process records the success first, the request's own
  `Transition` is refused, and 409 is stored for a payment that went through. Rows stay right.
- `job.go:83`: the provider is listed before our rows are read, so a payment charged and recorded in
  between is reported as `missing_at_provider`.
- `breaker.go:117`: with calls longer than `openFor`, the result of an older call is taken for the
  probe's, and a second probe starts while the first is out.
- `txm/txm.go:38`: `Commit` runs on the execution's context, while `docs/timeouts.md:16` and
  `txm/detached.go:13` say that commits use a detached one. At the deadline the client can get an
  error for an order that exists; with a key its retry gets that order (`AnswersAgree`).
- `cached_product_repo.go:124`: after a failed delete the old value is said to be served until
  `productTTL`; a leader that read before the write, and the copies in L1, can make it the leader's
  limit and both lifetimes together (`StalenessBounded`).
- `CancelOrder` locks product rows in the plan's order and is not wrapped in `retry.Do`: as the victim
  of a deadlock with a creation it answers with an error. `retry.go:24` uses a type assertion, so a
  wrapped serialization error would not be retried either.
- `repository/order.go:66`: any error of the price query is answered as a product that does not exist.
- `app.New` fails without Redis, while `health.go:40` says that the service works without it: true of
  a running pod (`BackInService`), not of one that starts.
- `app.go:218`: `pool.Close` waits for the workers, whose context is cancelled only after `Run` returns;
  a batch that holds its connection for long can outlast the grace period and is killed.

## 7. Left out

Amounts (compared in `Classify` only, as equal or not) and the decline rate; rows without a key,
which no caller writes; clock differences between replicas; the length of pauses and backoffs;
payloads that cannot be decoded, which the relay never writes; several partitions; the lag metric;
`RunScheduled`, `Start` and other functions without a caller. Prices and totals; the size of the
connection pool; keep-alive connections; eviction from L1. Logging, metrics, configuration and
deployment keep no state that processes share. The handlers of user-service and product-service
append to package variables without a lock: concurrent requests race there, but nothing in the
repository says what should hold then and no other part reads them.

## 8. What could follow

1. That rows a creation or a cancellation holds are given up only at its end, as an action property.
2. What liveness rests on and the prover can do: that no state with work left is without an action of a
   running process, stated without ENABLED.
3. Several partitions of the topic, and the order of events of one key within one of them.
