# Formal models of the proof-of-concept services

The repository is a book on system design. Its runnable part is
`src/_proof-of-concepts`, small Python services that each make one chapter's
promise ("never sell one seat twice", "same key, same outcome", "at-least-once").
This directory states those promises as TLA+ properties of models translated from
the code, checks them with TLC on small instances, and proves all of them but the
liveness with TLAPS for instances of any size.

One more program is modelled: `src/_simulators/osi-encapsulation`, the page the
chapters embed, whose bundle holds React's update queues and Scheduler.

The services share nothing: every directory is a program of its own with its own
Redis, Postgres and event loop. So there is one module per service (two for the
scheduler, which has two independent halves) rather than one composed system;
composition happens inside a module, between handlers, database and cache, and
between a detailed module and the abstract one it implements (`SeatSale`,
`EffectsOnce`, `EncapsulationPanel`). `Studies` puts the eleven smaller modules side
by side, as instances that share nothing, so that one run and one specification
cover them, and `JobScheduler` does so for the scheduler's halves.

To repeat everything: `tlc -config X.cfg MCmodule.tla` for each configuration and
`tlapm M.tla` for each `*Proofs.tla`.

## How the models are cut

The services are `asyncio` programs; a few are sequential libraries. Between two awaits nothing
else runs, and every await that reaches Redis or Postgres is one atomic command
there. Hence:

* **one action per command**: the action is the command together with the
  synchronous code that follows its answer. Any other handler may run between two
  actions; that is where the code can go wrong.
* a Postgres **transaction** keeps its writes to itself until the commit action;
  row locks and unique-key locks are state, and a statement that would wait is
  disabled until the lock is free.
* **in-memory stubs** (payment gateway, broker, consumer) never suspend, so a call
  into one is part of the step that makes it.
* a handler may **fail** at any await (an exception, a dropped connection, a dying
  process); what the code rolls back or cleans up then, and what it does not, is
  part of the failing action. A handler that fails after its commit is an answer
  that never reaches the client, who may call again.
* **expiry** of a Redis key is an external action that may happen at any time: no
  model assumes that a TTL is long enough.
* every module names a faulty variant before the definition it belongs to, e.g.
  `LockFreeAlways` before `LockFree`: the mistake the definition guards against.
  The specifications never use them; replacing the definition by its variant makes
  a property fail, which is how each property is known to depend on the code.

## Inventory

### Job scheduler - `07-case-studies/13-job-scheduler`

*Leader election and dispatch* (`LeaderFencing`). State: `lease` and `epoch` in
Redis, `LeaderLease.epoch` of each node (`held`), `executions.epoch`
(`rowEpoch`). `/leader/acquire` is `SET NX PX` (`AcquireLease`, or `AcquireRefused`,
which resets `held`), then `INCR` (`MintEpoch`); `/dispatch` is `GET epoch` and a
comparison (`DispatchCheck`), then an unconditional UPDATE (`StampEpoch`). Hard:
the lease may move between SET and INCR and between check and UPDATE. Correct when
epochs are unique and a deposed leader's request is refused. The table's rows
are `Rows` here and `Executions` in the other half, and the specification is
`ElectionSpec`, so that `JobScheduler`, which runs either half, and the proof module
can extend both.

*Claims* (`ExecutionClaims`). State: the executions table. Workers claim,
heartbeat, complete; an operator reclaims. Each handler reads the clock, then
awaits one conditional UPDATE, so a request is two steps (`Request`, `Serve`) and
its UPDATE may land long after its clock was read. Hard: late updates, workers that
crash and come back under their old name. Correct when a row has one owner at a
time, one completion ever, and does not stay with a dead worker.

### Ticketmaster - `07-case-studies/02-ticketmaster`

`SeatBooking`, implementing `SeatSale`. State: seats and orders in Postgres, holds
in Redis, `PaymentClient._captured` in memory. Operations: `/hold`, `/confirm` (row
lock, check, capture, UPDATE, INSERT, COMMIT, release of the hold), `/reset` (DELETE,
UPDATE, SCAN, DEL). The payment key of a confirm is whatever the client sends, so
two confirms of different seats may bring one key (`Begin`); `paidWith` is history,
the key behind each order. Hard: concurrent confirms, failures after the charge, a
crash that forgets the captured keys, a `/reset` in the middle, the deliberately
`unsafe` confirm. Correct when no
seat has two orders, every order is paid, and a sold seat is not charged for. The
abstract sale has one variable, the orders of each seat, and sells a seat only
while it has none.

### Outbox - `06-patterns/08-event-driven-cqrs-outbox-cdc`

`Outbox`, implementing `EffectsOnce`. State: orders, outbox rows with `sent` and
`seq`, the broker's log and its delivery offset, the consumer's processed ids.
Operations: `place_order`, `run_once` of several relays, `deliver_new` (`Deliver`,
which follows the consumer event by event in the recursive function `Handled`). Hard: a
relay that publishes and dies before it commits `sent`, two relays polling at once,
duplicates. Correct when order and event stand or fall together, relays polling at once
publish no duplicates, and each committed order has its effect exactly once in the
end.

### Payments - `07-case-studies/12-stripe-payments`

`Payments`. State: idempotency keys with their stored result, payments, ledger.
Operation: `/charge`, one transaction (reserve the key, insert the payment, two
postings, save the result) or a replay. Hard: concurrent calls with one key, where
the second waits for the first to commit or roll back; lost answers and retries.
Correct when a key is charged once, every answer for a key is the same, and the
ledger is balanced and is exactly the payments.

### Ride matching - `07-case-studies/07-uber`

`RideMatching`. State: driver locks in Redis, the trips table, each flow's
candidates. Operation: `OfferFlow.match`. Hard: flows that walk the same
candidates, retries of one request, locks whose TTL lapses under a slow flow,
flows that die holding a lock. Correct when a request gets one trip and all its
callers are told that one, and a driver is offered to one rider at a time.

### Web crawler - `07-case-studies/08-web-crawler`

`CrawlFrontier`. State: seen keys, a queue per host, the set of hosts, a gate per
host, the last host served. Operations: `admit` (of `/seed` and `/discovered`) and
`next`, which tries the hosts in rotation, those after the last one served first. Hard: `next` is up to four commands, any two handlers interleave, a handler
may die with a URL only it knows. Correct when each page is crawled once, none is
forgotten, and a host's URLs leave no faster than its gate closes.

### WhatsApp - `07-case-studies/04-whatsapp`

`ChatRouting`. State: each server's sockets and subscriber, and in Redis presence,
inboxes and a channel per server. Operations: a server's SUBSCRIBE (`Subscribe`: it
accepts connections before that, also after a restart), connecting (register,
presence, drain; a user may have any number of connections), sending and reading
(frames with any id and recipient), delivering, acknowledging, routing,
disconnecting. A message's row in an inbox has its id and kind as key (`Key`). What
a coroutine has still to do is a list of steps, since a delivery nests the whole
route of its receipt. Hard: everything meets everything at each await, presence is
stale, publications to nobody vanish, clients vanish unnoticed. `displaced` records
the users with a connection that a handler acted on after its own client had gone:
by its clean-up, or by its registration. `early` records those who drained at a
server that had yet to subscribe. Correct when a message does not disappear, a
delivered receipt is truthful, and nobody connected is left with messages waiting.

### URL shortener - `07-case-studies/01-url-shortener`

`UrlShortener`. State: the counter and the links in Postgres, each server's leased
range and its `asyncio.Lock`, the cache in Redis. Operations: create (`Create`,
`NextId` or `Refill` and `Allocate` under the lock, `Insert`), with an alias or
without, and redirect (`Resolve`, `Lookup`, `Fill`). Hard: creates that wait for
the lock while a range is used up, a lease whose answer is lost, restarts, aliases
that equal a code still to come, a fill that is older than what it fills. Correct
when no id is given twice or dropped but by a crash, and a cached or about to be
cached URL is the table's.

### News feed - `07-case-studies/03-news-feed`

`FeedFanout`. State: posts and follows in Postgres, event stream and timelines in
Redis, what the worker holds. Operations: post (INSERT, then XADD), follow, the
worker's poll (of at most `PollCount` events), count, followers, push and
acknowledgement, and a read's two queries. Hard: fan-out and read ask at different times whether an author is a
celebrity, API and worker die between commands. Correct when no post falls between
the two paths.

### Dropbox - `07-case-studies/05-dropbox`

`ChunkSync`. State: chunks and manifests in Postgres, where each agent is in its
push or pull. One action per HTTP call. Hard: two agents push the same chunks and
each uploads only what the other has not, one dies; a manifest is replaced under a
pull. Correct when every visible version can be restored.

### YouTube - `07-case-studies/06-youtube`

`Transcode`. State: the video's state, its renditions and manifests in Redis, the
place of each request in the task loop. Hard: overlapping runs, tasks made to fail,
runs cut off. Correct when a live video is whole and a whole one goes live.

### Rate limiter - `07-case-studies/09-rate-limiter`

`RateLimiter`. State: the key in Redis, as counter, sorted set or bucket, and its
expiry. Each of the three scripts is one action, with the clock its server read
some time before, which may be behind Redis' own or ahead of it (`Readings`).
`admitted` is history: how many calls were answered "allowed" at each moment and
before it, every one of them; `repeated` is how many of those the sliding window
stored under the member of an earlier call, because millisecond and draw were the
same. Hard: late clocks, expiry by another clock, window boundaries, equal members. Correct when no order of calls admits more than the algorithm's bound.

### Ad clicks - `07-case-studies/10-ad-click-aggregator`

`ClickCounts`. State: impressions seen and rows in Postgres, counts, emitted counts
and watermark in memory. Operation: `POST /clicks` (`FirstTime`, `AddAndFlush`, and
an upsert per changed window). Hard: clicks delivered again, late clicks that
reopen a window, corrections that overtake one another, restarts. Correct when no
row exceeds its impressions and a correction is not lost.

### Google Docs - `07-case-studies/11-google-docs`

`DocumentServer`. State: document, log, snapshot version. Operations: submit
(transform over all that was applied since, apply, append) and snapshot.
`Transformed` is the chain of transformations as a recursive function of the log;
each of its steps is one pair of the four cases insert and delete make, or leaves a
no-op alone. Hard:
operations against any older version, also about characters already deleted.
Correct when every keystroke is kept, in the order its editor saw.

### LSM tree - `02-data-foundations/02-storage-engines`

`LsmStore`. State: memtable and segments; writes and unlinks may fail. Operations:
put, delete, get, scan, flush, compact. Hard: compaction drops tombstones, lets go
of its inputs before it writes its result. Correct when a read is the last write.

### Hash ring - `03-distributed-data/02-sharding-and-consistent-hashing`

`HashRing`. State: the ring's nodes, a store per node. Operations: add and remove a
node, put, get. Hard: a long sequence of changes that leaves a key, or a second
copy of it, where the ring does not look. Correct when a read is the last write, a
store has only what its node owns, and only the changed node's keys move.

### OSI simulator - `_simulators/osi-encapsulation`

`OsiSimulator`, implementing `EncapsulationPanel`. State: the panel's five hooks
and the scroll bar's, each with the state shown, its base state and its update
queue; the lanes of the two components and of the root; the root's task or
microtask; pointer and timer. Operations: clicks, pointer and timer events
(`Handle`: enqueue, schedule the root), the microtask (`FlushSync`) and the
Scheduler's message (`HostTurn`), which render and commit. Hard: updates of
different priority are rendered out of order and rebased. Correct when the screen
changes by whole clicks and ends as the order of events says.

### Not modelled

| part | why |
|---|---|
| isolation experiments (`03-transactions-and-isolation`) | scripts of two transactions; what they show is the database's isolation levels, and the code keeps no state |
| load balancing | a sequential simulation with random arrivals that reports latencies |
| search | a sequential index in memory; its results are floating-point scores |
| probabilistic data structures | sequential sketches, whose promises are statistical |
| indexing experiments | SQL plans, and what the database says of them |
| encoding and schema evolution | encoding and decoding of fixed records, no state |
| the chapters | prose; quoted where a run contradicts them |

Inside the modelled services these are left out: the status counters that `/stats`
reports, health checks, connection pools, the location pings that fill Uber's geo
index (any list of nearby drivers may come back), the crawler's `/reset` and its
restart (which only forgets the last host), `/reset` of the ad clicks, the cursors
of Google Docs, the shortener's click events, and of React all the page does not
use: effects, transitions, suspension, starvation. The Bloom filters of the LSM tree
have no false negatives and change no answer.

## Runs

Names are those of the configuration files. "violation" runs show a statement of
the repository's own text that the code does not keep.

| run | instance | shows |
|---|---|---|
| `JobScheduler` | 3 nodes, 2 rows, 3 epochs; 2 workers, 1 execution, clock 0..4, visibility 1 | `EpochsUnique`, `AdmittedIsHighest`, `ExclusiveOwner`, `CompletedOnce`, and under fairness `Redelivered` |
| `LeaderFencingStamp` (violation) | 2 nodes, 1 row | `StampsNeverRegress`: `dispatcher.py` says a stale leader is rejected, but check and UPDATE are two awaits and the UPDATE compares nothing |
| `SeatBooking` | 2 confirms, 2 seats, 2 holders, 2 keys, 1 crash | `NoChargeForSoldSeat`, `ReleaseOwnHold`, and refinement of `SeatSale` (a seat's first order is its last) |
| `SeatBookingReset` | 2 confirms, one of them `unsafe`, 1 seat, 1 holder, 2 keys, 1 `/reset` | what survives both: `OneCapturePerAttempt`, `OrdersArePaid`, and under fairness `ConfirmEnds` |
| `SeatBookingCrash` (violation) | 1 confirm, 1 key, 1 crash | `OneCapturePerAttempt`: the captured keys are in memory, so an attempt retried after a crash is charged again, against the chapter's "however many times the request is retried" |
| `Outbox` | 2 relays, 3 orders (one invalid), batches of 2, 2 failures | `DuplicatesNeedFailures`, refinement of `EffectsOnce`, and under fairness `EventuallyApplied` |
| `Payments` | 2 calls, 2 keys, 2 amounts, 3 payment ids | `OneOutcomePerKey` (one payment, all answers name it), `LedgerMatchesPayments`, and under fairness `ChargeEnds` |
| `RideMatching` | 3 flows, 2 requests, 2 drivers, 1 lapse, 1 failure | `OneOutcomePerRequest` (one trip, all answers name it), `LockedForReason`; while no lock has lapsed `NoDoubleBooking` |
| `ChatRouting` | 2 servers, 2 users, 3 connections, 1 text id and its receipts, 1 frame, 1 failure | `NothingLost`, `ReceiptsTruthful`, `NotStranded` |
| `ChatRoutingGone` (violation) | the same | `AtLeastOnce`: `message_router.py` says a row is deleted only on a delivery ack, but it is deleted once the server's own send returned |
| `RateLimiterBurst` (violation) | sliding limit 2, one draw, clocks that agree | `NeverOverAdmits`: `atomic_counter.py` says that a concurrent burst can never over-admit, but calls of one millisecond and one draw are one member of the set, and a third is admitted |
| `Studies` | eleven parts, each on its own | the table below |

`MCStudies` puts the small parts into one run. They share no variable; the first
state chooses a `study` and from then on only its actions are taken, so the states
are those of eleven separate runs and a property of one study is checked in the
states of that study; `JobScheduler` chooses a `half` in the same way. `Types` is the type invariant of whichever was chosen.

| study | module | instance | shows |
|---|---|---|---|
| shortener | `UrlShortener` | 2 servers, 2 handlers, 2 URLs, 1 alias, ranges of 2, 2 leases, 1 failure | `IdsAccounted`, `CacheAgrees` |
| crawler | `CrawlFrontier` | 2 handlers, 2 hosts, 3 pages (one in two spellings, one more kept out by robots), 1 failure, 2 windows per host | `SeenOnce`, `PopsWithinWindows` |
| simulator | `OsiSimulator` | 2 cards, up to 2 updates per queue before the user goes on | `BarFollowsPointer`, and refinement of `EncapsulationPanel` (`ScreenSpec`) |
| engine | `LsmStore` | 2 keys, 2 values, 3 segments, 1 disk error | `ReadsLastWrite` |
| docs | `DocumentServer` | 5 operations, snapshots anywhere | `EditsKept` |
| sync | `ChunkSync` | 2 agents, 2 paths, 3 files of 2 chunks | `Restorable` |
| video | `Transcode` | 2 requests at a time, 2 segments by 2 renditions | `LiveWhenWhole` |
| clicks | `ClickCounts` | 2 handlers, 4 impressions in 3 windows, 1 failure | `ExactOnceSettled` |
| feed | `FeedFanout` | 2 authors, 2 readers, 2 posts, threshold 2, polls, reads and timelines of 1, 1 crash | `FeedComplete` |
| limiter | `RateLimiter` | limit 2 in a window of 4, clock 0..8, lag 1, lead 1, 2 draws, 1 repetition | `RateBounded` |
| ring | `HashRing` | 3 nodes at 5 positions, 2 keys, 2 values | `RoutedToLastWrite` |

### Why the bounds are enough

The races are between two handlers over one row, key, seat or driver; a third
participant matters where a resource changes hands while two are already inside
(the lease in `LeaderFencing`, a competing request in `RideMatching`), and is there
in those instances. Clocks and counters run past the point where everything has
happened twice: `ExecutionClaims` runs past two visibility timeouts, so that a row
can be claimed, lapse, be reclaimed and claimed again under an old request;
`LeaderFencing` mints three epochs, one more than a stale and a current leader
need; `Payments` has an id more than keys, so that failed charges can burn one;
`ChatRouting` has a `Budget` for connections that are opened or lost, frames and
failures together: five allow a text and its receipt between two users of whom one
comes back by a third connection, or a failure in the middle of that; `ClickCounts` has a
window with two clicks, one of which may be late, and a click far enough ahead to
close it; `FeedFanout` lets an author cross the threshold with both readers as
followers, a timeline of one makes each push evict, and polls of one leave events
for the next; `DocumentServer` fits two
insertions and two deletions that were all composed before any of the others, and
one after; `RateLimiter` runs for two windows after its first call, so that a
window's end, an expiry and a late call fall in any order; `HashRing` has a node
with one position, nodes with two, and keys that meet the end of the ring. Failures
and crashes are bounded by one or two: no property speaks of what happens after more
of them than that together. The proofs below have no bounds at all.

Symmetry is used in `SeatBooking`, `RideMatching`, `ChatRouting` and `Studies`
(there over handlers, servers and two values that serve as URLs, paths and stored
values: no definition names one of them, and no study chooses among them but by
quantifier), where the sets are interchangeable (`Init` leaves the arguments of idle
handlers open where a fixed choice would break it) and no liveness is checked.
Deadlock is checked where a handler can always be called again; where it is not,
the configuration says what stops.

### Fairness

Liveness is checked under a `FairSpec` of the module (of the job scheduler,
`SchedulerSpec` of `JobScheduler`).

* A handler that is not waiting for a lock moves on (`WF`): the event loop and the
  database serve everyone.
* A statement that waits for a row or a key is served in the end although the lock
  is taken and freed in between (`SF`): Postgres queues the waiters of a lock.
* `Redelivered` assumes that the clock advances and that `/reclaim` is called again
  and again. Nothing in the code does that, the operator or a cron job has to; the
  model allows one `/reclaim` in flight at a time.
* `EventuallyApplied` assumes that `run_once` and `deliver_new` are called again
  and again, as `demo.py` does.

Nothing is assumed about failures ceasing except through their bound, and
`Begin`, `Fail`, `Crash` and the expiries have no fairness. One thing is due to a
bound: a charge that finds the ids used up is required to end by failing.

## What the code does that no property promises

The models have these behaviours; stating the property would only show them.

* **Uber**: the lock's TTL is checked by nobody, and its DEL asks for no owner. One
  lapse under a slow flow can offer a driver twice, hence the condition
  `LocksOutlast` on the properties of drivers. A retry that overlaps the first call
  may be answered 409, although that call gets the trip.
* **Crawler**: `pop` reads an empty list, another handler queues a URL and lists
  the host, `pop` takes the host off the list: `next` does not find that URL before
  another one of its host is queued.
* **WhatsApp**: the clean-up of a user's old connection removes the socket and the
  presence of a newer one, and a registration that is still under way when its client
  has gone takes the place of the newer one as well. A server accepts connections
  before its subscriber has reached SUBSCRIBE (`main.py:61`, `infra/redis_.py:61`):
  who drains by then misses what is published before it, with nothing failed.
  `NotStranded` excepts the users of both kinds (`displaced`, `early`). Ids are the
  clients': a text with the id of another takes its row in the inbox, and one's ack
  deletes the other's, so `NothingLost` and `AtLeastOnce` speak of keys. The model's
  texts do not take the ids of receipts (those that begin with `d-` or `rd-`).
  A client may report as read whatever it likes; nothing is promised of that.
* **Outbox**: `seq` is drawn at INSERT and seen at COMMIT, so a relay that runs in
  between publishes a later order first. Nothing is promised about order.
* **LSM tree**: a compaction that cannot write its merged segment has already
  unlinked and forgotten its inputs; their keys read as absent. `ReadsLastWrite`
  excepts exactly those.
* **Dropbox**: of two pushes of one path the later commit wins, silently.
* **YouTube**: a request sets a live video back to "processing", and if it is cut
  off leaves it so until the next one.
* **Ad clicks**: two corrections of a window may reach the table out of order, a
  raised upsert loses a correction until the window's count changes again, and a
  crash loses the counts of impressions that stay marked as seen.
  `ExactOnceSettled` excepts exactly those windows from being exact, and none from
  being bounded.
* **News feed**: `poll` reads only new events (`>`), so what a crashed worker had
  taken and not acknowledged is never delivered again, although
  `fanout_consumer.py:1-6` says at-least-once. `FeedComplete` excepts those posts. A
  read's limit is not bounded by `TIMELINE_MAX` in the code: who asks for more than a
  timeline keeps may be answered with only as many (`Enough`).
* **Rate limiter**: a fixed window lets up to `2 * limit - 1` calls through in the
  time of one. The sliding window names a call by its millisecond and
  `math.random()`, which Redis seeds alike for each script: calls of one
  millisecond with one number are one member, the set counts them once and all of
  them are admitted. `RateLimiterBurst` shows it; `RateBounded` counts every
  admitted call and allows the sliding window as many more as were taken for
  another (`Repeats`). Clocks that are behind or ahead can exceed a sliding limit
  or a bucket by what they differ, hence `MaxLag` and `MaxLead` in the property.
* **Hash ring**: removing the last node raises when its store is gone already.
* **Ticketmaster**: a key that a client sends for several seats is charged once and
  pays for all of them (`OrdersArePaid` asks for a capture of the key, not for one of
  its own). `/reset` and `unsafe` confirms can leave a seat with two orders
  or a sold seat without one; the `SeatBooking` run and the proofs exclude both.

## Proofs

Every safety invariant, action property and refinement that a passing run checks is
also a theorem, for every value of the constants that satisfies the module's
assumption (bounds are natural numbers, the "none" values are outside their sets,
the rings and clocks are well formed), which TLC evaluates in the runs, and the
hypothesis the theorem names. Each proof follows the same plan: `Init` establishes
the invariant, every action keeps it (one step per action), and the property is
read off it. Where an invariant is not inductive by itself, the table says what it
rests on.

### Programs with a run of their own

| module | theorems | along which argument |
|---|---|---|
| `JobSchedulerProofs`, election | `ElectionTypes`, `OneLeaderPerEpoch`, `FencingHolds` | `AheadInv`: the counter is ahead of every epoch in a node's hands, in a dispatch or on a row. `MintInv` counts the nodes between SET and INCR against the bound |
| `JobSchedulerProofs`, claims | `TypeCorrect`, `OneOwner`, `OneCompletion`, `CompletedStays` | `ClaimsInv`: a running row's deadline is what its owner was last granted, everybody else's grant has lapsed, and no captured clock is ahead of the real one. The last part is what makes a late claim or reclaim harmless |
| `SeatBookingProofs` | `TypeCorrect`, `OrdersPaid`, `CapturesBounded`, `CapturedOnce`, `ReleasesOwn`; with every confirm locking and no `/reset` (`Deployed`) `NeverSoldTwice`, `ChargesUnsold`, `Refinement` | `PaidInv`: whoever is past the capture, and every order, has a charge of its key behind it (an order's key is in `paidWith`), and a key has at most one more charge than the process had crashes; `CapturedOnce` is the case without crashes (with one, `SeatBookingCrash` refutes it). `LockInv`: a transaction past its check owns the row of an unsold seat. Under it each INSERT is a sale of the abstract machine and everything else a stutter |
| `OutboxProofs` | `TypeCorrect`, `DuplicatesBounded`, `NothingLost`, `Refinement` | `Together`: an order and its event are one; `Fetched`: row locks give relays that poll at once disjoint batches of unsent rows; `Bounded`: an event has one copy on the bus for its current way to `sent`, and one for each failure; `Consumed`: an effect was run once for each id in the consumer's table and for no other |
| `PaymentsProofs` | `TypeCorrect`, `NeverChargedTwice`, `LedgerIsPayments` | `KeyInv`: a handler at work owns its key, whose result is not there yet; a stored result names the one payment of its key; ids in the making are fresh |
| `RideMatchingProofs` | `TypeCorrect`, `OneOutcome`, `NeverDoubleBooked`, `NeverLockedForNothing` | the unique constraint gives the second unconditionally; `OfferInv` (an offered driver is locked and on no trip, a driver on a trip stays locked) gives the third until a lock lapses; the last is inductive by itself |
| `ChatRoutingProofs` | `TypeCorrect`, `NeverLost`, `ReceiptsFollow`, `NobodyStranded` | `Inv`: whatever is on a coroutine's list (`UnderWay`), on a channel (`Published`), in an inbox (`Stored`) or was ever accepted or sent (`Past`) is a message for its recipient, whose text was sent before if it is a delivered receipt; so none of these is ahead of its cause. `NobodyStranded` needs more (`Steady`): `Places` (while nothing has failed, who is not displaced has a socket on the server of each of their connections, and on the one that presence names), `Earliness` (who has drained and is not early is at a server that listens) and `Waiting` (what is in the inbox of such a user is on its way to that socket) |

### The studies

`ContentProofs` and `StudiesProofs` prove about `Studies`, with its eleven instances,
what the one run checks. A lemma for each study (`CrawlProjection` and its like)
says that a behaviour of `StudiesSpec` is one of that study's own specification: its
steps, or stuttering. So the work is done in each study alone and the theorems named
`Studies...` at the end of `StudiesProofs` carry it over.

| study | theorems | along which argument |
|---|---|---|
| shortener | `StudiesAccounted`, `StudiesCacheAgrees`, `ShortenerTypes` | `Leasing`: who is in a lease owns the server's lock and its range is used up, so ranges are cut off the counter one at a time and no remainder is thrown away; `InHand` and links that never change: a reader's copy cannot become stale |
| crawler | `StudiesSeenOnce`, `StudiesPaced` | `Sole`: a seen URL is at exactly one place - in a handler's hands, in a queue, handed out, or lost with a handler; `Paced` counts, for each host, what was handed out and the handlers on their way to pop against the windows of its gate |
| simulator | `StudiesBarFollows`, `StudiesScreen` | `RootScheduled`: the root's task is that of the most urgent pending lane; `BarWill`: whatever was rendered out of order and rebased, the last update sent is what the bar will show; `PanelClicked` and `PanelSettled`: what the panel's next render brings is one whole click, or nothing |
| engine | `StudiesReadLastWrite` | `Right`, which speaks of what the segments together answer: a flush or a compaction that succeeds changes no answer, one that fails only for the keys it lost |
| docs | `StudiesEditsKept` | `DocsRecorded`: the log leads from each version since the snapshot to the next; `DocsKnown`: a character is in a text once. A transformed operation is then what the editor's own would have been in the newer text (`TransformOne` case by case), so `DocsKept`: the document is what was typed and not erased, in every view's order |
| sync | `StudiesRestorable`, `VersionsAreWhole` | `Covered`: a chunk once stored stays, and what a push neither found nor was told to upload is stored already; so at its commit the whole file is |
| video | `StudiesLive` | `Counted`: what a run has counted is in the store, which only grows; `Finished`: unless a run was cut off, once the store is whole the video is live or a run is on the way that will find it whole |
| clicks | `StudiesCountedOnce` | `Tallied`: the count of a window is the number of its impressions seen and counted, and no row or correction under way exceeds it; `Settled`: of a settled window at most one correction is under way, of what was emitted last |
| feed | `StudiesFeedComplete` | `FannedOut`: a handled post was left to the readers, or is on the timeline of each follower it is owed to, or pushed off it by newer ones; `Reading`: the same of a read that has its timeline and asks for the celebrities only later. Followers only grow, so who was a celebrity at fan-out is one at read |
| limiter | `StudiesRateBounded` | `Remembered`: the key outlives the calls it has to remember; then for each algorithm: `Windowed` (the window before let through one less after its first call), `Listed` (the sorted set has a member for each call a late clock may still count, but those that share one), `Drawn` (each call cost a token, whatever the refill) |
| ring | `StudiesRouted` | a node more takes a key for itself or leaves it where it is, so a node less does too; `RingOwned`: a key is stored at its owner and nowhere else. Needs `WellPlaced`: every node has a position and no two share one |
| all | `StudiesTypes` | the type invariants of the instances, with `SomeStudy`: a study once chosen stays |

Several definitions are recursive functions over a log or a queue: the consumer
(`Handled`), the chain of transformations (`Transformed`), what a hook's queue comes
to (`States`), what a click dispatches (`Dispatched`). An induction over them is out
of reach here, since the library's induction theorems take an operator. What is
needed of them is instead proved by the least counterexample: the positions at which
the claim fails are a set of naturals, which has a least element
(`LeastNumber`, from `NatLessThanWellFounded` of the library), and the recursion's
step says that it is none.

The proofs changed the models where those could not be right or could not be read:
`displaced` had left out the late registration, `FeedComplete` had taken a read's
limit to be bounded by the timeline, and two arms of `TransformOne` overlapped.

### Only model-checked

Liveness: `Redelivered`, `ConfirmEnds`, `EventuallyApplied` and `ChargeEnds`. Fairness
is a matter of ENABLED, which is out of the prover's reach. The four runs
that expect a violation are counterexamples and need no proof.

The strengthened invariants of the programs with a run of their own were checked with
TLC before they were proved; the runs do not repeat them, since the theorems say more.
The same holds of the type invariants that a run does not list.

## Plan

What could come next, the most useful first:

1. The ad clicks' `/reset` under traffic, and the crawler's.
2. Larger instances of the studies, each in a run of its own.
3. The sequential algorithms as operators against a reference definition: the
   inverted index, the sketches' error direction, the tagged codec.
