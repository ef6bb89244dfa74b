------------------------------- MODULE Outbox -------------------------------
(***************************************************************************)
(* The transactional outbox: OrderService writes an order and its event in *)
(* one unit of work, OutboxRelays poll the unsent events with FOR UPDATE   *)
(* SKIP LOCKED, publish them and mark them sent, and IdempotentConsumer    *)
(* absorbs the duplicates that a relay dying in between leaves on the bus. *)
(*                                                                         *)
(* Every await that reaches Postgres is an action.  The in-memory broker   *)
(* and the consumer never suspend: a relay publishes its batch in one      *)
(* step, and one call of deliver_new drains the bus in one step.           *)
(* An event is named by its order (event_id is "evt-" and the order's id). *)
(***************************************************************************)
EXTENDS Naturals, Sequences, FiniteSets, Functions

CONSTANTS
  Orders, Relays,
  InvalidOrders,    \* orders whose amount is not positive
  Limit,            \* run_once(limit)
  MaxFailures       \* bound on failed transactions, of relays and services

ASSUME OutboxAssumption ==
  /\ InvalidOrders \subseteq Orders
  /\ Limit \in Nat \ {0} /\ MaxFailures \in Nat

VARIABLES
  orderRows,        \* committed rows of the orders table
  eventRows,        \* committed rows of the outbox table, by order
  sent,             \* those with sent = true
  seq, nextSeq,     \* outbox.seq of each order (0: none) and its bigserial
  writer,           \* where place_order(o) is
  relay, batch,     \* where run_once is, and the rows it fetched and locked
  log,              \* InMemoryBroker.log
  offset,           \* the offset deliver_new returned last
  processed,        \* IdempotentConsumer._processed
  applied,          \* how often each order is in IdempotentConsumer.applied
  failures

database == <<orderRows, eventRows, sent>>
consumer == <<offset, processed, applied>>
vars == <<database, seq, nextSeq, writer, relay, batch, log, consumer, failures>>

TypeOK ==
  /\ orderRows \subseteq Orders /\ eventRows \subseteq Orders /\ sent \subseteq eventRows
  /\ seq \in [Orders -> Nat] /\ nextSeq \in Nat \ {0}
  /\ writer \in [Orders -> {"idle", "order", "event"}]
  /\ relay \in [Relays -> {"idle", "fetched", "published", "marked"}]
  /\ batch \in [Relays -> Seq(Orders)]
  /\ log \in Seq(Orders)
  /\ offset \in 0..Len(log)
  /\ processed \subseteq Orders
  /\ applied \in [Orders -> Nat]
  /\ failures \in 0..MaxFailures

Init ==
  /\ orderRows = {} /\ eventRows = {} /\ sent = {}
  /\ seq = [o \in Orders |-> 0] /\ nextSeq = 1
  /\ writer = [o \in Orders |-> "idle"]
  /\ relay = [r \in Relays |-> "idle"]
  /\ batch = [r \in Relays |-> << >>]
  /\ log = << >> /\ offset = 0
  /\ processed = {} /\ applied = [o \in Orders |-> 0]
  /\ failures = 0

-----------------------------------------------------------------------------
(* OrderService.place_order *)

\* validate, then INSERT INTO orders; an id already there is refused.
AddOrder(o) ==
  /\ o \notin InvalidOrders
  /\ o \notin orderRows
  /\ writer[o] = "idle"
  /\ writer' = [writer EXCEPT ![o] = "order"]
  /\ UNCHANGED <<database, seq, nextSeq, relay, batch, log, consumer, failures>>

\* INSERT INTO outbox: takes the next seq, before the commit.
AddEvent(o) ==
  /\ writer[o] = "order"
  /\ writer' = [writer EXCEPT ![o] = "event"]
  /\ seq' = [seq EXCEPT ![o] = nextSeq]
  /\ nextSeq' = nextSeq + 1
  /\ UNCHANGED <<database, relay, batch, log, consumer, failures>>

\* uow.commit: the order and its event become visible together.
CommitOrder(o) ==
  /\ writer[o] = "event"
  /\ writer' = [writer EXCEPT ![o] = "idle"]
  /\ orderRows' = orderRows \cup {o}
  /\ eventRows' = eventRows \cup {o}
  /\ UNCHANGED <<sent, seq, nextSeq, relay, batch, log, consumer, failures>>

\* __aexit__ without a commit: neither row stays; the seq is spent.
FailOrder(o) ==
  /\ writer[o] # "idle"
  /\ failures < MaxFailures
  /\ failures' = failures + 1
  /\ writer' = [writer EXCEPT ![o] = "idle"]
  /\ seq' = [seq EXCEPT ![o] = 0]
  /\ UNCHANGED <<database, nextSeq, relay, batch, log, consumer>>

-----------------------------------------------------------------------------
(* OutboxRelay.run_once *)

\* Rows another relay has locked are skipped.  Faulty variant: they are not.
LockedNone == {}
LockedRows == UNION {Range(batch[r]) : r \in Relays}

\* Faulty variant: rows not yet committed are read as well.
UnsentDirty == {o \in Orders : seq[o] # 0} \ sent
Unsent == eventRows \ sent

\* SELECT ... WHERE NOT sent ORDER BY seq LIMIT n FOR UPDATE SKIP LOCKED: rows in the
\* order of seq, and no free row is left out that comes before the last or would fit.
FetchedRows(rows) ==
  LET free == Unsent \ LockedRows IN
  /\ Range(rows) \subseteq free
  /\ \A i, j \in DOMAIN rows : i < j => seq[rows[i]] < seq[rows[j]]
  /\ \A o \in free \ Range(rows) : Len(rows) = Limit /\ \A i \in DOMAIN rows : seq[rows[i]] < seq[o]

\* fetch_unsent; with nothing to fetch, run_once commits and returns 0.
Fetch(r) ==
  /\ relay[r] = "idle"
  /\ \E n \in 1..Limit : \E rows \in [1..n -> Unsent] :
       FetchedRows(rows) /\ batch' = [batch EXCEPT ![r] = rows]
  /\ relay' = [relay EXCEPT ![r] = "fetched"]
  /\ UNCHANGED <<database, seq, nextSeq, writer, log, consumer, failures>>

\* The whole batch goes to the bus, which is no part of the transaction.
Publish(r) ==
  /\ relay[r] = "fetched"
  /\ log' = log \o batch[r]
  /\ relay' = [relay EXCEPT ![r] = "published"]
  /\ UNCHANGED <<database, seq, nextSeq, writer, batch, consumer, failures>>

\* UPDATE outbox SET sent = true; not yet visible.
MarkSent(r) ==
  /\ relay[r] = "published"
  /\ relay' = [relay EXCEPT ![r] = "marked"]
  /\ UNCHANGED <<database, seq, nextSeq, writer, batch, log, consumer, failures>>

\* The point from which a relay may commit.  Faulty variant: before publishing.
CommitPointEarly(r) == relay[r] \in {"fetched", "marked"}
CommitPoint(r) == relay[r] = "marked"

CommitSent(r) ==
  /\ CommitPoint(r)
  /\ sent' = sent \cup Range(batch[r])
  /\ batch' = [batch EXCEPT ![r] = << >>]
  /\ relay' = [relay EXCEPT ![r] = "idle"]
  /\ UNCHANGED <<orderRows, eventRows, seq, nextSeq, writer, log, consumer, failures>>

\* SimulatedCrash, or any statement failing: the transaction is rolled back and
\* the rows unlocked, unsent; what was published stays on the bus.
FailRelay(r) ==
  /\ relay[r] # "idle"
  /\ failures < MaxFailures
  /\ failures' = failures + 1
  /\ batch' = [batch EXCEPT ![r] = << >>]
  /\ relay' = [relay EXCEPT ![r] = "idle"]
  /\ UNCHANGED <<database, seq, nextSeq, writer, log, consumer>>

-----------------------------------------------------------------------------
(* IdempotentConsumer and deliver_new *)

\* IdempotentConsumer.handle of one event.  Faulty variant: the event id is not remembered.
HandleForgetful(acc, o) ==
  IF o \in acc.seen THEN acc ELSE [acc EXCEPT !.done[o] = @ + 1]
Handle(acc, o) ==
  IF o \in acc.seen THEN acc
  ELSE [seen |-> acc.seen \cup {o}, done |-> [acc.done EXCEPT ![o] = @ + 1]]

\* The consumer after n of the events that follow position from.
Handled(from) ==
  LET after[n \in 0..(Len(log) - from)] ==
        IF n = 0 THEN [seen |-> processed, done |-> applied] ELSE Handle(after[n - 1], log[from + n])
  IN  after

\* deliver_new from the caller's offset, or from an older one (redelivery).
Deliver(from) ==
  LET result == Handled(from)[Len(log) - from]
  IN /\ from <= offset
     /\ processed' = result.seen
     /\ applied' = result.done
     /\ offset' = Len(log)
     /\ UNCHANGED <<database, seq, nextSeq, writer, relay, batch, log, failures>>

Place(o) == AddOrder(o) \/ AddEvent(o) \/ CommitOrder(o)
RunOnce(r) == Fetch(r) \/ Publish(r) \/ MarkSent(r) \/ CommitSent(r)

Next ==
  \/ \E o \in Orders : Place(o) \/ FailOrder(o)
  \/ \E r \in Relays : RunOnce(r) \/ FailRelay(r)
  \/ \E from \in 0..Len(log) : Deliver(from)

Spec == Init /\ [][Next]_vars

\* The relay and the delivery loop are called again and again, as in demo.py.
FairSpec ==
  /\ Spec
  /\ \A r \in Relays : WF_vars(RunOnce(r))
  /\ WF_vars(Deliver(offset))

-----------------------------------------------------------------------------
\* "Without two workers grabbing the same row" (README.md): a duplicate on the
\* bus is the mark of a failed relay, never of two relays polling at once.
DuplicatesNeedFailures ==
  \A o \in Orders : Cardinality({i \in 1..Len(log) : log[i] = o}) <= 1 + failures

\* The outbox implements EffectsOnce: an effect runs for committed orders only,
\* and at most once, through duplicates and redeliveries.
Effects == INSTANCE EffectsOnce WITH placed <- orderRows, effects <- applied
EffectsSpec == Effects!Spec

\* "No window where one exists without the other" (README.md): every committed order has
\* its effect in the end, and by EffectsSpec none has that was rejected or rolled back.
EventuallyApplied == Effects!EventuallyApplied
=============================================================================
