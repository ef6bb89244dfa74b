---------------------------- MODULE OutboxProofs ----------------------------
(***************************************************************************)
(* Proofs about Outbox.  Rows that a relay holds belong to it alone and    *)
(* are unsent, so an event is published once more than something failed,   *)
(* at most; what the consumer computes from a slice of the bus is followed *)
(* event by event, and refines EffectsOnce.                                *)
(***************************************************************************)
EXTENDS Outbox, TLAPS, WellFoundedInduction, FiniteSetTheorems

-----------------------------------------------------------------------------
(* Copies on the bus *)

\* Where a sequence has o.
Positions(s, o) == {i \in 1..Len(s) : s[i] = o}

LEMMA PositionsCounted ==
  ASSUME NEW s \in Seq(Orders), NEW o
  PROVE  IsFiniteSet(Positions(s, o)) /\ Cardinality(Positions(s, o)) \in Nat
<1>1. IsFiniteSet(1..Len(s))
  BY FS_Interval
<1>2. Positions(s, o) \in SUBSET (1..Len(s))
  BY DEF Positions
<1>3. IsFiniteSet(Positions(s, o))
  BY <1>1, <1>2, FS_Subset
<1> QED
  BY <1>3, FS_CardinalityType

\* A batch without repetitions adds one copy of what it has, and none of anything else.
LEMMA Copies ==
  ASSUME NEW s \in Seq(Orders), NEW b \in Seq(Orders), NEW o \in Orders,
         \A i, j \in DOMAIN b : b[i] = b[j] => i = j
  PROVE  /\ Cardinality(Positions(s, o)) \in Nat
         /\ Cardinality(Positions(s \o b, o)) \in Nat
         /\ o \notin Range(b) => Cardinality(Positions(s \o b, o)) = Cardinality(Positions(s, o))
         /\ Cardinality(Positions(s \o b, o)) <= Cardinality(Positions(s, o)) + 1
<1>1. /\ Len(s) \in Nat /\ Len(b) \in Nat /\ Len(s \o b) = Len(s) + Len(b) /\ DOMAIN b = 1..Len(b)
      /\ \A i \in 1..Len(s) : (s \o b)[i] = s[i]
      /\ \A i \in 1..Len(b) : (s \o b)[Len(s) + i] = b[i]
  OBVIOUS
<1>2. \A i \in 1..(Len(s) + Len(b)) : i \in 1..Len(s) \/ (i - Len(s) \in 1..Len(b) /\ (s \o b)[i] = b[i - Len(s)])
  <2> SUFFICES ASSUME NEW i \in 1..(Len(s) + Len(b)), i \notin 1..Len(s)
               PROVE  i - Len(s) \in 1..Len(b) /\ (s \o b)[i] = b[i - Len(s)]
    OBVIOUS
  <2>1. i - Len(s) \in 1..Len(b) /\ Len(s) + (i - Len(s)) = i
    BY <1>1
  <2> QED
    BY <1>1, <2>1
<1>3. IsFiniteSet(Positions(s, o)) /\ Cardinality(Positions(s, o)) \in Nat
  BY PositionsCounted
<1>4. CASE o \notin Range(b)
  <2>1. \A i \in 1..Len(b) : b[i] # o
    BY <1>1, <1>4 DEF Range
  <2>2. Positions(s \o b, o) = Positions(s, o)
    BY <1>1, <1>2, <2>1 DEF Positions
  <2> QED
    BY <1>3, <1>4, <2>2
<1>5. CASE o \in Range(b)
  <2>1. PICK j \in 1..Len(b) : b[j] = o
    BY <1>1, <1>5 DEF Range
  <2>2. Positions(s \o b, o) = Positions(s, o) \cup {Len(s) + j}
    BY <1>1, <1>2, <2>1 DEF Positions
  <2>3. Len(s) + j \notin Positions(s, o)
    BY <1>1, <2>1 DEF Positions
  <2> QED
    <3>1. Cardinality(Positions(s, o) \cup {Len(s) + j}) = Cardinality(Positions(s, o)) + 1
      BY <1>3, <2>3, FS_AddElement
    <3> QED
      BY <1>3, <1>5, <2>2, <3>1
<1> QED
  BY <1>4, <1>5

-----------------------------------------------------------------------------
(* The consumer's loop *)

Less == {p \in Nat \X Nat : p[1] < p[2]}

LEMMA LessWellFounded == IsWellFoundedOn(Less, Nat)
  BY NatLessThanWellFounded DEF OpToRel, Less

LEMMA LessMembers == \A x, y \in Nat : y < x => <<y, x>> \in Less
  BY SMT DEF Less

\* The least number of a set.
LEMMA LeastOf ==
  ASSUME NEW S \in SUBSET Nat, S # {}
  PROVE  \E x \in S : \A y \in S : ~(y < x)
<1>1. PICK x \in S : \A y \in S : <<y, x>> \notin Less
  BY LessWellFounded, WFMin
<1> QED
  BY <1>1, LessMembers

\* What deliver_new computes, event by event.
LEMMA HandledBySteps ==
  ASSUME NEW from \in Nat, Len(log) - from \in Nat
  PROVE  \A n \in 0..(Len(log) - from) :
           Handled(from)[n] = IF n = 0 THEN [seen |-> processed, done |-> applied]
                              ELSE Handle(Handled(from)[n - 1], log[from + n])
<1> DEFINE N == Len(log) - from
           start == [seen |-> processed, done |-> applied]
           From(g, n) == [k \in 0..n |-> IF k = 0 THEN start ELSE Handle(g[k - 1], log[from + k])]
           H == Handled(from)
<1>1. H = CHOOSE g : g = From(g, N)
  BY DEF Handled
<1>2. \A n \in 0..N : \E g : g = From(g, n)
  <2> DEFINE Starts(n) == \E g : g = From(g, n)
             S == {n \in 0..N : ~Starts(n)}
  <2>0. N \in Nat
    OBVIOUS
  <2>1. Starts(0)
    <3>1. [k \in 0..0 |-> start] = From([k \in 0..0 |-> start], 0)
      OBVIOUS
    <3> QED
      BY <3>1
  <2>2. ASSUME NEW n \in 0..N, n # 0, Starts(n - 1) PROVE Starts(n)
    <3>1. PICK g : g = From(g, n - 1)
      BY <2>2
    <3> DEFINE h == From(g, n)
    <3>2. \A k \in 0..(n - 1) : h[k] = g[k]
      <4>1. \A k \in 0..(n - 1) : k \in 0..n /\ h[k] = IF k = 0 THEN start ELSE Handle(g[k - 1], log[from + k])
        BY <2>0, <2>2
      <4>2. \A k \in 0..(n - 1) : g[k] = IF k = 0 THEN start ELSE Handle(g[k - 1], log[from + k])
        BY <3>1
      <4> QED
        BY <4>1, <4>2
    <3>3. \A k \in 0..n : k # 0 => h[k - 1] = g[k - 1]
      <4> HIDE DEF h
      <4> QED
        BY <2>0, <2>2, <3>2
    <3>4. h = From(h, n)
      BY <3>3
    <3> QED
      BY <3>4
  <2> HIDE DEF Starts, N
  <2>3. S = {}
    <3> SUFFICES ASSUME S # {} PROVE FALSE
      OBVIOUS
    <3>1. S \in SUBSET Nat
      BY <2>0
    <3>2. PICK n \in S : \A k \in S : ~(k < n)
      BY <3>1, LeastOf
    <3>3. n # 0 /\ n - 1 \in 0..N /\ n - 1 < n
      BY <2>0, <2>1, <3>2
    <3> QED
      BY <2>2, <3>2, <3>3
  <2> QED
    BY <2>3 DEF Starts
<1>3. H = From(H, N)
  <2>1. \E g : g = From(g, N)
    <3>1. N \in 0..N
      OBVIOUS
    <3> HIDE DEF N, From
    <3> QED
      BY <1>2, <3>1
  <2> QED
    BY <1>1, <2>1
<1> QED
  <2> HIDE DEF H
  <2>1. \A n \in 0..N : H[n] = IF n = 0 THEN start ELSE Handle(H[n - 1], log[from + n])
    BY <1>3
  <2> QED
    BY <2>1 DEF H

-----------------------------------------------------------------------------
(* The invariant *)

\* Orders and their events are one; what is being written is not there yet.
Together ==
  /\ eventRows = orderRows
  /\ \A o \in Orders : writer[o] # "idle" => o \notin orderRows

\* Each relay holds rows of its own, each once, unsent.
Fetched ==
  \A r \in Relays :
    /\ relay[r] = "idle" => batch[r] = << >>
    /\ Range(batch[r]) \subseteq eventRows \ sent
    /\ \A i, j \in DOMAIN batch[r] : batch[r][i] = batch[r][j] => i = j
    /\ \A q \in Relays : q # r => Range(batch[q]) \cap Range(batch[r]) = {}

\* A row that a relay has on the bus and not yet committed as sent.
OnItsWay(o) == \E r \in Relays : relay[r] \in {"published", "marked"} /\ o \in Range(batch[r])

\* The bus has one copy of an event for its current way to sent, and one for each failure.
Bounded ==
  \A o \in Orders :
    Cardinality(Positions(log, o)) <= failures + IF o \in sent \/ OnItsWay(o) THEN 1 ELSE 0

\* Only committed events are on the bus and processed, and what is processed ran once.
Consistent(acc) ==
  /\ acc.seen \subseteq orderRows
  /\ acc.done \in [Orders -> Nat]
  /\ \A o \in Orders : acc.done[o] = IF o \in acc.seen THEN 1 ELSE 0

Consumed == Range(log) \subseteq orderRows /\ Consistent([seen |-> processed, done |-> applied])

IInv == TypeOK /\ Together /\ Fetched /\ Bounded /\ Consumed

\* A relay that gives its rows back or commits them disturbs no other relay.
LEMMA Releases ==
  ASSUME TypeOK, Fetched, NEW r \in Relays,
         batch' = [batch EXCEPT ![r] = << >>], relay' = [relay EXCEPT ![r] = "idle"],
         UNCHANGED eventRows, sent' = sent \/ sent' = sent \cup Range(batch[r])
  PROVE  Fetched'
<1>1. Range(<< >>) = {} /\ DOMAIN << >> = {}
  BY DEF Range
<1>2. ASSUME NEW q \in Relays, q # r
      PROVE  batch'[q] = batch[q] /\ relay'[q] = relay[q] /\ Range(batch[q]) \cap Range(batch[r]) = {}
  BY <1>2 DEF TypeOK, Fetched
<1>3. batch'[r] = << >> /\ relay'[r] = "idle"
  BY DEF TypeOK
<1>4. ASSUME NEW q \in Relays
      PROVE  /\ relay'[q] = "idle" => batch'[q] = << >>
             /\ Range(batch'[q]) \subseteq eventRows' \ sent'
             /\ \A i, j \in DOMAIN batch'[q] : batch'[q][i] = batch'[q][j] => i = j
             /\ \A p \in Relays : p # q => Range(batch'[p]) \cap Range(batch'[q]) = {}
  <2>1. CASE q = r
    BY <1>1, <1>3, <2>1
  <2>2. CASE q # r
    <3>1. batch'[q] = batch[q] /\ relay'[q] = relay[q] /\ Range(batch[q]) \cap Range(batch[r]) = {}
      BY <1>2, <2>2
    <3>2. ASSUME NEW p \in Relays, p # q PROVE Range(batch'[p]) \cap Range(batch'[q]) = {}
      <4>1. CASE p = r
        BY <1>1, <1>3, <4>1
      <4>2. CASE p # r
        BY <1>2, <3>1, <3>2, <4>2 DEF Fetched
      <4> QED
        BY <4>1, <4>2
    <3> QED
      BY <3>1, <3>2 DEF Fetched
  <2> QED
    BY <2>1, <2>2
<1> QED
  BY <1>4 DEF Fetched

\* The writers touch neither relays nor bus nor consumer.
LEMMA WriterKeeps ==
  ASSUME IInv, NEW o \in Orders, Place(o) \/ FailOrder(o)
  PROVE  IInv'
<1> USE DEF IInv, TypeOK
<1>1. /\ UNCHANGED <<sent, relay, batch, log, consumer>>
      /\ failures' = failures \/ (failures < MaxFailures /\ failures' = failures + 1)
      /\ orderRows \subseteq orderRows' /\ eventRows' = orderRows' /\ orderRows' \subseteq Orders
  BY DEF Place, AddOrder, AddEvent, CommitOrder, FailOrder, database, Together
<1>2. failures' \in 0..MaxFailures /\ failures <= failures'
  BY <1>1, OutboxAssumption
<1>3. TypeOK'
  <2>1. CASE AddOrder(o)
    BY <2>1 DEF AddOrder, database, consumer
  <2>2. CASE AddEvent(o)
    BY <2>2 DEF AddEvent, database, consumer
  <2>3. CASE CommitOrder(o)
    BY <2>3 DEF CommitOrder, consumer
  <2>4. CASE FailOrder(o)
    BY <2>4, <1>2 DEF FailOrder, database, consumer
  <2> QED
    BY <2>1, <2>2, <2>3, <2>4 DEF Place
<1>4. Together'
  BY DEF Place, AddOrder, AddEvent, CommitOrder, FailOrder, Together, database
<1>5. Fetched'
  BY <1>1 DEF Fetched, Together
<1>6. Bounded'
  <2>1. \A p \in Orders : OnItsWay(p)' <=> OnItsWay(p)
    BY <1>1 DEF OnItsWay
  <2>2. \A p \in Orders : Positions(log, p)' = Positions(log, p) /\ Cardinality(Positions(log, p)) \in Nat
    BY <1>1, PositionsCounted DEF Positions
  <2> SUFFICES ASSUME NEW p \in Orders
               PROVE  Cardinality(Positions(log, p)') <= failures' + IF p \in sent' \/ OnItsWay(p)' THEN 1 ELSE 0
    BY DEF Bounded
  <2>3. Cardinality(Positions(log, p)) <= failures + IF p \in sent \/ OnItsWay(p) THEN 1 ELSE 0
    BY DEF Bounded
  <2> QED
    BY <1>1, <1>2, <2>1, <2>2, <2>3
<1>7. Consumed'
  BY <1>1 DEF Consumed, Consistent, consumer
<1> QED
  BY <1>3, <1>4, <1>5, <1>6, <1>7

\* A relay takes rows nobody else has.
LEMMA FetchKeeps == ASSUME IInv, NEW r \in Relays, Fetch(r) PROVE IInv'
<1>0. PICK n \in 1..Limit : \E rows \in [1..n -> Unsent] :
        FetchedRows(rows) /\ batch' = [batch EXCEPT ![r] = rows]
  BY DEF Fetch
<1>1. PICK rows \in [1..n -> Unsent] : FetchedRows(rows) /\ batch' = [batch EXCEPT ![r] = rows]
  BY <1>0
<1>2. /\ UNCHANGED <<database, seq, nextSeq, writer, log, consumer, failures>>
      /\ relay[r] = "idle" /\ relay' = [relay EXCEPT ![r] = "fetched"]
  BY DEF Fetch
<1>3. n \in Nat /\ DOMAIN rows = 1..n /\ rows \in Seq(Orders) /\ Range(rows) \subseteq Unsent \ LockedRows
  BY <1>1, OutboxAssumption DEF IInv, TypeOK, Unsent, FetchedRows
<1>4. \A i, j \in DOMAIN rows : rows[i] = rows[j] => i = j
  <2> SUFFICES ASSUME NEW i \in 1..n, NEW j \in 1..n, rows[i] = rows[j], i # j PROVE FALSE
    BY <1>3
  <2>1. seq[rows[i]] \in Nat /\ seq[rows[j]] \in Nat
    BY <1>3 DEF IInv, TypeOK
  <2>2. \A k, m \in 1..n : k < m => seq[rows[k]] < seq[rows[m]]
    BY <1>1, <1>3 DEF FetchedRows
  <2> QED
    BY <1>3, <2>1, <2>2
<1>5. batch'[r] = rows /\ \A q \in Relays : q # r => batch'[q] = batch[q] /\ relay'[q] = relay[q]
  BY <1>1, <1>2 DEF IInv, TypeOK
<1>6. TypeOK'
  <2>1. batch' \in [Relays -> Seq(Orders)] /\ relay' \in [Relays -> {"idle", "fetched", "published", "marked"}]
    BY <1>1, <1>2, <1>3 DEF IInv, TypeOK
  <2> QED
    BY <1>2, <2>1 DEF IInv, TypeOK, database, consumer
<1>7. Fetched'
  <2>1. \A q \in Relays : q # r => Range(batch[q]) \cap Range(rows) = {}
    BY <1>3 DEF LockedRows
  <2>2. relay'[r] = "fetched" /\ Range(rows) \subseteq eventRows' \ sent'
    BY <1>2, <1>3 DEF IInv, TypeOK, Unsent, database
  <2>3. ASSUME NEW q \in Relays
        PROVE  /\ relay'[q] = "idle" => batch'[q] = << >>
               /\ Range(batch'[q]) \subseteq eventRows' \ sent'
               /\ \A i, j \in DOMAIN batch'[q] : batch'[q][i] = batch'[q][j] => i = j
               /\ \A p \in Relays : p # q => Range(batch'[p]) \cap Range(batch'[q]) = {}
    <3>1. CASE q = r
      BY <1>4, <1>5, <2>1, <2>2, <3>1
    <3>2. CASE q # r
      <4>1. batch'[q] = batch[q] /\ relay'[q] = relay[q] /\ Range(batch[q]) \cap Range(rows) = {}
        BY <1>5, <2>1, <3>2
      <4>2. \A p \in Relays : p # q => Range(batch'[p]) \cap Range(batch'[q]) = {}
        BY <1>5, <2>1, <4>1 DEF IInv, Fetched
      <4> QED
        BY <1>2, <4>1, <4>2 DEF IInv, Fetched, database
    <3> QED
      BY <3>1, <3>2
  <2> QED
    BY <2>3 DEF Fetched
<1>8. Bounded'
  <2>1. \A o \in Orders : OnItsWay(o)' <=> OnItsWay(o)
    BY <1>2, <1>5 DEF OnItsWay, IInv, TypeOK
  <2> QED
    BY <1>2, <2>1 DEF IInv, Bounded, Positions, database
<1>9. Together' /\ Consumed'
  BY <1>2 DEF IInv, Together, Consumed, Consistent, database, consumer
<1> QED
  BY <1>6, <1>7, <1>8, <1>9 DEF IInv

\* What a relay publishes is not on its way yet, and has a copy more after.
LEMMA PublishKeeps == ASSUME IInv, NEW r \in Relays, Publish(r) PROVE IInv'
<1>1. /\ UNCHANGED <<database, seq, nextSeq, writer, batch, consumer, failures>>
      /\ relay[r] = "fetched" /\ relay' = [relay EXCEPT ![r] = "published"]
      /\ log' = log \o batch[r]
  BY DEF Publish
<1>2. batch[r] \in Seq(Orders) /\ log \in Seq(Orders)
  BY DEF IInv, TypeOK
<1>3. relay'[r] = "published" /\ \A q \in Relays : q # r => relay'[q] = relay[q]
  BY <1>1 DEF IInv, TypeOK
<1>4. log' \in Seq(Orders) /\ Len(log') = Len(log) + Len(batch[r]) /\ Len(log) \in Nat /\ Len(batch[r]) \in Nat
  BY <1>1, <1>2
<1>5. TypeOK'
  <2>1. relay' \in [Relays -> {"idle", "fetched", "published", "marked"}]
    BY <1>1 DEF IInv, TypeOK
  <2>2. offset' \in 0..Len(log')
    BY <1>1, <1>4 DEF IInv, TypeOK, consumer
  <2> QED
    BY <1>1, <1>4, <2>1, <2>2 DEF IInv, TypeOK, database, consumer
<1>6. Fetched'
  BY <1>1, <1>3 DEF IInv, Fetched, database
<1>7. Bounded'
  <2> SUFFICES ASSUME NEW o \in Orders
               PROVE  Cardinality(Positions(log', o)) <= failures + IF o \in sent \/ OnItsWay(o)' THEN 1 ELSE 0
    BY <1>1 DEF Bounded, Positions, database
  <2>1. Cardinality(Positions(log, o)) <= failures + IF o \in sent \/ OnItsWay(o) THEN 1 ELSE 0
    BY DEF IInv, Bounded
  <2>2. /\ Cardinality(Positions(log, o)) \in Nat /\ Cardinality(Positions(log', o)) \in Nat
        /\ o \notin Range(batch[r]) => Cardinality(Positions(log', o)) = Cardinality(Positions(log, o))
        /\ Cardinality(Positions(log', o)) <= Cardinality(Positions(log, o)) + 1
    <3>1. \A i, j \in DOMAIN batch[r] : batch[r][i] = batch[r][j] => i = j
      BY DEF IInv, Fetched
    <3> QED
      BY <1>1, <1>2, <3>1, Copies
  <2>3. failures \in Nat
    BY OutboxAssumption DEF IInv, TypeOK
  <2>4. CASE o \in Range(batch[r])
    <3>1. o \notin sent /\ ~OnItsWay(o)
      BY <1>1, <2>4 DEF IInv, Fetched, OnItsWay
    <3>2. OnItsWay(o)'
      BY <1>1, <1>3, <2>4 DEF OnItsWay
    <3> QED
      BY <2>1, <2>2, <2>3, <3>1, <3>2
  <2>5. CASE o \notin Range(batch[r])
    <3>1. OnItsWay(o)' <=> OnItsWay(o)
      BY <1>1, <1>3, <2>5 DEF OnItsWay
    <3> QED
      BY <2>1, <2>2, <2>3, <2>5, <3>1
  <2> QED
    BY <2>4, <2>5
<1>8. Range(log') \subseteq Range(log) \cup Range(batch[r])
  BY <1>1, <1>2 DEF Range
<1>9. Together' /\ Consumed'
  BY <1>1, <1>8 DEF IInv, Together, Consumed, Consistent, Fetched, database, consumer
<1> QED
  BY <1>5, <1>6, <1>7, <1>9 DEF IInv

LEMMA MarkKeeps == ASSUME IInv, NEW r \in Relays, MarkSent(r) PROVE IInv'
<1>1. /\ UNCHANGED <<database, seq, nextSeq, writer, batch, log, consumer, failures>>
      /\ relay[r] = "published" /\ relay' = [relay EXCEPT ![r] = "marked"]
  BY DEF MarkSent
<1>2. relay'[r] = "marked" /\ \A q \in Relays : q # r => relay'[q] = relay[q]
  BY <1>1 DEF IInv, TypeOK
<1>3. TypeOK'
  BY <1>1 DEF IInv, TypeOK, database, consumer
<1>4. Fetched'
  BY <1>1, <1>2 DEF IInv, Fetched, database
<1>5. Bounded'
  <2>1. \A o \in Orders : OnItsWay(o)' <=> OnItsWay(o)
    BY <1>1, <1>2 DEF OnItsWay
  <2> QED
    BY <1>1, <2>1 DEF IInv, Bounded, Positions, database
<1>6. Together' /\ Consumed'
  BY <1>1 DEF IInv, Together, Consumed, Consistent, database, consumer
<1> QED
  BY <1>3, <1>4, <1>5, <1>6 DEF IInv

\* What was on its way is sent.
LEMMA CommitKeeps == ASSUME IInv, NEW r \in Relays, CommitSent(r) PROVE IInv'
<1>1. /\ UNCHANGED <<orderRows, eventRows, seq, nextSeq, writer, log, consumer, failures>>
      /\ relay[r] = "marked" /\ relay' = [relay EXCEPT ![r] = "idle"]
      /\ batch' = [batch EXCEPT ![r] = << >>]
      /\ sent' = sent \cup Range(batch[r])
  BY DEF CommitSent, CommitPoint
<1>2. /\ relay'[r] = "idle" /\ batch'[r] = << >>
      /\ \A q \in Relays : q # r => relay'[q] = relay[q] /\ batch'[q] = batch[q]
  BY <1>1 DEF IInv, TypeOK
<1>3. TypeOK'
  <2>1. relay' \in [Relays -> {"idle", "fetched", "published", "marked"}] /\ batch' \in [Relays -> Seq(Orders)]
    BY <1>1 DEF IInv, TypeOK
  <2>2. sent' \subseteq eventRows'
    BY <1>1 DEF IInv, TypeOK, Fetched
  <2> QED
    BY <1>1, <2>1, <2>2 DEF IInv, TypeOK, consumer
<1>4. Fetched'
  BY <1>1, Releases DEF IInv
<1>5. Bounded'
  <2>1. \A o \in Orders : (o \in sent' \/ OnItsWay(o)') <=> (o \in sent \/ OnItsWay(o))
    BY <1>1, <1>2 DEF OnItsWay
  <2> QED
    BY <1>1, <2>1 DEF IInv, Bounded, Positions
<1>6. Together' /\ Consumed'
  BY <1>1 DEF IInv, Together, Consumed, Consistent, consumer
<1> QED
  BY <1>3, <1>4, <1>5, <1>6 DEF IInv

\* What was on its way may be published once more, and a failure is counted.
LEMMA FailKeeps == ASSUME IInv, NEW r \in Relays, FailRelay(r) PROVE IInv'
<1>1. /\ UNCHANGED <<database, seq, nextSeq, writer, log, consumer>>
      /\ relay' = [relay EXCEPT ![r] = "idle"] /\ batch' = [batch EXCEPT ![r] = << >>]
      /\ failures < MaxFailures /\ failures' = failures + 1
  BY DEF FailRelay
<1>2. failures \in Nat /\ failures' \in 0..MaxFailures
  BY <1>1, OutboxAssumption DEF IInv, TypeOK
<1>3. TypeOK'
  <2>1. relay' \in [Relays -> {"idle", "fetched", "published", "marked"}] /\ batch' \in [Relays -> Seq(Orders)]
    BY <1>1 DEF IInv, TypeOK
  <2> QED
    BY <1>1, <1>2, <2>1 DEF IInv, TypeOK, consumer, database
<1>4. Fetched'
  BY <1>1, Releases DEF IInv, database
<1>5. Bounded'
  <2> SUFFICES ASSUME NEW o \in Orders
               PROVE  Cardinality(Positions(log, o)) <= failures + 1 + IF o \in sent \/ OnItsWay(o)' THEN 1 ELSE 0
    BY <1>1 DEF Bounded, Positions, database
  <2>1. Cardinality(Positions(log, o)) <= failures + IF o \in sent \/ OnItsWay(o) THEN 1 ELSE 0
    BY DEF IInv, Bounded
  <2>2. Cardinality(Positions(log, o)) \in Nat
    BY PositionsCounted DEF IInv, TypeOK
  <2> QED
    BY <1>2, <2>1, <2>2
<1>6. Together' /\ Consumed'
  BY <1>1 DEF IInv, Together, Consumed, Consistent, database, consumer
<1> QED
  BY <1>3, <1>4, <1>5, <1>6 DEF IInv

-----------------------------------------------------------------------------
(* What the consumer keeps *)

\* A consumer that is consistent and has forgotten nothing.
Kept(acc) ==
  \E seen \in SUBSET orderRows, done \in [Orders -> Nat] :
    acc = [seen |-> seen, done |-> done] /\ Consistent(acc) /\ processed \subseteq seen

\* Each event the consumer handles leaves it so, and is seen from then on.
LEMMA HandleKeeps ==
  ASSUME NEW acc, Kept(acc), NEW o \in orderRows, orderRows \subseteq Orders
  PROVE  Kept(Handle(acc, o)) /\ acc.seen \cup {o} \subseteq Handle(acc, o).seen
<1>1. PICK seen \in SUBSET orderRows, done \in [Orders -> Nat] :
        acc = [seen |-> seen, done |-> done] /\ Consistent(acc) /\ processed \subseteq seen
  BY DEF Kept
<1>2. acc.seen = seen /\ acc.done = done
  BY <1>1
<1>3. CASE o \in seen
  BY <1>1, <1>2, <1>3 DEF Handle, Kept
<1>4. CASE o \notin seen
  <2> DEFINE more == seen \cup {o}
             after == [done EXCEPT ![o] = @ + 1]
  <2>1. Handle(acc, o) = [seen |-> more, done |-> after]
    BY <1>2, <1>4 DEF Handle
  <2>2. done[o] = 0 /\ after \in [Orders -> Nat] /\ more \in SUBSET orderRows
    BY <1>1, <1>2, <1>4 DEF Consistent
  <2>3. \A p \in Orders : after[p] = IF p \in more THEN 1 ELSE 0
    BY <1>1, <1>2, <2>2 DEF Consistent
  <2> HIDE DEF more, after
  <2>4. Consistent([seen |-> more, done |-> after])
    BY <2>2, <2>3 DEF Consistent
  <2>5. processed \subseteq more /\ acc.seen \cup {o} = more
    BY <1>1, <1>2 DEF more
  <2> QED
    <3>1. Kept([seen |-> more, done |-> after])
      BY <2>2, <2>4, <2>5 DEF Kept
    <3>2. [seen |-> more, done |-> after].seen = more
      OBVIOUS
    <3> QED
      BY <2>1, <2>5, <3>1, <3>2
<1> QED
  BY <1>3, <1>4

LEMMA HandledKeeps ==
  ASSUME IInv, NEW from \in 0..Len(log)
  PROVE  /\ Kept(Handled(from)[Len(log) - from])
         /\ \A i \in (from + 1)..Len(log) : log[i] \in Handled(from)[Len(log) - from].seen
<1> DEFINE N == Len(log) - from
           H == Handled(from)
           start == [seen |-> processed, done |-> applied]
           Good(n) == Kept(H[n]) /\ \A i \in (from + 1)..(from + n) : log[i] \in H[n].seen
           S == {n \in 0..N : ~Good(n)}
<1>1. Len(log) \in Nat /\ N \in Nat /\ from \in Nat
  BY DEF IInv, TypeOK
<1>2. \A n \in 0..N : H[n] = IF n = 0 THEN start ELSE Handle(H[n - 1], log[from + n])
  BY <1>1, HandledBySteps
<1>3. \A n \in 1..N : log[from + n] \in orderRows
  BY <1>1 DEF IInv, Consumed, Range, TypeOK
<1> HIDE DEF H, N
<1>4. Good(0)
  <2>1. Kept(start)
    BY DEF IInv, Consumed, Consistent, Kept, TypeOK
  <2> QED
    BY <1>1, <1>2, <2>1
<1>5. ASSUME NEW n \in 1..N, Good(n - 1) PROVE Good(n)
  <2>1. H[n] = Handle(H[n - 1], log[from + n])
    BY <1>1, <1>2
  <2> QED
    <3>1. /\ Kept(H[n])
          /\ H[n - 1].seen \cup {log[from + n]} \subseteq H[n].seen
      BY <1>3, <1>5, <2>1, HandleKeeps DEF IInv, TypeOK, Together
    <3>2. \A i \in (from + 1)..(from + n) : i \in (from + 1)..(from + (n - 1)) \/ i = from + n
      BY <1>1
    <3> QED
      BY <1>5, <3>1, <3>2
<1> HIDE DEF Good
<1>6. S = {}
  <2> SUFFICES ASSUME S # {} PROVE FALSE
    OBVIOUS
  <2>1. S \in SUBSET Nat
    BY <1>1
  <2>2. PICK n \in S : \A k \in S : ~(k < n)
    BY <2>1, LeastOf
  <2>3. n \in 1..N /\ n - 1 \in 0..N /\ n - 1 < n
    BY <1>1, <1>4, <2>2
  <2> QED
    BY <1>5, <2>2, <2>3
<1>7. Good(N) /\ from + N = Len(log)
  BY <1>1, <1>6 DEF N
<1> QED
  BY <1>7 DEF Good, H, N

LEMMA DeliverKeeps == ASSUME IInv, NEW from \in 0..Len(log), Deliver(from) PROVE IInv' /\ processed \subseteq processed'
<1> DEFINE result == Handled(from)[Len(log) - from]
<1>1. /\ processed' = result.seen /\ applied' = result.done /\ offset' = Len(log)
      /\ UNCHANGED <<database, seq, nextSeq, writer, relay, batch, log, failures>>
  BY DEF Deliver
<1>2. /\ Consistent([seen |-> result.seen, done |-> result.done])
      /\ result.seen \subseteq orderRows /\ result.done \in [Orders -> Nat] /\ processed \subseteq result.seen
  <2> HIDE DEF result
  <2>1. Kept(result)
    BY HandledKeeps DEF result
  <2> QED
    BY <2>1 DEF Kept
<1> HIDE DEF result
<1>3. TypeOK'
  <2>1. applied' \in [Orders -> Nat] /\ processed' \subseteq Orders
    BY <1>1, <1>2 DEF Consistent, IInv, TypeOK
  <2>2. offset' \in 0..Len(log)
    BY <1>1 DEF IInv, TypeOK
  <2> QED
    BY <1>1, <2>1, <2>2 DEF IInv, TypeOK, database
<1>4. Consumed'
  BY <1>1, <1>2 DEF IInv, Consumed, Consistent, database
<1>5. Bounded'
  <2>1. \A o \in Orders : OnItsWay(o)' <=> OnItsWay(o)
    BY <1>1 DEF OnItsWay
  <2> QED
    BY <1>1, <2>1 DEF IInv, Bounded, Positions, database
<1>6. Fetched' /\ Together'
  BY <1>1 DEF IInv, Fetched, Together, database
<1> QED
  BY <1>1, <1>2, <1>3, <1>4, <1>5, <1>6 DEF IInv

-----------------------------------------------------------------------------
(* Theorems *)

LEMMA Initially == Init => IInv
<1> SUFFICES ASSUME Init PROVE IInv
  OBVIOUS
<1>1. /\ Len(<< >>) = 0 /\ << >> \in Seq(Orders) /\ DOMAIN << >> = {}
      /\ Range(<< >>) = {}
      /\ \A o \in Orders : Positions(<< >>, o) = {}
  BY DEF Range, Positions
<1>2. TypeOK
  BY <1>1, OutboxAssumption DEF Init, TypeOK
<1>3. Together /\ Consumed
  BY <1>1 DEF Init, Together, Consumed, Consistent
<1>4. Fetched
  BY <1>1 DEF Init, Fetched
<1>5. Bounded
  <2>1. log = << >> /\ failures = 0
    BY DEF Init
  <2>2. \A o \in Orders : Cardinality(Positions(log, o)) = 0
    BY <1>1, <2>1, FS_EmptySet
  <2> QED
    BY <2>1, <2>2 DEF Bounded
<1> QED
  BY <1>2, <1>3, <1>4, <1>5 DEF IInv

LEMMA Step == ASSUME IInv, [Next]_vars PROVE IInv'
<1>1. CASE UNCHANGED vars
  <2>1. /\ TypeOK' /\ Together' /\ Fetched' /\ Consumed'
    BY <1>1 DEF vars, database, consumer, IInv, TypeOK, Together, Fetched, Consumed, Consistent
  <2>2. Bounded'
    BY <1>1 DEF vars, database, consumer, IInv, Bounded, OnItsWay, Positions
  <2> QED
    BY <2>1, <2>2 DEF IInv
<1>2. ASSUME NEW o \in Orders, Place(o) \/ FailOrder(o) PROVE IInv'
  BY <1>2, WriterKeeps
<1>3. ASSUME NEW r \in Relays, RunOnce(r) \/ FailRelay(r) PROVE IInv'
  BY <1>3, FetchKeeps, PublishKeeps, MarkKeeps, CommitKeeps, FailKeeps DEF RunOnce
<1>4. ASSUME NEW from \in 0..Len(log), Deliver(from) PROVE IInv'
  BY <1>4, DeliverKeeps
<1> QED
  BY <1>1, <1>2, <1>3, <1>4 DEF Next

\* The invariant holds, for any orders, relays, batch limit and number of failures.
THEOREM Invariance == Spec => []IInv
BY Initially, Step, PTL DEF Spec

\* Every variable keeps its type; in particular only committed events are ever sent.
THEOREM TypeCorrect == Spec => []TypeOK
<1>1. IInv => TypeOK
  BY DEF IInv
<1> QED
  BY <1>1, Invariance, PTL

\* Relays that poll at once never publish one row twice: an event is on the bus once more
\* than something failed, at most.
THEOREM DuplicatesBounded == Spec => []DuplicatesNeedFailures
<1>1. IInv => DuplicatesNeedFailures
  <2> SUFFICES ASSUME IInv, NEW o \in Orders
               PROVE  Cardinality(Positions(log, o)) <= 1 + failures
    BY DEF DuplicatesNeedFailures, Positions
  <2>1. Cardinality(Positions(log, o)) <= failures + IF o \in sent \/ OnItsWay(o) THEN 1 ELSE 0
    BY DEF IInv, Bounded
  <2>2. Cardinality(Positions(log, o)) \in Nat /\ failures \in Nat
    BY PositionsCounted, OutboxAssumption DEF IInv, TypeOK
  <2> QED
    BY <2>1, <2>2
<1> QED
  BY <1>1, Invariance, PTL

\* The effect of an order runs once the order is committed, and once only, through any
\* duplicates on the bus and redeliveries from any offset.
THEOREM Refinement == Spec => EffectsSpec
<1>1. Init => Effects!Init
  BY DEF Init, Effects!Init
<1>2. ASSUME IInv, [Next]_vars PROVE [Effects!Next]_(Effects!vars)
  <2> USE DEF Effects!vars
  <2>1. CASE UNCHANGED vars
    BY <2>1 DEF vars, database, consumer
  <2>2. ASSUME NEW o \in Orders, CommitOrder(o) PROVE Effects!Next
    <3>1. o \notin orderRows
      BY <1>2, <2>2 DEF CommitOrder, IInv, Together
    <3>2. orderRows' = orderRows \cup {o} /\ applied' = applied
      BY <2>2 DEF CommitOrder, consumer
    <3>3. Effects!Place(o)
      BY <3>1, <3>2 DEF Effects!Place
    <3> QED
      BY <3>3 DEF Effects!Next
  <2>3. ASSUME NEW o \in Orders, AddOrder(o) \/ AddEvent(o) \/ FailOrder(o) PROVE UNCHANGED Effects!vars
    BY <2>3 DEF AddOrder, AddEvent, FailOrder, database, consumer
  <2>4. ASSUME NEW r \in Relays, RunOnce(r) \/ FailRelay(r) PROVE UNCHANGED Effects!vars
    BY <2>4 DEF RunOnce, Fetch, Publish, MarkSent, CommitSent, FailRelay, database, consumer
  <2>5. ASSUME NEW from \in 0..Len(log), Deliver(from) PROVE Effects!Next
    <3> DEFINE S == processed' \ processed
    <3>1. IInv' /\ processed \subseteq processed' /\ orderRows' = orderRows
      BY <1>2, <2>5, DeliverKeeps DEF Deliver, database
    <3>2. /\ applied' \in [Orders -> Nat] /\ applied \in [Orders -> Nat] /\ processed' \subseteq orderRows
          /\ \A o \in Orders : applied[o] = IF o \in processed THEN 1 ELSE 0
          /\ \A o \in Orders : applied'[o] = IF o \in processed' THEN 1 ELSE 0
      BY <1>2, <3>1 DEF IInv, Consumed, Consistent, TypeOK
    <3>3. S \in SUBSET orderRows /\ S \subseteq Orders
      BY <1>2, <3>2 DEF IInv, TypeOK
    <3>4. \A o \in S : applied[o] = 0
      BY <3>2, <3>3
    <3>5. applied' = [o \in Orders |-> IF o \in S THEN 1 ELSE applied[o]]
      BY <3>1, <3>2
    <3> QED
      BY <3>1, <3>3, <3>4, <3>5 DEF Effects!Next, Effects!Apply
  <2> QED
    BY <1>2, <2>1, <2>2, <2>3, <2>4, <2>5 DEF Next, Place
<1> QED
  BY <1>1, <1>2, Invariance, PTL DEF Spec, EffectsSpec, Effects!Spec

\* What is sent is on the bus, and what lies before the offset has had its effect: no
\* event gets lost between the outbox and the consumer, wherever a relay dies.
SentArrives ==
  /\ sent \subseteq Range(log)
  /\ \A i \in 1..offset : applied[log[i]] = 1

Arriving ==
  /\ sent \subseteq Range(log)
  /\ \A r \in Relays : relay[r] \in {"published", "marked"} => Range(batch[r]) \subseteq Range(log)
  /\ \A i \in 1..offset : log[i] \in processed

LEMMA ArrivingStep == ASSUME IInv, Arriving, [Next]_vars PROVE Arriving'
<1> USE DEF Arriving
<1>1. CASE UNCHANGED vars
  BY <1>1 DEF vars, database, consumer
<1>2. ASSUME NEW o \in Orders, Place(o) \/ FailOrder(o) PROVE Arriving'
  BY <1>2 DEF Place, AddOrder, AddEvent, CommitOrder, FailOrder, database, consumer
<1>3. ASSUME NEW r \in Relays, Fetch(r) PROVE Arriving'
  <2>1. /\ UNCHANGED <<sent, log, consumer>> /\ relay'[r] = "fetched"
        /\ \A q \in Relays : q # r => relay'[q] = relay[q] /\ batch'[q] = batch[q]
    BY <1>3 DEF Fetch, database, IInv, TypeOK
  <2> QED
    BY <2>1 DEF consumer
<1>4. ASSUME NEW r \in Relays, Publish(r) PROVE Arriving'
  <2>1. /\ UNCHANGED <<sent, batch, consumer>> /\ log' = log \o batch[r]
        /\ \A q \in Relays : q # r => relay'[q] = relay[q]
    BY <1>4 DEF Publish, database, IInv, TypeOK
  <2>2. log \in Seq(Orders) /\ batch[r] \in Seq(Orders)
    BY DEF IInv, TypeOK
  <2>3. \A i \in 1..Len(log) : i \in DOMAIN log' /\ log'[i] = log[i]
    BY <2>1, <2>2
  <2>4. \A i \in 1..Len(batch[r]) : Len(log) + i \in DOMAIN log' /\ log'[Len(log) + i] = batch[r][i]
    BY <2>1, <2>2
  <2>5. Range(log) \subseteq Range(log') /\ Range(batch[r]) \subseteq Range(log')
    BY <2>2, <2>3, <2>4 DEF Range
  <2>6. \A i \in 1..offset : log'[i] \in processed
    <3>1. \A i \in 1..offset : i \in 1..Len(log)
      BY <2>2 DEF IInv, TypeOK
    <3> QED
      BY <2>3, <3>1
  <2> QED
    BY <2>1, <2>5, <2>6 DEF consumer
<1>5. ASSUME NEW r \in Relays, MarkSent(r) PROVE Arriving'
  BY <1>5 DEF MarkSent, database, consumer, IInv, TypeOK
<1>6. ASSUME NEW r \in Relays, CommitSent(r) \/ FailRelay(r) PROVE Arriving'
  <2>1. /\ UNCHANGED <<log, consumer>> /\ relay'[r] = "idle"
        /\ \A q \in Relays : q # r => relay'[q] = relay[q] /\ batch'[q] = batch[q]
        /\ sent' \subseteq sent \cup Range(log)
    BY <1>6 DEF CommitSent, CommitPoint, FailRelay, database, IInv, TypeOK
  <2> QED
    BY <2>1 DEF consumer
<1>7. ASSUME NEW from \in 0..Len(log), Deliver(from) PROVE Arriving'
  <2>1. /\ UNCHANGED <<sent, log, relay, batch>> /\ offset' = Len(log) /\ from <= offset
        /\ processed' = Handled(from)[Len(log) - from].seen
    BY <1>7 DEF Deliver, database
  <2>2. processed \subseteq processed'
    BY <1>7, DeliverKeeps
  <2>3. \A i \in 1..Len(log) : i \in 1..offset \/ i \in (from + 1)..Len(log)
    BY <2>1 DEF IInv, TypeOK
  <2>4. \A i \in (from + 1)..Len(log) : log[i] \in processed'
    BY <2>1, HandledKeeps
  <2> QED
    BY <2>1, <2>2, <2>3, <2>4
<1> QED
  BY <1>1, <1>2, <1>3, <1>4, <1>5, <1>6, <1>7 DEF Next, RunOnce

\* At-least-once and effectively-once, up to the consumer's offset.
THEOREM NothingLost == Spec => []SentArrives
<1>1. Init => Arriving
  BY DEF Init, Arriving
<1>2. IInv /\ Arriving => SentArrives
  <2> SUFFICES ASSUME IInv, Arriving, NEW i \in 1..offset PROVE applied[log[i]] = 1
    BY DEF Arriving, SentArrives
  <2>1. log[i] \in Orders /\ log[i] \in processed
    BY DEF IInv, TypeOK, Arriving
  <2> QED
    BY <2>1 DEF IInv, Consumed, Consistent
<1> QED
  BY <1>1, <1>2, ArrivingStep, Invariance, PTL DEF Spec
=============================================================================
