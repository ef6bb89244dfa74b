---------------------------- MODULE StudiesProofs ----------------------------
(***************************************************************************)
(* Proofs about the other studies, those that count, order and pace: the   *)
(* click aggregator, the crawler, the rate limiter and the simulator.  The *)
(* last section has what is proved of all the studies.                     *)
(***************************************************************************)
EXTENDS ContentProofs

-----------------------------------------------------------------------------
(* The click aggregator *)

LEMMA ClickNumbers ==
  /\ \A from \in SUBSET Impressions : \A w : Clicks!Clicks(w, from) \in Nat /\ Clicks!Clicks(w, from) <= Cardinality(Impressions)
  /\ \A from \in SUBSET Impressions : \A to \in SUBSET from : \A w : Clicks!Clicks(w, to) <= Clicks!Clicks(w, from)
  /\ \A from \in SUBSET Impressions : \A i \in Impressions \ from : \A w :
       Clicks!Clicks(w, from \cup {i}) = Clicks!Clicks(w, from) + (IF Clicks!WindowOf(i) = w THEN 1 ELSE 0)
  /\ \A w : Clicks!Clicks(w, {}) = 0
  /\ Cardinality(Impressions) \in Nat
<1> DEFINE In(w, from) == {i \in from : Clicks!WindowOf(i) = w}
<1>0. \A S \in SUBSET Impressions : IsFiniteSet(S) /\ Cardinality(S) \in Nat
  BY StudiesAssumption, SameFiniteSets, FS_Subset, FS_CardinalityType DEF Clicks!WellFormed
<1>1. ASSUME NEW from \in SUBSET Impressions, NEW w PROVE Clicks!Clicks(w, from) \in Nat /\ Clicks!Clicks(w, from) <= Cardinality(Impressions)
  <2>1. In(w, from) \subseteq Impressions
    OBVIOUS
  <2>2. Cardinality(In(w, from)) \in Nat /\ Cardinality(In(w, from)) <= Cardinality(Impressions)
    BY <1>0, <2>1, FS_Subset
  <2> QED
    BY <2>2, SameFiniteSets DEF Clicks!Clicks
<1>2. ASSUME NEW from \in SUBSET Impressions, NEW to \in SUBSET from, NEW w PROVE Clicks!Clicks(w, to) <= Clicks!Clicks(w, from)
  <2>1. In(w, to) \subseteq In(w, from) /\ IsFiniteSet(In(w, from))
    BY <1>0
  <2>2. Cardinality(In(w, to)) <= Cardinality(In(w, from))
    BY <2>1, FS_Subset
  <2> QED
    BY <2>2, SameFiniteSets DEF Clicks!Clicks
<1>3. ASSUME NEW from \in SUBSET Impressions, NEW i \in Impressions \ from, NEW w
      PROVE  Clicks!Clicks(w, from \cup {i}) = Clicks!Clicks(w, from) + (IF Clicks!WindowOf(i) = w THEN 1 ELSE 0)
  <2>1. IsFiniteSet(In(w, from)) /\ i \notin In(w, from) /\ Cardinality(In(w, from)) \in Nat
    BY <1>0
  <2>2. In(w, from \cup {i}) = IF Clicks!WindowOf(i) = w THEN In(w, from) \cup {i} ELSE In(w, from)
    OBVIOUS
  <2> DEFINE m == In(w, from)
             n == In(w, from \cup {i})
  <2>3. Cardinality(m \cup {i}) = Cardinality(m) + 1
    BY <2>1, FS_AddElement
  <2>4. Clicks!Clicks(w, from \cup {i}) = Cardinality(n) /\ Clicks!Clicks(w, from) = Cardinality(m)
    BY SameFiniteSets DEF Clicks!Clicks
  <2> HIDE DEF m, n
  <2>5. n = IF Clicks!WindowOf(i) = w THEN m \cup {i} ELSE m
    BY <2>2 DEF m, n
  <2>6. Cardinality(m) \in Nat
    BY <2>1 DEF m
  <2> QED
    BY <2>3, <2>4, <2>5, <2>6
<1>4. ASSUME NEW w PROVE Clicks!Clicks(w, {}) = 0
  <2>1. In(w, {}) = {}
    OBVIOUS
  <2>2. Cardinality(In(w, {})) = 0
    BY <2>1, FS_EmptySet
  <2> QED
    BY <2>2, SameFiniteSets DEF Clicks!Clicks
<1> QED
  BY <1>0, <1>1, <1>2, <1>3, <1>4

\* Who is about to count an impression has one that nobody else has; what a handler has
\* to emit it has only while it emits.
ClicksInHand ==
  /\ \A h \in Handlers : step[h] = "insert" => click[h] \in Impressions
  /\ \A h \in Handlers : step[h] = "add" => click[h] \in uncounted
  /\ \A g, h \in Handlers : step[g] = "add" /\ step[h] = "add" /\ click[g] = click[h] => g = h
  /\ \A h \in Handlers : step[h] # "emit" => out[h] = {}

Tallied ==
  \A w \in Clicks!Windows :
    /\ counts[w] = Clicks!Clicks(w, seenClicks \ uncounted)
    /\ emitted[w] <= counts[w]
    /\ rows[w] <= Clicks!Clicks(w, seenClicks)
    /\ \A h \in Handlers : \A e \in out[h] : e.window = w => e.count <= Clicks!Clicks(w, seenClicks)

\* A closed window was emitted as it stands; of a settled one at most one upsert is under
\* way, of what was emitted last, and if none is, the table has it.
Settled ==
  \A w \in Clicks!Windows :
    /\ Clicks!Closed(w, watermark) => emitted[w] = counts[w]
    /\ w \notin unsettled =>
         /\ \A h \in Handlers : \A e \in out[h] : e.window = w => e.count = emitted[w]
         /\ \A g, h \in Handlers : \A e \in out[h], f \in out[g] : e.window = w /\ f.window = w => g = h
         /\ Clicks!InFlight(w) \/ rows[w] = emitted[w]

ClicksInv == Clicks!TypeOK /\ ClicksInHand /\ Tallied /\ Settled

LEMMA ClicksInitInv == Clicks!Init => ClicksInv
<1> SUFFICES ASSUME Clicks!Init PROVE ClicksInv
  OBVIOUS
<1>1. Clicks!TypeOK
  BY StudiesAssumption DEF Clicks!Init, Clicks!Zero, Clicks!TypeOK, Clicks!WellFormed
<1>2. ClicksInHand
  BY DEF Clicks!Init, ClicksInHand
<1>3. Tallied
  BY ClickNumbers DEF Clicks!Init, Clicks!Zero, Tallied
<1>4. Settled
  BY DEF Clicks!Init, Clicks!Zero, Settled
<1> QED
  BY <1>1, <1>2, <1>3, <1>4 DEF ClicksInv

\* A handler that ends, or goes on without an upsert, takes nothing with it but upserts.
LEMMA IngestInv == ASSUME ClicksInv, NEW h \in Handlers, NEW i \in Impressions, Clicks!Ingest(h, i) PROVE ClicksInv'
<1> USE DEF ClicksInv
<1>1. Clicks!TypeOK'
  BY DEF Clicks!Ingest, Clicks!Goto, Clicks!aggregator, Clicks!TypeOK
<1>2. ClicksInHand'
  BY DEF Clicks!Ingest, Clicks!Goto, Clicks!TypeOK, ClicksInHand
<1>3. UNCHANGED <<seenClicks, rows, counts, emitted, watermark, out, uncounted, unsettled>>
  BY DEF Clicks!Ingest, Clicks!aggregator
<1>4. Tallied'
  BY <1>3 DEF Tallied
<1>5. Settled'
  BY <1>3 DEF Settled, Clicks!InFlight, Clicks!Closed
<1> QED
  BY <1>1, <1>2, <1>4, <1>5

LEMMA FirstTimeInv == ASSUME ClicksInv, NEW h \in Handlers, Clicks!FirstTime(h) PROVE ClicksInv'
<1> USE DEF ClicksInv
<1>0. click[h] \in Impressions /\ out[h] = {}
  BY DEF Clicks!FirstTime, ClicksInHand
<1>1. out' = out
  BY <1>0 DEF Clicks!FirstTime, Clicks!End, Clicks!TypeOK
<1>2. Clicks!TypeOK'
  BY <1>0, <1>1 DEF Clicks!FirstTime, Clicks!End, Clicks!Goto, Clicks!aggregator, Clicks!TypeOK
<1>3. ClicksInHand'
  BY <1>0, <1>1 DEF Clicks!FirstTime, Clicks!End, Clicks!Goto, Clicks!TypeOK, ClicksInHand
<1>4. seenClicks \subseteq seenClicks' /\ seenClicks' \subseteq Impressions /\ seenClicks' \ uncounted' = seenClicks \ uncounted
  BY <1>0 DEF Clicks!FirstTime, Clicks!TypeOK
<1>5. \A w \in Clicks!Windows : Clicks!Clicks(w, seenClicks) <= Clicks!Clicks(w, seenClicks') /\ Clicks!Clicks(w, seenClicks) \in Nat /\ Clicks!Clicks(w, seenClicks') \in Nat
  BY <1>4, ClickNumbers DEF Clicks!TypeOK
<1>6. UNCHANGED <<rows, Clicks!aggregator, unsettled>>
  BY DEF Clicks!FirstTime
<1>7. Tallied'
  <2> SUFFICES ASSUME NEW w \in Clicks!Windows
               PROVE  /\ counts'[w] = Clicks!Clicks(w, seenClicks' \ uncounted') /\ emitted'[w] <= counts'[w]
                      /\ rows'[w] <= Clicks!Clicks(w, seenClicks')
                      /\ \A g \in Handlers : \A e \in out'[g] : e.window = w => e.count <= Clicks!Clicks(w, seenClicks')
    BY DEF Tallied
  <2>1. \A n \in Nat : n <= Clicks!Clicks(w, seenClicks) => n <= Clicks!Clicks(w, seenClicks')
    BY <1>5
  <2>2. \A g \in Handlers : \A e \in out[g] : e.count \in Nat
    BY ClickNumbers DEF Clicks!TypeOK, Clicks!Emissions
  <2>3. rows[w] \in Nat
    BY DEF Clicks!TypeOK
  <2> QED
    BY <1>1, <1>4, <1>6, <2>1, <2>2, <2>3 DEF Tallied, Clicks!aggregator
<1>8. Settled'
  BY <1>1, <1>6 DEF Clicks!aggregator, Settled, Clicks!InFlight
<1> QED
  BY <1>2, <1>3, <1>7, <1>8

LEMMA EmitInv == ASSUME ClicksInv, NEW h \in Handlers, NEW e \in Clicks!Emissions, Clicks!Emit(h, e) PROVE ClicksInv'
<1> USE DEF ClicksInv
<1>1. /\ out' = [out EXCEPT ![h] = out[h] \ {e}] /\ e \in out[h] /\ step[h] = "emit"
      /\ rows' = [rows EXCEPT ![e.window] = e.count] /\ UNCHANGED <<seenClicks, Clicks!aggregator, uncounted, unsettled>>
      /\ e.window \in Clicks!Windows /\ e.count \in Nat
  <2>1. e.window \in Clicks!Windows /\ e.count \in Nat
    BY ClickNumbers, SameFiniteSets DEF Clicks!Emissions
  <2>2. CASE out[h] = {e}
    BY <2>1, <2>2 DEF Clicks!Emit, Clicks!End
  <2> QED
    BY <2>1, <2>2 DEF Clicks!Emit
<1>2. Clicks!TypeOK'
  <2>1. out' \in [Handlers -> SUBSET Clicks!Emissions] /\ rows' \in [Clicks!Windows -> Nat]
    BY <1>1 DEF Clicks!TypeOK
  <2>2. /\ step' \in [Handlers -> {"idle", "insert", "add", "emit"}]
        /\ click' \in [Handlers -> Impressions \cup {NoImpression}]
    BY DEF Clicks!Emit, Clicks!End, Clicks!Goto, Clicks!TypeOK
  <2> QED
    BY <1>1, <2>1, <2>2 DEF Clicks!Emit, Clicks!TypeOK, Clicks!aggregator
<1>3. ClicksInHand'
  <2>1. \A g \in Handlers : g # h => step'[g] = step[g] /\ click'[g] = click[g] /\ out'[g] = out[g]
    BY <1>1 DEF Clicks!Emit, Clicks!End, Clicks!Goto, Clicks!TypeOK
  <2>2. step'[h] \in {"idle", "emit"} /\ (step'[h] = "idle" => out'[h] = {})
    BY <1>1 DEF Clicks!Emit, Clicks!End, Clicks!Goto, Clicks!TypeOK
  <2> QED
    BY <1>1, <2>1, <2>2 DEF ClicksInHand, Clicks!aggregator
<1>4. \A g \in Handlers : out'[g] = out[g] \ (IF g = h THEN {e} ELSE {})
  BY <1>1 DEF Clicks!TypeOK
<1>5. Tallied'
  BY <1>1, <1>4 DEF Tallied, Clicks!aggregator, Clicks!TypeOK
<1>6. Settled'
  <2> SUFFICES ASSUME NEW w \in Clicks!Windows
               PROVE  /\ Clicks!Closed(w, watermark) => emitted[w] = counts[w]
                      /\ w \notin unsettled =>
                         /\ \A f \in Handlers : \A d \in out'[f] : d.window = w => d.count = emitted[w]
                         /\ \A f, g \in Handlers : \A d \in out'[g], c \in out'[f] : d.window = w /\ c.window = w => f = g
                         /\ Clicks!InFlight(w)' \/ rows'[w] = emitted[w]
    BY <1>1 DEF Settled, Clicks!aggregator
  <2>1. ASSUME w \notin unsettled PROVE Clicks!InFlight(w)' \/ rows'[w] = emitted[w]
    <3>1. CASE e.window = w
      BY <1>1, <2>1, <3>1 DEF Settled, Clicks!TypeOK
    <3>2. CASE e.window # w
      <4>1. rows'[w] = rows[w]
        BY <1>1, <3>2 DEF Clicks!TypeOK
      <4>2. Clicks!InFlight(w) => Clicks!InFlight(w)'
        BY <1>4, <3>2 DEF Clicks!InFlight
      <4> QED
        BY <2>1, <4>1, <4>2 DEF Settled
    <3> QED
      BY <3>1, <3>2
  <2> QED
    BY <1>4, <2>1 DEF Settled
<1> QED
  BY <1>2, <1>3, <1>5, <1>6

LEMMA RaiseInv == ASSUME ClicksInv, NEW h \in Handlers, Clicks!Raise(h) PROVE ClicksInv'
<1> USE DEF ClicksInv
<1>1. /\ UNCHANGED <<seenClicks, rows, Clicks!aggregator, uncounted>>
      /\ unsettled' = unsettled \cup {e.window : e \in out[h]}
      /\ out' = [out EXCEPT ![h] = {}]
      /\ raised' \in 0..MaxFailures
  BY StudiesAssumption DEF Clicks!Raise, Clicks!End, Clicks!TypeOK, Clicks!WellFormed
<1>2. Clicks!TypeOK'
  <2>1. unsettled' \subseteq Clicks!Windows
    BY <1>1 DEF Clicks!TypeOK, Clicks!Emissions
  <2> QED
    BY <1>1, <2>1 DEF Clicks!Raise, Clicks!End, Clicks!Goto, Clicks!TypeOK, Clicks!aggregator
<1>3. ClicksInHand'
  BY <1>1 DEF Clicks!Raise, Clicks!End, Clicks!Goto, Clicks!TypeOK, ClicksInHand
<1>4. \A g \in Handlers : out'[g] = IF g = h THEN {} ELSE out[g]
  BY <1>1 DEF Clicks!TypeOK
<1>5. Tallied'
  <2>1. UNCHANGED <<seenClicks, rows, counts, emitted, uncounted>> /\ \A g \in Handlers : out'[g] \subseteq out[g]
    BY <1>1, <1>4 DEF Clicks!aggregator
  <2> QED
    BY <2>1 DEF Tallied
<1>6. Settled'
  <2>1. \A w \in Clicks!Windows : w \notin unsettled' => w \notin unsettled /\ (Clicks!InFlight(w) => Clicks!InFlight(w)')
    BY <1>1, <1>4 DEF Clicks!InFlight
  <2> QED
    BY <1>1, <1>4, <2>1 DEF Settled, Clicks!aggregator
<1> QED
  BY <1>2, <1>3, <1>5, <1>6

LEMMA RestartInv == ASSUME ClicksInv, Clicks!Restart PROVE ClicksInv'
<1> USE DEF ClicksInv
<1>1. Clicks!TypeOK'
  BY StudiesAssumption DEF Clicks!Restart, Clicks!Zero, Clicks!TypeOK, Clicks!WellFormed
<1>2. ClicksInHand'
  BY DEF Clicks!Restart, ClicksInHand
<1>3. Tallied'
  <2>1. seenClicks' \ uncounted' = {} /\ seenClicks' = seenClicks /\ rows' = rows /\ \A h \in Handlers : out'[h] = {}
    BY DEF Clicks!Restart
  <2>2. \A w \in Clicks!Windows : counts'[w] = 0 /\ emitted'[w] = 0 /\ Clicks!Clicks(w, {}) = 0
    BY ClickNumbers DEF Clicks!Restart, Clicks!Zero
  <2> QED
    BY <2>1, <2>2 DEF Tallied
<1>4. Settled'
  BY DEF Clicks!Restart, Clicks!Zero, Settled
<1> QED
  BY <1>1, <1>2, <1>3, <1>4

LEMMA AddAndFlushInv == ASSUME ClicksInv, NEW h \in Handlers, Clicks!AddAndFlush(h) PROVE ClicksInv'
<1> USE DEF ClicksInv
<1>0. PICK i, w, tally, mark, new :
        /\ i = click[h] /\ w = Clicks!WindowOf(i) /\ tally = [counts EXCEPT ![w] = counts[w] + 1]
        /\ mark = Clicks!Max({watermark, EventTime[i] - Lateness})
        /\ new = {x \in Clicks!Windows : tally[x] > 0 /\ Clicks!Closed(x, mark) /\ emitted[x] # tally[x]}
  OBVIOUS
<1>1. /\ step[h] = "add" /\ counts' = [counts EXCEPT ![w] = counts[w] + 1] /\ watermark' = mark
      /\ new = {x \in Clicks!Windows : counts'[x] > 0 /\ Clicks!Closed(x, mark) /\ emitted[x] # counts'[x]}
      /\ emitted' = [x \in Clicks!Windows |-> IF x \in new THEN counts'[x] ELSE emitted[x]]
      /\ uncounted' = uncounted \ {i}
      /\ unsettled' = (unsettled \ new) \cup {x \in new : Clicks!InFlight(x)}
      /\ UNCHANGED <<seenClicks, rows, raised>>
  <2>1. step[h] = "add" /\ counts' = tally /\ watermark' = mark /\ uncounted' = uncounted \ {i}
        /\ UNCHANGED <<seenClicks, rows, raised>>
    BY <1>0 DEF Clicks!AddAndFlush
  <2>2. emitted' = [x \in Clicks!Windows |-> IF x \in new THEN tally[x] ELSE emitted[x]]
    BY <1>0 DEF Clicks!AddAndFlush, Clicks!IsNew
  <2>3. unsettled' = (unsettled \ new) \cup {x \in new : Clicks!InFlight(x)}
    BY <1>0 DEF Clicks!AddAndFlush, Clicks!IsNew
  <2> QED
    BY <1>0, <2>1, <2>2, <2>3
<1>2. IF new = {} THEN Clicks!End(h) ELSE /\ out' = [out EXCEPT ![h] = {[window |-> x, count |-> counts'[x]] : x \in new}]
                                   /\ Clicks!Goto(h, "emit") /\ UNCHANGED click
  <2>1. IF new = {} THEN Clicks!End(h) ELSE /\ out' = [out EXCEPT ![h] = {[window |-> x, count |-> tally[x]] : x \in new}]
                                     /\ Clicks!Goto(h, "emit") /\ UNCHANGED click
    BY <1>0, SMTT(30) DEF Clicks!AddAndFlush, Clicks!IsNew
  <2>2. counts' = tally
    BY <1>0, <1>1
  <2> QED
    BY <2>1, <2>2
<1>3. i \in Impressions /\ i \in uncounted /\ i \in seenClicks /\ w \in Clicks!Windows /\ out[h] = {}
  BY <1>0, <1>1 DEF ClicksInHand, Clicks!TypeOK, Clicks!Windows
<1>4. mark \in Nat /\ mark >= watermark
  <2>1. watermark \in Nat /\ EventTime[i] - Lateness \in Int
    BY <1>3, StudiesAssumption DEF Clicks!TypeOK, Clicks!WellFormed
  <2>2. PICK a, b : a = watermark /\ b = EventTime[i] - Lateness
    OBVIOUS
  <2>3. \E x \in {a, b} : \A y \in {a, b} : x >= y
    BY <2>1, <2>2
  <2>4. mark = CHOOSE x \in {a, b} : \A y \in {a, b} : x >= y
    BY <1>0, <2>2 DEF Clicks!Max
  <2>5. mark \in {a, b} /\ \A y \in {a, b} : mark >= y
    BY <2>3, <2>4
  <2>6. mark >= a /\ (mark = a \/ mark = b)
    BY <2>5
  <2> QED
    BY <2>1, <2>2, <2>6
<1>5. counts' \in [Clicks!Windows -> Nat] /\ \A x \in Clicks!Windows : counts'[x] = counts[x] + (IF x = w THEN 1 ELSE 0)
  BY <1>1, <1>3 DEF Clicks!TypeOK
\* Every count is that of impressions.
<1>6. \A x \in Clicks!Windows : counts'[x] = Clicks!Clicks(x, seenClicks' \ uncounted')
  <2>1. seenClicks' \ uncounted' = (seenClicks \ uncounted) \cup {i} /\ seenClicks \ uncounted \subseteq Impressions /\ i \notin seenClicks \ uncounted
    BY <1>1, <1>3 DEF Clicks!TypeOK
  <2>2. \A x : Clicks!Clicks(x, (seenClicks \ uncounted) \cup {i}) = Clicks!Clicks(x, seenClicks \ uncounted) + (IF Clicks!WindowOf(i) = x THEN 1 ELSE 0)
    BY <1>3, <2>1, ClickNumbers
  <2> QED
    BY <1>0, <1>5, <2>1, <2>2 DEF Tallied
<1>7. \A x \in Clicks!Windows : counts'[x] <= Clicks!Clicks(x, seenClicks) /\ counts'[x] <= Cardinality(Impressions)
                         /\ Clicks!Clicks(x, seenClicks) \in Nat
  <2>1. seenClicks \subseteq Impressions /\ seenClicks' \ uncounted' \subseteq seenClicks
    BY <1>1 DEF Clicks!TypeOK
  <2>2. \A x \in Clicks!Windows : /\ Clicks!Clicks(x, seenClicks' \ uncounted') <= Clicks!Clicks(x, seenClicks) /\ Clicks!Clicks(x, seenClicks) \in Nat
                           /\ Clicks!Clicks(x, seenClicks) <= Cardinality(Impressions)
    BY <2>1, ClickNumbers
  <2> QED
    BY <1>5, <1>6, <2>2, ClickNumbers
<1> DEFINE fresh == {[window |-> x, count |-> counts'[x]] : x \in new}
<1>8. /\ \A g \in Handlers : g # h => out'[g] = out[g] /\ step'[g] = step[g] /\ click'[g] = click[g]
      /\ out'[h] = fresh /\ step'[h] = IF new = {} THEN "idle" ELSE "emit"
      /\ step' \in [Handlers -> {"idle", "insert", "add", "emit"}]
      /\ click' \in [Handlers -> Impressions \cup {NoImpression}]
  BY <1>2 DEF Clicks!End, Clicks!Goto, Clicks!TypeOK
<1>9. /\ fresh \subseteq Clicks!Emissions
      /\ \A e \in fresh : e.window \in new /\ e.count = counts'[e.window]
      /\ \A e, d \in fresh : e.window = d.window => e = d
  BY <1>1, <1>5, <1>7, ClickNumbers, SameFiniteSets DEF Clicks!Emissions
<1>10. \A x \in new : [window |-> x, count |-> counts'[x]] \in fresh
  OBVIOUS
<1> HIDE DEF fresh
<1>11. out' \in [Handlers -> SUBSET Clicks!Emissions]
  <2>1. DOMAIN out' = Handlers /\ out' = [g \in Handlers |-> out'[g]]
    BY <1>2 DEF Clicks!End, Clicks!TypeOK
  <2> QED
    BY <1>8, <1>9, <2>1 DEF Clicks!TypeOK
<1>12. Clicks!TypeOK'
  <2>1. emitted' \in [Clicks!Windows -> Nat] /\ unsettled' \subseteq Clicks!Windows /\ uncounted' \subseteq seenClicks'
    BY <1>1, <1>5 DEF Clicks!TypeOK
  <2> QED
    BY <1>1, <1>4, <1>5, <1>8, <1>11, <2>1 DEF Clicks!TypeOK
<1>13. ClicksInHand'
  <2>1. \A g \in Handlers : g # h /\ step[g] = "add" => click[g] # i
    BY <1>0, <1>1 DEF ClicksInHand
  <2>2. step'[h] # "emit" => out'[h] = {}
    BY <1>8, <1>9
  <2>3. \A g \in Handlers : step'[g] \in {"insert", "add"} => g # h
    BY <1>8
  <2> QED
    BY <1>1, <1>8, <2>1, <2>2, <2>3 DEF ClicksInHand
<1>14. \A x \in Clicks!Windows : emitted'[x] = IF x \in new THEN counts'[x] ELSE emitted[x]
  BY <1>1
<1>15. Tallied'
  <2> SUFFICES ASSUME NEW x \in Clicks!Windows
               PROVE  /\ counts'[x] = Clicks!Clicks(x, seenClicks' \ uncounted') /\ emitted'[x] <= counts'[x]
                      /\ rows'[x] <= Clicks!Clicks(x, seenClicks')
                      /\ \A g \in Handlers : \A e \in out'[g] : e.window = x => e.count <= Clicks!Clicks(x, seenClicks')
    BY DEF Tallied
  <2>1. emitted'[x] <= counts'[x]
    BY <1>5, <1>14 DEF Tallied, Clicks!TypeOK
  <2>2. rows'[x] <= Clicks!Clicks(x, seenClicks')
    BY <1>1 DEF Tallied
  <2>3. ASSUME NEW g \in Handlers, NEW e \in out'[g], e.window = x PROVE e.count <= Clicks!Clicks(x, seenClicks')
    <3>1. CASE g = h
      BY <1>1, <1>7, <1>8, <1>9, <2>3, <3>1
    <3>2. CASE g # h
      BY <1>1, <1>8, <2>3, <3>2 DEF Tallied
    <3> QED
      BY <3>1, <3>2
  <2> QED
    BY <1>6, <2>1, <2>2, <2>3
<1>16. Settled'
  <2> SUFFICES ASSUME NEW x \in Clicks!Windows
               PROVE  /\ Clicks!Closed(x, mark) => emitted'[x] = counts'[x]
                      /\ x \notin unsettled' =>
                         /\ \A f \in Handlers : \A d \in out'[f] : d.window = x => d.count = emitted'[x]
                         /\ \A f, g \in Handlers : \A d \in out'[g], c \in out'[f] : d.window = x /\ c.window = x => f = g
                         /\ Clicks!InFlight(x)' \/ rows'[x] = emitted'[x]
    BY <1>1 DEF Settled
  <2>1. Clicks!Closed(x, mark) => emitted'[x] = counts'[x]
    BY <1>1, <1>5, <1>14 DEF Tallied, Clicks!TypeOK
  <2>2. CASE x \in new
    <3>1. x \notin unsettled' => ~Clicks!InFlight(x)
      BY <1>1, <2>2
    <3>2. \A f \in Handlers : f # h /\ ~Clicks!InFlight(x) => \A d \in out'[f] : d.window # x
      BY <1>8 DEF Clicks!InFlight
    <3>3. Clicks!InFlight(x)'
      BY <1>8, <1>10, <2>2 DEF Clicks!InFlight
    <3>4. \A d \in out'[h] : d.window = x => d.count = emitted'[x]
      BY <1>8, <1>9, <1>14
    <3> QED
      BY <2>1, <3>1, <3>2, <3>3, <3>4
  <2>3. CASE x \notin new
    <3>1. emitted'[x] = emitted[x] /\ rows'[x] = rows[x] /\ (x \notin unsettled' => x \notin unsettled)
      BY <1>1, <1>14, <2>3
    <3>2. \A d \in out'[h] : d.window # x
      BY <1>8, <1>9, <2>3
    <3>3. Clicks!InFlight(x) => Clicks!InFlight(x)'
      BY <1>3, <1>8 DEF Clicks!InFlight
    <3> QED
      BY <1>8, <2>1, <3>1, <3>2, <3>3 DEF Settled
  <2> QED
    BY <2>2, <2>3
<1> QED
  BY <1>12, <1>13, <1>15, <1>16

LEMMA ClicksStepInv == ClicksInv /\ [Clicks!Next]_(Clicks!vars) => ClicksInv'
<1> SUFFICES ASSUME ClicksInv, [Clicks!Next]_(Clicks!vars) PROVE ClicksInv'
  OBVIOUS
<1>1. CASE UNCHANGED Clicks!vars
  <2>1. Clicks!TypeOK'
    BY <1>1 DEF Clicks!vars, Clicks!aggregator, Clicks!handler, ClicksInv, Clicks!TypeOK
  <2>2. ClicksInHand' /\ Tallied'
    BY <1>1 DEF Clicks!vars, Clicks!aggregator, Clicks!handler, ClicksInv, ClicksInHand, Tallied
  <2>3. Settled'
    BY <1>1 DEF Clicks!vars, Clicks!aggregator, Clicks!handler, ClicksInv, Settled, Clicks!InFlight, Clicks!Closed
  <2> QED
    BY <2>1, <2>2, <2>3 DEF ClicksInv
<1> QED
  BY <1>1, IngestInv, FirstTimeInv, AddAndFlushInv, EmitInv, RaiseInv, RestartInv DEF Clicks!Next

\* Impressions, counts, rows and what handlers hold agree after every step.
THEOREM ClicksInvariance == Clicks!Spec => []ClicksInv
BY ClicksInitInv, ClicksStepInv, PTL DEF Clicks!Spec

\* A settled window stores the clicks counted in it once (WindowAggregator, IdempotentSink).
THEOREM ClicksCountedOnce == Clicks!Spec => []Clicks!ExactOnceSettled
<1>1. ClicksInv => Clicks!ExactOnceSettled
  BY DEF ClicksInv, Tallied, Settled, Clicks!ExactOnceSettled
<1> QED
  BY <1>1, ClicksInvariance, PTL

-----------------------------------------------------------------------------
(* The crawler *)

\* Every host has its own turn.
LEMMA Turns ==
  /\ IsFiniteSet(Crawl!HostSet)
  /\ \A h \in Crawl!HostSet : Crawl!Place(h) \in Nat /\ Hosts[Crawl!Place(h)] = h
  /\ \A h \in Crawl!HostSet : Crawl!Turn(h) \in Nat
  /\ \A g, h \in Crawl!HostSet : Crawl!Turn(g) = Crawl!Turn(h) => g = h
<1>1. Hosts \in Seq(Crawl!HostSet) /\ Len(Hosts) \in Nat /\ DOMAIN Hosts = 1..Len(Hosts)
  BY StudiesAssumption, SameFiniteSets DEF Crawl!WellFormed, Crawl!HostSet
<1>2. IsFiniteSet(Crawl!HostSet)
  <2>1. Hosts \in Surjection(1..Len(Hosts), Crawl!HostSet)
    BY <1>1 DEF Crawl!HostSet, Crawl!Range, Surjection
  <2>2. IsFiniteSet(1..Len(Hosts))
    BY <1>1, FS_Interval
  <2> QED
    BY <2>1, <2>2, FS_Surjection
<1>3. \A h \in Crawl!HostSet : Crawl!Place(h) \in 1..Len(Hosts) /\ Hosts[Crawl!Place(h)] = h
  BY <1>1 DEF Crawl!HostSet, Crawl!Range, Crawl!Place
<1>4. \A h \in Crawl!HostSet : Crawl!Place(h) \in Nat /\ Crawl!Place(h) >= 1 /\ Crawl!Place(h) <= Len(Hosts)
  BY <1>1, <1>3
<1>5. ASSUME NEW h \in Crawl!HostSet
      PROVE  Crawl!Turn(h) = Crawl!Place(h) \/ Crawl!Turn(h) = Crawl!Place(h) + Len(Hosts)
  BY <1>1, <1>4 DEF Crawl!Turn
<1>6. ASSUME NEW g \in Crawl!HostSet, NEW h \in Crawl!HostSet, Crawl!Turn(g) = Crawl!Turn(h) PROVE g = h
  <2>1. Crawl!Place(g) = Crawl!Place(h)
    BY <1>1, <1>4, <1>5, <1>6, SMTT(30)
  <2> QED
    BY <1>3, <2>1
<1> QED
  BY <1>1, <1>2, <1>3, <1>4, <1>5, <1>6
\* There are hosts before each in the rotation, and the first, the second and so on is one
\* that has as many before it.
Before(h) == {g \in hosts : Crawl!Turn(g) < Crawl!Turn(h)}

LEMMA RotationHosts ==
  ASSUME hosts \subseteq Crawl!HostSet, NEW i \in 1..Cardinality(hosts)
  PROVE  \E h \in hosts : Cardinality(Before(h)) = i - 1
<1>1. IsFiniteSet(hosts) /\ Cardinality(hosts) \in Nat
  BY Turns, FS_Subset, FS_CardinalityType
<1>2. \A h : IsFiniteSet(Before(h)) /\ Cardinality(Before(h)) \in Nat
  <2>1. \A h : Before(h) \subseteq hosts
    BY DEF Before
  <2> QED
    BY <1>1, <2>1, FS_Subset, FS_CardinalityType
<1>3. i \in Nat /\ i - 1 \in Nat
  BY <1>1
<1>4. PICK early : early = {h \in hosts : Cardinality(Before(h)) < i - 1}
  OBVIOUS
<1>5. early \subseteq hosts /\ IsFiniteSet(early) /\ Cardinality(early) \in Nat
  BY <1>1, <1>4, FS_Subset, FS_CardinalityType
<1>6. \A h \in hosts : h \in Crawl!HostSet /\ Crawl!Turn(h) \in Nat
  BY Turns
<1>7. Cardinality(early) <= i - 1
  <2>1. CASE early = {}
    BY <1>3, <2>1, FS_EmptySet
  <2>2. CASE early # {}
    <3> DEFINE late == {Crawl!Turn(h) : h \in early}
    <3>1. \E top \in early : \A g \in early : Crawl!Turn(g) <= Crawl!Turn(top)
      <4>1. PICK bound \in Nat : \A g \in early : Crawl!Turn(g) <= bound
        <5>1. \A g \in Crawl!HostSet : Crawl!Turn(g) <= Len(Hosts) + Len(Hosts)
          <6>1. Len(Hosts) \in Nat /\ \A h \in Crawl!HostSet : Crawl!Place(h) \in 1..Len(Hosts)
            BY StudiesAssumption, SameFiniteSets DEF Crawl!WellFormed, Crawl!HostSet, Crawl!Range, Crawl!Place
          <6> QED
            BY <6>1 DEF Crawl!Turn
        <5>2. Len(Hosts) + Len(Hosts) \in Nat
          BY StudiesAssumption, SameFiniteSets DEF Crawl!WellFormed
        <5> QED
          BY <1>5, <1>6, <5>1, <5>2
      <4>2. PICK T : T = {bound - Crawl!Turn(g) : g \in early}
        OBVIOUS
      <4>3. T \in SUBSET Nat /\ T # {}
        <5>1. \A g \in early : bound - Crawl!Turn(g) \in Nat
          BY <1>5, <1>6, <4>1
        <5> QED
          BY <2>2, <4>2, <5>1
      <4>4. PICK t \in T : \A u \in T : t <= u
        BY <4>3, LeastNumber
      <4>5. PICK top \in early : t = bound - Crawl!Turn(top)
        BY <4>2, <4>4
      <4>6. \A g \in early : bound - Crawl!Turn(top) <= bound - Crawl!Turn(g)
        BY <4>2, <4>4, <4>5
      <4> QED
        BY <1>5, <1>6, <4>1, <4>6
    <3>2. PICK top \in early : \A g \in early : Crawl!Turn(g) <= Crawl!Turn(top)
      BY <3>1
    <3>3. early \subseteq Before(top) \cup {top}
      <4>1. ASSUME NEW g \in early, g # top PROVE Crawl!Turn(g) < Crawl!Turn(top)
        <5>1. Crawl!Turn(g) # Crawl!Turn(top)
          BY <1>5, <1>6, <3>2, <4>1, Turns
        <5> QED
          BY <1>5, <1>6, <3>2, <5>1
      <4> QED
        BY <1>5, <4>1 DEF Before
    <3>4. top \notin Before(top)
      BY <1>5, <1>6 DEF Before
    <3>5. IsFiniteSet(Before(top) \cup {top}) /\ Cardinality(Before(top) \cup {top}) = Cardinality(Before(top)) + 1
      BY <1>2, <3>4, FS_AddElement
    <3>6. Cardinality(early) <= Cardinality(Before(top)) + 1
      BY <3>3, <3>5, FS_Subset
    <3>7. Cardinality(Before(top)) < i - 1
      BY <1>4, <3>2
    <3> QED
      BY <1>2, <1>3, <1>5, <3>6, <3>7
  <2> QED
    BY <2>1, <2>2
<1>8. hosts \ early # {}
  <2>1. hosts \subseteq early => early = hosts
    BY <1>5
  <2> QED
    BY <1>1, <1>3, <1>7, <2>1
<1>9. PICK h \in hosts \ early : \A g \in hosts \ early : Crawl!Turn(h) <= Crawl!Turn(g)
  <2>1. PICK T : T = {Crawl!Turn(g) : g \in hosts \ early}
    OBVIOUS
  <2>2. T \in SUBSET Nat /\ T # {}
    BY <1>6, <1>8, <2>1
  <2>3. PICK t \in T : \A u \in T : t <= u
    BY <2>2, LeastNumber
  <2> QED
    BY <2>1, <2>3
<1>10. Before(h) = early
  <2>1. ASSUME NEW g \in Before(h) PROVE g \in early
    BY <1>6, <1>9, <2>1 DEF Before
  <2>2. ASSUME NEW g \in early PROVE g \in Before(h)
    <3>1. g \in hosts /\ Cardinality(Before(g)) < i - 1
      BY <1>4
    <3>2. ~(Cardinality(Before(h)) < i - 1)
      BY <1>4, <1>9
    <3>3. ASSUME Crawl!Turn(h) <= Crawl!Turn(g) PROVE FALSE
      <4>1. Before(h) \subseteq Before(g)
        BY <1>6, <1>9, <3>1, <3>3 DEF Before
      <4>2. Cardinality(Before(h)) <= Cardinality(Before(g))
        BY <1>2, <4>1, FS_Subset
      <4> QED
        BY <1>2, <1>3, <3>1, <3>2, <4>2
    <3> QED
      BY <1>6, <1>9, <3>1, <3>3 DEF Before
  <2> QED
    BY <2>1, <2>2
<1>11. Cardinality(Before(h)) = i - 1
  <2>1. ~(Cardinality(Before(h)) < i - 1)
    BY <1>4, <1>9
  <2> QED
    BY <1>2, <1>3, <1>7, <1>10, <2>1
<1> QED
  BY <1>9, <1>11

LEMMA RotationTypes == ASSUME hosts \subseteq Crawl!HostSet PROVE Crawl!Rotation \in Seq(Crawl!HostSet)
<1>1. IsFiniteSet(hosts) /\ Cardinality(hosts) \in Nat
  BY Turns, FS_Subset, FS_CardinalityType
<1>2. PICK n \in Nat : n = Crawl!Cardinality(hosts)
  BY <1>1, SameFiniteSets
<1>3. ASSUME NEW i \in 1..n
      PROVE  (CHOOSE h \in hosts : Crawl!Cardinality({g \in hosts : Crawl!Turn(g) < Crawl!Turn(h)}) = i - 1)
                \in Crawl!HostSet
  <2>1. PICK h \in hosts : Cardinality(Before(h)) = i - 1
    BY <1>2, SameFiniteSets, RotationHosts
  <2>2. Crawl!Cardinality({g \in hosts : Crawl!Turn(g) < Crawl!Turn(h)}) = i - 1
    BY <2>1, SameFiniteSets DEF Before
  <2> QED
    BY <2>2
<1>4. Crawl!Rotation = [i \in 1..n |->
         CHOOSE h \in hosts : Crawl!Cardinality({g \in hosts : Crawl!Turn(g) < Crawl!Turn(h)}) = i - 1]
  BY <1>2 DEF Crawl!Rotation
<1>5. Crawl!Rotation \in [1..n -> Crawl!HostSet]
  BY <1>3, <1>4
<1> QED
  BY <1>5

LEMMA RotationStarts == ASSUME hosts \subseteq Crawl!HostSet, hosts # {} PROVE Crawl!Rotation # << >>
<1>1. IsFiniteSet(hosts) /\ Cardinality(hosts) \in Nat
  BY Turns, FS_Subset, FS_CardinalityType
<1>2. Cardinality(hosts) # 0
  BY <1>1, FS_EmptySet
<1>3. DOMAIN Crawl!Rotation = 1..Cardinality(hosts) /\ 1 \in 1..Cardinality(hosts)
  BY <1>1, <1>2, SameFiniteSets DEF Crawl!Rotation
<1>4. 1 \notin DOMAIN << >>
  OBVIOUS
<1>5. Crawl!Rotation = << >> => DOMAIN Crawl!Rotation = DOMAIN << >>
  OBVIOUS
<1> QED
  BY <1>3, <1>4, <1>5

\* A handler that is about to queue a URL knows it; queues have URLs of their hosts, and a
\* handler has popped one of the host it tries.
OnTheWay ==
  /\ \A x \in Handlers : crawlPc[x] \in {"seen", "push", "list"} => crawlUrl[x] \in Crawl!Keys
  /\ \A h \in Crawl!HostSet : \A i \in DOMAIN queue[h] : HostOf[queue[h][i]] = h
  /\ \A x \in Handlers : crawlPc[x] \in {"left", "unlist"} /\ crawlUrl[x] # NoUrl => HostOf[crawlUrl[x]] = Crawl!Trying(x)

Moving(x) == crawlPc[x] \in {"push", "left", "unlist"} /\ crawlUrl[x] # NoUrl
HeldBy(k) == \E x \in Handlers : Moving(x) /\ crawlUrl[x] = k
Queued(k) == \E h \in Crawl!HostSet : \E i \in DOMAIN queue[h] : queue[h][i] = k
HandedOut(k) == \E i \in DOMAIN handed : handed[i] = k

\* Nothing is at two places, and what was seen is somewhere.
Sole ==
  /\ \A x, y \in Handlers : Moving(x) /\ Moving(y) /\ crawlUrl[x] = crawlUrl[y] => x = y
  /\ \A h \in Crawl!HostSet : \A i, j \in DOMAIN queue[h] : queue[h][i] = queue[h][j] => i = j
  /\ \A i, j \in DOMAIN handed : handed[i] = handed[j] => i = j
  /\ \A k \in Crawl!Keys : k \in seen <=> HeldBy(k) \/ Queued(k) \/ HandedOut(k) \/ k \in lost
  /\ \A k \in Crawl!Keys : /\ ~(HeldBy(k) /\ Queued(k)) /\ ~(HeldBy(k) /\ HandedOut(k)) /\ ~(HeldBy(k) /\ k \in lost)
                     /\ ~(Queued(k) /\ HandedOut(k)) /\ ~(Queued(k) /\ k \in lost)
                     /\ ~(HandedOut(k) /\ k \in lost)

CrawlInv == Crawl!TypeOK /\ OnTheWay /\ Sole

LEMMA CrawlInitInv == Crawl!Init => CrawlInv
<1> SUFFICES ASSUME Crawl!Init PROVE CrawlInv
  OBVIOUS
<1>1. Crawl!TypeOK
  BY StudiesAssumption, SameFiniteSets DEF Crawl!Init, Crawl!TypeOK, Crawl!WellFormed, Crawl!Labels
<1>2. OnTheWay
  BY DEF Crawl!Init, OnTheWay
<1>3. Sole
  BY DEF Crawl!Init, Sole, Moving, HeldBy, Queued, HandedOut
<1> QED
  BY <1>1, <1>2, <1>3 DEF CrawlInv

LEMMA KeysAndHosts ==
  /\ \A u \in Spellings : Normalize[u] \in Crawl!Keys
  /\ \A k \in Crawl!Keys : HostOf[k] \in Crawl!HostSet
  /\ NoUrl \notin Crawl!Keys
BY StudiesAssumption, SameFiniteSets DEF Crawl!WellFormed, Crawl!Keys, Crawl!HostSet, Crawl!Range

\* A step that moves no URL.
LEMMA SolePlaces ==
  ASSUME CrawlInv, UNCHANGED <<seen, queue, handed, lost>>,
         \A x \in Handlers : Moving(x)' <=> Moving(x), \A x \in Handlers : Moving(x) => crawlUrl'[x] = crawlUrl[x]
  PROVE  Sole'
<1>1. \A k : HeldBy(k)' <=> HeldBy(k)
  BY DEF HeldBy
<1>2. \A k : (Queued(k)' <=> Queued(k)) /\ (HandedOut(k)' <=> HandedOut(k))
  BY DEF Queued, HandedOut
<1> QED
  BY <1>1, <1>2 DEF CrawlInv, Sole

LEMMA AdmitInv == ASSUME CrawlInv, NEW x \in Handlers, NEW u \in Spellings, Crawl!Admit(x, u) PROVE CrawlInv'
<1> USE DEF CrawlInv
<1>1. /\ crawlPc[x] = "idle" /\ crawlUrl' = [crawlUrl EXCEPT ![x] = Normalize[u]] /\ crawlPc' = [crawlPc EXCEPT ![x] = "seen"]
      /\ UNCHANGED <<seen, queue, hosts, gate, lastHost, crawlTodo, handed, lost, windows, died>>
  BY DEF Crawl!Admit, Crawl!Goto, Crawl!redis, Crawl!history
<1>2. Crawl!TypeOK'
  BY <1>1, KeysAndHosts DEF Crawl!TypeOK, Crawl!Labels
<1>3. OnTheWay'
  BY <1>1, KeysAndHosts DEF OnTheWay, Crawl!TypeOK, Crawl!Trying
<1>4. Sole'
  <2>1. \A y \in Handlers : (Moving(y)' <=> Moving(y)) /\ (Moving(y) => crawlUrl'[y] = crawlUrl[y])
    BY <1>1 DEF Moving, Crawl!TypeOK
  <2> QED
    BY <1>1, <2>1, SolePlaces
<1> QED
  BY <1>2, <1>3, <1>4

\* What a handler that ends leaves.
LEMMA EndLeaves ==
  ASSUME CrawlInv, NEW x \in Handlers, Crawl!End(x)
  PROVE  /\ crawlPc' = [crawlPc EXCEPT ![x] = "idle"] /\ crawlUrl' = [crawlUrl EXCEPT ![x] = NoUrl] /\ crawlTodo' = [crawlTodo EXCEPT ![x] = << >>]
         /\ crawlPc'[x] = "idle" /\ crawlUrl'[x] = NoUrl /\ crawlTodo'[x] = << >>
         /\ \A y \in Handlers : y # x => crawlPc'[y] = crawlPc[y] /\ crawlUrl'[y] = crawlUrl[y] /\ crawlTodo'[y] = crawlTodo[y]
         /\ crawlPc' \in [Handlers -> Crawl!Labels] /\ crawlUrl' \in [Handlers -> Crawl!Keys \cup {NoUrl}] /\ crawlTodo' \in [Handlers -> Seq(Crawl!HostSet)]
         /\ ~Moving(x)' /\ \A y \in Handlers : y # x => (Moving(y)' <=> Moving(y)) /\ Crawl!Trying(y)' = Crawl!Trying(y)
<1> USE DEF CrawlInv
<1>1. /\ crawlPc' = [crawlPc EXCEPT ![x] = "idle"] /\ crawlUrl' = [crawlUrl EXCEPT ![x] = NoUrl] /\ crawlTodo' = [crawlTodo EXCEPT ![x] = << >>]
  BY DEF Crawl!End, Crawl!Goto
<1>2. /\ crawlPc'[x] = "idle" /\ crawlUrl'[x] = NoUrl /\ crawlTodo'[x] = << >>
      /\ \A y \in Handlers : y # x => crawlPc'[y] = crawlPc[y] /\ crawlUrl'[y] = crawlUrl[y] /\ crawlTodo'[y] = crawlTodo[y]
      /\ crawlPc' \in [Handlers -> Crawl!Labels] /\ crawlUrl' \in [Handlers -> Crawl!Keys \cup {NoUrl}] /\ crawlTodo' \in [Handlers -> Seq(Crawl!HostSet)]
  BY <1>1 DEF Crawl!TypeOK, Crawl!Labels
<1>3. ~Moving(x)' /\ \A y \in Handlers : y # x => (Moving(y)' <=> Moving(y)) /\ Crawl!Trying(y)' = Crawl!Trying(y)
  BY <1>2 DEF Moving, Crawl!Trying
<1> QED
  BY <1>1, <1>2, <1>3

LEMMA AddIfNewInv == ASSUME CrawlInv, NEW x \in Handlers, Crawl!AddIfNew(x) PROVE CrawlInv'
<1> USE DEF CrawlInv
<1>1. /\ crawlPc[x] = "seen" /\ seen' = seen \cup {crawlUrl[x]}
      /\ IF crawlUrl[x] \notin seen THEN crawlPc' = [crawlPc EXCEPT ![x] = "push"] /\ UNCHANGED <<crawlUrl, crawlTodo>> ELSE Crawl!End(x)
      /\ UNCHANGED <<queue, hosts, gate, lastHost, handed, lost, windows, died>>
  BY DEF Crawl!AddIfNew, Crawl!IsNew, Crawl!Goto, Crawl!history
<1>2. PICK k : k = crawlUrl[x]
  OBVIOUS
<1>3. k \in Crawl!Keys /\ ~Moving(x)
  BY <1>1, <1>2 DEF OnTheWay, Moving
<1>4. \A q : (Queued(q)' <=> Queued(q)) /\ (HandedOut(q)' <=> HandedOut(q))
  BY <1>1 DEF Queued, HandedOut
<1>5. CASE k \in seen
  <2>1. Crawl!End(x) /\ seen' = seen
    BY <1>1, <1>2, <1>5
  <2>2. Crawl!TypeOK'
    BY <1>1, <2>1, EndLeaves DEF Crawl!TypeOK
  <2>3. OnTheWay'
    BY <1>1, <2>1, EndLeaves, ZenonT(40) DEF OnTheWay
  <2>4. Sole'
    BY <1>1, <1>3, <2>1, EndLeaves, SolePlaces
  <2> QED
    BY <2>2, <2>3, <2>4
<1>6. CASE k \notin seen
  <2>1. seen' = seen \cup {k} /\ crawlPc' = [crawlPc EXCEPT ![x] = "push"] /\ crawlUrl' = crawlUrl /\ crawlTodo' = crawlTodo
    BY <1>1, <1>2, <1>6
  <2>2. Crawl!TypeOK'
    BY <1>1, <1>2, <1>3, <2>1, KeysAndHosts DEF Crawl!TypeOK, Crawl!Labels
  <2>3. OnTheWay'
    BY <1>1, <1>2, <1>3, <2>1 DEF OnTheWay, Crawl!TypeOK, Crawl!Trying
  <2>4. Moving(x)' /\ crawlUrl'[x] = k /\ \A y \in Handlers : y # x => (Moving(y)' <=> Moving(y)) /\ crawlUrl'[y] = crawlUrl[y]
    BY <1>2, <1>3, <2>1, KeysAndHosts DEF Moving, Crawl!TypeOK
  <2>5. HeldBy(k)' /\ \A q : q # k => (HeldBy(q)' <=> HeldBy(q))
    BY <1>3, <2>4 DEF HeldBy
  <2>6. ~HeldBy(k) /\ ~Queued(k) /\ ~HandedOut(k) /\ k \notin lost
    BY <1>3, <1>6 DEF Sole
  <2>7. \A y \in Handlers : Moving(y) => crawlUrl[y] # k
    BY <2>6 DEF HeldBy
  <2>8. \A a, b \in Handlers : Moving(a)' /\ Moving(b)' /\ crawlUrl'[a] = crawlUrl'[b] => a = b
    BY <2>4, <2>7 DEF Sole
  <2>9. \A q \in Crawl!Keys : q \in seen' <=> HeldBy(q)' \/ Queued(q)' \/ HandedOut(q)' \/ q \in lost'
    BY <1>1, <1>4, <2>1, <2>5 DEF Sole
  <2> QED
    BY <1>1, <1>4, <2>2, <2>3, <2>5, <2>6, <2>8, <2>9 DEF Sole
<1> QED
  BY <1>5, <1>6

LEMMA PushInv == ASSUME CrawlInv, NEW x \in Handlers, Crawl!Push(x) PROVE CrawlInv'
<1> USE DEF CrawlInv
<1>1. PICK k, h : k = crawlUrl[x] /\ h = HostOf[k]
  OBVIOUS
<1>2. /\ crawlPc[x] = "push" /\ queue' = [queue EXCEPT ![h] = Append(queue[h], k)] /\ crawlPc' = [crawlPc EXCEPT ![x] = "list"]
      /\ UNCHANGED <<seen, hosts, gate, lastHost, crawlUrl, crawlTodo, handed, lost, windows, died>>
  BY <1>1 DEF Crawl!Push, Crawl!Goto, Crawl!history
<1>3. k \in Crawl!Keys /\ k # NoUrl /\ h \in Crawl!HostSet /\ Moving(x) /\ HeldBy(k)
  BY <1>1, <1>2, KeysAndHosts DEF OnTheWay, Moving, HeldBy
<1>4. PICK n : n = Len(queue[h])
  OBVIOUS
<1>5. /\ n \in Nat /\ DOMAIN queue[h] = 1..n /\ DOMAIN queue'[h] = 1..(n + 1)
      /\ queue'[h][n + 1] = k /\ \A i \in DOMAIN queue[h] : i \in DOMAIN queue'[h] /\ queue'[h][i] = queue[h][i]
      /\ \A i \in DOMAIN queue'[h] : i \in DOMAIN queue[h] \/ i = n + 1
      /\ \A g \in Crawl!HostSet : g # h => queue'[g] = queue[g]
      /\ queue' \in [Crawl!HostSet -> Seq(Crawl!Keys)]
  <2>1. queue[h] \in Seq(Crawl!Keys) /\ queue'[h] = Append(queue[h], k)
    BY <1>2, <1>3 DEF Crawl!TypeOK
  <2>2. queue' \in [Crawl!HostSet -> Seq(Crawl!Keys)] /\ \A g \in Crawl!HostSet : g # h => queue'[g] = queue[g]
    BY <1>2, <1>3, <2>1 DEF Crawl!TypeOK
  <2> QED
    BY <1>4, <2>1, <2>2
<1>6. Crawl!TypeOK'
  BY <1>1, <1>2, <1>3, <1>5 DEF Crawl!TypeOK, Crawl!Labels
<1>7. OnTheWay'
  <2>1. \A y \in Handlers : y # x => crawlPc'[y] = crawlPc[y]
    BY <1>2
  <2>2. crawlPc'[x] = "list"
    BY <1>2 DEF Crawl!TypeOK
  <2>3. \A g \in Crawl!HostSet : \A i \in DOMAIN queue'[g] : HostOf[queue'[g][i]] = g
    <3>1. ASSUME NEW g \in Crawl!HostSet, g # h, NEW i \in DOMAIN queue'[g] PROVE HostOf[queue'[g][i]] = g
      BY <1>5, <3>1 DEF OnTheWay
    <3>2. ASSUME NEW i \in DOMAIN queue'[h] PROVE HostOf[queue'[h][i]] = h
      <4>1. CASE i \in DOMAIN queue[h]
        BY <1>3, <1>5, <4>1 DEF OnTheWay
      <4>2. CASE i = n + 1
        BY <1>1, <1>5, <4>2
      <4> QED
        BY <1>5, <4>1, <4>2
    <3> QED
      BY <3>1, <3>2
  <2>4. \A y \in Handlers : Crawl!Trying(y)' = Crawl!Trying(y)
    BY <1>2 DEF Crawl!Trying
  <2> QED
    BY <1>1, <1>2, <1>3, <2>1, <2>2, <2>3, <2>4 DEF OnTheWay
<1>8. ~Moving(x)' /\ \A y \in Handlers : y # x => (Moving(y)' <=> Moving(y))
  BY <1>2 DEF Moving, Crawl!TypeOK
<1>9. ~HeldBy(k)' /\ \A q : q # k => (HeldBy(q)' <=> HeldBy(q))
  BY <1>1, <1>2, <1>3, <1>8 DEF HeldBy, Sole
<1>10. Queued(k)' /\ \A q : q # k => (Queued(q)' <=> Queued(q))
  <2>1. \A q : q # k => (Queued(q)' => Queued(q))
    BY <1>5 DEF Queued
  <2>2. \A q : Queued(q) => Queued(q)'
    BY <1>5 DEF Queued
  <2>3. n + 1 \in DOMAIN queue'[h]
    BY <1>5
  <2>4. Queued(k)'
    BY <1>3, <1>5, <2>3 DEF Queued
  <2> QED
    BY <2>1, <2>2, <2>4
<1>11. \A q : HandedOut(q)' <=> HandedOut(q)
  BY <1>2 DEF HandedOut
<1>12. ~Queued(k) /\ ~HandedOut(k) /\ k \notin lost /\ k \in seen
  BY <1>3 DEF Sole
<1>13. \A g \in Crawl!HostSet : \A i, j \in DOMAIN queue'[g] : queue'[g][i] = queue'[g][j] => i = j
  <2>1. \A i \in DOMAIN queue[h] : queue[h][i] # k
    BY <1>3, <1>12 DEF Queued
  <2> QED
    BY <1>5, <2>1 DEF Sole
<1>14. \A a, b \in Handlers : Moving(a)' /\ Moving(b)' /\ crawlUrl'[a] = crawlUrl'[b] => a = b
  BY <1>2, <1>8 DEF Sole
<1>15. \A q \in Crawl!Keys : q \in seen' <=> HeldBy(q)' \/ Queued(q)' \/ HandedOut(q)' \/ q \in lost'
  BY <1>2, <1>9, <1>10, <1>11, <1>12 DEF Sole
<1>16. Sole'
  BY <1>2, <1>9, <1>10, <1>11, <1>12, <1>13, <1>14, <1>15 DEF Sole
<1> QED
  BY <1>6, <1>7, <1>16

LEMMA ListHostInv == ASSUME CrawlInv, NEW x \in Handlers, Crawl!ListHost(x) PROVE CrawlInv'
<1> USE DEF CrawlInv
<1>1. /\ crawlPc[x] = "list" /\ hosts' = hosts \cup {HostOf[crawlUrl[x]]} /\ Crawl!End(x)
      /\ UNCHANGED <<seen, queue, gate, lastHost, handed, lost, windows, died>>
  BY DEF Crawl!ListHost, Crawl!history
<1>2. HostOf[crawlUrl[x]] \in Crawl!HostSet
  BY <1>1, KeysAndHosts DEF OnTheWay
<1>3. Crawl!TypeOK'
  BY <1>1, <1>2, EndLeaves DEF Crawl!TypeOK
<1>4. OnTheWay'
  BY <1>1, EndLeaves, ZenonT(40) DEF OnTheWay
<1>5. ~Moving(x)
  BY <1>1 DEF Moving
<1>6. Sole'
  BY <1>1, <1>5, EndLeaves, SolePlaces
<1> QED
  BY <1>3, <1>4, <1>6

LEMMA NextUrlInv == ASSUME CrawlInv, NEW x \in Handlers, Crawl!NextUrl(x) PROVE CrawlInv'
<1> USE DEF CrawlInv
<1>1. /\ crawlPc[x] = "idle" /\ crawlPc' = [crawlPc EXCEPT ![x] = "hosts"]
      /\ UNCHANGED <<seen, queue, hosts, gate, lastHost, crawlUrl, crawlTodo, handed, lost, windows, died>>
  BY DEF Crawl!NextUrl, Crawl!Goto, Crawl!redis, Crawl!history
<1>2. Crawl!TypeOK'
  BY <1>1 DEF Crawl!TypeOK, Crawl!Labels
<1>3. OnTheWay'
  BY <1>1 DEF OnTheWay, Crawl!TypeOK, Crawl!Trying
<1>4. \A y \in Handlers : Moving(y)' <=> Moving(y)
  BY <1>1 DEF Moving, Crawl!TypeOK
<1>5. Sole'
  BY <1>1, <1>4, SolePlaces
<1> QED
  BY <1>2, <1>3, <1>5

\* A handler that looks for a host holds nothing.
LEMMA LookingInv ==
  ASSUME CrawlInv, NEW x \in Handlers, crawlPc[x] \in {"hosts", "size", "gate"},
         NEW label \in {"size", "gate", "pop"}, crawlPc' = [crawlPc EXCEPT ![x] = label], crawlUrl' = crawlUrl,
         NEW rest \in Seq(Crawl!HostSet), crawlTodo' = [crawlTodo EXCEPT ![x] = rest], label \in {"gate", "pop"} => rest # << >>,
         UNCHANGED <<seen, queue, hosts, handed, lost, died>>,
         gate' \in [Crawl!HostSet -> BOOLEAN], lastHost' \in Crawl!HostSet \cup {NoHost}, windows' \in [Crawl!HostSet -> 0..MaxWindows]
  PROVE  CrawlInv'
<1> USE DEF CrawlInv
<1>1. /\ crawlPc'[x] = label /\ crawlTodo'[x] = rest
      /\ \A y \in Handlers : y # x => crawlPc'[y] = crawlPc[y] /\ crawlTodo'[y] = crawlTodo[y]
  BY DEF Crawl!TypeOK
<1>2. Crawl!TypeOK'
  <2>1. crawlPc' \in [Handlers -> Crawl!Labels] /\ crawlTodo' \in [Handlers -> Seq(Crawl!HostSet)]
    BY DEF Crawl!TypeOK, Crawl!Labels
  <2> QED
    BY <1>1, <2>1 DEF Crawl!TypeOK
<1>3. OnTheWay'
  <2>1. \A y \in Handlers : y # x => Crawl!Trying(y)' = Crawl!Trying(y)
    BY <1>1 DEF Crawl!Trying
  <2> QED
    BY <1>1, <2>1 DEF OnTheWay
<1>4. \A y \in Handlers : Moving(y)' <=> Moving(y)
  BY <1>1 DEF Moving
<1>5. Sole'
  BY <1>4, SolePlaces
<1> QED
  BY <1>2, <1>3, <1>5

LEMMA ReadHostsInv == ASSUME CrawlInv, NEW x \in Handlers, Crawl!ReadHosts(x) PROVE CrawlInv'
<1> USE DEF CrawlInv
<1>1. crawlPc[x] = "hosts" /\ UNCHANGED <<seen, queue, hosts, gate, lastHost, handed, lost, windows, died>>
  BY DEF Crawl!ReadHosts, Crawl!redis, Crawl!history
<1>2. CASE hosts = {}
  <2>1. Crawl!End(x)
    BY <1>2 DEF Crawl!ReadHosts
  <2>2. Crawl!TypeOK'
    BY <1>1, <2>1, EndLeaves DEF Crawl!TypeOK
  <2>3. OnTheWay'
    BY <1>1, <2>1, EndLeaves, ZenonT(40) DEF OnTheWay
  <2>4. ~Moving(x)
    BY <1>1 DEF Moving
  <2>5. Sole'
    BY <1>1, <2>1, <2>4, EndLeaves, SolePlaces
  <2> QED
    BY <2>2, <2>3, <2>5
<1>3. CASE hosts # {}
  <2>1. PICK rest : rest = Crawl!Rotation
    OBVIOUS
  <2>2. rest \in Seq(Crawl!HostSet)
    BY <2>1, RotationTypes DEF Crawl!TypeOK
  <2>3. crawlTodo' = [crawlTodo EXCEPT ![x] = rest] /\ crawlPc' = [crawlPc EXCEPT ![x] = "size"] /\ crawlUrl' = crawlUrl
    BY <1>3, <2>1 DEF Crawl!ReadHosts, Crawl!Goto
  <2>4. gate' \in [Crawl!HostSet -> BOOLEAN] /\ lastHost' \in Crawl!HostSet \cup {NoHost} /\ windows' \in [Crawl!HostSet -> 0..MaxWindows]
    BY <1>1 DEF Crawl!TypeOK
  <2> QED
    BY <1>1, <2>2, <2>3, <2>4, LookingInv
<1> QED
  BY <1>2, <1>3

LEMMA ReadSizeInv == ASSUME CrawlInv, NEW x \in Handlers, Crawl!ReadSize(x) PROVE CrawlInv'
<1> USE DEF CrawlInv
<1>1. crawlPc[x] = "size" /\ UNCHANGED <<seen, queue, hosts, gate, lastHost, handed, lost, windows, died>>
  BY DEF Crawl!ReadSize, Crawl!redis, Crawl!history
<1>2. gate' \in [Crawl!HostSet -> BOOLEAN] /\ lastHost' \in Crawl!HostSet \cup {NoHost} /\ windows' \in [Crawl!HostSet -> 0..MaxWindows]
  BY <1>1 DEF Crawl!TypeOK
<1>3. crawlTodo[x] \in Seq(Crawl!HostSet) /\ crawlTodo = [crawlTodo EXCEPT ![x] = crawlTodo[x]]
  BY DEF Crawl!TypeOK
<1>4. CASE crawlTodo[x] = << >>
  <2>1. Crawl!End(x)
    BY <1>4 DEF Crawl!ReadSize
  <2>2. Crawl!TypeOK'
    BY <1>1, <2>1, EndLeaves DEF Crawl!TypeOK
  <2>3. OnTheWay'
    BY <1>1, <2>1, EndLeaves, ZenonT(40) DEF OnTheWay
  <2>4. ~Moving(x)
    BY <1>1 DEF Moving
  <2>5. Sole'
    BY <1>1, <2>1, <2>4, EndLeaves, SolePlaces
  <2> QED
    BY <2>2, <2>3, <2>5
<1>5. CASE crawlTodo[x] # << >> /\ queue[Crawl!Trying(x)] = << >>
  <2>1. PICK rest : rest = Tail(crawlTodo[x])
    OBVIOUS
  <2>2. crawlTodo' = [crawlTodo EXCEPT ![x] = rest] /\ crawlPc' = [crawlPc EXCEPT ![x] = "size"] /\ crawlUrl' = crawlUrl
    BY <1>5, <2>1 DEF Crawl!ReadSize, Crawl!Skip, Crawl!Goto
  <2>3. rest \in Seq(Crawl!HostSet)
    BY <1>3, <1>5, <2>1
  <2> QED
    BY <1>1, <1>2, <2>2, <2>3, LookingInv
<1>6. CASE crawlTodo[x] # << >> /\ queue[Crawl!Trying(x)] # << >>
  <2>1. crawlTodo' = crawlTodo /\ crawlPc' = [crawlPc EXCEPT ![x] = "gate"] /\ crawlUrl' = crawlUrl
    BY <1>6 DEF Crawl!ReadSize, Crawl!Goto
  <2>2. PICK rest : rest = crawlTodo[x]
    OBVIOUS
  <2> QED
    BY <1>1, <1>2, <1>3, <1>6, <2>1, <2>2, LookingInv
<1> QED
  BY <1>4, <1>5, <1>6

\* A host that is tried is one.
LEMMA TryingHost == ASSUME CrawlInv, NEW x \in Handlers, crawlTodo[x] # << >> PROVE Crawl!Trying(x) \in Crawl!HostSet
BY DEF CrawlInv, Crawl!TypeOK, Crawl!Trying

LEMMA TryOpenInv == ASSUME CrawlInv, NEW x \in Handlers, Crawl!TryOpen(x) PROVE CrawlInv'
<1> USE DEF CrawlInv
<1>1. PICK h : h = Crawl!Trying(x)
  OBVIOUS
<1>2. crawlPc[x] = "gate" /\ UNCHANGED <<seen, queue, hosts, crawlUrl, handed, lost, died>>
  BY DEF Crawl!TryOpen
<1>3. crawlTodo[x] \in Seq(Crawl!HostSet) /\ crawlTodo = [crawlTodo EXCEPT ![x] = crawlTodo[x]] /\ crawlTodo[x] # << >> /\ h \in Crawl!HostSet
  BY <1>1, <1>2, TryingHost DEF Crawl!TypeOK
<1>4. CASE Crawl!Open(h)
  <2>1. /\ ~gate[h] /\ windows[h] < MaxWindows /\ windows' = [windows EXCEPT ![h] = windows[h] + 1]
        /\ gate' = [gate EXCEPT ![h] = TRUE] /\ lastHost' = h /\ crawlPc' = [crawlPc EXCEPT ![x] = "pop"] /\ crawlTodo' = crawlTodo
    BY <1>1, <1>4 DEF Crawl!TryOpen, Crawl!Goto, Crawl!Open
  <2>2. gate' \in [Crawl!HostSet -> BOOLEAN] /\ lastHost' \in Crawl!HostSet \cup {NoHost}
    BY <1>3, <2>1 DEF Crawl!TypeOK
  <2>3. windows' \in [Crawl!HostSet -> 0..MaxWindows]
    BY <1>3, <2>1, StudiesAssumption, SameFiniteSets DEF Crawl!TypeOK, Crawl!WellFormed
  <2>4. PICK rest : rest = crawlTodo[x]
    OBVIOUS
  <2> QED
    BY <1>2, <1>3, <2>1, <2>2, <2>3, <2>4, LookingInv
<1>5. CASE ~Crawl!Open(h)
  <2>1. PICK rest : rest = Tail(crawlTodo[x])
    OBVIOUS
  <2>2. /\ crawlTodo' = [crawlTodo EXCEPT ![x] = rest] /\ crawlPc' = [crawlPc EXCEPT ![x] = "size"] /\ UNCHANGED <<windows, gate, lastHost>>
    BY <1>1, <1>5, <2>1 DEF Crawl!TryOpen, Crawl!Skip, Crawl!Goto
  <2>3. rest \in Seq(Crawl!HostSet)
    BY <1>3, <2>1
  <2>4. gate' \in [Crawl!HostSet -> BOOLEAN] /\ lastHost' \in Crawl!HostSet \cup {NoHost} /\ windows' \in [Crawl!HostSet -> 0..MaxWindows]
    BY <2>2 DEF Crawl!TypeOK
  <2> QED
    BY <1>2, <2>2, <2>3, <2>4, LookingInv
<1> QED
  BY <1>4, <1>5

LEMMA PopInv == ASSUME CrawlInv, NEW x \in Handlers, Crawl!Pop(x) PROVE CrawlInv'
<1> USE DEF CrawlInv
<1>1. PICK h : h = Crawl!Trying(x)
  OBVIOUS
<1>2. /\ crawlPc[x] = "pop" /\ queue' = Crawl!QueueAfterPop(h) /\ crawlPc' = [crawlPc EXCEPT ![x] = "left"]
      /\ crawlUrl' = [crawlUrl EXCEPT ![x] = IF queue[h] = << >> THEN NoUrl ELSE Head(queue[h])]
      /\ UNCHANGED <<seen, hosts, gate, lastHost, crawlTodo, handed, lost, windows, died>>
  BY <1>1 DEF Crawl!Pop, Crawl!Goto, Crawl!history
<1>3. crawlTodo[x] # << >> /\ h \in Crawl!HostSet /\ queue[h] \in Seq(Crawl!Keys) /\ ~Moving(x)
  BY <1>1, <1>2, TryingHost DEF Crawl!TypeOK, Moving
<1>4. \A y \in Handlers : Crawl!Trying(y)' = Crawl!Trying(y)
  BY <1>2 DEF Crawl!Trying
<1>5. /\ crawlPc'[x] = "left" /\ \A y \in Handlers : y # x => crawlPc'[y] = crawlPc[y] /\ crawlUrl'[y] = crawlUrl[y]
      /\ \A y \in Handlers : y # x => (Moving(y)' <=> Moving(y))
  BY <1>2 DEF Crawl!TypeOK, Moving
<1>6. CASE queue[h] = << >>
  <2>1. queue' = queue /\ crawlUrl'[x] = NoUrl
    BY <1>2, <1>3, <1>6 DEF Crawl!QueueAfterPop, Crawl!TypeOK
  <2>2. Crawl!TypeOK'
    BY <1>2, <1>3, <1>6, <2>1 DEF Crawl!TypeOK, Crawl!Labels
  <2>3. OnTheWay'
    BY <1>4, <1>5, <2>1 DEF OnTheWay
  <2>4. ~Moving(x)'
    BY <2>1 DEF Moving
  <2>5. Sole'
    BY <1>2, <1>3, <1>5, <2>1, <2>4, SolePlaces
  <2> QED
    BY <2>2, <2>3, <2>5
<1>7. CASE queue[h] # << >>
  <2>1. PICK k : k = Head(queue[h])
    OBVIOUS
  <2>2. PICK n : n = Len(queue[h])
    OBVIOUS
  <2>3. /\ n \in Nat /\ n >= 1 /\ DOMAIN queue[h] = 1..n /\ k = queue[h][1] /\ k \in Crawl!Keys /\ k # NoUrl
        /\ 1 \in DOMAIN queue[h] /\ crawlUrl'[x] = k
    BY <1>2, <1>3, <1>7, <2>1, <2>2, KeysAndHosts DEF Crawl!TypeOK
  <2>4. /\ queue'[h] = Tail(queue[h]) /\ queue' \in [Crawl!HostSet -> Seq(Crawl!Keys)]
        /\ \A g \in Crawl!HostSet : g # h => queue'[g] = queue[g]
    BY <1>2, <1>3, <1>7 DEF Crawl!QueueAfterPop, Crawl!TypeOK
  <2>5. /\ DOMAIN queue'[h] = 1..(n - 1)
        /\ \A i \in 1..(n - 1) : i + 1 \in DOMAIN queue[h] /\ queue'[h][i] = queue[h][i + 1]
    BY <1>3, <1>7, <2>2, <2>3, <2>4
  <2>6. Crawl!TypeOK'
    BY <1>2, <1>3, <2>3, <2>4 DEF Crawl!TypeOK, Crawl!Labels
  <2>7. OnTheWay'
    <3>1. \A g \in Crawl!HostSet : \A i \in DOMAIN queue'[g] : HostOf[queue'[g][i]] = g
      <4>1. ASSUME NEW g \in Crawl!HostSet, g # h, NEW i \in DOMAIN queue'[g] PROVE HostOf[queue'[g][i]] = g
        BY <2>4, <4>1 DEF OnTheWay
      <4>2. ASSUME NEW i \in DOMAIN queue'[h] PROVE HostOf[queue'[h][i]] = h
        BY <1>3, <2>5 DEF OnTheWay
      <4> QED
        BY <4>1, <4>2
    <3>2. HostOf[k] = Crawl!Trying(x)
      BY <1>1, <1>3, <2>3 DEF OnTheWay
    <3> QED
      BY <1>4, <1>5, <2>3, <3>1, <3>2 DEF OnTheWay
  <2>8. Moving(x)'
    BY <1>5, <2>3 DEF Moving
  <2>9. HeldBy(k)' /\ \A q : q # k => (HeldBy(q)' <=> HeldBy(q))
    BY <1>3, <1>5, <2>3, <2>8 DEF HeldBy
  <2>10. Queued(k) /\ k \in seen /\ ~HeldBy(k) /\ ~HandedOut(k) /\ k \notin lost
    <3>1. Queued(k)
      BY <1>3, <2>3 DEF Queued
    <3> QED
      BY <2>3, <3>1 DEF Sole
  <2>11. \A i \in 1..(n - 1) : queue'[h][i] # k
    BY <1>3, <2>3, <2>5 DEF Sole
  <2>12. ~Queued(k)'
    <3>1. ASSUME NEW g \in Crawl!HostSet, NEW i \in DOMAIN queue'[g], queue'[g][i] = k PROVE FALSE
      <4>1. g # h
        BY <2>5, <2>11, <3>1
      <4>2. i \in DOMAIN queue[g] /\ queue[g][i] = k
        BY <2>4, <3>1, <4>1
      <4>3. HostOf[k] = g /\ HostOf[k] = h
        BY <1>3, <2>3, <4>2 DEF OnTheWay
      <4> QED
        BY <4>1, <4>3
    <3> QED
      BY <3>1 DEF Queued
  <2>13. ASSUME NEW q, q # k PROVE Queued(q)' <=> Queued(q)
    <3>1. ASSUME Queued(q)' PROVE Queued(q)
      <4>1. PICK g \in Crawl!HostSet : \E i \in DOMAIN queue'[g] : queue'[g][i] = q
        BY <3>1 DEF Queued
      <4>2. PICK i \in DOMAIN queue'[g] : queue'[g][i] = q
        BY <4>1
      <4>3. CASE g = h
        <5>1. i + 1 \in DOMAIN queue[h] /\ queue[h][i + 1] = q
          BY <2>5, <4>2, <4>3
        <5> QED
          BY <1>3, <5>1 DEF Queued
      <4>4. CASE g # h
        BY <2>4, <4>2, <4>4 DEF Queued
      <4> QED
        BY <4>3, <4>4
    <3>2. ASSUME Queued(q) PROVE Queued(q)'
      <4>1. PICK g \in Crawl!HostSet : \E i \in DOMAIN queue[g] : queue[g][i] = q
        BY <3>2 DEF Queued
      <4>2. PICK i \in DOMAIN queue[g] : queue[g][i] = q
        BY <4>1
      <4>3. CASE g = h
        <5>1. i # 1
          BY <2>3, <2>13, <4>2, <4>3
        <5>2. i - 1 \in 1..(n - 1) /\ (i - 1) + 1 = i
          BY <2>3, <4>2, <4>3, <5>1
        <5>3. i - 1 \in DOMAIN queue'[h] /\ queue'[h][i - 1] = q
          BY <2>5, <4>2, <4>3, <5>2
        <5> QED
          BY <1>3, <5>3 DEF Queued
      <4>4. CASE g # h
        BY <2>4, <4>2, <4>4 DEF Queued
      <4> QED
        BY <4>3, <4>4
    <3> QED
      BY <3>1, <3>2
  <2>14. \A q : HandedOut(q)' <=> HandedOut(q)
    BY <1>2 DEF HandedOut
  <2>15. \A g \in Crawl!HostSet : \A i, j \in DOMAIN queue'[g] : queue'[g][i] = queue'[g][j] => i = j
    <3>1. \A i, j \in DOMAIN queue'[h] : queue'[h][i] = queue'[h][j] => i = j
      <4>1. ASSUME NEW i \in 1..(n - 1), NEW j \in 1..(n - 1), queue'[h][i] = queue'[h][j] PROVE i = j
        <5>1. i + 1 = j + 1
          BY <1>3, <2>5, <4>1 DEF Sole
        <5> QED
          BY <2>3, <5>1
      <4> QED
        BY <2>5, <4>1
    <3> QED
      BY <2>4, <3>1 DEF Sole
  <2>16. \A y \in Handlers : Moving(y) => crawlUrl[y] # k
    BY <2>10 DEF HeldBy
  <2>17. \A a, b \in Handlers : Moving(a)' /\ Moving(b)' /\ crawlUrl'[a] = crawlUrl'[b] => a = b
    BY <1>5, <2>3, <2>16 DEF Sole
  <2>18. \A q \in Crawl!Keys : q \in seen' <=> HeldBy(q)' \/ Queued(q)' \/ HandedOut(q)' \/ q \in lost'
    BY <1>2, <2>9, <2>10, <2>13, <2>14 DEF Sole
  <2>19. Sole'
    BY <1>2, <2>9, <2>10, <2>12, <2>13, <2>14, <2>15, <2>17, <2>18 DEF Sole
  <2> QED
    BY <2>6, <2>7, <2>19
<1> QED
  BY <1>6, <1>7

\* next answers.
LEMMA CrawlAnswerInv ==
  ASSUME CrawlInv, NEW x \in Handlers, crawlPc[x] \in {"left", "unlist"}, Crawl!Hand(x), Crawl!End(x),
         hosts' \subseteq Crawl!HostSet, UNCHANGED <<seen, queue, gate, lastHost, lost, windows, died>>
  PROVE  CrawlInv'
<1> USE DEF CrawlInv
<1>1. PICK k : k = crawlUrl[x]
  OBVIOUS
<1>2. OnTheWay'
  BY EndLeaves, ZenonT(40) DEF OnTheWay
<1>3. \A q : Queued(q)' <=> Queued(q)
  BY DEF Queued
<1>4. CASE k = NoUrl
  <2>1. handed' = handed /\ ~Moving(x)
    BY <1>1, <1>4 DEF Crawl!Hand, Moving
  <2>2. Crawl!TypeOK'
    BY <2>1, EndLeaves DEF Crawl!TypeOK
  <2>3. Sole'
    BY <2>1, EndLeaves, SolePlaces
  <2> QED
    BY <1>2, <2>2, <2>3
<1>5. CASE k # NoUrl
  <2>1. handed' = Append(handed, k)
    BY <1>1, <1>5 DEF Crawl!Hand
  <2>2. k \in Crawl!Keys /\ Moving(x) /\ HeldBy(k)
    BY <1>1, <1>5 DEF Crawl!TypeOK, Moving, HeldBy
  <2>3. PICK n : n = Len(handed)
    OBVIOUS
  <2>4. /\ n \in Nat /\ DOMAIN handed = 1..n /\ DOMAIN handed' = 1..(n + 1) /\ handed' \in Seq(Crawl!Keys)
        /\ handed'[n + 1] = k /\ \A i \in DOMAIN handed : i \in DOMAIN handed' /\ handed'[i] = handed[i]
        /\ n + 1 \in DOMAIN handed' /\ \A i \in DOMAIN handed' : i \in DOMAIN handed \/ i = n + 1
    BY <2>1, <2>2, <2>3 DEF Crawl!TypeOK
  <2>5. Crawl!TypeOK'
    BY <2>4, EndLeaves DEF Crawl!TypeOK
  <2>6. ~Queued(k) /\ ~HandedOut(k) /\ k \notin lost /\ k \in seen
    BY <2>2 DEF Sole
  <2>7. ~HeldBy(k)' /\ \A q : q # k => (HeldBy(q)' <=> HeldBy(q))
    <3>1. \A y \in Handlers : y # x => ~(Moving(y) /\ crawlUrl[y] = k)
      BY <1>1, <2>2 DEF Sole
    <3> QED
      BY <1>1, <2>2, <3>1, EndLeaves DEF HeldBy
  <2>8. HandedOut(k)' /\ \A q : q # k => (HandedOut(q)' <=> HandedOut(q))
    BY <2>4 DEF HandedOut
  <2>9. \A i, j \in DOMAIN handed' : handed'[i] = handed'[j] => i = j
    <3>1. \A i \in DOMAIN handed : handed[i] # k
      BY <2>6 DEF HandedOut
    <3> QED
      BY <2>4, <3>1 DEF Sole
  <2>10. \A a, b \in Handlers : Moving(a)' /\ Moving(b)' /\ crawlUrl'[a] = crawlUrl'[b] => a = b
    BY EndLeaves DEF Sole
  <2>11. \A q \in Crawl!Keys : q \in seen' <=> HeldBy(q)' \/ Queued(q)' \/ HandedOut(q)' \/ q \in lost'
    BY <1>3, <2>6, <2>7, <2>8 DEF Sole
  <2>12. \A h \in Crawl!HostSet : \A i, j \in DOMAIN queue'[h] : queue'[h][i] = queue'[h][j] => i = j
    BY DEF Sole
  <2>13. Sole'
    BY <1>3, <2>6, <2>7, <2>8, <2>9, <2>10, <2>11, <2>12 DEF Sole
  <2> QED
    BY <1>2, <2>5, <2>13
<1> QED
  BY <1>4, <1>5

LEMMA ReadLeftInv == ASSUME CrawlInv, NEW x \in Handlers, Crawl!ReadLeft(x) PROVE CrawlInv'
<1> USE DEF CrawlInv
<1>1. crawlPc[x] = "left" /\ UNCHANGED <<seen, queue, hosts, gate, lastHost, lost, windows, died>>
  BY DEF Crawl!ReadLeft, Crawl!redis
<1>2. CASE queue[Crawl!Trying(x)] = << >>
  <2>1. crawlPc' = [crawlPc EXCEPT ![x] = "unlist"] /\ UNCHANGED <<crawlUrl, crawlTodo, handed>>
    BY <1>2 DEF Crawl!ReadLeft, Crawl!Goto
  <2>2. Crawl!TypeOK'
    BY <1>1, <2>1 DEF Crawl!TypeOK, Crawl!Labels
  <2>3. crawlPc'[x] = "unlist" /\ \A y \in Handlers : y # x => crawlPc'[y] = crawlPc[y]
    BY <2>1 DEF Crawl!TypeOK
  <2>4. OnTheWay'
    <3>1. \A y \in Handlers : Crawl!Trying(y)' = Crawl!Trying(y)
      BY <2>1 DEF Crawl!Trying
    <3> QED
      BY <1>1, <2>1, <2>3, <3>1 DEF OnTheWay
  <2>5. \A y \in Handlers : Moving(y)' <=> Moving(y)
    BY <1>1, <2>1, <2>3 DEF Moving
  <2>6. Sole'
    BY <1>1, <2>1, <2>5, SolePlaces
  <2> QED
    BY <2>2, <2>4, <2>6
<1>3. CASE queue[Crawl!Trying(x)] # << >>
  <2>1. Crawl!Hand(x) /\ Crawl!End(x)
    BY <1>3 DEF Crawl!ReadLeft
  <2>2. hosts' \subseteq Crawl!HostSet
    BY <1>1 DEF Crawl!TypeOK
  <2> QED
    BY <1>1, <2>1, <2>2, CrawlAnswerInv
<1> QED
  BY <1>2, <1>3

LEMMA UnlistInv == ASSUME CrawlInv, NEW x \in Handlers, Crawl!Unlist(x) PROVE CrawlInv'
<1>1. /\ crawlPc[x] = "unlist" /\ Crawl!Hand(x) /\ Crawl!End(x) /\ hosts' = hosts \ {Crawl!Trying(x)}
      /\ UNCHANGED <<seen, queue, gate, lastHost, lost, windows, died>>
  BY DEF Crawl!Unlist
<1>2. hosts' \subseteq Crawl!HostSet
  BY <1>1 DEF CrawlInv, Crawl!TypeOK
<1> QED
  BY <1>1, <1>2, CrawlAnswerInv

LEMMA FailInv == ASSUME CrawlInv, NEW x \in Handlers, Crawl!Fail(x) PROVE CrawlInv'
<1> USE DEF CrawlInv
<1>1. /\ died < MaxFailures /\ died' = died + 1 /\ Crawl!End(x)
      /\ UNCHANGED <<seen, queue, hosts, gate, lastHost, handed, windows>>
      /\ lost' = lost \cup (IF crawlPc[x] \in {"push", "left", "unlist"} THEN {crawlUrl[x]} \ {NoUrl} ELSE {})
  BY DEF Crawl!Fail, Crawl!redis
<1>2. OnTheWay'
  BY <1>1, EndLeaves, ZenonT(40) DEF OnTheWay
<1>3. \A q : (Queued(q)' <=> Queued(q)) /\ (HandedOut(q)' <=> HandedOut(q))
  BY <1>1 DEF Queued, HandedOut
<1>4. died' \in 0..MaxFailures
  BY <1>1, StudiesAssumption, SameFiniteSets DEF Crawl!TypeOK, Crawl!WellFormed
<1>5. CASE ~Moving(x)
  <2>1. lost' = lost
    BY <1>1, <1>5 DEF Moving
  <2>2. Crawl!TypeOK'
    BY <1>1, <1>4, <2>1, EndLeaves DEF Crawl!TypeOK
  <2>3. Sole'
    BY <1>1, <1>5, <2>1, EndLeaves, SolePlaces
  <2> QED
    BY <1>2, <2>2, <2>3
<1>6. CASE Moving(x)
  <2>1. PICK k : k = crawlUrl[x]
    OBVIOUS
  <2>2. k \in Crawl!Keys /\ k # NoUrl /\ HeldBy(k) /\ lost' = lost \cup {k}
    BY <1>1, <1>6, <2>1 DEF Moving, Crawl!TypeOK, HeldBy
  <2>3. Crawl!TypeOK'
    BY <1>1, <1>4, <2>2, EndLeaves DEF Crawl!TypeOK
  <2>4. ~Queued(k) /\ ~HandedOut(k) /\ k \notin lost /\ k \in seen
    BY <2>2 DEF Sole
  <2>5. ~HeldBy(k)' /\ \A q : q # k => (HeldBy(q)' <=> HeldBy(q))
    <3>1. \A y \in Handlers : y # x => ~(Moving(y) /\ crawlUrl[y] = k)
      BY <1>6, <2>1 DEF Sole
    <3> QED
      BY <1>1, <1>6, <2>1, <3>1, EndLeaves DEF HeldBy
  <2>6. \A a, b \in Handlers : Moving(a)' /\ Moving(b)' /\ crawlUrl'[a] = crawlUrl'[b] => a = b
    BY <1>1, EndLeaves DEF Sole
  <2>7. \A q \in Crawl!Keys : q \in seen' <=> HeldBy(q)' \/ Queued(q)' \/ HandedOut(q)' \/ q \in lost'
    BY <1>1, <1>3, <2>2, <2>4, <2>5 DEF Sole
  <2>8. /\ \A h \in Crawl!HostSet : \A i, j \in DOMAIN queue'[h] : queue'[h][i] = queue'[h][j] => i = j
        /\ \A i, j \in DOMAIN handed' : handed'[i] = handed'[j] => i = j
    BY <1>1 DEF Sole
  <2>9. Sole'
    BY <1>1, <1>3, <2>2, <2>4, <2>5, <2>6, <2>7, <2>8 DEF Sole
  <2> QED
    BY <1>2, <2>3, <2>9
<1> QED
  BY <1>5, <1>6

LEMMA GateExpiresInv == ASSUME CrawlInv, NEW h \in Crawl!HostSet, Crawl!GateExpires(h) PROVE CrawlInv'
<1> USE DEF CrawlInv
<1>1. gate' = [gate EXCEPT ![h] = FALSE]
      /\ UNCHANGED <<seen, queue, hosts, lastHost, crawlPc, crawlUrl, crawlTodo, handed, lost, windows, died>>
  BY DEF Crawl!GateExpires, Crawl!handler, Crawl!history
<1>2. Crawl!TypeOK' /\ OnTheWay'
  <2>1. Crawl!TypeOK'
    BY <1>1 DEF Crawl!TypeOK
  <2>2. OnTheWay'
    BY <1>1 DEF OnTheWay, Crawl!Trying
  <2> QED
    BY <2>1, <2>2
<1>3. Sole'
  <2>1. \A x \in Handlers : Moving(x)' <=> Moving(x)
    BY <1>1 DEF Moving
  <2> QED
    BY <1>1, <2>1, SolePlaces
<1> QED
  BY <1>2, <1>3

LEMMA CrawlStepInv == CrawlInv /\ [Crawl!Next]_(Crawl!vars) => CrawlInv'
<1> SUFFICES ASSUME CrawlInv, [Crawl!Next]_(Crawl!vars) PROVE CrawlInv'
  OBVIOUS
<1>1. CASE UNCHANGED Crawl!vars
  <2>1. UNCHANGED <<seen, queue, hosts, gate, lastHost, crawlPc, crawlUrl, crawlTodo, handed, lost, windows, died>>
    BY <1>1 DEF Crawl!vars, Crawl!redis, Crawl!handler, Crawl!history
  <2>2. Crawl!TypeOK'
    BY <2>1 DEF CrawlInv, Crawl!TypeOK
  <2>3. OnTheWay'
    BY <2>1 DEF CrawlInv, OnTheWay, Crawl!Trying
  <2>4. Sole'
    BY <2>1, SolePlaces DEF Moving
  <2> QED
    BY <2>2, <2>3, <2>4 DEF CrawlInv
<1> QED
  BY <1>1, AdmitInv, AddIfNewInv, PushInv, ListHostInv, NextUrlInv, ReadHostsInv, ReadSizeInv, TryOpenInv, PopInv,
     ReadLeftInv, UnlistInv, FailInv, GateExpiresInv DEF Crawl!Next, Crawl!Advance

\* A URL that was admitted is at one place, in a queue, on its way or handed out, after every step.
THEOREM CrawlInvariance == Crawl!Spec => []CrawlInv
BY CrawlInitInv, CrawlStepInv, PTL DEF Crawl!Spec

\* A set of at most one.
LEMMA CountOne == ASSUME NEW S, \A a, b \in S : a = b PROVE Cardinality(S) = IF S = {} THEN 0 ELSE 1
<1>1. CASE S = {}
  BY <1>1, FS_EmptySet
<1>2. CASE S # {}
  <2>1. PICK a \in S : S = {a}
    BY <1>2
  <2>2. Cardinality({a}) = 1
    BY FS_Singleton
  <2> QED
    BY <1>2, <2>1, <2>2
<1> QED
  BY <1>1, <1>2

LEMMA SeenAtOnePlace == CrawlInv => Crawl!SeenOnce
<1> SUFFICES ASSUME CrawlInv PROVE Crawl!SeenOnce
  OBVIOUS
<1> USE DEF CrawlInv
<1>1. ASSUME NEW k \in seen
      PROVE  Cardinality({x \in Handlers : k \in Crawl!Held(x)}) + Cardinality({h \in Crawl!HostSet : k \in Crawl!Range(queue[h])})
               + Cardinality({i \in DOMAIN handed : handed[i] = k}) + (IF k \in lost THEN 1 ELSE 0) = 1
  <2>1. PICK H, Q, F : /\ H = {x \in Handlers : k \in Crawl!Held(x)} /\ Q = {h \in Crawl!HostSet : k \in Crawl!Range(queue[h])}
                       /\ F = {i \in DOMAIN handed : handed[i] = k}
    OBVIOUS
  <2>2. k \in Crawl!Keys
    BY DEF Crawl!TypeOK
  <2>3. \A x \in H : x \in Handlers /\ Moving(x) /\ crawlUrl[x] = k
    BY <2>1 DEF Crawl!Held, Moving
  <2>4. H # {} <=> HeldBy(k)
    <3>1. \A x \in Handlers : Moving(x) /\ crawlUrl[x] = k => x \in H
      BY <2>1 DEF Crawl!Held, Moving
    <3> QED
      BY <2>3, <3>1 DEF HeldBy
  <2>5. Cardinality(H) = IF HeldBy(k) THEN 1 ELSE 0
    <3>1. \A x, y \in H : x = y
      BY <2>3 DEF Sole
    <3> QED
      BY <2>4, <3>1, CountOne
  <2>6. \A h \in Q : h \in Crawl!HostSet /\ \E i \in DOMAIN queue[h] : queue[h][i] = k
    BY <2>1 DEF Crawl!Range
  <2>7. Q # {} <=> Queued(k)
    <3>1. \A h \in Crawl!HostSet : (\E i \in DOMAIN queue[h] : queue[h][i] = k) => h \in Q
      BY <2>1 DEF Crawl!Range
    <3> QED
      BY <2>6, <3>1 DEF Queued
  <2>8. Cardinality(Q) = IF Queued(k) THEN 1 ELSE 0
    <3>1. \A g, h \in Q : g = h
      BY <2>6 DEF OnTheWay
    <3> QED
      BY <2>7, <3>1, CountOne
  <2>9. Cardinality(F) = IF HandedOut(k) THEN 1 ELSE 0
    <3>1. \A i, j \in F : i = j
      BY <2>1 DEF Sole
    <3>2. F # {} <=> HandedOut(k)
      BY <2>1 DEF HandedOut
    <3> QED
      BY <3>1, <3>2, CountOne
  <2>10. Cardinality(H) + Cardinality(Q) + Cardinality(F) + (IF k \in lost THEN 1 ELSE 0) = 1
    <3>1. HeldBy(k) \/ Queued(k) \/ HandedOut(k) \/ k \in lost
      BY <2>2 DEF Sole
    <3>2. /\ ~(HeldBy(k) /\ Queued(k)) /\ ~(HeldBy(k) /\ HandedOut(k)) /\ ~(HeldBy(k) /\ k \in lost)
          /\ ~(Queued(k) /\ HandedOut(k)) /\ ~(Queued(k) /\ k \in lost) /\ ~(HandedOut(k) /\ k \in lost)
      BY <2>2 DEF Sole
    <3>3. CASE HeldBy(k)
      BY <2>5, <2>8, <2>9, <3>2, <3>3
    <3>4. CASE Queued(k)
      BY <2>5, <2>8, <2>9, <3>2, <3>4
    <3>5. CASE HandedOut(k)
      BY <2>5, <2>8, <2>9, <3>2, <3>5
    <3>6. CASE k \in lost
      BY <2>5, <2>8, <2>9, <3>2, <3>6
    <3> QED
      BY <3>1, <3>3, <3>4, <3>5, <3>6
  <2> QED
    BY <2>1, <2>10
<1>2. \A h \in Crawl!HostSet : Crawl!IsInjective(queue[h])
  BY DEF Sole, Crawl!IsInjective
<1> QED
  BY <1>1, <1>2, SameFiniteSets DEF Crawl!SeenOnce

\* A URL is queued or handed out at most once, in whichever spelling (UrlDeduper).
THEOREM CrawlSeenOnce == Crawl!Spec => []Crawl!SeenOnce
BY SeenAtOnePlace, CrawlInvariance, PTL

\* Each URL that is out was let out by a window of its host's gate.
Fetched(h) == {i \in DOMAIN handed : HostOf[handed[i]] = h}
Fetching(x) == crawlPc[x] \in {"pop", "left", "unlist"}
Away(h) == {x \in Handlers : Fetching(x) /\ Crawl!Trying(x) = h}
Paced == \A h \in Crawl!HostSet : Cardinality(Fetched(h)) + Cardinality(Away(h)) <= windows[h]

LEMMA FetchNumbers ==
  ASSUME CrawlInv, NEW h
  PROVE  /\ IsFiniteSet(Fetched(h)) /\ Cardinality(Fetched(h)) \in Nat
         /\ IsFiniteSet(Away(h)) /\ Cardinality(Away(h)) \in Nat
<1>1. PICK n \in Nat : DOMAIN handed = 1..n
  BY DEF CrawlInv, Crawl!TypeOK
<1>2. Fetched(h) \subseteq 1..n /\ IsFiniteSet(1..n)
  <2>1. Fetched(h) \subseteq 1..n
    BY <1>1 DEF Fetched
  <2>2. IsFiniteSet(1..n)
    BY FS_Interval
  <2> QED
    BY <2>1, <2>2
<1>3. Away(h) \subseteq Handlers /\ IsFiniteSet(Handlers)
  BY StudiesAssumption, SameFiniteSets DEF Away, Crawl!WellFormed
<1> QED
  BY <1>2, <1>3, FS_Subset, FS_CardinalityType

\* A step that lets no one out.
LEMMA PacedSame ==
  ASSUME CrawlInv, Paced, handed' = handed, windows' = windows,
         \A x \in Handlers : Fetching(x)' => Fetching(x) /\ Crawl!Trying(x)' = Crawl!Trying(x)
  PROVE  Paced'
<1> SUFFICES ASSUME NEW h \in Crawl!HostSet PROVE Cardinality(Fetched(h)') + Cardinality(Away(h)') <= windows'[h]
  BY DEF Paced
<1>1. Fetched(h)' = Fetched(h) /\ Away(h)' \subseteq Away(h)
  BY DEF Fetched, Away
<1>2. Cardinality(Away(h)') <= Cardinality(Away(h)) /\ Cardinality(Away(h)') \in Nat
  BY <1>1, FetchNumbers, FS_Subset, FS_CardinalityType
<1>3. windows[h] \in Nat
  BY DEF CrawlInv, Crawl!TypeOK
<1> QED
  BY <1>1, <1>2, <1>3, FetchNumbers DEF Paced

\* A window opens.
LEMMA PacedOpens ==
  ASSUME CrawlInv, Paced, NEW x \in Handlers, NEW h \in Crawl!HostSet, h = Crawl!Trying(x), ~Fetching(x), handed' = handed,
         windows' = [windows EXCEPT ![h] = windows[h] + 1],
         \A y \in Handlers : y # x => (Fetching(y)' <=> Fetching(y)) /\ Crawl!Trying(y)' = Crawl!Trying(y), Crawl!Trying(x)' = Crawl!Trying(x)
  PROVE  Paced'
<1> SUFFICES ASSUME NEW g \in Crawl!HostSet PROVE Cardinality(Fetched(g)') + Cardinality(Away(g)') <= windows'[g]
  BY DEF Paced
<1>1. Fetched(g)' = Fetched(g)
  BY DEF Fetched
<1>2. windows[g] \in Nat /\ windows'[g] = IF g = h THEN windows[g] + 1 ELSE windows[g]
  BY DEF CrawlInv, Crawl!TypeOK
<1>3. CASE g = h
  <2>1. Away(g)' \subseteq Away(g) \cup {x}
    BY DEF Away
  <2>2. x \notin Away(g)
    BY DEF Away
  <2>3. IsFiniteSet(Away(g) \cup {x}) /\ Cardinality(Away(g) \cup {x}) = Cardinality(Away(g)) + 1
    BY <2>2, FetchNumbers, FS_AddElement
  <2>4. Cardinality(Away(g)') <= Cardinality(Away(g)) + 1 /\ Cardinality(Away(g)') \in Nat
    BY <2>1, <2>3, FS_Subset, FS_CardinalityType
  <2> QED
    BY <1>1, <1>2, <1>3, <2>4, FetchNumbers DEF Paced
<1>4. CASE g # h
  <2>1. Away(g)' = Away(g)
    BY <1>4 DEF Away
  <2> QED
    BY <1>1, <1>2, <1>4, <2>1 DEF Paced
<1> QED
  BY <1>3, <1>4

\* What was popped is handed out.
LEMMA PacedHanded ==
  ASSUME CrawlInv, Paced, NEW x \in Handlers, crawlPc[x] \in {"left", "unlist"}, Crawl!Hand(x), Crawl!End(x), windows' = windows
  PROVE  Paced'
<1> USE DEF CrawlInv
<1>1. ~Fetching(x)' /\ \A y \in Handlers : y # x => (Fetching(y)' <=> Fetching(y)) /\ Crawl!Trying(y)' = Crawl!Trying(y)
  BY EndLeaves DEF Fetching
<1>2. CASE crawlUrl[x] = NoUrl
  <2>1. handed' = handed
    BY <1>2 DEF Crawl!Hand
  <2>2. \A y \in Handlers : Fetching(y)' => Fetching(y) /\ Crawl!Trying(y)' = Crawl!Trying(y)
    BY <1>1
  <2> QED
    BY <2>1, <2>2, PacedSame
<1>3. CASE crawlUrl[x] # NoUrl
  <2>1. PICK k, h : k = crawlUrl[x] /\ h = Crawl!Trying(x)
    OBVIOUS
  <2>2. k \in Crawl!Keys /\ HostOf[k] = h /\ handed' = Append(handed, k)
    BY <1>3, <2>1 DEF Crawl!TypeOK, OnTheWay, Crawl!Hand
  <2>3. PICK n : n = Len(handed)
    OBVIOUS
  <2>4. /\ n \in Nat /\ DOMAIN handed = 1..n /\ DOMAIN handed' = 1..(n + 1)
        /\ handed'[n + 1] = k /\ \A i \in 1..n : handed'[i] = handed[i]
    BY <2>2, <2>3 DEF Crawl!TypeOK
  <2> SUFFICES ASSUME NEW g \in Crawl!HostSet PROVE Cardinality(Fetched(g)') + Cardinality(Away(g)') <= windows'[g]
    BY DEF Paced
  <2>5. windows[g] \in Nat /\ windows'[g] = windows[g]
    BY DEF Crawl!TypeOK
  <2>6. CASE g = h
    <3>1. Fetched(g)' = Fetched(g) \cup {n + 1}
      BY <2>2, <2>4, <2>6 DEF Fetched
    <3>2. n + 1 \notin Fetched(g)
      BY <2>4 DEF Fetched
    <3>3. Cardinality(Fetched(g)') = Cardinality(Fetched(g)) + 1
      BY <3>1, <3>2, FetchNumbers, FS_AddElement
    <3>4. Away(g)' = Away(g) \ {x}
      BY <1>1 DEF Away
    <3>5. x \in Away(g)
      BY <2>1, <2>6 DEF Away, Fetching
    <3>6. Cardinality(Away(g)') = Cardinality(Away(g)) - 1
      BY <3>4, <3>5, FetchNumbers, FS_RemoveElement
    <3> QED
      BY <2>5, <3>3, <3>6, FetchNumbers DEF Paced
  <2>7. CASE g # h
    <3>1. Fetched(g)' = Fetched(g)
      BY <2>2, <2>4, <2>7 DEF Fetched
    <3>2. Away(g)' = Away(g)
      BY <1>1, <2>1, <2>7 DEF Away
    <3> QED
      BY <2>5, <3>1, <3>2 DEF Paced
  <2> QED
    BY <2>6, <2>7
<1> QED
  BY <1>2, <1>3

LEMMA PacedStep == CrawlInv /\ Paced /\ [Crawl!Next]_(Crawl!vars) => Paced'
<1> SUFFICES ASSUME CrawlInv, Paced, [Crawl!Next]_(Crawl!vars) PROVE Paced'
  OBVIOUS
<1> USE DEF CrawlInv
<1>1. ASSUME NEW x \in Handlers, crawlPc'[x] \notin {"pop", "left", "unlist"}, handed' = handed, windows' = windows,
             \A y \in Handlers : y # x => crawlPc'[y] = crawlPc[y] /\ crawlTodo'[y] = crawlTodo[y]
      PROVE  Paced'
  <2>1. \A y \in Handlers : Fetching(y)' => Fetching(y) /\ Crawl!Trying(y)' = Crawl!Trying(y)
    BY <1>1 DEF Fetching, Crawl!Trying
  <2> QED
    BY <1>1, <2>1, PacedSame
<1>2. ASSUME NEW x \in Handlers, Crawl!End(x), handed' = handed, windows' = windows PROVE Paced'
  BY <1>1, <1>2, EndLeaves
<1>3. ASSUME NEW x \in Handlers, NEW u \in Spellings, Crawl!Admit(x, u) PROVE Paced'
  BY <1>1, <1>3 DEF Crawl!Admit, Crawl!Goto, Crawl!history, Crawl!TypeOK
<1>4. ASSUME NEW x \in Handlers, Crawl!AddIfNew(x) PROVE Paced'
  <2>1. CASE Crawl!End(x)
    BY <1>2, <1>4, <2>1 DEF Crawl!AddIfNew, Crawl!history
  <2>2. CASE Crawl!Goto(x, "push") /\ UNCHANGED <<crawlUrl, crawlTodo>>
    BY <1>1, <1>4, <2>2 DEF Crawl!AddIfNew, Crawl!Goto, Crawl!history, Crawl!TypeOK
  <2> QED
    BY <1>4, <2>1, <2>2 DEF Crawl!AddIfNew
<1>5. ASSUME NEW x \in Handlers, Crawl!Push(x) PROVE Paced'
  BY <1>1, <1>5 DEF Crawl!Push, Crawl!Goto, Crawl!history, Crawl!TypeOK
<1>6. ASSUME NEW x \in Handlers, Crawl!ListHost(x) PROVE Paced'
  BY <1>2, <1>6 DEF Crawl!ListHost, Crawl!history
<1>7. ASSUME NEW x \in Handlers, Crawl!NextUrl(x) PROVE Paced'
  BY <1>1, <1>7 DEF Crawl!NextUrl, Crawl!Goto, Crawl!history, Crawl!TypeOK
<1>8. ASSUME NEW x \in Handlers, Crawl!ReadHosts(x) PROVE Paced'
  <2>1. CASE Crawl!End(x)
    BY <1>2, <1>8, <2>1 DEF Crawl!ReadHosts, Crawl!history
  <2>2. CASE crawlTodo' = [crawlTodo EXCEPT ![x] = Crawl!Rotation] /\ Crawl!Goto(x, "size") /\ UNCHANGED crawlUrl
    BY <1>1, <1>8, <2>2 DEF Crawl!ReadHosts, Crawl!Goto, Crawl!history, Crawl!TypeOK
  <2> QED
    BY <1>8, <2>1, <2>2 DEF Crawl!ReadHosts
<1>9. ASSUME NEW x \in Handlers, Crawl!ReadSize(x) PROVE Paced'
  <2>1. CASE Crawl!End(x)
    BY <1>2, <1>9, <2>1 DEF Crawl!ReadSize, Crawl!history
  <2>2. CASE Crawl!Skip(x)
    BY <1>1, <1>9, <2>2 DEF Crawl!ReadSize, Crawl!Skip, Crawl!Goto, Crawl!history, Crawl!TypeOK
  <2>3. CASE Crawl!Goto(x, "gate") /\ UNCHANGED <<crawlUrl, crawlTodo>>
    BY <1>1, <1>9, <2>3 DEF Crawl!ReadSize, Crawl!Goto, Crawl!history, Crawl!TypeOK
  <2> QED
    BY <1>9, <2>1, <2>2, <2>3 DEF Crawl!ReadSize
<1>10. ASSUME NEW x \in Handlers, Crawl!TryOpen(x) PROVE Paced'
  <2>1. PICK h : h = Crawl!Trying(x)
    OBVIOUS
  <2>2. crawlPc[x] = "gate" /\ h \in Crawl!HostSet /\ handed' = handed
    BY <1>10, <2>1, TryingHost DEF Crawl!TryOpen, Crawl!TypeOK
  <2>3. CASE Crawl!Open(h)
    <3>1. /\ windows' = [windows EXCEPT ![h] = windows[h] + 1] /\ crawlPc' = [crawlPc EXCEPT ![x] = "pop"] /\ crawlTodo' = crawlTodo
      BY <1>10, <2>1, <2>3 DEF Crawl!TryOpen, Crawl!Goto, Crawl!Open
    <3>2. /\ ~Fetching(x) /\ \A y \in Handlers : y # x => (Fetching(y)' <=> Fetching(y))
          /\ \A y \in Handlers : Crawl!Trying(y)' = Crawl!Trying(y)
      BY <2>2, <3>1 DEF Fetching, Crawl!Trying, Crawl!TypeOK
    <3> QED
      BY <2>1, <2>2, <3>1, <3>2, PacedOpens
  <2>4. CASE ~Crawl!Open(h)
    BY <1>1, <1>10, <2>1, <2>2, <2>4 DEF Crawl!TryOpen, Crawl!Skip, Crawl!Goto, Crawl!TypeOK
  <2> QED
    BY <2>3, <2>4
<1>11. ASSUME NEW x \in Handlers, Crawl!Pop(x) PROVE Paced'
  <2>1. \A y \in Handlers : Fetching(y)' => Fetching(y) /\ Crawl!Trying(y)' = Crawl!Trying(y)
    BY <1>11 DEF Crawl!Pop, Crawl!Goto, Fetching, Crawl!Trying, Crawl!TypeOK
  <2> QED
    BY <1>11, <2>1, PacedSame DEF Crawl!Pop, Crawl!history
<1>12. ASSUME NEW x \in Handlers, Crawl!ReadLeft(x) PROVE Paced'
  <2>1. crawlPc[x] = "left" /\ windows' = windows
    BY <1>12 DEF Crawl!ReadLeft
  <2>2. CASE Crawl!Hand(x) /\ Crawl!End(x)
    BY <2>1, <2>2, PacedHanded
  <2>3. CASE Crawl!Goto(x, "unlist") /\ UNCHANGED <<crawlUrl, crawlTodo, handed>>
    <3>1. \A y \in Handlers : Fetching(y)' => Fetching(y) /\ Crawl!Trying(y)' = Crawl!Trying(y)
      BY <2>1, <2>3 DEF Crawl!Goto, Fetching, Crawl!Trying, Crawl!TypeOK
    <3> QED
      BY <2>1, <2>3, <3>1, PacedSame
  <2> QED
    BY <1>12, <2>2, <2>3 DEF Crawl!ReadLeft
<1>13. ASSUME NEW x \in Handlers, Crawl!Unlist(x) PROVE Paced'
  BY <1>13, PacedHanded DEF Crawl!Unlist
<1>14. ASSUME NEW x \in Handlers, Crawl!Fail(x) PROVE Paced'
  BY <1>2, <1>14 DEF Crawl!Fail
<1>15. ASSUME NEW h \in Crawl!HostSet, Crawl!GateExpires(h) PROVE Paced'
  <2>1. \A y \in Handlers : Fetching(y)' => Fetching(y) /\ Crawl!Trying(y)' = Crawl!Trying(y)
    BY <1>15 DEF Crawl!GateExpires, Crawl!handler, Fetching, Crawl!Trying
  <2> QED
    BY <1>15, <2>1, PacedSame DEF Crawl!GateExpires, Crawl!history
<1>16. CASE UNCHANGED Crawl!vars
  <2>1. \A y \in Handlers : Fetching(y)' => Fetching(y) /\ Crawl!Trying(y)' = Crawl!Trying(y)
    BY <1>16 DEF Crawl!vars, Crawl!handler, Fetching, Crawl!Trying
  <2> QED
    BY <1>16, <2>1, PacedSame DEF Crawl!vars, Crawl!history
<1> QED
  BY <1>3, <1>4, <1>5, <1>6, <1>7, <1>8, <1>9, <1>10, <1>11, <1>12, <1>13, <1>14, <1>15, <1>16 DEF Crawl!Next, Crawl!Advance

\* A host is popped at most once per window of its gate (PolitenessGate, FrontierScheduler.next).
THEOREM CrawlPaced == Crawl!Spec => []Crawl!PopsWithinWindows
<1>1. Crawl!Init => Paced
  <2> SUFFICES ASSUME Crawl!Init, NEW h \in Crawl!HostSet PROVE Cardinality(Fetched(h)) + Cardinality(Away(h)) <= windows[h]
    BY DEF Paced
  <2>1. Fetched(h) = {} /\ Away(h) = {} /\ windows[h] = 0
    BY DEF Crawl!Init, Fetched, Away, Fetching
  <2> QED
    BY <2>1, FS_EmptySet
<1>2. Paced => Crawl!PopsWithinWindows
  BY SameFiniteSets DEF Paced, Crawl!PopsWithinWindows, Fetched, Away, Fetching
<1> QED
  BY <1>1, <1>2, PacedStep, CrawlInvariance, PTL DEF Crawl!Spec

-----------------------------------------------------------------------------
(* The rate limiter *)

\* The period is a number, and a bucket's content is counted call by call.
LEMMA Rules ==
  /\ RuleLimit \in Nat /\ RuleLimit >= 1 /\ Unit \in Nat /\ Unit >= 1 /\ MaxLag \in Nat /\ MaxLead \in Nat
  /\ Limiter!Period \in Nat /\ Limiter!Period >= 1 /\ Limiter!Period >= Unit
  /\ Unit * 0 = 0
  /\ \A n \in Int : Unit * n \in Int /\ Unit * (n + 1) = Unit * n + Unit
<1>1. RuleLimit \in Nat /\ RuleLimit >= 1 /\ Unit \in Nat /\ Unit >= 1 /\ MaxLag \in Nat /\ MaxLead \in Nat
  BY StudiesAssumption DEF Limiter!WellFormed
<1>2. \A n \in Int : Unit * n \in Int /\ Unit * (n + 1) = Unit * n + Unit
  BY <1>1
<1>3. RuleLimit * Unit \in Nat /\ RuleLimit * Unit >= Unit
  <2>1. PICK n \in Nat : RuleLimit = n + 1
    BY <1>1
  <2>2. n * Unit \in Nat /\ (n + 1) * Unit = n * Unit + Unit
    BY <1>1
  <2> QED
    BY <1>1, <2>1, <2>2
<1> QED
  BY <1>1, <1>2, <1>3 DEF Limiter!Period

LEMMA Lesser ==
  ASSUME NEW a \in Int, NEW b \in Int
  PROVE  Limiter!Min({a, b}) \in Int /\ Limiter!Min({a, b}) <= a /\ Limiter!Min({a, b}) <= b
<1>1. \E x \in {a, b} : \A y \in {a, b} : x <= y
  <2>1. a <= b \/ b <= a
    OBVIOUS
  <2> QED
    BY <2>1
<1> QED
  BY <1>1 DEF Limiter!Min

-----------------------------------------------------------------------------
\* The calls counted up to a time grow with it, up to the clock.
Rising(calls) ==
  /\ \A s, t \in Limiter!Times : s <= t => calls[s] <= calls[t]
  /\ \A t \in Limiter!Times : clock <= t => calls[t] = calls[clock]
  /\ calls[0] >= 0

Admissions == Rising(admitted) /\ Rising(repeated)

LEMMA CountedTypes ==
  ASSUME NEW calls \in [Limiter!Times -> Nat], NEW s \in Limiter!Times, NEW t \in Limiter!Times
  PROVE  Limiter!Counted(calls, s, t) \in Int
BY Rules, StudiesAssumption DEF Limiter!Counted, Limiter!Times, Limiter!WellFormed

LEMMA CountedRising ==
  ASSUME Limiter!TypeOK, NEW calls \in [Limiter!Times -> Nat], Rising(calls),
         NEW s \in Limiter!Times, NEW t \in Limiter!Times
  PROVE  /\ s <= t => Limiter!Counted(calls, s, t) >= 0
         /\ s <= clock /\ clock <= t => Limiter!Counted(calls, s, t) = Limiter!Counted(calls, s, clock)
         /\ s <= t /\ t <= clock => Limiter!Counted(calls, s, t) <= Limiter!Counted(calls, s, clock)
         /\ clock < s /\ s <= t => Limiter!Counted(calls, s, t) = 0
         /\ \A w \in Limiter!Times : s < w /\ w <= t =>
              Limiter!Counted(calls, s, t) = Limiter!Counted(calls, s, w - 1) + Limiter!Counted(calls, w, t)
<1>1. clock \in Limiter!Times /\ s \in Nat /\ t \in Nat /\ Limiter!Times \subseteq Nat
  BY StudiesAssumption DEF Limiter!TypeOK, Limiter!Times, Limiter!WellFormed
<1>2. s # 0 => s - 1 \in Limiter!Times
  BY StudiesAssumption DEF Limiter!Times, Limiter!WellFormed
<1>3. \A x \in Limiter!Times : calls[x] \in Nat
  OBVIOUS
<1>4. s <= t => Limiter!Counted(calls, s, t) >= 0
  BY <1>1, <1>2, <1>3 DEF Limiter!Counted, Rising
<1>5. s <= clock /\ clock <= t => Limiter!Counted(calls, s, t) = Limiter!Counted(calls, s, clock)
  BY <1>1, <1>2, <1>3 DEF Limiter!Counted, Rising
<1>6. s <= t /\ t <= clock => Limiter!Counted(calls, s, t) <= Limiter!Counted(calls, s, clock)
  BY <1>1, <1>2, <1>3 DEF Limiter!Counted, Rising
<1>7. clock < s /\ s <= t => Limiter!Counted(calls, s, t) = 0
  BY <1>1, <1>2, <1>3 DEF Limiter!Counted, Rising
<1>8. \A w \in Limiter!Times : s < w /\ w <= t =>
        Limiter!Counted(calls, s, t) = Limiter!Counted(calls, s, w - 1) + Limiter!Counted(calls, w, t)
  <2>1. SUFFICES ASSUME NEW w \in Limiter!Times, s < w, w <= t
                 PROVE  Limiter!Counted(calls, s, t) = Limiter!Counted(calls, s, w - 1) + Limiter!Counted(calls, w, t)
    OBVIOUS
  <2>2. w # 0 /\ w - 1 \in Limiter!Times
    BY <1>1, <2>1, StudiesAssumption DEF Limiter!Times, Limiter!WellFormed
  <2> QED
    BY <1>1, <1>2, <1>3, <2>1, <2>2 DEF Limiter!Counted
<1> QED
  BY <1>4, <1>5, <1>6, <1>7, <1>8

\* One call more, at the clock.
LEMMA OneMoreCounted ==
  ASSUME Limiter!TypeOK, NEW calls \in [Limiter!Times -> Nat], NEW s \in Limiter!Times, NEW t \in Limiter!Times, s <= t
  PROVE  /\ Limiter!OneMore(calls) \in [Limiter!Times -> Nat]
         /\ Limiter!Counted(Limiter!OneMore(calls), s, t)
              = Limiter!Counted(calls, s, t) + (IF s <= clock /\ clock <= t THEN 1 ELSE 0)
<1>1. clock \in Nat /\ s \in Nat /\ t \in Nat
  BY StudiesAssumption DEF Limiter!TypeOK, Limiter!Times, Limiter!WellFormed
<1>2. s # 0 => s - 1 \in Limiter!Times
  BY StudiesAssumption DEF Limiter!Times, Limiter!WellFormed
<1>3. \A x \in Limiter!Times : calls[x] \in Nat
  OBVIOUS
<1>4. PICK more : more = Limiter!OneMore(calls)
  OBVIOUS
<1>5. /\ more \in [Limiter!Times -> Nat]
      /\ \A x \in Limiter!Times : more[x] = calls[x] + (IF x >= clock THEN 1 ELSE 0)
  BY <1>3, <1>4 DEF Limiter!OneMore
<1>6. Limiter!Counted(more, s, t) = Limiter!Counted(calls, s, t) + (IF s <= clock /\ clock <= t THEN 1 ELSE 0)
  <2>1. CASE s = 0
    BY <1>1, <1>3, <1>5, <2>1 DEF Limiter!Counted
  <2>2. CASE s # 0
    <3>1. more[t] = calls[t] + (IF t >= clock THEN 1 ELSE 0)
      BY <1>5
    <3>2. more[s - 1] = calls[s - 1] + (IF s - 1 >= clock THEN 1 ELSE 0)
      BY <1>2, <1>5, <2>2
    <3>3. calls[t] \in Nat /\ calls[s - 1] \in Nat
      BY <1>2, <1>3, <2>2
    <3> QED
      BY <1>1, <2>2, <3>1, <3>2, <3>3 DEF Limiter!Counted
  <2> QED
    BY <2>1, <2>2
<1> QED
  BY <1>4, <1>5, <1>6

LEMMA OneMoreTypes ==
  ASSUME NEW calls \in [Limiter!Times -> Nat], Limiter!TypeOK
  PROVE  Limiter!OneMore(calls) \in [Limiter!Times -> Nat]
BY DEF Limiter!OneMore

LEMMA OneMoreRising ==
  ASSUME Limiter!TypeOK, NEW calls \in [Limiter!Times -> Nat], Rising(calls)
  PROVE  Rising(Limiter!OneMore(calls))
<1>1. clock \in Limiter!Times /\ Limiter!Times \subseteq Nat /\ 0 \in Limiter!Times
  BY StudiesAssumption DEF Limiter!TypeOK, Limiter!Times, Limiter!WellFormed
<1>2. PICK more : more = Limiter!OneMore(calls)
  OBVIOUS
<1>3. \A t \in Limiter!Times : calls[t] \in Nat /\ more[t] = calls[t] + (IF t >= clock THEN 1 ELSE 0)
  BY <1>2 DEF Limiter!OneMore
<1>4. \A s, t \in Limiter!Times : s <= t => more[s] <= more[t]
  BY <1>1, <1>3 DEF Rising
<1>5. \A t \in Limiter!Times : clock <= t => more[t] = more[clock]
  BY <1>1, <1>3 DEF Rising
<1>6. more[0] >= 0
  BY <1>1, <1>3
<1> QED
  BY <1>2, <1>4, <1>5, <1>6 DEF Rising

\* The same of the two histories.
LEMMA WithinTypes ==
  ASSUME Limiter!TypeOK, NEW s \in Limiter!Times, NEW t \in Limiter!Times
  PROVE  Limiter!Within(s, t) \in Int
BY CountedTypes DEF Limiter!Within, Limiter!TypeOK

LEMMA WithinCounted ==
  ASSUME Limiter!TypeOK, Admissions, NEW s \in Limiter!Times, NEW t \in Limiter!Times
  PROVE  /\ s <= t => Limiter!Within(s, t) >= 0
         /\ s <= clock /\ clock <= t => Limiter!Within(s, t) = Limiter!Within(s, clock)
         /\ s <= t /\ t <= clock => Limiter!Within(s, t) <= Limiter!Within(s, clock)
         /\ clock < s /\ s <= t => Limiter!Within(s, t) = 0
         /\ \A w \in Limiter!Times : s < w /\ w <= t =>
              Limiter!Within(s, t) = Limiter!Within(s, w - 1) + Limiter!Within(w, t)
<1>1. admitted \in [Limiter!Times -> Nat] /\ Rising(admitted)
  BY DEF Admissions, Limiter!TypeOK
<1> QED
  BY <1>1, CountedRising DEF Limiter!Within

LEMMA RepeatsCounted ==
  ASSUME Limiter!TypeOK, Admissions, NEW s \in Limiter!Times, NEW t \in Limiter!Times, s <= t
  PROVE  /\ Limiter!Repeats(s, t) \in Int /\ Limiter!Repeats(s, t) >= 0
         /\ s <= clock /\ clock <= t => Limiter!Repeats(s, t) = Limiter!Repeats(s, clock)
<1>1. repeated \in [Limiter!Times -> Nat] /\ Rising(repeated)
  BY DEF Admissions, Limiter!TypeOK
<1>2. Limiter!Counted(repeated, s, t) \in Int
  BY <1>1, CountedTypes
<1>3. /\ Limiter!Counted(repeated, s, t) >= 0
      /\ s <= clock /\ clock <= t => Limiter!Counted(repeated, s, t) = Limiter!Counted(repeated, s, clock)
  BY <1>1, CountedRising
<1> QED
  BY <1>2, <1>3 DEF Limiter!Repeats

LEMMA WithinAdmitted ==
  ASSUME Limiter!TypeOK, Limiter!Admit, NEW s \in Limiter!Times, NEW t \in Limiter!Times, s <= t
  PROVE  Limiter!Within(s, t)' = Limiter!Within(s, t) + (IF s <= clock /\ clock <= t THEN 1 ELSE 0)
<1>1. admitted \in [Limiter!Times -> Nat] /\ admitted' = Limiter!OneMore(admitted)
  BY DEF Limiter!TypeOK, Limiter!Admit
<1>2. Limiter!Counted(Limiter!OneMore(admitted), s, t)
        = Limiter!Counted(admitted, s, t) + (IF s <= clock /\ clock <= t THEN 1 ELSE 0)
  BY <1>1, OneMoreCounted
<1>3. Limiter!Within(s, t)' = Limiter!Counted(Limiter!OneMore(admitted), s, t)
  BY <1>1 DEF Limiter!Within, Limiter!Counted
<1> QED
  BY <1>2, <1>3 DEF Limiter!Within

LEMMA RepeatsAdded ==
  ASSUME Limiter!TypeOK, repeated' = Limiter!OneMore(repeated), NEW s \in Limiter!Times, NEW t \in Limiter!Times, s <= t
  PROVE  Limiter!Repeats(s, t)' = Limiter!Repeats(s, t) + (IF s <= clock /\ clock <= t THEN 1 ELSE 0)
<1>1. repeated \in [Limiter!Times -> Nat]
  BY DEF Limiter!TypeOK
<1>2. Limiter!Counted(Limiter!OneMore(repeated), s, t)
        = Limiter!Counted(repeated, s, t) + (IF s <= clock /\ clock <= t THEN 1 ELSE 0)
  BY <1>1, OneMoreCounted
<1>3. Limiter!Repeats(s, t)' = Limiter!Counted(Limiter!OneMore(repeated), s, t)
  BY DEF Limiter!Repeats, Limiter!Counted
<1> QED
  BY <1>2, <1>3 DEF Limiter!Repeats

-----------------------------------------------------------------------------
\* The key outlives the calls it has to remember.
Remembered ==
  \A s \in Limiter!Times : s <= clock /\ Limiter!Within(s, clock) > 0 =>
    expiry >= (IF algorithm = "fixed" THEN s ELSE s + Limiter!Period)

\* A fixed window began with its first call, which is one of the Limit, and before
\* it the window before let through as many without its own first call.
Windowed ==
  algorithm = "fixed" =>
    LET began == expiry - Limiter!Period IN
    /\ expiry <= clock + Limiter!Period
    /\ expiry # -1 => count >= 1 /\ began >= 0
    /\ \A s \in Limiter!Times : began <= s /\ s <= clock => Limiter!Within(s, clock) <= count /\ Limiter!Within(s, clock) <= RuleLimit
    /\ \A s \in Limiter!Times : began < s /\ s <= clock =>
         Limiter!Within(s, clock) <= RuleLimit - 1 /\ (Limiter!Within(s, clock) = 0 \/ Limiter!Within(s, clock) < count)
    /\ \A s \in Limiter!Times : began - Limiter!Period < s /\ s < began => Limiter!Within(s, began - 1) <= RuleLimit - 1

\* A sliding window has an entry for each call a late one may still have to count.
Listed ==
  algorithm = "sliding" =>
    /\ IsFiniteSet(entries) /\ Cardinality(entries) <= RuleLimit
    /\ \A s \in Limiter!Times : s <= clock /\ clock - s < Limiter!Period - MaxLag - MaxLead =>
         Limiter!Within(s, clock) <= Cardinality({e \in entries : e[1] >= s - MaxLag}) + Limiter!Repeats(s, clock)

\* A bucket has lost a token for each call, whatever came back.
Drawn ==
  algorithm = "bucket" =>
    \A s \in Limiter!Times : s <= clock /\ clock - s <= Limiter!Period /\ Limiter!Within(s, clock) > 0 =>
      tokens - ts + Unit * Limiter!Within(s, clock) <= Limiter!Period - s + MaxLag

LimiterInv == Limiter!TypeOK /\ Admissions /\ Remembered /\ Windowed /\ Listed /\ Drawn /\ Limiter!RateBounded

LEMMA LimiterInitInv == Limiter!Init => LimiterInv
<1> SUFFICES ASSUME Limiter!Init PROVE LimiterInv
  OBVIOUS
<1>1. Limiter!TypeOK
  BY Rules, StudiesAssumption DEF Limiter!Init, Limiter!TypeOK, Limiter!Times, Limiter!Stamps, Limiter!WellFormed
<1>2. Admissions
  BY StudiesAssumption DEF Limiter!Init, Admissions, Rising, Limiter!Times, Limiter!WellFormed
<1>3. \A s, t \in Limiter!Times : Limiter!Within(s, t) = 0 /\ Limiter!Repeats(s, t) = 0
  BY StudiesAssumption DEF Limiter!Init, Limiter!Within, Limiter!Repeats, Limiter!Counted, Limiter!Times, Limiter!WellFormed
<1>4. clock \in Limiter!Times /\ clock = 0 /\ expiry = -1 /\ count = 0 /\ entries = {}
  BY <1>1 DEF Limiter!Init, Limiter!TypeOK
<1>5. Remembered
  BY <1>3, <1>4 DEF Remembered
<1>6. Windowed
  <2>1. \A s \in Limiter!Times : s \in Nat
    BY DEF Limiter!Times
  <2> QED
    BY <1>3, <1>4, <2>1, Rules DEF Windowed
<1>7. Listed
  <2>1. IsFiniteSet(entries) /\ Cardinality(entries) = 0
    BY <1>4, FS_EmptySet
  <2>2. \A s : {e \in entries : e[1] >= s - MaxLag} = entries
    BY <1>4
  <2> QED
    BY <1>3, <1>4, <2>1, <2>2, Rules DEF Listed
<1>8. Drawn
  BY <1>3, <1>4 DEF Drawn
<1>9. Limiter!RateBounded
  <2>1. SUFFICES ASSUME NEW s \in Limiter!Times, NEW t \in s..MaxTime
                 PROVE  /\ Limiter!Within(s, t) <= 2 * RuleLimit - 1 /\ Limiter!Within(s, t) <= RuleLimit + Limiter!Repeats(s, t)
                        /\ Unit * Limiter!Within(s, t) <= Limiter!Period + (t - s) + MaxLag + MaxLead
    BY DEF Limiter!RateBounded
  <2>2. t \in Limiter!Times /\ s \in Nat /\ t \in Nat /\ s <= t
    BY StudiesAssumption DEF Limiter!Times, Limiter!WellFormed
  <2> QED
    BY <1>3, <2>2, Rules
<1> QED
  BY <1>1, <1>2, <1>5, <1>6, <1>7, <1>8, <1>9 DEF LimiterInv

-----------------------------------------------------------------------------
LEMMA Ticks == LimiterInv /\ Limiter!Tick => LimiterInv'
<1> SUFFICES ASSUME LimiterInv, Limiter!Tick PROVE LimiterInv'
  OBVIOUS
<1> USE DEF LimiterInv
<1>1. clock' = clock + 1 /\ clock \in Limiter!Times /\ clock' \in Limiter!Times /\ Limiter!Times \subseteq Nat
  BY StudiesAssumption DEF Limiter!Tick, Limiter!TypeOK, Limiter!Times, Limiter!WellFormed
<1>2. Limiter!TypeOK'
  BY <1>1 DEF Limiter!Tick, Limiter!history, Limiter!TypeOK
<1>3. Admissions'
  BY <1>1 DEF Limiter!Tick, Limiter!history, Admissions, Rising
<1>4. \A s, t \in Limiter!Times : Limiter!Within(s, t)' = Limiter!Within(s, t) /\ Limiter!Repeats(s, t)' = Limiter!Repeats(s, t)
  BY DEF Limiter!Tick, Limiter!history, Limiter!Within, Limiter!Repeats, Limiter!Counted
<1>5. ASSUME NEW s \in Limiter!Times, s <= clock'
      PROVE  /\ \/ s <= clock /\ Limiter!Within(s, clock') = Limiter!Within(s, clock) /\ Limiter!Repeats(s, clock') = Limiter!Repeats(s, clock)
                \/ s = clock' /\ Limiter!Within(s, clock') = 0
             /\ Limiter!Repeats(s, clock') \in Int /\ Limiter!Repeats(s, clock') >= 0
  <2>1. PICK c \in Limiter!Times : c = clock'
    BY <1>1
  <2>2. s \in Nat /\ clock \in Nat /\ (s <= clock \/ s = c)
    BY <1>1, <1>5, <2>1
  <2>3. s <= clock => Limiter!Within(s, c) = Limiter!Within(s, clock)
    BY <1>1, <2>1, WithinCounted
  <2>4. s = c => Limiter!Within(s, c) = 0
    BY <1>1, <2>1, <2>2, WithinCounted
  <2>5. /\ Limiter!Repeats(s, c) \in Int /\ Limiter!Repeats(s, c) >= 0
        /\ s <= clock => Limiter!Repeats(s, c) = Limiter!Repeats(s, clock)
    BY <1>1, <1>5, <2>1, <2>2, RepeatsCounted
  <2> QED
    BY <2>1, <2>2, <2>3, <2>4, <2>5
<1>6. \A s \in Limiter!Times : Limiter!Within(s, clock)' = Limiter!Within(s, clock') /\ Limiter!Repeats(s, clock)' = Limiter!Repeats(s, clock')
  BY <1>1 DEF Limiter!Tick, Limiter!history, Limiter!Within, Limiter!Repeats, Limiter!Counted
<1>7. \A s \in Limiter!Times : Limiter!Within(s, clock) \in Int
  BY <1>1, WithinTypes
<1>8. Remembered'
  BY <1>1, <1>5, <1>6, Rules DEF Limiter!Tick, Remembered
<1>9. Windowed'
  <2>1. SUFFICES ASSUME algorithm = "fixed" PROVE Windowed'
    BY DEF Limiter!Tick, Windowed
  <2>2. expiry' = expiry /\ count' = count /\ expiry \in Int /\ count \in Nat
    BY DEF Limiter!Tick, Limiter!TypeOK
  <2>3. \A s \in Limiter!Times : expiry - Limiter!Period - Limiter!Period < s /\ s < expiry - Limiter!Period =>
          Limiter!Within(s, expiry - Limiter!Period - 1)' <= RuleLimit - 1
    BY <2>1 DEF Limiter!Tick, Limiter!history, Windowed, Limiter!Within, Limiter!Counted
  <2>4. expiry' <= clock' + Limiter!Period /\ (expiry' # -1 => count' >= 1 /\ expiry' - Limiter!Period >= 0)
    BY <1>1, <2>1, <2>2, Rules DEF Windowed
  <2>5. \A s \in Limiter!Times : expiry - Limiter!Period <= s /\ s <= clock' => Limiter!Within(s, clock)' <= count /\ Limiter!Within(s, clock)' <= RuleLimit
    BY <1>1, <1>5, <1>6, <2>1, <2>2, Rules DEF Windowed
  <2>6. \A s \in Limiter!Times : expiry - Limiter!Period < s /\ s <= clock' =>
         Limiter!Within(s, clock)' <= RuleLimit - 1 /\ (Limiter!Within(s, clock)' = 0 \/ Limiter!Within(s, clock)' < count)
    BY <1>1, <1>5, <1>6, <2>1, <2>2, Rules DEF Windowed
  <2> QED
    BY <2>2, <2>3, <2>4, <2>5, <2>6 DEF Windowed
<1>10. Listed'
  <2>1. SUFFICES ASSUME algorithm = "sliding" PROVE Listed'
    BY DEF Limiter!Tick, Listed
  <2>2. entries' = entries
    BY DEF Limiter!Tick
  <2>3. IsFiniteSet(entries') /\ Cardinality(entries') <= RuleLimit
    BY <2>1, <2>2 DEF Listed
  <2>4. ASSUME NEW s \in Limiter!Times, s <= clock', clock' - s < Limiter!Period - MaxLag - MaxLead
        PROVE  Limiter!Within(s, clock') <= Cardinality({e \in entries : e[1] >= s - MaxLag}) + Limiter!Repeats(s, clock')
    <3>1. CASE s <= clock /\ Limiter!Within(s, clock') = Limiter!Within(s, clock) /\ Limiter!Repeats(s, clock') = Limiter!Repeats(s, clock)
      BY <1>1, <2>1, <2>4, <3>1, Rules DEF Listed
    <3>2. CASE s = clock' /\ Limiter!Within(s, clock') = 0
      <4>1. Cardinality({e \in entries : e[1] >= s - MaxLag}) \in Nat
        BY <2>1, FS_Subset, FS_CardinalityType DEF Listed
      <4> QED
        BY <1>5, <2>4, <3>2, <4>1
    <3> QED
      BY <1>5, <2>4, <3>1, <3>2
  <2> QED
    BY <1>6, <2>2, <2>3, <2>4 DEF Listed
<1>11. Drawn'
  <2>1. SUFFICES ASSUME algorithm = "bucket" PROVE Drawn'
    BY DEF Limiter!Tick, Drawn
  <2>2. tokens' = tokens /\ ts' = ts
    BY DEF Limiter!Tick
  <2>3. ASSUME NEW s \in Limiter!Times, s <= clock', clock' - s <= Limiter!Period, Limiter!Within(s, clock') > 0
        PROVE  tokens - ts + Unit * Limiter!Within(s, clock') <= Limiter!Period - s + MaxLag
    <3>1. s <= clock /\ Limiter!Within(s, clock') = Limiter!Within(s, clock) /\ clock - s <= Limiter!Period
      BY <1>1, <1>5, <2>3, Rules
    <3> QED
      BY <2>1, <2>3, <3>1 DEF Drawn
  <2> QED
    BY <1>6, <2>2, <2>3 DEF Drawn
<1>12. Limiter!RateBounded'
  <2>1. \A s \in Limiter!Times : \A t \in s..MaxTime :
          Limiter!Within(s, t)' = Limiter!Within(s, t) /\ Limiter!Repeats(s, t)' = Limiter!Repeats(s, t)
    BY DEF Limiter!Tick, Limiter!history, Limiter!Within, Limiter!Repeats, Limiter!Counted
  <2> QED
    BY <2>1 DEF Limiter!Tick, Limiter!RateBounded
<1> QED
  BY <1>2, <1>3, <1>8, <1>9, <1>10, <1>11, <1>12

\* A call adds to the repetitions of the times around it, and of those up to it alike.
LEMMA ElsewhereRepeats ==
  ASSUME Limiter!TypeOK, Admissions, repeated' = repeated \/ repeated' = Limiter!OneMore(repeated),
         NEW s \in Limiter!Times, NEW t \in Limiter!Times, s <= t, ~(s <= clock /\ clock <= t)
  PROVE  Limiter!Repeats(s, t)' = Limiter!Repeats(s, t)
<1>1. Limiter!Repeats(s, t) \in Int
  BY RepeatsCounted
<1>2. CASE repeated' = repeated
  BY <1>2 DEF Limiter!Repeats, Limiter!Counted
<1>3. CASE repeated' = Limiter!OneMore(repeated)
  BY <1>1, <1>3, RepeatsAdded
<1> QED
  BY <1>2, <1>3

LEMMA RepeatsUpTo ==
  ASSUME Limiter!TypeOK, Admissions, repeated' = repeated \/ repeated' = Limiter!OneMore(repeated), clock' = clock,
         NEW s \in Limiter!Times, NEW t \in Limiter!Times, s <= clock, clock <= t
  PROVE  /\ Limiter!Repeats(s, t)' = Limiter!Repeats(s, clock)'
         /\ Limiter!Repeats(s, clock)' = Limiter!Repeats(s, clock) + (IF repeated' = repeated THEN 0 ELSE 1)
<1>1. PICK c \in Limiter!Times : c = clock
  BY DEF Limiter!TypeOK
<1>2. s \in Nat /\ t \in Nat /\ c \in Nat /\ s <= t /\ s <= c
  BY <1>1, StudiesAssumption DEF Limiter!Times, Limiter!WellFormed
<1>3. Limiter!Repeats(s, t) \in Int /\ Limiter!Repeats(s, t) = Limiter!Repeats(s, c) /\ Limiter!Repeats(s, c) \in Int
  BY <1>1, <1>2, RepeatsCounted
<1>4. Limiter!Repeats(s, clock)' = Limiter!Repeats(s, c)' /\ Limiter!Repeats(s, clock) = Limiter!Repeats(s, c)
  BY <1>1 DEF Limiter!Repeats, Limiter!Counted
<1>5. CASE repeated' = repeated
  <2>1. \A x : Limiter!Repeats(s, x)' = Limiter!Repeats(s, x)
    BY <1>5 DEF Limiter!Repeats, Limiter!Counted
  <2> QED
    BY <1>3, <1>4, <1>5, <2>1
<1>6. CASE repeated' = Limiter!OneMore(repeated) /\ repeated' # repeated
  <2>1. Limiter!Repeats(s, t)' = Limiter!Repeats(s, t) + 1 /\ Limiter!Repeats(s, c)' = Limiter!Repeats(s, c) + 1
    BY <1>1, <1>2, <1>6, RepeatsAdded
  <2> QED
    BY <1>3, <1>4, <1>6, <2>1
<1> QED
  BY <1>5, <1>6

\* What a call admitted now adds, and what has to be shown of it.
LEMMA Admitting ==
  ASSUME Limiter!TypeOK, Admissions, Limiter!RateBounded, Limiter!Admit, UNCHANGED <<algorithm, clock>>,
         repeated' = repeated \/ repeated' = Limiter!OneMore(repeated),
         \A s \in Limiter!Times : s <= clock =>
           /\ algorithm = "fixed" /\ clock - s < Limiter!Period => Limiter!Within(s, clock) + 1 <= 2 * RuleLimit - 1
           /\ algorithm = "sliding" /\ clock - s < Limiter!Period - MaxLag - MaxLead => Limiter!Within(s, clock) + 1 <= RuleLimit + Limiter!Repeats(s, clock)'
           /\ algorithm = "bucket" /\ clock - s <= Limiter!Period =>
                Unit * (Limiter!Within(s, clock) + 1) <= Limiter!Period + (clock - s) + MaxLag + MaxLead
  PROVE  /\ Admissions' /\ Limiter!RateBounded'
         /\ \A s \in Limiter!Times : s <= clock => Limiter!Within(s, clock)' = Limiter!Within(s, clock) + 1
<1>1. clock \in Limiter!Times /\ clock' = clock /\ Limiter!Times \subseteq Nat
  BY StudiesAssumption DEF Limiter!TypeOK, Limiter!Times, Limiter!WellFormed
<1>2. /\ admitted \in [Limiter!Times -> Nat] /\ repeated \in [Limiter!Times -> Nat]
      /\ Rising(admitted) /\ Rising(repeated) /\ admitted' = Limiter!OneMore(admitted)
  BY DEF Limiter!Admit, Limiter!TypeOK, Admissions
<1>3. Admissions'
  <2>1. Rising(Limiter!OneMore(admitted)) /\ Rising(Limiter!OneMore(repeated))
    BY <1>2, OneMoreRising
  <2> QED
    BY <1>1, <1>2, <2>1 DEF Admissions, Rising
<1>4. \A s \in Limiter!Times : s <= clock => Limiter!Within(s, clock)' = Limiter!Within(s, clock) + 1
  <2>1. SUFFICES ASSUME NEW s \in Limiter!Times, s <= clock PROVE Limiter!Within(s, clock)' = Limiter!Within(s, clock) + 1
    OBVIOUS
  <2>2. PICK c \in Limiter!Times : c = clock
    BY <1>1
  <2>3. Limiter!Within(s, c)' = Limiter!Within(s, c) + 1
    BY <1>1, <2>1, <2>2, WithinAdmitted
  <2> QED
    BY <1>1, <2>2, <2>3 DEF Limiter!Within, Limiter!Counted
<1>5. Limiter!RateBounded'
  <2>1. SUFFICES ASSUME NEW s \in Limiter!Times, NEW t \in s..MaxTime
        PROVE  /\ algorithm = "fixed" /\ t - s < Limiter!Period => Limiter!Within(s, t)' <= 2 * RuleLimit - 1
               /\ algorithm = "sliding" /\ t - s < Limiter!Period - MaxLag - MaxLead => Limiter!Within(s, t)' <= RuleLimit + Limiter!Repeats(s, t)'
               /\ algorithm = "bucket" /\ t - s <= Limiter!Period => Unit * Limiter!Within(s, t)' <= Limiter!Period + (t - s) + MaxLag + MaxLead
    BY DEF Limiter!RateBounded
  <2>2. t \in Limiter!Times /\ s <= t /\ s \in Nat /\ t \in Nat /\ clock \in Nat
    BY <1>1, StudiesAssumption DEF Limiter!Times, Limiter!WellFormed
  <2>3. Limiter!Within(s, t)' = Limiter!Within(s, t) + (IF s <= clock /\ clock <= t THEN 1 ELSE 0)
    BY <2>2, WithinAdmitted
  <2>4. Limiter!Within(s, t) \in Int /\ Limiter!Within(s, clock) \in Int
    BY <1>1, <2>2, WithinTypes
  <2>5. CASE ~(s <= clock /\ clock <= t)
    <3>1. Limiter!Within(s, t)' = Limiter!Within(s, t)
      BY <2>3, <2>4, <2>5
    <3>2. Limiter!Repeats(s, t)' = Limiter!Repeats(s, t)
      BY <2>2, <2>5, ElsewhereRepeats
    <3> QED
      BY <3>1, <3>2 DEF Limiter!RateBounded
  <2>6. CASE s <= clock /\ clock <= t
    <3>1. Limiter!Within(s, t)' = Limiter!Within(s, clock) + 1
      BY <2>2, <2>3, <2>4, <2>6, WithinCounted
    <3>2. clock - s <= t - s
      BY <2>2, <2>6
    <3>3. PICK n \in Int : n = Unit * (Limiter!Within(s, clock) + 1)
      BY <2>4, Rules
    <3>4. algorithm = "bucket" /\ t - s <= Limiter!Period => n <= Limiter!Period + (t - s) + MaxLag + MaxLead
      BY <2>2, <2>6, <3>2, <3>3, Rules
    <3>5. algorithm = "fixed" /\ t - s < Limiter!Period => Limiter!Within(s, t)' <= 2 * RuleLimit - 1
      BY <2>2, <2>6, <3>1, <3>2, Rules
    <3>7. Limiter!Repeats(s, t)' = Limiter!Repeats(s, clock)'
      BY <2>2, <2>6, RepeatsUpTo
    <3>6. algorithm = "sliding" /\ t - s < Limiter!Period - MaxLag - MaxLead => Limiter!Within(s, t)' <= RuleLimit + Limiter!Repeats(s, t)'
      BY <2>2, <2>6, <3>1, <3>2, <3>7, Rules
    <3> QED
      BY <3>1, <3>3, <3>4, <3>5, <3>6
  <2> QED
    BY <2>5, <2>6
<1> QED
  BY <1>3, <1>4, <1>5

\* A call that is denied counts nowhere.
LEMMA Denying ==
  ASSUME Limiter!TypeOK, Admissions, Limiter!RateBounded, UNCHANGED <<algorithm, clock, admitted, repeated>>
  PROVE  /\ Admissions' /\ Limiter!RateBounded'
         /\ \A s \in Limiter!Times : Limiter!Within(s, clock)' = Limiter!Within(s, clock) /\ Limiter!Repeats(s, clock)' = Limiter!Repeats(s, clock)
<1>1. \A s, t : Limiter!Within(s, t)' = Limiter!Within(s, t) /\ Limiter!Repeats(s, t)' = Limiter!Repeats(s, t)
  BY DEF Limiter!Within, Limiter!Repeats, Limiter!Counted
<1>2. Admissions'
  BY DEF Admissions, Rising
<1>3. Limiter!RateBounded'
  BY <1>1 DEF Limiter!RateBounded
<1>4. \A s \in Limiter!Times : Limiter!Within(s, clock)' = Limiter!Within(s, clock) /\ Limiter!Repeats(s, clock)' = Limiter!Repeats(s, clock)
  BY DEF Limiter!Within, Limiter!Repeats, Limiter!Counted
<1> QED
  BY <1>2, <1>3, <1>4


LEMMA FixedKept ==
  ASSUME LimiterInv, Limiter!FixedWindow
  PROVE  Limiter!TypeOK' /\ Admissions' /\ Remembered' /\ Windowed' /\ Limiter!RateBounded'
<1> USE DEF LimiterInv
<1>1. PICK c \in Nat : c = (IF Limiter!Live THEN count ELSE 0) + 1
  BY DEF Limiter!TypeOK
<1>2. /\ algorithm = "fixed" /\ c <= RuleLimit + MaxDenied
      /\ count' = c /\ expiry' = (IF c = 1 THEN clock + Limiter!Period ELSE expiry)
      /\ (IF c <= RuleLimit THEN Limiter!Admit ELSE UNCHANGED admitted)
      /\ UNCHANGED <<algorithm, clock, entries, tokens, ts, repeated>>
  BY <1>1 DEF Limiter!FixedWindow
<1>3. /\ clock \in Limiter!Times /\ Limiter!Times \subseteq Nat /\ expiry \in Int /\ expiry >= -1 /\ count \in Nat
      /\ clock <= MaxTime /\ MaxTime \in Nat /\ MaxDenied \in Nat
  BY Rules, StudiesAssumption DEF Limiter!TypeOK, Limiter!Times, Limiter!WellFormed
<1>4. \A s \in Limiter!Times : Limiter!Within(s, clock) \in Int
  BY <1>3, WithinTypes
<1>5. PICK began \in Int : began = expiry - Limiter!Period
  BY <1>3, Rules
<1>6. /\ expiry <= clock + Limiter!Period
      /\ expiry # -1 => count >= 1 /\ began >= 0
      /\ \A s \in Limiter!Times : began <= s /\ s <= clock => Limiter!Within(s, clock) <= count /\ Limiter!Within(s, clock) <= RuleLimit
      /\ \A s \in Limiter!Times : began < s /\ s <= clock =>
           Limiter!Within(s, clock) <= RuleLimit - 1 /\ (Limiter!Within(s, clock) = 0 \/ Limiter!Within(s, clock) < count)
      /\ \A s \in Limiter!Times : began - Limiter!Period < s /\ s < began => Limiter!Within(s, began - 1) <= RuleLimit - 1
  BY <1>2, <1>5 DEF Windowed
\* The window is the one before, or begins now.
<1>7. PICK start \in Int : start = expiry' - Limiter!Period
  BY <1>2, <1>3, Rules
<1>8. \/ Limiter!Live /\ start = began /\ expiry' = expiry /\ c = count + 1 /\ count >= 1 /\ expiry >= 0
      \/ ~Limiter!Live /\ start = clock /\ expiry' = clock + Limiter!Period /\ c = 1
  BY <1>1, <1>2, <1>3, <1>5, <1>6, <1>7, Rules DEF Limiter!Live
<1>9. start >= 0 /\ start <= clock /\ start \in Limiter!Times
  BY <1>3, <1>5, <1>6, <1>8, Rules, StudiesAssumption DEF Limiter!Times, Limiter!WellFormed
<1>10. Limiter!TypeOK'
  <2>1. admitted' \in [Limiter!Times -> Nat]
    <3>1. Limiter!Admit => admitted' \in [Limiter!Times -> Nat]
      BY OneMoreTypes DEF Limiter!Admit, Limiter!TypeOK
    <3> QED
      BY <1>2, <3>1 DEF Limiter!TypeOK
  <2>2. expiry' \in -1..(MaxTime + Limiter!Period) /\ count' \in 0..(RuleLimit + MaxDenied)
    BY <1>1, <1>2, <1>3, Rules DEF Limiter!TypeOK
  <2> QED
    BY <1>2, <2>1, <2>2 DEF Limiter!TypeOK
\* What the window holds, with the call counted.
<1>11. ~Limiter!Live => \A s \in Limiter!Times : clock <= s /\ s <= clock => Limiter!Within(s, clock) = 0
  <2>1. SUFFICES ASSUME ~Limiter!Live PROVE Limiter!Within(clock, clock) = 0
    BY <1>3
  <2>2. Limiter!Within(clock, clock) >= 0
    BY <1>3, WithinCounted
  <2>3. ~(Limiter!Within(clock, clock) > 0)
    BY <1>2, <1>3, <2>1 DEF Limiter!Live, Remembered
  <2> QED
    BY <1>3, <1>4, <2>2, <2>3
<1>12. \A s \in Limiter!Times : start <= s /\ s <= clock =>
         Limiter!Within(s, clock) <= c - 1 /\ (c <= RuleLimit => Limiter!Within(s, clock) <= RuleLimit - 1) /\ Limiter!Within(s, clock) <= RuleLimit
  BY <1>3, <1>4, <1>6, <1>8, <1>11, Rules
<1>13. \A s \in Limiter!Times : start < s /\ s <= clock =>
         /\ Limiter!Within(s, clock) <= RuleLimit - 1
         /\ c > 1 /\ Limiter!Within(s, clock) < c - 1
  <2>1. SUFFICES ASSUME NEW s \in Limiter!Times, start < s, s <= clock
                 PROVE  Limiter!Within(s, clock) <= RuleLimit - 1 /\ c > 1 /\ Limiter!Within(s, clock) < c - 1
    OBVIOUS
  <2>2. start = began /\ c = count + 1 /\ count >= 1
    BY <1>3, <1>8, <2>1
  <2> QED
    BY <1>3, <1>4, <1>6, <2>1, <2>2
<1>14. \A s \in Limiter!Times : start - Limiter!Period < s /\ s < start => Limiter!Within(s, start - 1) <= RuleLimit - 1
  <2>1. CASE Limiter!Live
    BY <1>6, <1>8, <2>1
  <2>2. CASE ~Limiter!Live
    <3>1. SUFFICES ASSUME NEW s \in Limiter!Times, clock - Limiter!Period < s, s < clock
                   PROVE  Limiter!Within(s, clock - 1) <= RuleLimit - 1
      BY <1>8, <2>2
    <3>2. expiry < clock /\ began < s
      BY <1>3, <1>5, <2>2, <3>1, Rules DEF Limiter!Live
    <3>3. Limiter!Within(s, clock) <= RuleLimit - 1
      BY <1>3, <1>6, <3>1, <3>2
    <3>4. clock - 1 \in Limiter!Times /\ s <= clock - 1
      BY <1>3, <3>1 DEF Limiter!Times
    <3>5. Limiter!Within(s, clock - 1) <= Limiter!Within(s, clock) /\ Limiter!Within(s, clock - 1) \in Int
      BY <1>3, <3>4, WithinCounted, WithinTypes
    <3> QED
      BY <1>3, <1>4, <3>3, <3>5, Rules
  <2> QED
    BY <2>1, <2>2
<1>15. CASE c <= RuleLimit
  <2>1. Limiter!Admit
    BY <1>2, <1>15
  <2>2. ASSUME NEW s \in Limiter!Times, s <= clock, clock - s < Limiter!Period
        PROVE  Limiter!Within(s, clock) + 1 <= 2 * RuleLimit - 1
    <3>1. CASE start <= s
      BY <1>3, <1>4, <1>12, <1>15, <2>2, <3>1, Rules
    <3>2. CASE s < start
      <4>1. start - Limiter!Period < s
        BY <1>3, <1>9, <2>2, <3>2, Rules
      <4>2. Limiter!Within(s, start - 1) <= RuleLimit - 1
        BY <1>14, <3>2, <4>1
      <4>3. Limiter!Within(start, clock) <= RuleLimit - 1
        BY <1>3, <1>9, <1>12, <1>15
      <4>4. Limiter!Within(s, clock) = Limiter!Within(s, start - 1) + Limiter!Within(start, clock)
        BY <1>3, <1>9, <3>2, WithinCounted
      <4>5. start - 1 \in Limiter!Times
        BY <1>3, <1>9, <3>2 DEF Limiter!Times
      <4>6. Limiter!Within(s, start - 1) \in Int /\ Limiter!Within(start, clock) \in Int
        BY <1>4, <1>9, <4>5, WithinTypes
      <4> QED
        BY <4>2, <4>3, <4>4, <4>6, Rules
    <3> QED
      BY <1>3, <1>9, <3>1, <3>2
  <2>3. Admissions' /\ Limiter!RateBounded' /\ \A s \in Limiter!Times : s <= clock => Limiter!Within(s, clock)' = Limiter!Within(s, clock) + 1
    BY <1>2, <2>1, <2>2, Admitting
  <2>4. Remembered'
    <3>1. expiry' >= clock
      BY <1>3, <1>8, Rules DEF Limiter!Live
    <3> QED
      BY <1>2, <1>3, <1>8, <3>1 DEF Remembered
  <2>5. Windowed'
    <3>1. \A s \in Limiter!Times : start <= s /\ s <= clock => Limiter!Within(s, clock)' <= c /\ Limiter!Within(s, clock)' <= RuleLimit
      BY <1>3, <1>4, <1>12, <1>15, <2>3, Rules
    <3>2. \A s \in Limiter!Times : start < s /\ s <= clock => Limiter!Within(s, clock)' <= RuleLimit - 1 /\ Limiter!Within(s, clock)' < c
      BY <1>3, <1>4, <1>13, <1>15, <2>3, Rules
    <3>3. \A s \in Limiter!Times : start - Limiter!Period < s /\ s < start => Limiter!Within(s, start - 1)' <= RuleLimit - 1
      <4>1. SUFFICES ASSUME NEW s \in Limiter!Times, start - Limiter!Period < s, s < start
                     PROVE  Limiter!Within(s, start - 1)' <= RuleLimit - 1
        OBVIOUS
      <4>2. start - 1 \in Limiter!Times /\ s <= start - 1 /\ start - 1 < clock
        BY <1>3, <1>9, <4>1 DEF Limiter!Times
      <4>3. PICK last \in Limiter!Times : last = start - 1
        BY <4>2
      <4>4. Limiter!Within(s, last)' = Limiter!Within(s, last) + 0
        BY <1>3, <2>1, <4>2, <4>3, WithinAdmitted
      <4>5. Limiter!Within(s, last) \in Int
        BY <4>3, WithinTypes
      <4>6. Limiter!Within(s, last)' = Limiter!Within(s, start - 1)'
        BY <4>3 DEF Limiter!Within, Limiter!Counted
      <4> QED
        BY <1>14, <4>1, <4>3, <4>4, <4>5, <4>6
    <3>4. expiry' <= clock + Limiter!Period /\ c >= 1
      BY <1>1, <1>3, <1>6, <1>8, Rules
    <3> QED
      BY <1>2, <1>7, <1>9, <3>1, <3>2, <3>3, <3>4 DEF Windowed
  <2> QED
    BY <1>10, <2>3, <2>4, <2>5
<1>16. CASE ~(c <= RuleLimit)
  <2>1. UNCHANGED admitted
    BY <1>2, <1>16
  <2>2. Admissions' /\ Limiter!RateBounded' /\ \A s \in Limiter!Times : Limiter!Within(s, clock)' = Limiter!Within(s, clock)
    BY <1>2, <2>1, Denying
  <2>3. Limiter!Live /\ expiry' = expiry
    BY <1>8, <1>16, Rules
  <2>4. Remembered'
    BY <1>2, <2>2, <2>3 DEF Remembered
  <2>5. Windowed'
    <3>1. \A s \in Limiter!Times : start <= s /\ s <= clock => Limiter!Within(s, clock)' <= c /\ Limiter!Within(s, clock)' <= RuleLimit
      BY <1>3, <1>4, <1>12, <2>2, Rules
    <3>2. \A s \in Limiter!Times : start < s /\ s <= clock => Limiter!Within(s, clock)' <= RuleLimit - 1 /\ Limiter!Within(s, clock)' < c
      BY <1>3, <1>4, <1>13, <2>2, Rules
    <3>3. \A s \in Limiter!Times : start - Limiter!Period < s /\ s < start => Limiter!Within(s, start - 1)' <= RuleLimit - 1
      BY <1>14, <2>1 DEF Limiter!Within, Limiter!Counted
    <3>4. expiry' <= clock + Limiter!Period /\ c >= 1
      BY <1>1, <1>3, <1>6, <1>8, Rules
    <3> QED
      BY <1>2, <1>7, <1>9, <3>1, <3>2, <3>3, <3>4 DEF Windowed
  <2> QED
    BY <1>10, <2>2, <2>4, <2>5
<1> QED
  BY <1>15, <1>16


LEMMA SlidingKept ==
  ASSUME LimiterInv, NEW now \in Limiter!Readings, NEW draw \in Draws, Limiter!SlidingWindow(now, draw)
  PROVE  Limiter!TypeOK' /\ Admissions' /\ Remembered' /\ Listed' /\ Limiter!RateBounded'
<1> USE DEF LimiterInv
<1>1. PICK kept : kept = {e \in entries : Limiter!Live /\ e[1] > now - Limiter!Period}
  OBVIOUS
<1>2. /\ algorithm = "sliding"
      /\ \/ /\ Cardinality(kept) < RuleLimit
            /\ entries' = kept \cup {<<now, draw>>} /\ expiry' = clock + Limiter!Period /\ Limiter!Admit
            /\ IF <<now, draw>> \in kept THEN repeated' = Limiter!OneMore(repeated) ELSE repeated' = repeated
         \/ ~(Cardinality(kept) < RuleLimit) /\ entries' = kept /\ UNCHANGED <<expiry, admitted, repeated>>
      /\ UNCHANGED <<algorithm, clock, count, tokens, ts>>
  BY <1>1, SameFiniteSets DEF Limiter!SlidingWindow, Limiter!history
<1>3. /\ clock \in Limiter!Times /\ Limiter!Times \subseteq Nat /\ expiry \in Int /\ expiry >= -1
      /\ clock <= MaxTime /\ now \in Nat /\ now <= clock + MaxLead /\ clock - MaxLag <= now
      /\ kept \subseteq entries /\ <<now, draw>> \in Limiter!Stamps \X Draws
  BY <1>1, Rules, StudiesAssumption DEF Limiter!TypeOK, Limiter!Times, Limiter!Stamps, Limiter!Readings, Limiter!WellFormed
<1>4. \A s \in Limiter!Times : s <= clock =>
        Limiter!Within(s, clock) \in Int /\ Limiter!Repeats(s, clock) \in Int /\ Limiter!Repeats(s, clock) >= 0
  BY <1>3, WithinTypes, RepeatsCounted
<1>5. /\ IsFiniteSet(entries) /\ Cardinality(entries) <= RuleLimit
      /\ \A s \in Limiter!Times : s <= clock /\ clock - s < Limiter!Period - MaxLag - MaxLead =>
           Limiter!Within(s, clock) <= Cardinality({e \in entries : e[1] >= s - MaxLag}) + Limiter!Repeats(s, clock)
  BY <1>2 DEF Listed
<1>6. IsFiniteSet(kept) /\ Cardinality(kept) \in Nat /\ Cardinality(kept) <= RuleLimit
  BY <1>3, <1>5, Rules, FS_Subset, FS_CardinalityType
<1>7. Limiter!TypeOK'
  <2>1. admitted' \in [Limiter!Times -> Nat] /\ repeated' \in [Limiter!Times -> Nat]
    BY <1>2, OneMoreTypes DEF Limiter!Admit, Limiter!TypeOK
  <2>2. expiry' \in -1..(MaxTime + Limiter!Period)
    BY <1>2, <1>3, Rules, StudiesAssumption DEF Limiter!TypeOK, Limiter!WellFormed
  <2>3. entries' \subseteq Limiter!Stamps \X Draws
    BY <1>2, <1>3 DEF Limiter!TypeOK
  <2> QED
    BY <1>2, <2>1, <2>2, <2>3 DEF Limiter!TypeOK
\* The script forgets no call that a late one may still have to count.
<1>8. ASSUME NEW s \in Limiter!Times, s <= clock, clock - s < Limiter!Period - MaxLag - MaxLead
      PROVE  Limiter!Within(s, clock) <= Cardinality({e \in kept : e[1] >= s - MaxLag}) + Limiter!Repeats(s, clock)
  <2>1. IsFiniteSet({e \in kept : e[1] >= s - MaxLag}) /\ Cardinality({e \in kept : e[1] >= s - MaxLag}) \in Nat
    BY <1>6, FS_Subset, FS_CardinalityType
  <2>2. CASE Limiter!Within(s, clock) <= 0
    BY <1>4, <1>8, <2>1, <2>2
  <2>3. CASE Limiter!Within(s, clock) > 0
    <3>1. Limiter!Live
      BY <1>2, <1>3, <1>8, <2>3, Rules DEF Remembered, Limiter!Live
    <3>2. \A e \in entries : e[1] \in Nat
      BY <1>3, Rules, StudiesAssumption DEF Limiter!TypeOK, Limiter!Stamps, Limiter!WellFormed
    <3>3. {e \in kept : e[1] >= s - MaxLag} = {e \in entries : e[1] >= s - MaxLag}
      BY <1>1, <1>3, <1>8, <3>1, <3>2, Rules
    <3> QED
      BY <1>5, <1>8, <3>3
  <2> QED
    BY <1>4, <1>8, <2>2, <2>3
\* A call with a member of its own.
<1>9. CASE Cardinality(kept) < RuleLimit /\ <<now, draw>> \notin kept
  <2>1. entries' = kept \cup {<<now, draw>>} /\ expiry' = clock + Limiter!Period /\ Limiter!Admit /\ repeated' = repeated
    BY <1>2, <1>9
  <2>2. \A s \in Limiter!Times : Limiter!Repeats(s, clock)' = Limiter!Repeats(s, clock)
    BY <1>2, <2>1 DEF Limiter!Repeats, Limiter!Counted
  <2>3. ASSUME NEW s \in Limiter!Times, s <= clock, clock - s < Limiter!Period - MaxLag - MaxLead
        PROVE  Limiter!Within(s, clock) + 1 <= RuleLimit + Limiter!Repeats(s, clock)'
    <3>1. Cardinality({e \in kept : e[1] >= s - MaxLag}) <= Cardinality(kept)
      BY <1>6, FS_Subset
    <3>2. Cardinality({e \in kept : e[1] >= s - MaxLag}) \in Nat
      BY <1>6, FS_Subset, FS_CardinalityType
    <3> QED
      BY <1>4, <1>6, <1>8, <1>9, <2>2, <2>3, <3>1, <3>2, Rules
  <2>4. Admissions' /\ Limiter!RateBounded' /\ \A s \in Limiter!Times : s <= clock => Limiter!Within(s, clock)' = Limiter!Within(s, clock) + 1
    BY <1>2, <2>1, <2>3, Admitting
  <2>5. Remembered'
    BY <1>2, <1>3, <2>1, Rules DEF Remembered
  <2>6. Listed'
    <3>1. IsFiniteSet(entries') /\ Cardinality(entries') = Cardinality(kept) + 1
      BY <1>6, <1>9, <2>1, FS_AddElement
    <3>2. ASSUME NEW s \in Limiter!Times, s <= clock, clock - s < Limiter!Period - MaxLag - MaxLead
          PROVE  Limiter!Within(s, clock)' <= Cardinality({e \in entries' : e[1] >= s - MaxLag}) + Limiter!Repeats(s, clock)'
      <4>1. PICK counted : counted = {e \in kept : e[1] >= s - MaxLag}
        OBVIOUS
      <4>2. now >= s - MaxLag
        BY <1>3, <3>2, Rules
      <4>3. {e \in entries' : e[1] >= s - MaxLag} = counted \cup {<<now, draw>>}
        BY <2>1, <4>1, <4>2
      <4>4. <<now, draw>> \notin counted /\ IsFiniteSet(counted) /\ Cardinality(counted) \in Nat
        BY <1>6, <1>9, <4>1, FS_Subset, FS_CardinalityType
      <4>5. Cardinality({e \in entries' : e[1] >= s - MaxLag}) = Cardinality(counted) + 1
        BY <4>3, <4>4, FS_AddElement
      <4>6. Limiter!Within(s, clock)' = Limiter!Within(s, clock) + 1
        BY <2>4, <3>2
      <4>7. Limiter!Within(s, clock) <= Cardinality(counted) + Limiter!Repeats(s, clock)
        BY <1>8, <3>2, <4>1
      <4> QED
        BY <1>4, <2>2, <3>2, <4>4, <4>5, <4>6, <4>7
    <3> QED
      BY <1>2, <1>6, <1>9, <3>1, <3>2, Rules DEF Listed
  <2> QED
    BY <1>7, <2>4, <2>5, <2>6
\* A call that the set takes for another.
<1>10. CASE Cardinality(kept) < RuleLimit /\ <<now, draw>> \in kept
  <2>1. entries' = kept /\ expiry' = clock + Limiter!Period /\ Limiter!Admit /\ repeated' = Limiter!OneMore(repeated)
    BY <1>2, <1>10
  <2>2. ASSUME NEW s \in Limiter!Times, s <= clock
        PROVE  Limiter!Repeats(s, clock)' = Limiter!Repeats(s, clock) + 1
    <3>1. PICK c \in Limiter!Times : c = clock
      BY <1>3
    <3>2. Limiter!Repeats(s, c)' = Limiter!Repeats(s, c) + 1
      BY <1>3, <2>1, <2>2, <3>1, RepeatsAdded
    <3>3. Limiter!Repeats(s, clock)' = Limiter!Repeats(s, c)' /\ Limiter!Repeats(s, clock) = Limiter!Repeats(s, c)
      BY <1>2, <3>1 DEF Limiter!Repeats, Limiter!Counted
    <3> QED
      BY <3>2, <3>3
  <2>3. ASSUME NEW s \in Limiter!Times, s <= clock, clock - s < Limiter!Period - MaxLag - MaxLead
        PROVE  Limiter!Within(s, clock) + 1 <= RuleLimit + Limiter!Repeats(s, clock)'
    <3>1. Cardinality({e \in kept : e[1] >= s - MaxLag}) <= Cardinality(kept)
      BY <1>6, FS_Subset
    <3>2. Cardinality({e \in kept : e[1] >= s - MaxLag}) \in Nat
      BY <1>6, FS_Subset, FS_CardinalityType
    <3> QED
      BY <1>4, <1>6, <1>8, <2>2, <2>3, <3>1, <3>2, Rules
  <2>4. Admissions' /\ Limiter!RateBounded' /\ \A s \in Limiter!Times : s <= clock => Limiter!Within(s, clock)' = Limiter!Within(s, clock) + 1
    BY <1>2, <2>1, <2>3, Admitting
  <2>5. Remembered'
    BY <1>2, <1>3, <2>1, Rules DEF Remembered
  <2>6. Listed'
    <3>1. ASSUME NEW s \in Limiter!Times, s <= clock, clock - s < Limiter!Period - MaxLag - MaxLead
          PROVE  Limiter!Within(s, clock)' <= Cardinality({e \in kept : e[1] >= s - MaxLag}) + Limiter!Repeats(s, clock)'
      <4>1. Cardinality({e \in kept : e[1] >= s - MaxLag}) \in Nat
        BY <1>6, FS_Subset, FS_CardinalityType
      <4> QED
        BY <1>4, <1>8, <2>2, <2>4, <3>1, <4>1
    <3> QED
      BY <1>2, <1>6, <2>1, <3>1 DEF Listed
  <2> QED
    BY <1>7, <2>4, <2>5, <2>6
<1>11. CASE ~(Cardinality(kept) < RuleLimit)
  <2>1. entries' = kept /\ UNCHANGED <<expiry, admitted, repeated>>
    BY <1>2, <1>11
  <2>2. /\ Admissions' /\ Limiter!RateBounded'
        /\ \A s \in Limiter!Times : Limiter!Within(s, clock)' = Limiter!Within(s, clock) /\ Limiter!Repeats(s, clock)' = Limiter!Repeats(s, clock)
    BY <1>2, <2>1, Denying
  <2>3. Remembered'
    BY <1>2, <1>3, <2>1, <2>2, Rules DEF Remembered
  <2>4. Listed'
    BY <1>2, <1>6, <1>8, <2>1, <2>2 DEF Listed
  <2> QED
    BY <1>7, <2>2, <2>3, <2>4
<1> QED
  BY <1>9, <1>10, <1>11

LEMMA BucketKept ==
  ASSUME LimiterInv, NEW now \in Limiter!Readings, Limiter!TokenBucket(now)
  PROVE  Limiter!TypeOK' /\ Admissions' /\ Remembered' /\ Drawn' /\ Limiter!RateBounded'
<1> USE DEF LimiterInv
<1>1. PICK level : level = Limiter!Refilled(now)
  OBVIOUS
<1>2. /\ algorithm = "bucket"
      /\ \/ level >= Unit /\ tokens' = level - Unit /\ Limiter!Admit
         \/ ~(level >= Unit) /\ tokens' = level /\ UNCHANGED admitted
      /\ ts' = now /\ expiry' = clock + Limiter!Period
      /\ UNCHANGED <<algorithm, clock, count, entries, repeated>>
  BY <1>1 DEF Limiter!TokenBucket
<1>3. /\ clock \in Limiter!Times /\ Limiter!Times \subseteq Nat /\ expiry \in Int /\ expiry >= -1
      /\ clock <= MaxTime /\ now \in Limiter!Stamps /\ now \in Nat /\ now <= clock + MaxLead /\ clock - MaxLag <= now
      /\ tokens \in Int /\ ts \in Nat
  BY Rules, StudiesAssumption DEF Limiter!TypeOK, Limiter!Times, Limiter!Stamps, Limiter!Readings, Limiter!WellFormed
<1>4. \A s \in Limiter!Times : Limiter!Within(s, clock) \in Int
  BY <1>3, WithinTypes
<1>5. level \in Int /\ level <= Limiter!Period /\ (Limiter!Live => level <= tokens + (now - ts))
  <2>1. PICK back \in Int : back = tokens + (now - ts)
    BY <1>3
  <2>2. Limiter!Min({Limiter!Period, back}) \in Int /\ Limiter!Min({Limiter!Period, back}) <= Limiter!Period /\ Limiter!Min({Limiter!Period, back}) <= back
    <3>1. Limiter!Period \in Int
      BY Rules
    <3> HIDE DEF Limiter!Period, LimiterInv
    <3> QED
      BY <2>1, <3>1, Lesser
  <2>3. level = IF Limiter!Live THEN Limiter!Min({Limiter!Period, back}) ELSE Limiter!Period
    BY <1>1, <2>1 DEF Limiter!Refilled
  <2> QED
    BY <2>1, <2>2, <2>3, Rules
<1>6. Limiter!TypeOK'
  <2>1. admitted' \in [Limiter!Times -> Nat]
    <3>1. Limiter!Admit => admitted' \in [Limiter!Times -> Nat]
      BY OneMoreTypes DEF Limiter!Admit, Limiter!TypeOK
    <3> QED
      BY <1>2, <3>1 DEF Limiter!TypeOK
  <2>2. expiry' \in -1..(MaxTime + Limiter!Period)
    BY <1>2, <1>3, Rules, StudiesAssumption DEF Limiter!WellFormed
  <2>3. tokens' \in Int /\ ts' \in Limiter!Stamps
    BY <1>2, <1>3, <1>5, Rules
  <2> QED
    BY <1>2, <2>1, <2>2, <2>3 DEF Limiter!TypeOK
\* Before it takes a token, the call leaves the bucket no fuller than it should be.
<1>7. ASSUME NEW s \in Limiter!Times, s <= clock, clock - s <= Limiter!Period
      PROVE  level - now + Unit * Limiter!Within(s, clock) <= Limiter!Period - s + MaxLag
  <2>1. CASE Limiter!Within(s, clock) > 0
    <3>1. Limiter!Live
      BY <1>2, <1>3, <1>7, <2>1, Rules DEF Remembered, Limiter!Live
    <3>2. PICK n \in Int : n = Unit * Limiter!Within(s, clock)
      BY <1>4, Rules
    <3>3. tokens - ts + n <= Limiter!Period - s + MaxLag
      BY <1>2, <1>7, <2>1, <3>2 DEF Drawn
    <3>4. level - now <= tokens - ts
      BY <1>3, <1>5, <3>1
    <3>5. s \in Nat /\ Limiter!Period \in Nat /\ MaxLag \in Nat /\ MaxLead \in Nat
      BY <1>3, Rules
    <3>6. level - now + n <= Limiter!Period - s + MaxLag
      BY <1>3, <1>5, <3>2, <3>3, <3>4, <3>5
    <3> QED
      BY <3>2, <3>6
  <2>2. CASE Limiter!Within(s, clock) = 0
    <3>1. Unit * Limiter!Within(s, clock) = 0
      BY <2>2, Rules
    <3> QED
      BY <1>3, <1>5, <1>7, <3>1, Rules
  <2>3. Limiter!Within(s, clock) >= 0
    BY <1>3, <1>7, WithinCounted
  <2> QED
    BY <1>4, <2>1, <2>2, <2>3
<1>9. Remembered'
  BY <1>2, <1>3, Rules DEF Remembered
<1>10. CASE level >= Unit /\ tokens' = level - Unit /\ Limiter!Admit
  <2>1. ASSUME NEW s \in Limiter!Times, s <= clock, clock - s <= Limiter!Period
        PROVE  /\ Unit * (Limiter!Within(s, clock) + 1) <= Limiter!Period + (clock - s) + MaxLag + MaxLead
               /\ tokens' - ts' + Unit * (Limiter!Within(s, clock) + 1) <= Limiter!Period - s + MaxLag
    <3>1. PICK n \in Int : n = Unit * Limiter!Within(s, clock)
      BY <1>4, Rules
    <3>2. Unit * (Limiter!Within(s, clock) + 1) = n + Unit
      BY <1>4, <3>1, Rules
    <3>3. level - now + n <= Limiter!Period - s + MaxLag
      BY <1>7, <2>1, <3>1
    <3>4. s \in Nat /\ Limiter!Period \in Nat /\ MaxLag \in Nat /\ MaxLead \in Nat /\ Unit \in Nat
      BY <1>3, Rules
    <3>5. n + Unit <= Limiter!Period + (clock - s) + MaxLag + MaxLead
      BY <1>3, <1>5, <1>10, <3>1, <3>3, <3>4
    <3>6. (level - Unit) - now + (n + Unit) <= Limiter!Period - s + MaxLag
      BY <1>3, <1>5, <3>1, <3>3, <3>4
    <3> QED
      BY <1>2, <1>10, <3>2, <3>5, <3>6
  <2>2. Admissions' /\ Limiter!RateBounded' /\ \A s \in Limiter!Times : s <= clock => Limiter!Within(s, clock)' = Limiter!Within(s, clock) + 1
    BY <1>2, <1>10, <2>1, Admitting
  <2>3. Drawn'
    BY <1>2, <2>1, <2>2 DEF Drawn
  <2> QED
    BY <1>6, <1>9, <2>2, <2>3
<1>11. CASE ~(level >= Unit) /\ tokens' = level /\ UNCHANGED admitted
  <2>1. Admissions' /\ Limiter!RateBounded' /\ \A s \in Limiter!Times : Limiter!Within(s, clock)' = Limiter!Within(s, clock)
    BY <1>2, <1>11, Denying
  <2>2. Drawn'
    BY <1>2, <1>7, <1>11, <2>1 DEF Drawn
  <2> QED
    BY <1>6, <1>9, <2>1, <2>2
<1> QED
  BY <1>2, <1>10, <1>11

LEMMA LimiterStepInv == LimiterInv /\ [Limiter!Next]_(Limiter!vars) => LimiterInv'
<1> SUFFICES ASSUME LimiterInv, [Limiter!Next]_(Limiter!vars) PROVE LimiterInv'
  OBVIOUS
<1>1. CASE Limiter!FixedWindow
  <2>1. algorithm' = "fixed"
    BY <1>1 DEF Limiter!FixedWindow
  <2> QED
    BY <1>1, <2>1, FixedKept DEF LimiterInv, Listed, Drawn
<1>2. CASE Limiter!Tick
  BY <1>2, Ticks
<1>3. ASSUME NEW now \in Limiter!Readings, Limiter!TokenBucket(now) PROVE LimiterInv'
  <2>1. algorithm' = "bucket"
    BY <1>3 DEF Limiter!TokenBucket
  <2> QED
    BY <1>3, <2>1, BucketKept DEF LimiterInv, Windowed, Listed
<1>4. ASSUME NEW now \in Limiter!Readings, NEW draw \in Draws, Limiter!SlidingWindow(now, draw) PROVE LimiterInv'
  <2>1. algorithm' = "sliding"
    BY <1>4 DEF Limiter!SlidingWindow
  <2> QED
    BY <1>4, <2>1, SlidingKept DEF LimiterInv, Windowed, Drawn
<1>5. CASE UNCHANGED Limiter!vars
  <2> USE <1>5 DEF LimiterInv, Limiter!vars, Limiter!history
  <2>1. Limiter!TypeOK'
    BY DEF Limiter!TypeOK
  <2>2. Admissions' /\ Remembered'
    BY DEF Admissions, Rising, Remembered, Limiter!Within, Limiter!Counted
  <2>3. Windowed' /\ Drawn'
    BY DEF Windowed, Drawn, Limiter!Within, Limiter!Counted
  <2>4. Listed'
    BY DEF Listed, Limiter!Within, Limiter!Repeats, Limiter!Counted
  <2>5. Limiter!RateBounded'
    BY DEF Limiter!RateBounded, Limiter!Within, Limiter!Repeats, Limiter!Counted
  <2> QED
    BY <2>1, <2>2, <2>3, <2>4, <2>5
<1> QED
  BY <1>1, <1>2, <1>3, <1>4, <1>5 DEF Limiter!Next

\* The key in Redis remembers every admission that can still count after every call.
THEOREM LimiterInvariance == Limiter!Spec => []LimiterInv
BY LimiterInitInv, LimiterStepInv, PTL DEF Limiter!Spec

\* No window of time admits more than the rule allows (AtomicCounter).
THEOREM LimiterBounded == Limiter!Spec => []Limiter!RateBounded
<1>1. LimiterInv => Limiter!RateBounded
  BY DEF LimiterInv
<1> QED
  BY <1>1, LimiterInvariance, PTL

-----------------------------------------------------------------------------
(* The simulator *)

\* The states of a hook in a render, update by update.
LEMMA StateByState ==
  ASSUME NEW h \in Osi!Hooks, NEW on, Len(updates[h]) \in Nat
  PROVE  \A n \in 0..Len(updates[h]) :
           Osi!States(h, on)[n] =
             IF n = 0 THEN base[h]
             ELSE IF Osi!Applies(updates[h][n], on) THEN Osi!Reduce(Osi!States(h, on)[n - 1], updates[h][n])
                  ELSE Osi!States(h, on)[n - 1]
<1> DEFINE N == Len(updates[h])
           Step(v, n) == IF Osi!Applies(updates[h][n], on) THEN Osi!Reduce(v, updates[h][n]) ELSE v
           From(g, n) == [k \in 0..n |-> IF k = 0 THEN base[h] ELSE Step(g[k - 1], k)]
           H == Osi!States(h, on)
<1>1. H = CHOOSE g : g = From(g, N)
  BY DEF Osi!States
<1> HIDE DEF Step
<1>2. \A n \in 0..N : \E g : g = From(g, n)
  <2> DEFINE Starts(n) == \E g : g = From(g, n)
             S == {n \in 0..N : ~Starts(n)}
  <2>0. N \in Nat
    OBVIOUS
  <2>1. Starts(0)
    <3>1. [k \in 0..0 |-> base[h]] = From([k \in 0..0 |-> base[h]], 0)
      OBVIOUS
    <3> QED
      BY <3>1
  <2>2. ASSUME NEW n \in 0..N, n # 0, Starts(n - 1) PROVE Starts(n)
    <3>1. PICK g : g = From(g, n - 1)
      BY <2>2
    <3> DEFINE longer == From(g, n)
    <3>2. \A k \in 0..(n - 1) : longer[k] = g[k]
      <4>1. \A k \in 0..(n - 1) : k \in 0..n /\ longer[k] = IF k = 0 THEN base[h] ELSE Step(g[k - 1], k)
        BY <2>0, <2>2
      <4>2. \A k \in 0..(n - 1) : g[k] = IF k = 0 THEN base[h] ELSE Step(g[k - 1], k)
        BY <3>1
      <4> QED
        BY <4>1, <4>2
    <3>3. \A k \in 0..n : k # 0 => longer[k - 1] = g[k - 1]
      <4> HIDE DEF longer
      <4> QED
        BY <2>0, <2>2, <3>2
    <3>4. longer = From(longer, n)
      BY <3>3
    <3> QED
      BY <3>4
  <2> HIDE DEF Starts, N
  <2>3. S = {}
    <3> SUFFICES ASSUME S # {} PROVE FALSE
      OBVIOUS
    <3>1. S \in SUBSET Nat
      BY <2>0
    <3>2. PICK n \in S : \A k \in S : n <= k
      BY <3>1, LeastNumber
    <3>3. n # 0 /\ n - 1 \in 0..N /\ n - 1 < n
      BY <2>0, <2>1, <3>2
    <3> QED
      BY <2>2, <3>2, <3>3
  <2> QED
    BY <2>3 DEF Starts
<1>3. H = From(H, N)
  <2>1. \E g : g = From(g, N)
    <3>1. N \in 0..N
      OBVIOUS
    <3> HIDE DEF N, From
    <3> QED
      BY <1>2, <3>1
  <2> HIDE DEF From
  <2> QED
    BY <1>1, <2>1
<1> QED
  <2> HIDE DEF H
  <2>1. \A n \in 0..N : H[n] = IF n = 0 THEN base[h] ELSE Step(H[n - 1], n)
    BY <1>3
  <2> QED
    BY <2>1 DEF H, Step

\* The calls of a handler, one after the other.
LEMMA CallByCall ==
  ASSUME NEW calls, NEW lane, NEW stale, Len(calls) \in Nat
  PROVE  /\ Osi!Dispatched(calls, lane, stale)[0] = [queue |-> updates, lanes |-> lanes, scheduled |-> FALSE]
         /\ \A n \in 1..Len(calls) :
              Osi!Dispatched(calls, lane, stale)[n] =
                Osi!Dispatch(Osi!Dispatched(calls, lane, stale)[n - 1], calls[n][1], calls[n][2], lane, stale)
<1> DEFINE N == Len(calls)
           start == [queue |-> updates, lanes |-> lanes, scheduled |-> FALSE]
           Step(d, n) == Osi!Dispatch(d, calls[n][1], calls[n][2], lane, stale)
           From(g, n) == [k \in 0..n |-> IF k = 0 THEN start ELSE Step(g[k - 1], k)]
           H == Osi!Dispatched(calls, lane, stale)
<1>1. H = CHOOSE g : g = From(g, N)
  BY DEF Osi!Dispatched
<1> HIDE DEF Step, start
<1>2. \A n \in 0..N : \E g : g = From(g, n)
  <2> DEFINE Starts(n) == \E g : g = From(g, n)
             S == {n \in 0..N : ~Starts(n)}
  <2>0. N \in Nat
    OBVIOUS
  <2>1. Starts(0)
    <3>1. [k \in 0..0 |-> start] = From([k \in 0..0 |-> start], 0)
      OBVIOUS
    <3> QED
      BY <3>1
  <2>2. ASSUME NEW n \in 0..N, n # 0, Starts(n - 1) PROVE Starts(n)
    <3>1. PICK g : g = From(g, n - 1)
      BY <2>2
    <3> DEFINE longer == From(g, n)
    <3>2. \A k \in 0..(n - 1) : longer[k] = g[k]
      <4>1. \A k \in 0..(n - 1) : k \in 0..n /\ longer[k] = IF k = 0 THEN start ELSE Step(g[k - 1], k)
        BY <2>0, <2>2
      <4>2. \A k \in 0..(n - 1) : g[k] = IF k = 0 THEN start ELSE Step(g[k - 1], k)
        BY <3>1
      <4> QED
        BY <4>1, <4>2
    <3>3. \A k \in 0..n : k # 0 => longer[k - 1] = g[k - 1]
      <4> HIDE DEF longer
      <4> QED
        BY <2>0, <2>2, <3>2
    <3>4. longer = From(longer, n)
      BY <3>3
    <3> QED
      BY <3>4
  <2> HIDE DEF Starts, N
  <2>3. S = {}
    <3> SUFFICES ASSUME S # {} PROVE FALSE
      OBVIOUS
    <3>1. S \in SUBSET Nat
      BY <2>0
    <3>2. PICK n \in S : \A k \in S : n <= k
      BY <3>1, LeastNumber
    <3>3. n # 0 /\ n - 1 \in 0..N /\ n - 1 < n
      BY <2>0, <2>1, <3>2
    <3> QED
      BY <2>2, <3>2, <3>3
  <2> QED
    BY <2>3 DEF Starts
<1>3. H = From(H, N)
  <2>1. \E g : g = From(g, N)
    <3>1. N \in 0..N
      OBVIOUS
    <3> HIDE DEF N, From
    <3> QED
      BY <1>2, <3>1
  <2> HIDE DEF From
  <2> QED
    BY <1>1, <2>1
<1> QED
  <2> HIDE DEF H
  <2>1. \A n \in 0..N : H[n] = IF n = 0 THEN start ELSE Step(H[n - 1], n)
    BY <1>3
  <2>2. H[0] = start
    BY <2>1
  <2>3. \A n \in 1..N : H[n] = Step(H[n - 1], n)
    BY <2>1
  <2> QED
    BY <2>2, <2>3 DEF H, Step, start


-----------------------------------------------------------------------------
(* Lanes and the root *)

Top(of) == IF of = {} THEN 0 ELSE Osi!Min(of)

LEMMA TopLanes ==
  ASSUME NEW of \in SUBSET Osi!Lanes
  PROVE  /\ Top(of) = 0 <=> of = {}
         /\ Top(of) = 1 <=> 1 \in of
         /\ Top(of) = 4 <=> 1 \notin of /\ 4 \in of
         /\ Top(of) = 16 <=> of = {16}
         /\ Top(of) \in Osi!Lanes \cup {0}
         /\ of # {} => Top(of) \in of
<1>1. CASE of = {}
  BY <1>1 DEF Top, Osi!Lanes
<1>2. CASE of # {}
  <2>1. \E x \in of : \A y \in of : x <= y
    BY <1>2, LeastNumber DEF Osi!Lanes
  <2>2. PICK least : least = Osi!Min(of)
    OBVIOUS
  <2>3. least \in of /\ \A y \in of : least <= y
    BY <2>1, <2>2 DEF Osi!Min
  <2>4. Top(of) = least
    BY <1>2, <2>2 DEF Top
  <2>5. of \subseteq {1, 4, 16} /\ least \in {1, 4, 16}
    BY <2>3 DEF Osi!Lanes
  <2>6. CASE least = 1
    BY <1>2, <2>3, <2>4, <2>5, <2>6 DEF Osi!Lanes
  <2>7. CASE least = 4
    <3>1. 1 \notin of /\ 4 \in of
      BY <2>3, <2>7
    <3>2. of # {16}
      BY <3>1
    <3> QED
      BY <1>2, <2>4, <2>7, <3>1, <3>2 DEF Osi!Lanes
  <2>8. CASE least = 16
    <3>1. 1 \notin of /\ 4 \notin of /\ 16 \in of
      BY <2>3, <2>8
    <3>2. of = {16}
      BY <2>5, <3>1
    <3> QED
      BY <1>2, <2>4, <2>8, <3>1, <3>2 DEF Osi!Lanes
  <2> QED
    BY <2>5, <2>6, <2>7, <2>8
<1> QED
  BY <1>1, <1>2

\* What is worked on next has the same first lane, and no click's lane but alone.
LEMMA NextTops ==
  ASSUME NEW of \in SUBSET Osi!Lanes
  PROVE  /\ Osi!NextLanes(of) \in SUBSET Osi!Lanes
         /\ Osi!NextLanes(of) = {} <=> of = {}
         /\ Top(Osi!NextLanes(of)) = Top(of)
         /\ 1 \in of => Osi!NextLanes(of) = {1}
         /\ 1 \notin of => 1 \notin Osi!NextLanes(of)
<1>1. CASE of = {}
  BY <1>1 DEF Osi!NextLanes
<1>2. CASE of # {}
  <2>1. PICK first : first = Osi!Min(of)
    OBVIOUS
  <2>2. first = Top(of)
    BY <1>2, <2>1 DEF Top
  <2>3. Osi!NextLanes(of) = IF first = 4 THEN {4} \cup (of \cap {16}) ELSE {first}
    BY <1>2, <2>1 DEF Osi!NextLanes
  <2>4. first \in of /\ first \in Osi!Lanes
    BY <1>2, <2>2, TopLanes
  <2>5. Osi!NextLanes(of) \in SUBSET Osi!Lanes /\ Osi!NextLanes(of) # {}
    BY <2>3, <2>4 DEF Osi!Lanes
  <2>6. 1 \in of => Osi!NextLanes(of) = {1}
    BY <2>2, <2>3, TopLanes
  <2>7. 1 \notin of => 1 \notin Osi!NextLanes(of)
    BY <2>2, <2>3, <2>4, TopLanes DEF Osi!Lanes
  <2>8. Top(Osi!NextLanes(of)) = Top(of)
    <3>1. first = 1 => 1 \in Osi!NextLanes(of)
      BY <2>3
    <3>2. first = 4 => 4 \in Osi!NextLanes(of) /\ 1 \notin Osi!NextLanes(of)
      BY <2>3
    <3>3. first = 16 => Osi!NextLanes(of) = {16}
      BY <2>3
    <3> QED
      BY <2>2, <2>4, <2>5, <3>1, <3>2, <3>3, TopLanes DEF Osi!Lanes
  <2> QED
    BY <1>2, <2>5, <2>6, <2>7, <2>8
<1> QED
  BY <1>1, <1>2

\* The root's callback after ensureRootIsScheduled, if it was as it should be.
LEMMA Ensures ==
  ASSUME NEW of \in SUBSET Osi!Lanes, NEW was \in {0, 4, 16}
  PROVE  Osi!Ensured(of, was, was) =
           [priority |-> Top(of), task |-> IF Top(of) = 1 THEN 0 ELSE Top(of), sync |-> Top(of) = 1]
<1>1. (IF of = {} THEN 0 ELSE Osi!Min(Osi!NextLanes(of))) = Top(of)
  <2>1. CASE of = {}
    BY <2>1 DEF Top
  <2>2. CASE of # {}
    <3>1. Osi!Min(Osi!NextLanes(of)) = Top(Osi!NextLanes(of))
      BY <2>2, NextTops DEF Top
    <3> QED
      BY <2>2, <3>1, NextTops
  <2> QED
    BY <2>1, <2>2
<1>2. Osi!Ensured(of, was, was) =
        IF Top(of) # 0 /\ Top(of) = was THEN [priority |-> was, task |-> was, sync |-> FALSE]
        ELSE [priority |-> Top(of), task |-> IF Top(of) = 1 THEN 0 ELSE Top(of), sync |-> Top(of) = 1]
  BY <1>1 DEF Osi!Ensured
<1> HIDE DEF Top
<1>3. CASE Top(of) # 0 /\ Top(of) = was
  <2>1. Top(of) # 1
    BY <1>3
  <2> QED
    BY <1>2, <1>3, <2>1
<1>4. CASE ~(Top(of) # 0 /\ Top(of) = was)
  BY <1>2, <1>4
<1> QED
  BY <1>3, <1>4

RootScheduled ==
  /\ pending = lanes["panel"] \cup lanes["bar"]
  /\ priority = Top(pending)
  /\ microtask = (priority = 1)
  /\ task = IF priority = 1 THEN 0 ELSE priority


-----------------------------------------------------------------------------
(* Hooks *)

\* The panel is set by clicks, the bar by the pointer and the timer; only the set of
\* expanded layers is toggled.
UpdatesOf(h) ==
  {u \in Osi!Updates(h) : /\ u.op = "toggle" => h = "expanded"
                      /\ u.lane \in IF h = "visible" THEN {0, 4, 16} ELSE {1}}

HooksFormed ==
  /\ DOMAIN updates = Osi!Hooks
  /\ \A h \in Osi!Hooks : shown[h] \in Osi!Values(h) /\ base[h] \in Osi!Values(h) /\ updates[h] \in Seq(UpdatesOf(h))
  /\ lanes \in [{"panel", "bar"} -> SUBSET Osi!Lanes]
  /\ lanes["panel"] \subseteq {1} /\ lanes["bar"] \subseteq {4, 16}
  /\ inside \in BOOLEAN /\ timer \in BOOLEAN

LEMMA ReduceTypes ==
  ASSUME NEW h \in Osi!Hooks, NEW u, NEW v \in Osi!Values(h), u.op \in {"set", "toggle"}, u.arg \in Osi!Values(h),
         u.op = "toggle" => h = "expanded"
  PROVE  Osi!Reduce(v, u) \in Osi!Values(h)
<1>1. CASE u.op = "set"
  BY <1>1 DEF Osi!Reduce
<1>2. CASE u.op = "toggle"
  <2>1. Osi!Values(h) = SUBSET Osi!Layers
    BY <1>2 DEF Osi!Values
  <2>2. Osi!Reduce(v, u) = (v \ u.arg) \cup (u.arg \ v)
    BY <1>2 DEF Osi!Reduce
  <2>3. v \subseteq Osi!Layers /\ u.arg \subseteq Osi!Layers
    BY <2>1
  <2> QED
    BY <2>1, <2>2, <2>3
<1> QED
  BY <1>1, <1>2

LEMMA StatesTyped ==
  ASSUME NEW h \in Osi!Hooks, NEW on, base[h] \in Osi!Values(h), updates[h] \in Seq(UpdatesOf(h))
  PROVE  \A n \in 0..Len(updates[h]) : Osi!States(h, on)[n] \in Osi!Values(h)
<1> DEFINE Bad == {n \in 0..Len(updates[h]) : Osi!States(h, on)[n] \notin Osi!Values(h)}
<1>1. SUFFICES ASSUME Bad # {} PROVE FALSE
  OBVIOUS
<1>2. Len(updates[h]) \in Nat /\ \A i \in 1..Len(updates[h]) : updates[h][i] \in UpdatesOf(h)
  OBVIOUS
<1>3. PICK n \in Bad : \A k \in Bad : n <= k
  <2>1. Bad \in SUBSET Nat
    BY <1>2
  <2> HIDE DEF Bad
  <2> QED
    BY <1>1, <2>1, LeastNumber
<1>4. n \in 0..Len(updates[h]) /\ Osi!States(h, on)[n] \notin Osi!Values(h)
  BY <1>3
<1>5. n # 0
  BY <1>2, <1>4, StateByState
<1>6. n - 1 \in 0..Len(updates[h]) /\ n - 1 \notin Bad /\ n \in 1..Len(updates[h])
  BY <1>2, <1>3, <1>4, <1>5
<1>7. Osi!States(h, on)[n - 1] \in Osi!Values(h)
  BY <1>6
<1>8. PICK u : u = updates[h][n]
  OBVIOUS
<1>9. u.op \in {"set", "toggle"} /\ u.arg \in Osi!Values(h) /\ (u.op = "toggle" => h = "expanded")
  BY <1>2, <1>6, <1>8 DEF UpdatesOf, Osi!Updates
<1>10. Osi!Reduce(Osi!States(h, on)[n - 1], u) \in Osi!Values(h)
  BY <1>7, <1>9, ReduceTypes
<1>11. Osi!States(h, on)[n] = IF Osi!Applies(u, on) THEN Osi!Reduce(Osi!States(h, on)[n - 1], u) ELSE Osi!States(h, on)[n - 1]
  BY <1>2, <1>4, <1>5, <1>8, StateByState
<1> QED
  BY <1>4, <1>7, <1>10, <1>11

LEMMA SkipsFirst ==
  ASSUME NEW h \in Osi!Hooks, NEW on, updates[h] \in Seq(UpdatesOf(h)), Osi!Skipped(h, on) # {}
  PROVE  /\ Osi!Min(Osi!Skipped(h, on)) \in 1..Len(updates[h])
         /\ ~Osi!Applies(updates[h][Osi!Min(Osi!Skipped(h, on))], on)
<1>1. Osi!Skipped(h, on) \subseteq 1..Len(updates[h]) /\ Len(updates[h]) \in Nat
  BY DEF Osi!Skipped
<1>2. \E x \in Osi!Skipped(h, on) : \A y \in Osi!Skipped(h, on) : x <= y
  BY <1>1, LeastNumber
<1>3. Osi!Min(Osi!Skipped(h, on)) \in Osi!Skipped(h, on)
  BY <1>2 DEF Osi!Min
<1> QED
  BY <1>1, <1>3 DEF Osi!Skipped

LEMMA ValuesTyped ==
  ASSUME NEW h \in Osi!Hooks, NEW on, base[h] \in Osi!Values(h), updates[h] \in Seq(UpdatesOf(h))
  PROVE  Osi!Value(h, on) \in Osi!Values(h) /\ Osi!BaseState(h, on) \in Osi!Values(h)
<1>1. Len(updates[h]) \in Nat
  OBVIOUS
<1>2. Osi!Value(h, on) \in Osi!Values(h)
  BY <1>1, StatesTyped DEF Osi!Value
<1>3. CASE Osi!Skipped(h, on) # {}
  <2>1. PICK first \in Nat : first = Osi!Min(Osi!Skipped(h, on)) /\ first \in 1..Len(updates[h])
    BY <1>1, <1>3, SkipsFirst
  <2>2. Osi!States(h, on)[first - 1] \in Osi!Values(h)
    BY <1>1, <2>1, StatesTyped
  <2> QED
    BY <1>2, <1>3, <2>1, <2>2 DEF Osi!BaseState
<1> QED
  BY <1>2, <1>3 DEF Osi!BaseState

\* What a render leaves in a queue: nothing, or the first update that it skipped and all
\* that follow.
LEMMA KeepsRest ==
  ASSUME NEW h \in Osi!Hooks, NEW on, updates[h] \in Seq(UpdatesOf(h))
  PROVE  /\ Osi!Skipped(h, on) = {} => Osi!Kept(h, on) = << >>
         /\ Osi!Skipped(h, on) # {} =>
              LET first == Osi!Min(Osi!Skipped(h, on)) IN
              /\ first \in 1..Len(updates[h])
              /\ Len(Osi!Kept(h, on)) = Len(updates[h]) - first + 1
              /\ \A i \in 1..Len(Osi!Kept(h, on)) :
                   Osi!Kept(h, on)[i] \in {updates[h][first + i - 1], [updates[h][first + i - 1] EXCEPT !.lane = 0]}
              /\ Osi!Kept(h, on)[1] = updates[h][first] /\ ~Osi!Applies(updates[h][first], on)
         /\ Osi!Kept(h, on) \in Seq(Osi!Updates(h))
<1>1. Len(updates[h]) \in Nat /\ \A i \in 1..Len(updates[h]) : updates[h][i] \in Osi!Updates(h)
  BY DEF UpdatesOf
<1>2. CASE Osi!Skipped(h, on) = {}
  BY <1>2 DEF Osi!Kept
<1>3. CASE Osi!Skipped(h, on) # {}
  <2>1. PICK again : again = [i \in DOMAIN updates[h] |->
                       IF i \in Osi!Skipped(h, on) THEN updates[h][i] ELSE [updates[h][i] EXCEPT !.lane = 0]]
    OBVIOUS
  <2>2. PICK first : first = Osi!Min(Osi!Skipped(h, on))
    OBVIOUS
  <2>3. first \in 1..Len(updates[h]) /\ ~Osi!Applies(updates[h][first], on)
    BY <1>3, <2>2, SkipsFirst
  <2>4. Osi!Kept(h, on) = SubSeq(again, first, Len(again))
    BY <1>3, <2>1, <2>2 DEF Osi!Kept
  <2>5. \A i \in 1..Len(updates[h]) : again[i] \in Osi!Updates(h)
    <3>1. SUFFICES ASSUME NEW i \in 1..Len(updates[h]) PROVE [updates[h][i] EXCEPT !.lane = 0] \in Osi!Updates(h)
      BY <1>1, <2>1
    <3>2. PICK u \in Osi!Updates(h) : u = updates[h][i]
      BY <1>1
    <3>3. [u EXCEPT !.lane = 0] \in Osi!Updates(h)
      BY DEF Osi!Updates
    <3> QED
      BY <3>2, <3>3
  <2>6. again \in Seq(Osi!Updates(h)) /\ Len(again) = Len(updates[h])
    <3>1. again = [i \in 1..Len(updates[h]) |-> again[i]]
      BY <2>1
    <3>2. again \in [1..Len(updates[h]) -> Osi!Updates(h)]
      BY <2>5, <3>1
    <3> QED
      BY <1>1, <3>2
  <2>7. /\ Len(Osi!Kept(h, on)) = Len(updates[h]) - first + 1
        /\ \A i \in 1..Len(Osi!Kept(h, on)) : Osi!Kept(h, on)[i] = again[first + i - 1]
        /\ Osi!Kept(h, on) \in Seq(Osi!Updates(h))
    BY <1>1, <2>3, <2>4, <2>6
  <2>8. \A i \in 1..Len(Osi!Kept(h, on)) :
          Osi!Kept(h, on)[i] \in {updates[h][first + i - 1], [updates[h][first + i - 1] EXCEPT !.lane = 0]}
    <3>1. SUFFICES ASSUME NEW i \in 1..Len(Osi!Kept(h, on))
          PROVE Osi!Kept(h, on)[i] \in {updates[h][first + i - 1], [updates[h][first + i - 1] EXCEPT !.lane = 0]}
      OBVIOUS
    <3>2. PICK j \in 1..Len(updates[h]) : j = first + i - 1
      BY <1>1, <2>3, <2>7
    <3>3. again[j] \in {updates[h][j], [updates[h][j] EXCEPT !.lane = 0]}
      BY <2>1
    <3> QED
      BY <2>7, <3>2, <3>3
  <2>9. Osi!Kept(h, on)[1] = updates[h][first]
    <3>1. first \in Osi!Skipped(h, on) /\ first \in DOMAIN updates[h]
      BY <1>1, <2>3 DEF Osi!Skipped
    <3>2. again[first] = updates[h][first]
      BY <2>1, <3>1
    <3>3. 1 \in 1..Len(Osi!Kept(h, on)) /\ first + 1 - 1 = first
      BY <1>1, <2>3, <2>7
    <3> QED
      BY <2>7, <3>2, <3>3
  <2> QED
    BY <1>3, <2>2, <2>3, <2>7, <2>8, <2>9
<1> QED
  BY <1>2, <1>3 DEF Osi!Kept


\* A queue of plain values comes out at the last, if that is rendered.
LastSent(h) == IF updates[h] = << >> THEN base[h] ELSE updates[h][Len(updates[h])].arg

LEMMA LastCounts ==
  ASSUME NEW h \in Osi!Hooks, h # "expanded", NEW on, updates[h] \in Seq(UpdatesOf(h)),
         updates[h] # << >> => Osi!Applies(updates[h][Len(updates[h])], on)
  PROVE  Osi!Value(h, on) = LastSent(h)
<1>1. Len(updates[h]) \in Nat /\ \A i \in 1..Len(updates[h]) : updates[h][i] \in UpdatesOf(h)
  OBVIOUS
<1>2. CASE updates[h] = << >>
  <2>1. Len(updates[h]) = 0
    BY <1>2
  <2> QED
    BY <1>2, <2>1, StateByState DEF Osi!Value, LastSent
<1>3. CASE updates[h] # << >>
  <2>1. PICK n \in Nat : n = Len(updates[h]) /\ n # 0 /\ n \in 1..Len(updates[h])
    BY <1>1, <1>3
  <2>2. updates[h][n].op = "set"
    BY <1>1, <2>1 DEF UpdatesOf, Osi!Updates
  <2>3. Osi!States(h, on)[n] = Osi!Reduce(Osi!States(h, on)[n - 1], updates[h][n])
    BY <1>3, <2>1, StateByState
  <2> QED
    BY <1>3, <2>1, <2>2, <2>3 DEF Osi!Value, LastSent, Osi!Reduce
<1> QED
  BY <1>2, <1>3

\* What the bar will come to show.
BarWill ==
  /\ ~(inside /\ timer)
  /\ LastSent("visible") = (inside \/ timer)
  /\ lanes["bar"] = {} => shown["visible"] = LastSent("visible")

\* The panel between clicks, and after one that is yet to be rendered.
PanelSettled ==
  \A h \in Osi!PanelHooks :
    /\ base[h] = shown[h]
    /\ h = "expanded" => updates[h] = << >>
    /\ \A i \in DOMAIN updates[h] : updates[h][i].arg = shown[h]

Coming(h) == Osi!Value(h, {1})

PanelClicked ==
  \/ /\ Coming("transport") \in {"tcp", "udp"} /\ Coming("selected") = 4 /\ Coming("expanded") = {4}
     /\ Coming("direction") = shown["direction"] /\ Coming("detail") = shown["detail"]
  \/ /\ \/ Coming("direction") = "encapsulation" /\ Coming("selected") = 7
        \/ Coming("direction") = "decapsulation" /\ Coming("selected") = 1
     /\ Coming("expanded") = {Coming("selected")}
     /\ Coming("transport") = shown["transport"] /\ Coming("detail") = shown["detail"]
  \/ /\ Coming("detail") \in {"essential", "complete"}
     /\ \A h \in Osi!PanelHooks \ {"detail"} : Coming(h) = shown[h]
  \/ \E layer \in Cards :
       /\ Coming("selected") = layer
       /\ Coming("expanded") = IF layer \in shown["expanded"] THEN shown["expanded"] \ {layer}
                               ELSE shown["expanded"] \cup {layer}
       /\ \A h \in {"transport", "direction", "detail"} : Coming(h) = shown[h]

OsiInv == HooksFormed /\ RootScheduled /\ BarWill /\ (IF microtask THEN PanelClicked ELSE PanelSettled)

LEMMA OsiInitInv == Osi!Init => OsiInv
<1> SUFFICES ASSUME Osi!Init PROVE OsiInv
  OBVIOUS
<1>1. /\ shown = Osi!Initially /\ base = Osi!Initially /\ updates = [h \in Osi!Hooks |-> << >>]
      /\ lanes = [f \in {"panel", "bar"} |-> {}]
      /\ pending = {} /\ priority = 0 /\ task = 0 /\ microtask = FALSE
      /\ inside = FALSE /\ timer = FALSE
  BY DEF Osi!Init
<1>2. \A h \in Osi!Hooks : Osi!Initially[h] \in Osi!Values(h)
  BY DEF Osi!Initially, Osi!Hooks, Osi!PanelHooks, Osi!Values, Osi!Layers
<1>3. HooksFormed
  <2>1. \A h \in Osi!Hooks : updates[h] \in Seq(UpdatesOf(h))
    <3>1. \A S : << >> \in Seq(S)
      OBVIOUS
    <3>2. \A h \in Osi!Hooks : updates[h] = << >>
      BY <1>1
    <3> HIDE <1>1
    <3> QED
      BY <3>1, <3>2
  <2>2. \A h \in Osi!Hooks : shown[h] \in Osi!Values(h) /\ base[h] \in Osi!Values(h)
    BY <1>1, <1>2
  <2>3. DOMAIN updates = Osi!Hooks
    BY <1>1
  <2>4. lanes["panel"] = {} /\ lanes["bar"] = {} /\ lanes \in [{"panel", "bar"} -> SUBSET Osi!Lanes]
    BY <1>1
  <2> QED
    BY <1>1, <2>1, <2>2, <2>3, <2>4 DEF HooksFormed
<1>4. RootScheduled
  <2>1. lanes["panel"] = {} /\ lanes["bar"] = {}
    BY <1>1
  <2>2. pending = {} /\ Top(pending) = 0
    BY <1>1 DEF Top
  <2> QED
    <3>1. pending = lanes["panel"] \cup lanes["bar"]
      BY <1>1, <2>1
    <3>2. priority = Top(pending) /\ priority # 1
      BY <1>1, <2>2
    <3>3. microtask = (priority = 1)
      BY <1>1, <3>2
    <3>4. task = IF priority = 1 THEN 0 ELSE priority
      BY <1>1, <3>2
    <3> QED
      BY <3>1, <3>2, <3>3, <3>4 DEF RootScheduled
<1>5. BarWill
  <2>1. "visible" \in Osi!Hooks /\ Osi!Initially["visible"] = FALSE
    BY DEF Osi!Hooks, Osi!Initially, Osi!PanelHooks
  <2> QED
    BY <1>1, <2>1 DEF BarWill, LastSent
<1>6. PanelSettled
  BY <1>1 DEF PanelSettled, Osi!Hooks
<1> QED
  BY <1>1, <1>3, <1>4, <1>5, <1>6 DEF OsiInv


-----------------------------------------------------------------------------
(* Handlers *)

\* What the calls for the hooks `called` have done: each has its update at the end of
\* its queue, as it was sent or computed at once, and the component has the lane unless
\* nothing was to be changed.
AfterCalls(d, f, called, sent, lane) ==
  /\ DOMAIN d.queue = Osi!Hooks
  /\ \A h \in Osi!Hooks \ called : d.queue[h] = updates[h]
  /\ \A h \in called : \E u \in {sent[h], Osi!Set(Osi!Reduce(shown[h], sent[h]))} :
       d.queue[h] = Append(updates[h], [lane |-> lane, op |-> u.op, arg |-> u.arg])
  /\ d.scheduled \in BOOLEAN
  /\ d.lanes = IF d.scheduled THEN [lanes EXCEPT ![f] = lanes[f] \cup {lane}] ELSE lanes
  /\ ~d.scheduled => \A h \in called :
       h # "expanded" /\ d.queue[h] = Append(updates[h], [lane |-> lane, op |-> "set", arg |-> shown[h]])

LEMMA DispatchOnce ==
  ASSUME NEW d, NEW f \in {"panel", "bar"}, NEW called, NEW sent, NEW lane, NEW stale,
         lanes \in [{"panel", "bar"} -> SUBSET Osi!Lanes], AfterCalls(d, f, called, sent, lane),
         NEW h \in Osi!Hooks \ called, Osi!Owner(h) = f, NEW e, e = Osi!Dispatch(d, h, sent[h], lane, stale)
  PROVE  AfterCalls(e, f, called \cup {h}, sent, lane)
<1>1. PICK eager \in BOOLEAN : eager = (d.lanes[f] = {} /\ ~stale)
  OBVIOUS
<1>2. PICK result : result = IF eager THEN Osi!Set(Osi!Reduce(shown[h], sent[h])) ELSE sent[h]
  OBVIOUS
<1>3. PICK bails \in BOOLEAN : bails = (eager /\ Osi!Same(h, result.arg, shown[h]))
  OBVIOUS
<1>5. /\ e.queue = [d.queue EXCEPT ![h] = Append(d.queue[h], [lane |-> lane, op |-> result.op, arg |-> result.arg])]
      /\ e.lanes = IF bails THEN d.lanes ELSE [d.lanes EXCEPT ![f] = d.lanes[f] \cup {lane}]
      /\ e.scheduled = (d.scheduled \/ ~bails)
  BY <1>1, <1>2, <1>3 DEF Osi!Dispatch
<1>6. d.queue[h] = updates[h] /\ DOMAIN d.queue = Osi!Hooks /\ h \in Osi!Hooks
  BY DEF AfterCalls
<1>7. DOMAIN e.queue = Osi!Hooks /\ \A x \in Osi!Hooks : x # h => e.queue[x] = d.queue[x]
  BY <1>5, <1>6
<1>8. e.queue[h] = Append(updates[h], [lane |-> lane, op |-> result.op, arg |-> result.arg])
  BY <1>5, <1>6
<1>9. \A x \in Osi!Hooks \ (called \cup {h}) : e.queue[x] = updates[x]
  BY <1>7 DEF AfterCalls
<1>10. \A x \in called \cup {h} : \E u \in {sent[x], Osi!Set(Osi!Reduce(shown[x], sent[x]))} :
         e.queue[x] = Append(updates[x], [lane |-> lane, op |-> u.op, arg |-> u.arg])
  <2>1. result \in {sent[h], Osi!Set(Osi!Reduce(shown[h], sent[h]))}
    BY <1>2
  <2>2. \E u \in {sent[h], Osi!Set(Osi!Reduce(shown[h], sent[h]))} :
          e.queue[h] = Append(updates[h], [lane |-> lane, op |-> u.op, arg |-> u.arg])
    BY <1>8, <2>1
  <2>3. ASSUME NEW x \in called, x # h
        PROVE  \E u \in {sent[x], Osi!Set(Osi!Reduce(shown[x], sent[x]))} :
                 e.queue[x] = Append(updates[x], [lane |-> lane, op |-> u.op, arg |-> u.arg])
    <3>1. PICK u \in {sent[x], Osi!Set(Osi!Reduce(shown[x], sent[x]))} :
            d.queue[x] = Append(updates[x], [lane |-> lane, op |-> u.op, arg |-> u.arg])
      BY <2>3 DEF AfterCalls
    <3>2. e.queue[x] = d.queue[x]
      <4>1. CASE x \in Osi!Hooks
        BY <1>7, <2>3, <4>1
      <4>2. CASE x \notin Osi!Hooks
        BY <1>5, <2>3, <4>2
      <4> QED
        BY <4>1, <4>2
    <3> QED
      BY <3>1, <3>2
  <2> QED
    BY <2>2, <2>3
<1>11. e.scheduled \in BOOLEAN
  BY <1>5 DEF AfterCalls
<1>12. e.lanes = IF e.scheduled THEN [lanes EXCEPT ![f] = lanes[f] \cup {lane}] ELSE lanes
  <2>1. d.lanes = IF d.scheduled THEN [lanes EXCEPT ![f] = lanes[f] \cup {lane}] ELSE lanes
    BY DEF AfterCalls
  <2>2. d.scheduled \in BOOLEAN
    BY DEF AfterCalls
  <2>3. CASE d.scheduled
    <3>1. d.lanes = [lanes EXCEPT ![f] = lanes[f] \cup {lane}] /\ e.scheduled
      BY <1>5, <2>1, <2>3
    <3>2. d.lanes[f] = lanes[f] \cup {lane}
      BY <3>1
    <3>3. [d.lanes EXCEPT ![f] = d.lanes[f] \cup {lane}] = d.lanes
      BY <3>1, <3>2
    <3> QED
      BY <1>5, <3>1, <3>3
  <2>4. CASE ~d.scheduled
    BY <1>3, <1>5, <2>1, <2>4
  <2> QED
    BY <2>2, <2>3, <2>4
<1>13. ASSUME ~e.scheduled, NEW x \in called \cup {h}
       PROVE  x # "expanded" /\ e.queue[x] = Append(updates[x], [lane |-> lane, op |-> "set", arg |-> shown[x]])
  <2>1. bails /\ ~d.scheduled
    BY <1>3, <1>5, <1>11, <1>13
  <2>2. CASE x = h
    <3>1. eager /\ h # "expanded" /\ result.arg = shown[h]
      BY <1>1, <1>3, <2>1 DEF Osi!Same
    <3>2. result.op = "set"
      BY <1>2, <3>1 DEF Osi!Set
    <3> QED
      BY <1>8, <2>2, <3>1, <3>2
  <2>3. CASE x # h
    <3>1. x \in called /\ x # "expanded" /\ d.queue[x] = Append(updates[x], [lane |-> lane, op |-> "set", arg |-> shown[x]])
      BY <1>13, <2>1, <2>3 DEF AfterCalls
    <3>2. e.queue[x] = d.queue[x]
      <4>1. CASE x \in Osi!Hooks
        BY <1>7, <2>3, <4>1
      <4>2. CASE x \notin Osi!Hooks
        BY <1>5, <2>3, <4>2
      <4> QED
        BY <4>1, <4>2
    <3> QED
      BY <3>1, <3>2
  <2> QED
    BY <2>2, <2>3
<1> QED
  BY <1>7, <1>9, <1>10, <1>11, <1>12, <1>13 DEF AfterCalls

LEMMA NoCalls ==
  ASSUME DOMAIN updates = Osi!Hooks, NEW f, NEW sent, NEW lane
  PROVE  AfterCalls([queue |-> updates, lanes |-> lanes, scheduled |-> FALSE], f, {}, sent, lane)
BY DEF AfterCalls

LEMMA OneCall ==
  ASSUME DOMAIN updates = Osi!Hooks, lanes \in [{"panel", "bar"} -> SUBSET Osi!Lanes],
         NEW f \in {"panel", "bar"}, NEW sent, NEW lane, NEW stale,
         NEW a \in Osi!Hooks, Osi!Owner(a) = f
  PROVE  AfterCalls(Osi!DispatchAll(<< <<a, sent[a]>> >>, lane, stale), f, {a}, sent, lane)
<1>0. PICK calls : calls = << <<a, sent[a]>> >>
  OBVIOUS
<1> DEFINE D(n) == Osi!Dispatched(calls, lane, stale)[n]
<1>1. Len(calls) = 1 /\ calls[1][1] = a /\ calls[1][2] = sent[a]
  BY <1>0
<1>2. D(0) = [queue |-> updates, lanes |-> lanes, scheduled |-> FALSE]
  <2>1. Len(calls) \in Nat
    BY <1>1
  <2> QED
    BY <2>1, CallByCall
<1>3. D(1) = Osi!Dispatch(D(0), a, sent[a], lane, stale)
  <2>1. \A n \in 1..1 : D(n) = Osi!Dispatch(D(n - 1), calls[n][1], calls[n][2], lane, stale)
    <3>1. Len(calls) \in Nat
      BY <1>1
    <3>2. \A n \in 1..Len(calls) : D(n) = Osi!Dispatch(D(n - 1), calls[n][1], calls[n][2], lane, stale)
      BY <3>1, CallByCall
    <3> QED
      BY <1>1, <3>2
  <2>2. 1 \in 1..1 /\ 1 - 1 = 0
    OBVIOUS
  <2> QED
    BY <1>1, <2>1, <2>2
<1>4. Osi!DispatchAll(calls, lane, stale) = D(1)
  BY <1>1 DEF Osi!DispatchAll
<1> HIDE DEF D
<1>5. AfterCalls(D(0), f, {}, sent, lane)
  BY <1>2, NoCalls, Zenon
<1>6. a \in Osi!Hooks \ {}
  OBVIOUS
<1>7. AfterCalls(D(1), f, {} \cup {a}, sent, lane)
  BY <1>3, <1>5, <1>6, DispatchOnce
<1>8. {} \cup {a} = {a}
  OBVIOUS
<1> QED
  BY <1>0, <1>4, <1>7, <1>8

LEMMA TwoCalls ==
  ASSUME DOMAIN updates = Osi!Hooks, lanes \in [{"panel", "bar"} -> SUBSET Osi!Lanes],
         NEW f \in {"panel", "bar"}, NEW sent, NEW lane, NEW stale,
         NEW a \in Osi!Hooks, NEW b \in Osi!Hooks \ {a}, Osi!Owner(a) = f, Osi!Owner(b) = f
  PROVE  AfterCalls(Osi!DispatchAll(<< <<a, sent[a]>>, <<b, sent[b]>> >>, lane, stale), f, {a, b}, sent, lane)
<1>0. PICK calls : calls = << <<a, sent[a]>>, <<b, sent[b]>> >>
  OBVIOUS
<1> DEFINE D(n) == Osi!Dispatched(calls, lane, stale)[n]
<1>1. /\ Len(calls) = 2 /\ calls[1][1] = a /\ calls[1][2] = sent[a]
      /\ calls[2][1] = b /\ calls[2][2] = sent[b]
  BY <1>0
<1>2. D(0) = [queue |-> updates, lanes |-> lanes, scheduled |-> FALSE]
  <2>1. Len(calls) \in Nat
    BY <1>1
  <2> QED
    BY <2>1, CallByCall
<1>3. D(1) = Osi!Dispatch(D(0), a, sent[a], lane, stale) /\ D(2) = Osi!Dispatch(D(1), b, sent[b], lane, stale)
  <2>1. \A n \in 1..2 : D(n) = Osi!Dispatch(D(n - 1), calls[n][1], calls[n][2], lane, stale)
    <3>1. Len(calls) \in Nat
      BY <1>1
    <3>2. \A n \in 1..Len(calls) : D(n) = Osi!Dispatch(D(n - 1), calls[n][1], calls[n][2], lane, stale)
      BY <3>1, CallByCall
    <3> QED
      BY <1>1, <3>2
  <2>2. 1 \in 1..2 /\ 1 - 1 = 0 /\ 2 \in 1..2 /\ 2 - 1 = 1
    OBVIOUS
  <2>3. D(1) = Osi!Dispatch(D(1 - 1), calls[1][1], calls[1][2], lane, stale)
    BY <2>1, <2>2
  <2>4. D(2) = Osi!Dispatch(D(2 - 1), calls[2][1], calls[2][2], lane, stale)
    BY <2>1, <2>2
  <2> QED
    BY <1>1, <2>2, <2>3, <2>4
<1>4. Osi!DispatchAll(calls, lane, stale) = D(2)
  BY <1>1 DEF Osi!DispatchAll
<1> HIDE DEF D
<1>5. AfterCalls(D(0), f, {}, sent, lane)
  BY <1>2, NoCalls, Zenon
<1>6. AfterCalls(D(1), f, {} \cup {a}, sent, lane)
  <2>1. a \in Osi!Hooks \ {}
    OBVIOUS
  <2> QED
    BY <1>3, <1>5, <2>1, DispatchOnce
<1>7. AfterCalls(D(2), f, ({} \cup {a}) \cup {b}, sent, lane)
  <2>1. b \in Osi!Hooks \ ({} \cup {a})
    OBVIOUS
  <2> QED
    BY <1>3, <1>6, <2>1, DispatchOnce
<1>8. ({} \cup {a}) \cup {b} = {a, b}
  OBVIOUS
<1> QED
  BY <1>0, <1>4, <1>7, <1>8

LEMMA ThreeCalls ==
  ASSUME DOMAIN updates = Osi!Hooks, lanes \in [{"panel", "bar"} -> SUBSET Osi!Lanes],
         NEW f \in {"panel", "bar"}, NEW sent, NEW lane, NEW stale,
         NEW a \in Osi!Hooks, NEW b \in Osi!Hooks \ {a}, NEW c \in Osi!Hooks \ {a, b},
         Osi!Owner(a) = f, Osi!Owner(b) = f, Osi!Owner(c) = f
  PROVE  AfterCalls(Osi!DispatchAll(<< <<a, sent[a]>>, <<b, sent[b]>>, <<c, sent[c]>> >>, lane, stale), f, {a, b, c}, sent, lane)
<1>0. PICK calls : calls = << <<a, sent[a]>>, <<b, sent[b]>>, <<c, sent[c]>> >>
  OBVIOUS
<1> DEFINE D(n) == Osi!Dispatched(calls, lane, stale)[n]
<1>1. /\ Len(calls) = 3 /\ calls[1][1] = a /\ calls[1][2] = sent[a]
      /\ calls[2][1] = b /\ calls[2][2] = sent[b] /\ calls[3][1] = c /\ calls[3][2] = sent[c]
  BY <1>0
<1>2. D(0) = [queue |-> updates, lanes |-> lanes, scheduled |-> FALSE]
  <2>1. Len(calls) \in Nat
    BY <1>1
  <2> QED
    BY <2>1, CallByCall
<1>3. /\ D(1) = Osi!Dispatch(D(0), a, sent[a], lane, stale)
      /\ D(2) = Osi!Dispatch(D(1), b, sent[b], lane, stale)
      /\ D(3) = Osi!Dispatch(D(2), c, sent[c], lane, stale)
  <2>1. \A n \in 1..3 : D(n) = Osi!Dispatch(D(n - 1), calls[n][1], calls[n][2], lane, stale)
    <3>1. Len(calls) \in Nat
      BY <1>1
    <3>2. \A n \in 1..Len(calls) : D(n) = Osi!Dispatch(D(n - 1), calls[n][1], calls[n][2], lane, stale)
      BY <3>1, CallByCall
    <3> QED
      BY <1>1, <3>2
  <2>2. 1 \in 1..3 /\ 1 - 1 = 0 /\ 2 \in 1..3 /\ 2 - 1 = 1 /\ 3 \in 1..3 /\ 3 - 1 = 2
    OBVIOUS
  <2>3. D(1) = Osi!Dispatch(D(1 - 1), calls[1][1], calls[1][2], lane, stale)
    BY <2>1, <2>2
  <2>4. D(2) = Osi!Dispatch(D(2 - 1), calls[2][1], calls[2][2], lane, stale)
    BY <2>1, <2>2
  <2>5. D(3) = Osi!Dispatch(D(3 - 1), calls[3][1], calls[3][2], lane, stale)
    BY <2>1, <2>2
  <2> QED
    BY <1>1, <2>2, <2>3, <2>4, <2>5
<1>4. Osi!DispatchAll(calls, lane, stale) = D(3)
  BY <1>1 DEF Osi!DispatchAll
<1> HIDE DEF D
<1>5. AfterCalls(D(0), f, {}, sent, lane)
  BY <1>2, NoCalls, Zenon
<1>6. AfterCalls(D(1), f, {} \cup {a}, sent, lane)
  <2>1. a \in Osi!Hooks \ {}
    OBVIOUS
  <2> QED
    BY <1>3, <1>5, <2>1, DispatchOnce
<1>7. AfterCalls(D(2), f, ({} \cup {a}) \cup {b}, sent, lane)
  <2>1. b \in Osi!Hooks \ ({} \cup {a})
    OBVIOUS
  <2> QED
    BY <1>3, <1>6, <2>1, DispatchOnce
<1>8. AfterCalls(D(3), f, (({} \cup {a}) \cup {b}) \cup {c}, sent, lane)
  <2>1. c \in Osi!Hooks \ (({} \cup {a}) \cup {b})
    OBVIOUS
  <2> QED
    BY <1>3, <1>7, <2>1, DispatchOnce
<1>9. (({} \cup {a}) \cup {b}) \cup {c} = {a, b, c}
  OBVIOUS
<1> QED
  BY <1>0, <1>4, <1>8, <1>9

\* A click on the panel: what each hook comes to is what the click's calls make of what
\* is shown.
LEMMA Comings ==
  ASSUME NEW h \in Osi!PanelHooks, updates[h] \in Seq(UpdatesOf(h))
  PROVE  /\ updates[h] = << >> => Coming(h) = base[h]
         /\ Len(updates[h]) = 1 => Coming(h) = Osi!Reduce(base[h], updates[h][1])
         /\ updates[h] # << >> /\ h # "expanded" => Coming(h) = updates[h][Len(updates[h])].arg
         /\ Osi!Skipped(h, {1}) = {}
<1>1. Len(updates[h]) \in Nat /\ \A i \in 1..Len(updates[h]) : updates[h][i] \in UpdatesOf(h)
  OBVIOUS
<1>2. h \in Osi!Hooks /\ h # "visible"
  BY DEF Osi!Hooks, Osi!PanelHooks
<1>3. \A i \in 1..Len(updates[h]) : Osi!Applies(updates[h][i], {1})
  BY <1>1, <1>2 DEF UpdatesOf, Osi!Applies
<1>4. Osi!Skipped(h, {1}) = {}
  BY <1>1, <1>3 DEF Osi!Skipped
<1>5. CASE updates[h] = << >>
  <2>1. Len(updates[h]) = 0
    BY <1>5
  <2> QED
    BY <1>2, <1>4, <1>5, <2>1, StateByState DEF Coming, Osi!Value
<1>6. CASE updates[h] # << >>
  <2>1. Len(updates[h]) # 0 /\ Len(updates[h]) \in 1..Len(updates[h])
    BY <1>1, <1>6
  <2>2. h # "expanded" => Coming(h) = LastSent(h)
    BY <1>2, <1>3, <2>1, LastCounts DEF Coming
  <2>3. ASSUME Len(updates[h]) = 1 PROVE Coming(h) = Osi!Reduce(base[h], updates[h][1])
    <3>1. Osi!States(h, {1})[0] = base[h]
      BY <1>1, <1>2, StateByState
    <3>2. Osi!States(h, {1})[1] = Osi!Reduce(Osi!States(h, {1})[1 - 1], updates[h][1])
      BY <1>1, <1>2, <1>3, <2>3, StateByState
    <3> QED
      BY <2>3, <3>1, <3>2 DEF Coming, Osi!Value
  <2> QED
    BY <1>4, <1>6, <2>2, <2>3 DEF LastSent
<1> QED
  BY <1>5, <1>6

LEMMA ComingsThen ==
  ASSUME NEW h \in Osi!PanelHooks
  PROVE  (updates[h] \in Seq(UpdatesOf(h)) =>
            /\ updates[h] = << >> => Coming(h) = base[h]
            /\ Len(updates[h]) = 1 => Coming(h) = Osi!Reduce(base[h], updates[h][1])
            /\ updates[h] # << >> /\ h # "expanded" => Coming(h) = updates[h][Len(updates[h])].arg)'
<1>1. updates[h] \in Seq(UpdatesOf(h)) =>
            /\ updates[h] = << >> => Coming(h) = base[h]
            /\ Len(updates[h]) = 1 => Coming(h) = Osi!Reduce(base[h], updates[h][1])
            /\ updates[h] # << >> /\ h # "expanded" => Coming(h) = updates[h][Len(updates[h])].arg
  BY Comings
<1> QED
  BY <1>1, PTL

\* What a handler does.
HandlerRan(d, lane) ==
  /\ updates' = d.queue /\ lanes' = d.lanes
  /\ IF d.scheduled
       THEN pending' = pending \cup {lane} /\ Osi!Schedule(Osi!Ensured(pending \cup {lane}, priority, task))
       ELSE UNCHANGED Osi!root
  /\ UNCHANGED <<shown, base>>

\* The updates it sends.
SentBy(called, f, sent, lane) ==
  /\ called \subseteq Osi!Hooks
  /\ \/ f = "panel" /\ lane = 1 /\ called \subseteq Osi!PanelHooks
     \/ f = "bar" /\ lane \in {4, 16} /\ called = {"visible"}
  /\ \A h \in called : /\ sent[h].op \in {"set", "toggle"} /\ sent[h].arg \in Osi!Values(h)
                       /\ sent[h].op = "toggle" => h = "expanded"

LEMMA RootsHandled ==
  ASSUME HooksFormed, RootScheduled, ~microtask, NEW d, NEW f, NEW called, NEW sent, NEW lane,
         SentBy(called, f, sent, lane), AfterCalls(d, f, called, sent, lane), HandlerRan(d, lane)
  PROVE  RootScheduled' /\ microtask' = (d.scheduled /\ lane = 1) /\ (d.scheduled => lane \in lanes'[f])
<1>1. lane \in Osi!Lanes /\ f \in {"panel", "bar"} /\ d.scheduled \in BOOLEAN
  BY DEF SentBy, Osi!Lanes, AfterCalls
<1>2. pending \in SUBSET Osi!Lanes /\ lanes \in [{"panel", "bar"} -> SUBSET Osi!Lanes]
  BY DEF HooksFormed, RootScheduled
<1>3. priority = Top(pending) /\ priority # 1 /\ task = priority
  BY DEF RootScheduled
<1>4. priority \in {0, 4, 16} /\ 1 \notin pending
  BY <1>2, <1>3, TopLanes DEF Osi!Lanes
<1>5. CASE d.scheduled
  <2>1. lanes' = [lanes EXCEPT ![f] = lanes[f] \cup {lane}]
    BY <1>5 DEF AfterCalls, HandlerRan
  <2>2. lane \in lanes'[f] /\ lanes'["panel"] \cup lanes'["bar"] = lanes["panel"] \cup lanes["bar"] \cup {lane}
    BY <1>1, <1>2, <2>1
  <2>3. PICK of \in SUBSET Osi!Lanes : of = pending \cup {lane}
    BY <1>1, <1>2
  <2>4. pending' = of /\ Osi!Schedule(Osi!Ensured(of, priority, priority))
    BY <1>3, <1>5, <2>3 DEF HandlerRan
  <2>5. priority' = Top(of) /\ task' = (IF Top(of) = 1 THEN 0 ELSE Top(of)) /\ microtask' = (Top(of) = 1)
    BY <1>4, <2>4, Ensures DEF Osi!Schedule
  <2>6. Top(of) = 1 <=> lane = 1
    BY <1>4, <2>3, TopLanes
  <2>7. pending' = lanes'["panel"] \cup lanes'["bar"]
    BY <2>2, <2>3, <2>4 DEF RootScheduled
  <2>8. Top(pending)' = Top(of)
    BY <2>4 DEF Top
  <2>9. RootScheduled'
    BY <2>5, <2>7, <2>8 DEF RootScheduled
  <2> QED
    BY <1>5, <2>2, <2>5, <2>6, <2>9
<1>6. CASE ~d.scheduled
  <2>1. UNCHANGED <<lanes, Osi!root>>
    BY <1>6 DEF AfterCalls, HandlerRan
  <2>2. RootScheduled'
    BY <2>1 DEF RootScheduled, Osi!root, Top
  <2>3. microtask' = FALSE
    BY <2>1 DEF RootScheduled, Osi!root
  <2>4. (d.scheduled /\ lane = 1) = FALSE
    BY <1>6
  <2> QED
    BY <1>6, <2>2, <2>3, <2>4
<1> QED
  BY <1>1, <1>5, <1>6

LEMMA HooksHandled ==
  ASSUME HooksFormed, NEW d, NEW f, NEW called, NEW sent, NEW lane,
         SentBy(called, f, sent, lane), AfterCalls(d, f, called, sent, lane), HandlerRan(d, lane),
         inside' \in BOOLEAN, timer' \in BOOLEAN
  PROVE  HooksFormed'
<1>1. updates' = d.queue /\ lanes' = d.lanes /\ shown' = shown /\ base' = base /\ DOMAIN updates' = Osi!Hooks
  BY DEF HandlerRan, AfterCalls
<1>2. ASSUME NEW h \in Osi!Hooks PROVE updates'[h] \in Seq(UpdatesOf(h))
  <2>1. updates[h] \in Seq(UpdatesOf(h)) /\ shown[h] \in Osi!Values(h)
    BY DEF HooksFormed
  <2>2. CASE h \notin called
    BY <1>1, <2>1, <2>2 DEF AfterCalls
  <2>3. CASE h \in called
    <3>1. PICK u \in {sent[h], Osi!Set(Osi!Reduce(shown[h], sent[h]))} :
            updates'[h] = Append(updates[h], [lane |-> lane, op |-> u.op, arg |-> u.arg])
      BY <1>1, <2>3 DEF AfterCalls
    <3>2. u.op \in {"set", "toggle"} /\ u.arg \in Osi!Values(h) /\ (u.op = "toggle" => h = "expanded")
      <4>1. Osi!Reduce(shown[h], sent[h]) \in Osi!Values(h)
        BY <2>1, <2>3, ReduceTypes DEF SentBy
      <4> QED
        BY <2>3, <3>1, <4>1 DEF SentBy, Osi!Set
    <3>3. PICK w : w = [lane |-> lane, op |-> u.op, arg |-> u.arg]
      OBVIOUS
    <3>4. w \in Osi!Updates(h) /\ w.op = u.op /\ w.lane = lane
      BY <3>2, <3>3 DEF Osi!Updates, SentBy, Osi!Lanes
    <3>5. lane \in IF h = "visible" THEN {0, 4, 16} ELSE {1}
      BY <2>3 DEF SentBy, Osi!PanelHooks
    <3>6. w \in UpdatesOf(h)
      BY <3>2, <3>4, <3>5 DEF UpdatesOf
    <3> QED
      BY <2>1, <3>1, <3>3, <3>6
  <2> QED
    BY <2>2, <2>3
<1>3. /\ lanes' \in [{"panel", "bar"} -> SUBSET Osi!Lanes]
      /\ lanes'["panel"] \subseteq {1} /\ lanes'["bar"] \subseteq {4, 16}
  <2>1. lanes' = lanes \/ lanes' = [lanes EXCEPT ![f] = lanes[f] \cup {lane}]
    BY DEF HandlerRan, AfterCalls
  <2>2. (f = "panel" /\ lane = 1) \/ (f = "bar" /\ lane \in {4, 16})
    BY DEF SentBy
  <2> QED
    BY <2>1, <2>2 DEF HooksFormed, Osi!Lanes
<1>4. (\A h \in Osi!Hooks : shown[h] \in Osi!Values(h) /\ base[h] \in Osi!Values(h) /\ updates[h] \in Seq(UpdatesOf(h)))'
  BY <1>1, <1>2 DEF HooksFormed
<1> QED
  BY <1>1, <1>3, <1>4 DEF HooksFormed

\* A click: the hooks it sets come to what it makes of what is shown, the others stay.
LEMMA PanelClicks ==
  ASSUME HooksFormed, RootScheduled, BarWill, PanelSettled, ~microtask, NEW d, NEW called, NEW sent,
         SentBy(called, "panel", sent, 1), AfterCalls(d, "panel", called, sent, 1), HandlerRan(d, 1), UNCHANGED Osi!pointer
  PROVE  /\ HooksFormed' /\ RootScheduled' /\ BarWill'
         /\ ~microtask' => PanelSettled'
         /\ \A h \in Osi!PanelHooks :
              /\ shown'[h] = shown[h]
              /\ Coming(h)' = IF h \in called THEN Osi!Reduce(shown[h], sent[h]) ELSE shown[h]
<1>1. inside' = inside /\ timer' = timer
  BY DEF Osi!pointer
<1>2. inside' \in BOOLEAN /\ timer' \in BOOLEAN
  BY <1>1 DEF HooksFormed
<1>3. HooksFormed'
  BY <1>2, HooksHandled
<1>4. RootScheduled' /\ (microtask' = (d.scheduled /\ 1 = 1))
  BY RootsHandled
<1>5. updates' = d.queue /\ lanes' = d.lanes /\ shown' = shown /\ base' = base /\ d.scheduled \in BOOLEAN
  BY DEF HandlerRan, AfterCalls
<1>6. called \subseteq Osi!PanelHooks /\ Osi!PanelHooks \subseteq Osi!Hooks /\ "visible" \in Osi!Hooks \ Osi!PanelHooks
  BY DEF SentBy, Osi!Hooks, Osi!PanelHooks
<1>7. BarWill'
  <2>1. updates'["visible"] = updates["visible"]
    BY <1>5, <1>6 DEF AfterCalls
  <2>2. lanes'["bar"] = lanes["bar"]
    BY <1>5 DEF AfterCalls, HooksFormed
  <2>3. LastSent("visible")' = LastSent("visible")
    BY <1>5, <2>1 DEF LastSent
  <2> QED
    BY <1>1, <1>5, <2>2, <2>3 DEF BarWill
<1>8. ASSUME ~microtask' PROVE PanelSettled'
  <2>1. ~d.scheduled
    BY <1>4, <1>5, <1>8
  <2>2. ASSUME NEW h \in Osi!PanelHooks
        PROVE  /\ base'[h] = shown'[h]
               /\ h = "expanded" => updates'[h] = << >>
               /\ \A i \in DOMAIN updates'[h] : updates'[h][i].arg = shown'[h]
    <3>1. /\ base[h] = shown[h]
          /\ h = "expanded" => updates[h] = << >>
          /\ \A i \in DOMAIN updates[h] : updates[h][i].arg = shown[h]
      BY DEF PanelSettled
    <3>2. CASE h \notin called
      BY <1>5, <1>6, <3>1, <3>2 DEF AfterCalls
    <3>3. CASE h \in called
      <4>1. h # "expanded" /\ updates'[h] = Append(updates[h], [lane |-> 1, op |-> "set", arg |-> shown[h]])
        BY <1>5, <2>1, <3>3 DEF AfterCalls
      <4>2. PICK w : w = [lane |-> 1, op |-> "set", arg |-> shown[h]]
        OBVIOUS
      <4>3. updates[h] \in Seq(UpdatesOf(h)) /\ w.arg = shown[h]
        BY <1>6, <4>2 DEF HooksFormed
      <4>4. \A i \in DOMAIN updates'[h] : updates'[h][i] = w \/ (i \in DOMAIN updates[h] /\ updates'[h][i] = updates[h][i])
        BY <4>1, <4>2, <4>3
      <4> QED
        BY <1>5, <3>1, <4>1, <4>3, <4>4
    <3> QED
      BY <3>2, <3>3
  <2> QED
    BY <2>2 DEF PanelSettled
<1>9. ASSUME NEW h \in Osi!PanelHooks
      PROVE  Coming(h)' = IF h \in called THEN Osi!Reduce(shown[h], sent[h]) ELSE shown[h]
  <2>1. /\ base[h] = shown[h]
        /\ h = "expanded" => updates[h] = << >>
        /\ \A i \in DOMAIN updates[h] : updates[h][i].arg = shown[h]
    BY DEF PanelSettled
  <2>2. updates'[h] \in Seq(UpdatesOf(h)) /\ updates[h] \in Seq(UpdatesOf(h)) /\ base'[h] = base[h]
    BY <1>3, <1>5, <1>6 DEF HooksFormed
  <2>3. /\ updates'[h] = << >> => Coming(h)' = base'[h]
        /\ Len(updates'[h]) = 1 => Coming(h)' = Osi!Reduce(base'[h], updates'[h][1])
        /\ updates'[h] # << >> /\ h # "expanded" => Coming(h)' = updates'[h][Len(updates'[h])].arg
    BY <2>2, ComingsThen
  <2>4. CASE h \notin called
    <3>1. updates'[h] = updates[h]
      BY <1>5, <1>6, <2>4 DEF AfterCalls
    <3>2. CASE updates[h] = << >>
      BY <2>1, <2>2, <2>3, <2>4, <3>1, <3>2
    <3>3. CASE updates[h] # << >>
      <4>1. Len(updates[h]) \in DOMAIN updates[h]
        BY <2>2, <3>3
      <4> QED
        BY <2>1, <2>3, <2>4, <3>1, <3>3, <4>1
    <3> QED
      BY <3>2, <3>3
  <2>5. CASE h \in called
    <3>1. PICK u \in {sent[h], Osi!Set(Osi!Reduce(shown[h], sent[h]))} :
            updates'[h] = Append(updates[h], [lane |-> 1, op |-> u.op, arg |-> u.arg])
      BY <1>5, <2>5 DEF AfterCalls
    <3>2. PICK w : w = [lane |-> 1, op |-> u.op, arg |-> u.arg]
      OBVIOUS
    <3>3. w.op = u.op /\ w.arg = u.arg /\ updates'[h] = Append(updates[h], w)
      BY <3>1, <3>2
    <3>4. Osi!Reduce(shown[h], w) = Osi!Reduce(shown[h], sent[h])
      <4>1. Osi!Reduce(shown[h], w) = Osi!Reduce(shown[h], u)
        BY <3>3 DEF Osi!Reduce
      <4>2. u = Osi!Set(Osi!Reduce(shown[h], sent[h])) => Osi!Reduce(shown[h], u) = Osi!Reduce(shown[h], sent[h])
        BY DEF Osi!Reduce, Osi!Set
      <4> QED
        BY <3>1, <4>1, <4>2
    <3>5. /\ Len(updates'[h]) = Len(updates[h]) + 1 /\ updates'[h][Len(updates'[h])] = w
          /\ updates'[h] # << >> /\ Len(updates[h]) \in Nat
      BY <2>2, <3>3
    <3>6. CASE h = "expanded"
      <4>1. Len(updates'[h]) = 1 /\ updates'[h][1] = w
        BY <2>1, <3>5, <3>6
      <4> QED
        BY <2>1, <2>2, <2>3, <2>5, <3>4, <4>1
    <3>7. CASE h # "expanded"
      <4>1. Coming(h)' = w.arg
        BY <2>3, <3>5, <3>7
      <4>2. w.op = "set"
        BY <2>5, <3>1, <3>3, <3>7 DEF SentBy, Osi!Set
      <4>3. Osi!Reduce(shown[h], w) = w.arg
        BY <4>2 DEF Osi!Reduce
      <4> QED
        BY <2>5, <3>4, <4>1, <4>3
    <3> QED
      BY <3>6, <3>7
  <2> QED
    BY <2>4, <2>5
<1> QED
  BY <1>3, <1>4, <1>5, <1>7, <1>8, <1>9

LEMMA ChoosesTransport ==
  ASSUME OsiInv, NEW t \in Osi!Values("transport"), Osi!ChooseTransport(t)
  PROVE  OsiInv' /\ \A h \in Osi!PanelHooks : shown'[h] = shown[h]
<1>1. PICK sent : sent = [h \in Osi!Hooks |-> CASE h = "transport" -> Osi!Set(t) [] h = "selected" -> Osi!Set(4)
                                            [] OTHER -> Osi!Set({4})]
  OBVIOUS
<1>2. /\ "transport" \in Osi!Hooks /\ "selected" \in Osi!Hooks \ {"transport"}
      /\ "expanded" \in Osi!Hooks \ {"transport", "selected"}
      /\ Osi!Owner("transport") = "panel" /\ Osi!Owner("selected") = "panel" /\ Osi!Owner("expanded") = "panel"
  BY DEF Osi!Hooks, Osi!PanelHooks, Osi!Owner
<1>3. sent["transport"] = Osi!Set(t) /\ sent["selected"] = Osi!Set(4) /\ sent["expanded"] = Osi!Set({4})
  BY <1>1, <1>2
<1>4. /\ HooksFormed /\ RootScheduled /\ BarWill /\ PanelSettled /\ ~microtask
      /\ lanes \in [{"panel", "bar"} -> SUBSET Osi!Lanes] /\ DOMAIN updates = Osi!Hooks
  BY DEF OsiInv, Osi!ChooseTransport, HooksFormed
<1>5. PICK stale, d :
        /\ d = Osi!DispatchAll(<< <<"transport", sent["transport"]>>, <<"selected", sent["selected"]>>,
                              <<"expanded", sent["expanded"]>> >>, 1, stale)
        /\ HandlerRan(d, 1)
  BY <1>3 DEF Osi!ChooseTransport, Osi!Handle, HandlerRan
<1>6. AfterCalls(d, "panel", {"transport", "selected", "expanded"}, sent, 1)
  BY <1>2, <1>4, <1>5, ThreeCalls
<1>7. SentBy({"transport", "selected", "expanded"}, "panel", sent, 1)
  BY <1>2, <1>3 DEF SentBy, Osi!Set, Osi!Values, Osi!Layers, Osi!PanelHooks
<1>8. UNCHANGED Osi!pointer
  BY DEF Osi!ChooseTransport
<1>9. /\ HooksFormed' /\ RootScheduled' /\ BarWill' /\ (~microtask' => PanelSettled')
      /\ \A h \in Osi!PanelHooks : /\ shown'[h] = shown[h]
                               /\ Coming(h)' = IF h \in {"transport", "selected", "expanded"}
                                                 THEN Osi!Reduce(shown[h], sent[h]) ELSE shown[h]
  BY <1>4, <1>5, <1>6, <1>7, <1>8, PanelClicks
<1>10. /\ Coming("transport")' = t /\ Coming("selected")' = 4 /\ Coming("expanded")' = {4}
       /\ Coming("direction")' = shown'["direction"] /\ Coming("detail")' = shown'["detail"]
  BY <1>3, <1>9 DEF Osi!PanelHooks, Osi!Reduce, Osi!Set
<1>11. PanelClicked'
  BY <1>10 DEF PanelClicked, Osi!Values
<1> QED
  BY <1>9, <1>11 DEF OsiInv

LEMMA ChoosesDetail ==
  ASSUME OsiInv, NEW v \in Osi!Values("detail"), Osi!ChooseDetail(v)
  PROVE  OsiInv' /\ \A h \in Osi!PanelHooks : shown'[h] = shown[h]
<1>1. PICK sent : sent = [h \in Osi!Hooks |-> Osi!Set(v)]
  OBVIOUS
<1>2. "detail" \in Osi!Hooks /\ Osi!Owner("detail") = "panel"
  BY DEF Osi!Hooks, Osi!PanelHooks, Osi!Owner
<1>3. sent["detail"] = Osi!Set(v)
  BY <1>1, <1>2
<1>4. /\ HooksFormed /\ RootScheduled /\ BarWill /\ PanelSettled /\ ~microtask
      /\ lanes \in [{"panel", "bar"} -> SUBSET Osi!Lanes] /\ DOMAIN updates = Osi!Hooks
  BY DEF OsiInv, Osi!ChooseDetail, HooksFormed
<1>5. PICK stale, d :
        d = Osi!DispatchAll(<< <<"detail", sent["detail"]>> >>, 1, stale) /\ HandlerRan(d, 1)
  BY <1>3 DEF Osi!ChooseDetail, Osi!Handle, HandlerRan
<1>6. AfterCalls(d, "panel", {"detail"}, sent, 1)
  BY <1>2, <1>4, <1>5, OneCall
<1>7. SentBy({"detail"}, "panel", sent, 1)
  BY <1>2, <1>3 DEF SentBy, Osi!Set, Osi!Values, Osi!PanelHooks
<1>8. UNCHANGED Osi!pointer
  BY DEF Osi!ChooseDetail
<1>9. /\ HooksFormed' /\ RootScheduled' /\ BarWill' /\ (~microtask' => PanelSettled')
      /\ \A h \in Osi!PanelHooks : /\ shown'[h] = shown[h]
                               /\ Coming(h)' = IF h \in {"detail"} THEN Osi!Reduce(shown[h], sent[h]) ELSE shown[h]
  BY <1>4, <1>5, <1>6, <1>7, <1>8, PanelClicks
<1>10. Coming("detail")' = v /\ \A h \in Osi!PanelHooks \ {"detail"} : Coming(h)' = shown'[h]
  BY <1>3, <1>9 DEF Osi!PanelHooks, Osi!Reduce, Osi!Set
<1>11. PanelClicked'
  BY <1>10 DEF PanelClicked, Osi!Values
<1> QED
  BY <1>9, <1>11 DEF OsiInv

LEMMA ChoosesDirection ==
  ASSUME OsiInv, NEW v \in Osi!Values("direction"), Osi!ChooseDirection(v)
  PROVE  OsiInv' /\ \A h \in Osi!PanelHooks : shown'[h] = shown[h]
<1>0. PICK layer \in {1, 7} : layer = IF v = "encapsulation" THEN 7 ELSE 1
  OBVIOUS
<1>1. PICK sent : sent = [h \in Osi!Hooks |-> CASE h = "direction" -> Osi!Set(v) [] h = "selected" -> Osi!Set(layer)
                                            [] OTHER -> Osi!Set({layer})]
  OBVIOUS
<1>2. /\ "direction" \in Osi!Hooks /\ "expanded" \in Osi!Hooks \ {"direction"}
      /\ "selected" \in Osi!Hooks \ {"direction", "expanded"}
      /\ Osi!Owner("direction") = "panel" /\ Osi!Owner("selected") = "panel" /\ Osi!Owner("expanded") = "panel"
  BY DEF Osi!Hooks, Osi!PanelHooks, Osi!Owner
<1>3. sent["direction"] = Osi!Set(v) /\ sent["selected"] = Osi!Set(layer) /\ sent["expanded"] = Osi!Set({layer})
  BY <1>1, <1>2
<1>4. /\ HooksFormed /\ RootScheduled /\ BarWill /\ PanelSettled /\ ~microtask
      /\ lanes \in [{"panel", "bar"} -> SUBSET Osi!Lanes] /\ DOMAIN updates = Osi!Hooks
  BY DEF OsiInv, Osi!ChooseDirection, HooksFormed
<1>5. PICK stale, d :
        /\ d = Osi!DispatchAll(<< <<"direction", sent["direction"]>>, <<"expanded", sent["expanded"]>>,
                              <<"selected", sent["selected"]>> >>, 1, stale)
        /\ HandlerRan(d, 1)
  BY <1>0, <1>3 DEF Osi!ChooseDirection, Osi!DirectionCalls, Osi!Handle, HandlerRan
<1>6. AfterCalls(d, "panel", {"direction", "expanded", "selected"}, sent, 1)
  BY <1>2, <1>4, <1>5, ThreeCalls
<1>7. SentBy({"direction", "expanded", "selected"}, "panel", sent, 1)
  BY <1>2, <1>3 DEF SentBy, Osi!Set, Osi!Values, Osi!Layers, Osi!PanelHooks
<1>8. UNCHANGED Osi!pointer
  BY DEF Osi!ChooseDirection
<1>9. /\ HooksFormed' /\ RootScheduled' /\ BarWill' /\ (~microtask' => PanelSettled')
      /\ \A h \in Osi!PanelHooks : /\ shown'[h] = shown[h]
                               /\ Coming(h)' = IF h \in {"direction", "expanded", "selected"}
                                                 THEN Osi!Reduce(shown[h], sent[h]) ELSE shown[h]
  BY <1>4, <1>5, <1>6, <1>7, <1>8, PanelClicks
<1>10. /\ Coming("direction")' = v /\ Coming("selected")' = layer /\ Coming("expanded")' = {layer}
       /\ Coming("transport")' = shown'["transport"] /\ Coming("detail")' = shown'["detail"]
  BY <1>3, <1>9 DEF Osi!PanelHooks, Osi!Reduce, Osi!Set
<1>11. PanelClicked'
  BY <1>0, <1>10 DEF PanelClicked, Osi!Values
<1> QED
  BY <1>9, <1>11 DEF OsiInv

LEMMA ClicksCard ==
  ASSUME OsiInv, NEW layer \in Cards, Osi!ClickCard(layer)
  PROVE  OsiInv' /\ \A h \in Osi!PanelHooks : shown'[h] = shown[h]
<1>1. PICK sent : sent = [h \in Osi!Hooks |-> IF h = "selected" THEN Osi!Set(layer) ELSE Osi!Toggle(layer)]
  OBVIOUS
<1>2. /\ "selected" \in Osi!Hooks /\ "expanded" \in Osi!Hooks \ {"selected"}
      /\ Osi!Owner("selected") = "panel" /\ Osi!Owner("expanded") = "panel"
  BY DEF Osi!Hooks, Osi!PanelHooks, Osi!Owner
<1>3. sent["selected"] = Osi!Set(layer) /\ sent["expanded"] = Osi!Toggle(layer)
  BY <1>1, <1>2
<1>4. /\ HooksFormed /\ RootScheduled /\ BarWill /\ PanelSettled /\ ~microtask
      /\ lanes \in [{"panel", "bar"} -> SUBSET Osi!Lanes] /\ DOMAIN updates = Osi!Hooks
  BY DEF OsiInv, Osi!ClickCard, HooksFormed
<1>5. PICK stale, d :
        /\ d = Osi!DispatchAll(<< <<"selected", sent["selected"]>>, <<"expanded", sent["expanded"]>> >>, 1, stale)
        /\ HandlerRan(d, 1)
  BY <1>3 DEF Osi!ClickCard, Osi!Handle, HandlerRan
<1>6. AfterCalls(d, "panel", {"selected", "expanded"}, sent, 1)
  BY <1>2, <1>4, <1>5, TwoCalls
<1>7. SentBy({"selected", "expanded"}, "panel", sent, 1)
  BY <1>2, <1>3 DEF SentBy, Osi!Set, Osi!Toggle, Osi!Values, Osi!Layers, Osi!PanelHooks
<1>8. UNCHANGED Osi!pointer
  BY DEF Osi!ClickCard
<1>9. /\ HooksFormed' /\ RootScheduled' /\ BarWill' /\ (~microtask' => PanelSettled')
      /\ \A h \in Osi!PanelHooks : /\ shown'[h] = shown[h]
                               /\ Coming(h)' = IF h \in {"selected", "expanded"}
                                                 THEN Osi!Reduce(shown[h], sent[h]) ELSE shown[h]
  BY <1>4, <1>5, <1>6, <1>7, <1>8, PanelClicks
<1>10. /\ Coming("selected")' = layer
       /\ Coming("expanded")' = (shown["expanded"] \ {layer}) \cup ({layer} \ shown["expanded"])
       /\ \A h \in {"transport", "direction", "detail"} : Coming(h)' = shown'[h]
  BY <1>3, <1>9 DEF Osi!PanelHooks, Osi!Reduce, Osi!Set, Osi!Toggle
<1>11. Coming("expanded")' = IF layer \in shown'["expanded"] THEN shown'["expanded"] \ {layer}
                             ELSE shown'["expanded"] \cup {layer}
  <2>1. shown'["expanded"] = shown["expanded"]
    BY <1>9 DEF Osi!PanelHooks
  <2>2. CASE layer \in shown["expanded"]
    <3>1. {layer} \ shown["expanded"] = {}
      BY <2>2
    <3> QED
      BY <1>10, <2>1, <2>2, <3>1
  <2>3. CASE layer \notin shown["expanded"]
    <3>1. shown["expanded"] \ {layer} = shown["expanded"] /\ {layer} \ shown["expanded"] = {layer}
      BY <2>3
    <3> QED
      BY <1>10, <2>1, <2>3, <3>1
  <2> QED
    BY <2>2, <2>3
<1>12. PanelClicked'
  BY <1>10, <1>11 DEF PanelClicked
<1> QED
  BY <1>9, <1>12 DEF OsiInv

\* The pointer enters, or the timer fires: the bar will come to show what it says.
LEMMA BarMoves ==
  ASSUME OsiInv, ~microtask, NEW lane \in {4, 16}, NEW value \in BOOLEAN,
         Osi!Handle(<< <<"visible", Osi!Set(value)>> >>, lane),
         inside' \in BOOLEAN, timer' = FALSE, inside' = value
  PROVE  OsiInv' /\ \A h \in Osi!PanelHooks : shown'[h] = shown[h]
<1>1. PICK sent : sent = [h \in Osi!Hooks |-> Osi!Set(value)]
  OBVIOUS
<1>2. "visible" \in Osi!Hooks /\ Osi!Owner("visible") = "bar" /\ Osi!PanelHooks \subseteq Osi!Hooks \ {"visible"}
  BY DEF Osi!Hooks, Osi!PanelHooks, Osi!Owner
<1>3. sent["visible"] = Osi!Set(value)
  BY <1>1, <1>2
<1>4. /\ HooksFormed /\ RootScheduled /\ BarWill /\ PanelSettled
      /\ lanes \in [{"panel", "bar"} -> SUBSET Osi!Lanes] /\ DOMAIN updates = Osi!Hooks
      /\ updates["visible"] \in Seq(UpdatesOf("visible"))
  BY <1>2 DEF OsiInv, HooksFormed
<1>5. PICK stale, d :
        d = Osi!DispatchAll(<< <<"visible", sent["visible"]>> >>, lane, stale) /\ HandlerRan(d, lane)
  BY <1>3 DEF Osi!Handle, HandlerRan
<1>6. AfterCalls(d, "bar", {"visible"}, sent, lane)
  BY <1>2, <1>4, <1>5, OneCall
<1>7. SentBy({"visible"}, "bar", sent, lane)
  BY <1>2, <1>3 DEF SentBy, Osi!Set, Osi!Values, Osi!PanelHooks
<1>8. HooksFormed'
  BY <1>4, <1>5, <1>6, <1>7, HooksHandled
<1>9. RootScheduled' /\ microtask' = (d.scheduled /\ lane = 1) /\ (d.scheduled => lane \in lanes'["bar"])
  BY <1>4, <1>5, <1>6, <1>7, RootsHandled
<1>10. ~microtask'
  <2>1. ~(d.scheduled /\ lane = 1)
    OBVIOUS
  <2> QED
    BY <1>9, <2>1
<1>11. updates' = d.queue /\ shown' = shown /\ base' = base
  BY <1>5 DEF HandlerRan
<1>12. PanelSettled'
  <2>1. \A h \in Osi!PanelHooks : updates'[h] = updates[h]
    BY <1>2, <1>6, <1>11 DEF AfterCalls
  <2> QED
    BY <1>4, <1>11, <2>1 DEF PanelSettled
<1>13. BarWill'
  <2>1. PICK u \in {sent["visible"], Osi!Set(Osi!Reduce(shown["visible"], sent["visible"]))} :
          updates'["visible"] = Append(updates["visible"], [lane |-> lane, op |-> u.op, arg |-> u.arg])
    BY <1>6, <1>11 DEF AfterCalls
  <2>2. u.arg = value
    BY <1>3, <2>1 DEF Osi!Set, Osi!Reduce
  <2>3. PICK w : w = [lane |-> lane, op |-> u.op, arg |-> u.arg]
    OBVIOUS
  <2>4. updates'["visible"] # << >> /\ updates'["visible"][Len(updates'["visible"])] = w /\ w.arg = value
    <3>1. updates'["visible"] = Append(updates["visible"], w) /\ w.arg = value
      BY <2>1, <2>2, <2>3
    <3> QED
      <4>1. PICK q : q = updates["visible"] /\ q \in Seq(UpdatesOf("visible"))
        BY <1>4
      <4>2. updates'["visible"] = Append(q, w)
        BY <3>1, <4>1
      <4> QED
        BY <3>1, <4>1, <4>2
  <2>5. LastSent("visible")' = value
    BY <2>4 DEF LastSent
  <2>6. ASSUME lanes'["bar"] = {} PROVE shown'["visible"] = value
    <3>1. ~d.scheduled
      BY <1>9, <2>6
    <3>2. updates'["visible"] = Append(updates["visible"], [lane |-> lane, op |-> "set", arg |-> shown["visible"]])
      BY <1>6, <1>11, <3>1 DEF AfterCalls
    <3>3. PICK x : x = [lane |-> lane, op |-> "set", arg |-> shown["visible"]]
      OBVIOUS
    <3>4. updates'["visible"][Len(updates'["visible"])] = x /\ x.arg = shown["visible"]
      BY <1>4, <3>2, <3>3
    <3> QED
      BY <1>11, <2>4, <3>4
  <2> QED
    BY <2>5, <2>6 DEF BarWill
<1> QED
  BY <1>8, <1>9, <1>10, <1>11, <1>12, <1>13 DEF OsiInv

LEMMA PointerLeft ==
  ASSUME OsiInv, Osi!PointerLeaves
  PROVE  OsiInv' /\ \A h \in Osi!PanelHooks : shown'[h] = shown[h]
<1>1. UNCHANGED <<shown, base, updates, lanes, pending, priority, task, microtask>> /\ inside /\ ~inside' /\ timer'
  BY DEF Osi!PointerLeaves, Osi!hooks, Osi!root
<1>2. inside' \in BOOLEAN /\ timer' \in BOOLEAN
  BY DEF Osi!PointerLeaves
<1>3. HooksFormed'
  BY <1>1, <1>2 DEF OsiInv, HooksFormed
<1>4. RootScheduled'
  BY <1>1 DEF OsiInv, RootScheduled, Top
<1>5. BarWill'
  <2>1. LastSent("visible")' = LastSent("visible") /\ LastSent("visible") = (inside \/ timer)
    BY <1>1 DEF OsiInv, BarWill, LastSent
  <2>2. (inside \/ timer) = (inside' \/ timer')
    BY <1>1
  <2> QED
    BY <1>1, <2>1, <2>2 DEF OsiInv, BarWill
<1>6. PanelSettled'
  BY <1>1 DEF OsiInv, PanelSettled, Osi!PointerLeaves
<1> QED
  BY <1>1, <1>3, <1>4, <1>5, <1>6 DEF OsiInv, Osi!PointerLeaves

-----------------------------------------------------------------------------
(* Renders *)

\* What a render of the bar leaves for later.
LEMMA BarKeeps ==
  ASSUME HooksFormed, NEW on
  PROVE  /\ Osi!Kept("visible", on) \in Seq(UpdatesOf("visible"))
         /\ LET kept == Osi!Kept("visible", on)
                lanesOf == {u.lane : u \in Osi!Range(kept)} \ {0} IN
            /\ lanesOf \subseteq {4, 16}
            /\ (IF kept = << >> THEN Osi!BaseState("visible", on) ELSE kept[Len(kept)].arg) = LastSent("visible")
            /\ kept = << >> => Osi!Value("visible", on) = LastSent("visible")
            /\ kept # << >> => lanesOf # {}
<1> DEFINE q == updates["visible"]
           kept == Osi!Kept("visible", on)
           lanesOf == {u.lane : u \in Osi!Range(kept)} \ {0}
<1>1. "visible" \in Osi!Hooks /\ q \in Seq(UpdatesOf("visible")) /\ base["visible"] \in BOOLEAN
  BY DEF HooksFormed, Osi!Hooks, Osi!Values, Osi!PanelHooks
<1>2. Len(q) \in Nat /\ \A i \in 1..Len(q) : q[i] \in UpdatesOf("visible")
  BY <1>1
<1>3. CASE Osi!Skipped("visible", on) = {}
  <2>1. kept = << >>
    BY <1>3 DEF Osi!Kept
  <2>2. ASSUME q # << >> PROVE Osi!Applies(q[Len(q)], on)
    <3>1. Len(q) \in 1..Len(q) /\ DOMAIN q = 1..Len(q)
      BY <1>1, <2>2
    <3> QED
      BY <1>3, <3>1 DEF Osi!Skipped
  <2>3. Osi!Value("visible", on) = LastSent("visible")
    BY <1>1, <2>2, LastCounts
  <2>4. Osi!BaseState("visible", on) = Osi!Value("visible", on)
    BY <1>3 DEF Osi!BaseState
  <2>5. lanesOf = {}
    BY <2>1 DEF Osi!Range
  <2>6. kept \in Seq(UpdatesOf("visible"))
    <3>1. << >> \in Seq(UpdatesOf("visible"))
      OBVIOUS
    <3> HIDE DEF kept
    <3> QED
      BY <2>1, <3>1
  <2> HIDE DEF kept, lanesOf
  <2> QED
    BY <2>1, <2>3, <2>4, <2>5, <2>6 DEF kept, lanesOf
<1>4. CASE Osi!Skipped("visible", on) # {}
  <2>1. PICK first : first = Osi!Min(Osi!Skipped("visible", on))
    OBVIOUS
  <2>2. /\ first \in 1..Len(q)
        /\ Len(kept) = Len(q) - first + 1
        /\ \A i \in 1..Len(kept) : kept[i] \in {q[first + i - 1], [q[first + i - 1] EXCEPT !.lane = 0]}
        /\ kept[1] = q[first] /\ ~Osi!Applies(q[first], on)
        /\ kept \in Seq(Osi!Updates("visible"))
    BY <1>1, <1>4, <2>1, KeepsRest
  <2>3. ASSUME NEW i \in 1..Len(kept)
        PROVE  kept[i] \in UpdatesOf("visible") /\ kept[i].arg = q[first + i - 1].arg
    <3>1. PICK u \in UpdatesOf("visible") : u = q[first + i - 1]
      <4>1. PICK j \in 1..Len(q) : j = first + i - 1
        <5> HIDE DEF kept, q
        <5> QED
          BY <1>2, <2>2
      <4> QED
        BY <1>2, <4>1
    <3>2. u \in Osi!Updates("visible") /\ u.op = "set" /\ u.lane \in {0, 4, 16}
      BY DEF UpdatesOf, Osi!Updates
    <3>3. [u EXCEPT !.lane = 0] \in UpdatesOf("visible") /\ [u EXCEPT !.lane = 0].arg = u.arg
      BY <3>2 DEF UpdatesOf, Osi!Updates
    <3> QED
      BY <2>2, <3>1, <3>3
  <2>4. kept \in Seq(UpdatesOf("visible")) /\ kept # << >> /\ Len(kept) \in 1..Len(kept) /\ 1 \in 1..Len(kept)
    <3>1. Len(kept) \in Nat /\ Len(kept) # 0 /\ kept = [i \in 1..Len(kept) |-> kept[i]]
      BY <1>2, <2>2
    <3> HIDE DEF kept
    <3>2. kept \in [1..Len(kept) -> UpdatesOf("visible")]
      BY <2>3, <3>1
    <3> QED
      BY <3>1, <3>2
  <2>5. kept[Len(kept)].arg = LastSent("visible")
    <3>1. first + Len(kept) - 1 = Len(q) /\ q # << >>
      <4> HIDE DEF kept, q
      <4> QED
        BY <1>2, <2>2
    <3>2. kept[Len(kept)].arg = q[Len(q)].arg
      BY <2>3, <2>4, <3>1
    <3> QED
      BY <3>1, <3>2 DEF LastSent
  <2>6. lanesOf \subseteq {4, 16}
    <3>1. ASSUME NEW u \in Osi!Range(kept) PROVE u.lane \in {0, 4, 16}
      <4>1. PICK i \in 1..Len(kept) : u = kept[i]
        BY <2>4 DEF Osi!Range
      <4>2. u \in UpdatesOf("visible")
        BY <2>3, <4>1
      <4> QED
        BY <4>2 DEF UpdatesOf
    <3> QED
      BY <3>1
  <2>7. lanesOf # {}
    <3>1. kept[1].lane # 0
      BY <2>2 DEF Osi!Applies
    <3>2. kept[1] \in Osi!Range(kept)
      BY <2>4 DEF Osi!Range
    <3> QED
      BY <3>1, <3>2
  <2> QED
    BY <2>4, <2>5, <2>6, <2>7
<1> QED
  BY <1>3, <1>4

\* A render on lanes that draws the panel with a click, or without one leaves it alone.
LEMMA RenderDraws ==
  ASSUME HooksFormed, RootScheduled, BarWill, NEW on \in SUBSET Osi!Lanes, Osi!RenderAndCommit(on), UNCHANGED Osi!pointer,
         NEW drawn \in BOOLEAN,
         IF drawn THEN on = {1} /\ 1 \in lanes["panel"] ELSE lanes["panel"] = {} /\ PanelSettled
  PROVE  /\ HooksFormed' /\ RootScheduled' /\ BarWill' /\ PanelSettled' /\ ~microtask'
         /\ \A h \in Osi!PanelHooks : shown'[h] = IF drawn THEN Coming(h) ELSE shown[h]
<1>1. PICK R : R = {h \in Osi!Hooks : Osi!Renders(Osi!Owner(h), on)}
  OBVIOUS
<1>2. /\ shown' = [h \in Osi!Hooks |-> IF h \in R THEN Osi!Value(h, on) ELSE shown[h]]
      /\ base' = [h \in Osi!Hooks |-> IF h \in R THEN Osi!BaseState(h, on) ELSE base[h]]
      /\ updates' = [h \in Osi!Hooks |-> IF h \in R THEN Osi!Kept(h, on) ELSE updates[h]]
      /\ lanes' = Osi!LeftBy(R, on) /\ pending' = UNION Osi!Range(lanes') /\ Osi!Schedule(Osi!AfterCommit(pending'))
  BY <1>1 DEF Osi!RenderAndCommit
<1>3. /\ Osi!PanelHooks \subseteq Osi!Hooks /\ "visible" \in Osi!Hooks \ Osi!PanelHooks /\ Osi!Hooks = Osi!PanelHooks \cup {"visible"}
      /\ \A h \in Osi!PanelHooks : Osi!Owner(h) = "panel"
      /\ Osi!Owner("visible") = "bar"
  BY DEF Osi!Hooks, Osi!PanelHooks, Osi!Owner
<1>4. \A h \in Osi!PanelHooks : h \in R <=> drawn
  <2>1. drawn <=> Osi!Renders("panel", on)
    BY DEF Osi!Renders
  <2> QED
    BY <1>1, <1>3, <2>1
<1>5. \A h \in Osi!Hooks : /\ shown[h] \in Osi!Values(h) /\ base[h] \in Osi!Values(h) /\ updates[h] \in Seq(UpdatesOf(h))
                       /\ Osi!Value(h, on) \in Osi!Values(h) /\ Osi!BaseState(h, on) \in Osi!Values(h)
  BY ValuesTyped DEF HooksFormed
<1>6. ASSUME drawn, NEW h \in Osi!PanelHooks
      PROVE  shown'[h] = Coming(h) /\ base'[h] = Coming(h) /\ updates'[h] = << >> /\ Osi!Kept(h, on) = << >>
  <2>1. Osi!Skipped(h, on) = {} /\ on = {1}
    BY <1>3, <1>5, <1>6, Comings
  <2>2. Osi!Kept(h, on) = << >> /\ Osi!BaseState(h, on) = Osi!Value(h, on) /\ Osi!Value(h, on) = Coming(h)
    BY <2>1 DEF Osi!Kept, Osi!BaseState, Coming
  <2> QED
    BY <1>2, <1>3, <1>4, <1>6, <2>2
<1>7. ASSUME ~drawn, NEW h \in Osi!PanelHooks
      PROVE  shown'[h] = shown[h] /\ base'[h] = base[h] /\ updates'[h] = updates[h]
  BY <1>2, <1>3, <1>4, <1>7
<1>8. PanelSettled'
  <2>1. CASE drawn
    BY <1>6, <2>1 DEF PanelSettled
  <2>2. CASE ~drawn
    BY <1>7, <2>2 DEF PanelSettled
  <2> QED
    BY <2>1, <2>2
<1> DEFINE lanesOf(h) == {u.lane : u \in Osi!Range(Osi!Kept(h, on))} \ {0}
<1>9. DOMAIN lanes' = {"panel", "bar"}
      /\ \A f \in {"panel", "bar"} :
           lanes'[f] = IF f \in {Osi!Owner(h) : h \in R}
                         THEN UNION {lanesOf(h) : h \in {x \in R : Osi!Owner(x) = f}} ELSE lanes[f]
  BY <1>2 DEF Osi!LeftBy, HooksFormed
<1>10. lanes'["panel"] = {}
  <2>1. CASE drawn
    <3>1. \A h \in {x \in R : Osi!Owner(x) = "panel"} : lanesOf(h) = {}
      <4>1. \A h \in {x \in R : Osi!Owner(x) = "panel"} : h \in Osi!PanelHooks
        BY <1>1, <1>3
      <4> QED
        BY <1>6, <2>1, <4>1 DEF Osi!Range
    <3>2. "panel" \in {Osi!Owner(h) : h \in R}
      <4>1. "detail" \in Osi!PanelHooks
        BY DEF Osi!PanelHooks
      <4>2. "detail" \in R /\ Osi!Owner("detail") = "panel"
        BY <1>3, <1>4, <2>1, <4>1
      <4> QED
        BY <4>2
    <3> HIDE DEF lanesOf
    <3> QED
      BY <1>9, <3>1, <3>2
  <2>2. CASE ~drawn
    <3>1. \A h \in R : Osi!Owner(h) # "panel"
      BY <1>1, <1>3, <1>4, <2>2
    <3> HIDE DEF lanesOf
    <3> QED
      BY <1>9, <2>2, <3>1
  <2> QED
    BY <2>1, <2>2
<1>11. lanes'["bar"] = IF "visible" \in R THEN lanesOf("visible") ELSE lanes["bar"]
  <2> HIDE DEF lanesOf
  <2>1. \A x \in R : Osi!Owner(x) = "bar" <=> x = "visible"
    BY <1>1, <1>3
  <2>2. CASE "visible" \in R
    <3>1. {x \in R : Osi!Owner(x) = "bar"} = {"visible"} /\ "bar" \in {Osi!Owner(h) : h \in R}
      BY <1>3, <2>1, <2>2
    <3> QED
      BY <1>9, <2>2, <3>1
  <2>3. CASE "visible" \notin R
    <3>1. "bar" \notin {Osi!Owner(h) : h \in R}
      BY <2>1, <2>3
    <3> QED
      BY <1>9, <2>3, <3>1
  <2> QED
    BY <2>2, <2>3
<1>12. inside' = inside /\ timer' = timer
  BY DEF Osi!pointer
<1>13. /\ updates'["visible"] \in Seq(UpdatesOf("visible")) /\ lanes'["bar"] \subseteq {4, 16}
       /\ LastSent("visible")' = LastSent("visible")
       /\ lanes'["bar"] = {} => shown'["visible"] = LastSent("visible")
  <2>1. CASE "visible" \in R
    <3>1. PICK kept : kept = Osi!Kept("visible", on)
      OBVIOUS
    <3>2. /\ updates'["visible"] = kept /\ base'["visible"] = Osi!BaseState("visible", on)
          /\ shown'["visible"] = Osi!Value("visible", on)
      BY <1>2, <1>3, <2>1, <3>1
    <3> HIDE DEF lanesOf
    <3>3. /\ kept \in Seq(UpdatesOf("visible")) /\ lanesOf("visible") \subseteq {4, 16}
          /\ (IF kept = << >> THEN Osi!BaseState("visible", on) ELSE kept[Len(kept)].arg) = LastSent("visible")
          /\ kept = << >> => Osi!Value("visible", on) = LastSent("visible")
          /\ kept # << >> => lanesOf("visible") # {}
      BY <3>1, BarKeeps DEF lanesOf
    <3>4. LastSent("visible")' = LastSent("visible")
      BY <3>2, <3>3 DEF LastSent
    <3> QED
      BY <1>11, <2>1, <3>2, <3>3, <3>4
  <2>2. CASE "visible" \notin R
    <3>1. /\ updates'["visible"] = updates["visible"] /\ base'["visible"] = base["visible"]
          /\ shown'["visible"] = shown["visible"]
      BY <1>2, <1>3, <2>2
    <3>2. LastSent("visible")' = LastSent("visible")
      BY <3>1 DEF LastSent
    <3>3. lanes'["bar"] = lanes["bar"]
      BY <1>11, <2>2
    <3> QED
      BY <1>3, <1>5, <3>1, <3>2, <3>3 DEF HooksFormed, BarWill
  <2> QED
    BY <2>1, <2>2
<1>14. BarWill'
  BY <1>12, <1>13 DEF BarWill
<1>15. HooksFormed'
  <2>1. DOMAIN updates' = Osi!Hooks
    BY <1>2
  <2>2. \A h \in Osi!Hooks : shown'[h] \in Osi!Values(h) /\ base'[h] \in Osi!Values(h)
    BY <1>2, <1>5
  <2>3. ASSUME NEW h \in Osi!Hooks PROVE updates'[h] \in Seq(UpdatesOf(h))
    <3>1. \A S : << >> \in Seq(S)
      OBVIOUS
    <3>2. CASE h \in Osi!PanelHooks /\ drawn
      <4>1. updates'[h] = << >>
        BY <1>6, <3>2
      <4> QED
        BY <3>1, <4>1
    <3>3. CASE h \in Osi!PanelHooks /\ ~drawn
      BY <1>5, <1>7, <3>3
    <3>4. CASE h = "visible"
      BY <1>13, <3>4
    <3> QED
      BY <1>3, <3>2, <3>3, <3>4
  <2>4. lanes' \in [{"panel", "bar"} -> SUBSET Osi!Lanes]
    <3>1. lanes' = [f \in {"panel", "bar"} |-> lanes'[f]]
      BY <1>2 DEF Osi!LeftBy, HooksFormed
    <3> QED
      BY <1>10, <1>13, <3>1 DEF Osi!Lanes
  <2> QED
    BY <1>10, <1>12, <1>13, <2>1, <2>2, <2>3, <2>4 DEF HooksFormed
<1>16. RootScheduled' /\ ~microtask'
  <2>1. Osi!Range(lanes') = {lanes'["panel"], lanes'["bar"]}
    BY <1>9 DEF Osi!Range
  <2>2. pending' = lanes'["panel"] \cup lanes'["bar"]
    BY <1>2, <2>1
  <2>3. PICK of \in SUBSET Osi!Lanes : of = pending'
    BY <1>10, <1>13, <2>2 DEF Osi!Lanes
  <2>4. 1 \notin of
    BY <1>10, <1>13, <2>2, <2>3
  <2>5. priority' = Top(of) /\ task' = (IF Top(of) = 1 THEN 0 ELSE Top(of)) /\ microtask' = (Top(of) = 1)
    <3>1. PICK e : e = Osi!Ensured(of, 0, 0)
      OBVIOUS
    <3>2. e = Osi!AfterCommit(pending')
      BY <2>3, <3>1 DEF Osi!AfterCommit
    <3>3. priority' = e.priority /\ task' = e.task /\ microtask' = e.sync
      BY <1>2, <3>2 DEF Osi!Schedule
    <3>4. e = [priority |-> Top(of), task |-> IF Top(of) = 1 THEN 0 ELSE Top(of), sync |-> Top(of) = 1]
      BY <3>1, Ensures
    <3> QED
      BY <3>3, <3>4
  <2>6. Top(of) # 1
    BY <2>4, TopLanes
  <2>7. Top(pending)' = Top(of)
    BY <2>3 DEF Top
  <2>8. RootScheduled'
    BY <2>2, <2>5, <2>7 DEF RootScheduled
  <2>9. ~microtask'
    BY <2>5, <2>6
  <2> QED
    BY <2>8, <2>9
<1> QED
  BY <1>6, <1>7, <1>8, <1>14, <1>15, <1>16

\* The microtask draws the click; a task of the Scheduler does not touch the panel.
LEMMA SyncFlushed ==
  ASSUME OsiInv, Osi!FlushSync
  PROVE  OsiInv' /\ PanelClicked /\ \A h \in Osi!PanelHooks : shown'[h] = Coming(h)
<1>1. HooksFormed /\ RootScheduled /\ BarWill /\ PanelClicked /\ microtask
  BY DEF OsiInv, Osi!FlushSync
<1>2. pending \in SUBSET Osi!Lanes
  BY <1>1 DEF RootScheduled, HooksFormed
<1>3. 1 \in pending /\ 1 \in lanes["panel"]
  <2>1. Top(pending) = 1
    BY <1>1 DEF RootScheduled
  <2>2. 1 \in pending
    BY <1>2, <2>1, TopLanes
  <2> QED
    BY <1>1, <2>2 DEF RootScheduled, HooksFormed
<1>4. Osi!NextLanes(pending) = {1}
  BY <1>2, <1>3, NextTops
<1>5. Osi!RenderAndCommit({1}) /\ UNCHANGED Osi!pointer
  BY <1>4 DEF Osi!FlushSync
<1>6. {1} \in SUBSET Osi!Lanes
  BY DEF Osi!Lanes
<1>7. /\ HooksFormed' /\ RootScheduled' /\ BarWill' /\ PanelSettled' /\ ~microtask'
      /\ \A h \in Osi!PanelHooks : shown'[h] = IF TRUE THEN Coming(h) ELSE shown[h]
  BY <1>1, <1>3, <1>5, <1>6, RenderDraws
<1> QED
  BY <1>1, <1>7 DEF OsiInv

LEMMA HostTurned ==
  ASSUME OsiInv, Osi!HostTurn
  PROVE  OsiInv' /\ \A h \in Osi!PanelHooks : shown'[h] = shown[h]
<1>1. HooksFormed /\ RootScheduled /\ BarWill /\ PanelSettled /\ ~microtask /\ task # 0
  BY DEF OsiInv, Osi!HostTurn
<1>2. PICK of \in SUBSET Osi!Lanes : of = pending
  BY <1>1 DEF RootScheduled, HooksFormed
<1>3. of # {} /\ 1 \notin of
  <2>1. Top(of) # 1 /\ Top(of) # 0
    BY <1>1, <1>2 DEF RootScheduled
  <2> QED
    BY <1>2, <2>1, TopLanes
<1>4. PICK on \in SUBSET Osi!Lanes : on = Osi!NextLanes(of) /\ on # {}
  BY <1>2, <1>3, NextTops
<1>5. Osi!RenderAndCommit(on) /\ UNCHANGED Osi!pointer
  BY <1>2, <1>4 DEF Osi!HostTurn
<1>6. lanes["panel"] = {}
  BY <1>1, <1>2, <1>3 DEF RootScheduled, HooksFormed
<1>7. /\ HooksFormed' /\ RootScheduled' /\ BarWill' /\ PanelSettled' /\ ~microtask'
      /\ \A h \in Osi!PanelHooks : shown'[h] = IF FALSE THEN Coming(h) ELSE shown[h]
  BY <1>1, <1>5, <1>6, RenderDraws
<1> QED
  BY <1>7 DEF OsiInv

PanelUntouched == \A h \in Osi!PanelHooks : shown'[h] = shown[h]

LEMMA OsiStepInv ==
  ASSUME OsiInv, [Osi!Next]_(Osi!vars)
  PROVE  OsiInv' /\ (PanelUntouched \/ (PanelClicked /\ \A h \in Osi!PanelHooks : shown'[h] = Coming(h)))
<1>1. CASE UNCHANGED Osi!vars
  <2>1. UNCHANGED <<shown, base, updates, lanes, pending, priority, task, microtask, inside, timer>>
    BY <1>1 DEF Osi!vars, Osi!hooks, Osi!root, Osi!pointer
  <2>2. HooksFormed' /\ RootScheduled' /\ BarWill'
    BY <2>1 DEF OsiInv, HooksFormed, RootScheduled, Top, BarWill, LastSent
  <2>3. ~microtask => PanelSettled'
    BY <2>1 DEF OsiInv, PanelSettled
  <2>4. microtask => PanelClicked'
    <3>1. \A h \in Osi!PanelHooks : Coming(h)' = Coming(h)
      BY <2>1 DEF Coming, Osi!Value, Osi!States, Osi!Applies, Osi!Reduce
    <3> QED
      BY <2>1, <3>1 DEF OsiInv, PanelClicked, Osi!PanelHooks
  <2> QED
    BY <2>1, <2>2, <2>3, <2>4 DEF OsiInv, PanelUntouched
<1>2. CASE \E t \in Osi!Values("transport") : Osi!ChooseTransport(t)
  BY <1>2, ChoosesTransport DEF PanelUntouched
<1>3. CASE \E v \in Osi!Values("direction") : Osi!ChooseDirection(v)
  BY <1>3, ChoosesDirection DEF PanelUntouched
<1>4. CASE \E v \in Osi!Values("detail") : Osi!ChooseDetail(v)
  BY <1>4, ChoosesDetail DEF PanelUntouched
<1>5. CASE \E layer \in Cards : Osi!ClickCard(layer)
  BY <1>5, ClicksCard DEF PanelUntouched
<1>6. CASE Osi!PointerEnters
  <2>1. /\ Osi!Handle(<< <<"visible", Osi!Set(TRUE)>> >>, 4) /\ ~microtask
        /\ inside' \in BOOLEAN /\ timer' = FALSE /\ inside' = TRUE
    BY <1>6 DEF Osi!PointerEnters
  <2> QED
    BY <2>1, BarMoves DEF PanelUntouched
<1>7. CASE Osi!PointerLeaves
  BY <1>7, PointerLeft DEF PanelUntouched
<1>8. CASE Osi!TimerFires
  <2>1. inside = FALSE
    BY <1>8 DEF Osi!TimerFires, OsiInv, HooksFormed, BarWill
  <2>2. /\ Osi!Handle(<< <<"visible", Osi!Set(FALSE)>> >>, 16) /\ ~microtask
        /\ inside' \in BOOLEAN /\ timer' = FALSE /\ inside' = FALSE
    BY <1>8, <2>1 DEF Osi!TimerFires
  <2> QED
    BY <2>2, BarMoves DEF PanelUntouched
<1>9. CASE Osi!FlushSync
  BY <1>9, SyncFlushed
<1>10. CASE Osi!HostTurn
  BY <1>10, HostTurned DEF PanelUntouched
<1> QED
  BY <1>1, <1>2, <1>3, <1>4, <1>5, <1>6, <1>7, <1>8, <1>9, <1>10 DEF Osi!Next

\* Hooks, lanes and the root's task agree after every event, render and commit of the page.
THEOREM OsiInvariance == Osi!Spec => []OsiInv
<1>1. OsiInv /\ [Osi!Next]_(Osi!vars) => OsiInv'
  BY OsiStepInv
<1> QED
  BY <1>1, OsiInitInv, PTL DEF Osi!Spec

\* Once nothing is on its way, nothing is pending and the bar follows the pointer.
THEOREM OsiFollows == Osi!Spec => []Osi!BarFollowsPointer
<1>1. OsiInv => Osi!BarFollowsPointer
  <2> SUFFICES ASSUME OsiInv, ~microtask, task = 0
               PROVE  /\ pending = {} /\ \A f \in DOMAIN lanes : lanes[f] = {}
                      /\ ~timer => shown["visible"] = inside
    BY DEF Osi!BarFollowsPointer
  <2>1. pending \in SUBSET Osi!Lanes /\ DOMAIN lanes = {"panel", "bar"}
    BY DEF OsiInv, RootScheduled, HooksFormed
  <2>2. priority = 0
    BY DEF OsiInv, RootScheduled
  <2>3. pending = {}
    <3>1. Top(pending) = 0
      BY <2>2 DEF OsiInv, RootScheduled
    <3> QED
      BY <2>1, <3>1, TopLanes
  <2>4. lanes["panel"] = {} /\ lanes["bar"] = {}
    BY <2>3 DEF OsiInv, RootScheduled
  <2>5. shown["visible"] = (inside \/ timer)
    BY <2>4 DEF OsiInv, BarWill
  <2>6. ~timer => (inside \/ timer) = inside
    BY DEF OsiInv, HooksFormed
  <2> QED
    BY <2>1, <2>3, <2>4, <2>5, <2>6
<1> QED
  BY <1>1, OsiInvariance, PTL

\* A step changes what the panel shows by one whole click, or not at all.
LEMMA WholeClicks ==
  ASSUME OsiInv, [Osi!Next]_(Osi!vars)
  PROVE  [Osi!Panel!Next]_(Osi!Panel!panel)
<1>1. CASE PanelUntouched
  <2>1. UNCHANGED Osi!Panel!panel
    BY <1>1 DEF PanelUntouched, Osi!PanelHooks, Osi!Panel!panel
  <2> QED
    BY <2>1
<1>2. CASE PanelClicked /\ \A h \in Osi!PanelHooks : shown'[h] = Coming(h)
  <2>1. /\ shown'["transport"] = Coming("transport") /\ shown'["direction"] = Coming("direction")
        /\ shown'["detail"] = Coming("detail") /\ shown'["selected"] = Coming("selected")
        /\ shown'["expanded"] = Coming("expanded")
    BY <1>2 DEF Osi!PanelHooks
  <2> DEFINE T == /\ Coming("transport") \in {"tcp", "udp"} /\ Coming("selected") = 4 /\ Coming("expanded") = {4}
                  /\ Coming("direction") = shown["direction"] /\ Coming("detail") = shown["detail"]
             D == /\ \/ Coming("direction") = "encapsulation" /\ Coming("selected") = 7
                     \/ Coming("direction") = "decapsulation" /\ Coming("selected") = 1
                  /\ Coming("expanded") = {Coming("selected")}
                  /\ Coming("transport") = shown["transport"] /\ Coming("detail") = shown["detail"]
             E == /\ Coming("detail") \in {"essential", "complete"}
                  /\ \A h \in Osi!PanelHooks \ {"detail"} : Coming(h) = shown[h]
             C(layer) == /\ Coming("selected") = layer
                         /\ Coming("expanded") = IF layer \in shown["expanded"] THEN shown["expanded"] \ {layer}
                                                 ELSE shown["expanded"] \cup {layer}
                         /\ \A h \in {"transport", "direction", "detail"} : Coming(h) = shown[h]
  <2>2. T \/ D \/ E \/ \E layer \in Cards : C(layer)
    BY <1>2 DEF PanelClicked
  <2>3. CASE T
    BY <2>1, <2>3 DEF Osi!Panel!Next, Osi!Panel!ChooseTransport
  <2>4. CASE D
    BY <2>1, <2>4 DEF Osi!Panel!Next, Osi!Panel!ChooseDirection
  <2>5. CASE E
    BY <2>1, <2>5 DEF Osi!Panel!Next, Osi!Panel!ChooseDetail, Osi!PanelHooks
  <2>6. CASE \E layer \in Cards : C(layer)
    BY <2>1, <2>6 DEF Osi!Panel!Next, Osi!Panel!ClickCard
  <2> QED
    BY <2>2, <2>3, <2>4, <2>5, <2>6
<1> QED
  BY <1>1, <1>2, OsiStepInv

\* The simulator implements the panel.
THEOREM OsiImplements == Osi!Spec => Osi!ScreenSpec
<1>1. Osi!Init => Osi!Panel!Init
  BY DEF Osi!Init, Osi!Initially, Osi!Panel!Init, Osi!Hooks, Osi!PanelHooks
<1>2. OsiInv /\ [Osi!Next]_(Osi!vars) => [Osi!Panel!Next]_(Osi!Panel!panel)
  BY WholeClicks
<1> QED
  BY <1>1, <1>2, OsiInvariance, PTL DEF Osi!Spec, Osi!ScreenSpec, Osi!Panel!Spec

LEMMA PanelTyped == OsiInv => Osi!TypeOK
<1> SUFFICES ASSUME OsiInv PROVE Osi!TypeOK
  OBVIOUS
<1>1. \A h \in Osi!Hooks : /\ shown[h] \in Osi!Values(h) /\ base[h] \in Osi!Values(h)
                       /\ \A i \in DOMAIN updates[h] : updates[h][i] \in Osi!Updates(h)
  <2> SUFFICES ASSUME NEW h \in Osi!Hooks
               PROVE  /\ shown[h] \in Osi!Values(h) /\ base[h] \in Osi!Values(h)
                      /\ \A i \in DOMAIN updates[h] : updates[h][i] \in Osi!Updates(h)
    OBVIOUS
  <2>1. shown[h] \in Osi!Values(h) /\ base[h] \in Osi!Values(h) /\ updates[h] \in Seq(UpdatesOf(h))
    BY DEF OsiInv, HooksFormed
  <2>2. \A i \in DOMAIN updates[h] : updates[h][i] \in UpdatesOf(h)
    BY <2>1
  <2> QED
    BY <2>1, <2>2 DEF UpdatesOf
<1>2. /\ lanes \in [{"panel", "bar"} -> SUBSET Osi!Lanes] /\ inside \in BOOLEAN /\ timer \in BOOLEAN
  BY DEF OsiInv, HooksFormed
<1>3. pending \in SUBSET Osi!Lanes
  BY <1>2 DEF OsiInv, RootScheduled
<1>4. priority \in Osi!Lanes \cup {0}
  BY <1>3, TopLanes DEF OsiInv, RootScheduled
<1>5. task \in {0, 4, 16}
  BY <1>4 DEF OsiInv, RootScheduled, Osi!Lanes
<1>6. microtask \in BOOLEAN
  BY DEF OsiInv, RootScheduled
<1> QED
  BY <1>1, <1>2, <1>3, <1>4, <1>5, <1>6, Zenon DEF Osi!TypeOK

-----------------------------------------------------------------------------
(* The studies *)

\* Ids are given out once, for every number of servers, handlers and lost leases.
THEOREM StudiesAccounted == StudiesSpec => []IdsAccounted
BY ShortenerProjection, IdsAlwaysAccounted, PTL

\* Redirects agree with the table, for every number of servers, handlers and codes.
THEOREM StudiesCacheAgrees == StudiesSpec => []CacheAgrees
BY ShortenerProjection, CacheAlwaysAgrees, PTL

\* A URL is at one place, for every number of handlers, URLs and hosts.
THEOREM StudiesSeenOnce == StudiesSpec => []SeenOnce
<1>1. Crawl!SeenOnce => SeenOnce
  BY DEF SeenOnce
<1> QED
  BY <1>1, CrawlProjection, CrawlSeenOnce, PTL

\* URLs leave a host's queue at most as often as its gate closed.
THEOREM StudiesPaced == StudiesSpec => []PopsWithinWindows
<1>1. Crawl!PopsWithinWindows => PopsWithinWindows
  BY DEF PopsWithinWindows
<1> QED
  BY <1>1, CrawlProjection, CrawlPaced, PTL

\* The bar follows the pointer once nothing is on its way, for every length of the queues.
THEOREM StudiesBarFollows == StudiesSpec => []BarFollowsPointer
<1>1. Osi!BarFollowsPointer => BarFollowsPointer
  BY DEF BarFollowsPointer
<1> QED
  BY <1>1, OsiProjection, OsiFollows, PTL

\* The engine answers with the last write of a key, for every number of keys, segments and
\* disk errors.
THEOREM StudiesReadLastWrite == StudiesSpec => []ReadsLastWrite
<1>1. Lsm!ReadsLastWrite => ReadsLastWrite
  BY DEF ReadsLastWrite
<1> QED
  BY <1>1, LsmProjection, StoreReads, PTL

\* No keystroke is lost or doubled and every editor finds what they saw in the order they
\* saw it, for every number of operations, versions they are composed against and snapshots.
THEOREM StudiesEditsKept == StudiesSpec => []EditsKept
<1>1. Docs!EditsKept => EditsKept
  BY DEF EditsKept
<1> QED
  BY <1>1, DocsProjection, DocsKeystrokes, PTL

\* A committed file can be put together again, for every number of agents, paths and files.
THEOREM StudiesRestorable == StudiesSpec => []Restorable
<1>1. Sync!Restorable => Restorable
  BY DEF Restorable
<1> QED
  BY <1>1, SyncProjection, SyncRestorable, PTL

\* A video is live when, and only when, it is whole, for every number of segments,
\* renditions and overlapping runs.
THEOREM StudiesLive == StudiesSpec => []LiveWhenWhole
<1>1. Video!LiveWhenWhole => LiveWhenWhole
  BY DEF LiveWhenWhole
<1> QED
  BY <1>1, VideoProjection, VideoLive, PTL

\* No click is counted twice and none that was counted is missing from its closed window,
\* for every number of handlers, impressions and failures.
THEOREM StudiesCountedOnce == StudiesSpec => []ExactOnceSettled
<1>1. Clicks!ExactOnceSettled => ExactOnceSettled
  BY DEF ExactOnceSettled
<1> QED
  BY <1>1, ClicksProjection, ClicksCountedOnce, PTL

\* No post falls between fan-out and merge, for every number of authors, readers and
\* crashes and whatever a timeline keeps.
THEOREM StudiesFeedComplete == StudiesSpec => []FeedComplete
<1>1. Feed!FeedComplete => FeedComplete
  BY DEF FeedComplete
<1> QED
  BY <1>1, FeedProjection, FeedIsComplete, PTL

\* No algorithm admits more than its rule says, for every rule, lag and draw.
THEOREM StudiesRateBounded == StudiesSpec => []RateBounded
<1>1. Limiter!RateBounded => RateBounded
  BY DEF RateBounded
<1> QED
  BY <1>1, LimiterProjection, LimiterBounded, PTL

\* The cluster answers with the last write of a key, for every ring.
THEOREM StudiesRouted == StudiesSpec => []RoutedToLastWrite
<1>1. Ring!RoutedToLastWrite => RoutedToLastWrite
  BY DEF RoutedToLastWrite
<1> QED
  BY <1>1, RingProjection, RingRoutes, PTL

\* The screen changes by whole clicks, for every order of events, renders and tasks.
THEOREM StudiesScreen == StudiesSpec => ScreenSpec
<1>1. Osi!ScreenSpec => ScreenSpec
  BY DEF ScreenSpec
<1> QED
  BY <1>1, OsiProjection, OsiImplements, PTL

Names ==
  {"shortener", "crawler", "simulator", "engine", "docs", "sync", "video", "clicks", "feed", "limiter", "ring"}

LEMMA SomeStudy == StudiesSpec => [](study \in Names)
<1>1. StudiesInit => study \in Names
  BY DEF StudiesInit, Names
<1>2. study \in Names /\ [StudiesNext]_studiesVars => (study \in Names)'
  BY OneStudyMoves DEF studiesVars
<1> QED
  BY <1>1, <1>2, PTL DEF StudiesSpec

\* The state of the study that moves keeps its types.
THEOREM StudiesTypes == StudiesSpec => []Types
<1>1. /\ study \in Names /\ TypeOK /\ Crawl!TypeOK /\ Osi!TypeOK /\ Lsm!TypeOK /\ Docs!TypeOK /\ Sync!TypeOK
      /\ Video!TypeOK /\ Clicks!TypeOK /\ Feed!TypeOK /\ Limiter!TypeOK /\ Ring!TypeOK
      => Types
  BY DEF Types, Names
<1>2. StudiesSpec => []TypeOK
  BY ShortenerProjection, ShortenerTypes, PTL
<1>3. StudiesSpec => []Crawl!TypeOK
  <2>1. CrawlInv => Crawl!TypeOK
    BY DEF CrawlInv
  <2> QED
    BY <2>1, CrawlProjection, CrawlInvariance, PTL
<1>4. StudiesSpec => []Osi!TypeOK
  BY PanelTyped, OsiProjection, OsiInvariance, PTL
<1>5. StudiesSpec => []Lsm!TypeOK
  <2>1. StoreInv => Lsm!TypeOK
    BY DEF StoreInv
  <2> QED
    BY <2>1, LsmProjection, StoreInvariance, PTL
<1>6. StudiesSpec => []Docs!TypeOK
  BY DocsProjection, DocsTypes, PTL
<1>7. StudiesSpec => []Sync!TypeOK
  BY SyncProjection, SyncTypes, PTL
<1>8. StudiesSpec => []Video!TypeOK
  <2>1. VideoInv => Video!TypeOK
    BY DEF VideoInv
  <2> QED
    BY <2>1, VideoProjection, VideoInvariance, PTL
<1>9. StudiesSpec => []Clicks!TypeOK
  <2>1. ClicksInv => Clicks!TypeOK
    BY DEF ClicksInv
  <2> QED
    BY <2>1, ClicksProjection, ClicksInvariance, PTL
<1>10. StudiesSpec => []Feed!TypeOK
  <2>1. FeedInv => Feed!TypeOK
    BY DEF FeedInv
  <2> QED
    BY <2>1, FeedProjection, FeedInvariance, PTL
<1>11. StudiesSpec => []Limiter!TypeOK
  <2>1. LimiterInv => Limiter!TypeOK
    BY DEF LimiterInv
  <2> QED
    BY <2>1, LimiterProjection, LimiterInvariance, PTL
<1>12. StudiesSpec => []Ring!TypeOK
  BY RingProjection, RingTypes, PTL
<1> QED
  BY <1>1, <1>2, <1>3, <1>4, <1>5, <1>6, <1>7, <1>8, <1>9, <1>10, <1>11, <1>12, SomeStudy, PTL
=============================================================================
