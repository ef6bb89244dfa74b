---------------------------- MODULE ClickCounts ----------------------------
(***************************************************************************)
(* The ad-click aggregator.  A handler of POST /clicks marks the           *)
(* impression as seen in Postgres, counts it in the window of its event    *)
(* time, in memory, and upserts every closed window whose count is new or  *)
(* has changed.  Counting and choosing what to emit have no await between  *)
(* them; the INSERT and each upsert are awaits, where handlers meet.  Log  *)
(* and viewers deliver a click as often as they like, a handler may raise  *)
(* and the server may restart.                                             *)
(*                                                                         *)
(* All clicks are of one ad: ads share nothing but the watermark.          *)
(***************************************************************************)
EXTENDS Integers, FiniteSets, FiniteSetsExt

CONSTANTS
  Handlers, Impressions,
  EventTime,             \* of each impression's click
  Window, Lateness,      \* WINDOW_MS, LATENESS_MS
  NoImpression,
  MaxFailures            \* bound on handlers that raise and servers that restart

VARIABLES
  seen, rows,                   \* the tables seen and aggregates; 0 for no row
  counts, emitted, watermark,   \* WindowAggregator: _counts, _emitted, _watermark
  step, click, out,             \* each handler: where, its impression, what it has to emit
  uncounted,                    \* history: impressions seen that no count has (any more)
  unsettled,                    \* history: windows whose last emission may not be what is stored
  failures

\* What is asked of the constants.
WellFormed ==
  /\ IsFiniteSet(Impressions) /\ NoImpression \notin Impressions
  /\ EventTime \in [Impressions -> Nat]
  /\ Window \in Nat \ {0} /\ Lateness \in Nat /\ MaxFailures \in Nat

aggregator == <<counts, emitted, watermark>>
handler == <<step, click, out>>
vars == <<seen, rows, aggregator, handler, uncounted, unsettled, failures>>

WindowOf(i) == EventTime[i] \div Window
Windows == {WindowOf(i) : i \in Impressions}
Emissions == [window : Windows, count : 1..Cardinality(Impressions)]

TypeOK ==
  /\ seen \subseteq Impressions
  /\ rows \in [Windows -> Nat] /\ counts \in [Windows -> Nat] /\ emitted \in [Windows -> Nat]
  /\ watermark \in Nat
  /\ step \in [Handlers -> {"idle", "insert", "add", "emit"}]
  /\ click \in [Handlers -> Impressions \cup {NoImpression}]
  /\ out \in [Handlers -> SUBSET Emissions]
  /\ uncounted \subseteq seen /\ unsettled \subseteq Windows
  /\ failures \in 0..MaxFailures

Zero == [w \in Windows |-> 0]

Init ==
  /\ seen = {} /\ rows = Zero
  /\ counts = Zero /\ emitted = Zero /\ watermark = 0
  /\ step = [h \in Handlers |-> "idle"] /\ click = [h \in Handlers |-> NoImpression]
  /\ out = [h \in Handlers |-> {}]
  /\ uncounted = {} /\ unsettled = {} /\ failures = 0

Goto(h, label) == step' = [step EXCEPT ![h] = label]
End(h) ==
  /\ Goto(h, "idle") /\ click' = [click EXCEPT ![h] = NoImpression]
  /\ out' = [out EXCEPT ![h] = {}]

-----------------------------------------------------------------------------
\* A click arrives, or arrives again.
Ingest(h, i) ==
  /\ step[h] = "idle"
  /\ Goto(h, "insert") /\ click' = [click EXCEPT ![h] = i]
  /\ UNCHANGED <<seen, rows, aggregator, out, uncounted, unsettled, failures>>

\* first_time: INSERT ... ON CONFLICT DO NOTHING RETURNING; a duplicate is answered.
FirstTime(h) ==
  /\ step[h] = "insert"
  /\ IF click[h] \in seen
       THEN End(h) /\ UNCHANGED <<seen, uncounted>>
       ELSE /\ seen' = seen \cup {click[h]} /\ uncounted' = uncounted \cup {click[h]}
            /\ Goto(h, "add") /\ UNCHANGED <<click, out>>
  /\ UNCHANGED <<rows, aggregator, unsettled, failures>>

Closed(w, mark) == (w + 1) * Window <= mark

\* What flush finds changed.  Faulty variant: a window is emitted once.
IsNewOnce(w, count) == emitted[w] = 0
IsNew(w, count) == emitted[w] # count

InFlight(w) == \E h \in Handlers : \E e \in out[h] : e.window = w

\* add and flush.  A window that is emitted while an older count of it is still on its
\* way to the table is unsettled, one that is emitted alone is settled (again).
AddAndFlush(h) ==
  LET w == WindowOf(click[h])
      count == [counts EXCEPT ![w] = @ + 1]
      mark == Max({watermark, EventTime[click[h]] - Lateness})
      new == {x \in Windows : count[x] > 0 /\ Closed(x, mark) /\ IsNew(x, count[x])}
  IN
  /\ step[h] = "add"
  /\ counts' = count /\ watermark' = mark
  /\ emitted' = [x \in Windows |-> IF x \in new THEN count[x] ELSE emitted[x]]
  /\ uncounted' = uncounted \ {click[h]}
  /\ unsettled' = (unsettled \ new) \cup {x \in new : InFlight(x)}
  /\ IF new = {}
       THEN End(h)
       ELSE /\ out' = [out EXCEPT ![h] = {[window |-> x, count |-> count[x]] : x \in new}]
            /\ Goto(h, "emit") /\ UNCHANGED click
  /\ UNCHANGED <<seen, rows, failures>>

\* emit, an upsert: the row has the count, whatever it had before; in any order.
Emit(h, e) ==
  /\ step[h] = "emit" /\ e \in out[h]
  /\ rows' = [rows EXCEPT ![e.window] = e.count]
  /\ IF out[h] = {e} THEN End(h) ELSE out' = [out EXCEPT ![h] = @ \ {e}] /\ UNCHANGED <<step, click>>
  /\ UNCHANGED <<seen, aggregator, uncounted, unsettled, failures>>

\* An await raises.  Nothing is undone: the impression stays seen, the windows emitted.
Raise(h) ==
  /\ step[h] # "idle" /\ failures < MaxFailures
  /\ failures' = failures + 1
  /\ unsettled' = unsettled \cup {e.window : e \in out[h]}
  /\ End(h)
  /\ UNCHANGED <<seen, rows, aggregator, uncounted>>

\* The process starts again, with no counts.
Restart ==
  /\ failures < MaxFailures
  /\ failures' = failures + 1
  /\ counts' = Zero /\ emitted' = Zero /\ watermark' = 0
  /\ step' = [h \in Handlers |-> "idle"] /\ click' = [h \in Handlers |-> NoImpression]
  /\ out' = [h \in Handlers |-> {}]
  /\ uncounted' = seen /\ unsettled' = Windows
  /\ UNCHANGED <<seen, rows>>

Next ==
  \/ \E h \in Handlers :
       \/ \E i \in Impressions : Ingest(h, i)
       \/ \E e \in Emissions : Emit(h, e)
       \/ FirstTime(h) \/ AddAndFlush(h) \/ Raise(h)
  \/ Restart

Spec == Init /\ [][Next]_vars
-----------------------------------------------------------------------------
Clicks(w, from) == Cardinality({i \in from : WindowOf(i) = w})

\* "Recovery never double-counts" (idempotent_sink.py): however often a click or an
\* upsert is repeated, no row exceeds the impressions of its window.  And "a late click
\* landing in an already-emitted window produces a correction, not a lost count"
\* (window_aggregator.py): the row of a closed window with no upsert under way has
\* every click that was counted in it, unless its last upsert was overtaken by an older
\* one or lost.
ExactOnceSettled ==
  \A w \in Windows :
    /\ rows[w] <= Clicks(w, seen)
    /\ counts[w] = Clicks(w, seen \ uncounted)
    /\ Closed(w, watermark) /\ ~InFlight(w) /\ w \notin unsettled => rows[w] = counts[w]
=============================================================================
