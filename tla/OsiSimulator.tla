---------------------------- MODULE OsiSimulator ----------------------------
(***************************************************************************)
(* The OSI encapsulation simulator: a panel with five useState hooks, set  *)
(* by clicks, and in it a scroll area whose bar shows while the pointer is *)
(* inside and for a while after.  The bundle also holds what decides when  *)
(* and in which order these updates reach the screen, React 18 and its     *)
(* Scheduler, and that is modelled here: an update has a lane (1 for a     *)
(* click, 4 for a pointer event, 16 for a timer), is queued at its hook,   *)
(* and is applied by a render that works on its lane; renders are called   *)
(* by a microtask or by a task of the Scheduler, and all of them run to    *)
(* their end.  Passive effects, transitions and suspension, which this     *)
(* page does not use, and starvation are left out.                         *)
(***************************************************************************)
EXTENDS Naturals, Sequences, FiniteSetsExt

CONSTANTS
  Cards,       \* the layers whose cards are clicked
  MaxQueue     \* bound on the updates a hook's queue may hold

VARIABLES
  shown,       \* memoizedState of each hook: what the screen shows
  base, queue, \* baseState; baseQueue followed by the updates since
  lanes,       \* of each component's fiber: the lanes it has work on
  pending,     \* root.pendingLanes
  priority,    \* root.callbackPriority, 0 for none
  task,        \* the priority of the root's task in the Scheduler, 0 for none
  microtask,   \* a sync callback is queued, and the microtask that flushes it
  inside, timer

hooks == <<shown, base, queue, lanes>>
root == <<pending, priority, task, microtask>>
pointer == <<inside, timer>>
vars == <<hooks, root, pointer>>

PanelHooks == {"transport", "direction", "detail", "selected", "expanded"}
Hooks == PanelHooks \cup {"visible"}
Owner(h) == IF h = "visible" THEN "bar" ELSE "panel"
Lanes == {1, 4, 16}

Layers == Cards \cup {1, 4, 7}
Values(h) ==
  CASE h = "transport" -> {"tcp", "udp"}
    [] h = "direction" -> {"encapsulation", "decapsulation"}
    [] h = "detail"    -> {"essential", "complete"}
    [] h = "selected"  -> Layers
    [] h = "expanded"  -> SUBSET Layers
    [] h = "visible"   -> BOOLEAN

\* `setState(value)`, and `setExpanded(prev => ...)`, which adds or removes a layer.
Set(v) == [op |-> "set", arg |-> v]
Toggle(layer) == [op |-> "toggle", arg |-> {layer}]
Updates(h) == [lane : Lanes \cup {0}, op : {"set", "toggle"}, arg : Values(h)]

TypeOK ==
  /\ \A h \in Hooks :
       /\ shown[h] \in Values(h) /\ base[h] \in Values(h)
       /\ \A i \in DOMAIN queue[h] : queue[h][i] \in Updates(h)
  /\ lanes \in [{"panel", "bar"} -> SUBSET Lanes]
  /\ pending \subseteq Lanes /\ priority \in Lanes \cup {0}
  /\ task \in {0, 4, 16} /\ microtask \in BOOLEAN
  /\ inside \in BOOLEAN /\ timer \in BOOLEAN

Initially == [h \in Hooks |->
  CASE h = "transport" -> "tcp"
    [] h = "direction" -> "encapsulation"
    [] h = "detail"    -> "essential"
    [] h = "selected"  -> 7
    [] h = "expanded"  -> {7}
    [] h = "visible"   -> FALSE]

Init ==
  /\ shown = Initially /\ base = Initially
  /\ queue = [h \in Hooks |-> << >>]
  /\ lanes = [f \in {"panel", "bar"} |-> {}]
  /\ pending = {} /\ priority = 0 /\ task = 0 /\ microtask = FALSE
  /\ inside = FALSE /\ timer = FALSE

-----------------------------------------------------------------------------
(* Hooks *)

\* The reducer; a toggle makes a new Set.
Reduce(v, u) == IF u.op = "set" THEN u.arg ELSE (v \ u.arg) \cup (u.arg \ v)

\* Object.is: a Set is never the one it replaces.
Same(h, v, w) == h # "expanded" /\ v = w

\* dispatchSetState, one call after the other; d has the queues, the lanes and whether
\* anything was scheduled.  A component that has no work computes the new state at once,
\* and one that changes nothing is queued but not scheduled; it is scheduled if a lane
\* that the alternate fiber kept stands in the way (`stale`).
Dispatch(d, h, u, lane, stale) ==
  LET f == Owner(h)
      eager == d.lanes[f] = {} /\ ~stale
      state == IF eager THEN Set(Reduce(shown[h], u)) ELSE u
      bails == eager /\ Same(h, state.arg, shown[h])
  IN  [queue |-> [d.queue EXCEPT ![h] = Append(@, [lane |-> lane, op |-> state.op, arg |-> state.arg])],
       lanes |-> IF bails THEN d.lanes ELSE [d.lanes EXCEPT ![f] = @ \cup {lane}],
       scheduled |-> d.scheduled \/ ~bails]

Dispatched(calls, lane, stale) ==
  LET after[n \in 0..Len(calls)] ==
        IF n = 0 THEN [queue |-> queue, lanes |-> lanes, scheduled |-> FALSE]
        ELSE Dispatch(after[n - 1], calls[n][1], calls[n][2], lane, stale)
  IN  after
DispatchAll(calls, lane, stale) == Dispatched(calls, lane, stale)[Len(calls)]

\* updateReducer of a hook, in a render that works on `at` (lane 0: in any render).
\* The first update that is skipped fixes the base state; it and all that follow it are
\* kept, to be applied again to that state when its turn has come.
Applies(u, at) == u.lane \in at \cup {0}
Skipped(h, at) == {i \in DOMAIN queue[h] : ~Applies(queue[h][i], at)}

\* newState after each update.
States(h, at) ==
  LET after[n \in 0..Len(queue[h])] ==
        IF n = 0 THEN base[h]
        ELSE IF Applies(queue[h][n], at) THEN Reduce(after[n - 1], queue[h][n]) ELSE after[n - 1]
  IN  after

\* Faulty variant: what was applied is not kept.
KeptIfSkipped(h, at) == SelectSeq(queue[h], LAMBDA u : ~Applies(u, at))

Kept(h, at) ==
  LET again == [i \in DOMAIN queue[h] |->
                  IF i \in Skipped(h, at) THEN queue[h][i] ELSE [queue[h][i] EXCEPT !.lane = 0]]
  IN  IF Skipped(h, at) = {} THEN << >> ELSE SubSeq(again, Min(Skipped(h, at)), Len(again))

Value(h, at) == States(h, at)[Len(queue[h])]
BaseState(h, at) == IF Skipped(h, at) = {} THEN Value(h, at) ELSE States(h, at)[Min(Skipped(h, at)) - 1]

-----------------------------------------------------------------------------
(* The root *)

\* getNextLanes: the highest priority; a timer's update goes along with a pointer's.
NextLanes(of) ==
  IF of = {} THEN {}
  ELSE LET first == Min(of) IN IF first = 4 THEN {4} \cup (of \cap {16}) ELSE {first}

\* ensureRootIsScheduled, when `of` is pending and the callback has priority `was`: a
\* callback of another priority is cancelled and replaced, by the microtask or a task.
Ensured(of, was, its) ==
  LET first == IF of = {} THEN 0 ELSE Min(NextLanes(of)) IN
  IF first # 0 /\ first = was
    THEN [priority |-> was, task |-> its, sync |-> FALSE]
    ELSE [priority |-> first, task |-> IF first = 1 THEN 0 ELSE first, sync |-> first = 1]

Schedule(e) == priority' = e.priority /\ task' = e.task /\ microtask' = e.sync

\* The bound, of what the user does.
Room(h) == Len(queue[h]) < MaxQueue

\* An event handler: its calls, and the root scheduled for their lane.
Handle(calls, lane) ==
  \E stale \in BOOLEAN :
    LET d == DispatchAll(calls, lane, stale) IN
    /\ queue' = d.queue /\ lanes' = d.lanes
    /\ IF d.scheduled
         THEN pending' = pending \cup {lane} /\ Schedule(Ensured(pending \cup {lane}, priority, task))
         ELSE UNCHANGED root
    /\ UNCHANGED <<shown, base>>

\* What a render on the lanes `at` processes: the panel if it has such work, the bar
\* if it has or if the panel, which it is part of, changed.
PanelChanges(at) ==
  /\ lanes["panel"] \cap at # {}
  /\ \E h \in PanelHooks : Skipped(h, at) # DOMAIN queue[h] /\ ~Same(h, Value(h, at), shown[h])
Renders(f, at) == lanes[f] \cap at # {} \/ (f = "bar" /\ PanelChanges(at))

\* commitRoot schedules the root anew: its callback is done.
AfterCommit(of) == Ensured(of, 0, 0)

\* The lanes each component has work on after a render: those of the updates it kept.
\* Faulty variant: the one of updates that are in every render is among them.
LeftByAll(rendered, at) ==
  [f \in DOMAIN lanes |->
    IF f \in {Owner(h) : h \in rendered}
      THEN UNION {{u.lane : u \in Range(Kept(h, at))} : h \in {x \in rendered : Owner(x) = f}}
      ELSE lanes[f]]
LeftBy(rendered, at) ==
  [f \in DOMAIN lanes |->
    IF f \in {Owner(h) : h \in rendered}
      THEN UNION {{u.lane : u \in Range(Kept(h, at))} \ {0} : h \in {x \in rendered : Owner(x) = f}}
      ELSE lanes[f]]

\* renderRootSync and commitRoot: the root is left with the lanes of its components, and
\* scheduled for them.
RenderAndCommit(at) ==
  \E rendered \in {{h \in Hooks : Renders(Owner(h), at)}} :
    \E left \in {LeftBy(rendered, at)} :
      /\ shown' = [h \in Hooks |-> IF h \in rendered THEN Value(h, at) ELSE shown[h]]
      /\ base' = [h \in Hooks |-> IF h \in rendered THEN BaseState(h, at) ELSE base[h]]
      /\ queue' = [h \in Hooks |-> IF h \in rendered THEN Kept(h, at) ELSE queue[h]]
      /\ lanes' = left
      /\ pending' = UNION Range(left)
      /\ Schedule(AfterCommit(pending'))

-----------------------------------------------------------------------------
(* What the page's user and its timer do; a microtask comes before any of it *)

ChooseTransport(t) ==
  /\ ~microtask
  /\ Handle(<< <<"transport", Set(t)>>, <<"selected", Set(4)>>, <<"expanded", Set({4})>> >>, 1)
  /\ UNCHANGED pointer

ChooseDetail(d) ==
  /\ ~microtask /\ Room("detail")
  /\ Handle(<< <<"detail", Set(d)>> >>, 1)
  /\ UNCHANGED pointer

\* Faulty variant: a new direction leaves the selection alone.
DirectionCallsUnselected(d, layer) == << <<"direction", Set(d)>>, <<"expanded", Set({layer})>> >>
DirectionCalls(d, layer) == << <<"direction", Set(d)>>, <<"expanded", Set({layer})>>, <<"selected", Set(layer)>> >>

ChooseDirection(d) ==
  /\ ~microtask
  /\ Handle(DirectionCalls(d, IF d = "encapsulation" THEN 7 ELSE 1), 1)
  /\ UNCHANGED pointer

\* onSelect, then onToggle.
ClickCard(layer) ==
  /\ ~microtask
  /\ Handle(<< <<"selected", Set(layer)>>, <<"expanded", Toggle(layer)>> >>, 1)
  /\ UNCHANGED pointer

PointerEnters ==
  /\ ~microtask /\ ~inside /\ Room("visible")
  /\ inside' = TRUE /\ timer' = FALSE
  /\ Handle(<< <<"visible", Set(TRUE)>> >>, 4)

PointerLeaves ==
  /\ ~microtask /\ inside
  /\ inside' = FALSE /\ timer' = TRUE
  /\ UNCHANGED <<hooks, root>>

\* scrollHideDelay after the pointer left.
TimerFires ==
  /\ ~microtask /\ timer
  /\ timer' = FALSE
  /\ Handle(<< <<"visible", Set(FALSE)>> >>, 16)
  /\ UNCHANGED inside

-----------------------------------------------------------------------------
(* What runs the renders *)

\* flushSyncCallbacks, performSyncWorkOnRoot.
FlushSync ==
  LET at == NextLanes(pending) IN
  /\ microtask
  /\ IF 1 \in at
       THEN RenderAndCommit(at)
       ELSE Schedule(Ensured(pending, priority, task)) /\ UNCHANGED <<hooks, pending>>
  /\ UNCHANGED pointer

\* A message of the Scheduler: workLoop drops the tasks that were cancelled and runs
\* the root's, performConcurrentWorkOnRoot.
HostTurn ==
  LET at == NextLanes(pending) IN
  /\ ~microtask /\ task # 0
  /\ IF at # {}
       THEN RenderAndCommit(at)
       ELSE task' = 0 /\ UNCHANGED <<hooks, pending, priority, microtask>>
  /\ UNCHANGED pointer

Next ==
  \/ \E t \in Values("transport") : ChooseTransport(t)
  \/ \E d \in Values("direction") : ChooseDirection(d)
  \/ \E d \in Values("detail") : ChooseDetail(d)
  \/ \E layer \in Cards : ClickCard(layer)
  \/ PointerEnters \/ PointerLeaves \/ TimerFires
  \/ FlushSync \/ HostTurn

Spec == Init /\ [][Next]_vars

-----------------------------------------------------------------------------
\* No update is forgotten and the bar follows the pointer, in whatever order enter, leave,
\* timer and clicks were rendered: once no render is on its way, nothing is pending, and
\* with the timer done the bar shows if and only if the pointer is inside.
BarFollowsPointer ==
  ~microtask /\ task = 0 =>
    /\ pending = {} /\ \A f \in DOMAIN lanes : lanes[f] = {}
    /\ ~timer => shown["visible"] = inside

\* The screen changes by whole clicks, whatever is rendered in between.
Panel == INSTANCE EncapsulationPanel WITH
  transport <- shown["transport"], direction <- shown["direction"], detail <- shown["detail"],
  selected <- shown["selected"], expanded <- shown["expanded"]
ScreenSpec == Panel!Spec
=============================================================================
