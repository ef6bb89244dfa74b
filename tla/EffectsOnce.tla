----------------------------- MODULE EffectsOnce -----------------------------
(***************************************************************************)
(* What the transactional outbox promises from end to end: the effect of   *)
(* an order's event runs only once the order is committed, at most once,   *)
(* and in the end.                                                         *)
(***************************************************************************)
EXTENDS Naturals

CONSTANT Orders

VARIABLES
  placed,     \* committed orders
  effects     \* how often each order's effect has run

vars == <<placed, effects>>

Init == placed = {} /\ effects = [o \in Orders |-> 0]

Place(o) ==
  /\ o \notin placed
  /\ placed' = placed \cup {o}
  /\ UNCHANGED effects

\* The consumer drains the bus, and may apply several effects in one go.
Apply(S) ==
  /\ \A o \in S : effects[o] = 0
  /\ effects' = [o \in Orders |-> IF o \in S THEN 1 ELSE effects[o]]
  /\ UNCHANGED placed

Next == (\E o \in Orders : Place(o)) \/ (\E S \in SUBSET placed : Apply(S))

Spec == Init /\ [][Next]_vars

EventuallyApplied == \A o \in Orders : o \in placed ~> effects[o] = 1
=============================================================================
