---------------------------- MODULE RideMatching ----------------------------
(***************************************************************************)
(* The matching service of the Uber case study: OfferFlow.match looks the  *)
(* request up in Postgres, walks the nearby drivers, takes each driver's   *)
(* offer lock in Redis (SET NX PX) until one is free, and inserts the trip *)
(* under UNIQUE(request_id).                                               *)
(*                                                                         *)
(* Every await is an action.  Flows of different requests, and retries of  *)
(* one request, run at the same time; a flow may fail anywhere; a lock may *)
(* lapse at any time.  The lock's value does not name its holder.          *)
(***************************************************************************)
EXTENDS Naturals, Sequences, SequencesExt

CONSTANTS
  Flows,          \* /match handlers that may run at the same time
  Requests, Drivers,
  MaxCandidates,  \* OfferFlow's max_candidates
  MaxTrips,       \* bound on the trips; no run reaches it unless a mutant does
  MaxLapses,      \* bound on locks that lapse by TTL
  MaxFailures     \* bound on flows that fail

ASSUME MatchingAssumption ==
  MaxCandidates \in Nat /\ MaxTrips \in Nat /\ MaxLapses \in Nat /\ MaxFailures \in Nat

VARIABLES
  pc, request,    \* each flow and the request it is called with
  candidates,     \* the drivers it has still to try, nearest first
  locked,         \* drivers with a key lock:{driver} in Redis
  trips,          \* the trips table in the order of its ids
  matched,        \* history: the trips that clients were answered
  leaked,         \* history: drivers a failed flow left locked
  lapses, failures

flow == <<pc, request, candidates>>
history == <<matched, leaked>>
bounds == <<lapses, failures>>
vars == <<flow, locked, trips, history, bounds>>

Trips == [request : Requests, driver : Drivers]
Labels == {"idle", "get", "query", "walk", "create", "made", "release", "again"}

TypeOK ==
  /\ pc \in [Flows -> Labels]
  /\ request \in [Flows -> Requests]
  /\ candidates \in [Flows -> Seq(Drivers)]
  /\ locked \subseteq Drivers
  /\ trips \in Seq(Trips)
  /\ matched \subseteq [request : Requests, id : 1..Len(trips)]
  /\ leaked \subseteq Drivers
  /\ lapses \in 0..MaxLapses
  /\ failures \in 0..MaxFailures
  /\ \A f \in Flows : pc[f] \in {"create", "release"} => candidates[f] # << >>

Init ==
  /\ pc = [f \in Flows |-> "idle"]
  /\ request \in {[f \in Flows |-> r] : r \in Requests}
  /\ candidates = [f \in Flows |-> << >>]
  /\ locked = {}
  /\ trips = << >>
  /\ matched = {} /\ leaked = {}
  /\ lapses = 0 /\ failures = 0

Goto(f, label) == pc' = [pc EXCEPT ![f] = label]

\* The driver a flow is trying, and the flow's outstanding offer of d.
Candidate(f) == Head(candidates[f])
Offering(f, d) == pc[f] \in {"create", "release"} /\ Candidate(f) = d

TripIds(r) == {i \in DOMAIN trips : trips[i].request = r}
OnTrip(d) == \E i \in DOMAIN trips : trips[i].driver = d

-----------------------------------------------------------------------------
Match(f, r) ==
  /\ pc[f] = "idle"
  /\ Goto(f, "get")
  /\ request' = [request EXCEPT ![f] = r]
  /\ candidates' = [candidates EXCEPT ![f] = << >>]
  /\ UNCHANGED <<locked, trips, history, bounds>>

\* match answers the trip of its request.
AnswerTrip(f) ==
  matched' = matched \cup {[request |-> request[f], id |-> i] : i \in TripIds(request[f])}

\* trips.get: a request that has a trip is answered with it.
Get(f) ==
  /\ pc[f] = "get"
  /\ IF TripIds(request[f]) # {}
       THEN AnswerTrip(f) /\ Goto(f, "idle")
       ELSE Goto(f, "query") /\ UNCHANGED matched
  /\ UNCHANGED <<request, candidates, locked, trips, leaked, bounds>>

\* NearbyDriverQuery: whatever drivers are near, in any order of distance.
Query(f, nearby) ==
  /\ pc[f] = "query"
  /\ candidates' = [candidates EXCEPT ![f] = nearby]
  /\ Goto(f, "walk")
  /\ UNCHANGED <<request, locked, trips, history, bounds>>

\* The loop runs out of candidates: match returns None.
NoDriver(f) ==
  /\ pc[f] = "walk"
  /\ candidates[f] = << >>
  /\ Goto(f, "idle")
  /\ UNCHANGED <<request, candidates, locked, trips, history, bounds>>

\* SET lock:{driver} NX PX.  Faulty variant: without NX it always succeeds.
LockableAlways(d) == TRUE
Lockable(d) == d \notin locked

Acquire(f) ==
  /\ pc[f] = "walk"
  /\ candidates[f] # << >>
  /\ IF Lockable(Candidate(f))
       THEN /\ locked' = locked \cup {Candidate(f)}
            /\ Goto(f, "create")
            /\ UNCHANGED candidates
       ELSE /\ candidates' = [candidates EXCEPT ![f] = Tail(@)]
            /\ UNCHANGED <<locked, pc>>
  /\ UNCHANGED <<request, trips, history, bounds>>

\* ON CONFLICT (request_id) DO NOTHING.  Faulty variant: no constraint.
ConflictNever(r) == FALSE
Conflict(r) == TripIds(r) # {}

\* trips.create; on a conflict it also reads the row, whose id match ignores.
Create(f) ==
  /\ pc[f] = "create"
  /\ IF Conflict(request[f])
       THEN Goto(f, "release") /\ UNCHANGED trips
       ELSE /\ Len(trips) < MaxTrips
            /\ trips' = Append(trips, [request |-> request[f], driver |-> Candidate(f)])
            /\ Goto(f, "made")
  /\ UNCHANGED <<request, candidates, locked, history, bounds>>

\* The new trip is answered; the driver stays locked until the TTL.
Answer(f) ==
  /\ pc[f] = "made"
  /\ AnswerTrip(f)
  /\ Goto(f, "idle")
  /\ UNCHANGED <<request, candidates, locked, trips, leaked, bounds>>

\* DEL lock:{driver}, whoever holds it by now.  Faulty variant: not at all.
AfterReleaseKept(d) == locked
AfterRelease(d) == locked \ {d}

Release(f) ==
  /\ pc[f] = "release"
  /\ locked' = AfterRelease(Candidate(f))
  /\ Goto(f, "again")
  /\ UNCHANGED <<request, candidates, trips, history, bounds>>

\* The second trips.get: a trip is never deleted, so it is there.
GetAgain(f) ==
  /\ pc[f] = "again"
  /\ AnswerTrip(f)
  /\ Goto(f, "idle")
  /\ UNCHANGED <<request, candidates, locked, trips, leaked, bounds>>

-----------------------------------------------------------------------------
\* The 15 s of a lock run out.
LockLapses(d) ==
  /\ d \in locked
  /\ lapses < MaxLapses
  /\ lapses' = lapses + 1
  /\ locked' = locked \ {d}
  /\ UNCHANGED <<flow, trips, history, failures>>

\* An await raises or the process dies; nothing unlocks the driver.
Fail(f) ==
  /\ pc[f] # "idle"
  /\ failures < MaxFailures
  /\ failures' = failures + 1
  /\ leaked' = leaked \cup {d \in Drivers : Offering(f, d)}
  /\ Goto(f, "idle")
  /\ UNCHANGED <<request, candidates, locked, trips, matched, lapses>>

\* Drivers in any order of distance, none twice.
NearbyLists == {s \in UNION {[1..n -> Drivers] : n \in 0..MaxCandidates} : IsInjective(s)}

Advance(f) ==
  \/ Get(f) \/ NoDriver(f) \/ Acquire(f) \/ Create(f) \/ Answer(f) \/ Release(f) \/ GetAgain(f)
  \/ \E nearby \in NearbyLists : Query(f, nearby)

Next ==
  \/ \E f \in Flows : Advance(f) \/ Fail(f) \/ \E r \in Requests : Match(f, r)
  \/ \E d \in Drivers : LockLapses(d)

Spec == Init /\ [][Next]_vars

-----------------------------------------------------------------------------
\* "A trip is created exactly once per request (the trip store's unique
\* constraint is the final arbiter)" (offer_flow.py): flows of one request that
\* hold two drivers at once make one trip, and no one is answered another.
OneTripPerRequest ==
  \A i, j \in DOMAIN trips : trips[i].request = trips[j].request => i = j

AnswersAgree ==
  /\ \A a, b \in matched : a.request = b.request => a.id = b.id
  /\ \A a \in matched : trips[a.id].request = a.request

\* Flows of one request, concurrent or retried, end in one trip and answer with it.
OneOutcomePerRequest == OneTripPerRequest /\ AnswersAgree

\* A flow that loses the race for its request gives its driver back: a driver
\* stays locked only while offered, once on a trip, or when its flow failed.
LockedForReason ==
  \A d \in locked : d \in leaked \/ OnTrip(d) \/ \E f \in Flows : Offering(f, d)

\* No lock has run out so far.  The lock's TTL is checked by nothing, and its DEL
\* asks for no owner, so one lapse can give a driver to two riders.
LocksOutlast == lapses = 0

\* "No driver is offered to two riders at once" (offer_flow.py), while locks
\* outlast the flows that took them.
OneOfferPerDriver ==
  LocksOutlast =>
    \A f, g \in Flows : \A d \in Drivers : Offering(f, d) /\ Offering(g, d) => f = g

\* "Each a distinct driver" (README.md): while locks outlast their flows, a driver
\* is on one trip, which was not made from under another flow's offer.
OneTripPerDriver ==
  LocksOutlast =>
    \A i, j \in DOMAIN trips : trips[i].driver = trips[j].driver => i = j

\* No driver is given twice, to offers or to trips, while locks outlast their flows.
NoDoubleBooking == OneOfferPerDriver /\ OneTripPerDriver

\* The strengthening these two need: an offered driver is locked and on no trip,
\* and a driver on a trip stays locked.
OfferInv ==
  LocksOutlast =>
    /\ \A f \in Flows, d \in Drivers : Offering(f, d) => d \in locked /\ ~OnTrip(d)
    /\ \A d \in Drivers : OnTrip(d) => d \in locked
=============================================================================
