------------------------- MODULE RideMatchingProofs -------------------------
(***************************************************************************)
(* RideMatching makes one trip per request and answers it alike, however   *)
(* locks lapse and flows fail; while no lock has lapsed, it offers a       *)
(* driver to one flow only and puts it on one trip; and a driver is locked *)
(* only for a flow that has a use for it or was cut off.  For every set of *)
(* flows, requests and drivers.                                            *)
(***************************************************************************)
EXTENDS RideMatching, TLAPS

\* Each step keeps the types.
LEMMA TypeStep == TypeOK /\ [Next]_vars => TypeOK'
<1> SUFFICES ASSUME TypeOK, [Next]_vars PROVE TypeOK'
  OBVIOUS
<1> USE MatchingAssumption DEF Goto, Labels, Offering
<1>1. ASSUME NEW f \in Flows, NEW r \in Requests, Match(f, r) PROVE TypeOK'
  BY <1>1 DEF Match, TypeOK, bounds, history
<1>2. ASSUME NEW f \in Flows, AnswerTrip(f)
      PROVE  matched' \subseteq [request : Requests, id : 1..Len(trips)]
  <2>1. TripIds(request[f]) \subseteq 1..Len(trips) /\ request[f] \in Requests
    BY DEF TripIds, TypeOK
  <2> QED
    BY <1>2, <2>1 DEF AnswerTrip, TypeOK
<1>3. ASSUME NEW f \in Flows, Get(f) PROVE TypeOK'
  <2>1. CASE TripIds(request[f]) # {}
    BY <1>2, <1>3, <2>1 DEF Get, TypeOK, bounds
  <2>2. CASE TripIds(request[f]) = {}
    BY <1>3, <2>2 DEF Get, TypeOK, bounds
  <2> QED
    BY <2>1, <2>2
<1>4. ASSUME NEW f \in Flows, NEW nearby \in NearbyLists, Query(f, nearby) PROVE TypeOK'
  <2>1. nearby \in Seq(Drivers)
    BY DEF NearbyLists
  <2> QED
    BY <1>4, <2>1 DEF Query, TypeOK, bounds, history
<1>5. ASSUME NEW f \in Flows, NoDriver(f) PROVE TypeOK'
  BY <1>5 DEF NoDriver, TypeOK, bounds, history
<1>6. ASSUME NEW f \in Flows, Acquire(f) PROVE TypeOK'
  <2>1. candidates[f] \in Seq(Drivers) /\ candidates[f] # << >>
    BY <1>6 DEF Acquire, TypeOK
  <2>2. Head(candidates[f]) \in Drivers /\ Tail(candidates[f]) \in Seq(Drivers)
    BY <2>1
  <2>3. CASE Lockable(Candidate(f))
    BY <1>6, <2>1, <2>2, <2>3 DEF Acquire, Candidate, TypeOK, bounds, history
  <2>4. CASE ~Lockable(Candidate(f))
    BY <1>6, <2>2, <2>4 DEF Acquire, TypeOK, bounds, history
  <2> QED
    BY <2>3, <2>4
<1>7. ASSUME NEW f \in Flows, Create(f) PROVE TypeOK'
  <2>1. Candidate(f) \in Drivers /\ request[f] \in Requests
    BY <1>7 DEF Create, Candidate, TypeOK
  <2>2. CASE Conflict(request[f])
    BY <1>7, <2>2 DEF Create, TypeOK, bounds, history
  <2>3. CASE ~Conflict(request[f])
    <3> DEFINE new == [request |-> request[f], driver |-> Candidate(f)]
    <3>1. new \in Trips
      BY <2>1 DEF Trips
    <3>2. trips' = Append(trips, new)
      BY <1>7, <2>3 DEF Create
    <3> HIDE DEF new
    <3>3. trips' \in Seq(Trips) /\ Len(trips') = Len(trips) + 1
      BY <3>1, <3>2 DEF TypeOK
    <3>4. matched' \subseteq [request : Requests, id : 1..Len(trips')]
      <4>1. 1..Len(trips) \subseteq 1..Len(trips')
        BY <3>3 DEF TypeOK
      <4> QED
        BY <1>7, <4>1 DEF Create, TypeOK, history
    <3> QED
      BY <1>7, <2>3, <3>3, <3>4 DEF Create, TypeOK, bounds, history
  <2> QED
    BY <2>2, <2>3
<1>8. ASSUME NEW f \in Flows, Answer(f) PROVE TypeOK'
  BY <1>2, <1>8 DEF Answer, TypeOK, bounds
<1>9. ASSUME NEW f \in Flows, Release(f) PROVE TypeOK'
  BY <1>9 DEF Release, AfterRelease, TypeOK, bounds, history
<1>10. ASSUME NEW f \in Flows, GetAgain(f) PROVE TypeOK'
  BY <1>2, <1>10 DEF GetAgain, TypeOK, bounds
<1>11. ASSUME NEW f \in Flows, Fail(f) PROVE TypeOK'
  BY <1>11 DEF Fail, TypeOK
<1>12. ASSUME NEW d \in Drivers, LockLapses(d) PROVE TypeOK'
  BY <1>12 DEF LockLapses, TypeOK, flow, history
<1>13. CASE UNCHANGED vars
  BY <1>13 DEF TypeOK, vars, flow, history, bounds
<1> QED
  BY <1>1, <1>3, <1>4, <1>5, <1>6, <1>7, <1>8, <1>9, <1>10, <1>11, <1>12, <1>13
     DEF Next, Advance

-----------------------------------------------------------------------------
(* One trip per request *)

Unique == OneTripPerRequest /\ \A a \in matched : trips[a.id].request = a.request

\* A step that leaves the trips alone answers at most the trip of its request.
LEMMA AnswersFromTable ==
  ASSUME TypeOK, Unique, UNCHANGED trips,
         UNCHANGED matched \/ \E f \in Flows : AnswerTrip(f)
  PROVE  Unique'
<1>1. CASE UNCHANGED matched
  BY <1>1 DEF Unique, OneTripPerRequest
<1>2. ASSUME NEW f \in Flows, AnswerTrip(f) PROVE Unique'
  <2>1. ASSUME NEW a \in matched' PROVE trips'[a.id].request = a.request
    <3>1. CASE a \in matched
      BY <3>1 DEF Unique
    <3>2. ASSUME NEW i \in TripIds(request[f]), a = [request |-> request[f], id |-> i]
          PROVE  trips'[a.id].request = a.request
      BY <3>2 DEF TripIds
    <3> QED
      BY <1>2, <3>1, <3>2 DEF AnswerTrip
  <2> QED
    BY <2>1 DEF Unique, OneTripPerRequest
<1> QED
  BY <1>1, <1>2

\* A new trip is the first of its request, and moves no row.
LEMMA UniqueStep == TypeOK /\ Unique /\ [Next]_vars => Unique'
<1> SUFFICES ASSUME TypeOK, Unique, [Next]_vars PROVE Unique'
  OBVIOUS
<1>1. ASSUME NEW f \in Flows, Create(f), ~Conflict(request[f]) PROVE Unique'
  <2> DEFINE new == [request |-> request[f], driver |-> Candidate(f)]
             last == Len(trips) + 1
  <2>1. trips' = Append(trips, new) /\ matched' = matched
    BY <1>1 DEF Create, history
  <2>2. \A i \in DOMAIN trips : trips[i].request # request[f]
    BY <1>1 DEF Conflict, TripIds
  <2>3. new.request = request[f]
    OBVIOUS
  <2> HIDE DEF new
  <2>4. /\ DOMAIN trips' = 1..last
        /\ DOMAIN trips = 1..Len(trips)
        /\ \A i \in DOMAIN trips : trips'[i] = trips[i]
        /\ trips'[last] = new
    BY <2>1 DEF TypeOK
  <2>5. Len(trips) \in Nat
    BY DEF TypeOK
  <2>6. ASSUME NEW i \in 1..last, NEW j \in 1..last, trips'[i].request = trips'[j].request
        PROVE  i = j
    <3>1. \A k \in 1..last : k = last \/ k \in DOMAIN trips
      BY <2>4, <2>5
    <3> QED
      BY <2>2, <2>3, <2>4, <2>6, <3>1 DEF Unique, OneTripPerRequest
  <2>7. ASSUME NEW a \in matched PROVE trips'[a.id].request = a.request
    <3>1. a.id \in DOMAIN trips
      BY <2>4 DEF TypeOK
    <3> QED
      BY <2>4, <3>1 DEF Unique
  <2> QED
    BY <2>1, <2>4, <2>6, <2>7 DEF Unique, OneTripPerRequest
<1>2. CASE UNCHANGED trips /\ (UNCHANGED matched \/ \E f \in Flows : AnswerTrip(f))
  BY <1>2, AnswersFromTable
<1>3. \/ \E f \in Flows : Create(f) /\ ~Conflict(request[f])
      \/ UNCHANGED trips /\ (UNCHANGED matched \/ \E f \in Flows : AnswerTrip(f))
  BY DEF Next, Advance, Match, Get, Query, NoDriver, Acquire, Create, Answer, Release,
         GetAgain, Fail, LockLapses, vars, history
<1> QED
  BY <1>1, <1>2, <1>3

\* The types and one trip per request hold in every reachable state.
THEOREM Invariance == Spec => [](TypeOK /\ Unique)
<1>1. Init => TypeOK /\ Unique
  BY MatchingAssumption DEF Init, TypeOK, Labels, Unique, OneTripPerRequest
<1>2. TypeOK /\ Unique /\ [Next]_vars => (TypeOK /\ Unique)'
  BY TypeStep, UniqueStep
<1> QED
  BY <1>1, <1>2, PTL DEF Spec

\* The service's state keeps its types.
THEOREM TypeCorrect == Spec => []TypeOK
  BY Invariance, PTL

\* Two flows of one request that hold two drivers make one trip, and all answers to
\* one request name that trip.
THEOREM OneOutcome == Spec => []OneOutcomePerRequest
<1>1. TypeOK /\ Unique => AnswersAgree
  <2> SUFFICES ASSUME TypeOK, Unique PROVE AnswersAgree
    OBVIOUS
  <2>1. \A a \in matched : a.id \in DOMAIN trips /\ trips[a.id].request = a.request
    BY DEF TypeOK, Unique
  <2> QED
    BY <2>1 DEF AnswersAgree, Unique, OneTripPerRequest
<1>2. Unique => OneTripPerRequest
  BY DEF Unique
<1> QED
  BY <1>1, <1>2, Invariance, PTL DEF OneOutcomePerRequest

-----------------------------------------------------------------------------
(* One offer and one trip per driver, while no lock has lapsed *)

HeldInv == OfferInv /\ OneOfferPerDriver /\ OneTripPerDriver

\* A step that adds no trip, no lock and no offer, and frees no driver that is
\* offered or on a trip, keeps the invariant.
LEMMA HeldKept ==
  ASSUME HeldInv, LocksOutlast, UNCHANGED trips, locked \subseteq locked',
         \A f \in Flows, d \in Drivers : Offering(f, d)' => Offering(f, d)
  PROVE  HeldInv'
  BY DEF HeldInv, OfferInv, OneOfferPerDriver, OneTripPerDriver, OnTrip

Quiet ==
  /\ UNCHANGED <<trips, locked>>
  /\ \A f \in Flows, d \in Drivers : Offering(f, d)' => Offering(f, d)

LEMMA HeldStep ==
  ASSUME TypeOK, HeldInv, [Next]_vars
  PROVE  HeldInv'
<1> SUFFICES ASSUME LocksOutlast' PROVE HeldInv'
  BY DEF HeldInv, OfferInv, OneOfferPerDriver, OneTripPerDriver
<1>0. LocksOutlast /\ ~\E d \in Drivers : LockLapses(d)
  <2>1. ASSUME NEW d \in Drivers, LockLapses(d) PROVE FALSE
    BY <2>1 DEF LockLapses, LocksOutlast, TypeOK
  <2>2. UNCHANGED lapses
    BY <2>1 DEF Next, Advance, Match, Get, Query, NoDriver, Acquire, Create, Answer, Release,
           GetAgain, Fail, vars, bounds
  <2> QED
    BY <2>1, <2>2 DEF LocksOutlast
<1> USE <1>0 DEF Goto
<1>1. ASSUME NEW f \in Flows, Acquire(f), Lockable(Candidate(f)) PROVE HeldInv'
  <2>1. /\ locked' = locked \cup {Candidate(f)} /\ trips' = trips
        /\ candidates' = candidates
        /\ \A g \in Flows : g # f => pc'[g] = pc[g]
        /\ pc'[f] = "create"
    BY <1>1 DEF Acquire, TypeOK
  <2>2. \A g \in Flows, d \in Drivers :
          Offering(g, d)' => Offering(g, d) \/ (g = f /\ d = Candidate(f))
    BY <2>1 DEF Offering, Candidate
  <2>3. Candidate(f) \notin locked
    BY <1>1 DEF Lockable
  <2> QED
    BY <2>1, <2>2, <2>3 DEF HeldInv, OfferInv, OneOfferPerDriver, OneTripPerDriver, OnTrip
<1>2. ASSUME NEW f \in Flows, Create(f), ~Conflict(request[f]) PROVE HeldInv'
  <2> DEFINE driver == Candidate(f)
             new == [request |-> request[f], driver |-> driver]
             last == Len(trips) + 1
  <2>1. /\ trips' = Append(trips, new) /\ locked' = locked
        /\ candidates' = candidates
        /\ \A g \in Flows : g # f => pc'[g] = pc[g]
        /\ pc'[f] = "made"
    BY <1>2 DEF Create, TypeOK
  <2>2. driver \in Drivers /\ Offering(f, driver)
    BY <1>2 DEF Create, Candidate, Offering, TypeOK
  <2>3. driver \in locked /\ ~OnTrip(driver)
        /\ \A g \in Flows : Offering(g, driver) => g = f
    BY <2>2 DEF HeldInv, OfferInv, OneOfferPerDriver
  <2>4. \A g \in Flows, d \in Drivers : Offering(g, d)' => Offering(g, d) /\ g # f
    BY <2>1 DEF Offering, Candidate
  <2>5. new.driver = driver
    OBVIOUS
  <2> HIDE DEF new, driver
  <2>6. /\ DOMAIN trips' = 1..last
        /\ DOMAIN trips = 1..Len(trips)
        /\ \A i \in DOMAIN trips : trips'[i] = trips[i]
        /\ trips'[last].driver = driver
        /\ \A i \in 1..last : i = last \/ i \in DOMAIN trips
    BY <2>1, <2>5 DEF TypeOK
  <2>7. \A d \in Drivers : OnTrip(d)' => OnTrip(d) \/ d = driver
    BY <2>6 DEF OnTrip
  <2>8. OfferInv'
    BY <2>1, <2>3, <2>4, <2>7 DEF HeldInv, OfferInv
  <2>9. OneOfferPerDriver'
    BY <2>4 DEF HeldInv, OneOfferPerDriver
  <2>10. OneTripPerDriver'
    BY <2>3, <2>6 DEF HeldInv, OneTripPerDriver, OnTrip
  <2> QED
    BY <2>8, <2>9, <2>10 DEF HeldInv
<1>3. ASSUME NEW f \in Flows, Release(f) PROVE HeldInv'
  <2> DEFINE driver == Candidate(f)
  <2>1. /\ locked' = locked \ {driver} /\ trips' = trips
        /\ candidates' = candidates
        /\ \A g \in Flows : g # f => pc'[g] = pc[g]
        /\ pc'[f] = "again"
    BY <1>3 DEF Release, AfterRelease, TypeOK
  <2>2. driver \in Drivers /\ Offering(f, driver)
    BY <1>3 DEF Release, Candidate, Offering, TypeOK
  <2>3. \A g \in Flows, d \in Drivers :
          Offering(g, d)' => Offering(g, d) /\ d # driver
    BY <2>1, <2>2 DEF Offering, Candidate, HeldInv, OneOfferPerDriver
  <2> QED
    BY <2>1, <2>2, <2>3 DEF HeldInv, OfferInv, OneOfferPerDriver, OneTripPerDriver, OnTrip
<1>4. CASE Quiet
  BY <1>4, HeldKept DEF Quiet, Offering, Candidate
<1>5. \/ \E f \in Flows : Acquire(f) /\ Lockable(Candidate(f))
      \/ \E f \in Flows : Create(f) /\ ~Conflict(request[f])
      \/ \E f \in Flows : Release(f)
      \/ Quiet
  <2> USE DEF Offering, Candidate, TypeOK, Quiet
  <2>1. ASSUME NEW f \in Flows, NEW r \in Requests, Match(f, r) PROVE Quiet
    BY <2>1 DEF Match
  <2>2. ASSUME NEW f \in Flows, Get(f) PROVE Quiet
    BY <2>2 DEF Get
  <2>3. ASSUME NEW f \in Flows, NEW nearby \in NearbyLists, Query(f, nearby) PROVE Quiet
    BY <2>3 DEF Query
  <2>4. ASSUME NEW f \in Flows, NoDriver(f) PROVE Quiet
    BY <2>4 DEF NoDriver
  <2>5. ASSUME NEW f \in Flows, Acquire(f), ~Lockable(Candidate(f)) PROVE Quiet
    BY <2>5 DEF Acquire
  <2>6. ASSUME NEW f \in Flows, Create(f), Conflict(request[f]) PROVE Quiet
    BY <2>6 DEF Create
  <2>7. ASSUME NEW f \in Flows, Answer(f) PROVE Quiet
    BY <2>7 DEF Answer
  <2>8. ASSUME NEW f \in Flows, GetAgain(f) PROVE Quiet
    BY <2>8 DEF GetAgain
  <2>9. ASSUME NEW f \in Flows, Fail(f) PROVE Quiet
    BY <2>9 DEF Fail
  <2>10. ASSUME NEW d \in Drivers, LockLapses(d) PROVE FALSE
    BY <2>10
  <2>11. CASE UNCHANGED vars
    BY <2>11 DEF vars, flow
  <2> QED
    BY <2>1, <2>2, <2>3, <2>4, <2>5, <2>6, <2>7, <2>8, <2>9, <2>10, <2>11 DEF Next, Advance
<1> QED
  BY <1>1, <1>2, <1>3, <1>4, <1>5

\* While no lock has lapsed, no driver is offered to two riders at once and none
\* is on two trips.
THEOREM NeverDoubleBooked == Spec => []NoDoubleBooking
<1>1. Init => HeldInv
  BY DEF Init, HeldInv, OfferInv, OneOfferPerDriver, OneTripPerDriver, OnTrip, Offering
<1>2. TypeOK /\ HeldInv /\ [Next]_vars => HeldInv'
  BY HeldStep
<1>3. HeldInv => NoDoubleBooking
  BY DEF HeldInv, NoDoubleBooking
<1> QED
  BY <1>1, <1>2, <1>3, TypeCorrect, PTL DEF Spec
-----------------------------------------------------------------------------
(* No driver is locked for nothing *)

\* A step locks no driver without an offer, and ends no offer without leaving
\* the driver unlocked, on a trip or marked as left behind.
LEMMA ReasonStep ==
  ASSUME TypeOK, LockedForReason, [Next]_vars
  PROVE  LockedForReason'
<1> DEFINE Reason(d) == d \in leaked \/ OnTrip(d) \/ \E f \in Flows : Offering(f, d)
<1> USE DEF Goto
<1>1. ASSUME locked' \subseteq locked,
             \A d \in locked' : Reason(d) => Reason(d)'
      PROVE  LockedForReason'
  BY <1>1 DEF LockedForReason
<1>2. ASSUME UNCHANGED trips, leaked \subseteq leaked', locked' \subseteq locked,
             \A f \in Flows : \A d \in locked' : Offering(f, d) => Offering(f, d)' \/ d \in leaked'
      PROVE  LockedForReason'
  <2>1. \A d \in locked' : Reason(d) => Reason(d)'
    BY <1>2 DEF OnTrip
  <2> QED
    BY <1>1, <1>2, <2>1
<1>3. ASSUME NEW f \in Flows, Acquire(f), Lockable(Candidate(f)) PROVE LockedForReason'
  <2>1. /\ locked' = locked \cup {Candidate(f)} /\ trips' = trips /\ leaked' = leaked
        /\ candidates' = candidates
        /\ pc[f] = "walk" /\ pc'[f] = "create"
        /\ \A g \in Flows : g # f => pc'[g] = pc[g]
    BY <1>3 DEF Acquire, TypeOK, history
  <2>2. \A d \in Drivers : Reason(d) => Reason(d)'
    BY <2>1 DEF Offering, Candidate, OnTrip
  <2>3. Offering(f, Candidate(f))'
    BY <2>1 DEF Offering, Candidate
  <2>4. Candidate(f)' = Candidate(f)
    BY <2>1 DEF Candidate
  <2>5. \A d \in locked' : d = Candidate(f) \/ (d \in Drivers /\ d \in locked /\ Reason(d))
    BY <2>1 DEF LockedForReason, TypeOK
  <2> QED
    BY <2>2, <2>3, <2>4, <2>5 DEF LockedForReason, Offering
<1>4. ASSUME NEW f \in Flows, Create(f), ~Conflict(request[f]) PROVE LockedForReason'
  <2> DEFINE new == [request |-> request[f], driver |-> Candidate(f)]
  <2>1. /\ trips' = Append(trips, new) /\ locked' = locked /\ leaked' = leaked
        /\ candidates' = candidates
        /\ \A g \in Flows : g # f => pc'[g] = pc[g]
    BY <1>4 DEF Create, TypeOK, history
  <2>2. new.driver = Candidate(f)
    OBVIOUS
  <2> HIDE DEF new
  <2>3. /\ \A i \in DOMAIN trips : i \in DOMAIN trips' /\ trips'[i] = trips[i]
        /\ Len(trips) + 1 \in DOMAIN trips' /\ trips'[Len(trips) + 1] = new
    BY <2>1 DEF TypeOK
  <2>4. \A d \in locked : OnTrip(d) => OnTrip(d)'
    BY <2>3 DEF OnTrip
  <2>5. \A g \in Flows : \A d \in locked : Offering(g, d) => Offering(g, d)' \/ d = Candidate(f)
    BY <2>1 DEF Offering, Candidate
  <2>6. \A d \in locked : d = Candidate(f) => OnTrip(d)'
    BY <2>2, <2>3 DEF OnTrip
  <2>7. \A d \in locked' : Reason(d) => Reason(d)'
    BY <2>1, <2>4, <2>5, <2>6
  <2> QED
    BY <1>1, <2>1, <2>7
<1>5. ASSUME NEW f \in Flows, Release(f) PROVE LockedForReason'
  BY <1>2, <1>5 DEF Release, AfterRelease, Offering, Candidate, TypeOK, history
<1>6. ASSUME NEW f \in Flows, Fail(f) PROVE LockedForReason'
  BY <1>2, <1>6 DEF Fail, Offering, Candidate, TypeOK
<1>7. ASSUME NEW f \in Flows, NEW r \in Requests, Match(f, r) PROVE LockedForReason'
  BY <1>2, <1>7 DEF Match, Offering, Candidate, TypeOK, history
<1>8. ASSUME NEW f \in Flows, Get(f) \/ NoDriver(f) \/ Answer(f) \/ GetAgain(f)
      PROVE  LockedForReason'
  BY <1>2, <1>8 DEF Get, NoDriver, Answer, GetAgain, Offering, Candidate, TypeOK, history
<1>9. ASSUME NEW f \in Flows, NEW nearby \in NearbyLists, Query(f, nearby) PROVE LockedForReason'
  BY <1>2, <1>9 DEF Query, Offering, Candidate, TypeOK, history
<1>10. ASSUME NEW f \in Flows, Acquire(f), ~Lockable(Candidate(f)) PROVE LockedForReason'
  BY <1>2, <1>10 DEF Acquire, Offering, Candidate, TypeOK, history
<1>11. ASSUME NEW f \in Flows, Create(f), Conflict(request[f]) PROVE LockedForReason'
  BY <1>2, <1>11 DEF Create, Offering, Candidate, TypeOK, history
<1>12. ASSUME NEW d \in Drivers, LockLapses(d) PROVE LockedForReason'
  BY <1>2, <1>12 DEF LockLapses, Offering, Candidate, flow, history
<1>13. CASE UNCHANGED vars
  BY <1>2, <1>13 DEF vars, flow, history, Offering, Candidate
<1> QED
  BY <1>3, <1>4, <1>5, <1>6, <1>7, <1>8, <1>9, <1>10, <1>11, <1>12, <1>13 DEF Next, Advance

\* Without a bound on lapses or failures: a driver stays locked only while offered,
\* once on a trip, or because the flow that offered it failed.
THEOREM NeverLockedForNothing == Spec => []LockedForReason
<1>1. Init => LockedForReason
  BY DEF Init, LockedForReason
<1>2. TypeOK /\ LockedForReason /\ [Next]_vars => LockedForReason'
  BY ReasonStep
<1> QED
  BY <1>1, <1>2, TypeCorrect, PTL DEF Spec
=============================================================================
