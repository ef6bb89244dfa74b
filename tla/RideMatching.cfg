\* Three flows, two requests, two drivers: two flows retry one request while the
\* third competes for the drivers; one lock lapses and one flow fails.  Deadlock
\* is not checked: the bound on trips could stop a flow.
SPECIFICATION Spec
CONSTANTS
  Flows = {f1, f2, f3}
  Requests = {q1, q2}
  Drivers = {d1, d2}
  MaxCandidates = 2
  MaxTrips = 3
  MaxLapses = 1
  MaxFailures = 1
SYMMETRY Symm
INVARIANTS OneOutcomePerRequest LockedForReason NoDoubleBooking
CHECK_DEADLOCK FALSE
