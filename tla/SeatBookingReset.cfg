\* No crash, one /reset: what survives when the tables are wiped under a
\* confirm, and with one of the two confirms taking no lock; and that every
\* confirm ends (no symmetry).  One holder: holds decide nothing here.
SPECIFICATION FairSpec
CONSTANTS
  Requests = {r1, r2}
  Seats = {s1}
  Holders = {h1}
  Keys = {k1, k2}
  UnsafeRequests = {r2}
  NoRequest = NoRequest
  NoHolder = NoHolder
  MaxCrashes = 0
  MaxResets = 1
INVARIANTS OneCapturePerAttempt OrdersArePaid
PROPERTY ConfirmEnds
