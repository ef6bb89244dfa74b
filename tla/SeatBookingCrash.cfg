\* A retry after a crash of the process.
SPECIFICATION Spec
CONSTANTS
  Requests = {r1}
  Seats = {s1}
  Holders = {h1}
  Keys = {k1}
  UnsafeRequests = {}
  NoRequest = NoRequest
  NoHolder = NoHolder
  MaxCrashes = 1
  MaxResets = 0
INVARIANT OneCapturePerAttempt
