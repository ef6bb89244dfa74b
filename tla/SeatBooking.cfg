\* Two handlers, two holders, two seats, one crash of the process.  Init picks
\* the arguments of idle handlers, so symmetry covers all of them.
SPECIFICATION Spec
CONSTANTS
  Requests = {r1, r2}
  Seats = {s1, s2}
  Holders = {h1, h2}
  Keys = {k1, k2}
  UnsafeRequests = {}
  NoRequest = NoRequest
  NoHolder = NoHolder
  MaxCrashes = 1
  MaxResets = 0
SYMMETRY Symm
PROPERTIES NoChargeForSoldSeat ReleaseOwnHold SaleSpec
