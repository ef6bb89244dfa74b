\* Two relays and three orders in batches of two, one of them invalid, two
\* failures.  Deadlock is not checked: all orders placed and sent is the end.
SPECIFICATION FairSpec
CONSTANTS
  Orders = {o1, o2, o3}
  InvalidOrders = {o3}
  Relays = {r1, r2}
  Limit = 2
  MaxFailures = 2
INVARIANTS TypeOK DuplicatesNeedFailures
PROPERTIES EffectsSpec EventuallyApplied
CHECK_DEADLOCK FALSE
