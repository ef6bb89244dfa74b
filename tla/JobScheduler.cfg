\* Three nodes contend for the lease, two rows, up to three epochs: the lease
\* can lapse and move while two nodes are both between SET and INCR.  Two workers
\* race for one execution; the clock runs past two visibility timeouts, so that a
\* row can be claimed, lapse, be reclaimed and be claimed again while an old request
\* is still under way.  No symmetry: liveness is checked too.  Deadlock is not
\* checked: the bound on epochs, crashed workers and the end of the clock stop the
\* halves.
SPECIFICATION SchedulerSpec
CONSTANTS
  Nodes = {n1, n2, n3}
  Rows = {e1, e2}
  NoNode = NoNode
  MaxEpoch = 3
  Executions = {e1}
  Workers = {w1, w2}
  NoWorker = NoWorker
  Visibility = 1
  MaxDue = 1
  MaxNow = 4
INVARIANTS EpochsUnique ExclusiveOwner CompletedOnce
PROPERTIES AdmittedIsHighest Redelivered
CHECK_DEADLOCK FALSE
