---------------------------- MODULE JobScheduler ----------------------------
(***************************************************************************)
(* The job scheduler as one system to check.  Its two halves, the nodes    *)
(* that elect a leader and dispatch (LeaderFencing) and the workers that   *)
(* claim and complete (ExecutionClaims), share the executions table but no *)
(* column that both use: dispatch stamps the epoch of a row, the claims    *)
(* read and write the others.  So each half is run on its own, and the     *)
(* first state chooses which.                                              *)
(***************************************************************************)
EXTENDS LeaderFencing, ExecutionClaims

VARIABLE half    \* "election" or "claims"

schedulerVars == <<half, electionVars, vars>>

Election == half = "election" /\ UNCHANGED <<half, vars>>
Claims == half = "claims" /\ UNCHANGED <<half, electionVars>>

SchedulerInit == half \in {"election", "claims"} /\ ElectionInit /\ Init

SchedulerNext ==
  \/ ElectionNext /\ Election
  \/ Next /\ Claims

\* The clock advances, a request sent is served or lost, and the operator keeps
\* calling /reclaim (nothing in the code calls it: the smoke test does).  Of elections
\* and dispatches nothing is assumed.
SchedulerSpec ==
  /\ SchedulerInit /\ [][SchedulerNext]_schedulerVars
  /\ WF_schedulerVars(Tick /\ Claims) /\ WF_schedulerVars(Reclaim /\ Claims)
  /\ \A w \in Workers : WF_schedulerVars((RequestLost(w) \/ Serve(w)) /\ Claims)
=============================================================================
