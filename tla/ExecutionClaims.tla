--------------------------- MODULE ExecutionClaims ---------------------------
(***************************************************************************)
(* The worker half of the distributed job scheduler: the executions table  *)
(* and the conditional UPDATEs that claim, extend, complete and reclaim a  *)
(* row.                                                                    *)
(*                                                                         *)
(* A handler reads the clock and then awaits Postgres, so a request is two *)
(* steps: it captures `now`, and its UPDATE lands any time later, or never *)
(* (the server dies first).  A worker has one request outstanding at a     *)
(* time.  A worker that crashes sends nothing more; one that restarts is   *)
(* the same worker to the store, which knows it by name only.              *)
(***************************************************************************)
EXTENDS Integers

CONSTANTS
  Executions, Workers,
  NoWorker,       \* executions.worker is NULL
  Visibility,     \* VISIBILITY_MS
  MaxDue,         \* bound on the due times registered
  MaxNow          \* bound on the clock

ASSUME ClaimsAssumption ==
  /\ NoWorker \notin Workers
  /\ Visibility \in Nat /\ MaxDue \in Nat /\ MaxNow \in Nat \ {0}

VARIABLES
  now,          \* time.time() of the server
  due, status, worker, deadline,   \* columns of the executions table
  req,          \* the request each worker has outstanding
  sweep,        \* the clock captured by a /reclaim in progress, or NoSweep
  alive,        \* workers that have not crashed
  granted,      \* history: the last deadline the store granted a worker
  completions   \* history: how many `complete` calls were answered True

row == <<due, status, worker, deadline>>
vars == <<now, row, req, sweep, alive, granted, completions>>

Times == 0..MaxNow
NoSweep == -1
NoRequest == [op |-> "none"]
Requests == [op : {"claim", "heartbeat", "complete"}, exec : Executions, at : Times]

TypeOK ==
  /\ now \in Times \ {0}
  /\ due \in [Executions -> 0..MaxDue]
  /\ status \in [Executions -> {"absent", "pending", "running", "completed"}]
  /\ worker \in [Executions -> Workers \cup {NoWorker}]
  /\ deadline \in [Executions -> 0..(MaxNow + Visibility)]
  /\ req \in [Workers -> Requests \cup {NoRequest}]
  /\ sweep \in Times \cup {NoSweep}
  /\ alive \subseteq Workers
  /\ granted \in [Workers -> [Executions -> 0..(MaxNow + Visibility)]]
  /\ completions \in [Executions -> Nat]
  /\ \A e \in Executions :
       worker[e] = NoWorker <=> status[e] \in {"absent", "pending"}

Init ==
  /\ now = 1
  /\ due = [e \in Executions |-> 0]
  /\ status = [e \in Executions |-> "absent"]
  /\ worker = [e \in Executions |-> NoWorker]
  /\ deadline = [e \in Executions |-> 0]
  /\ req = [w \in Workers |-> NoRequest]
  /\ sweep = NoSweep
  /\ alive = Workers
  /\ granted = [w \in Workers |-> [e \in Executions |-> 0]]
  /\ completions = [e \in Executions |-> 0]

-----------------------------------------------------------------------------
Tick ==
  /\ now < MaxNow
  /\ now' = now + 1
  /\ UNCHANGED <<row, req, sweep, alive, granted, completions>>

\* INSERT ... ON CONFLICT DO NOTHING: registering a row again changes nothing.
Register(e, d) ==
  /\ status[e] = "absent"
  /\ status' = [status EXCEPT ![e] = "pending"]
  /\ due' = [due EXCEPT ![e] = d]
  /\ UNCHANGED <<now, worker, deadline, req, sweep, alive, granted, completions>>

\* A handler starts: the clock is read before the store is awaited.
Request(w, op, e) ==
  /\ w \in alive
  /\ req[w] = NoRequest
  /\ req' = [req EXCEPT ![w] = [op |-> op, exec |-> e, at |-> now]]
  /\ UNCHANGED <<now, row, sweep, alive, granted, completions>>

\* The handler dies before its UPDATE; the worker gives the call up.
RequestLost(w) ==
  /\ req[w] # NoRequest
  /\ req' = [req EXCEPT ![w] = NoRequest]
  /\ UNCHANGED <<now, row, sweep, alive, granted, completions>>

\* The worker crashes; what it has already sent may still be carried out.
WorkerCrash(w) ==
  /\ w \in alive
  /\ alive' = alive \ {w}
  /\ UNCHANGED <<now, row, req, sweep, granted, completions>>

-----------------------------------------------------------------------------
\* WHERE status = 'pending' AND due_ms <= now.
Claimable(e, at) == status[e] = "pending" /\ due[e] <= at

\* claim: PENDING -> RUNNING with a fresh deadline, or no row matched.
Claim(w) ==
  LET e == req[w].exec
      at == req[w].at
  IN /\ req[w].op = "claim"
     /\ req' = [req EXCEPT ![w] = NoRequest]
     /\ IF Claimable(e, at)
          THEN /\ status' = [status EXCEPT ![e] = "running"]
               /\ worker' = [worker EXCEPT ![e] = w]
               /\ deadline' = [deadline EXCEPT ![e] = at + Visibility]
               /\ granted' = [granted EXCEPT ![w][e] = at + Visibility]
          ELSE UNCHANGED <<status, worker, deadline, granted>>
     /\ UNCHANGED <<now, due, sweep, alive, completions>>

\* WHERE worker = $2 AND status = 'running'.  Faulty variant: the status left
\* out.
OwnsAnyStatus(e, w) == worker[e] = w
Owns(e, w) == worker[e] = w /\ status[e] = "running"

\* heartbeat: the owner's deadline moves to now + visibility.
Beat(w) ==
  LET e == req[w].exec
      at == req[w].at
  IN /\ req[w].op = "heartbeat"
     /\ req' = [req EXCEPT ![w] = NoRequest]
     /\ IF Owns(e, w)
          THEN /\ deadline' = [deadline EXCEPT ![e] = at + Visibility]
               /\ granted' = [granted EXCEPT ![w][e] = at + Visibility]
          ELSE UNCHANGED <<deadline, granted>>
     /\ UNCHANGED <<now, due, status, worker, sweep, alive, completions>>

\* complete: RUNNING -> COMPLETED by the owner, whatever its deadline.
Complete(w) ==
  LET e == req[w].exec
  IN /\ req[w].op = "complete"
     /\ req' = [req EXCEPT ![w] = NoRequest]
     /\ IF Owns(e, w)
          THEN /\ status' = [status EXCEPT ![e] = "completed"]
               /\ completions' = [completions EXCEPT ![e] = @ + 1]
          ELSE UNCHANGED <<status, completions>>
     /\ UNCHANGED <<now, due, worker, deadline, sweep, alive, granted>>

\* /reclaim starts: it captures the clock, as every handler does.
ReclaimStart ==
  /\ sweep = NoSweep
  /\ sweep' = now
  /\ UNCHANGED <<now, row, req, alive, granted, completions>>

\* WHERE status = 'running' AND visibility_deadline_ms < now.  Faulty
\* variants: the deadline left out; no row is ever found.
LapsedAlways(e, at) == status[e] = "running"
LapsedNever(e, at) == FALSE
Lapsed(e, at) == status[e] = "running" /\ deadline[e] < at

\* worker = NULL.
ReclaimedWorker(e) == NoWorker

\* reclaim_expired: one UPDATE sends every lapsed row back to PENDING.
ReclaimExpired ==
  LET lapsed == {e \in Executions : Lapsed(e, sweep)}
  IN /\ sweep # NoSweep
     /\ sweep' = NoSweep
     /\ status' = [e \in Executions |-> IF e \in lapsed THEN "pending" ELSE status[e]]
     /\ worker' = [e \in Executions |-> IF e \in lapsed THEN ReclaimedWorker(e) ELSE worker[e]]
     /\ UNCHANGED <<now, due, deadline, req, alive, granted, completions>>

Reclaim == ReclaimStart \/ ReclaimExpired
Serve(w) == Claim(w) \/ Beat(w) \/ Complete(w)

Next ==
  \/ Tick
  \/ \E e \in Executions, d \in 0..MaxDue : Register(e, d)
  \/ \E w \in Workers :
       \/ \E op \in {"claim", "heartbeat", "complete"}, e \in Executions : Request(w, op, e)
       \/ RequestLost(w) \/ WorkerCrash(w) \/ Serve(w)
  \/ Reclaim

Spec == Init /\ [][Next]_vars

-----------------------------------------------------------------------------
\* A worker counts an execution as its own until the last deadline the store
\* granted it.  At no time do two workers both do so: a claim that wins, a
\* heartbeat, a reclaim with an old clock and a late completion leave one owner.
ExclusiveOwner ==
  \A e \in Executions : \A v, w \in Workers :
    granted[v][e] >= now /\ granted[w][e] >= now => v = w

\* "Effectively-once": however often a row was redelivered, and whoever was
\* paused, one completion at most is accepted.
CompletedOnce == \A e \in Executions : completions[e] <= 1

\* A completed execution never runs again: no reclaim, claim or heartbeat that
\* was already under way when it completed brings it back.
CompletedIsFinal ==
  [][\A e \in Executions : status[e] = "completed" => status'[e] = "completed"]_vars

\* "Stop (crash) and its visibility deadline lapses, so the reclaim path returns
\* it to PENDING" (heartbeat.py): a row does not stay with a dead worker that
\* has no request on its way, as far as the bounded clock reaches its deadline.
Redelivered ==
  \A e \in Executions : \A w \in Workers :
    (/\ status[e] = "running" /\ worker[e] = w
     /\ w \notin alive /\ req[w] = NoRequest
     /\ deadline[e] < MaxNow)
      ~> ~(status[e] = "running" /\ worker[e] = w)

\* The strengthening that makes ExclusiveOwner and CompletedOnce inductive: the
\* deadline of a running row is what its owner was granted, everyone else's
\* grant has lapsed, and a captured clock is never ahead of the real one.
RowInv(e) ==
  /\ status[e] \in {"absent", "pending"} => \A v \in Workers : granted[v][e] < now
  /\ status[e] \in {"running", "completed"} =>
       \A v \in Workers \ {worker[e]} : granted[v][e] < now
  /\ status[e] = "running" => granted[worker[e]][e] = deadline[e]
  /\ completions[e] = IF status[e] = "completed" THEN 1 ELSE 0

ClockInv ==
  /\ sweep <= now
  /\ \A w \in Workers : req[w] # NoRequest => req[w].at <= now

ClaimsInv == ClockInv /\ \A e \in Executions : RowInv(e)
=============================================================================
