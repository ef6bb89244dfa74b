---------------------------- MODULE LeaderFencing ----------------------------
(***************************************************************************)
(* The scheduler half of the distributed job scheduler: leader election    *)
(* with a Redis lease, the monotonic epoch used as a fencing token, and    *)
(* the dispatcher that refuses a stale epoch.                              *)
(*                                                                         *)
(* The lease and the epoch are two Redis commands (SET NX PX, then INCR)   *)
(* and the dispatcher is two round trips (GET epoch in Redis, then UPDATE  *)
(* in Postgres): each command is one action, and the lease may lapse       *)
(* between any two of them.                                                *)
(***************************************************************************)
EXTENDS Naturals, FiniteSets

CONSTANTS
  Nodes,        \* scheduler nodes that call /leader/acquire and /dispatch
  Rows,         \* rows of the executions table
  NoNode,       \* the lease key is absent
  MaxEpoch      \* bound on the number of epochs minted

ASSUME FencingAssumption == NoNode \notin Nodes /\ MaxEpoch \in Nat

NoEpoch == 0    \* LeaderLease.epoch is None, the row's epoch is NULL

VARIABLES
  lease,      \* Redis key "lease": the node that holds it
  epoch,      \* Redis key "epoch": the counter
  minting,    \* nodes between a successful SET NX and their INCR
  held,       \* LeaderLease.epoch of each node
  admitted,   \* dispatches past the epoch check, their UPDATE still to come
  rowEpoch    \* executions.epoch

electionVars == <<lease, epoch, minting, held, admitted, rowEpoch>>

Epochs == 0..MaxEpoch
Dispatches == [exec : Rows, epoch : Epochs]

ElectionTypeOK ==
  /\ lease \in Nodes \cup {NoNode}
  /\ epoch \in Epochs
  /\ minting \subseteq Nodes
  /\ held \in [Nodes -> Epochs]
  /\ admitted \subseteq Dispatches
  /\ rowEpoch \in [Rows -> Epochs]

ElectionInit ==
  /\ lease = NoNode
  /\ epoch = 0
  /\ minting = {}
  /\ held = [n \in Nodes |-> NoEpoch]
  /\ admitted = {}
  /\ rowEpoch = [e \in Rows |-> NoEpoch]

-----------------------------------------------------------------------------
\* SET lease node NX PX ttl succeeds; the INCR is still to come.
AcquireLease(n) ==
  /\ n \notin minting
  /\ lease = NoNode
  /\ epoch + Cardinality(minting) < MaxEpoch
  /\ lease' = n
  /\ minting' = minting \cup {n}
  /\ UNCHANGED <<epoch, held, admitted, rowEpoch>>

\* SET NX answers nil: acquire returns None and the node is no leader.
AcquireRefused(n) ==
  /\ n \notin minting
  /\ lease # NoNode
  /\ held' = [held EXCEPT ![n] = NoEpoch]
  /\ UNCHANGED <<lease, epoch, minting, admitted, rowEpoch>>

\* What INCR answers.  Faulty variant: a GET that falls back to 1 in place of
\* the INCR.
NextEpochRead == IF epoch = 0 THEN 1 ELSE epoch
NextEpoch == epoch + 1

\* INCR epoch, whoever holds the lease by now.
MintEpoch(n) ==
  /\ n \in minting
  /\ epoch' = NextEpoch
  /\ held' = [held EXCEPT ![n] = NextEpoch]
  /\ minting' = minting \ {n}
  /\ UNCHANGED <<lease, admitted, rowEpoch>>

\* The process dies between the two commands.
AcquireCrash(n) ==
  /\ n \in minting
  /\ minting' = minting \ {n}
  /\ held' = [held EXCEPT ![n] = NoEpoch]
  /\ UNCHANGED <<lease, epoch, admitted, rowEpoch>>

\* The PX ttl runs out; nothing ever deletes or renews the key.
LeaseExpires ==
  /\ lease # NoNode
  /\ lease' = NoNode
  /\ UNCHANGED <<epoch, minting, held, admitted, rowEpoch>>

\* Faulty variant: the check lets the previous leader through.
IsStaleLenient(ep) == ep + 1 < epoch
IsStale(ep) == ep < epoch

\* Dispatcher.dispatch up to its check: a lower epoch raises StaleEpochError
\* and changes nothing, any other goes on to the store.
DispatchCheck(n, e) ==
  /\ held[n] # NoEpoch
  /\ ~IsStale(held[n])
  /\ admitted' = admitted \cup {[exec |-> e, epoch |-> held[n]]}
  /\ UNCHANGED <<lease, epoch, minting, held, rowEpoch>>

\* stamp_epoch: an unconditional UPDATE of the row.
StampEpoch(d) ==
  /\ d \in admitted
  /\ admitted' = admitted \ {d}
  /\ rowEpoch' = [rowEpoch EXCEPT ![d.exec] = d.epoch]
  /\ UNCHANGED <<lease, epoch, minting, held>>

\* The process dies between the check and the UPDATE.
DispatchCrash(d) ==
  /\ d \in admitted
  /\ admitted' = admitted \ {d}
  /\ UNCHANGED <<lease, epoch, minting, held, rowEpoch>>

ElectionNext ==
  \/ LeaseExpires
  \/ \E n \in Nodes :
       \/ AcquireLease(n) \/ AcquireRefused(n) \/ MintEpoch(n) \/ AcquireCrash(n)
       \/ \E e \in Rows : DispatchCheck(n, e)
  \/ \E d \in admitted : StampEpoch(d) \/ DispatchCrash(d)

ElectionSpec == ElectionInit /\ [][ElectionNext]_electionVars

-----------------------------------------------------------------------------
\* No two nodes ever hold the same epoch, however the lease lapses between
\* SET and INCR: this is what lets an epoch stand for one leadership.
EpochsUnique ==
  \A m, n \in Nodes : held[m] = held[n] /\ held[m] # NoEpoch => m = n

\* A dispatch is admitted only at an epoch no other node has surpassed: a node
\* deposed before its request is checked never gets past the Dispatcher, and a
\* minted epoch exceeds every epoch in a node's hands or already on a row.
AdmittedIsHighest ==
  [][/\ \A d \in admitted' \ admitted : \A n \in Nodes : held[n] <= d.epoch
     /\ epoch' # epoch =>
          /\ \A n \in Nodes : held[n] < epoch'
          /\ \A e \in Rows : rowEpoch[e] < epoch']_electionVars

\* "A stale leader ... is rejected" (dispatcher.py): a row stamped by a newer
\* leader is never stamped again by an older one.  The check and the UPDATE
\* are not atomic, so the code does not keep it.
StampsNeverRegress ==
  [][\A e \in Rows : rowEpoch'[e] >= rowEpoch[e]]_electionVars
=============================================================================
