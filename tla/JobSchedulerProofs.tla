------------------------- MODULE JobSchedulerProofs -------------------------
(***************************************************************************)
(* Proofs about the two halves of the job scheduler, for any nodes,        *)
(* workers, rows and bounds.  LeaderFencing: epochs are unique, and the    *)
(* Dispatcher admits only the highest one.  ExecutionClaims: one owner per *)
(* execution and one accepted completion.                                  *)
(***************************************************************************)
EXTENDS LeaderFencing, ExecutionClaims, FiniteSetTheorems, TLAPS

-----------------------------------------------------------------------------
(* Election and dispatch *)

\* The nodes between SET and INCR are counted against the bound, so that an INCR
\* under way always finds room.
MintInv ==
  /\ IsFiniteSet(minting)
  /\ epoch + Cardinality(minting) <= MaxEpoch

\* The counter is ahead of every epoch that was ever handed out.
AheadInv ==
  /\ \A n \in Nodes : held[n] <= epoch
  /\ \A d \in admitted : d.epoch <= epoch
  /\ \A e \in Rows : rowEpoch[e] <= epoch

ElectionInv == ElectionTypeOK /\ MintInv /\ AheadInv /\ EpochsUnique

\* A node joins or leaves the minting ones: their number changes by one.
LEMMA Minting ==
  ASSUME IsFiniteSet(minting), NEW n
  PROVE  /\ Cardinality(minting) \in Nat
         /\ n \notin minting =>
              /\ IsFiniteSet(minting \cup {n})
              /\ Cardinality(minting \cup {n}) = Cardinality(minting) + 1
         /\ n \in minting =>
              /\ IsFiniteSet(minting \ {n})
              /\ Cardinality(minting \ {n}) = Cardinality(minting) - 1
              /\ Cardinality(minting) > 0
<1>1. Cardinality(minting) \in Nat
  BY FS_CardinalityType
<1>2. n \notin minting =>
        /\ IsFiniteSet(minting \cup {n})
        /\ Cardinality(minting \cup {n}) = Cardinality(minting) + 1
  BY FS_AddElement
<1>3. n \in minting =>
        /\ IsFiniteSet(minting \ {n})
        /\ Cardinality(minting \ {n}) = Cardinality(minting) - 1
  BY FS_RemoveElement
<1>4. n \in minting => Cardinality(minting) > 0
  BY <1>1, FS_EmptySet
<1> QED
  BY <1>1, <1>2, <1>3, <1>4

LEMMA ElectionInitInv == ElectionInit => ElectionInv
<1> SUFFICES ASSUME ElectionInit PROVE ElectionInv
  OBVIOUS
<1>1. IsFiniteSet({}) /\ Cardinality({}) = 0
  BY FS_EmptySet
<1> QED
  BY <1>1, FencingAssumption
     DEF ElectionInit, ElectionInv, ElectionTypeOK, MintInv, AheadInv, EpochsUnique,
         NoEpoch, Epochs

\* A winning INCR leaves everything valid: the epoch is new to everybody.
LEMMA MintStep == ASSUME ElectionInv, NEW n \in Nodes, MintEpoch(n) PROVE ElectionInv'
<1> USE FencingAssumption DEF Epochs, NoEpoch
<1>0. MaxEpoch \in Nat /\ ElectionTypeOK /\ MintInv /\ AheadInv /\ EpochsUnique
  BY DEF ElectionInv
<1>1. /\ n \in minting /\ epoch' = epoch + 1
      /\ held' = [held EXCEPT ![n] = epoch + 1] /\ minting' = minting \ {n}
      /\ UNCHANGED <<lease, admitted, rowEpoch>>
  BY DEF MintEpoch, NextEpoch
<1>2. epoch \in Nat /\ Cardinality(minting) \in Nat /\ Cardinality(minting) > 0
  <2>1. IsFiniteSet(minting)
    BY <1>0 DEF MintInv
  <2>2. epoch \in Nat
    BY <1>0 DEF ElectionTypeOK
  <2> QED
    BY <1>1, <2>1, <2>2, Minting
<1>3. MintInv'
  <2>1. IsFiniteSet(minting) /\ epoch + Cardinality(minting) <= MaxEpoch /\ MaxEpoch \in Nat
    BY <1>0 DEF MintInv
  <2>2. IsFiniteSet(minting') /\ Cardinality(minting') = Cardinality(minting) - 1
    BY <1>1, <2>1, Minting
  <2> QED
    BY <1>1, <1>2, <2>1, <2>2 DEF MintInv
<1>4. epoch + 1 \in Epochs
  BY <1>0, <1>2 DEF MintInv
<1>5. ElectionTypeOK'
  BY <1>0, <1>1, <1>4 DEF ElectionTypeOK
<1>6. AheadInv'
  <2>1. \A m \in Nodes : held[m] \in Nat /\ held[m] <= epoch
    BY <1>0 DEF ElectionTypeOK, AheadInv
  <2>2. \A m \in Nodes : held'[m] <= epoch'
    BY <1>0, <1>1, <1>2, <2>1 DEF ElectionTypeOK
  <2>3. \A d \in admitted : d.epoch \in Nat /\ d.epoch <= epoch
    BY <1>0 DEF ElectionTypeOK, AheadInv, Dispatches
  <2>4. \A e \in Rows : rowEpoch[e] \in Nat /\ rowEpoch[e] <= epoch
    <3>1. rowEpoch \in [Rows -> Epochs]
      BY <1>0 DEF ElectionTypeOK
    <3>2. \A e \in Rows : rowEpoch[e] <= epoch
      BY <1>0 DEF AheadInv
    <3>3. \A e \in Rows : rowEpoch[e] \in 0..MaxEpoch
      BY <3>1
    <3>4. MaxEpoch \in Nat /\ epoch \in Nat
      BY <1>0, <1>2
    <3>5. \A x \in 0..MaxEpoch : x \in Nat
      BY <3>4
    <3> QED
      BY <3>2, <3>3, <3>5
  <2>5. \A d \in admitted' : d.epoch <= epoch'
    BY <1>1, <1>2, <2>3
  <2>6. \A e \in Rows : rowEpoch'[e] <= epoch'
    BY <1>1, <1>2, <2>4
  <2> QED
    BY <2>2, <2>5, <2>6 DEF AheadInv
<1>7. EpochsUnique'
  BY <1>0, <1>1, <1>2 DEF ElectionTypeOK, AheadInv, EpochsUnique
<1> QED
  BY <1>0, <1>3, <1>5, <1>6, <1>7 DEF ElectionInv

LEMMA ElectionStepInv == ElectionInv /\ [ElectionNext]_electionVars => ElectionInv'
<1> SUFFICES ASSUME ElectionInv, [ElectionNext]_electionVars PROVE ElectionInv'
  OBVIOUS
<1> USE FencingAssumption DEF ElectionInv, Epochs, NoEpoch
<1>1. CASE LeaseExpires
  BY <1>1 DEF LeaseExpires, ElectionTypeOK, MintInv, AheadInv, EpochsUnique
<1>2. ASSUME NEW n \in Nodes, AcquireLease(n) PROVE ElectionInv'
  <2>1. MintInv'
    <3>1. IsFiniteSet(minting) /\ epoch + Cardinality(minting) < MaxEpoch /\ n \notin minting
      BY <1>2 DEF AcquireLease, MintInv
    <3>2. IsFiniteSet(minting') /\ Cardinality(minting') = Cardinality(minting) + 1 /\ epoch' = epoch
      BY <1>2, <3>1, Minting DEF AcquireLease
    <3>3. epoch \in Nat /\ Cardinality(minting) \in Nat
      <4>1. epoch \in Nat
        BY DEF ElectionTypeOK
      <4> QED
        BY <3>1, <4>1, Minting
    <3> QED
      BY <3>1, <3>2, <3>3 DEF MintInv
  <2> QED
    BY <1>2, <2>1 DEF AcquireLease, ElectionTypeOK, AheadInv, EpochsUnique
<1>3. ASSUME NEW n \in Nodes, AcquireRefused(n) PROVE ElectionInv'
  BY <1>3 DEF AcquireRefused, ElectionTypeOK, MintInv, AheadInv, EpochsUnique
<1>4. ASSUME NEW n \in Nodes, MintEpoch(n) PROVE ElectionInv'
  BY <1>4, MintStep
<1>5. ASSUME NEW n \in Nodes, AcquireCrash(n) PROVE ElectionInv'
  <2>1. MintInv'
    BY <1>5, Minting DEF AcquireCrash, ElectionTypeOK, MintInv
  <2> QED
    BY <1>5, <2>1 DEF AcquireCrash, ElectionTypeOK, AheadInv, EpochsUnique
<1>6. ASSUME NEW n \in Nodes, NEW e \in Rows, DispatchCheck(n, e) PROVE ElectionInv'
  BY <1>6 DEF DispatchCheck, ElectionTypeOK, MintInv, AheadInv, EpochsUnique, Dispatches
<1>7. ASSUME NEW d \in admitted, StampEpoch(d) PROVE ElectionInv'
  BY <1>7 DEF StampEpoch, ElectionTypeOK, MintInv, AheadInv, EpochsUnique, Dispatches
<1>8. ASSUME NEW d \in admitted, DispatchCrash(d) PROVE ElectionInv'
  BY <1>8 DEF DispatchCrash, ElectionTypeOK, MintInv, AheadInv, EpochsUnique
<1>9. CASE UNCHANGED electionVars
  BY <1>9 DEF electionVars, ElectionTypeOK, MintInv, AheadInv, EpochsUnique
<1> QED
  BY <1>1, <1>2, <1>3, <1>4, <1>5, <1>6, <1>7, <1>8, <1>9 DEF ElectionNext

\* Counter, epochs handed out and nodes between SET and INCR agree after every step.
THEOREM ElectionInvariance == ElectionSpec => []ElectionInv
<1>1. ElectionInit => ElectionInv
  BY ElectionInitInv
<1> QED
  BY <1>1, ElectionStepInv, PTL DEF ElectionSpec

\* The types of the lease, the epochs and the dispatches under way hold for any
\* nodes and rows, and no INCR takes the counter past its bound.
THEOREM ElectionTypes == ElectionSpec => []ElectionTypeOK
<1>1. ElectionInv => ElectionTypeOK
  BY DEF ElectionInv
<1>2. ElectionSpec => []ElectionInv
  BY ElectionInvariance
<1> QED
  BY <1>1, <1>2, PTL

\* No two nodes ever hold one epoch, wherever the lease lapses (LeaderLease).
THEOREM OneLeaderPerEpoch == ElectionSpec => []EpochsUnique
<1>1. ElectionInv => EpochsUnique
  BY DEF ElectionInv
<1>2. ElectionSpec => []ElectionInv
  BY ElectionInvariance
<1> QED
  BY <1>1, <1>2, PTL

\* What a single step admits and mints.
LEMMA AdmissionStep ==
  ElectionInv /\ [ElectionNext]_electionVars =>
    /\ \A d \in admitted' \ admitted : \A n \in Nodes : held[n] <= d.epoch
    /\ epoch' # epoch =>
         /\ \A n \in Nodes : held[n] < epoch'
         /\ \A e \in Rows : rowEpoch[e] < epoch'
<1> SUFFICES ASSUME ElectionInv, [ElectionNext]_electionVars
             PROVE  /\ \A d \in admitted' \ admitted : \A n \in Nodes : held[n] <= d.epoch
                    /\ epoch' # epoch =>
                         /\ \A n \in Nodes : held[n] < epoch'
                         /\ \A e \in Rows : rowEpoch[e] < epoch'
  OBVIOUS
<1> USE FencingAssumption DEF ElectionInv, Epochs
<1>1. ASSUME NEW n \in Nodes, NEW e \in Rows, DispatchCheck(n, e)
      PROVE  /\ epoch' = epoch
             /\ \A d \in admitted' \ admitted : \A m \in Nodes : held[m] <= d.epoch
  <2>1. held[n] = epoch
    BY <1>1 DEF DispatchCheck, IsStale, ElectionTypeOK, AheadInv
  <2> QED
    BY <1>1, <2>1 DEF DispatchCheck, AheadInv
<1>2. ASSUME NEW n \in Nodes, MintEpoch(n)
      PROVE  /\ admitted' = admitted
             /\ \A m \in Nodes : held[m] < epoch'
             /\ \A e \in Rows : rowEpoch[e] < epoch'
  BY <1>2 DEF MintEpoch, NextEpoch, ElectionTypeOK, AheadInv
<1>3. \/ \E n \in Nodes, e \in Rows : DispatchCheck(n, e)
      \/ \E n \in Nodes : MintEpoch(n)
      \/ epoch' = epoch /\ admitted' \subseteq admitted
  BY DEF ElectionNext, electionVars, LeaseExpires, AcquireLease, AcquireRefused,
         AcquireCrash, StampEpoch, DispatchCrash
<1> QED
  BY <1>1, <1>2, <1>3

\* A dispatch is admitted at the highest epoch in anybody's hands, and a new epoch exceeds
\* all before it, whatever leases lapse and processes die (Dispatcher.dispatch).
THEOREM FencingHolds == ElectionSpec => AdmittedIsHighest
<1>1. ElectionInv /\ [ElectionNext]_electionVars =>
        [/\ \A d \in admitted' \ admitted : \A n \in Nodes : held[n] <= d.epoch
         /\ epoch' # epoch =>
              /\ \A n \in Nodes : held[n] < epoch'
              /\ \A e \in Rows : rowEpoch[e] < epoch']_electionVars
  BY AdmissionStep
<1>2. ElectionSpec => []ElectionInv
  BY ElectionInvariance
<1> QED
  BY <1>1, <1>2, PTL DEF ElectionSpec, AdmittedIsHighest

-----------------------------------------------------------------------------
(* Claims *)

USE DEF Times, NoSweep

IInv == TypeOK /\ ClaimsInv

\* A request is one of the three operations, or none.
LEMMA RequestFields ==
  ASSUME TypeOK, NEW w \in Workers, req[w] # NoRequest
  PROVE  /\ req[w].exec \in Executions
         /\ req[w].at \in Nat /\ req[w].at <= MaxNow
  BY ClaimsAssumption DEF TypeOK, Requests

\* The operation of no request is none of the three.
LEMMA ServedIsRequest ==
  ASSUME NEW w \in Workers, req[w].op \in {"claim", "heartbeat", "complete"}
  PROVE  req[w] # NoRequest
  BY DEF NoRequest

\* Every step keeps the types.
LEMMA TypeStep == TypeOK /\ [Next]_vars => TypeOK'
<1> SUFFICES ASSUME TypeOK, [Next]_vars PROVE TypeOK'
  OBVIOUS
<1> USE ClaimsAssumption
<1>1. CASE Tick
  BY <1>1 DEF Tick, TypeOK, row
<1>2. ASSUME NEW e \in Executions, NEW d \in 0..MaxDue, Register(e, d) PROVE TypeOK'
  BY <1>2 DEF Register, TypeOK
<1>3. ASSUME NEW w \in Workers, NEW e \in Executions,
             NEW op \in {"claim", "heartbeat", "complete"}, Request(w, op, e)
      PROVE TypeOK'
  BY <1>3 DEF Request, Requests, TypeOK, row
<1>4. ASSUME NEW w \in Workers, RequestLost(w) PROVE TypeOK'
  BY <1>4 DEF RequestLost, TypeOK, row
<1>5. ASSUME NEW w \in Workers, WorkerCrash(w) PROVE TypeOK'
  BY <1>5 DEF WorkerCrash, TypeOK, row
<1>6. ASSUME NEW w \in Workers, Claim(w) PROVE TypeOK'
  <2>1. req[w] # NoRequest
    BY <1>6, ServedIsRequest DEF Claim
  <2>2. req[w].exec \in Executions /\ req[w].at \in Nat /\ req[w].at <= MaxNow
    BY <2>1, RequestFields
  <2>3. /\ UNCHANGED <<now, due, sweep, alive, completions>>
        /\ req' \in [Workers -> Requests \cup {NoRequest}]
    BY <1>6 DEF Claim, TypeOK
  <2>4. CASE ~Claimable(req[w].exec, req[w].at)
    BY <1>6, <2>3, <2>4 DEF Claim, TypeOK
  <2>5. CASE Claimable(req[w].exec, req[w].at)
    <3> DEFINE e == req[w].exec
               d == req[w].at + Visibility
    <3>1. e \in Executions /\ d \in 0..(MaxNow + Visibility)
      BY <2>2
    <3>2. /\ status' = [status EXCEPT ![e] = "running"]
          /\ worker' = [worker EXCEPT ![e] = w]
          /\ deadline' = [deadline EXCEPT ![e] = d]
          /\ granted' = [granted EXCEPT ![w] = [granted[w] EXCEPT ![e] = d]]
      BY <1>6, <2>5 DEF Claim
    <3> HIDE DEF e, d
    <3>3. granted' \in [Workers -> [Executions -> 0..(MaxNow + Visibility)]]
      BY <3>1, <3>2 DEF TypeOK
    <3> QED
      BY <2>3, <3>1, <3>2, <3>3 DEF TypeOK
  <2> QED
    BY <2>4, <2>5
<1>7. ASSUME NEW w \in Workers, Beat(w) PROVE TypeOK'
  <2>1. req[w] # NoRequest
    BY <1>7, ServedIsRequest DEF Beat
  <2>2. req[w].exec \in Executions /\ req[w].at \in Nat /\ req[w].at <= MaxNow
    BY <2>1, RequestFields
  <2>3. /\ UNCHANGED <<now, due, status, worker, sweep, alive, completions>>
        /\ req' \in [Workers -> Requests \cup {NoRequest}]
    BY <1>7 DEF Beat, TypeOK
  <2>4. CASE ~Owns(req[w].exec, w)
    BY <1>7, <2>3, <2>4 DEF Beat, TypeOK
  <2>5. CASE Owns(req[w].exec, w)
    <3> DEFINE e == req[w].exec
               d == req[w].at + Visibility
    <3>1. e \in Executions /\ d \in 0..(MaxNow + Visibility)
      BY <2>2
    <3>2. /\ deadline' = [deadline EXCEPT ![e] = d]
          /\ granted' = [granted EXCEPT ![w] = [granted[w] EXCEPT ![e] = d]]
      BY <1>7, <2>5 DEF Beat
    <3> HIDE DEF e, d
    <3>3. granted' \in [Workers -> [Executions -> 0..(MaxNow + Visibility)]]
      BY <3>1, <3>2 DEF TypeOK
    <3> QED
      BY <2>3, <3>1, <3>2, <3>3 DEF TypeOK
  <2> QED
    BY <2>4, <2>5
<1>8. ASSUME NEW w \in Workers, Complete(w) PROVE TypeOK'
  <2>1. req[w] # NoRequest
    BY <1>8, ServedIsRequest DEF Complete
  <2>2. req[w].exec \in Executions
    BY <2>1, RequestFields
  <2>3. /\ UNCHANGED <<now, due, worker, deadline, sweep, alive, granted>>
        /\ req' \in [Workers -> Requests \cup {NoRequest}]
    BY <1>8 DEF Complete, TypeOK
  <2>4. CASE ~Owns(req[w].exec, w)
    BY <1>8, <2>3, <2>4 DEF Complete, TypeOK
  <2>5. CASE Owns(req[w].exec, w)
    <3> DEFINE e == req[w].exec
    <3>1. /\ status' = [status EXCEPT ![e] = "completed"]
          /\ completions' = [completions EXCEPT ![e] = completions[e] + 1]
          /\ e \in Executions /\ status[e] = "running"
      BY <1>8, <2>2, <2>5 DEF Complete, Owns
    <3> HIDE DEF e
    <3> QED
      BY <2>3, <3>1 DEF TypeOK
  <2> QED
    BY <2>4, <2>5
<1>9. CASE ReclaimStart
  BY <1>9 DEF ReclaimStart, TypeOK, row
<1>10. CASE ReclaimExpired
  BY <1>10 DEF ReclaimExpired, Lapsed, ReclaimedWorker, TypeOK
<1>11. CASE UNCHANGED vars
  BY <1>11 DEF vars, row, TypeOK
<1> QED
  BY <1>1, <1>2, <1>3, <1>4, <1>5, <1>6, <1>7, <1>8, <1>9, <1>10, <1>11
     DEF Next, Serve, Reclaim

\* Captured clocks stay behind the clock.
LEMMA ClockStep == TypeOK /\ ClockInv /\ [Next]_vars => ClockInv'
<1> SUFFICES ASSUME TypeOK, ClockInv, [Next]_vars PROVE ClockInv'
  OBVIOUS
<1> USE ClaimsAssumption DEF ClockInv
<1>1. CASE Tick
  BY <1>1, RequestFields DEF Tick, TypeOK, row
<1>2. ASSUME NEW e \in Executions, NEW d \in 0..MaxDue, Register(e, d) PROVE ClockInv'
  BY <1>2 DEF Register, TypeOK
<1>3. ASSUME NEW w \in Workers, NEW e \in Executions,
             NEW op \in {"claim", "heartbeat", "complete"}, Request(w, op, e)
      PROVE ClockInv'
  BY <1>3 DEF Request, TypeOK, row
<1>4. ASSUME NEW w \in Workers, RequestLost(w) \/ Claim(w) \/ Beat(w) \/ Complete(w)
      PROVE ClockInv'
  BY <1>4 DEF RequestLost, Claim, Beat, Complete, TypeOK
<1>5. ASSUME NEW w \in Workers, WorkerCrash(w) PROVE ClockInv'
  BY <1>5 DEF WorkerCrash, TypeOK
<1>6. CASE ReclaimStart \/ ReclaimExpired
  BY <1>6 DEF ReclaimStart, ReclaimExpired, TypeOK
<1>7. CASE UNCHANGED vars
  BY <1>7 DEF vars, TypeOK
<1> QED
  BY <1>1, <1>2, <1>3, <1>4, <1>5, <1>6, <1>7 DEF Next, Serve, Reclaim

\* Every step keeps the owner of every row alone in its grant.
LEMMA RowStep ==
  ASSUME TypeOK, TypeOK', ClaimsInv, [Next]_vars, NEW e \in Executions
  PROVE  RowInv(e)'
<1> USE ClaimsAssumption
<1>0. RowInv(e) /\ ClockInv
  BY DEF ClaimsInv
<1>1. CASE Tick
  BY <1>0, <1>1 DEF Tick, TypeOK, row, RowInv
<1>2. ASSUME NEW f \in Executions, NEW d \in 0..MaxDue, Register(f, d) PROVE RowInv(e)'
  BY <1>0, <1>2 DEF Register, TypeOK, RowInv
<1>3. ASSUME NEW w \in Workers, NEW f \in Executions,
             NEW op \in {"claim", "heartbeat", "complete"}, Request(w, op, f)
      PROVE RowInv(e)'
  BY <1>0, <1>3 DEF Request, TypeOK, row, RowInv
<1>4. ASSUME NEW w \in Workers, RequestLost(w) \/ WorkerCrash(w) PROVE RowInv(e)'
  BY <1>0, <1>4 DEF RequestLost, WorkerCrash, TypeOK, row, RowInv
<1>5. ASSUME NEW w \in Workers, Claim(w) PROVE RowInv(e)'
  <2>1. req[w] # NoRequest
    BY <1>5, ServedIsRequest DEF Claim
  <2>2. req[w].exec \in Executions /\ req[w].at \in Nat /\ req[w].at <= MaxNow
    BY <2>1, RequestFields
  <2>3. CASE Claimable(req[w].exec, req[w].at) /\ e = req[w].exec
    <3>1. /\ status[e] = "pending" /\ status'[e] = "running" /\ worker'[e] = w
          /\ deadline'[e] = req[w].at + Visibility
      BY <1>5, <2>3 DEF Claim, Claimable, TypeOK
    <3>2. granted' = [granted EXCEPT ![w] = [granted[w] EXCEPT ![e] = req[w].at + Visibility]]
      BY <1>5, <2>3 DEF Claim
    <3>3. /\ granted'[w][e] = req[w].at + Visibility
          /\ \A v \in Workers \ {w} : granted'[v][e] = granted[v][e]
      BY <3>2 DEF TypeOK
    <3>4. UNCHANGED <<now, completions>>
      BY <1>5 DEF Claim
    <3> QED
      BY <1>0, <3>1, <3>3, <3>4 DEF RowInv
  <2>4. CASE ~Claimable(req[w].exec, req[w].at)
    <3>1. UNCHANGED <<now, status, worker, deadline, granted, completions>>
      BY <1>5, <2>4 DEF Claim
    <3> QED
      BY <1>0, <3>1 DEF RowInv
  <2>5. CASE Claimable(req[w].exec, req[w].at) /\ e # req[w].exec
    <3> DEFINE f == req[w].exec
               d == req[w].at + Visibility
    <3>1. /\ status' = [status EXCEPT ![f] = "running"]
          /\ worker' = [worker EXCEPT ![f] = w]
          /\ deadline' = [deadline EXCEPT ![f] = d]
          /\ granted' = [granted EXCEPT ![w] = [granted[w] EXCEPT ![f] = d]]
          /\ UNCHANGED <<now, completions>>
          /\ f \in Executions /\ e # f
      BY <1>5, <2>2, <2>5 DEF Claim
    <3> HIDE DEF f, d
    <3>2. /\ status'[e] = status[e] /\ worker'[e] = worker[e] /\ deadline'[e] = deadline[e]
          /\ \A v \in Workers : granted'[v][e] = granted[v][e]
      BY <3>1 DEF TypeOK
    <3> QED
      BY <1>0, <3>1, <3>2 DEF RowInv
  <2> QED
    BY <2>3, <2>4, <2>5
<1>6. ASSUME NEW w \in Workers, Beat(w) PROVE RowInv(e)'
  <2>1. req[w] # NoRequest
    BY <1>6, ServedIsRequest DEF Beat
  <2>2. req[w].exec \in Executions /\ req[w].at \in Nat /\ req[w].at <= MaxNow
    BY <2>1, RequestFields
  <2>3. CASE Owns(req[w].exec, w) /\ e = req[w].exec
    <3>1. /\ status[e] = "running" /\ worker[e] = w
          /\ deadline'[e] = req[w].at + Visibility
          /\ UNCHANGED <<now, status, worker, completions>>
      BY <1>6, <2>3 DEF Beat, Owns, TypeOK
    <3>2. granted' = [granted EXCEPT ![w] = [granted[w] EXCEPT ![e] = req[w].at + Visibility]]
      BY <1>6, <2>3 DEF Beat
    <3>3. /\ granted'[w][e] = req[w].at + Visibility
          /\ \A v \in Workers \ {w} : granted'[v][e] = granted[v][e]
      BY <3>2 DEF TypeOK
    <3> QED
      BY <1>0, <3>1, <3>3 DEF RowInv
  <2>4. CASE ~Owns(req[w].exec, w)
    <3>1. UNCHANGED <<now, status, worker, deadline, granted, completions>>
      BY <1>6, <2>4 DEF Beat
    <3> QED
      BY <1>0, <3>1 DEF RowInv
  <2>5. CASE Owns(req[w].exec, w) /\ e # req[w].exec
    <3> DEFINE f == req[w].exec
               d == req[w].at + Visibility
    <3>1. /\ deadline' = [deadline EXCEPT ![f] = d]
          /\ granted' = [granted EXCEPT ![w] = [granted[w] EXCEPT ![f] = d]]
          /\ UNCHANGED <<now, status, worker, completions>>
          /\ f \in Executions /\ e # f
      BY <1>6, <2>2, <2>5 DEF Beat
    <3> HIDE DEF f, d
    <3>2. /\ deadline'[e] = deadline[e]
          /\ \A v \in Workers : granted'[v][e] = granted[v][e]
      BY <3>1 DEF TypeOK
    <3> QED
      BY <1>0, <3>1, <3>2 DEF RowInv
  <2> QED
    BY <2>3, <2>4, <2>5
<1>7. ASSUME NEW w \in Workers, Complete(w) PROVE RowInv(e)'
  <2>1. req[w] # NoRequest
    BY <1>7, ServedIsRequest DEF Complete
  <2>2. req[w].exec \in Executions
    BY <2>1, RequestFields
  <2> QED
    BY <1>0, <1>7, <2>2 DEF Complete, Owns, TypeOK, RowInv
<1>8. CASE ReclaimStart
  BY <1>0, <1>8 DEF ReclaimStart, TypeOK, row, RowInv
<1>9. CASE ReclaimExpired
  <2>1. CASE Lapsed(e, sweep)
    <3>1. worker[e] \in Workers /\ granted[worker[e]][e] = deadline[e] /\ deadline[e] < now
      BY <1>0, <2>1 DEF Lapsed, RowInv, ClockInv, TypeOK
    <3>2. \A v \in Workers : granted[v][e] < now
      BY <1>0, <2>1, <3>1 DEF Lapsed, RowInv
    <3> QED
      BY <1>0, <1>9, <2>1, <3>2 DEF ReclaimExpired, Lapsed, TypeOK, RowInv
  <2>2. CASE ~Lapsed(e, sweep)
    BY <1>0, <1>9, <2>2 DEF ReclaimExpired, TypeOK, RowInv
  <2> QED
    BY <2>1, <2>2
<1>10. CASE UNCHANGED vars
  BY <1>0, <1>10 DEF vars, row, TypeOK, RowInv
<1> QED
  BY <1>1, <1>2, <1>3, <1>4, <1>5, <1>6, <1>7, <1>8, <1>9, <1>10
     DEF Next, Serve, Reclaim

\* The inductive invariant holds at the start and is kept by every step.
THEOREM Invariance == Spec => []IInv
<1>1. Init => IInv
  BY ClaimsAssumption DEF Init, IInv, TypeOK, ClaimsInv, ClockInv, RowInv
<1>2. IInv /\ [Next]_vars => IInv'
  BY TypeStep, ClockStep, RowStep DEF IInv, ClaimsInv
<1> QED
  BY <1>1, <1>2, PTL DEF Spec

\* The table, the requests and the clocks keep their types.
THEOREM TypeCorrect == Spec => []TypeOK
  BY Invariance, PTL DEF IInv

\* At no time do two workers both hold an unexpired grant on one execution.
THEOREM OneOwner == Spec => []ExclusiveOwner
<1>1. IInv => ExclusiveOwner
  <2> SUFFICES ASSUME IInv, NEW e \in Executions, NEW v \in Workers, NEW w \in Workers,
                      granted[v][e] >= now, granted[w][e] >= now
               PROVE  v = w
    BY DEF ExclusiveOwner
  <2>1. RowInv(e) /\ TypeOK
    BY DEF IInv, ClaimsInv
  <2>2. ~(granted[v][e] < now) /\ ~(granted[w][e] < now)
    BY <2>1 DEF TypeOK
  <2>3. status[e] \in {"running", "completed"}
    BY <2>1, <2>2 DEF RowInv, TypeOK
  <2> QED
    BY <2>1, <2>2, <2>3 DEF RowInv
<1> QED
  BY <1>1, Invariance, PTL

\* At most one completion of an execution is accepted.
THEOREM OneCompletion == Spec => []CompletedOnce
<1>1. IInv => CompletedOnce
  <2> SUFFICES ASSUME IInv, NEW e \in Executions PROVE completions[e] <= 1
    BY DEF CompletedOnce
  <2>1. completions[e] = IF status[e] = "completed" THEN 1 ELSE 0
    BY DEF IInv, ClaimsInv, RowInv
  <2> QED
    BY <2>1
<1> QED
  BY <1>1, Invariance, PTL

\* No step takes an execution out of COMPLETED.
THEOREM CompletedStays == Spec => CompletedIsFinal
<1>1. IInv /\ [Next]_vars =>
        [\A e \in Executions : status[e] = "completed" => status'[e] = "completed"]_vars
  <2> SUFFICES ASSUME IInv, Next, NEW e \in Executions, status[e] = "completed"
               PROVE  status'[e] = "completed"
    OBVIOUS
  <2> USE DEF IInv, TypeOK
  <2>1. ASSUME NEW w \in Workers, Serve(w) PROVE status'[e] = "completed"
    BY <2>1 DEF Serve, Claim, Claimable, Beat, Complete
  <2>2. CASE Reclaim
    BY <2>2 DEF Reclaim, ReclaimStart, ReclaimExpired, Lapsed, row
  <2> QED
    BY <2>1, <2>2 DEF Next, Tick, Register, Request, RequestLost, WorkerCrash, row
<1> QED
  BY <1>1, Invariance, PTL DEF Spec, CompletedIsFinal
=============================================================================
