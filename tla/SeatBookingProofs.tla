-------------------------- MODULE SeatBookingProofs --------------------------
(***************************************************************************)
(* While every confirm locks its row and nobody calls /reset, SeatBooking  *)
(* sells a seat once and charges nobody for a sold one, whatever the       *)
(* number of handlers, seats, holders and crashes, and so it implements    *)
(* SeatSale.  With resets and unsafe confirms included, every order was    *)
(* paid for under its own key, a key is captured once more than there were *)
(* crashes at most, and no release takes a hold that is somebody else's.   *)
(***************************************************************************)
EXTENDS SeatBooking, SequenceTheorems, TLAPS

IInv == TypeOK /\ LockInv /\ resetPc = "idle"

\* The service as its users see it: no unsafe confirm, no /reset.
Deployed == UnsafeRequests = {} /\ MaxResets = 0

\* Each step keeps the types.
LEMMA TypeStep == TypeOK /\ [Next]_vars => TypeOK'
<1> SUFFICES ASSUME TypeOK, [Next]_vars PROVE TypeOK'
  OBVIOUS
<1> USE BookingAssumption DEF InTx, Goto, Unlock
<1>1. ASSUME NEW s \in Seats, HoldExpires(s) PROVE TypeOK'
  BY <1>1 DEF HoldExpires, TypeOK, table, calls, request, payment, admin
<1>2. ASSUME NEW s \in Seats, NEW h \in Holders, AcquireHold(s, h) PROVE TypeOK'
  BY <1>2 DEF AcquireHold, TypeOK, table, calls, request, payment, admin
<1>3. ASSUME NEW r \in Requests, NEW h \in Holders, NEW s \in Seats, NEW k \in Keys, Begin(r, h, s, k)
      PROVE TypeOK'
  BY <1>3 DEF Begin, TypeOK, table, request, payment, admin
<1>4. ASSUME NEW r \in Requests, LockSeat(r) PROVE TypeOK'
  <2>1. CASE SeatOpen(r)
    <3>1. Locked(r) \in [Seats -> Requests \cup {NoRequest}]
      BY DEF Locked, TypeOK
    <3>2. rowLock' \in [Seats -> Requests \cup {NoRequest}]
      BY <1>4, <2>1, <3>1 DEF LockSeat
    <3> QED
      BY <1>4, <2>1, <3>2 DEF LockSeat, TypeOK, table, request, payment, admin
  <2>2. CASE ~SeatOpen(r)
    BY <1>4, <2>2 DEF LockSeat, TypeOK, table, request, payment, admin
  <2> QED
    BY <2>1, <2>2
<1>5. ASSUME NEW r \in Requests, Capture(r) PROVE TypeOK'
  <2>1. key[r] \in Keys
    BY DEF TypeOK
  <2>2. captured' \subseteq Keys /\ charges' \in [Keys -> Nat]
    <3>1. CASE key[r] \in captured
      BY <1>5, <3>1 DEF Capture, TypeOK, payment
    <3>2. CASE key[r] \notin captured
      <4>1. charges' = [charges EXCEPT ![key[r]] = charges[key[r]] + 1]
        BY <1>5, <3>2 DEF Capture
      <4>2. captured' = captured \cup {key[r]}
        BY <1>5, <3>2 DEF Capture, Remember
      <4> QED
        BY <2>1, <4>1, <4>2 DEF TypeOK
    <3> QED
      BY <3>1, <3>2
  <2> QED
    BY <1>5, <2>2 DEF Capture, TypeOK, table, request, admin
<1>6. ASSUME NEW r \in Requests, MarkSold(r) \/ RecordOrder(r) PROVE TypeOK'
  <2>1. CASE MarkSold(r)
    BY <2>1 DEF MarkSold, TypeOK, table, request, payment, admin
  <2>2. CASE RecordOrder(r)
    BY <2>2 DEF RecordOrder, TypeOK, table, request, payment, admin
  <2> QED
    BY <1>6, <2>1, <2>2
<1>7. ASSUME NEW r \in Requests, Commit(r) PROVE TypeOK'
  <2>1. Append(orders[seat[r]], holder[r]) \in Seq(Holders)
    BY DEF TypeOK
  <2>2. orders' \in [Seats -> Seq(Holders)]
    BY <1>7, <2>1 DEF Commit, OrdersOf, TypeOK
  <2>3. Append(paidWith[seat[r]], key[r]) \in Seq(Keys)
    BY DEF TypeOK
  <2>4. paidWith' \in [Seats -> Seq(Keys)]
    BY <1>7, <2>3 DEF Commit, TypeOK
  <2> QED
    BY <1>7, <2>2, <2>4 DEF Commit, TypeOK, request, payment, admin
<1>8. ASSUME NEW r \in Requests, ReleaseHold(r) PROVE TypeOK'
  BY <1>8 DEF ReleaseHold, AfterRelease, TypeOK, table, request, payment, admin
<1>9. ASSUME NEW r \in Requests, Fail(r) PROVE TypeOK'
  BY <1>9 DEF Fail, TypeOK, table, request, payment, admin
<1>10. CASE Crash
  BY <1>10 DEF Crash, TypeOK, table, request
<1>11. CASE Reset
  <2>1. CASE ResetOrders
    <3>1. << >> \in Seq(Holders) /\ << >> \in Seq(Keys)
      OBVIOUS
    <3> QED
      BY <2>1, <3>1 DEF ResetOrders, TypeOK, calls, request, payment
  <2>2. CASE ResetSeats
    BY <2>2 DEF ResetSeats, TypeOK, calls, request, payment
  <2>3. CASE ScanHolds
    BY <2>3 DEF ScanHolds, TypeOK, table, calls, request, payment
  <2>4. CASE DeleteHolds
    BY <2>4 DEF DeleteHolds, TypeOK, table, calls, request, payment
  <2> QED
    BY <1>11, <2>1, <2>2, <2>3, <2>4 DEF Reset
<1>12. CASE UNCHANGED vars
  BY <1>12 DEF vars, TypeOK, table, calls, request, payment, admin
<1> QED
  BY <1>1, <1>2, <1>3, <1>4, <1>5, <1>6, <1>7, <1>8, <1>9, <1>10, <1>11, <1>12
     DEF Next, Advance

\* Each step of the deployed service keeps the lock discipline.
LEMMA LockStep ==
  ASSUME Deployed, IInv, TypeOK', [Next]_vars
  PROVE  LockInv' /\ resetPc' = "idle"
<1> USE BookingAssumption DEF InTx, Goto, Unlock, Deployed, LockInv
<1>0. TypeOK /\ LockInv /\ resetPc = "idle" /\ resets = 0
  BY DEF IInv, TypeOK
<1>1. ASSUME NEW s \in Seats, HoldExpires(s) \/ \E h \in Holders : AcquireHold(s, h)
      PROVE LockInv' /\ resetPc' = "idle"
  BY <1>0, <1>1 DEF HoldExpires, AcquireHold, TypeOK, table, calls, request, payment, admin
<1>2. ASSUME NEW r \in Requests, NEW h \in Holders, NEW s \in Seats, NEW k \in Keys, Begin(r, h, s, k)
      PROVE LockInv' /\ resetPc' = "idle"
  BY <1>0, <1>2 DEF Begin, TypeOK, table, request, payment, admin
<1>3. ASSUME NEW r \in Requests, LockSeat(r) PROVE LockInv' /\ resetPc' = "idle"
  <2>1. CASE SeatOpen(r)
    <3>1. rowLock[seat[r]] = NoRequest /\ rowLock' = [rowLock EXCEPT ![seat[r]] = r]
      BY <1>3, <2>1 DEF LockSeat, RowFree, Locked, ForUpdate
    <3> QED
      BY <1>0, <1>3, <2>1, <3>1 DEF LockSeat, SeatOpen, TypeOK, table, request, payment, admin
  <2>2. CASE ~SeatOpen(r)
    <3>1. /\ pc[r] = "begin" /\ pc' = [pc EXCEPT ![r] = "idle"]
          /\ UNCHANGED <<rowLock, seat, status, orders, resetPc>>
      BY <1>3, <2>2 DEF LockSeat, table, request, admin
    <3>2. ASSUME NEW s \in Seats, rowLock[s] = r PROVE FALSE
      BY <1>0, <3>1, <3>2
    <3>3. \A q \in Requests : pc'[q] = IF q = r THEN "idle" ELSE pc[q]
      BY <1>0, <3>1 DEF TypeOK
    <3>4. \A s \in Seats : rowLock[s] # NoRequest => rowLock[s] \in Requests \ {r}
      BY <1>0, <3>2 DEF TypeOK
    <3>5. \A s \in Seats : rowLock[s] # NoRequest => pc'[rowLock[s]] = pc[rowLock[s]]
      BY <3>3, <3>4
    <3>6. \A q \in Requests : pc'[q] \in InTx => pc[q] \in InTx
      BY <3>3
    <3> QED
      BY <1>0, <3>1, <3>5, <3>6
  <2> QED
    BY <2>1, <2>2
<1>4. ASSUME NEW r \in Requests, Capture(r) PROVE LockInv' /\ resetPc' = "idle"
  BY <1>0, <1>4 DEF Capture, TypeOK, table, request, admin
<1>5. ASSUME NEW r \in Requests, MarkSold(r) \/ RecordOrder(r)
      PROVE LockInv' /\ resetPc' = "idle"
  <2>1. CASE MarkSold(r)
    <3>1. UNCHANGED rowLock
      BY <1>0, <2>1 DEF MarkSold, TypeOK
    <3> QED
      BY <1>0, <2>1, <3>1 DEF MarkSold, TypeOK, table, request, payment, admin
  <2>2. CASE RecordOrder(r)
    BY <1>0, <2>2 DEF RecordOrder, TypeOK, table, request, payment, admin
  <2> QED
    BY <1>5, <2>1, <2>2
<1>6. ASSUME NEW r \in Requests, Commit(r) PROVE LockInv' /\ resetPc' = "idle"
  <2>1. /\ rowLock[seat[r]] = r /\ status[seat[r]] = "available" /\ orders[seat[r]] = << >>
        /\ \A s \in Seats : rowLock[s] = r => s = seat[r]
    BY <1>0, <1>6, EmptySeq DEF Commit, TypeOK
  <2>2. Len(Append(orders[seat[r]], holder[r])) = 1
    BY <2>1
  <2>3. ASSUME NEW s \in Seats
        PROVE  Len(orders'[s]) = IF status'[s] = "sold" THEN 1 ELSE 0
    <3>1. CASE s = seat[r]
      <4>1. orders'[s] = Append(orders[s], holder[r]) /\ status'[s] = "sold"
        BY <1>6, <3>1 DEF Commit, OrdersOf, TypeOK, IInv
      <4> QED
        BY <2>2, <3>1, <4>1
    <3>2. CASE s # seat[r]
      <4>1. orders'[s] = orders[s] /\ status'[s] = status[s]
        BY <1>6, <3>2 DEF Commit, OrdersOf, TypeOK, IInv
      <4> QED
        BY <1>0, <4>1
    <3> QED
      BY <3>1, <3>2
  <2>4. \A s \in Seats : rowLock'[s] # NoRequest =>
          seat'[rowLock'[s]] = s /\ pc'[rowLock'[s]] \in InTx
    BY <1>0, <1>6, <2>1 DEF Commit, TypeOK, request
  <2>5. \A q \in Requests : pc'[q] \in InTx =>
          rowLock'[seat'[q]] = q /\ status'[seat'[q]] = "available"
    BY <1>0, <1>6, <2>1 DEF Commit, TypeOK, request
  <2> QED
    BY <1>0, <1>6, <2>3, <2>4, <2>5 DEF Commit, admin
<1>7. ASSUME NEW r \in Requests, ReleaseHold(r) PROVE LockInv' /\ resetPc' = "idle"
  BY <1>0, <1>7 DEF ReleaseHold, TypeOK, table, request, payment, admin
<1>8. ASSUME NEW r \in Requests, Fail(r) PROVE LockInv' /\ resetPc' = "idle"
  BY <1>0, <1>8 DEF Fail, TypeOK, table, request, payment, admin
<1>9. CASE Crash
  BY <1>0, <1>9 DEF Crash, TypeOK, table, request
<1>10. CASE Reset
  BY <1>0, <1>10 DEF Reset, ResetOrders, ResetSeats, ScanHolds, DeleteHolds
<1>11. CASE UNCHANGED vars
  BY <1>0, <1>11 DEF vars, table, calls, request, payment, admin
<1> QED
  BY <1>1, <1>2, <1>3, <1>4, <1>5, <1>6, <1>7, <1>8, <1>9, <1>10, <1>11 DEF Next, Advance

\* The service's state keeps its types, unsafe confirms and /reset included.
THEOREM TypeCorrect == Spec => []TypeOK
<1>1. Init => TypeOK
  BY BookingAssumption DEF Init, TypeOK, InTx
<1> QED
  BY <1>1, TypeStep, PTL DEF Spec

\* The inductive invariant of the deployed service.
THEOREM Invariance == ASSUME Deployed PROVE Spec => []IInv
<1>1. Init => IInv
  BY BookingAssumption DEF Init, IInv, TypeOK, LockInv, InTx
<1>2. IInv /\ [Next]_vars => IInv'
  BY TypeStep, LockStep DEF IInv
<1> QED
  BY <1>1, <1>2, PTL DEF Spec

\* No seat has two orders.
THEOREM NeverSoldTwice == ASSUME Deployed PROVE Spec => []OneOrderPerSeat
<1>1. IInv => OneOrderPerSeat
  <2> SUFFICES ASSUME IInv, NEW s \in Seats PROVE Len(orders[s]) <= 1
    BY DEF OneOrderPerSeat
  <2>1. Len(orders[s]) = IF status[s] = "sold" THEN 1 ELSE 0
    BY DEF IInv, LockInv
  <2> QED
    BY <2>1
<1> QED
  BY <1>1, Invariance, PTL

\* The gateway is called for unsold seats only.
THEOREM ChargesUnsold == ASSUME Deployed PROVE Spec => NoChargeForSoldSeat
<1>1. IInv /\ [Next]_vars =>
        [\A r \in Requests :
           charges' # charges /\ pc[r] = "checked" /\ pc'[r] = "captured" => status[seat[r]] = "available"]_vars
  <2> SUFFICES ASSUME IInv, NEW r \in Requests, pc[r] = "checked"
               PROVE  status[seat[r]] = "available"
    OBVIOUS
  <2> QED
    BY DEF IInv, LockInv, InTx
<1> QED
  BY <1>1, Invariance, PTL DEF Spec, NoChargeForSoldSeat

\* Every capture the client remembers, every transaction past its capture and
\* every order has a charge behind it; a key has been charged at most once more
\* than the process has crashed, and once less if it is not remembered.
PaidInv ==
  /\ \A k \in captured : charges[k] > 0
  /\ \A r \in Requests : pc[r] \in {"captured", "marked", "recorded"} => charges[key[r]] > 0
  /\ OrdersArePaid
  /\ \A s \in Seats : Len(paidWith[s]) = Len(orders[s])
  /\ \A k \in Keys : charges[k] <= crashes + (IF k \in captured THEN 1 ELSE 0)

\* Charges never go down, and a step other than a capture leaves them alone.
LEMMA ChargesGrow ==
  ASSUME TypeOK, [Next]_vars
  PROVE  /\ \A k \in Keys : charges'[k] >= charges[k]
         /\ UNCHANGED payment \/ Crash \/ \E r \in Requests : Capture(r)
<1>1. CASE \E r \in Requests : Capture(r)
  <2>1. PICK r \in Requests : Capture(r)
    BY <1>1
  <2>2. \A k \in Keys : charges[k] \in Nat
    BY DEF TypeOK
  <2>3. charges' = charges \/ charges' = [charges EXCEPT ![key[r]] = charges[key[r]] + 1]
    BY <2>1 DEF Capture, payment
  <2>4. ASSUME NEW k \in Keys PROVE charges'[k] >= charges[k]
    <3>1. charges'[k] = charges[k] \/ charges'[k] = charges[k] + 1
      BY <2>3 DEF TypeOK
    <3> QED
      BY <2>2, <3>1
  <2> QED
    BY <1>1, <2>4
<1>2. CASE Crash
  BY <1>2 DEF Crash, TypeOK
<1>3. CASE UNCHANGED payment
  BY <1>3 DEF payment, TypeOK
<1>4. \/ UNCHANGED payment
      \/ Crash
      \/ \E r \in Requests : Capture(r)
  BY DEF Next, Advance, HoldExpires, AcquireHold, Begin, LockSeat, MarkSold, RecordOrder,
         Commit, ReleaseHold, Fail, Reset, ResetOrders, ResetSeats, ScanHolds, DeleteHolds, vars
<1> QED
  BY <1>1, <1>2, <1>3, <1>4

\* Each step, unsafe confirms, crashes and /reset included, keeps PaidInv.
LEMMA PaidStep ==
  ASSUME TypeOK, TypeOK', PaidInv, [Next]_vars
  PROVE  PaidInv'
<1> USE DEF Goto
<1>1. \A k \in Keys : charges[k] \in Nat /\ charges'[k] \in Nat /\ charges'[k] >= charges[k]
  BY ChargesGrow DEF TypeOK
<1>2. \A r \in Requests : key[r] \in Keys /\ key'[r] \in Keys
  BY DEF TypeOK
<1>3. captured \subseteq Keys /\ captured' \subseteq Keys /\ crashes \in Nat /\ crashes' \in Nat
  BY BookingAssumption DEF TypeOK
<1>4. /\ \A k \in captured' : charges'[k] > 0
      /\ \A k \in Keys : charges'[k] <= crashes' + (IF k \in captured' THEN 1 ELSE 0)
  <2>1. CASE UNCHANGED payment
    <3>1. crashes' >= crashes
      BY <1>3, <2>1 DEF Next, Advance, HoldExpires, AcquireHold, Begin, LockSeat, Capture, MarkSold,
         RecordOrder, Commit, ReleaseHold, Fail, Crash, Reset, ResetOrders, ResetSeats, ScanHolds, DeleteHolds,
         vars, admin
    <3> QED
      BY <1>1, <1>3, <2>1, <3>1 DEF PaidInv, payment
  <2>2. CASE Crash
    <3>1. charges' = charges /\ captured' = {} /\ crashes' = crashes + 1
      BY <2>2 DEF Crash
    <3> QED
      BY <1>1, <1>3, <3>1 DEF PaidInv
  <2>3. ASSUME NEW r \in Requests, Capture(r), key[r] \notin captured
        PROVE  /\ \A k \in captured' : charges'[k] > 0
               /\ \A k \in Keys : charges'[k] <= crashes' + (IF k \in captured' THEN 1 ELSE 0)
    <3>1. /\ charges' = [charges EXCEPT ![key[r]] = charges[key[r]] + 1]
          /\ captured' = captured \cup {key[r]} /\ crashes' = crashes
      BY <2>3 DEF Capture, Remember, admin
    <3>2. \A k \in Keys : charges'[k] = IF k = key[r] THEN charges[k] + 1 ELSE charges[k]
      BY <3>1 DEF TypeOK
    <3>3. charges[key[r]] <= crashes
      BY <1>1, <1>2, <1>3, <2>3 DEF PaidInv
    <3>4. ASSUME NEW k \in Keys
          PROVE  /\ k \in captured' => charges'[k] > 0
                 /\ charges'[k] <= crashes' + (IF k \in captured' THEN 1 ELSE 0)
      <4>1. CASE k = key[r]
        BY <1>1, <1>3, <3>1, <3>2, <3>3, <4>1
      <4>2. CASE k # key[r]
        BY <1>1, <1>3, <3>1, <3>2, <4>2 DEF PaidInv
      <4> QED
        BY <4>1, <4>2
    <3> QED
      BY <1>3, <3>4
  <2>4. ASSUME NEW r \in Requests, Capture(r), key[r] \in captured PROVE UNCHANGED payment
    BY <2>4 DEF Capture
  <2> QED
    BY <2>1, <2>2, <2>3, <2>4, ChargesGrow
<1>5. ASSUME NEW r \in Requests, pc'[r] \in {"captured", "marked", "recorded"}
      PROVE  charges'[key'[r]] > 0
  <2> DEFINE Kept == pc[r] \in {"captured", "marked", "recorded"} /\ key'[r] = key[r]
  <2>1. Kept \/ Capture(r)
    <3> USE <1>5 DEF TypeOK, request
    <3>1. ASSUME NEW q \in Requests, NEW h \in Holders, NEW s \in Seats, NEW k \in Keys, Begin(q, h, s, k) PROVE Kept
      BY <3>1 DEF Begin
    <3>2. ASSUME NEW q \in Requests, LockSeat(q) PROVE Kept
      BY <3>2 DEF LockSeat
    <3>3. ASSUME NEW q \in Requests, Capture(q), q # r PROVE Kept
      BY <3>3 DEF Capture
    <3>4. ASSUME NEW q \in Requests, MarkSold(q) \/ RecordOrder(q) \/ Commit(q) PROVE Kept
      BY <3>4 DEF MarkSold, RecordOrder, Commit
    <3>5. ASSUME NEW q \in Requests, ReleaseHold(q) \/ Fail(q) PROVE Kept
      BY <3>5 DEF ReleaseHold, Fail
    <3>6. CASE Crash
      BY <3>6 DEF Crash
    <3>7. CASE UNCHANGED calls
      BY <3>7 DEF calls
    <3> QED
      BY <3>1, <3>2, <3>3, <3>4, <3>5, <3>6, <3>7 DEF Next, Advance, HoldExpires, AcquireHold,
         Reset, ResetOrders, ResetSeats, ScanHolds, DeleteHolds, vars
  <2>2. CASE Capture(r)
    <3>1. key'[r] = key[r]
      BY <2>2 DEF Capture, TypeOK, request
    <3>2. CASE key[r] \in captured
      BY <1>1, <1>2, <3>1, <3>2 DEF PaidInv
    <3>3. CASE key[r] \notin captured
      <4>1. charges' = [charges EXCEPT ![key[r]] = charges[key[r]] + 1]
        BY <2>2, <3>3 DEF Capture
      <4>2. charges'[key[r]] = charges[key[r]] + 1
        BY <1>2, <4>1 DEF TypeOK
      <4> QED
        BY <1>1, <1>2, <3>1, <4>2
    <3> QED
      BY <3>2, <3>3
  <2> QED
    BY <1>1, <1>2, <2>1, <2>2 DEF PaidInv
<1>6. ASSUME NEW s \in Seats
      PROVE  /\ Len(paidWith'[s]) = Len(orders'[s])
             /\ \A i \in 1..Len(orders'[s]) : charges'[paidWith'[s][i]] > 0
  <2>1. /\ orders[s] \in Seq(Holders) /\ paidWith[s] \in Seq(Keys)
        /\ Len(paidWith[s]) = Len(orders[s])
    BY DEF TypeOK, PaidInv
  <2>2. ASSUME NEW i \in 1..Len(orders[s]) PROVE paidWith[s][i] \in Keys /\ charges'[paidWith[s][i]] > 0
    <3>1. paidWith[s][i] \in Keys
      BY <2>1
    <3>2. charges[paidWith[s][i]] > 0
      BY DEF PaidInv, OrdersArePaid
    <3> QED
      BY <1>1, <3>1, <3>2
  <2>3. CASE orders'[s] = orders[s] /\ paidWith'[s] = paidWith[s]
    BY <2>1, <2>2, <2>3
  <2>4. ASSUME NEW r \in Requests, Commit(r), s = seat[r]
        PROVE  /\ Len(paidWith'[s]) = Len(orders'[s])
               /\ \A i \in 1..Len(orders'[s]) : charges'[paidWith'[s][i]] > 0
    <3>1. orders'[s] = Append(orders[s], holder[r]) /\ paidWith'[s] = Append(paidWith[s], key[r])
      BY <2>4 DEF Commit, OrdersOf, TypeOK
    <3>2. holder[r] \in Holders /\ key[r] \in Keys
      BY DEF TypeOK
    <3>3. charges'[key[r]] > 0
      BY <1>1, <2>4, <3>2 DEF Commit, PaidInv
    <3>4. Len(orders'[s]) = Len(orders[s]) + 1 /\ Len(paidWith'[s]) = Len(orders[s]) + 1
      BY <2>1, <3>1, <3>2
    <3>5. ASSUME NEW i \in 1..Len(orders[s]) PROVE charges'[paidWith'[s][i]] > 0
      BY <2>1, <2>2, <3>1, <3>2
    <3>6. charges'[paidWith'[s][Len(orders[s]) + 1]] > 0
      BY <2>1, <3>1, <3>2, <3>3
    <3>7. Len(orders[s]) \in Nat
      BY <2>1
    <3> QED
      BY <3>4, <3>5, <3>6, <3>7
  <2>5. ASSUME NEW r \in Requests, Commit(r), s # seat[r] PROVE orders'[s] = orders[s] /\ paidWith'[s] = paidWith[s]
    BY <2>5 DEF Commit, OrdersOf, TypeOK
  <2>6. CASE ResetOrders
    <3>1. orders'[s] = << >> /\ paidWith'[s] = << >>
      BY <2>6 DEF ResetOrders
    <3> QED
      BY <3>1
  <2>7. UNCHANGED <<orders, paidWith>> \/ ResetOrders \/ \E r \in Requests : Commit(r)
    BY DEF Next, Advance, HoldExpires, AcquireHold, Begin, LockSeat, Capture, MarkSold,
           RecordOrder, ReleaseHold, Fail, Crash, Reset, ResetSeats, ScanHolds, DeleteHolds, table, vars
  <2> QED
    BY <2>3, <2>4, <2>5, <2>6, <2>7
<1> QED
  BY <1>4, <1>5, <1>6 DEF PaidInv, OrdersArePaid

LEMMA PaidInvariance == Spec => [](TypeOK /\ PaidInv)
<1>1. Init => TypeOK /\ PaidInv
  <2> SUFFICES ASSUME Init PROVE TypeOK /\ PaidInv
    OBVIOUS
  <2>1. \A s \in Seats : Len(orders[s]) = 0 /\ Len(paidWith[s]) = 0
    BY DEF Init
  <2>2. TypeOK
    BY BookingAssumption DEF Init, TypeOK, InTx
  <2> QED
    BY <2>1, <2>2 DEF Init, PaidInv, OrdersArePaid
<1> QED
  BY <1>1, TypeStep, PaidStep, PTL DEF Spec

\* Every order is paid for, whatever mix of unsafe confirms, crashes and /reset.
THEOREM OrdersPaid == Spec => []OrdersArePaid
<1> QED
  BY PaidInvariance, PTL DEF PaidInv

\* The keys live in the process: an attempt is charged at most once more than
\* the process has crashed.
THEOREM CapturesBounded == Spec => [](\A k \in Keys : charges[k] <= 1 + crashes)
<1>1. TypeOK /\ PaidInv => \A k \in Keys : charges[k] <= 1 + crashes
  BY BookingAssumption DEF PaidInv, TypeOK
<1> QED
  BY <1>1, PaidInvariance, PTL

\* So one attempt is captured once while the process stays up.
THEOREM CapturedOnce == ASSUME MaxCrashes = 0 PROVE Spec => []OneCapturePerAttempt
<1>1. TypeOK /\ (\A k \in Keys : charges[k] <= 1 + crashes) => OneCapturePerAttempt
  BY DEF TypeOK, OneCapturePerAttempt
<1> QED
  BY <1>1, TypeCorrect, CapturesBounded, PTL

\* A release leaves a hold that another holder has taken since.
THEOREM ReleasesOwn == Spec => ReleaseOwnHold
<1>1. TypeOK /\ [Next]_vars =>
        [\A r \in Requests :
           pc[r] = "committed" /\ pc'[r] = "idle" /\ hold[seat[r]] # holder[r] =>
             hold'[seat[r]] = hold[seat[r]]]_vars
  <2> SUFFICES ASSUME TypeOK, Next, NEW r \in Requests, pc[r] = "committed", pc'[r] = "idle",
                      hold[seat[r]] # holder[r]
               PROVE  hold'[seat[r]] = hold[seat[r]]
    OBVIOUS
  <2>1. ASSUME NEW q \in Requests, ReleaseHold(q) PROVE hold'[seat[r]] = hold[seat[r]]
    <3>1. q = r
      BY <2>1 DEF ReleaseHold, Goto, TypeOK
    <3> QED
      BY <2>1, <3>1 DEF ReleaseHold, AfterRelease, TypeOK
  <2>2. UNCHANGED hold \/ \E q \in Requests : ReleaseHold(q)
    BY DEF Next, Advance, HoldExpires, AcquireHold, Begin, LockSeat, Capture, MarkSold,
           RecordOrder, Commit, Fail, Crash, Reset, ResetOrders, ResetSeats, ScanHolds, DeleteHolds,
           calls, Goto, TypeOK
  <2> QED
    BY <2>1, <2>2
<1> QED
  BY <1>1, TypeCorrect, PTL DEF Spec, ReleaseOwnHold

\* The deployed service implements the abstract sale.
THEOREM Refinement == ASSUME Deployed PROVE Spec => SaleSpec
<1>1. Init => Sale!Init
  BY DEF Init, Sale!Init
<1>2. IInv /\ [Next]_vars => [Sale!Next]_orders
  <2> SUFFICES ASSUME IInv, [Next]_vars PROVE Sale!Next \/ orders' = orders
    OBVIOUS
  <2>1. CASE UNCHANGED orders
    BY <2>1
  <2>2. ASSUME NEW r \in Requests, Commit(r) PROVE Sale!Next
    <3> DEFINE s == seat[r]
    <3>1. s \in Seats /\ holder[r] \in Holders /\ orders[s] = << >>
      BY <2>2, EmptySeq DEF Commit, IInv, LockInv, TypeOK, InTx
    <3>2. orders' = [orders EXCEPT ![s] = <<holder[r]>>]
      BY <2>2, <3>1 DEF Commit, OrdersOf
    <3>3. Sale!Sell(s, holder[r])
      BY <3>1, <3>2 DEF Sale!Sell
    <3> QED
      BY <3>1, <3>3 DEF Sale!Next
  <2>3. UNCHANGED orders \/ \E r \in Requests : Commit(r)
    BY DEF Next, Advance, HoldExpires, AcquireHold, Begin, LockSeat, Capture, MarkSold,
           RecordOrder, ReleaseHold, Fail, Crash, Reset, ResetOrders, ResetSeats, ScanHolds, DeleteHolds,
           table, vars, Deployed, IInv, TypeOK
  <2> QED
    BY <2>1, <2>2, <2>3
<1> QED
  BY <1>1, <1>2, Invariance, PTL DEF Spec, SaleSpec, Sale!Spec
=============================================================================
