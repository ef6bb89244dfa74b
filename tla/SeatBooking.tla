----------------------------- MODULE SeatBooking -----------------------------
(***************************************************************************)
(* The booking critical section of the Ticketmaster service: seat holds in *)
(* Redis, the confirm transaction in Postgres (SELECT ... FOR UPDATE,      *)
(* capture, UPDATE seats, INSERT orders, COMMIT) and the in-memory         *)
(* idempotency of PaymentClient.                                           *)
(*                                                                         *)
(* Every await that reaches Postgres or Redis is an action; the stubbed    *)
(* gateway never suspends, so a capture is one.  A row lock is held from   *)
(* the statement that takes it to the end of its transaction.  A request   *)
(* may fail and roll back anywhere; the process may crash, which ends all  *)
(* requests and empties PaymentClient._captured.                           *)
(***************************************************************************)
EXTENDS Naturals, Sequences

CONSTANTS
  Requests,       \* /confirm handlers that may run at the same time
  Seats, Holders,
  Keys,           \* payment keys; the client picks one, and may pick it again
  UnsafeRequests, \* those called with "unsafe": true, i.e. use_lock=False
  NoRequest, NoHolder,
  MaxCrashes,     \* bound on process crashes
  MaxResets       \* bound on calls of /reset

ASSUME BookingAssumption ==
  /\ UnsafeRequests \subseteq Requests
  /\ NoRequest \notin Requests /\ NoHolder \notin Holders
  /\ MaxCrashes \in Nat /\ MaxResets \in Nat

VARIABLES
  status, soldTo,   \* the seats table
  orders,           \* the orders table: the holders of each seat's orders
  paidWith,         \* history: the keys that these orders were confirmed with
  rowLock,          \* the transaction that holds the seat's row lock
  hold,             \* Redis "hold:{seat}"
  pc, holder, seat, key, \* where each handler is, and its arguments
  captured,         \* PaymentClient._captured
  charges,          \* history: gateway captures of each idempotency key
  crashes,
  resetPc, resets,  \* the /reset handler
  found             \* and the holds that its SCAN found

table == <<status, soldTo, orders, paidWith>>
request == <<holder, seat, key>>
calls == <<pc, request>>
payment == <<captured, charges>>
admin == <<crashes, resetPc, resets, found>>
vars == <<table, rowLock, hold, calls, payment, admin>>

InTx == {"checked", "captured", "marked", "recorded"}

TypeOK ==
  /\ status \in [Seats -> {"available", "sold"}]
  /\ soldTo \in [Seats -> Holders \cup {NoHolder}]
  /\ orders \in [Seats -> Seq(Holders)]
  /\ paidWith \in [Seats -> Seq(Keys)]
  /\ rowLock \in [Seats -> Requests \cup {NoRequest}]
  /\ hold \in [Seats -> Holders \cup {NoHolder}]
  /\ pc \in [Requests -> {"idle", "begin", "committed"} \cup InTx]
  /\ holder \in [Requests -> Holders]
  /\ seat \in [Requests -> Seats]
  /\ key \in [Requests -> Keys]
  /\ captured \subseteq Keys
  /\ charges \in [Keys -> Nat]
  /\ crashes \in 0..MaxCrashes
  /\ resetPc \in {"idle", "seats", "holds", "delete"}
  /\ resets \in 0..MaxResets
  /\ found \subseteq Seats

Init ==
  /\ status = [s \in Seats |-> "available"]
  /\ soldTo = [s \in Seats |-> NoHolder]
  /\ orders = [s \in Seats |-> << >>]
  /\ paidWith = [s \in Seats |-> << >>]
  /\ rowLock = [s \in Seats |-> NoRequest]
  /\ hold = [s \in Seats |-> NoHolder]
  /\ pc = [r \in Requests |-> "idle"]
  /\ holder \in {[r \in Requests |-> h] : h \in Holders}
  /\ seat \in {[r \in Requests |-> s] : s \in Seats}
  /\ key \in {[r \in Requests |-> k] : k \in Keys}
  /\ captured = {}
  /\ charges = [k \in Keys |-> 0]
  /\ crashes = 0
  /\ resetPc = "idle"
  /\ resets = 0
  /\ found = {}

Goto(r, label) == pc' = [pc EXCEPT ![r] = label]

\* The end of r's transaction frees its row lock.  Faulty variant: only its
\* COMMIT does, a failed transaction is left open.
UnlockOnCommit(r) ==
  rowLock' = [s \in Seats |->
    IF rowLock[s] = r /\ pc[r] = "recorded" THEN NoRequest ELSE rowLock[s]]
Unlock(r) == rowLock' = [s \in Seats |-> IF rowLock[s] = r THEN NoRequest ELSE rowLock[s]]

-----------------------------------------------------------------------------
(* Holds *)

\* SET hold:{seat} holder NX PX: a seat already held is refused.
AcquireHold(s, h) ==
  /\ hold[s] = NoHolder
  /\ hold' = [hold EXCEPT ![s] = h]
  /\ UNCHANGED <<table, rowLock, calls, payment, admin>>

HoldExpires(s) ==
  /\ hold[s] # NoHolder
  /\ hold' = [hold EXCEPT ![s] = NoHolder]
  /\ UNCHANGED <<table, rowLock, calls, payment, admin>>

\* The compare-and-delete script.  Faulty variant: a plain DEL.
AfterReleasePlain(s, h) == NoHolder
AfterRelease(s, h) == IF hold[s] = h THEN NoHolder ELSE hold[s]

-----------------------------------------------------------------------------
(* BookingConfirmer.confirm *)

Begin(r, h, s, k) ==
  /\ pc[r] = "idle"
  /\ Goto(r, "begin")
  /\ holder' = [holder EXCEPT ![r] = h]
  /\ seat' = [seat EXCEPT ![r] = s]
  /\ key' = [key EXCEPT ![r] = k]
  /\ UNCHANGED <<table, rowLock, hold, payment, admin>>

\* Whether SELECT has its FOR UPDATE clause.  Faulty variant: it never has.
ForUpdateNever(r) == FALSE
ForUpdate(r) == r \notin UnsafeRequests

\* SELECT ... FOR UPDATE waits for the row lock and takes it; both forms of
\* SELECT read the last committed row.
RowFree(r) == ForUpdate(r) => rowLock[seat[r]] = NoRequest
Locked(r) == IF ForUpdate(r) THEN [rowLock EXCEPT ![seat[r]] = r] ELSE rowLock

\* Faulty variant: the locked row is not checked again.
SeatOpenUnchecked(r) == TRUE
SeatOpen(r) == status[seat[r]] = "available"

\* lock_seat and the check: a sold seat is rejected and the transaction ends.
LockSeat(r) ==
  /\ pc[r] = "begin"
  /\ RowFree(r)
  /\ IF SeatOpen(r)
       THEN Goto(r, "checked") /\ rowLock' = Locked(r)
       ELSE Goto(r, "idle") /\ UNCHANGED rowLock
  /\ UNCHANGED <<table, hold, request, payment, admin>>

\* PaymentClient.capture: a key captured before is replayed, not charged.
\* Faulty variants: the key is not remembered; keys are not told apart.
RememberNothing(k) == captured
RememberAll(k) == Keys
Remember(k) == captured \cup {k}

Capture(r) ==
  /\ pc[r] = "checked"
  /\ IF key[r] \in captured
       THEN UNCHANGED payment
       ELSE /\ charges' = [charges EXCEPT ![key[r]] = @ + 1]
            /\ captured' = Remember(key[r])
  /\ Goto(r, "captured")
  /\ UNCHANGED <<table, rowLock, hold, request, admin>>

\* UPDATE seats: takes the row lock, if SELECT did not; not yet visible.
MarkSold(r) ==
  /\ pc[r] = "captured"
  /\ rowLock[seat[r]] \in {r, NoRequest}
  /\ rowLock' = [rowLock EXCEPT ![seat[r]] = r]
  /\ Goto(r, "marked")
  /\ UNCHANGED <<table, hold, request, payment, admin>>

\* INSERT INTO orders: not yet visible.
RecordOrder(r) ==
  /\ pc[r] = "marked"
  /\ Goto(r, "recorded")
  /\ UNCHANGED <<table, rowLock, hold, request, payment, admin>>

\* What COMMIT makes visible in the orders.
OrdersOf(r) == [orders EXCEPT ![seat[r]] = Append(@, holder[r])]

\* COMMIT makes the seat and its order visible together.
Commit(r) ==
  /\ pc[r] = "recorded"
  /\ status' = [status EXCEPT ![seat[r]] = "sold"]
  /\ soldTo' = [soldTo EXCEPT ![seat[r]] = holder[r]]
  /\ orders' = OrdersOf(r)
  /\ paidWith' = [paidWith EXCEPT ![seat[r]] = Append(@, key[r])]
  /\ Unlock(r)
  /\ Goto(r, "committed")
  /\ UNCHANGED <<hold, request, payment, admin>>

\* holds.release, after the transaction; then the handler answers.
ReleaseHold(r) ==
  /\ pc[r] = "committed"
  /\ hold' = [hold EXCEPT ![seat[r]] = AfterRelease(seat[r], holder[r])]
  /\ Goto(r, "idle")
  /\ UNCHANGED <<table, rowLock, request, payment, admin>>

\* A statement or the COMMIT fails: the transaction is rolled back.  After the
\* commit only the release can fail, and the hold is left to its TTL.
Fail(r) ==
  /\ pc[r] \in InTx \cup {"begin", "committed"}
  /\ Unlock(r)
  /\ Goto(r, "idle")
  /\ UNCHANGED <<table, hold, request, payment, admin>>

\* The process dies: every transaction is rolled back, the keys are forgotten.
Crash ==
  /\ crashes < MaxCrashes
  /\ crashes' = crashes + 1
  /\ rowLock' = [s \in Seats |-> NoRequest]
  /\ pc' = [r \in Requests |-> "idle"]
  /\ captured' = {}
  /\ resetPc' = "idle" /\ found' = {}
  /\ UNCHANGED <<table, hold, request, charges, resets>>

-----------------------------------------------------------------------------
(* /reset: two statements, each committed on its own, a SCAN and a DEL *)

ResetOrders ==
  /\ resetPc = "idle"
  /\ resets < MaxResets
  /\ resets' = resets + 1
  /\ orders' = [s \in Seats |-> << >>]
  /\ paidWith' = [s \in Seats |-> << >>]
  /\ resetPc' = "seats"
  /\ UNCHANGED <<status, soldTo, rowLock, hold, calls, payment, crashes, found>>

\* UPDATE seats waits for the rows a confirm has locked.
ResetSeats ==
  /\ resetPc = "seats"
  /\ \A s \in Seats : rowLock[s] = NoRequest
  /\ status' = [s \in Seats |-> "available"]
  /\ soldTo' = [s \in Seats |-> NoHolder]
  /\ resetPc' = "holds"
  /\ UNCHANGED <<orders, paidWith, rowLock, hold, calls, payment, crashes, resets, found>>

ScanHolds ==
  /\ resetPc = "holds"
  /\ found' = {s \in Seats : hold[s] # NoHolder}
  /\ resetPc' = IF found' = {} THEN "idle" ELSE "delete"
  /\ UNCHANGED <<table, rowLock, hold, calls, payment, crashes, resets>>

\* Whoever has a hold by now loses it.
DeleteHolds ==
  /\ resetPc = "delete"
  /\ hold' = [s \in Seats |-> IF s \in found THEN NoHolder ELSE hold[s]]
  /\ found' = {} /\ resetPc' = "idle"
  /\ UNCHANGED <<table, rowLock, calls, payment, crashes, resets>>

-----------------------------------------------------------------------------
Reset == ResetOrders \/ ResetSeats \/ ScanHolds \/ DeleteHolds

\* A handler once begun, up to its answer.
Advance(r) == Capture(r) \/ MarkSold(r) \/ RecordOrder(r) \/ Commit(r) \/ ReleaseHold(r)

Next ==
  \/ \E s \in Seats : HoldExpires(s) \/ \E h \in Holders : AcquireHold(s, h)
  \/ \E r \in Requests :
       \/ \E h \in Holders, s \in Seats, k \in Keys : Begin(r, h, s, k)
       \/ LockSeat(r) \/ Advance(r) \/ Fail(r)
  \/ Crash
  \/ Reset

Spec == Init /\ [][Next]_vars

\* The event loop and Postgres get on with every handler; the row lock's queue
\* is first come first served, so a waiter is not passed over for ever.
FairSpec ==
  /\ Spec
  /\ \A r \in Requests : SF_vars(LockSeat(r)) /\ SF_vars(MarkSold(r)) /\ WF_vars(Advance(r))

-----------------------------------------------------------------------------
\* "Never sell one seat twice" (README.md, double_sold_seats of /stats): while
\* every confirm locks its row, no seat has two orders, however confirms,
\* retries, failures and crashes mix.
OneOrderPerSeat == \A s \in Seats : Len(orders[s]) <= 1

\* An order is paid for: the key that it was confirmed with was captured at the gateway.
OrdersArePaid ==
  \A s \in Seats : \A i \in 1..Len(orders[s]) : charges[paidWith[s][i]] > 0

\* The gateway is called for a seat only while the seat is unsold: a buyer who
\* lost the race is turned away before the charge.
NoChargeForSoldSeat ==
  [][\A r \in Requests :
       charges' # charges /\ pc[r] = "checked" /\ pc'[r] = "captured" => status[seat[r]] = "available"]_vars

\* "Compare-and-delete, so a process only frees a hold it still owns"
\* (infra/redis_.py): a release that comes after the TTL leaves the hold that
\* somebody else has taken since.
ReleaseOwnHold ==
  [][\A r \in Requests :
       pc[r] = "committed" /\ pc'[r] = "idle" /\ hold[seat[r]] # holder[r] =>
         hold'[seat[r]] = hold[seat[r]]]_vars

\* "One checkout attempt produces at most one capture, however many times the
\* request is retried" (02-ticketmaster.md), an attempt being what brings one key: holds
\* across failed and retried transactions, and for attempts at several seats, but not
\* across a crash, since the keys are in memory only.
OneCapturePerAttempt == \A k \in Keys : charges[k] <= 1

\* Every confirm ends: confirms that wait for one row never wait for ever.
ConfirmEnds == \A r \in Requests : pc[r] # "idle" ~> pc[r] = "idle"

\* The service implements SeatSale: its orders, whoever asks for a seat and how often,
\* are those of a sale that sells each seat once.
Sale == INSTANCE SeatSale
SaleSpec == Sale!Spec

\* The strengthening of OneOrderPerSeat: a transaction past its check owns the
\* row of an unsold seat, and no order stands on an unsold seat.
LockInv ==
  /\ \A r \in Requests :
       pc[r] \in InTx => rowLock[seat[r]] = r /\ status[seat[r]] = "available"
  /\ \A s \in Seats :
       /\ Len(orders[s]) = IF status[s] = "sold" THEN 1 ELSE 0
       /\ rowLock[s] # NoRequest => seat[rowLock[s]] = s /\ pc[rowLock[s]] \in InTx
=============================================================================
