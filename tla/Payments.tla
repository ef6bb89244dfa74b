------------------------------ MODULE Payments ------------------------------
(***************************************************************************)
(* The charge flow of the payment system: one Postgres transaction that    *)
(* reserves the idempotency key, inserts the payment, appends the double-  *)
(* entry postings and saves the result, replayed to later calls that carry *)
(* the same key.                                                           *)
(*                                                                         *)
(* Every statement is an action.  A row written by a transaction is seen   *)
(* by others when it commits; an INSERT of a key that another transaction  *)
(* has written waits for that transaction.  A call may fail anywhere, and  *)
(* its answer may be lost, so the client calls again.                      *)
(***************************************************************************)
EXTENDS Integers

CONSTANTS
  Calls,            \* /charge handlers that may run at the same time
  Keys, Merchants,
  Amounts,          \* amounts charged, in cents: any integers
  NoCall,           \* no transaction has written the key
  NoResult,         \* the idempotency row is absent
  MaxId             \* bound on payments.id

ASSUME PaymentsAssumption ==
  /\ NoCall \notin Calls
  /\ Amounts \subseteq Int
  /\ MaxId \in Nat
  /\ NoResult \notin 1..MaxId
  /\ "customer" \notin Merchants

VARIABLES
  pc, arg,       \* each handler and its request
  made,          \* the id of the payment the handler has made or replays
  keyOwner,      \* the transaction that holds an uncommitted row of the key
  results,       \* the idempotency table: the payment id in the stored result
  payments,      \* the payments table
  ledger,        \* the ledger table; `id` names the charge that appended the row
  nextId,        \* payments.id bigserial
  answers        \* history: what clients were answered

tables == <<results, payments, ledger>>
vars == <<pc, arg, made, keyOwner, tables, nextId, answers>>

Ids == 1..MaxId
Requests == [key : Keys, merchant : Merchants, amount : Amounts]

\* PaymentIntentMachine: the states and the transition table.
States == {"created", "authorized", "captured", "settled", "refunded", "voided"}
Transitions ==
  { <<"created", "authorize", "authorized">>, <<"created", "void", "voided">>,
    <<"authorized", "capture", "captured">>,  <<"authorized", "void", "voided">>,
    <<"captured", "settle", "settled">>,      <<"captured", "refund", "refunded">>,
    <<"settled", "refund", "refunded">> }

\* next_state; a pair the table does not have raises IllegalTransition.
NextStates(s, event) == {t \in States : <<s, event, t>> \in Transitions}

\* The states charge can bring an intent to: AUTHORIZE, then CAPTURE.
ChargedStates == UNION {NextStates(s, "capture") : s \in NextStates("created", "authorize")}

PaymentRows == [id : Ids, key : Keys, merchant : Merchants, amount : Amounts, state : States]
LedgerRows == [id : Ids, account : Merchants \cup {"customer"}, amount : Int]

Working == {"reserved", "paid", "posted", "saved"}

TypeOK ==
  /\ pc \in [Calls -> {"idle", "begin", "conflict", "done"} \cup Working]
  /\ arg \in [Calls -> Requests]
  /\ made \in [Calls -> Ids \cup {NoResult}]
  /\ keyOwner \in [Keys -> Calls \cup {NoCall}]
  /\ results \in [Keys -> Ids \cup {NoResult}]
  /\ payments \subseteq PaymentRows
  /\ ledger \subseteq LedgerRows
  /\ nextId \in 1..(MaxId + 1)
  /\ answers \subseteq (Keys \X Ids)

Init ==
  /\ pc = [c \in Calls |-> "idle"]
  /\ arg \in {[c \in Calls |-> q] : q \in Requests}
  /\ made = [c \in Calls |-> NoResult]
  /\ keyOwner = [k \in Keys |-> NoCall]
  /\ results = [k \in Keys |-> NoResult]
  /\ payments = {} /\ ledger = {}
  /\ nextId = 1
  /\ answers = {}

Key(c) == arg[c].key
Goto(c, label) == pc' = [pc EXCEPT ![c] = label]

\* The end of c's transaction, committed or not.  Faulty variant: a failed
\* transaction is left open.
UnlockOnCommit(c) ==
  keyOwner' = [k \in Keys |->
    IF keyOwner[k] = c /\ pc[c] = "saved" THEN NoCall ELSE keyOwner[k]]
Unlock(c) == keyOwner' = [k \in Keys |-> IF keyOwner[k] = c THEN NoCall ELSE keyOwner[k]]

-----------------------------------------------------------------------------
Begin(c, q) ==
  /\ pc[c] = "idle"
  /\ Goto(c, "begin")
  /\ arg' = [arg EXCEPT ![c] = q]
  /\ made' = [made EXCEPT ![c] = NoResult]
  /\ UNCHANGED <<keyOwner, tables, nextId, answers>>

\* The unique constraint: an INSERT waits for an uncommitted row of its key.
\* Faulty variant: no constraint, nothing to wait for.
KeyFreeAlways(k) == TRUE
KeyFree(k) == keyOwner[k] = NoCall

\* reserve: INSERT ... ON CONFLICT DO NOTHING RETURNING key.
Reserve(c) ==
  /\ pc[c] = "begin"
  /\ KeyFree(Key(c))
  /\ IF results[Key(c)] = NoResult
       THEN Goto(c, "reserved") /\ keyOwner' = [keyOwner EXCEPT ![Key(c)] = c]
       ELSE Goto(c, "conflict") /\ UNCHANGED keyOwner
  /\ UNCHANGED <<arg, made, tables, nextId, answers>>

\* reserve, when the key was there: SELECT result, which charge replays.
Replay(c) ==
  /\ pc[c] = "conflict"
  /\ made' = [made EXCEPT ![c] = results[Key(c)]]
  /\ Goto(c, "done")
  /\ UNCHANGED <<arg, keyOwner, tables, nextId, answers>>

\* new_payment: the id is taken for good, the row is not yet visible.
NewPayment(c) ==
  /\ pc[c] = "reserved"
  /\ nextId <= MaxId
  /\ made' = [made EXCEPT ![c] = nextId]
  /\ nextId' = nextId + 1
  /\ Goto(c, "paid")
  /\ UNCHANGED <<arg, keyOwner, tables, answers>>

\* The two legs of a charge.  Faulty variant: the debit has no sign.
LegsUnsigned(id, q) ==
  { [id |-> id, account |-> "customer", amount |-> q.amount],
    [id |-> id, account |-> q.merchant, amount |-> q.amount] }
Legs(id, q) ==
  { [id |-> id, account |-> "customer", amount |-> -q.amount],
    [id |-> id, account |-> q.merchant, amount |-> q.amount] }

\* LedgerWriter.record: the legs of a charge sum to zero, so it never raises.
Post(c) ==
  /\ pc[c] = "paid"
  /\ Goto(c, "posted")
  /\ UNCHANGED <<arg, made, keyOwner, tables, nextId, answers>>

\* guard.remember: UPDATE idempotency SET result.
SaveResult(c) ==
  /\ pc[c] = "posted"
  /\ Goto(c, "saved")
  /\ UNCHANGED <<arg, made, keyOwner, tables, nextId, answers>>

\* The stored result of c's key: the id that INSERT returned.
Result(c) == made[c]

\* COMMIT makes key, payment, postings and result visible together.
Commit(c) ==
  /\ pc[c] = "saved"
  /\ results' = [results EXCEPT ![Key(c)] = Result(c)]
  /\ payments' = payments \cup
       { [id |-> made[c], key |-> Key(c), merchant |-> arg[c].merchant,
          amount |-> arg[c].amount, state |-> s] : s \in ChargedStates }
  /\ ledger' = ledger \cup Legs(made[c], arg[c])
  /\ Unlock(c)
  /\ Goto(c, "done")
  /\ UNCHANGED <<arg, made, nextId, answers>>

\* Where a call may answer.  Faulty variant: before its COMMIT.
AnswerableEarly(c) == pc[c] \in {"saved", "done"}
Answerable(c) == pc[c] = "done"

\* The client hears the payment id.
Answer(c) ==
  /\ Answerable(c)
  /\ answers' = answers \cup {<<Key(c), made[c]>>}
  /\ Goto(c, "idle")
  /\ UNCHANGED <<arg, made, keyOwner, tables, nextId>>

\* A statement fails, the process dies, or the answer is lost: an open
\* transaction is rolled back.
Fail(c) ==
  /\ pc[c] # "idle"
  /\ Goto(c, "idle")
  /\ Unlock(c)
  /\ UNCHANGED <<arg, made, tables, nextId, answers>>

Advance(c) == Replay(c) \/ NewPayment(c) \/ Post(c) \/ SaveResult(c) \/ Commit(c) \/ Answer(c)

Next ==
  \E c \in Calls :
    \/ \E q \in Requests : Begin(c, q)
    \/ Reserve(c) \/ Advance(c) \/ Fail(c)

Spec == Init /\ [][Next]_vars

\* Handlers run on; Postgres grants the key to its waiters in turn.  A handler
\* that finds the bound on ids used up is allowed to fail.
FairSpec ==
  /\ Spec
  /\ \A c \in Calls :
       SF_vars(Reserve(c)) /\ WF_vars(Advance(c) \/ (nextId > MaxId /\ Fail(c)))

-----------------------------------------------------------------------------
\* "Never charge twice": no two payments carry one idempotency key, however
\* concurrent calls, failures and retries mix.
OnePaymentPerKey == \A p, q \in payments : p.key = q.key => p = q

\* "Same key, same outcome": all answers to calls with one key name one payment,
\* and it is committed, even if the calls ask for different charges.
AnswersAgree ==
  /\ \A a, b \in answers : a[1] = b[1] => a = b
  /\ \A a \in answers : \E p \in payments : p.key = a[1] /\ p.id = a[2]

\* Calls with one key, concurrent or retried after a failure, charge once and answer
\* with that one charge.
OneOutcomePerKey == OnePaymentPerKey /\ AnswersAgree

\* "The whole ledger sums to 0", payment by payment, through every failure: a committed
\* payment is captured and has a debit of the customer and a credit of its merchant of one amount,
\* and no posting is there without its payment.
LedgerMatchesPayments ==
  /\ \A p \in payments : p.state = "captured"
  /\ ledger = UNION {{[id |-> p.id, account |-> "customer", amount |-> -p.amount],
                      [id |-> p.id, account |-> p.merchant, amount |-> p.amount]} :
                       p \in payments}

\* Every charge ends: calls with one key do not wait for each other for ever.
ChargeEnds == \A c \in Calls : pc[c] # "idle" ~> pc[c] = "idle"

\* The strengthening of OnePaymentPerKey and AnswersAgree: a working handler
\* owns its key, which has no result yet; a stored result names the one payment
\* of its key; the ids of payments made or in the making are all different.
Making == {"paid", "posted", "saved"}

CallInv(c) ==
  /\ pc[c] \in Working => keyOwner[Key(c)] = c /\ results[Key(c)] = NoResult
  /\ pc[c] \in Making => made[c] \in Ids /\ made[c] < nextId
  /\ pc[c] = "conflict" => results[Key(c)] # NoResult
  /\ pc[c] = "done" => made[c] # NoResult /\ results[Key(c)] = made[c]

FreshInv ==
  \A c \in Calls : pc[c] \in Making =>
    /\ \A p \in payments : p.id # made[c]
    /\ \A d \in Calls : pc[d] \in Making /\ made[d] = made[c] => d = c

OwnerInv ==
  \A k \in Keys :
    keyOwner[k] # NoCall => Key(keyOwner[k]) = k /\ pc[keyOwner[k]] \in Working

TableInv ==
  /\ \A p \in payments : p.id < nextId /\ results[p.key] = p.id
  /\ \A p, q \in payments : p.id = q.id => p = q
  /\ \A k \in Keys :
       results[k] # NoResult => \E p \in payments : p.key = k /\ p.id = results[k]
  /\ \A a \in answers : results[a[1]] = a[2]

KeyInv == (\A c \in Calls : CallInv(c)) /\ FreshInv /\ OwnerInv /\ TableInv
=============================================================================
