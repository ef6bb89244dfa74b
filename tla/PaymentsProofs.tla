--------------------------- MODULE PaymentsProofs ---------------------------
(***************************************************************************)
(* Payments charges an idempotency key once, answers all calls with one    *)
(* key alike, and posts exactly its payments to the ledger, for every set  *)
(* of calls, keys, merchants and amounts.                                  *)
(***************************************************************************)
EXTENDS Payments, TLAPS

IInv == TypeOK /\ KeyInv /\ LedgerMatchesPayments

\* The transition table takes a charge to "captured" and nowhere else.
LEMMA ChargeCaptures == ChargedStates = {"captured"}
<1>1. NextStates("created", "authorize") = {"authorized"}
  BY DEF NextStates, States, Transitions
<1>2. NextStates("authorized", "capture") = {"captured"}
  BY DEF NextStates, States, Transitions
<1> QED
  BY <1>1, <1>2 DEF ChargedStates

\* Each step keeps the types.
LEMMA TypeStep == TypeOK /\ KeyInv /\ [Next]_vars => TypeOK'
<1> SUFFICES ASSUME TypeOK, KeyInv, [Next]_vars PROVE TypeOK'
  OBVIOUS
<1> USE PaymentsAssumption DEF Goto, Unlock, Key, Working, Making
<1>1. ASSUME NEW c \in Calls, NEW q \in Requests, Begin(c, q) PROVE TypeOK'
  BY <1>1 DEF Begin, TypeOK, tables
<1>2. ASSUME NEW c \in Calls, Reserve(c) PROVE TypeOK'
  <2>1. arg[c].key \in Keys
    BY DEF TypeOK, Requests
  <2>2. CASE results[Key(c)] = NoResult
    BY <1>2, <2>1, <2>2 DEF Reserve, TypeOK, tables
  <2>3. CASE results[Key(c)] # NoResult
    BY <1>2, <2>1, <2>3 DEF Reserve, TypeOK, tables
  <2> QED
    BY <2>2, <2>3
<1>3. ASSUME NEW c \in Calls, Replay(c) PROVE TypeOK'
  <2>1. arg[c].key \in Keys
    BY DEF TypeOK, Requests
  <2> QED
    BY <1>3, <2>1 DEF Replay, TypeOK, tables
<1>4. ASSUME NEW c \in Calls, NewPayment(c) PROVE TypeOK'
  <2>1. nextId \in Ids /\ nextId + 1 \in 1..(MaxId + 1)
    BY <1>4 DEF NewPayment, TypeOK, Ids
  <2> QED
    BY <1>4, <2>1 DEF NewPayment, TypeOK, tables
<1>5. ASSUME NEW c \in Calls, Post(c) PROVE TypeOK'
  BY <1>5 DEF Post, TypeOK, tables
<1>6. ASSUME NEW c \in Calls, SaveResult(c) PROVE TypeOK'
  BY <1>6 DEF SaveResult, TypeOK, tables
<1>7. ASSUME NEW c \in Calls, Commit(c) PROVE TypeOK'
  <2>1. made[c] \in Ids
    BY <1>7 DEF Commit, KeyInv, CallInv
  <2>2. /\ arg[c].key \in Keys /\ arg[c].merchant \in Merchants /\ arg[c].amount \in Amounts
        /\ arg[c].amount \in Int
    BY DEF TypeOK, Requests
  <2>3. payments' \subseteq PaymentRows
    <3>1. [id |-> made[c], key |-> Key(c), merchant |-> arg[c].merchant,
           amount |-> arg[c].amount, state |-> "captured"] \in PaymentRows
      BY <2>1, <2>2 DEF PaymentRows, States
    <3> QED
      BY <1>7, <3>1, ChargeCaptures DEF Commit, TypeOK
  <2>4. ledger' \subseteq LedgerRows
    <3>1. Legs(made[c], arg[c]) \subseteq LedgerRows
      <4>1. -arg[c].amount \in Int
        BY <2>2
      <4> QED
        BY <2>1, <2>2, <4>1 DEF Legs, LedgerRows
    <3> QED
      BY <1>7, <3>1 DEF Commit, TypeOK
  <2>5. results' \in [Keys -> Ids \cup {NoResult}]
    BY <1>7, <2>1, <2>2 DEF Commit, Result, TypeOK
  <2> QED
    BY <1>7, <2>3, <2>4, <2>5 DEF Commit, TypeOK
<1>8. ASSUME NEW c \in Calls, Answer(c) PROVE TypeOK'
  <2>1. arg[c].key \in Keys
    BY DEF TypeOK, Requests
  <2>2. made[c] \in Ids
    BY <1>8 DEF Answer, Answerable, KeyInv, CallInv, TypeOK
  <2> QED
    BY <1>8, <2>1, <2>2 DEF Answer, TypeOK, tables
<1>9. ASSUME NEW c \in Calls, Fail(c) PROVE TypeOK'
  BY <1>9 DEF Fail, TypeOK, tables
<1>10. CASE UNCHANGED vars
  BY <1>10 DEF vars, TypeOK, tables
<1> QED
  BY <1>1, <1>2, <1>3, <1>4, <1>5, <1>6, <1>7, <1>8, <1>9, <1>10 DEF Next, Advance

\* Each step keeps every key in one working handler's hands.
LEMMA KeyStep == TypeOK /\ TypeOK' /\ KeyInv /\ [Next]_vars => KeyInv'
<1> SUFFICES ASSUME TypeOK, TypeOK', KeyInv, [Next]_vars PROVE KeyInv'
  OBVIOUS
<1> USE PaymentsAssumption DEF Goto, Unlock, Key, Working, Making
<1>0. /\ \A c \in Calls : arg[c].key \in Keys /\ CallInv(c)
      /\ FreshInv /\ OwnerInv /\ TableInv
  BY DEF TypeOK, Requests, KeyInv
<1> USE DEF KeyInv, CallInv, FreshInv, OwnerInv, TableInv
<1>1. ASSUME NEW c \in Calls, NEW q \in Requests, Begin(c, q) PROVE KeyInv'
  BY <1>0, <1>1 DEF Begin, TypeOK, tables
<1>2. ASSUME NEW c \in Calls, Reserve(c) PROVE KeyInv'
  <2>1. CASE results[Key(c)] = NoResult
    BY <1>0, <1>2, <2>1 DEF Reserve, KeyFree, TypeOK, tables
  <2>2. CASE results[Key(c)] # NoResult
    BY <1>0, <1>2, <2>2 DEF Reserve, KeyFree, TypeOK, tables
  <2> QED
    BY <2>1, <2>2
<1>3. ASSUME NEW c \in Calls, Replay(c) PROVE KeyInv'
  BY <1>0, <1>3 DEF Replay, TypeOK, tables
<1>4. ASSUME NEW c \in Calls, NewPayment(c) PROVE KeyInv'
  <2>1. /\ nextId \in Ids /\ nextId' = nextId + 1
        /\ pc[c] = "reserved" /\ pc' = [pc EXCEPT ![c] = "paid"]
        /\ made' = [made EXCEPT ![c] = nextId]
        /\ UNCHANGED <<arg, keyOwner, results, payments, answers>>
    BY <1>4 DEF NewPayment, TypeOK, Ids, tables
  <2>2. ASSUME NEW d \in Calls PROVE CallInv(d)'
    <3>1. CASE d = c
      BY <1>0, <2>1, <3>1 DEF TypeOK, Ids
    <3>2. CASE d # c
      BY <1>0, <2>1, <3>2 DEF TypeOK, Ids
    <3> QED
      BY <3>1, <3>2
  <2>3. FreshInv'
    <3>1. \A p \in payments : p.id # nextId
      BY <1>0 DEF TypeOK, PaymentRows, Ids
    <3>2. \A d \in Calls : pc[d] \in Making => made[d] # nextId
      BY <1>0 DEF TypeOK, Ids
    <3>3. \A d \in Calls \ {c} : pc'[d] = pc[d] /\ made'[d] = made[d]
      BY <2>1 DEF TypeOK
    <3> QED
      BY <1>0, <2>1, <3>1, <3>2, <3>3 DEF TypeOK
  <2>4. OwnerInv' /\ TableInv'
    BY <1>0, <2>1 DEF TypeOK, PaymentRows, Ids
  <2> QED
    BY <2>2, <2>3, <2>4
<1>5. ASSUME NEW c \in Calls, Post(c) PROVE KeyInv'
  BY <1>0, <1>5 DEF Post, TypeOK, tables
<1>6. ASSUME NEW c \in Calls, SaveResult(c) PROVE KeyInv'
  BY <1>0, <1>6 DEF SaveResult, TypeOK, tables
<1>7. ASSUME NEW c \in Calls, Commit(c) PROVE KeyInv'
  <2> DEFINE k == arg[c].key
             new == [id |-> made[c], key |-> k, merchant |-> arg[c].merchant,
                     amount |-> arg[c].amount, state |-> "captured"]
  <2>1. /\ pc[c] = "saved" /\ pc' = [pc EXCEPT ![c] = "done"]
        /\ results' = [results EXCEPT ![k] = made[c]]
        /\ payments' = payments \cup {new}
        /\ keyOwner' = [j \in Keys |-> IF keyOwner[j] = c THEN NoCall ELSE keyOwner[j]]
        /\ UNCHANGED <<arg, made, nextId, answers>>
    BY <1>7, ChargeCaptures DEF Commit, Result
  <2>2. /\ k \in Keys /\ keyOwner[k] = c /\ results[k] = NoResult
        /\ made[c] \in Ids /\ made[c] < nextId /\ made[c] # NoResult
        /\ \A p \in payments : p.id # made[c]
        /\ new.id = made[c] /\ new.key = k
    BY <1>0, <2>1 DEF Ids
  <2>3. \A p \in payments : p.key # k /\ p.key \in Keys
    BY <1>0, <2>2 DEF TypeOK, PaymentRows, Ids
  <2>4. \A a \in answers : a[1] # k /\ a[1] \in Keys
    BY <1>0, <2>2 DEF TypeOK, Ids
  <2>5. /\ \A j \in Keys : results'[j] = IF j = k THEN made[c] ELSE results[j]
        /\ \A d \in Calls : pc'[d] = IF d = c THEN "done" ELSE pc[d]
        /\ \A j \in Keys : keyOwner'[j] = IF keyOwner[j] = c THEN NoCall ELSE keyOwner[j]
    BY <2>1, <2>2 DEF TypeOK
  <2> HIDE DEF k, new
  <2>6. ASSUME NEW d \in Calls PROVE CallInv(d)'
    <3>1. CASE d = c
      BY <1>0, <2>1, <2>2, <2>5, <3>1 DEF k
    <3>2. CASE d # c
      BY <1>0, <2>1, <2>2, <2>5, <3>2 DEF k
    <3> QED
      BY <3>1, <3>2
  <2>7. FreshInv'
    BY <1>0, <2>1, <2>2, <2>5
  <2>8. OwnerInv'
    BY <1>0, <2>1, <2>5 DEF TypeOK
  <2>9. TableInv'
    BY <1>0, <2>1, <2>2, <2>3, <2>4, <2>5
  <2> QED
    BY <2>6, <2>7, <2>8, <2>9
<1>8. ASSUME NEW c \in Calls, Answer(c) PROVE KeyInv'
  BY <1>0, <1>8 DEF Answer, Answerable, TypeOK, tables
<1>9. ASSUME NEW c \in Calls, Fail(c) PROVE KeyInv'
  BY <1>0, <1>9 DEF Fail, TypeOK, tables
<1>10. CASE UNCHANGED vars
  BY <1>10 DEF vars, tables
<1> QED
  BY <1>1, <1>2, <1>3, <1>4, <1>5, <1>6, <1>7, <1>8, <1>9, <1>10 DEF Next, Advance

\* Each step keeps the ledger the sum of the payments.
LEMMA LedgerStep == LedgerMatchesPayments /\ [Next]_vars => LedgerMatchesPayments'
<1> SUFFICES ASSUME LedgerMatchesPayments, [Next]_vars PROVE LedgerMatchesPayments'
  OBVIOUS
<1>1. ASSUME NEW c \in Calls, Commit(c) PROVE LedgerMatchesPayments'
  <2> DEFINE new == [id |-> made[c], key |-> Key(c), merchant |-> arg[c].merchant,
                     amount |-> arg[c].amount, state |-> "captured"]
  <2>1. payments' = payments \cup {new} /\ ledger' = ledger \cup Legs(made[c], arg[c])
    BY <1>1, ChargeCaptures DEF Commit
  <2>2. /\ new.state = "captured"
        /\ Legs(made[c], arg[c]) = {[id |-> new.id, account |-> "customer", amount |-> -new.amount],
                                     [id |-> new.id, account |-> new.merchant, amount |-> new.amount]}
    BY DEF Legs
  <2> HIDE DEF new
  <2> QED
    BY <2>1, <2>2 DEF LedgerMatchesPayments
<1>2. CASE UNCHANGED <<payments, ledger>>
  BY <1>2 DEF LedgerMatchesPayments
<1> QED
  BY <1>1, <1>2 DEF Next, Advance, Begin, Reserve, Replay, NewPayment, Post, SaveResult,
                    Answer, Fail, vars, tables

\* The inductive invariant holds in every reachable state.
THEOREM Invariance == Spec => []IInv
<1>1. Init => IInv
  BY PaymentsAssumption
     DEF Init, IInv, TypeOK, KeyInv, LedgerMatchesPayments, Ids, Working, Making,
         CallInv, FreshInv, OwnerInv, TableInv
<1>2. IInv /\ [Next]_vars => IInv'
  BY TypeStep, KeyStep, LedgerStep DEF IInv
<1> QED
  BY <1>1, <1>2, PTL DEF Spec

\* The service's state keeps its types.
THEOREM TypeCorrect == Spec => []TypeOK
  BY Invariance, PTL DEF IInv

\* No idempotency key is charged twice, and all answers for one key name its one
\* committed payment, whatever the calls ask for.
THEOREM NeverChargedTwice == Spec => []OneOutcomePerKey
<1>1. IInv => OnePaymentPerKey
  BY DEF IInv, KeyInv, TableInv, OnePaymentPerKey
<1>2. IInv => AnswersAgree
  <2> SUFFICES ASSUME IInv PROVE AnswersAgree
    OBVIOUS
  <2>1. ASSUME NEW a \in answers
        PROVE  a = <<a[1], a[2]>> /\ a[1] \in Keys /\ a[2] \in Ids /\ results[a[1]] = a[2]
    BY DEF IInv, TypeOK, KeyInv, TableInv
  <2>2. ASSUME NEW a \in answers PROVE \E p \in payments : p.key = a[1] /\ p.id = a[2]
    BY <2>1, PaymentsAssumption DEF IInv, KeyInv, TableInv, Ids
  <2> QED
    BY <2>1, <2>2 DEF AnswersAgree
<1> QED
  BY <1>1, <1>2, Invariance, PTL DEF OneOutcomePerKey

\* The ledger holds the two legs of each committed payment and nothing else.
THEOREM LedgerIsPayments == Spec => []LedgerMatchesPayments
  BY Invariance, PTL DEF IInv
=============================================================================
