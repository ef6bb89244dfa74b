-------------------------- MODULE ChatRoutingProofs --------------------------
(***************************************************************************)
(* Messages of the chat are not lost, receipts are true and nobody is      *)
(* stranded: for any servers, users, connections, texts and failures.      *)
(*                                                                         *)
(* The first invariant says that whatever is under way (a step of a        *)
(* coroutine, a message on a channel or in an inbox) is genuine: a receipt *)
(* has something to acknowledge.  The second is about a run in which       *)
(* nothing has failed: who is connected and not displaced has a socket at  *)
(* the server of each of their connections, and at the one presence names  *)
(* (Places); and if they drained the inbox at a server that listened, each *)
(* message in it has a step that will bring it to a socket of theirs, is   *)
(* on the channel, or is left to a connection still to drain (Waiting).    *)
(***************************************************************************)
EXTENDS ChatRouting, FiniteSetTheorems, TLAPS

-----------------------------------------------------------------------------
(* Sequences *)

In(e, s) == \E i \in 1..Len(s) : s[i] = e

LEMMA InNone == \A e : ~In(e, << >>)
BY DEF In

LEMMA InOne == \A e, a : In(e, <<a>>) <=> e = a
BY DEF In

LEMMA InHeadTail ==
  ASSUME NEW S, NEW s \in Seq(S), s # << >>
  PROVE  /\ Head(s) \in S /\ Tail(s) \in Seq(S)
         /\ \A e : In(e, s) <=> e = Head(s) \/ In(e, Tail(s))
<1>1. Head(s) \in S /\ Tail(s) \in Seq(S) /\ Head(s) = s[1] /\ Len(s) \in Nat /\ Len(s) >= 1
  OBVIOUS
<1>2. Len(Tail(s)) = Len(s) - 1 /\ \A i \in 1..(Len(s) - 1) : Tail(s)[i] = s[i + 1]
  OBVIOUS
<1>3. ASSUME NEW e, In(e, s) PROVE e = Head(s) \/ In(e, Tail(s))
  <2>1. PICK i \in 1..Len(s) : s[i] = e
    BY <1>3 DEF In
  <2>2. CASE i = 1
    BY <1>1, <2>1, <2>2
  <2>3. CASE i # 1
    <3>1. i - 1 \in 1..(Len(s) - 1) /\ (i - 1) + 1 = i
      BY <1>1, <2>3
    <3>2. Tail(s)[i - 1] = e
      BY <1>2, <2>1, <3>1
    <3> QED
      BY <1>2, <3>1, <3>2 DEF In
  <2> QED
    BY <2>2, <2>3
<1>4. ASSUME NEW e, e = Head(s) PROVE In(e, s)
  BY <1>1, <1>4 DEF In
<1>5. ASSUME NEW e, In(e, Tail(s)) PROVE In(e, s)
  <2>1. PICK i \in 1..(Len(s) - 1) : Tail(s)[i] = e
    BY <1>2, <1>5 DEF In
  <2>2. s[i + 1] = e /\ i + 1 \in 1..Len(s)
    BY <1>1, <1>2, <2>1
  <2> QED
    BY <2>2 DEF In
<1> QED
  BY <1>1, <1>3, <1>4, <1>5

LEMMA InConcat ==
  ASSUME NEW S, NEW p \in Seq(S), NEW q \in Seq(S)
  PROVE  p \o q \in Seq(S) /\ \A e : In(e, p \o q) <=> In(e, p) \/ In(e, q)
<1>1. /\ p \o q \in Seq(S) /\ Len(p) \in Nat /\ Len(q) \in Nat /\ Len(p \o q) = Len(p) + Len(q)
      /\ \A i \in 1..Len(p) : (p \o q)[i] = p[i]
      /\ \A i \in 1..Len(q) : (p \o q)[Len(p) + i] = q[i]
  OBVIOUS
<1> DEFINE r == p \o q
<1> HIDE DEF r
<1>2. /\ Len(r) = Len(p) + Len(q)
      /\ \A i \in 1..Len(p) : r[i] = p[i]
      /\ \A i \in 1..Len(q) : r[Len(p) + i] = q[i]
  BY <1>1 DEF r
<1>3. ASSUME NEW e, In(e, r) PROVE In(e, p) \/ In(e, q)
  <2>1. PICK i \in 1..Len(r) : r[i] = e
    BY <1>3 DEF In
  <2>2. CASE i <= Len(p)
    BY <1>1, <1>2, <2>1, <2>2 DEF In
  <2>3. CASE i > Len(p)
    <3>1. i - Len(p) \in 1..Len(q) /\ Len(p) + (i - Len(p)) = i
      BY <1>1, <1>2, <2>3
    <3>2. q[i - Len(p)] = e
      BY <1>2, <2>1, <3>1
    <3> QED
      BY <3>1, <3>2 DEF In
  <2> QED
    BY <1>1, <2>1, <2>2, <2>3
<1>4. ASSUME NEW e, In(e, p) PROVE In(e, r)
  BY <1>1, <1>2, <1>4 DEF In
<1>5. ASSUME NEW e, In(e, q) PROVE In(e, r)
  <2>1. PICK i \in 1..Len(q) : q[i] = e
    BY <1>5 DEF In
  <2>2. Len(p) + i \in 1..Len(r) /\ r[Len(p) + i] = e
    BY <1>1, <1>2, <2>1
  <2> QED
    BY <2>2 DEF In
<1> QED
  BY <1>1, <1>3, <1>4, <1>5 DEF r

\* An order of a finite set is a sequence of all its elements.
LEMMA InOrder ==
  ASSUME NEW S, IsFiniteSet(S), NEW f \in SetToSeqs(S)
  PROVE  f \in Seq(S) /\ DOMAIN f = 1..Len(f) /\ \A e \in S : In(e, f)
<1> DEFINE n == Cardinality(S)
<1>1. n \in Nat
  BY FS_CardinalityType
<1>2. f \in [1..n -> S] /\ \A i, j \in 1..n : i # j => f[i] # f[j]
  BY DEF SetToSeqs
<1> HIDE DEF n
<1>3. f \in Seq(S) /\ Len(f) = n
  BY <1>1, <1>2
<1>4. ASSUME NEW e \in S, ~In(e, f) PROVE FALSE
  <2>1. f \in [1..n -> S \ {e}]
    BY <1>1, <1>2, <1>3, <1>4 DEF In
  <2>2. IsFiniteSet(S \ {e}) /\ Cardinality(S \ {e}) = n - 1
    BY FS_RemoveElement DEF n
  <2>3. IsFiniteSet(1..n) /\ Cardinality(1..n) = n
    BY <1>1, FS_Interval
  <2> QED
    BY <1>1, <1>2, <2>1, <2>2, <2>3, FS_PigeonHole
<1> QED
  BY <1>2, <1>3, <1>4

-----------------------------------------------------------------------------
(* What is under way is genuine *)

\* The text a receipt acknowledges.
Acknowledged(m) == [id |-> m.id, kind |-> "msg", from |-> m.to, to |-> m.from]

Genuine(m) == m \in Messages /\ (m.kind = "delivered" => Acknowledged(m) \in sent)

Sound(st) ==
  /\ Genuine(st.msg)
  /\ st.op = "ack" => st.msg \in sent
  /\ st.op = "publish" => st.to \in Servers

Registered ==
  \A c \in Conns :
    /\ phase[c] \notin {"new", "closed"} => user[c] \in Users /\ server[c] \in Servers
    /\ c \in present => phase[c] \in {"online", "drain", "draining", "loop"}

UnderWay == \A x \in Coroutines : \A st : In(st, todo[x]) => Sound(st)
Published == \A s \in Servers : \A m : In(m, bus[s]) => Genuine(m)
Stored == \A u \in Users : IsFiniteSet(inbox[u]) /\ \A m \in inbox[u] : Genuine(m) /\ m.to = u
Past == \A m \in accepted \cup sent : Genuine(m)

Inv == TypeOK /\ Registered /\ UnderWay /\ Published /\ Stored /\ Past /\ NothingLost

LEMMA InitInv == Init => Inv
<1> SUFFICES ASSUME Init PROVE Inv
  OBVIOUS
<1>1. TypeOK
  <2>1. todo \in [Coroutines -> Seq(Steps)] /\ bus \in [Servers -> Seq(Messages)]
        /\ \A c \in Conns : todo[c] = << >>
    BY DEF Init, Coroutines
  <2>2. sender \in [Servers -> [Users -> Conns \cup {NoConn}]] /\ inbox \in [Users -> SUBSET Messages]
    BY DEF Init
  <2> QED
    BY <2>1, <2>2, ChatAssumption DEF Init, TypeOK
<1>2. Registered /\ Past /\ NothingLost
  BY DEF Init, Registered, Past, NothingLost
<1>3. UnderWay /\ Published
  BY InNone DEF Init, UnderWay, Published
<1>4. Stored
  BY FS_EmptySet DEF Init, Stored
<1> QED
  BY <1>1, <1>2, <1>3, <1>4 DEF Inv

\* No step takes back what a socket got.
Keeps == sent \subseteq sent'

LEMMA GenuineKept ==
  ASSUME Keeps
  PROVE  (\A m : Genuine(m) => Genuine(m)') /\ (\A st : Sound(st) => Sound(st)')
BY DEF Keeps, Genuine, Sound

LEMMA KindsOfUsers == \A m \in Messages : m.from \in Users /\ m.to \in Users /\ m.id \in Texts
BY DEF Messages

\* A new step of a handler is all it has to do.
LEMMA StepIsOne ==
  ASSUME NEW op \in {"add", "route", "deliver", "ack", "lookup", "publish"}, NEW m \in Messages
  PROVE  /\ Step(op, m) \in Steps /\ <<Step(op, m)>> \in Seq(Steps)
         /\ \A st : In(st, <<Step(op, m)>>) <=> st = Step(op, m)
<1>1. Step(op, m) \in Steps
  BY DEF Step, Steps
<1> QED
  BY <1>1, InOne

\* What a coroutine has to do after its first step gave way to others.
LEMMA Replaced ==
  ASSUME TypeOK, NEW x \in Coroutines, todo[x] # << >>, NEW p \in Seq(Steps), Replace(x, p)
  PROVE  /\ todo' \in [Coroutines -> Seq(Steps)]
         /\ Head(todo[x]) \in Steps /\ In(Head(todo[x]), todo[x])
         /\ \A y \in Coroutines \ {x} : todo'[y] = todo[y]
         /\ \A st : In(st, todo'[x]) <=> In(st, p) \/ In(st, Tail(todo[x]))
         /\ \A st : In(st, todo[x]) <=> st = Head(todo[x]) \/ In(st, Tail(todo[x]))
<1>1. todo \in [Coroutines -> Seq(Steps)] /\ todo[x] \in Seq(Steps)
  BY DEF TypeOK
<1>2. /\ Head(todo[x]) \in Steps /\ Tail(todo[x]) \in Seq(Steps)
      /\ \A st : In(st, todo[x]) <=> st = Head(todo[x]) \/ In(st, Tail(todo[x]))
  BY <1>1, InHeadTail
<1>3. /\ p \o Tail(todo[x]) \in Seq(Steps)
      /\ \A st : In(st, p \o Tail(todo[x])) <=> In(st, p) \/ In(st, Tail(todo[x]))
  BY <1>2, InConcat
<1>4. todo' = [todo EXCEPT ![x] = p \o Tail(todo[x])]
  BY DEF Replace
<1>5. todo'[x] = p \o Tail(todo[x]) /\ \A y \in Coroutines \ {x} : todo'[y] = todo[y]
  BY <1>1, <1>4
<1>6. todo' \in [Coroutines -> Seq(Steps)]
  BY <1>1, <1>3, <1>4
<1> QED
  BY <1>2, <1>3, <1>5, <1>6

\* A step of the router leaves the connections alone, and what it adds is sound.
LEMMA RouterStep ==
  ASSUME Inv, NEW x \in Coroutines, todo[x] # << >>, NEW p \in Seq(Steps), Replace(x, p), Keeps,
         \A st : In(st, p) => Sound(st)',
         UNCHANGED <<conn, sender, subscriber, presence, displaced, early, bounds>>
  PROVE  /\ Registered' /\ UnderWay'
         /\ bus' \in [Servers -> Seq(Messages)] /\ inbox' \in [Users -> SUBSET Messages]
              /\ accepted' \subseteq Messages /\ sent' \subseteq Messages /\ received' \subseteq sent'
            => TypeOK'
<1>1. /\ todo' \in [Coroutines -> Seq(Steps)]
      /\ \A y \in Coroutines \ {x} : todo'[y] = todo[y]
      /\ \A st : In(st, todo'[x]) <=> In(st, p) \/ In(st, Tail(todo[x]))
      /\ \A st : In(st, todo[x]) <=> st = Head(todo[x]) \/ In(st, Tail(todo[x]))
  BY Replaced DEF Inv
<1>2. Registered'
  BY DEF Inv, Registered, conn
<1>3. UnderWay'
  <2> SUFFICES ASSUME NEW y \in Coroutines, NEW st, In(st, todo'[y]) PROVE Sound(st)'
    BY DEF UnderWay
  <2>1. CASE In(st, todo[y])
    BY <2>1, GenuineKept DEF Inv, UnderWay
  <2>2. CASE ~In(st, todo[y])
    BY <1>1, <2>2
  <2> QED
    BY <2>1, <2>2
<1>4. ASSUME NEW c \in Conns, todo'[c] # << >> PROVE phase'[c] \in {"draining", "loop"}
  <2>1. c \in Coroutines /\ (c = x => todo[c] # << >>)
    BY DEF Coroutines
  <2>2. todo[c] # << >>
    BY <1>1, <1>4, <2>1
  <2> QED
    BY <2>2 DEF Inv, TypeOK, conn
<1> QED
  BY <1>1, <1>2, <1>3, <1>4 DEF Inv, TypeOK, conn, bounds

\* The first step of a coroutine is for a genuine message.
LEMMA FirstStep ==
  ASSUME Inv, NEW x \in Coroutines, todo[x] # << >>
  PROVE  /\ Head(todo[x]) \in Steps /\ Sound(Head(todo[x]))
         /\ Message(x) \in Messages /\ Genuine(Message(x)) /\ Message(x).to \in Users
<1>1. todo[x] \in Seq(Steps)
  BY DEF Inv, TypeOK
<1>2. Head(todo[x]) \in Steps /\ In(Head(todo[x]), todo[x])
  BY <1>1, InHeadTail
<1>3. Sound(Head(todo[x]))
  BY <1>2 DEF Inv, UnderWay
<1> QED
  BY <1>2, <1>3, KindsOfUsers DEF Sound, Message, Steps

\* What HSET and HDEL leave in an inbox: the rows with another key.
Unlike(S, m) == {n \in S : Key(n) # Key(m)}

LEMMA AddInv == ASSUME Inv, NEW x \in Coroutines, Add(x) PROVE Inv'
<1> DEFINE m == Message(x)
           u == m.to
<1>1. todo[x] # << >>
  BY DEF Add, Now
<1>2. m \in Messages /\ Genuine(m) /\ u \in Users
  BY <1>1, FirstStep
<1>3. /\ inbox' = [inbox EXCEPT ![u] = Unlike(@, m) \cup {m}] /\ accepted' = accepted \cup {m}
      /\ Replace(x, <<Step("route", m)>>)
      /\ UNCHANGED <<conn, sender, subscriber, presence, bus, sent, received, displaced, early, bounds>>
  BY DEF Add, Unlike
<1>4. Keeps
  BY <1>3 DEF Keeps
<1> HIDE DEF m
<1>5. \A st : In(st, <<Step("route", m)>>) => Sound(st)'
  <2>1. Sound(Step("route", m))
    BY <1>2 DEF Sound, Step
  <2> QED
    BY <1>2, <1>4, <2>1, StepIsOne, GenuineKept
<1>6. /\ inbox' \in [Users -> SUBSET Messages]
      /\ inbox'[u] = Unlike(inbox[u], m) \cup {m} /\ Unlike(inbox[u], m) \subseteq inbox[u]
      /\ \A v \in Users \ {u} : inbox'[v] = inbox[v]
  <2>1. Unlike(inbox[u], m) \subseteq inbox[u]
    BY DEF Unlike
  <2> QED
    BY <1>2, <1>3, <2>1 DEF Inv, TypeOK
<1> HIDE DEF u
<1>7. TypeOK' /\ Registered' /\ UnderWay'
  BY <1>1, <1>2, <1>3, <1>4, <1>5, <1>6, StepIsOne, RouterStep DEF Inv, TypeOK
<1>8. Published' /\ Past'
  BY <1>2, <1>3, <1>4, GenuineKept DEF Inv, Published, Past
<1>9. Stored'
  <2> SUFFICES ASSUME NEW v \in Users
               PROVE  IsFiniteSet(inbox'[v]) /\ \A n \in inbox'[v] : Genuine(n)' /\ n.to = v
    BY DEF Stored
  <2>1. IsFiniteSet(inbox[v])
    BY DEF Inv, Stored
  <2>2. CASE v = u
    <3>1. IsFiniteSet(Unlike(inbox[u], m))
      BY <1>6, <2>1, <2>2, FS_Subset
    <3>2. IsFiniteSet(inbox'[v])
      BY <1>6, <2>2, <3>1, FS_AddElement
    <3> QED
      BY <1>2, <1>4, <1>6, <2>2, <3>2, GenuineKept DEF Inv, Stored, u
  <2>3. CASE v # u
    BY <1>4, <1>6, <2>1, <2>3, GenuineKept DEF Inv, Stored
  <2> QED
    BY <2>2, <2>3
<1>10. NothingLost'
  <2> SUFFICES ASSUME NEW k \in accepted \cup {m} PROVE \E n \in inbox'[k.to] \cup sent' : SameRow(k, n)
    BY <1>3 DEF NothingLost
  <2>1. CASE k = m
    BY <1>6, <2>1 DEF SameRow, u
  <2>2. CASE k # m
    <3>1. PICK n \in inbox[k.to] \cup sent : SameRow(k, n)
      BY <2>2 DEF Inv, NothingLost
    <3>2. k.to \in Users
      BY <2>2, KindsOfUsers DEF Inv, TypeOK
    <3>3. CASE n \in sent
      BY <1>3, <3>1, <3>3
    <3>4. CASE n \in inbox[k.to] /\ n \in inbox'[k.to]
      BY <3>1, <3>4
    <3>5. CASE n \in inbox[k.to] /\ n \notin inbox'[k.to]
      <4>1. k.to = u /\ Key(n) = Key(m)
        BY <1>6, <3>2, <3>5 DEF Unlike
      <4>2. SameRow(k, m) /\ m \in inbox'[k.to]
        BY <1>6, <3>1, <4>1 DEF SameRow, u
      <4> QED
        BY <4>2
    <3> QED
      BY <3>1, <3>3, <3>4, <3>5
  <2> QED
    BY <2>1, <2>2
<1> QED
  BY <1>7, <1>8, <1>9, <1>10 DEF Inv

LEMMA DeliverInv == ASSUME Inv, NEW x \in Coroutines, Deliver(x) PROVE Inv'
<1>0. PICK m : m = Message(x)
  OBVIOUS
<1> DEFINE c == sender[Here(x)][m.to]
<1>1. todo[x] # << >>
  BY DEF Deliver, Now
<1>2. m \in Messages /\ Genuine(m)
  BY <1>0, <1>1, FirstStep
<1>3. UNCHANGED <<conn, sender, subscriber, redis, accepted, displaced, early, bounds>>
  BY DEF Deliver
<1>4. CASE c # NoConn
  <2>1. /\ sent' = sent \cup {m} /\ received' = received \cup (IF c \in present THEN {m} ELSE {})
        /\ Replace(x, <<Step("ack", m)>>)
    BY <1>0, <1>4 DEF Deliver
  <2>2. Keeps
    BY <1>3, <2>1 DEF Keeps
  <2>3. \A st : In(st, <<Step("ack", m)>>) => Sound(st)'
    <3>1. Genuine(m)'
      BY <1>2, <2>2, GenuineKept
    <3>2. Sound(Step("ack", m))'
      BY <2>1, <3>1 DEF Sound, Step
    <3> QED
      BY <1>2, <3>2, StepIsOne
  <2> HIDE DEF c
  <2>4. TypeOK' /\ Registered' /\ UnderWay'
    BY <1>1, <1>2, <1>3, <2>1, <2>2, <2>3, StepIsOne, RouterStep DEF Inv, TypeOK, redis
  <2>5. Published' /\ Past' /\ Stored'
    BY <1>2, <1>3, <2>1, <2>2, GenuineKept DEF Inv, Published, Past, Stored, redis
  <2>6. NothingLost'
    BY <1>3, <2>1, <2>2, GenuineKept DEF Inv, NothingLost, Past, redis
  <2> QED
    BY <2>4, <2>5, <2>6 DEF Inv
<1>5. CASE c = NoConn
  <2>1. Replace(x, Undelivered(m, Now(x, "route"))) /\ UNCHANGED <<sent, received>>
    BY <1>0, <1>5 DEF Deliver
  <2>2. Keeps
    BY <1>3, <2>1 DEF Keeps
  <2> HIDE DEF c
  <2>3. Undelivered(m, Now(x, "route")) \in Seq(Steps) /\ \A st : In(st, Undelivered(m, Now(x, "route"))) => Sound(st)'
    <3>1. Sound(Step("lookup", m))'
      BY <1>2, <2>2, GenuineKept DEF Sound, Step
    <3> QED
      BY <1>2, <3>1, StepIsOne, InNone DEF Undelivered
  <2>4. TypeOK' /\ Registered' /\ UnderWay'
    BY <1>1, <1>3, <2>1, <2>2, <2>3, RouterStep DEF Inv, TypeOK, redis
  <2>5. Published' /\ Past' /\ Stored' /\ NothingLost'
    BY <1>3, <2>1, <2>2, GenuineKept DEF Inv, Published, Past, Stored, NothingLost, redis
  <2> QED
    BY <2>4, <2>5 DEF Inv
<1> QED
  BY <1>4, <1>5

LEMMA AckInv == ASSUME Inv, NEW x \in Coroutines, Ack(x) PROVE Inv'
<1> DEFINE m == Message(x)
           u == m.to
<1>1. todo[x] # << >> /\ Head(todo[x]).op = "ack"
  BY DEF Ack, Now
<1>2. m \in Messages /\ Genuine(m) /\ u \in Users /\ m \in sent
  BY <1>1, FirstStep DEF Sound, Message
<1>3. /\ inbox' = [inbox EXCEPT ![u] = Unlike(@, m)] /\ Replace(x, AfterAck(m))
      /\ UNCHANGED <<conn, sender, subscriber, presence, bus, history, bounds>>
  BY DEF Ack, Unlike
<1>4. Keeps
  BY <1>3 DEF Keeps, history
<1> HIDE DEF m
<1>5. AfterAck(m) \in Seq(Steps) /\ \A st : In(st, AfterAck(m)) => Sound(st)'
  <2>1. CASE m.kind = "msg"
    <3>1. Receipt(m) \in Messages /\ Acknowledged(Receipt(m)) = m
      BY <1>2, <2>1, KindsOfUsers DEF Messages, Receipt, Acknowledged
    <3>2. Genuine(Receipt(m))
      BY <1>2, <3>1 DEF Genuine
    <3>3. Sound(Step("add", Receipt(m)))
      BY <3>2 DEF Sound, Step
    <3>4. AfterAck(m) = <<Step("add", Receipt(m))>>
      BY <2>1 DEF AfterAck
    <3> QED
      BY <1>4, <3>1, <3>3, <3>4, StepIsOne, GenuineKept
  <2>2. CASE m.kind # "msg"
    BY <2>2, InNone DEF AfterAck
  <2> QED
    BY <2>1, <2>2
<1>6. /\ inbox' \in [Users -> SUBSET Messages]
      /\ inbox'[u] = Unlike(inbox[u], m) /\ Unlike(inbox[u], m) \subseteq inbox[u]
      /\ \A v \in Users \ {u} : inbox'[v] = inbox[v]
  <2>1. Unlike(inbox[u], m) \subseteq inbox[u]
    BY DEF Unlike
  <2> QED
    BY <1>2, <1>3, <2>1 DEF Inv, TypeOK
<1> HIDE DEF u
<1>7. TypeOK' /\ Registered' /\ UnderWay'
  BY <1>1, <1>3, <1>4, <1>5, <1>6, RouterStep DEF Inv, TypeOK, history
<1>8. Published' /\ Past'
  BY <1>3, <1>4, GenuineKept DEF Inv, Published, Past, history
<1>9. Stored'
  <2> SUFFICES ASSUME NEW v \in Users
               PROVE  IsFiniteSet(inbox'[v]) /\ \A n \in inbox'[v] : Genuine(n)' /\ n.to = v
    BY DEF Stored
  <2>1. inbox'[v] \subseteq inbox[v] /\ IsFiniteSet(inbox[v])
    BY <1>6 DEF Inv, Stored
  <2>2. IsFiniteSet(inbox'[v])
    BY <2>1, FS_Subset
  <2> QED
    BY <1>4, <2>1, <2>2, GenuineKept DEF Inv, Stored
<1>10. NothingLost'
  <2> SUFFICES ASSUME NEW k \in accepted PROVE \E n \in inbox'[k.to] \cup sent : SameRow(k, n)
    BY <1>3 DEF NothingLost, history
  <2>1. PICK n \in inbox[k.to] \cup sent : SameRow(k, n)
    BY DEF Inv, NothingLost
  <2>2. k.to \in Users
    BY KindsOfUsers DEF Inv, TypeOK
  <2>3. CASE n \in sent \/ n \in inbox'[k.to]
    BY <2>1, <2>3
  <2>4. CASE n \in inbox[k.to] /\ n \notin inbox'[k.to]
    <3>1. k.to = u /\ Key(n) = Key(m)
      BY <1>6, <2>2, <2>4 DEF Unlike
    <3>2. SameRow(k, m)
      BY <2>1, <3>1 DEF SameRow, u
    <3> QED
      BY <1>2, <3>2
  <2> QED
    BY <2>1, <2>3, <2>4
<1> QED
  BY <1>7, <1>8, <1>9, <1>10 DEF Inv

LEMMA LookupInv == ASSUME Inv, NEW x \in Coroutines, Lookup(x) PROVE Inv'
<1>0. PICK m, s : m = Message(x) /\ s = presence[m.to]
  OBVIOUS
<1> DEFINE p == IF s \in Servers \ {Here(x)} THEN <<[op |-> "publish", msg |-> m, to |-> s]>> ELSE << >>
<1>1. todo[x] # << >>
  BY DEF Lookup, Now
<1>2. m \in Messages /\ Genuine(m)
  BY <1>0, <1>1, FirstStep
<1>3. Replace(x, p) /\ UNCHANGED <<conn, sender, subscriber, redis, history, bounds>>
  BY <1>0 DEF Lookup
<1>4. Keeps
  BY <1>3 DEF Keeps, history
<1>5. p \in Seq(Steps) /\ \A st : In(st, p) => Sound(st)'
  <2>1. CASE s \in Servers \ {Here(x)}
    <3> DEFINE st == [op |-> "publish", msg |-> m, to |-> s]
    <3>1. st \in Steps
      BY <1>2, <2>1 DEF Steps
    <3>2. Sound(st)'
      BY <1>2, <1>4, <2>1, GenuineKept DEF Sound
    <3>3. p = <<st>>
      BY <2>1
    <3>4. <<st>> \in Seq(Steps) /\ \A e : In(e, <<st>>) => e = st
      BY <3>1, InOne
    <3> HIDE DEF p
    <3> QED
      BY <3>2, <3>3, <3>4
  <2>2. CASE s \notin Servers \ {Here(x)}
    BY <2>2, InNone
  <2> QED
    BY <2>1, <2>2
<1> HIDE DEF p
<1>6. TypeOK' /\ Registered' /\ UnderWay'
  BY <1>1, <1>3, <1>4, <1>5, RouterStep DEF Inv, TypeOK, history, redis
<1>7. Published' /\ Past' /\ Stored' /\ NothingLost'
  BY <1>3, <1>4, GenuineKept DEF Inv, Published, Past, Stored, NothingLost, history, redis
<1> QED
  BY <1>6, <1>7 DEF Inv

LEMMA PublishInv == ASSUME Inv, NEW x \in Coroutines, Publish(x) PROVE Inv'
<1> DEFINE m == Message(x)
           s == Head(todo[x]).to
<1>1. todo[x] # << >> /\ Head(todo[x]).op = "publish"
  BY DEF Publish, Now
<1>2. m \in Messages /\ Genuine(m) /\ s \in Servers
  BY <1>1, FirstStep DEF Sound
<1>3. /\ Replace(x, << >>) /\ bus' = [bus EXCEPT ![s] = IF subscriber[s] = "listening" THEN Append(@, m) ELSE @]
      /\ UNCHANGED <<conn, sender, subscriber, presence, inbox, history, bounds>>
  BY DEF Publish
<1>4. Keeps
  BY <1>3 DEF Keeps, history
<1> HIDE DEF m, s
<1>5. /\ bus' \in [Servers -> Seq(Messages)]
      /\ \A t \in Servers : \A n : In(n, bus'[t]) => In(n, bus[t]) \/ n = m
  <2>1. bus \in [Servers -> Seq(Messages)] /\ bus[s] \in Seq(Messages) /\ <<m>> \in Seq(Messages)
    BY <1>2 DEF Inv, TypeOK
  <2>2. Append(bus[s], m) = bus[s] \o <<m>>
    BY <2>1
  <2>3. bus[s] \o <<m>> \in Seq(Messages) /\ \A n : In(n, bus[s] \o <<m>>) => In(n, bus[s]) \/ n = m
    BY <2>1, InConcat, InOne
  <2> QED
    BY <1>2, <1>3, <2>1, <2>2, <2>3
<1>6. TypeOK' /\ Registered' /\ UnderWay'
  <2>1. << >> \in Seq(Steps) /\ \A st : ~In(st, << >>)
    BY InNone
  <2>2. /\ bus' \in [Servers -> Seq(Messages)] /\ inbox' \in [Users -> SUBSET Messages]
        /\ accepted' \subseteq Messages /\ sent' \subseteq Messages /\ received' \subseteq sent'
    BY <1>3, <1>5 DEF Inv, TypeOK, history
  <2> QED
    BY <1>1, <1>3, <1>4, <2>1, <2>2, RouterStep DEF history
<1>7. Published'
  BY <1>2, <1>4, <1>5, GenuineKept DEF Inv, Published
<1>8. Past' /\ Stored' /\ NothingLost'
  BY <1>3, <1>4, GenuineKept DEF Inv, Past, Stored, NothingLost, history
<1> QED
  BY <1>6, <1>7, <1>8 DEF Inv

LEMMA ReceiveInv == ASSUME Inv, NEW s \in Servers, Receive(s) PROVE Inv'
<1> DEFINE m == Head(bus[s])
<1>1. bus[s] \in Seq(Messages) /\ bus[s] # << >>
  BY DEF Receive, Inv, TypeOK
<1>2. m \in Messages /\ Tail(bus[s]) \in Seq(Messages) /\ \A n : In(n, bus[s]) <=> n = m \/ In(n, Tail(bus[s]))
  BY <1>1, InHeadTail
<1>3. Genuine(m)
  BY <1>2 DEF Inv, Published
<1>4. /\ bus' = [bus EXCEPT ![s] = Tail(@)] /\ todo' = [todo EXCEPT ![s] = <<Step("deliver", m)>>]
      /\ UNCHANGED <<conn, sender, subscriber, presence, inbox, history, bounds>>
  BY DEF Receive
<1>5. Keeps /\ s \in Coroutines /\ \A c \in Conns : c \in Coroutines /\ c # s
  BY <1>4, ChatAssumption DEF Keeps, history, Coroutines
<1> HIDE DEF m
<1>6. bus' \in [Servers -> Seq(Messages)] /\ \A t \in Servers : \A n : In(n, bus'[t]) => In(n, bus[t])
  BY <1>2, <1>4 DEF Inv, TypeOK
<1>7. Sound(Step("deliver", m))
  BY <1>3 DEF Sound, Step
<1>8. /\ todo' \in [Coroutines -> Seq(Steps)]
      /\ \A x \in Coroutines : \A st : In(st, todo'[x]) => In(st, todo[x]) \/ st = Step("deliver", m)
  BY <1>2, <1>4, <1>5, StepIsOne DEF Inv, TypeOK
<1>9. \A c \in Conns : todo'[c] = todo[c]
  BY <1>4, <1>5 DEF Inv, TypeOK
<1>10. TypeOK'
  BY <1>4, <1>6, <1>8, <1>9 DEF Inv, TypeOK, conn, history, bounds
<1>11. UnderWay'
  BY <1>5, <1>7, <1>8, GenuineKept DEF Inv, UnderWay
<1>12. Published'
  BY <1>5, <1>6, GenuineKept DEF Inv, Published
<1>13. Registered' /\ Past' /\ Stored' /\ NothingLost'
  BY <1>4, <1>5, GenuineKept DEF Inv, Registered, Past, Stored, NothingLost, conn, history
<1> QED
  BY <1>10, <1>11, <1>12, <1>13 DEF Inv

-----------------------------------------------------------------------------
(* Connections *)

\* What the handlers and subscribers have to do stays, is new and sound, or is dropped.
LEMMA HandlerStep ==
  ASSUME Inv, Keeps, todo' \in [Coroutines -> Seq(Steps)],
         \A x \in Coroutines : \A st : In(st, todo'[x]) => In(st, todo[x]) \/ Sound(st)',
         \A s \in Servers : bus'[s] = bus[s] \/ bus'[s] = << >>,
         UNCHANGED <<inbox, accepted, sent>>
  PROVE  UnderWay' /\ Published' /\ Stored' /\ Past' /\ NothingLost'
<1>1. UnderWay'
  BY GenuineKept DEF Inv, UnderWay
<1>2. Published'
  BY GenuineKept, InNone DEF Inv, Published
<1>3. Stored' /\ Past' /\ NothingLost'
  BY GenuineKept DEF Inv, Stored, Past, NothingLost
<1> QED
  BY <1>1, <1>2, <1>3

LEMMA NoNewSteps ==
  ASSUME Inv, UNCHANGED <<todo, bus, inbox, accepted, sent, received>>
  PROVE  UnderWay' /\ Published' /\ Stored' /\ Past' /\ NothingLost'
<1>1. Keeps
  BY DEF Keeps
<1> QED
  BY <1>1, HandlerStep DEF Inv, TypeOK

LEMMA ConnectInv ==
  ASSUME Inv, NEW c \in Conns, NEW u \in Users, NEW s \in Servers, Connect(c, u, s)
  PROVE  Inv'
<1>1. UnderWay' /\ Published' /\ Stored' /\ Past' /\ NothingLost'
  BY NoNewSteps DEF Connect, redis, history
<1>2. TypeOK'
  <2>1. sender' \in [Servers -> [Users -> Conns \cup {NoConn}]]
    BY DEF Connect, Inv, TypeOK
  <2>2. \A d \in Conns : todo'[d] # << >> => phase'[d] \in {"draining", "loop"}
    BY DEF Connect, Inv, TypeOK
  <2> QED
    BY <2>1, <2>2 DEF Connect, redis, history, bounds, Inv, TypeOK
<1>3. Registered'
  BY DEF Connect, Inv, TypeOK, Registered
<1> QED
  BY <1>1, <1>2, <1>3 DEF Inv

LEMMA SetOnlineInv == ASSUME Inv, NEW c \in Conns, SetOnline(c) PROVE Inv'
<1>1. UnderWay' /\ Published' /\ Stored' /\ Past' /\ NothingLost'
  BY NoNewSteps DEF SetOnline
<1>2. user[c] \in Users /\ server[c] \in Servers
  BY DEF SetOnline, Inv, Registered
<1>3. TypeOK'
  <2>1. \A d \in Conns : todo'[d] # << >> => phase'[d] \in {"draining", "loop"}
    BY DEF SetOnline, Inv, TypeOK
  <2> QED
    BY <1>2, <2>1 DEF SetOnline, Displace, bounds, Inv, TypeOK
<1>4. Registered'
  BY DEF SetOnline, Inv, TypeOK, Registered
<1> QED
  BY <1>1, <1>3, <1>4 DEF Inv

LEMMA DrainInv == ASSUME Inv, NEW c \in Conns, Drain(c) PROVE Inv'
<1>1. user[c] \in Users /\ c \in Coroutines
  BY DEF Drain, Inv, Registered, Coroutines
<1>2. PICK order \in SetToSeqs(inbox[user[c]]) :
        todo' = [todo EXCEPT ![c] = [i \in DOMAIN order |-> Step("deliver", order[i])]]
  BY DEF Drain, Undrained
<1>3. IsFiniteSet(inbox[user[c]]) /\ \A m \in inbox[user[c]] : Genuine(m)
  BY <1>1 DEF Inv, Stored
<1>4. order \in Seq(inbox[user[c]]) /\ DOMAIN order = 1..Len(order)
  BY <1>3, InOrder
<1> DEFINE steps == [i \in DOMAIN order |-> Step("deliver", order[i])]
<1>5. \A i \in 1..Len(order) : order[i] \in inbox[user[c]] /\ order[i] \in Messages
  BY <1>1, <1>4 DEF Inv, TypeOK
<1>6. steps \in Seq(Steps) /\ Len(steps) = Len(order) /\ \A i \in 1..Len(order) : steps[i] = Step("deliver", order[i])
  <2>1. \A i \in 1..Len(order) : Step("deliver", order[i]) \in Steps
    BY <1>5, StepIsOne
  <2>2. Len(order) \in Nat
    BY <1>4
  <2> QED
    BY <1>4, <2>1, <2>2
<1>7. Keeps
  BY DEF Drain, Keeps, history
<1> HIDE DEF steps
<1>8. \A st : In(st, steps) => Sound(st)'
  <2> SUFFICES ASSUME NEW st, In(st, steps) PROVE Sound(st)'
    OBVIOUS
  <2>1. PICK i \in 1..Len(order) : st = Step("deliver", order[i])
    BY <1>6 DEF In
  <2>2. Genuine(order[i])
    BY <1>3, <1>5
  <2>3. Sound(st)
    BY <2>1, <2>2 DEF Sound, Step
  <2> QED
    BY <1>7, <2>3, GenuineKept
<1>9. todo' = [todo EXCEPT ![c] = steps]
  BY <1>2 DEF steps
<1>10. todo' \in [Coroutines -> Seq(Steps)]
  BY <1>6, <1>9 DEF Inv, TypeOK
<1>11. \A x \in Coroutines : \A st : In(st, todo'[x]) => In(st, todo[x]) \/ Sound(st)'
  BY <1>8, <1>9 DEF Inv, TypeOK
<1>12. UnderWay' /\ Published' /\ Stored' /\ Past' /\ NothingLost'
  BY <1>7, <1>10, <1>11, HandlerStep DEF Drain, redis, history
<1>13. \A d \in Conns : todo'[d] # << >> => phase'[d] \in {"draining", "loop"}
  BY <1>9 DEF Drain, Inv, TypeOK, Coroutines
<1>14. TypeOK'
  BY <1>1, <1>10, <1>13 DEF Drain, redis, bounds, Inv, TypeOK
<1>15. Registered'
  BY DEF Drain, Inv, TypeOK, Registered
<1> QED
  BY <1>12, <1>14, <1>15 DEF Inv

\* A frame of the client: the handler adds a message, which is no delivered receipt.
LEMMA FrameInv ==
  ASSUME Inv, NEW c \in Conns, NEW m \in Messages, m.kind # "delivered", Frame(c, m)
  PROVE  Inv'
<1>1. /\ Listening(c) /\ frames' \in 0..MaxFrames
      /\ todo' = [todo EXCEPT ![c] = <<Step("add", m)>>] /\ phase' = [phase EXCEPT ![c] = "loop"]
      /\ UNCHANGED <<user, server, present, sender, subscriber, redis, history, failures>>
  BY ChatAssumption DEF Frame, Inv, TypeOK
<1>2. Keeps /\ c \in Coroutines
  BY <1>1 DEF Keeps, history, Coroutines
<1>3. Sound(Step("add", m))'
  BY <1>2, GenuineKept DEF Sound, Step, Genuine
<1>4. todo' \in [Coroutines -> Seq(Steps)]
  BY <1>1, StepIsOne DEF Inv, TypeOK
<1>5. \A x \in Coroutines : \A st : In(st, todo'[x]) => In(st, todo[x]) \/ Sound(st)'
  BY <1>1, <1>2, <1>3, StepIsOne DEF Inv, TypeOK
<1>6. UnderWay' /\ Published' /\ Stored' /\ Past' /\ NothingLost'
  BY <1>1, <1>2, <1>4, <1>5, HandlerStep DEF redis, history
<1>7. \A d \in Conns : todo'[d] # << >> => phase'[d] \in {"draining", "loop"}
  BY <1>1 DEF Inv, TypeOK, Coroutines
<1>8. TypeOK'
  BY <1>1, <1>4, <1>7 DEF redis, history, Inv, TypeOK
<1>9. Registered'
  BY <1>1 DEF Listening, Inv, TypeOK, Registered
<1> QED
  BY <1>6, <1>8, <1>9 DEF Inv

LEMMA SendInv ==
  ASSUME Inv, NEW c \in Conns, NEW t \in Texts, NEW to \in Users, Send(c, t, to) \/ Read(c, t, to)
  PROVE  Inv'
<1>1. user[c] \in Users
  BY DEF Send, Read, Frame, Listening, Inv, Registered
<1>2. \A kind \in {"msg", "read"} : [id |-> t, kind |-> kind, from |-> user[c], to |-> to] \in Messages
  BY <1>1 DEF Messages
<1> QED
  BY <1>2, FrameInv DEF Send, Read

LEMMA VanishInv == ASSUME Inv, NEW c \in Conns, Vanish(c) PROVE Inv'
<1>1. UnderWay' /\ Published' /\ Stored' /\ Past' /\ NothingLost'
  BY NoNewSteps DEF Vanish, redis, history
<1>2. TypeOK' /\ Registered'
  BY DEF Vanish, redis, history, bounds, Inv, TypeOK, Registered
<1> QED
  BY <1>1, <1>2 DEF Inv

LEMMA DisconnectInv == ASSUME Inv, NEW c \in Conns, Disconnect(c) PROVE Inv'
<1>1. UnderWay' /\ Published' /\ Stored' /\ Past' /\ NothingLost'
  BY NoNewSteps DEF Disconnect, redis
<1>2. user[c] \in Users /\ server[c] \in Servers /\ todo[c] = << >>
  BY DEF Disconnect, Listening, Inv, Registered
<1>3. sender' \in [Servers -> [Users -> Conns \cup {NoConn}]]
  BY <1>2 DEF Disconnect, Inv, TypeOK
<1>4. \A d \in Conns : todo'[d] # << >> => phase'[d] \in {"draining", "loop"}
  BY <1>2 DEF Disconnect, Inv, TypeOK
<1>5. TypeOK'
  BY <1>2, <1>3, <1>4 DEF Disconnect, Displace, redis, bounds, Inv, TypeOK
<1>6. Registered'
  BY <1>2 DEF Disconnect, Inv, TypeOK, Registered
<1> QED
  BY <1>1, <1>5, <1>6 DEF Inv

LEMMA SetOfflineInv == ASSUME Inv, NEW c \in Conns, SetOffline(c) PROVE Inv'
<1>1. UnderWay' /\ Published' /\ Stored' /\ Past' /\ NothingLost'
  BY NoNewSteps DEF SetOffline
<1>2. user[c] \in Users /\ todo[c] = << >> /\ c \notin present
  BY DEF SetOffline, Inv, TypeOK, Registered
<1>3. phase'[c] = "closed" /\ \A d \in Conns \ {c} : phase'[d] = phase[d] /\ user'[d] = user[d] /\ server'[d] = server[d]
  BY DEF SetOffline, Close
<1>4. \A d \in Conns : todo'[d] # << >> => phase'[d] \in {"draining", "loop"}
  BY <1>2, <1>3 DEF SetOffline, Inv, TypeOK
<1>5. TypeOK'
  BY <1>2, <1>4 DEF SetOffline, Close, Displace, bounds, Inv, TypeOK
<1>6. Registered'
  BY <1>2, <1>3 DEF SetOffline, Inv, TypeOK, Registered
<1> QED
  BY <1>1, <1>5, <1>6 DEF Inv

LEMMA RaiseInv == ASSUME Inv, NEW c \in Conns, Raise(c) PROVE Inv'
<1>1. Keeps /\ c \in Coroutines /\ failures' \in 0..MaxFailures /\ frames' \in 0..MaxFrames
  BY ChatAssumption DEF Raise, Failing, Keeps, history, Coroutines, Inv, TypeOK
<1>2. todo' \in [Coroutines -> Seq(Steps)] /\ \A x \in Coroutines : x # c => todo'[x] = todo[x]
  <2>1. todo' = [todo EXCEPT ![c] = << >>] /\ todo \in [Coroutines -> Seq(Steps)] /\ << >> \in Seq(Steps)
    BY DEF Raise, Inv, TypeOK
  <2> QED
    BY <2>1
<1>3. todo'[c] = << >>
  BY <1>1 DEF Raise, Inv, TypeOK
<1>4. \A x \in Coroutines : \A st : In(st, todo'[x]) => In(st, todo[x]) \/ Sound(st)'
  BY <1>2, <1>3, InNone
<1>5. UnderWay' /\ Published' /\ Stored' /\ Past' /\ NothingLost'
  BY <1>1, <1>2, <1>4, HandlerStep DEF Raise, redis, history
<1>6. user[c] \in Users /\ server[c] \in Servers
  BY DEF Raise, Inv, Registered
<1>7. /\ sender' \in [Servers -> [Users -> Conns \cup {NoConn}]]
      /\ user' \in [Conns -> Users \cup {NoUser}] /\ server' \in [Conns -> Servers \cup {NoServer}]
      /\ phase' \in [Conns -> {"new", "online", "drain", "draining", "loop", "offline", "closed"}]
      /\ phase'[c] \in {"closed", "offline"} /\ c \notin present' /\ present' \subseteq present
      /\ phase'[c] = "offline" => user'[c] = user[c] /\ server'[c] = server[c]
      /\ \A d \in Conns : d # c => phase'[d] = phase[d] /\ user'[d] = user[d] /\ server'[d] = server[d]
  <2>1. CASE phase[c] = "loop" \/ Listening(c)
    <3>1. /\ phase' = [phase EXCEPT ![c] = "offline"] /\ UNCHANGED <<user, server>>
          /\ sender' = [sender EXCEPT ![server[c]][user[c]] = NoConn] /\ present' = present \ {c}
      BY <2>1 DEF Raise
    <3>2. sender' \in [Servers -> [Users -> Conns \cup {NoConn}]]
      BY <1>6, <3>1 DEF Inv, TypeOK
    <3> QED
      BY <3>1, <3>2 DEF Inv, TypeOK
  <2>2. CASE ~(phase[c] = "loop" \/ Listening(c))
    BY <2>2 DEF Raise, Close, Inv, TypeOK
  <2> QED
    BY <2>1, <2>2
<1>8. \A d \in Conns : todo'[d] # << >> => phase'[d] \in {"draining", "loop"}
  BY <1>2, <1>3, <1>7 DEF Inv, TypeOK, Coroutines
<1>9. TypeOK'
  BY <1>1, <1>2, <1>7, <1>8 DEF Raise, redis, history, Inv, TypeOK
<1>10. Registered'
  BY <1>6, <1>7 DEF Inv, Registered
<1> QED
  BY <1>5, <1>9, <1>10 DEF Inv

LEMMA SubscribeInv == ASSUME Inv, NEW s \in Servers, Subscribe(s) PROVE Inv'
<1>1. UnderWay' /\ Published' /\ Stored' /\ Past' /\ NothingLost'
  BY NoNewSteps DEF Subscribe, redis, history
<1>2. TypeOK' /\ Registered'
  BY DEF Subscribe, conn, redis, history, bounds, Inv, TypeOK, Registered
<1> QED
  BY <1>1, <1>2 DEF Inv

LEMMA SubscriberDiesInv == ASSUME Inv, NEW s \in Servers, SubscriberDies(s) PROVE Inv'
<1>1. Keeps /\ s \in Coroutines /\ failures' \in 0..MaxFailures /\ frames' \in 0..MaxFrames
  BY ChatAssumption DEF SubscriberDies, Failing, Keeps, history, Coroutines, Inv, TypeOK
<1>2. todo' \in [Coroutines -> Seq(Steps)] /\ \A x \in Coroutines : x # s => todo'[x] = todo[x]
  <2>1. todo' = [todo EXCEPT ![s] = << >>] /\ todo \in [Coroutines -> Seq(Steps)] /\ << >> \in Seq(Steps)
    BY DEF SubscriberDies, Inv, TypeOK
  <2> QED
    BY <2>1
<1>3. todo'[s] = << >>
  BY <1>1 DEF SubscriberDies, Inv, TypeOK
<1>4. \A x \in Coroutines : \A st : In(st, todo'[x]) => In(st, todo[x]) \/ Sound(st)'
  BY <1>2, <1>3, InNone
<1>5. bus' \in [Servers -> Seq(Messages)] /\ \A t \in Servers : bus'[t] = bus[t] \/ bus'[t] = << >>
  BY DEF SubscriberDies, Inv, TypeOK
<1>6. UnderWay' /\ Published' /\ Stored' /\ Past' /\ NothingLost'
  BY <1>1, <1>2, <1>4, <1>5, HandlerStep DEF SubscriberDies, history
<1>7. \A d \in Conns : todo'[d] # << >> => phase'[d] \in {"draining", "loop"}
  BY <1>2, <1>3 DEF SubscriberDies, conn, Inv, TypeOK, Coroutines
<1>8. TypeOK' /\ Registered'
  BY <1>1, <1>2, <1>5, <1>7 DEF SubscriberDies, conn, history, Inv, TypeOK, Registered
<1> QED
  BY <1>6, <1>8 DEF Inv

LEMMA CrashInv == ASSUME Inv, NEW s \in Servers, Crash(s) PROVE Inv'
<1> DEFINE its == {c \in Conns : server[c] = s}
<1>1. Keeps /\ failures' \in 0..MaxFailures /\ frames' \in 0..MaxFrames
  BY ChatAssumption DEF Crash, Failing, Keeps, history, Inv, TypeOK
<1>2. /\ todo' \in [Coroutines -> Seq(Steps)]
      /\ \A x \in Coroutines : todo'[x] = << >> \/ (x \notin its /\ todo'[x] = todo[x])
  BY DEF Crash, Inv, TypeOK
<1>3. \A x \in Coroutines : \A st : In(st, todo'[x]) => In(st, todo[x]) \/ Sound(st)'
  BY <1>2, InNone
<1>4. bus' \in [Servers -> Seq(Messages)] /\ \A t \in Servers : bus'[t] = bus[t] \/ bus'[t] = << >>
  BY DEF Crash, Inv, TypeOK
<1>5. UnderWay' /\ Published' /\ Stored' /\ Past' /\ NothingLost'
  BY <1>1, <1>2, <1>3, <1>4, HandlerStep DEF Crash, history
<1>6. /\ phase' = [c \in Conns |-> IF c \in its THEN "closed" ELSE phase[c]]
      /\ user' = [c \in Conns |-> IF c \in its THEN NoUser ELSE user[c]]
      /\ server' = [c \in Conns |-> IF c \in its THEN NoServer ELSE server[c]]
      /\ present' = present \ its
  BY DEF Crash, Close
<1> HIDE DEF its
<1>7. /\ user' \in [Conns -> Users \cup {NoUser}] /\ server' \in [Conns -> Servers \cup {NoServer}]
      /\ phase' \in [Conns -> {"new", "online", "drain", "draining", "loop", "offline", "closed"}]
      /\ present' \subseteq Conns
  BY <1>6 DEF Inv, TypeOK
<1>8. sender' \in [Servers -> [Users -> Conns \cup {NoConn}]]
  BY DEF Crash, Inv, TypeOK
<1>9. \A d \in Conns : todo'[d] # << >> => phase'[d] \in {"draining", "loop"}
  BY <1>2, <1>6 DEF Inv, TypeOK, Coroutines
<1>10. TypeOK'
  BY <1>1, <1>2, <1>4, <1>7, <1>8, <1>9 DEF Crash, history, Inv, TypeOK
<1>11. Registered'
  BY <1>6 DEF Inv, Registered
<1> QED
  BY <1>5, <1>10, <1>11 DEF Inv

LEMMA StepInv == Inv /\ [Next]_vars => Inv'
<1> SUFFICES ASSUME Inv, [Next]_vars PROVE Inv'
  OBVIOUS
<1>1. CASE UNCHANGED vars
  <2>1. UnderWay' /\ Published' /\ Stored' /\ Past' /\ NothingLost'
    BY <1>1, NoNewSteps DEF vars, conn, redis, history
  <2>2. TypeOK' /\ Registered'
    BY <1>1 DEF vars, conn, redis, history, bounds, Inv, TypeOK, Registered
  <2> QED
    BY <2>1, <2>2 DEF Inv
<1>2. CASE \E x \in Coroutines : Advance(x)
  BY <1>2, AddInv, DeliverInv, AckInv, LookupInv, PublishInv DEF Advance
<1>3. CASE \E s \in Servers : Subscribe(s) \/ Receive(s) \/ SubscriberDies(s) \/ Crash(s)
  BY <1>3, SubscribeInv, ReceiveInv, SubscriberDiesInv, CrashInv
<1>4. ASSUME NEW c \in Conns,
             \/ \E u \in Users, s \in Servers : Connect(c, u, s)
             \/ SetOnline(c) \/ Drain(c)
             \/ \E t \in Texts, to \in Users : Send(c, t, to) \/ Read(c, t, to)
             \/ Vanish(c) \/ Disconnect(c) \/ SetOffline(c) \/ Raise(c)
      PROVE  Inv'
  BY <1>4, ConnectInv, SetOnlineInv, DrainInv, SendInv, VanishInv, DisconnectInv, SetOfflineInv, RaiseInv
<1> QED
  BY <1>1, <1>2, <1>3, <1>4 DEF Next

\* Whatever is under way is genuine, however handlers interleave, raise or crash.
THEOREM Invariance == Spec => []Inv
BY InitInv, StepInv, PTL DEF Spec

\* Type correctness; in particular, only handlers that listen have steps to do.
THEOREM TypeCorrect == Spec => []TypeOK
<1>1. Inv => TypeOK
  BY DEF Inv
<1> QED
  BY <1>1, Invariance, PTL

\* "The inbox row is the copy that survives" (MessageRouter): a message that was written
\* to an inbox is still there, or was put on a socket of its recipient.
THEOREM NeverLost == Spec => []NothingLost
<1>1. Inv => NothingLost
  BY DEF Inv
<1> QED
  BY <1>1, Invariance, PTL

\* No receipt overtakes what it acknowledges (ReceiptTracker): the text was put on a
\* socket of who sends the receipt, and came from who gets it.
THEOREM ReceiptsFollow == Spec => []ReceiptsTruthful
<1>1. Inv => ReceiptsTruthful
  BY DEF Inv, Past, Genuine, Acknowledged, ReceiptsTruthful
<1> QED
  BY <1>1, Invariance, PTL

-----------------------------------------------------------------------------
(* Nobody is stranded: the sockets *)

\* A socket of the user is registered at this server.
HasSocket(s, u) == sender[s][u] # NoConn

\* What a server has registered is a connection of that user to it, whose handler has
\* not begun to leave.
Sockets ==
  \A s \in Servers, u \in Users : HasSocket(s, u) =>
    /\ sender[s][u] \in Conns /\ user[sender[s][u]] = u /\ server[sender[s][u]] = s
    /\ phase[sender[s][u]] \in {"online", "drain", "draining", "loop"}

\* A user whom no gone connection displaced has a socket at the server of each of their
\* connections, and at the one presence names once one of them is past registering.
Places ==
  \A c \in present : user[c] \notin displaced =>
    /\ HasSocket(server[c], user[c])
    /\ phase[c] # "online" =>
         presence[user[c]] \in Servers /\ HasSocket(presence[user[c]], user[c])

\* Whose handler has drained the inbox at a server that has yet to subscribe is early.
Earliness ==
  \A c \in Conns :
    phase[c] \in {"draining", "loop"} /\ subscriber[server[c]] = "starting" => user[c] \in early

Steady ==
  failures = 0 => (\A s \in Servers : subscriber[s] # "dead") /\ Sockets /\ Places /\ Earliness

LEMMA SteadyInit == Init => Steady
BY DEF Init, Steady, Sockets, HasSocket, Places, Earliness

\* A step that leaves registrations and presence alone, and moves no handler but on.
LEMMA SteadyKept ==
  ASSUME Inv, Steady, failures' = 0 => failures = 0, UNCHANGED <<user, server, sender, presence, displaced>>,
         present' \subseteq present, early \subseteq early',
         \A s \in Servers : subscriber'[s] = subscriber[s] \/ subscriber'[s] = "listening",
         \A c \in Conns :
           \/ phase'[c] = phase[c]
           \/ /\ phase[c] \in {"drain", "draining", "loop"} /\ phase'[c] \in {"draining", "loop"}
              /\ phase[c] = "drain" => (subscriber[server[c]] = "starting" => user[c] \in early')
  PROVE  Steady'
<1> SUFFICES ASSUME failures' = 0 PROVE Steady'
  BY DEF Steady
<1>1. (\A s \in Servers : subscriber[s] # "dead") /\ Sockets /\ Places /\ Earliness
  BY DEF Steady
<1>2. \A s \in Servers : subscriber'[s] # "dead"
  BY <1>1
<1>3. Sockets'
  BY <1>1 DEF Sockets, HasSocket
<1>4. Places'
  BY <1>1 DEF Places, HasSocket, Inv, TypeOK
<1>5. Earliness'
  <2> SUFFICES ASSUME NEW c \in Conns, phase'[c] \in {"draining", "loop"}, subscriber'[server[c]] = "starting"
               PROVE  user[c] \in early'
    BY DEF Earliness
  <2>1. phase[c] \in {"drain", "draining", "loop"} /\ server[c] \in Servers
    BY DEF Inv, Registered
  <2>2. subscriber[server[c]] = "starting"
    BY <2>1
  <2>3. CASE phase[c] = "drain"
    BY <2>2, <2>3
  <2>4. CASE phase[c] # "drain"
    BY <1>1, <2>1, <2>2, <2>4 DEF Earliness
  <2> QED
    BY <2>3, <2>4
<1> QED
  BY <1>2, <1>3, <1>4, <1>5 DEF Steady

LEMMA ConnectSteady ==
  ASSUME Inv, Steady, NEW c \in Conns, NEW u \in Users, NEW s \in Servers, Connect(c, u, s)
  PROVE  Steady'
<1> SUFFICES ASSUME failures = 0 PROVE Steady'
  BY DEF Connect, bounds, Steady
<1>1. (\A r \in Servers : subscriber[r] # "dead") /\ Sockets /\ Places /\ Earliness
  BY DEF Steady
<1>2. /\ phase[c] = "new" /\ present' = present \cup {c}
      /\ user' = [user EXCEPT ![c] = u] /\ server' = [server EXCEPT ![c] = s]
      /\ phase' = [phase EXCEPT ![c] = "online"] /\ sender' = [sender EXCEPT ![s][u] = c]
      /\ UNCHANGED <<presence, displaced, early, subscriber>>
  BY DEF Connect, redis, history
<1>3. /\ sender'[s][u] = c /\ c # NoConn
      /\ \A r \in Servers, v \in Users : ~(r = s /\ v = u) => sender'[r][v] = sender[r][v]
  BY <1>2, ChatAssumption DEF Inv, TypeOK
<1>4. /\ phase'[c] = "online" /\ user'[c] = u /\ server'[c] = s
      /\ \A d \in Conns \ {c} : phase'[d] = phase[d] /\ user'[d] = user[d] /\ server'[d] = server[d]
  BY <1>2 DEF Inv, TypeOK
<1>5. \A r \in Servers, v \in Users : HasSocket(r, v) => HasSocket(r, v)'
  BY <1>3 DEF HasSocket
<1>6. Sockets'
  <2> SUFFICES ASSUME NEW r \in Servers, NEW v \in Users, sender'[r][v] # NoConn
               PROVE  /\ sender'[r][v] \in Conns /\ user'[sender'[r][v]] = v /\ server'[sender'[r][v]] = r
                      /\ phase'[sender'[r][v]] \in {"online", "drain", "draining", "loop"}
    BY DEF Sockets, HasSocket
  <2>1. CASE r = s /\ v = u
    BY <1>3, <1>4, <2>1
  <2>2. CASE ~(r = s /\ v = u)
    <3>1. sender'[r][v] = sender[r][v]
      BY <1>3, <2>2
    <3>2. /\ sender[r][v] \in Conns /\ user[sender[r][v]] = v /\ server[sender[r][v]] = r
          /\ phase[sender[r][v]] \in {"online", "drain", "draining", "loop"}
      BY <1>1, <3>1 DEF Sockets, HasSocket
    <3> QED
      BY <1>2, <1>4, <3>1, <3>2
  <2> QED
    BY <2>1, <2>2
<1>7. Places'
  <2> SUFFICES ASSUME NEW d \in present', user'[d] \notin displaced
               PROVE  /\ sender'[server'[d]][user'[d]] # NoConn
                      /\ phase'[d] # "online" =>
                           presence[user'[d]] \in Servers /\ sender'[presence[user'[d]]][user'[d]] # NoConn
    BY <1>2 DEF Places, HasSocket
  <2>1. CASE d = c
    BY <1>3, <1>4, <2>1
  <2>2. CASE d # c
    <3>1. /\ d \in present /\ user[d] \in Users /\ server[d] \in Servers
          /\ user'[d] = user[d] /\ server'[d] = server[d] /\ phase'[d] = phase[d]
      BY <1>2, <1>4, <2>2 DEF Inv, TypeOK, Registered
    <3>2. /\ HasSocket(server[d], user[d])
          /\ phase[d] # "online" => presence[user[d]] \in Servers /\ HasSocket(presence[user[d]], user[d])
      BY <1>1, <2>2, <3>1 DEF Places
    <3> QED
      BY <1>5, <3>1, <3>2 DEF HasSocket
  <2> QED
    BY <2>1, <2>2
<1>8. Earliness'
  BY <1>1, <1>2, <1>4 DEF Earliness
<1> QED
  BY <1>1, <1>2, <1>6, <1>7, <1>8 DEF Steady

\* What a gone connection does displaces its user, if another connection of theirs is there.
LEMMA Displaces ==
  ASSUME NEW c \in Conns, Displace(c)
  PROVE  /\ displaced \subseteq displaced'
         /\ c \notin present => \A d \in present : user[d] = user[c] => user[c] \in displaced'
BY DEF Displace, Others

LEMMA SetOnlineSteady ==
  ASSUME Inv, Steady, NEW c \in Conns, SetOnline(c)
  PROVE  Steady'
<1> SUFFICES ASSUME failures = 0 PROVE Steady'
  BY DEF SetOnline, bounds, Steady
<1>1. (\A s \in Servers : subscriber[s] # "dead") /\ Sockets /\ Places /\ Earliness
  BY DEF Steady
<1>2. /\ phase[c] = "online" /\ user[c] \in Users /\ server[c] \in Servers /\ Displace(c)
      /\ presence' = [presence EXCEPT ![user[c]] = server[c]] /\ phase' = [phase EXCEPT ![c] = "drain"]
      /\ UNCHANGED <<user, server, present, sender, subscriber, early>>
  BY DEF SetOnline, Inv, Registered
<1>3. phase'[c] = "drain" /\ \A d \in Conns \ {c} : phase'[d] = phase[d]
  BY <1>2 DEF Inv, TypeOK
<1>4. Sockets'
  BY <1>1, <1>2, <1>3 DEF Sockets, HasSocket
<1>5. Places'
  <2> SUFFICES ASSUME NEW d \in present, user[d] \notin displaced'
               PROVE  /\ HasSocket(server[d], user[d])
                      /\ phase'[d] # "online" => presence'[user[d]] \in Servers /\ HasSocket(presence'[user[d]], user[d])
    BY <1>2 DEF Places, HasSocket
  <2>1. d \in Conns /\ user[d] \in Users /\ user[d] \notin displaced
    BY <1>2, Displaces DEF Inv, TypeOK, Registered
  <2>2. HasSocket(server[d], user[d])
    BY <1>1, <2>1 DEF Places
  <2>3. CASE user[d] = user[c]
    <3>1. c \in present
      BY <1>2, <2>3, Displaces
    <3>2. HasSocket(server[c], user[c])
      BY <1>1, <2>1, <2>3, <3>1 DEF Places
    <3> QED
      BY <1>2, <2>2, <2>3, <3>2 DEF Inv, TypeOK
  <2>4. CASE user[d] # user[c]
    <3>1. d # c /\ presence'[user[d]] = presence[user[d]] /\ phase'[d] = phase[d]
      BY <1>2, <1>3, <2>1, <2>4
    <3> QED
      BY <1>1, <2>1, <2>2, <3>1 DEF Places
  <2> QED
    BY <2>3, <2>4
<1>6. Earliness'
  BY <1>1, <1>2, <1>3 DEF Earliness
<1> QED
  BY <1>1, <1>2, <1>4, <1>5, <1>6 DEF Steady

LEMMA DisconnectSteady ==
  ASSUME Inv, Steady, NEW c \in Conns, Disconnect(c)
  PROVE  Steady'
<1> SUFFICES ASSUME failures = 0 PROVE Steady'
  BY DEF Disconnect, bounds, Steady
<1>1. (\A s \in Servers : subscriber[s] # "dead") /\ Sockets /\ Places /\ Earliness
  BY DEF Steady
<1>2. /\ c \notin present /\ user[c] \in Users /\ server[c] \in Servers /\ Displace(c)
      /\ sender' = [sender EXCEPT ![server[c]][user[c]] = NoConn] /\ phase' = [phase EXCEPT ![c] = "offline"]
      /\ UNCHANGED <<user, server, present, presence, subscriber, early>>
  BY DEF Disconnect, Listening, redis, Inv, Registered
<1>3. /\ phase'[c] = "offline" /\ \A d \in Conns \ {c} : phase'[d] = phase[d]
      /\ sender'[server[c]][user[c]] = NoConn
      /\ \A s \in Servers, u \in Users : ~(s = server[c] /\ u = user[c]) => sender'[s][u] = sender[s][u]
  BY <1>2 DEF Inv, TypeOK
<1>4. Sockets'
  <2> SUFFICES ASSUME NEW s \in Servers, NEW u \in Users, sender'[s][u] # NoConn
               PROVE  /\ sender'[s][u] \in Conns /\ user[sender'[s][u]] = u /\ server[sender'[s][u]] = s
                      /\ phase'[sender'[s][u]] \in {"online", "drain", "draining", "loop"}
    BY <1>2 DEF Sockets, HasSocket
  <2>1. ~(s = server[c] /\ u = user[c]) /\ sender'[s][u] = sender[s][u]
    BY <1>3
  <2>2. /\ sender[s][u] \in Conns /\ user[sender[s][u]] = u /\ server[sender[s][u]] = s
        /\ phase[sender[s][u]] \in {"online", "drain", "draining", "loop"}
    BY <1>1, <2>1 DEF Sockets, HasSocket
  <2> QED
    BY <1>3, <2>1, <2>2
<1>5. Places'
  <2> SUFFICES ASSUME NEW d \in present, user[d] \notin displaced'
               PROVE  /\ HasSocket(server[d], user[d])'
                      /\ phase'[d] # "online" => presence[user[d]] \in Servers /\ HasSocket(presence[user[d]], user[d])'
    BY <1>2 DEF Places, HasSocket
  <2>1. d \in Conns /\ user[d] \in Users /\ server[d] \in Servers
    BY DEF Inv, TypeOK, Registered
  <2>2. user[d] \notin displaced /\ user[d] # user[c] /\ d # c
    BY <1>2, Displaces
  <2>3. \A s \in Servers : sender'[s][user[d]] = sender[s][user[d]]
    BY <1>3, <2>1, <2>2
  <2> QED
    BY <1>1, <1>2, <1>3, <2>1, <2>2, <2>3 DEF Places, HasSocket
<1>6. Earliness'
  BY <1>1, <1>2, <1>3 DEF Earliness
<1> QED
  BY <1>1, <1>2, <1>4, <1>5, <1>6 DEF Steady

LEMMA SetOfflineSteady ==
  ASSUME Inv, Steady, NEW c \in Conns, SetOffline(c)
  PROVE  Steady'
<1> SUFFICES ASSUME failures = 0 PROVE Steady'
  BY DEF SetOffline, bounds, Steady
<1>1. (\A s \in Servers : subscriber[s] # "dead") /\ Sockets /\ Places /\ Earliness
  BY DEF Steady
<1>2. /\ phase[c] = "offline" /\ c \notin present /\ user[c] \in Users /\ Displace(c)
      /\ presence' = [presence EXCEPT ![user[c]] = NoServer]
      /\ UNCHANGED <<present, sender, subscriber, early>>
  BY DEF SetOffline, Inv, Registered
<1>3. /\ phase'[c] = "closed"
      /\ \A d \in Conns \ {c} : phase'[d] = phase[d] /\ user'[d] = user[d] /\ server'[d] = server[d]
  BY DEF SetOffline, Close
<1>4. Sockets'
  <2>1. \A s \in Servers, u \in Users : HasSocket(s, u) => sender[s][u] # c
    BY <1>1, <1>2 DEF Sockets
  <2> QED
    BY <1>1, <1>2, <1>3, <2>1 DEF Sockets, HasSocket
<1>5. Places'
  <2> SUFFICES ASSUME NEW d \in present, user'[d] \notin displaced'
               PROVE  /\ HasSocket(server'[d], user'[d])
                      /\ phase'[d] # "online" => presence'[user'[d]] \in Servers /\ HasSocket(presence'[user'[d]], user'[d])
    BY <1>2 DEF Places, HasSocket
  <2>1. d \in Conns /\ user[d] \in Users /\ phase'[d] = phase[d] /\ user'[d] = user[d] /\ server'[d] = server[d]
    BY <1>2, <1>3 DEF Inv, TypeOK, Registered
  <2>2. user[d] \notin displaced /\ user[d] # user[c]
    BY <1>2, <2>1, Displaces
  <2>3. presence'[user[d]] = presence[user[d]]
    BY <1>2, <2>1, <2>2 DEF Inv, TypeOK
  <2> QED
    BY <1>1, <2>1, <2>2, <2>3 DEF Places
<1>6. Earliness'
  BY <1>1, <1>2, <1>3 DEF Earliness
<1> QED
  BY <1>1, <1>2, <1>4, <1>5, <1>6 DEF Steady

LEMMA SteadyStep == ASSUME Inv, Steady, [Next]_vars PROVE Steady'
<1>1. CASE UNCHANGED vars
  BY <1>1, SteadyKept DEF vars, conn, redis, history, bounds
<1>2. ASSUME NEW x \in Coroutines, Advance(x) PROVE Steady'
  <2>1. UNCHANGED <<conn, sender, subscriber, presence, displaced, early, failures>>
    BY <1>2 DEF Advance, Add, Deliver, Ack, Lookup, Publish, redis, history, bounds
  <2> QED
    BY <2>1, SteadyKept DEF conn
<1>3. ASSUME NEW s \in Servers, Receive(s) \/ Subscribe(s) PROVE Steady'
  <2>1. /\ UNCHANGED <<conn, sender, presence, displaced, early, failures>>
        /\ \A r \in Servers : subscriber'[r] = subscriber[r] \/ subscriber'[r] = "listening"
    BY <1>3 DEF Receive, Subscribe, redis, history, bounds, Inv, TypeOK
  <2> QED
    BY <2>1, SteadyKept DEF conn
<1>4. ASSUME Failing PROVE failures' # 0
  BY <1>4 DEF Failing, Inv, TypeOK
<1>5. ASSUME NEW c \in Conns, Drain(c) PROVE Steady'
  <2>1. /\ UNCHANGED <<user, server, present, sender, subscriber, presence, displaced, failures>>
        /\ phase[c] = "drain" /\ phase' = [phase EXCEPT ![c] = "draining"]
        /\ early' = early \cup (IF subscriber[server[c]] = "starting" THEN {user[c]} ELSE {})
    BY <1>5 DEF Drain, redis, bounds
  <2>2. phase'[c] = "draining" /\ \A d \in Conns \ {c} : phase'[d] = phase[d]
    BY <2>1 DEF Inv, TypeOK
  <2>3. \A d \in Conns :
          \/ phase'[d] = phase[d]
          \/ /\ phase[d] \in {"drain", "draining", "loop"} /\ phase'[d] \in {"draining", "loop"}
             /\ phase[d] = "drain" => (subscriber[server[d]] = "starting" => user[d] \in early')
    BY <2>1, <2>2
  <2> QED
    BY <2>1, <2>3, SteadyKept
<1>6. ASSUME NEW c \in Conns, NEW t \in Texts, NEW to \in Users, Send(c, t, to) \/ Read(c, t, to) PROVE Steady'
  <2>1. /\ UNCHANGED <<user, server, present, sender, subscriber, presence, displaced, early, failures>>
        /\ phase[c] \in {"draining", "loop"} /\ phase' = [phase EXCEPT ![c] = "loop"]
    BY <1>6 DEF Send, Read, Frame, Listening, redis, history
  <2>2. phase'[c] = "loop" /\ \A d \in Conns \ {c} : phase'[d] = phase[d]
    BY <2>1 DEF Inv, TypeOK
  <2>3. \A d \in Conns :
          \/ phase'[d] = phase[d]
          \/ phase[d] \in {"draining", "loop"} /\ phase'[d] \in {"draining", "loop"}
    BY <2>1, <2>2
  <2> QED
    BY <2>1, <2>3, SteadyKept
<1>7. ASSUME NEW c \in Conns, Vanish(c) PROVE Steady'
  BY <1>7, SteadyKept DEF Vanish, redis, history, bounds
<1> QED
  BY <1>1, <1>2, <1>3, <1>4, <1>5, <1>6, <1>7, ConnectSteady, SetOnlineSteady, DisconnectSteady, SetOfflineSteady
     DEF Next, Raise, SubscriberDies, Crash, Steady

-----------------------------------------------------------------------------
(* Nobody is stranded: what waits is on its way *)

\* A connection of the user with its socket in place will look into the inbox yet.
ToDrain(u) ==
  \E d \in Conns : phase[d] \in {"online", "drain"} /\ user[d] = u /\ HasSocket(server[d], u)

\* A step that will bring its message to a socket of u, or has done so.
Forwards(x, st, u) ==
  \/ st.op \in {"ack", "route"}
  \/ st.op = "lookup" /\ Here(x) # presence[u]
  \/ st.op = "publish" /\ HasSocket(st.to, u)
  \/ st.op = "deliver" /\ HasSocket(Here(x), u)

Pending(m, u) ==
  \/ \E x \in Coroutines : \E st : In(st, todo[x]) /\ st.msg = m /\ Forwards(x, st, u)
  \/ \E s \in Servers : In(m, bus[s]) /\ HasSocket(s, u)
  \/ ToDrain(u)

Attended(u) ==
  /\ u \notin displaced /\ u \notin early
  /\ \E c \in present : user[c] = u /\ phase[c] \in {"draining", "loop"}

\* What waits in the inbox of a user who drained it is on its way to a socket of theirs.
Waiting ==
  failures = 0 => \A u \in Users : Attended(u) => \A m \in inbox[u] : Pending(m, u)

LEMMA WaitingInit == Init => Waiting
BY DEF Init, Waiting, Attended

\* Presence names a server where who is attended to has a socket.
LEMMA Attending ==
  ASSUME Inv, Steady, failures = 0, NEW u \in Users, Attended(u)
  PROVE  presence[u] \in Servers /\ HasSocket(presence[u], u)
<1>1. PICK c \in present : user[c] = u /\ phase[c] \in {"draining", "loop"} /\ u \notin displaced
  BY DEF Attended
<1> QED
  BY <1>1 DEF Steady, Places

\* A step that drops nothing under way and no socket keeps a message on its way.
LEMMA PendingStays ==
  ASSUME \A x \in Coroutines : \A st : In(st, todo[x]) => In(st, todo'[x]) /\ Here(x)' = Here(x),
         \A s \in Servers : \A n : In(n, bus[s]) => In(n, bus'[s]),
         NEW u,
         \A s : HasSocket(s, u) => HasSocket(s, u)',
         \A d \in Conns : phase[d] \in {"online", "drain"} /\ user[d] = u /\ HasSocket(server[d], u) =>
           phase'[d] \in {"online", "drain"} /\ user'[d] = user[d] /\ server'[d] = server[d],
         presence'[u] = presence[u],
         NEW m, Pending(m, u)
  PROVE  Pending(m, u)'
<1>1. ASSUME NEW x \in Coroutines, NEW st, In(st, todo[x]), st.msg = m, Forwards(x, st, u)
      PROVE  Pending(m, u)'
  <2>1. In(st, todo'[x]) /\ Forwards(x, st, u)'
    BY <1>1 DEF Forwards
  <2> QED
    BY <1>1, <2>1 DEF Pending
<1>2. ASSUME NEW s \in Servers, In(m, bus[s]), HasSocket(s, u) PROVE Pending(m, u)'
  BY <1>2 DEF Pending
<1>3. ASSUME ToDrain(u) PROVE Pending(m, u)'
  <2>1. PICK d \in Conns : phase[d] \in {"online", "drain"} /\ user[d] = u /\ HasSocket(server[d], u)
    BY <1>3 DEF ToDrain
  <2>2. phase'[d] \in {"online", "drain"} /\ user'[d] = u /\ server'[d] = server[d]
    BY <2>1
  <2>3. sender'[server'[d]][u] # NoConn
    BY <2>1, <2>2 DEF HasSocket
  <2>4. ToDrain(u)'
    BY <2>2, <2>3 DEF ToDrain, HasSocket
  <2> QED
    BY <2>4 DEF Pending
<1> QED
  BY <1>1, <1>2, <1>3 DEF Pending

\* A step of the router keeps a message on its way if what replaces its own step does.
LEMMA PendingRouted ==
  ASSUME Inv, NEW x \in Coroutines, todo[x] # << >>, NEW p \in Seq(Steps), Replace(x, p),
         UNCHANGED <<conn, sender, presence>>,
         \A s \in Servers : \A n : In(n, bus[s]) => In(n, bus'[s]),
         NEW m, NEW u, Pending(m, u),
         Head(todo[x]).msg = m /\ Forwards(x, Head(todo[x]), u)
           => Pending(m, u)' \/ \E st : In(st, p) /\ st.msg = m /\ Forwards(x, st, u)
  PROVE  Pending(m, u)'
<1>1. /\ \A y \in Coroutines \ {x} : todo'[y] = todo[y]
      /\ \A st : In(st, todo'[x]) <=> In(st, p) \/ In(st, Tail(todo[x]))
      /\ \A st : In(st, todo[x]) <=> st = Head(todo[x]) \/ In(st, Tail(todo[x]))
  BY Replaced DEF Inv
<1>2. /\ \A y, st : Forwards(y, st, u) <=> Forwards(y, st, u)'
      /\ ToDrain(u) <=> ToDrain(u)'
      /\ \A s : HasSocket(s, u) <=> HasSocket(s, u)'
  BY DEF Forwards, ToDrain, HasSocket, Here, conn
<1>3. CASE ToDrain(u) \/ \E s \in Servers : In(m, bus[s]) /\ HasSocket(s, u)
  BY <1>2, <1>3 DEF Pending
<1>4. ASSUME NEW y \in Coroutines, NEW st, In(st, todo[y]), st.msg = m, Forwards(y, st, u)
      PROVE  Pending(m, u)'
  <2>1. CASE In(st, todo'[y])
    BY <1>2, <1>4, <2>1 DEF Pending
  <2>2. CASE ~In(st, todo'[y])
    <3>1. y = x /\ st = Head(todo[x])
      BY <1>1, <1>4, <2>2
    <3>2. CASE \E e : In(e, p) /\ e.msg = m /\ Forwards(x, e, u)
      <4>1. PICK e : In(e, p) /\ e.msg = m /\ Forwards(x, e, u)
        BY <3>2
      <4>2. In(e, todo'[x]) /\ Forwards(x, e, u)'
        BY <1>1, <1>2, <4>1
      <4> QED
        BY <4>1, <4>2 DEF Pending
    <3> QED
      BY <1>4, <3>1, <3>2
  <2> QED
    BY <2>1, <2>2
<1> QED
  BY <1>3, <1>4 DEF Pending

\* The same of all that waits: a step of the router is for one message.
LEMMA WaitingRouted ==
  ASSUME Inv, Waiting, NEW x \in Coroutines, todo[x] # << >>, NEW p \in Seq(Steps), Replace(x, p),
         UNCHANGED <<conn, sender, presence, displaced, early, failures>>,
         \A s \in Servers : \A n : In(n, bus[s]) => In(n, bus'[s]),
         NEW m, m = Message(x),
         \A u \in Users : \A n \in inbox'[u] : n \in inbox[u] \/ n = m,
         \A u \in Users :
           failures = 0 /\ Attended(u) /\ m \in inbox'[u]
             => \/ \E st : In(st, p) /\ st.msg = m /\ Forwards(x, st, u)
                \/ m \in inbox[u] /\ ~Forwards(x, Head(todo[x]), u)
                \/ Pending(m, u)'
  PROVE  Waiting'
<1> SUFFICES ASSUME failures' = 0, NEW u \in Users, Attended(u)', NEW n, n \in inbox'[u]
             PROVE  Pending(n, u)'
  BY DEF Waiting
<1>1. Attended(u) /\ failures = 0
  BY DEF Attended, conn
<1>2. ASSUME n \in inbox[u] PROVE Pending(n, u)
  BY <1>1, <1>2 DEF Waiting
<1>3. CASE \E st : In(st, p) /\ st.msg = n /\ Forwards(x, st, u)
  <2>1. PICK st : In(st, p) /\ st.msg = n /\ Forwards(x, st, u)
    BY <1>3
  <2>2. In(st, todo'[x])
    BY <2>1, Replaced DEF Inv
  <2>3. Forwards(x, st, u)'
    BY <2>1 DEF Forwards, HasSocket, Here, conn
  <2> QED
    BY <2>1, <2>2, <2>3 DEF Pending
<1>4. CASE n \in inbox[u] /\ (n = m => ~Forwards(x, Head(todo[x]), u))
  <2>1. Pending(n, u)
    BY <1>2, <1>4
  <2>2. ~(Head(todo[x]).msg = n /\ Forwards(x, Head(todo[x]), u))
    BY <1>4 DEF Message
  <2> QED
    BY <2>1, <2>2, PendingRouted
<1> QED
  BY <1>1, <1>3, <1>4

LEMMA RouterWaits ==
  ASSUME Inv, Steady, Waiting, NEW x \in Coroutines, Advance(x)
  PROVE  Waiting'
<1>0. PICK m : m = Message(x)
  OBVIOUS
<1>1. /\ todo[x] # << >> /\ m \in Messages /\ m.to \in Users /\ Head(todo[x]).msg = m /\ Sound(Head(todo[x]))
      /\ UNCHANGED <<conn, sender, presence, displaced, early, failures>>
  <2>1. todo[x] # << >> /\ UNCHANGED <<conn, sender, presence, displaced, early, failures>>
    BY DEF Advance, Add, Deliver, Ack, Lookup, Publish, Now, redis, history, bounds
  <2> QED
    BY <1>0, <2>1, FirstStep DEF Message
\* The inbox of a user has messages to them only.
<1>2. ASSUME NEW u \in Users, failures = 0, Attended(u), m \in inbox[u]
      PROVE  m.to = u /\ presence[u] \in Servers /\ HasSocket(presence[u], u)
  BY <1>2, Attending DEF Inv, Stored
<1>3. CASE Add(x)
  <2>1. /\ inbox' = [inbox EXCEPT ![m.to] = Unlike(@, m) \cup {m}] /\ Replace(x, <<Step("route", m)>>)
        /\ UNCHANGED bus
    BY <1>0, <1>3 DEF Add, Unlike
  <2>2. \A u \in Users : \A n \in inbox'[u] : n \in inbox[u] \/ n = m
    BY <1>1, <2>1 DEF Inv, TypeOK, Unlike
  <2>3. \A u : In(Step("route", m), <<Step("route", m)>>) /\ Step("route", m).msg = m /\ Forwards(x, Step("route", m), u)
    BY InOne DEF Step, Forwards
  <2>4. <<Step("route", m)>> \in Seq(Steps)
    BY <1>1, StepIsOne
  <2> QED
    BY <1>0, <1>1, <2>1, <2>2, <2>3, <2>4, WaitingRouted
<1>4. CASE Deliver(x)
  <2>1. UNCHANGED <<inbox, bus>> /\ (Head(todo[x]).op = "route" \/ Head(todo[x]).op = "deliver")
    BY <1>4 DEF Deliver, Now, redis
  <2>2. CASE HasSocket(Here(x), m.to)
    <3>1. Replace(x, <<Step("ack", m)>>)
      BY <1>0, <1>4, <2>2 DEF Deliver, HasSocket
    <3>2. \A u : In(Step("ack", m), <<Step("ack", m)>>) /\ Step("ack", m).msg = m /\ Forwards(x, Step("ack", m), u)
      BY InOne DEF Step, Forwards
    <3>3. <<Step("ack", m)>> \in Seq(Steps)
      BY <1>1, StepIsOne
    <3> QED
      BY <1>0, <1>1, <2>1, <3>1, <3>2, <3>3, WaitingRouted
  <2>3. CASE ~HasSocket(Here(x), m.to)
    <3>1. PICK p : p = Undelivered(m, Now(x, "route"))
      OBVIOUS
    <3>2. p \in Seq(Steps) /\ Replace(x, p)
      BY <1>0, <1>1, <1>4, <2>3, <3>1, StepIsOne DEF Undelivered, Deliver, HasSocket
    <3>3. ASSUME NEW u \in Users, failures = 0, Attended(u), m \in inbox[u]
          PROVE  \/ \E st : In(st, p) /\ st.msg = m /\ Forwards(x, st, u)
                 \/ ~Forwards(x, Head(todo[x]), u)
      <4>1. CASE Head(todo[x]).op = "route"
        <5>1. p = <<Step("lookup", m)>> /\ Here(x) # presence[u]
          BY <1>1, <1>2, <2>3, <3>1, <3>3, <4>1 DEF Undelivered, Now
        <5>2. In(Step("lookup", m), p) /\ Step("lookup", m).msg = m /\ Forwards(x, Step("lookup", m), u)
          BY <5>1, InOne DEF Step, Forwards
        <5> QED
          BY <5>2
      <4>2. CASE Head(todo[x]).op = "deliver"
        BY <1>2, <2>3, <3>3, <4>2 DEF Forwards
      <4> QED
        BY <2>1, <4>1, <4>2
    <3> QED
      BY <1>0, <1>1, <2>1, <3>2, <3>3, WaitingRouted
  <2> QED
    BY <2>2, <2>3
<1>5. CASE Ack(x)
  <2>1. PICK p : p = AfterAck(m)
    OBVIOUS
  <2>2. inbox' = [inbox EXCEPT ![m.to] = Unlike(@, m)] /\ Replace(x, p) /\ UNCHANGED bus
    BY <1>0, <1>5, <2>1 DEF Ack, Unlike
  <2>3. p \in Seq(Steps)
    <3>1. Receipt(m) \in Messages
      BY <1>1, KindsOfUsers DEF Messages, Receipt
    <3> QED
      BY <2>1, <3>1, StepIsOne DEF AfterAck
  <2>4. \A u \in Users : \A n \in inbox'[u] : n \in inbox[u]
    BY <1>1, <2>2 DEF Inv, TypeOK, Unlike
  <2>5. ASSUME NEW u \in Users, failures = 0, Attended(u), m \in inbox'[u] PROVE FALSE
    <3>1. m.to = u
      BY <1>2, <2>4, <2>5
    <3> QED
      BY <2>2, <2>5, <3>1 DEF Inv, TypeOK, Unlike
  <2> QED
    BY <1>0, <1>1, <2>2, <2>3, <2>4, <2>5, WaitingRouted
<1>6. CASE Lookup(x)
  <2>1. PICK p, s : /\ s = presence[m.to]
                    /\ p = IF s \in Servers \ {Here(x)} THEN <<[op |-> "publish", msg |-> m, to |-> s]>> ELSE << >>
    OBVIOUS
  <2>2. Replace(x, p) /\ Head(todo[x]).op = "lookup" /\ UNCHANGED <<inbox, bus>>
    BY <1>0, <1>6, <2>1 DEF Lookup, Now, redis
  <2>3. PICK step : step = [op |-> "publish", msg |-> m, to |-> s]
    OBVIOUS
  <2>4. p = (IF s \in Servers \ {Here(x)} THEN <<step>> ELSE << >>) /\ step.msg = m /\ step.op = "publish" /\ step.to = s
    BY <2>1, <2>3
  <2>5. p \in Seq(Steps)
    <3>1. s \in Servers => step \in Steps
      BY <1>1, <2>3 DEF Steps
    <3> QED
      BY <2>4, <3>1
  <2>6. ASSUME NEW u \in Users, failures = 0, Attended(u), m \in inbox[u], Forwards(x, Head(todo[x]), u)
        PROVE  \E st : In(st, p) /\ st.msg = m /\ Forwards(x, st, u)
    <3>1. s = presence[u] /\ s \in Servers /\ HasSocket(s, u)
      BY <1>2, <2>1, <2>6
    <3>2. Here(x) # s
      BY <2>2, <2>6, <3>1 DEF Forwards
    <3>3. In(step, p) /\ Forwards(x, step, u)
      BY <2>4, <3>1, <3>2, InOne DEF Forwards
    <3> QED
      BY <2>4, <3>3
  <2> QED
    BY <1>0, <1>1, <2>2, <2>5, <2>6, WaitingRouted
<1>7. CASE Publish(x)
  <2>1. PICK p, s : p = << >> /\ s = Head(todo[x]).to
    OBVIOUS
  <2>2. /\ Replace(x, p) /\ bus' = [bus EXCEPT ![s] = IF subscriber[s] = "listening" THEN Append(@, m) ELSE @]
        /\ Head(todo[x]).op = "publish" /\ UNCHANGED inbox
    BY <1>0, <1>7, <2>1 DEF Publish, Now
  <2>3. s \in Servers /\ bus[s] \in Seq(Messages) /\ p \in Seq(Steps)
    BY <1>1, <2>1, <2>2 DEF Sound, Inv, TypeOK
  <2>4. \A n : In(n, Append(bus[s], m)) <=> In(n, bus[s]) \/ n = m
    <3>1. Append(bus[s], m) = bus[s] \o <<m>> /\ <<m>> \in Seq(Messages)
      BY <1>1, <2>3
    <3>2. \A n : In(n, bus[s] \o <<m>>) <=> In(n, bus[s]) \/ In(n, <<m>>)
      BY <2>3, <3>1, InConcat
    <3> QED
      BY <3>1, <3>2, InOne
  <2>5. \A r \in Servers : \A n : In(n, bus[r]) => In(n, bus'[r])
    BY <2>2, <2>3, <2>4 DEF Inv, TypeOK
  <2>6. ASSUME NEW u \in Users, failures = 0, Attended(u), m \in inbox[u], HasSocket(s, u)
        PROVE  Pending(m, u)'
    <3>1. CASE subscriber[s] = "listening"
      <4>1. In(m, bus'[s]) /\ HasSocket(s, u)'
        BY <1>1, <2>2, <2>3, <2>4, <2>6, <3>1 DEF HasSocket, Inv, TypeOK
      <4> QED
        BY <2>3, <4>1 DEF Pending
    <3>2. CASE subscriber[s] = "starting"
      <4>1. PICK d \in Conns : /\ d = sender[s][u] /\ user[d] = u /\ server[d] = s
                               /\ phase[d] \in {"online", "drain", "draining", "loop"}
        BY <2>3, <2>6 DEF Steady, Sockets
      <4>2. u \notin early
        BY <2>6 DEF Attended
      <4>3. phase[d] \in {"online", "drain"}
        BY <2>6, <3>2, <4>1, <4>2 DEF Steady, Earliness
      <4>4. ToDrain(u)'
        BY <1>1, <2>6, <4>1, <4>3 DEF ToDrain, HasSocket, conn
      <4> QED
        BY <4>4 DEF Pending
    <3> QED
      BY <2>3, <2>6, <3>1, <3>2 DEF Steady, Inv, TypeOK
  <2>7. ASSUME NEW u \in Users, ~HasSocket(s, u) PROVE ~Forwards(x, Head(todo[x]), u)
    BY <2>1, <2>2, <2>7 DEF Forwards
  <2> QED
    BY <1>0, <1>1, <2>2, <2>3, <2>5, <2>6, <2>7, WaitingRouted
<1> QED
  BY <1>3, <1>4, <1>5, <1>6, <1>7 DEF Advance

\* A step that leaves the inboxes alone, after which nobody is attended to who was not.
LEMMA WaitingKept ==
  ASSUME Waiting, failures' = 0 => failures = 0, UNCHANGED inbox,
         \A u \in Users : Attended(u)' => Attended(u) /\ \A m \in inbox[u] : Pending(m, u) => Pending(m, u)'
  PROVE  Waiting'
BY DEF Waiting

LEMMA ReceiveWaits == ASSUME Inv, Waiting, NEW s \in Servers, Receive(s) PROVE Waiting'
<1>0. PICK m : m = Head(bus[s])
  OBVIOUS
<1>1. /\ bus[s] \in Seq(Messages) /\ bus[s] # << >> /\ m \in Messages
      /\ \A n : In(n, bus[s]) <=> n = m \/ In(n, Tail(bus[s]))
  BY <1>0, InHeadTail DEF Receive, Inv, TypeOK
<1>2. /\ bus' = [bus EXCEPT ![s] = Tail(@)] /\ todo' = [todo EXCEPT ![s] = <<Step("deliver", m)>>]
      /\ todo[s] = << >> /\ UNCHANGED <<conn, sender, presence, inbox, displaced, early, failures>>
  BY <1>0 DEF Receive, history, bounds
<1>3. s \in Coroutines /\ Here(s) = s
  BY DEF Coroutines, Here
<1>4. /\ \A x \in Coroutines : \A st : In(st, todo[x]) => In(st, todo'[x])
      /\ In(Step("deliver", m), todo'[s])
      /\ \A r \in Servers : \A n : In(n, bus[r]) => In(n, bus'[r]) \/ (r = s /\ n = m)
  <2>1. \A st : ~In(st, todo[s])
    BY <1>2, InNone
  <2>2. todo'[s] = <<Step("deliver", m)>> /\ \A x \in Coroutines \ {s} : todo'[x] = todo[x]
    BY <1>2, <1>3 DEF Inv, TypeOK
  <2>3. bus'[s] = Tail(bus[s]) /\ \A r \in Servers \ {s} : bus'[r] = bus[r]
    BY <1>2 DEF Inv, TypeOK
  <2> QED
    BY <1>1, <2>1, <2>2, <2>3, StepIsOne
<1>5. ASSUME NEW u, NEW n, Pending(n, u) PROVE Pending(n, u)'
  <2>1. /\ \A x, st : Forwards(x, st, u) <=> Forwards(x, st, u)'
        /\ ToDrain(u) <=> ToDrain(u)'
        /\ \A r : HasSocket(r, u) <=> HasSocket(r, u)'
    BY <1>2 DEF Forwards, ToDrain, HasSocket, Here, conn
  <2>2. CASE n = m /\ HasSocket(s, u)
    <3>1. Forwards(s, Step("deliver", m), u) /\ Step("deliver", m).msg = m
      BY <1>3, <2>2 DEF Forwards, Step
    <3>2. Forwards(s, Step("deliver", m), u)'
      BY <2>1, <3>1
    <3> QED
      BY <1>3, <1>4, <2>2, <3>1, <3>2 DEF Pending
  <2>3. CASE ~(n = m /\ HasSocket(s, u))
    <3>1. CASE \E x \in Coroutines : \E st : In(st, todo[x]) /\ st.msg = n /\ Forwards(x, st, u)
      BY <1>4, <2>1, <3>1 DEF Pending
    <3>2. CASE \E r \in Servers : In(n, bus[r]) /\ HasSocket(r, u)
      BY <1>4, <2>1, <2>3, <3>2 DEF Pending
    <3>3. CASE ToDrain(u)
      BY <2>1, <3>3 DEF Pending
    <3> QED
      BY <1>5, <3>1, <3>2, <3>3 DEF Pending
  <2> QED
    BY <2>2, <2>3
<1>6. \A u : Attended(u)' => Attended(u)
  BY <1>2 DEF Attended, conn
<1> QED
  BY <1>2, <1>5, <1>6, WaitingKept

\* A connection that has drained the inbox has a step for all that was in it.
LEMMA DrainWaits == ASSUME Inv, Steady, Waiting, NEW c \in Conns, Drain(c) PROVE Waiting'
<1>1. user[c] \in Users /\ server[c] \in Servers /\ c \in Coroutines /\ c \notin Servers /\ todo[c] = << >>
  BY ChatAssumption DEF Drain, Inv, TypeOK, Registered, Coroutines
<1>2. PICK order \in SetToSeqs(inbox[user[c]]) :
        todo' = [todo EXCEPT ![c] = [i \in DOMAIN order |-> Step("deliver", order[i])]]
  BY DEF Drain, Undrained
<1>3. IsFiniteSet(inbox[user[c]])
  BY <1>1 DEF Inv, Stored
<1>4. /\ order \in Seq(inbox[user[c]]) /\ DOMAIN order = 1..Len(order)
      /\ \A m \in inbox[user[c]] : In(m, order)
  BY <1>3, InOrder
<1>5. PICK steps : steps = [i \in DOMAIN order |-> Step("deliver", order[i])]
  OBVIOUS
<1>6. \A i \in 1..Len(order) : steps[i] = Step("deliver", order[i])
  BY <1>4, <1>5
<1>7. Len(steps) = Len(order)
  BY <1>4, <1>5
<1>8. todo'[c] = steps /\ \A x \in Coroutines \ {c} : todo'[x] = todo[x]
  BY <1>1, <1>2, <1>5 DEF Inv, TypeOK
<1>9. \A m \in inbox[user[c]] : In(Step("deliver", m), todo'[c])
  <2> SUFFICES ASSUME NEW m \in inbox[user[c]] PROVE In(Step("deliver", m), steps)
    BY <1>8
  <2>1. PICK i \in 1..Len(order) : order[i] = m
    BY <1>4 DEF In
  <2> QED
    BY <1>6, <1>7, <2>1 DEF In
<1>10. /\ UNCHANGED <<user, server, present, sender, presence, bus, inbox, displaced, failures>>
       /\ phase[c] = "drain" /\ early \subseteq early' /\ phase' = [phase EXCEPT ![c] = "draining"]
  BY DEF Drain, redis, bounds
<1>11. \A d \in Conns \ {c} : phase'[d] = phase[d]
  BY <1>10 DEF Inv, TypeOK
<1>12. \A x \in Coroutines : \A st : In(st, todo[x]) => In(st, todo'[x]) /\ Here(x)' = Here(x)
  BY <1>1, <1>8, <1>10, InNone DEF Here
<1> SUFFICES ASSUME failures = 0, NEW u \in Users, Attended(u)', NEW m \in inbox[u]
             PROVE  Pending(m, u)'
  BY <1>10 DEF Waiting
<1>13. CASE u = user[c] /\ HasSocket(server[c], u)
  <2>1. Here(c) = server[c] /\ Step("deliver", m).op = "deliver" /\ Step("deliver", m).msg = m
    BY <1>1 DEF Here, Step
  <2>2. Forwards(c, Step("deliver", m), u)'
    BY <1>10, <1>13, <2>1 DEF Forwards, HasSocket, Here
  <2> QED
    BY <1>1, <1>9, <1>13, <2>1, <2>2 DEF Pending
<1>14. CASE ~(u = user[c] /\ HasSocket(server[c], u))
  <2>1. PICK d \in present : user[d] = u /\ phase'[d] \in {"draining", "loop"}
    BY <1>10 DEF Attended
  <2>2. u \notin displaced /\ u \notin early
    BY <1>10 DEF Attended
  <2>3. d # c
    BY <1>14, <2>1, <2>2 DEF Steady, Places
  <2>4. Attended(u)
    BY <1>11, <2>1, <2>2, <2>3 DEF Attended, Inv, TypeOK
  <2>5. Pending(m, u)
    BY <2>4 DEF Waiting
  <2>6. \A e \in Conns : phase[e] \in {"online", "drain"} /\ user[e] = u /\ HasSocket(server[e], u) =>
          phase'[e] \in {"online", "drain"} /\ user'[e] = user[e] /\ server'[e] = server[e]
    BY <1>10, <1>11, <1>14
  <2>7. \A s : HasSocket(s, u) => HasSocket(s, u)'
    BY <1>10 DEF HasSocket
  <2> QED
    BY <1>10, <1>12, <2>5, <2>6, <2>7, PendingStays
<1> QED
  BY <1>13, <1>14

\* A handler that listens takes a frame: there was nothing on its way with it.
LEMMA ListenerWaits ==
  ASSUME Inv, Waiting, NEW c \in Conns, NEW t \in Texts, NEW to \in Users, Send(c, t, to) \/ Read(c, t, to)
  PROVE  Waiting'
<1>1. PICK m : Frame(c, m)
  BY DEF Send, Read
<1>2. /\ UNCHANGED <<user, server, present, sender, presence, bus, inbox, displaced, early, failures>>
      /\ phase' = [phase EXCEPT ![c] = "loop"] /\ todo[c] = << >> /\ phase[c] \in {"draining", "loop"}
      /\ todo' = [todo EXCEPT ![c] = <<Step("add", m)>>]
  BY <1>1 DEF Frame, Listening, redis, history
<1>3. /\ \A x \in Coroutines : x # c => todo'[x] = todo[x]
      /\ phase'[c] = "loop" /\ \A d \in Conns \ {c} : phase'[d] = phase[d]
  BY <1>2 DEF Inv, TypeOK
<1>4. \A x \in Coroutines : \A st : In(st, todo[x]) => In(st, todo'[x]) /\ Here(x)' = Here(x)
  BY <1>2, <1>3, InNone DEF Here
<1>5. ASSUME NEW u \in Users, Attended(u)' PROVE Attended(u)
  BY <1>2, <1>3, <1>5 DEF Attended, Inv, TypeOK
<1>6. ASSUME NEW u \in Users, NEW n, Pending(n, u) PROVE Pending(n, u)'
  <2>1. \A s : HasSocket(s, u) => HasSocket(s, u)'
    BY <1>2 DEF HasSocket
  <2>2. \A d \in Conns : phase[d] \in {"online", "drain"} => phase'[d] \in {"online", "drain"}
    BY <1>2, <1>3
  <2> QED
    BY <1>2, <1>4, <1>6, <2>1, <2>2, PendingStays
<1> QED
  BY <1>2, <1>5, <1>6, WaitingKept

\* A connection begins or leaves.  Whom it displaces is no longer attended to.
LEMMA ConnectWaits ==
  ASSUME Inv, Waiting, NEW c \in Conns, NEW v \in Users, NEW s \in Servers, Connect(c, v, s)
  PROVE  Waiting'
<1>1. /\ phase[c] = "new" /\ present' = present \cup {c}
      /\ user' = [user EXCEPT ![c] = v] /\ server' = [server EXCEPT ![c] = s]
      /\ phase' = [phase EXCEPT ![c] = "online"] /\ sender' = [sender EXCEPT ![s][v] = c]
      /\ UNCHANGED <<todo, presence, inbox, bus, displaced, early, failures>>
  BY DEF Connect, redis, history, bounds
<1>2. /\ phase'[c] = "online"
      /\ \A d \in Conns \ {c} : phase'[d] = phase[d] /\ user'[d] = user[d] /\ server'[d] = server[d]
      /\ \A r \in Servers, u \in Users : sender'[r][u] = sender[r][u] \/ sender'[r][u] = c
  BY <1>1 DEF Inv, TypeOK
<1>3. todo[c] = << >>
  BY <1>1 DEF Inv, TypeOK
<1>4. \A x \in Coroutines : \A st : In(st, todo[x]) => In(st, todo'[x]) /\ Here(x)' = Here(x)
  BY <1>1, <1>2, <1>3, InNone DEF Here, Coroutines
<1>5. ASSUME NEW u \in Users, Attended(u)' PROVE Attended(u)
  BY <1>1, <1>2, <1>5 DEF Attended, Inv, TypeOK
<1>6. ASSUME NEW u \in Users, NEW n, Pending(n, u) PROVE Pending(n, u)'
  <2>1. \A r : HasSocket(r, u) => HasSocket(r, u)'
    <3> SUFFICES ASSUME NEW r, sender[r][u] # NoConn PROVE sender'[r][u] # NoConn
      BY DEF HasSocket
    <3>1. CASE r = s
      BY <1>1, <3>1, ChatAssumption DEF Inv, TypeOK
    <3>2. CASE r # s
      BY <1>1, <3>2 DEF Inv, TypeOK
    <3> QED
      BY <3>1, <3>2
  <2>2. \A d \in Conns : phase[d] \in {"online", "drain"} =>
          phase'[d] \in {"online", "drain"} /\ user'[d] = user[d] /\ server'[d] = server[d]
    BY <1>1, <1>2
  <2> QED
    BY <1>1, <1>4, <1>6, <2>1, <2>2, PendingStays
<1> QED
  BY <1>1, <1>5, <1>6, WaitingKept

LEMMA SetOnlineWaits ==
  ASSUME Inv, Steady, Waiting, NEW c \in Conns, SetOnline(c)
  PROVE  Waiting'
<1>1. /\ phase[c] = "online" /\ user[c] \in Users /\ server[c] \in Servers /\ Displace(c)
      /\ presence' = [presence EXCEPT ![user[c]] = server[c]] /\ phase' = [phase EXCEPT ![c] = "drain"]
      /\ UNCHANGED <<user, server, present, todo, sender, inbox, bus, early, failures>>
  BY DEF SetOnline, bounds, Inv, Registered
<1>2. phase'[c] = "drain" /\ \A d \in Conns \ {c} : phase'[d] = phase[d]
  BY <1>1 DEF Inv, TypeOK
<1> SUFFICES ASSUME failures = 0, NEW u \in Users, Attended(u)', NEW m \in inbox[u]
             PROVE  Pending(m, u)'
  BY <1>1 DEF Waiting
<1>3. PICK e \in present : user[e] = u /\ phase'[e] \in {"draining", "loop"} /\ u \notin displaced' /\ u \notin early
  BY <1>1 DEF Attended
<1>4. e # c /\ u \notin displaced
  BY <1>1, <1>2, <1>3, Displaces
<1>5. CASE u = user[c]
  <2>1. c \in present
    BY <1>1, <1>3, <1>5, Displaces
  <2>2. HasSocket(server[c], u)
    BY <1>4, <1>5, <2>1 DEF Steady, Places
  <2>3. ToDrain(u)'
    BY <1>1, <1>2, <1>5, <2>2 DEF ToDrain, HasSocket
  <2> QED
    BY <2>3 DEF Pending
<1>6. CASE u # user[c]
  <2>1. Attended(u)
    BY <1>2, <1>3, <1>4 DEF Attended, Inv, TypeOK
  <2>2. Pending(m, u)
    BY <2>1 DEF Waiting
  <2>3. \A x \in Coroutines : \A st : In(st, todo[x]) => In(st, todo'[x]) /\ Here(x)' = Here(x)
    BY <1>1 DEF Here
  <2>4. (\A s : HasSocket(s, u) => HasSocket(s, u)') /\ presence'[u] = presence[u]
    BY <1>1, <1>6 DEF HasSocket, Inv, TypeOK
  <2>5. \A d \in Conns : phase[d] \in {"online", "drain"} => phase'[d] \in {"online", "drain"}
    BY <1>2
  <2> QED
    BY <1>1, <2>2, <2>3, <2>4, <2>5, PendingStays
<1> QED
  BY <1>5, <1>6

LEMMA LeavingWaits ==
  ASSUME Inv, Waiting, NEW c \in Conns, Vanish(c) \/ Disconnect(c) \/ SetOffline(c)
  PROVE  Waiting'
<1>1. CASE Vanish(c)
  <2>1. UNCHANGED <<phase, user, server, todo, sender, redis, displaced, early, failures>> /\ present' \subseteq present
    BY <1>1 DEF Vanish, history, bounds
  <2>2. \A x \in Coroutines : \A st : In(st, todo[x]) => In(st, todo'[x]) /\ Here(x)' = Here(x)
    BY <2>1 DEF Here
  <2>3. \A u : \A s : HasSocket(s, u) => HasSocket(s, u)'
    BY <2>1 DEF HasSocket
  <2>4. ASSUME NEW u \in Users, NEW n, Pending(n, u) PROVE Pending(n, u)'
    BY <2>1, <2>2, <2>3, <2>4, PendingStays DEF redis
  <2>5. \A u : Attended(u)' => Attended(u)
    BY <2>1 DEF Attended
  <2> QED
    BY <2>1, <2>4, <2>5, WaitingKept DEF redis
<1>2. ASSUME Disconnect(c) \/ SetOffline(c) PROVE Waiting'
  <2>1. /\ c \notin present /\ user[c] \in Users /\ server[c] \in Servers /\ todo[c] = << >> /\ Displace(c)
        /\ phase[c] \notin {"online", "drain"} /\ UNCHANGED <<present, todo, inbox, bus, early, failures>>
    BY <1>2 DEF Disconnect, SetOffline, Listening, redis, bounds, Inv, TypeOK, Registered
  <2>2. \A d \in Conns \ {c} : phase'[d] = phase[d] /\ user'[d] = user[d] /\ server'[d] = server[d]
    BY <1>2 DEF Disconnect, SetOffline, Close, Inv, TypeOK
  <2>3. \A u \in Users : u # user[c] => presence'[u] = presence[u] /\ \A s : sender'[s][u] = sender[s][u]
    <3>1. CASE Disconnect(c)
      <4>1. UNCHANGED presence /\ sender' = [sender EXCEPT ![server[c]][user[c]] = NoConn]
        BY <3>1 DEF Disconnect, redis
      <4> QED
        BY <2>1, <4>1 DEF Inv, TypeOK
    <3>2. CASE SetOffline(c)
      <4>1. UNCHANGED sender /\ presence' = [presence EXCEPT ![user[c]] = NoServer]
        BY <3>2 DEF SetOffline
      <4> QED
        BY <2>1, <4>1 DEF Inv, TypeOK
    <3> QED
      BY <1>2, <3>1, <3>2
  <2>4. \A x \in Coroutines : \A st : In(st, todo[x]) => In(st, todo'[x]) /\ Here(x)' = Here(x)
    BY <2>1, <2>2, InNone DEF Here, Coroutines
  <2>5. ASSUME NEW u \in Users, Attended(u)'
        PROVE  Attended(u) /\ u # user[c]
    <3>1. PICK e \in present : user'[e] = u /\ phase'[e] \in {"draining", "loop"} /\ u \notin displaced' /\ u \notin early
      BY <2>1, <2>5 DEF Attended
    <3>2. e # c /\ user[e] = u /\ phase[e] \in {"draining", "loop"}
      BY <2>1, <2>2, <3>1 DEF Inv, TypeOK
    <3> QED
      BY <2>1, <3>1, <3>2, Displaces DEF Attended
  <2>6. ASSUME NEW u \in Users, u # user[c], NEW n, Pending(n, u) PROVE Pending(n, u)'
    <3>1. \A s : HasSocket(s, u) => HasSocket(s, u)'
      BY <2>3, <2>6 DEF HasSocket
    <3>2. \A d \in Conns : phase[d] \in {"online", "drain"} =>
            phase'[d] \in {"online", "drain"} /\ user'[d] = user[d] /\ server'[d] = server[d]
      BY <2>1, <2>2
    <3> QED
      BY <2>1, <2>3, <2>4, <2>6, <3>1, <3>2, PendingStays
  <2> QED
    BY <2>1, <2>5, <2>6, WaitingKept
<1> QED
  BY <1>1, <1>2

LEMMA WaitingStep == ASSUME Inv, Steady, Waiting, [Next]_vars PROVE Waiting'
<1>1. ASSUME UNCHANGED <<conn, todo, sender, redis, history, bounds>> PROVE Waiting'
  <2>1. \A u : Attended(u)' => Attended(u)
    BY <1>1 DEF Attended, conn, history
  <2>2. \A u, m : Pending(m, u) => Pending(m, u)'
    BY <1>1 DEF Pending, Forwards, ToDrain, HasSocket, Here, conn, redis
  <2> QED
    BY <1>1, <2>1, <2>2, WaitingKept DEF redis, bounds
<1>2. CASE UNCHANGED vars
  BY <1>1, <1>2 DEF vars
<1>3. CASE \E s \in Servers : Subscribe(s)
  BY <1>1, <1>3 DEF Subscribe
<1>4. ASSUME Failing PROVE Waiting'
  BY <1>4 DEF Failing, Waiting, Inv, TypeOK
<1> QED
  BY <1>2, <1>3, <1>4, RouterWaits, ReceiveWaits, DrainWaits, ListenerWaits, ConnectWaits, SetOnlineWaits, LeavingWaits
     DEF Next, Raise, SubscriberDies, Crash

\* Inbox first and presence before the inbox is drained (MessageRouter, the websocket
\* handler): when all is quiet, a user who is connected has nothing waiting, unless an
\* await raised, a gone connection has taken their place, or they drained the inbox
\* at a server that had yet to subscribe.
THEOREM NobodyStranded == Spec => []NotStranded
<1>1. Inv /\ Waiting => NotStranded
  <2> SUFFICES ASSUME Inv, Waiting, Quiet, failures = 0, NEW c \in present, Listening(c),
                      user[c] \notin displaced \cup early
               PROVE  inbox[user[c]] = {}
    BY DEF NotStranded
  <2>1. user[c] \in Users /\ Attended(user[c])
    BY DEF Attended, Listening, Inv, TypeOK, Registered
  <2>2. \A m : ~Pending(m, user[c])
    BY InNone DEF Quiet, Pending, ToDrain
  <2> QED
    BY <2>1, <2>2 DEF Waiting
<1>2. Inv /\ Steady /\ Waiting /\ [Next]_vars => (Steady /\ Waiting)'
  BY SteadyStep, WaitingStep
<1> QED
  BY <1>1, <1>2, SteadyInit, WaitingInit, Invariance, PTL DEF Spec
=============================================================================
