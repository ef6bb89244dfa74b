---------------------------- MODULE ChatRouting ----------------------------
(***************************************************************************)
(* The chat servers of the WhatsApp case study.  A message is written to   *)
(* its recipient's inbox (Redis), then sent to the recipient's socket on   *)
(* this server, or published to the server that presence names; the inbox  *)
(* row is deleted once the socket took the frame, and a delivered receipt  *)
(* goes back the same way.  A new connection registers its socket, then    *)
(* presence, then drains the inbox.  A server accepts connections while    *)
(* its subscriber is still on its way to SUBSCRIBE.                        *)
(*                                                                         *)
(* A coroutine is the handler of a connection or the subscriber of a       *)
(* server; what it has still to do is a list of steps, each ending at an   *)
(* await.  Clients vanish unnoticed, coroutines raise, servers crash.      *)
(***************************************************************************)
EXTENDS Naturals, Sequences, SequencesExt, FiniteSets

CONSTANTS
  Servers, Users,
  Conns,          \* websocket connections that are ever opened
  Texts,          \* ids the clients give their messages (no receipt's id is one)
  NoConn, NoServer, NoUser,
  MaxFailures,    \* bound on coroutines that raise and servers that crash
  MaxFrames,      \* bound on the frames clients send
  Budget          \* bound on these and the connections that are opened or lost, together

ASSUME ChatAssumption ==
  /\ Conns \cap Servers = {}
  /\ NoConn \notin Conns /\ NoServer \notin Servers /\ NoUser \notin Users
  /\ MaxFailures \in Nat /\ MaxFrames \in Nat /\ Budget \in Nat

VARIABLES
  phase, user, server,   \* each connection's handler: its phase, who and where
  present,               \* connections whose client is still there
  todo,                  \* each coroutine: the steps it has still to do
  sender,                \* ConnectionRegistry._local of each server
  subscriber,            \* each server's subscriber task
  presence, inbox, bus,  \* Redis: the hash, the inboxes, a channel per server
  accepted,              \* history: messages whose inbox row was written
  sent, received,        \* history: messages put on a socket; those a client got
  displaced,             \* history: users whose connections lost their place to a gone one
  early,                 \* history: users who drained before their server listened
  failures, frames       \* counters of the bounds

conn == <<phase, user, server, present>>
redis == <<presence, inbox, bus>>
history == <<accepted, sent, received, displaced, early>>
bounds == <<failures, frames>>
vars == <<conn, todo, sender, subscriber, redis, history, bounds>>

Coroutines == Conns \cup Servers
\* A receipt has the id of what it acknowledges; with its kind, that is its row's key.
Messages == [id : Texts, kind : {"msg", "delivered", "read"}, from : Users, to : Users]
Key(m) == <<m.id, m.kind>>

\* A step: an await still to come, for a message; "publish" also names a server.
Step(op, m) == [op |-> op, msg |-> m, to |-> NoServer]
Steps == [op : {"add", "route", "deliver", "ack", "lookup", "publish"},
          msg : Messages, to : Servers \cup {NoServer}]

Here(x) == IF x \in Servers THEN x ELSE server[x]

TypeOK ==
  /\ phase \in [Conns -> {"new", "online", "drain", "draining", "loop", "offline", "closed"}]
  /\ user \in [Conns -> Users \cup {NoUser}]
  /\ server \in [Conns -> Servers \cup {NoServer}]
  /\ present \subseteq Conns
  /\ todo \in [Coroutines -> Seq(Steps)]
  /\ sender \in [Servers -> [Users -> Conns \cup {NoConn}]]
  /\ subscriber \in [Servers -> {"starting", "listening", "dead"}]
  /\ presence \in [Users -> Servers \cup {NoServer}]
  /\ inbox \in [Users -> SUBSET Messages]
  /\ bus \in [Servers -> Seq(Messages)]
  /\ accepted \subseteq Messages /\ sent \subseteq Messages /\ received \subseteq sent
  /\ displaced \subseteq Users /\ early \subseteq Users
  /\ failures \in 0..MaxFailures /\ frames \in 0..MaxFrames
  /\ \A c \in Conns : todo[c] # << >> => phase[c] \in {"draining", "loop"}

Init ==
  /\ phase = [c \in Conns |-> "new"]
  /\ user = [c \in Conns |-> NoUser]
  /\ server = [c \in Conns |-> NoServer]
  /\ present = {}
  /\ todo = [x \in Coroutines |-> << >>]
  /\ sender = [s \in Servers |-> [u \in Users |-> NoConn]]
  /\ subscriber = [s \in Servers |-> "starting"]
  /\ presence = [u \in Users |-> NoServer]
  /\ inbox = [u \in Users |-> {}]
  /\ bus = [s \in Servers |-> << >>]
  /\ accepted = {} /\ sent = {} /\ received = {} /\ displaced = {} /\ early = {}
  /\ failures = 0 /\ frames = 0

-----------------------------------------------------------------------------
Opened == {c \in Conns : phase[c] # "new"}
Spare == Cardinality(Opened) + Cardinality(Opened \ present) + frames + failures < Budget
Failing == failures < MaxFailures /\ Spare /\ failures' = failures + 1 /\ UNCHANGED frames

(* The life of a connection *)

\* The handlers of these connections end.
Close(cs) ==
  /\ phase' = [c \in Conns |-> IF c \in cs THEN "closed" ELSE phase[c]]
  /\ user' = [c \in Conns |-> IF c \in cs THEN NoUser ELSE user[c]]
  /\ server' = [c \in Conns |-> IF c \in cs THEN NoServer ELSE server[c]]

\* registry.connect up to its await: a newer socket of a user replaces an older one
\* on this server, whether that one's client is still there or not.
Connect(c, u, s) ==
  /\ phase[c] = "new"
  /\ Spare
  /\ phase' = [phase EXCEPT ![c] = "online"]
  /\ user' = [user EXCEPT ![c] = u]
  /\ server' = [server EXCEPT ![c] = s]
  /\ present' = present \cup {c}
  /\ sender' = [sender EXCEPT ![s][u] = c]
  /\ UNCHANGED <<todo, subscriber, redis, history, bounds>>

\* What the handler of c does after its client has gone, it does to the other
\* connections of that user as well.
Others(c) == {d \in present \ {c} : user[d] = user[c]}
Displace(c) ==
  displaced' = displaced \cup (IF c \notin present /\ Others(c) # {} THEN {user[c]} ELSE {})

SetOnline(c) ==
  /\ phase[c] = "online"
  /\ presence' = [presence EXCEPT ![user[c]] = server[c]]
  /\ phase' = [phase EXCEPT ![c] = "drain"]
  /\ Displace(c)
  /\ UNCHANGED <<user, server, present, todo, sender, subscriber, inbox, bus, accepted, sent,
                 received, early, bounds>>

\* HGETALL inbox, then one delivery after the other, in the order of the ids
\* (which is left open).  Faulty variant: receipts are passed over.
UndrainedTexts(u) == {m \in inbox[u] : m.kind = "msg"}
Undrained(u) == inbox[u]

Drain(c) ==
  /\ phase[c] = "drain"
  /\ \E order \in SetToSeqs(Undrained(user[c])) :
       todo' = [todo EXCEPT ![c] = [i \in DOMAIN order |-> Step("deliver", order[i])]]
  /\ phase' = [phase EXCEPT ![c] = "draining"]
  /\ early' = early \cup (IF subscriber[server[c]] = "starting" THEN {user[c]} ELSE {})
  /\ UNCHANGED <<user, server, present, sender, subscriber, redis, accepted, sent, received,
                 displaced, bounds>>

\* The handler receives a frame, or learns of the disconnect, when nothing is left
\* to do.  Faulty variant: whatever it still has to do.
ListeningEarly(c) == phase[c] \in {"draining", "loop"}
Listening(c) == phase[c] \in {"draining", "loop"} /\ todo[c] = << >>

\* A frame: the client names the message and the recipient as it likes, ids may
\* repeat and the recipient may be the sender.
Frame(c, m) ==
  /\ Listening(c) /\ c \in present
  /\ frames < MaxFrames /\ Spare /\ frames' = frames + 1
  /\ todo' = [todo EXCEPT ![c] = <<Step("add", m)>>]
  /\ phase' = [phase EXCEPT ![c] = "loop"]
  /\ UNCHANGED <<user, server, present, sender, subscriber, redis, history, failures>>

Send(c, t, to) == Frame(c, [id |-> t, kind |-> "msg", from |-> user[c], to |-> to])

Read(c, t, to) == Frame(c, [id |-> t, kind |-> "read", from |-> user[c], to |-> to])

\* The client is gone; the server does not know yet.
Vanish(c) ==
  /\ c \in present
  /\ Spare
  /\ present' = present \ {c}
  /\ UNCHANGED <<phase, user, server, todo, sender, subscriber, redis, history, bounds>>

\* WebSocketDisconnect: disconnect pops whatever socket the user has here.
Disconnect(c) ==
  /\ Listening(c) /\ c \notin present
  /\ sender' = [sender EXCEPT ![server[c]][user[c]] = NoConn]
  /\ phase' = [phase EXCEPT ![c] = "offline"]
  /\ Displace(c)
  /\ UNCHANGED <<user, server, present, todo, subscriber, redis, accepted, sent, received, early, bounds>>

SetOffline(c) ==
  /\ phase[c] = "offline"
  /\ presence' = [presence EXCEPT ![user[c]] = NoServer]
  /\ Close({c})
  /\ Displace(c)
  /\ UNCHANGED <<present, todo, sender, subscriber, inbox, bus, accepted, sent,
                 received, early, bounds>>

-----------------------------------------------------------------------------
(* MessageRouter, one await at a time *)

Now(x, op) == todo[x] # << >> /\ Head(todo[x]).op = op
Message(x) == Head(todo[x]).msg

\* The first step is done and gives way to these.
Replace(x, steps) == todo' = [todo EXCEPT ![x] = steps \o Tail(@)]

\* inbox.add: "write first".  HSET: a row with this key gives way.
Add(x) ==
  LET m == Message(x) IN
  /\ Now(x, "add")
  /\ inbox' = [inbox EXCEPT ![m.to] = {n \in @ : Key(n) # Key(m)} \cup {m}]
  /\ accepted' = accepted \cup {m}
  /\ Replace(x, <<Step("route", m)>>)
  /\ UNCHANGED <<conn, sender, subscriber, presence, bus, sent, received, displaced, early, bounds>>

\* What follows when the recipient has no socket here: route asks presence, drain
\* and the subscriber leave it.  Faulty variant: they delete the row all the same.
UndeliveredAcked(m, routed) == <<Step(IF routed THEN "lookup" ELSE "ack", m)>>
Undelivered(m, routed) == IF routed THEN <<Step("lookup", m)>> ELSE << >>

\* _deliver_if_local: the socket takes the frame whether its client is there or
\* not.
Deliver(x) ==
  LET m == Message(x)
      c == sender[Here(x)][m.to]
  IN
  /\ Now(x, "route") \/ Now(x, "deliver")
  /\ IF c # NoConn
       THEN /\ sent' = sent \cup {m}
            /\ received' = received \cup (IF c \in present THEN {m} ELSE {})
            /\ Replace(x, <<Step("ack", m)>>)
       ELSE /\ Replace(x, Undelivered(m, Now(x, "route")))
            /\ UNCHANGED <<sent, received>>
  /\ UNCHANGED <<conn, sender, subscriber, redis, accepted, displaced, early, bounds>>

\* inbox.ack, an HDEL of the key, and the receipt for a text.
Receipt(m) == [id |-> m.id, kind |-> "delivered", from |-> m.to, to |-> m.from]
AfterAck(m) == IF m.kind = "msg" THEN <<Step("add", Receipt(m))>> ELSE << >>

Ack(x) ==
  LET m == Message(x) IN
  /\ Now(x, "ack")
  /\ inbox' = [inbox EXCEPT ![m.to] = {n \in @ : Key(n) # Key(m)}]
  /\ Replace(x, AfterAck(m))
  /\ UNCHANGED <<conn, sender, subscriber, presence, bus, history, bounds>>

\* registry.server_of: elsewhere, here or nowhere.
Lookup(x) ==
  LET m == Message(x)
      s == presence[m.to]
  IN
  /\ Now(x, "lookup")
  /\ Replace(x, IF s \in Servers \ {Here(x)}
                  THEN <<[op |-> "publish", msg |-> m, to |-> s]>>
                  ELSE << >>)
  /\ UNCHANGED <<conn, sender, subscriber, redis, history, bounds>>

\* PUBLISH srv:{server}, to whoever listens.
Publish(x) ==
  LET s == Head(todo[x]).to IN
  /\ Now(x, "publish")
  /\ bus' = [bus EXCEPT ![s] = IF subscriber[s] = "listening" THEN Append(@, Message(x)) ELSE @]
  /\ Replace(x, << >>)
  /\ UNCHANGED <<conn, sender, subscriber, presence, inbox, history, bounds>>

\* SUBSCRIBE, some time after the server began to accept connections.
Subscribe(s) ==
  /\ subscriber[s] = "starting"
  /\ subscriber' = [subscriber EXCEPT ![s] = "listening"]
  /\ UNCHANGED <<conn, todo, sender, redis, history, bounds>>

\* The subscriber of a server takes the next message off its channel.
Receive(s) ==
  /\ subscriber[s] = "listening" /\ todo[s] = << >>
  /\ bus[s] # << >>
  /\ bus' = [bus EXCEPT ![s] = Tail(@)]
  /\ todo' = [todo EXCEPT ![s] = <<Step("deliver", Head(bus[s]))>>]
  /\ UNCHANGED <<conn, sender, subscriber, presence, inbox, history, bounds>>

-----------------------------------------------------------------------------
\* An await raises in the handler: only what the try covers is cleaned up, and
\* registering and the first reading of the inbox are not.
Raise(c) ==
  /\ phase[c] \notin {"new", "closed"}
  /\ Failing
  /\ present' = present \ {c}
  /\ todo' = [todo EXCEPT ![c] = << >>]
  /\ IF phase[c] = "loop" \/ Listening(c)
       THEN /\ phase' = [phase EXCEPT ![c] = "offline"]
            /\ sender' = [sender EXCEPT ![server[c]][user[c]] = NoConn]
            /\ UNCHANGED <<user, server>>
       ELSE Close({c}) /\ UNCHANGED sender
  /\ UNCHANGED <<subscriber, redis, history>>

\* An await raises in the subscriber: nothing starts the task again.
SubscriberDies(s) ==
  /\ subscriber[s] # "dead"
  /\ Failing
  /\ subscriber' = [subscriber EXCEPT ![s] = "dead"]
  /\ todo' = [todo EXCEPT ![s] = << >>]
  /\ bus' = [bus EXCEPT ![s] = << >>]
  /\ UNCHANGED <<conn, sender, presence, inbox, history>>

\* A server dies with its sockets, its subscription and what was under way, and
\* is started again; presence still names it.
Crash(s) ==
  LET its == {c \in Conns : server[c] = s} IN
  /\ Failing
  /\ Close(its)
  /\ present' = present \ its
  /\ todo' = [x \in Coroutines |-> IF x \in its \cup {s} THEN << >> ELSE todo[x]]
  /\ sender' = [sender EXCEPT ![s] = [u \in Users |-> NoConn]]
  /\ subscriber' = [subscriber EXCEPT ![s] = "starting"]
  /\ bus' = [bus EXCEPT ![s] = << >>]
  /\ UNCHANGED <<presence, inbox, history>>

Advance(x) == Add(x) \/ Deliver(x) \/ Ack(x) \/ Lookup(x) \/ Publish(x)

Next ==
  \/ \E c \in Conns :
       \/ \E u \in Users, s \in Servers : Connect(c, u, s)
       \/ SetOnline(c) \/ Drain(c)
       \/ \E t \in Texts, to \in Users : Send(c, t, to) \/ Read(c, t, to)
       \/ Vanish(c) \/ Disconnect(c) \/ SetOffline(c) \/ Raise(c)
  \/ \E x \in Coroutines : Advance(x)
  \/ \E s \in Servers : Subscribe(s) \/ Receive(s) \/ SubscriberDies(s) \/ Crash(s)

Spec == Init /\ [][Next]_vars

-----------------------------------------------------------------------------
\* A message with the key and the recipient of m, which a client takes for m.
SameRow(m, n) == Key(n) = Key(m) /\ n.to = m.to

\* "The inbox row is the copy that survives ... deleted only on a delivery ack"
\* (message_router.py): once written, a message is in the inbox or was put on a
\* socket of its recipient, whichever handlers raise or servers crash; or another
\* one is in its stead that was given the same id.
NothingLost == \A m \in accepted : \E n \in inbox[m.to] \cup sent : SameRow(m, n)

\* The ladder sent, delivered (receipt_tracker.py): no receipt overtakes the text it
\* acknowledges, and it goes from who got that text to who sent it.
ReceiptsTruthful ==
  \A m \in accepted : m.kind = "delivered" =>
    [id |-> m.id, kind |-> "msg", from |-> m.to, to |-> m.from] \in sent

\* Inbox first and presence before the inbox is drained: when all is quiet, a user
\* who is connected has nothing waiting, though nobody looks again.  It takes
\* that no await raised, that no gone connection took the user's place, and that the
\* user did not drain the inbox at a server that had yet to subscribe.
Quiet ==
  /\ \A x \in Coroutines : todo[x] = << >>
  /\ \A s \in Servers : bus[s] = << >>
  /\ \A c \in Conns : phase[c] \notin {"online", "drain"}
NotStranded ==
  Quiet /\ failures = 0 =>
    \A c \in present : Listening(c) /\ user[c] \notin displaced \cup early => inbox[user[c]] = {}

\* "At-least-once" (message_router.py): a message its client never got is still in
\* the inbox.  The row is deleted when the server's socket took the frame, so
\* the code does not keep it.
AtLeastOnce == \A m \in accepted : \E n \in inbox[m.to] \cup received : SameRow(m, n)
=============================================================================
