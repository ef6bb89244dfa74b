---------------------------- MODULE CrawlFrontier ----------------------------
(***************************************************************************)
(* The URL frontier of the web-crawler case study.  FrontierScheduler      *)
(* admits a URL after robots and dedup, and queues it under its host; next *)
(* rotates over the hosts and pops from the first one whose politeness     *)
(* gate it can close.  Everything but the last host is in Redis: the set   *)
(* of seen URLs, a list per host, the set of hosts, a gate key per host.   *)
(*                                                                         *)
(* Each Redis command is an action, so that handlers of /seed, /discovered *)
(* and /next meet between any two commands; a handler may die at any one.  *)
(***************************************************************************)
EXTENDS Naturals, Sequences, FiniteSets, Functions

CONSTANTS
  Handlers,      \* requests that may be served at the same time
  Hosts,         \* the hosts, in the order sorted() gives them
  Urls,          \* URLs as clients spell them
  Normalize,     \* UrlDeduper.normalize: the key each of them collapses to
  HostOf,        \* the host of a normalized URL
  Disallowed,    \* URLs the robots policy keeps out
  NoHost, NoUrl,
  MaxWindows,    \* bound on the politeness windows that may open per host
  MaxFailures    \* bound on handlers that die

VARIABLES
  seen, queue, hosts, gate,   \* the keys of Redis; gate[h]: closed or not
  lastHost,                   \* FrontierScheduler._last_host
  pc, url, todo,              \* each handler: its URL, the hosts it has yet to try
  handed,                     \* history: URLs given to fetchers, with the host's windows
  lost, windows, failures     \* history: what died with a handler; the bounds' counters

redis == <<seen, queue, hosts, gate>>
handler == <<pc, url, todo>>
history == <<handed, lost, windows, failures>>
vars == <<redis, lastHost, handler, history>>

\* What is asked of the constants.
WellFormed ==
  /\ Hosts \in Seq(Range(Hosts)) /\ IsFiniteSet(Handlers)
  /\ Normalize \in [Urls -> Range(Normalize)] /\ HostOf \in [Range(Normalize) -> Range(Hosts)]
  /\ NoUrl \notin Range(Normalize)
  /\ MaxWindows \in Nat /\ MaxFailures \in Nat

Keys == {Normalize[u] : u \in Urls}
HostSet == Range(Hosts)
Labels == {"idle", "seen", "push", "list", "hosts", "size", "gate", "pop", "left", "unlist"}

TypeOK ==
  /\ seen \subseteq Keys
  /\ queue \in [HostSet -> Seq(Keys)]
  /\ hosts \subseteq HostSet
  /\ gate \in [HostSet -> BOOLEAN]
  /\ lastHost \in HostSet \cup {NoHost}
  /\ pc \in [Handlers -> Labels]
  /\ url \in [Handlers -> Keys \cup {NoUrl}]
  /\ todo \in [Handlers -> Seq(HostSet)]
  /\ handed \in Seq(Keys)
  /\ lost \subseteq Keys
  /\ windows \in [HostSet -> 0..MaxWindows]
  /\ failures \in 0..MaxFailures
  /\ \A x \in Handlers : pc[x] \in {"push", "list"} => url[x] # NoUrl
  /\ \A x \in Handlers : pc[x] \in {"gate", "pop", "left", "unlist"} => todo[x] # << >>

Init ==
  /\ seen = {} /\ hosts = {}
  /\ queue = [h \in HostSet |-> << >>]
  /\ gate = [h \in HostSet |-> FALSE]
  /\ lastHost = NoHost
  /\ pc = [x \in Handlers |-> "idle"]
  /\ url = [x \in Handlers |-> NoUrl]
  /\ todo = [x \in Handlers |-> << >>]
  /\ handed = << >> /\ lost = {}
  /\ windows = [h \in HostSet |-> 0] /\ failures = 0

Goto(x, label) == pc' = [pc EXCEPT ![x] = label]

\* A handler that ends holds nothing more.
End(x) ==
  /\ Goto(x, "idle")
  /\ url' = [url EXCEPT ![x] = NoUrl]
  /\ todo' = [todo EXCEPT ![x] = << >>]

Trying(x) == Head(todo[x])
-----------------------------------------------------------------------------
(* admit *)

\* Robots is a table of the program; a disallowed URL never reaches Redis.
Admit(x, u) ==
  /\ pc[x] = "idle"
  /\ u \notin Disallowed
  /\ url' = [url EXCEPT ![x] = Normalize[u]]
  /\ Goto(x, "seen")
  /\ UNCHANGED <<redis, lastHost, todo, history>>

\* SADD seen answers whether the key is new.  Faulty variant: always.
IsNewAlways(k) == TRUE
IsNew(k) == k \notin seen

AddIfNew(x) ==
  /\ pc[x] = "seen"
  /\ seen' = seen \cup {url[x]}
  /\ IF IsNew(url[x]) THEN Goto(x, "push") /\ UNCHANGED <<url, todo>> ELSE End(x)
  /\ UNCHANGED <<queue, hosts, gate, lastHost, history>>

\* enqueue, RPUSH.
Push(x) ==
  /\ pc[x] = "push"
  /\ queue' = [queue EXCEPT ![HostOf[url[x]]] = Append(@, url[x])]
  /\ Goto(x, "list")
  /\ UNCHANGED <<seen, hosts, gate, lastHost, url, todo, history>>

\* enqueue, SADD hosts.
ListHost(x) ==
  /\ pc[x] = "list"
  /\ hosts' = hosts \cup {HostOf[url[x]]}
  /\ End(x)
  /\ UNCHANGED <<seen, queue, gate, lastHost, history>>

-----------------------------------------------------------------------------
(* next *)

Place(h) == CHOOSE i \in DOMAIN Hosts : Hosts[i] = h

\* The listed hosts in sorted order, from the one after the last host served.
Turn(h) == Place(h) + (IF lastHost \in hosts /\ Place(h) > Place(lastHost) THEN 0 ELSE Len(Hosts))
Rotation == [i \in 1..Cardinality(hosts) |->
               CHOOSE h \in hosts : Cardinality({g \in hosts : Turn(g) < Turn(h)}) = i - 1]

NextUrl(x) ==
  /\ pc[x] = "idle"
  /\ Goto(x, "hosts")
  /\ UNCHANGED <<redis, lastHost, url, todo, history>>

\* SMEMBERS; no host, no URL.
ReadHosts(x) ==
  /\ pc[x] = "hosts"
  /\ IF hosts = {}
       THEN End(x)
       ELSE todo' = [todo EXCEPT ![x] = Rotation] /\ Goto(x, "size") /\ UNCHANGED url
  /\ UNCHANGED <<redis, lastHost, history>>

Skip(x) == todo' = [todo EXCEPT ![x] = Tail(@)] /\ Goto(x, "size")

\* LLEN; past the last host everything is gated and next answers None.
ReadSize(x) ==
  /\ pc[x] = "size"
  /\ CASE todo[x] = << >> -> End(x)
       [] todo[x] # << >> /\ queue[Trying(x)] = << >> -> Skip(x) /\ UNCHANGED url
       [] OTHER -> Goto(x, "gate") /\ UNCHANGED <<url, todo>>
  /\ UNCHANGED <<redis, lastHost, history>>

\* SET gate NX PX closes the gate for an interval.  Faulty variant: no NX.
OpenAlways(h) == TRUE
Open(h) == ~gate[h]

TryOpen(x) ==
  LET h == Trying(x) IN
  /\ pc[x] = "gate"
  /\ IF Open(h)
       THEN /\ gate[h] \/ windows[h] < MaxWindows
            /\ windows' = [windows EXCEPT ![h] = @ + (IF gate[h] THEN 0 ELSE 1)]
            /\ gate' = [gate EXCEPT ![h] = TRUE]
            /\ lastHost' = h
            /\ Goto(x, "pop") /\ UNCHANGED todo
       ELSE Skip(x) /\ UNCHANGED <<windows, gate, lastHost>>
  /\ UNCHANGED <<seen, queue, hosts, url, handed, lost, failures>>

\* LPOP; another handler may have emptied the queue by now.
QueueAfterPop(h) == [queue EXCEPT ![h] = IF @ = << >> THEN @ ELSE Tail(@)]

Pop(x) ==
  LET h == Trying(x) IN
  /\ pc[x] = "pop"
  /\ queue' = QueueAfterPop(h)
  /\ url' = [url EXCEPT ![x] = IF queue[h] = << >> THEN NoUrl ELSE Head(queue[h])]
  /\ Goto(x, "left")
  /\ UNCHANGED <<seen, hosts, gate, lastHost, todo, history>>

\* next answers: the URL, if there was one, is the fetcher's.
Hand(x) == handed' = IF url[x] = NoUrl THEN handed ELSE Append(handed, url[x])

\* pop, LLEN.
ReadLeft(x) ==
  /\ pc[x] = "left"
  /\ IF queue[Trying(x)] = << >>
       THEN Goto(x, "unlist") /\ UNCHANGED <<url, todo, handed>>
       ELSE Hand(x) /\ End(x)
  /\ UNCHANGED <<redis, lastHost, lost, windows, failures>>

\* pop, SREM hosts, whatever was queued since.
Unlist(x) ==
  /\ pc[x] = "unlist"
  /\ hosts' = hosts \ {Trying(x)}
  /\ Hand(x) /\ End(x)
  /\ UNCHANGED <<seen, queue, gate, lastHost, lost, windows, failures>>

-----------------------------------------------------------------------------
\* The interval is over.
GateExpires(h) ==
  /\ gate[h]
  /\ gate' = [gate EXCEPT ![h] = FALSE]
  /\ UNCHANGED <<seen, queue, hosts, lastHost, handler, history>>

\* A handler dies between two commands, with the URL only it knows of.
Fail(x) ==
  /\ pc[x] # "idle"
  /\ failures < MaxFailures
  /\ failures' = failures + 1
  /\ lost' = lost \cup (IF pc[x] \in {"push", "left", "unlist"} THEN {url[x]} \ {NoUrl} ELSE {})
  /\ End(x)
  /\ UNCHANGED <<redis, lastHost, handed, windows>>

Advance(x) ==
  \/ AddIfNew(x) \/ Push(x) \/ ListHost(x)
  \/ ReadHosts(x) \/ ReadSize(x) \/ TryOpen(x) \/ Pop(x) \/ ReadLeft(x) \/ Unlist(x)

Next ==
  \/ \E x \in Handlers : NextUrl(x) \/ Advance(x) \/ Fail(x) \/ \E u \in Urls : Admit(x, u)
  \/ \E h \in HostSet : GateExpires(h)

Spec == Init /\ [][Next]_vars

-----------------------------------------------------------------------------
Held(x) == IF pc[x] \in {"push", "left", "unlist"} THEN {url[x]} \ {NoUrl} ELSE {}

\* "The frontier never re-crawls the web into itself" (url_deduper.py) and it
\* forgets nothing: a URL once seen is in exactly one place, a queue, the hands
\* of one handler, with a fetcher, or lost with a handler that died.
SeenOnce ==
  /\ \A k \in seen :
       Cardinality({x \in Handlers : k \in Held(x)}) + Cardinality({h \in HostSet : k \in Range(queue[h])})
         + Cardinality({i \in DOMAIN handed : handed[i] = k}) + (IF k \in lost THEN 1 ELSE 0) = 1
  /\ \A h \in HostSet : IsInjective(queue[h])

\* Politeness in the long run: a host's URLs leave its queue at most as often as
\* its gate closed.
PopsWithinWindows ==
  \A h \in HostSet :
    Cardinality({i \in DOMAIN handed : HostOf[handed[i]] = h})
      + Cardinality({x \in Handlers : pc[x] \in {"pop", "left", "unlist"} /\ Trying(x) = h}) <= windows[h]
=============================================================================
