---------------------------- MODULE UrlShortener ----------------------------
(***************************************************************************)
(* The URL shortener: create takes the next id of a range that its server  *)
(* has leased from Postgres, or an alias of the client's, and inserts the  *)
(* link; resolve is a cache-aside read.  A server serves ids from memory,  *)
(* under an asyncio lock that is held across the lease of a new range.     *)
(*                                                                         *)
(* Base62Codec.encode is injective, so a code is the id it encodes; an     *)
(* alias may equal the code of an id that is still to come.                *)
(***************************************************************************)
EXTENDS Integers, FiniteSets

CONSTANTS
  Servers, Handlers, Urls,
  Aliases,       \* codes that clients ask for
  Asked,         \* codes that readers resolve
  Batch,         \* ids per lease
  Start,         \* COUNTER_START
  MaxLeases,     \* bound on the ranges leased
  MaxFailures,   \* bound on handlers that fail and servers that restart
  NoHandler, NoUrl, NoCode, NoServer

ASSUME ShortenerAssumption ==
  /\ Batch \in Nat \ {0} /\ Start \in Nat /\ MaxLeases \in Nat /\ MaxFailures \in Nat
  /\ Aliases \subseteq Nat /\ Asked \subseteq Nat
  /\ NoCode \notin Nat /\ NoUrl \notin Urls
  /\ NoHandler \notin Handlers /\ NoServer \notin Servers

VARIABLES
  counter,              \* id_range_allocator.next_value
  rangeNext, rangeEnd,  \* RangeLease._next and _end of each server
  lockOwner,            \* RangeLease._lock of each server
  links,                \* the links table
  cache,                \* Redis: code -> URL
  pc, at, code, url,    \* each handler: where, on which server, for what
  issued, wasted,       \* history: ids given out; ids that died with a server
  failures

lease == <<counter, rangeNext, rangeEnd, lockOwner, issued, wasted>>
handler == <<pc, at, code, url>>
vars == <<lease, links, cache, handler, failures>>

Last == Start + Batch * MaxLeases
Ids == Start..(Last - 1)
Codes == Ids \cup Aliases \cup Asked

Remaining(s) == rangeNext[s]..(rangeEnd[s] - 1)

TypeOK ==
  /\ counter \in Start..Last
  /\ rangeNext \in [Servers -> Nat] /\ rangeEnd \in [Servers -> Nat]
  /\ lockOwner \in [Servers -> Handlers \cup {NoHandler}]
  /\ links \in [Codes -> Urls \cup {NoUrl}]
  /\ cache \in [Asked -> Urls \cup {NoUrl}]
  /\ pc \in [Handlers -> {"idle", "lock", "lease", "insert", "lookup", "fill"}]
  /\ at \in [Handlers -> Servers \cup {NoServer}]
  /\ code \in [Handlers -> Codes \cup {NoCode}]
  /\ url \in [Handlers -> Urls \cup {NoUrl}]
  /\ issued \subseteq Ids /\ wasted \subseteq Ids
  /\ failures \in 0..MaxFailures

Init ==
  /\ counter = Start
  /\ rangeNext = [s \in Servers |-> 0] /\ rangeEnd = [s \in Servers |-> 0]
  /\ lockOwner = [s \in Servers |-> NoHandler]
  /\ links = [c \in Codes |-> NoUrl] /\ cache = [c \in Asked |-> NoUrl]
  /\ pc = [h \in Handlers |-> "idle"] /\ at = [h \in Handlers |-> NoServer]
  /\ code = [h \in Handlers |-> NoCode] /\ url = [h \in Handlers |-> NoUrl]
  /\ issued = {} /\ wasted = {} /\ failures = 0

Goto(h, label) == pc' = [pc EXCEPT ![h] = label]
End(h) ==
  /\ Goto(h, "idle") /\ at' = [at EXCEPT ![h] = NoServer]
  /\ code' = [code EXCEPT ![h] = NoCode] /\ url' = [url EXCEPT ![h] = NoUrl]

-----------------------------------------------------------------------------
(* POST /links *)

\* With an alias the INSERT is next, without one the lock.
Create(h, s, u) ==
  /\ pc[h] = "idle"
  /\ at' = [at EXCEPT ![h] = s] /\ url' = [url EXCEPT ![h] = u]
  /\ \/ Goto(h, "lock") /\ UNCHANGED code
     \/ \E alias \in Aliases : Goto(h, "insert") /\ code' = [code EXCEPT ![h] = alias]
  /\ UNCHANGED <<lease, links, cache, failures>>

Exhausted(s) == rangeNext[s] >= rangeEnd[s]

\* Faulty variant: there is no lock.
LockFreeAlways(s) == TRUE

LockFree(s) == lockOwner[s] = NoHandler

\* `value = self._next; self._next += 1`, of the range that starts at `first`.
Issue(h, s, first) ==
  /\ rangeNext' = [rangeNext EXCEPT ![s] = first + 1]
  /\ issued' = issued \cup {first}
  /\ code' = [code EXCEPT ![h] = first]
  /\ Goto(h, "insert")

\* The lock is granted and the range has an id left: no await until it is free again.
NextId(h) ==
  LET s == at[h] IN
  /\ pc[h] = "lock" /\ LockFree(s) /\ ~Exhausted(s)
  /\ Issue(h, s, rangeNext[s])
  /\ UNCHANGED <<counter, rangeEnd, lockOwner, wasted, links, cache, at, url, failures>>

\* The range is used up: the lock is kept for the time of the UPDATE.
Refill(h) ==
  LET s == at[h] IN
  /\ pc[h] = "lock" /\ LockFree(s) /\ Exhausted(s)
  /\ lockOwner' = [lockOwner EXCEPT ![s] = h]
  /\ Goto(h, "lease")
  /\ UNCHANGED <<counter, rangeNext, rangeEnd, issued, wasted, links, cache, at, code, url, failures>>

\* allocate: UPDATE ... RETURNING next_value, which is the end of the range; the first
\* id of the range, next_value - batch, is taken at once.
Allocate(h) ==
  LET s == at[h] IN
  /\ pc[h] = "lease" /\ counter + Batch <= Last
  /\ counter' = counter + Batch
  /\ rangeEnd' = [rangeEnd EXCEPT ![s] = counter + Batch]
  /\ Issue(h, s, counter)
  /\ lockOwner' = [lockOwner EXCEPT ![s] = NoHandler]
  /\ UNCHANGED <<wasted, links, cache, at, url, failures>>

\* Faulty variant: a code that is taken is bound anew (an upsert).
BindsAnew(c, u) == links' = [links EXCEPT ![c] = u]

\* INSERT; a unique violation (409) leaves the row that is there.
Binds(c, u) == links' = IF links[c] = NoUrl THEN [links EXCEPT ![c] = u] ELSE links

Insert(h) ==
  /\ pc[h] = "insert"
  /\ Binds(code[h], url[h])
  /\ End(h)
  /\ UNCHANGED <<lease, cache, failures>>

-----------------------------------------------------------------------------
(* GET /{code} *)

\* GET of the cache; a hit is answered at once.
Resolve(h, s, c) ==
  /\ pc[h] = "idle" /\ cache[c] = NoUrl
  /\ Goto(h, "lookup")
  /\ at' = [at EXCEPT ![h] = s] /\ code' = [code EXCEPT ![h] = c]
  /\ UNCHANGED <<lease, links, cache, url, failures>>

\* The SELECT; an unknown code is a 404.
Lookup(h) ==
  /\ pc[h] = "lookup"
  /\ IF links[code[h]] = NoUrl
       THEN End(h)
       ELSE /\ Goto(h, "fill") /\ url' = [url EXCEPT ![h] = links[code[h]]]
            /\ UNCHANGED <<at, code>>
  /\ UNCHANGED <<lease, links, cache, failures>>

\* SET with a TTL; the click is published and forgotten.
Fill(h) ==
  /\ pc[h] = "fill"
  /\ cache' = [cache EXCEPT ![code[h]] = url[h]]
  /\ End(h)
  /\ UNCHANGED <<lease, links, failures>>

Expire(c) ==
  /\ cache[c] # NoUrl
  /\ cache' = [cache EXCEPT ![c] = NoUrl]
  /\ UNCHANGED <<lease, links, handler, failures>>

-----------------------------------------------------------------------------
\* A lease whose answer is lost: the range may be gone, and nobody has it; with
\* it go the ids of `tail`.
LeaseLost(tail) ==
  \/ wasted' = wasted \cup tail /\ UNCHANGED counter
  \/ /\ counter + Batch <= Last
     /\ counter' = counter + Batch
     /\ wasted' = wasted \cup tail \cup counter..(counter + Batch - 1)

\* An await raises: `async with` gives the lock back, nothing else is undone.
Fail(h) ==
  LET s == at[h] IN
  /\ pc[h] # "idle" /\ failures < MaxFailures
  /\ failures' = failures + 1
  /\ IF pc[h] = "lease"
       THEN LeaseLost({}) /\ lockOwner' = [lockOwner EXCEPT ![s] = NoHandler]
       ELSE UNCHANGED <<counter, wasted, lockOwner>>
  /\ End(h)
  /\ UNCHANGED <<rangeNext, rangeEnd, issued, links, cache>>

\* A server restarts: "a crash loses the in-memory tail of the range".
Restart(s) ==
  LET gone == {h \in Handlers : at[h] = s} IN
  /\ failures < MaxFailures
  /\ failures' = failures + 1
  /\ IF LockFree(s)
       THEN wasted' = wasted \cup Remaining(s) /\ UNCHANGED counter
       ELSE LeaseLost(Remaining(s))
  /\ lockOwner' = [lockOwner EXCEPT ![s] = NoHandler]
  /\ rangeNext' = [rangeNext EXCEPT ![s] = 0] /\ rangeEnd' = [rangeEnd EXCEPT ![s] = 0]
  /\ pc' = [h \in Handlers |-> IF h \in gone THEN "idle" ELSE pc[h]]
  /\ at' = [h \in Handlers |-> IF h \in gone THEN NoServer ELSE at[h]]
  /\ code' = [h \in Handlers |-> IF h \in gone THEN NoCode ELSE code[h]]
  /\ url' = [h \in Handlers |-> IF h \in gone THEN NoUrl ELSE url[h]]
  /\ UNCHANGED <<issued, links, cache>>

Next ==
  \/ \E h \in Handlers :
       \/ \E s \in Servers, u \in Urls : Create(h, s, u)
       \/ \E s \in Servers, c \in Asked : Resolve(h, s, c)
       \/ NextId(h) \/ Refill(h) \/ Allocate(h) \/ Insert(h)
       \/ Lookup(h) \/ Fill(h) \/ Fail(h)
  \/ \E c \in Asked : Expire(c)
  \/ \E s \in Servers : Restart(s)

Spec == Init /\ [][Next]_vars

-----------------------------------------------------------------------------
\* "Those ids are never reissued, so codes are unique by construction (gaps, never
\* duplicates)" (range_lease.py), and no range is dropped but by a crash: an id below
\* the counter was issued, or is in the range of one server, or was lost with one;
\* never two of these.
IdsAccounted ==
  /\ issued \cup wasted \cup UNION {Remaining(s) : s \in Servers} = Start..(counter - 1)
  /\ issued \cap wasted = {}
  /\ \A s \in Servers :
       /\ Remaining(s) \cap (issued \cup wasted) = {}
       /\ \A t \in Servers \ {s} : Remaining(s) \cap Remaining(t) = {}

\* A redirect never goes to another URL than the one its code was created for: what
\* the cache has, or a reader is about to put there, is what the table says.
CacheAgrees ==
  /\ \A c \in Asked : cache[c] # NoUrl => cache[c] = links[c]
  /\ \A h \in Handlers : pc[h] = "fill" => url[h] = links[code[h]]
=============================================================================
