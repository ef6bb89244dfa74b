----------------------------- MODULE RateLimiter -----------------------------
(***************************************************************************)
(* The rate limiter: a key's prefix names a rule, the rule one of three    *)
(* algorithms, and each of those is one Lua script, so that a decision is  *)
(* one step.  What is left to go wrong is time: a server reads its clock,  *)
(* which may be behind Redis' or ahead of it, before it calls the script,  *)
(* which may run after scripts with later clocks, while Redis lets the key *)
(* expire by its own; and the sliding window tells calls apart by their    *)
(* time and a number drawn by the script.                                  *)
(*                                                                         *)
(* One key, of a rule that allows Limit calls per Period, which is Unit    *)
(* for each.  The bucket is counted in the time its tokens take to come    *)
(* back, of which a call costs Unit: the code's refill is limit / window.  *)
(***************************************************************************)
EXTENDS Integers, FiniteSets, FiniteSetsExt

CONSTANTS
  Limit, Unit,
  Draws,         \* what math.random() may return
  MaxLag,        \* how far a reading is behind Redis' clock, at most, when the script runs
  MaxLead,       \* and how far ahead of it
  MaxTime,       \* bound on the clock
  MaxDenied,     \* bound on the calls a fixed window counts beyond its limit
  MaxRepeated    \* bound on the calls a sliding window takes for others

VARIABLES
  algorithm,             \* of the key's rule
  clock,
  expiry,                \* of the key in Redis, -1 for none
  count,                 \* the fixed window
  entries,               \* the sliding window: members, with their scores
  tokens, ts,            \* the bucket
  admitted,              \* history: how many calls were admitted by each time,
  repeated               \* and how many of them under the member of another

history == <<admitted, repeated>>
vars == <<algorithm, clock, expiry, count, entries, tokens, ts, history>>

Period == Limit * Unit
\* A rule allows a call at least, and its period has a tick for each.
WellFormed ==
  /\ Limit \in Nat \ {0} /\ Unit \in Nat \ {0}
  /\ MaxLag \in Nat /\ MaxLead \in Nat /\ MaxTime \in Nat
  /\ MaxDenied \in Nat /\ MaxRepeated \in Nat

Times == 0..MaxTime
\* What a server's clock may show.
Stamps == 0..(MaxTime + MaxLead)

TypeOK ==
  /\ algorithm \in {"fixed", "sliding", "bucket"}
  /\ clock \in Times /\ expiry \in -1..(MaxTime + Period)
  /\ count \in 0..(Limit + MaxDenied)
  /\ entries \subseteq Stamps \X Draws
  /\ tokens \in Int /\ ts \in Stamps
  /\ admitted \in [Times -> Nat] /\ repeated \in [Times -> Nat]

Init ==
  /\ algorithm \in {"fixed", "sliding", "bucket"}
  /\ clock = 0 /\ expiry = -1
  /\ count = 0 /\ entries = {} /\ tokens = Period /\ ts = 0
  /\ admitted = [t \in Times |-> 0] /\ repeated = [t \in Times |-> 0]

Live == clock <= expiry
OneMore(calls) == [t \in Times |-> calls[t] + (IF t >= clock THEN 1 ELSE 0)]
Admit == admitted' = OneMore(admitted)

-----------------------------------------------------------------------------
\* INCR, and PEXPIRE by the first call.
FixedWindow ==
  LET c == (IF Live THEN count ELSE 0) + 1 IN
  /\ algorithm = "fixed" /\ c <= Limit + MaxDenied
  /\ count' = c
  /\ expiry' = IF c = 1 THEN clock + Period ELSE expiry
  /\ IF c <= Limit THEN Admit ELSE UNCHANGED admitted
  /\ UNCHANGED <<algorithm, clock, entries, tokens, ts, repeated>>

\* ZREMRANGEBYSCORE, ZCARD and, below the limit, ZADD of a member that is the call's
\* time and a draw.  Of two equal members the set keeps one; the call is admitted.
SlidingWindow(now, draw) ==
  LET kept == {e \in entries : Live /\ e[1] > now - Period} IN
  /\ algorithm = "sliding"
  /\ IF Cardinality(kept) < Limit
       THEN /\ entries' = kept \cup {<<now, draw>>} /\ expiry' = clock + Period
            /\ Admit
            /\ IF <<now, draw>> \in kept
                 THEN repeated[MaxTime] < MaxRepeated /\ repeated' = OneMore(repeated)
                 ELSE UNCHANGED repeated
       ELSE entries' = kept /\ UNCHANGED <<expiry, history>>
  /\ UNCHANGED <<algorithm, clock, count, tokens, ts>>

\* What has come back since, up to the capacity; a late call takes some of it away.
\* Faulty variant: the bucket has no capacity.
RefilledOver(now) == IF Live THEN tokens + (now - ts) ELSE Period
Refilled(now) == IF Live THEN Min({Period, tokens + (now - ts)}) ELSE Period

\* HMSET and PEXPIRE in either case.
TokenBucket(now) ==
  LET level == Refilled(now) IN
  /\ algorithm = "bucket"
  /\ IF level >= Unit
       THEN tokens' = level - Unit /\ Admit
       ELSE tokens' = level /\ UNCHANGED admitted
  /\ ts' = now /\ expiry' = clock + Period
  /\ UNCHANGED <<algorithm, clock, count, entries, repeated>>

Tick ==
  /\ clock < MaxTime
  /\ clock' = clock + 1
  /\ UNCHANGED <<algorithm, expiry, count, entries, tokens, ts, history>>

Readings == {t \in Stamps : clock - MaxLag <= t /\ t <= clock + MaxLead}

Next ==
  \/ FixedWindow \/ Tick
  \/ \E now \in Readings : TokenBucket(now) \/ \E draw \in Draws : SlidingWindow(now, draw)

Spec == Init /\ [][Next]_vars
-----------------------------------------------------------------------------
\* How many calls were admitted from s to t, and how many of them under another's member.
Counted(calls, s, t) == calls[t] - (IF s = 0 THEN 0 ELSE calls[s - 1])
Within(s, t) == Counted(admitted, s, t)
Repeats(s, t) == Counted(repeated, s, t)

\* What the three algorithms bound, of every call that was answered "allowed", whatever
\* clocks the calls bring.  A fixed window lets through less than twice its limit in the
\* time of one, across its end; a sliding one its limit in any window less what clocks
\* differ by, and besides every call that it took for another; a bucket what it holds,
\* what comes back and what clocks differ by.
RateBounded ==
  \A s \in Times : \A t \in s..MaxTime :
    /\ algorithm = "fixed" /\ t - s < Period => Within(s, t) <= 2 * Limit - 1
    /\ algorithm = "sliding" /\ t - s < Period - MaxLag - MaxLead => Within(s, t) <= Limit + Repeats(s, t)
    /\ algorithm = "bucket" /\ t - s <= Period => Unit * Within(s, t) <= Period + (t - s) + MaxLag + MaxLead

\* "A concurrent burst can never over-admit" (atomic_counter.py): at no time more calls
\* than the limit.
NeverOverAdmits == \A t \in Times : Within(t, t) <= Limit
=============================================================================
