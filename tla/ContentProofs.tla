---------------------------- MODULE ContentProofs ----------------------------
(***************************************************************************)
(* Proofs about the studies that keep something for their users: links,    *)
(* keys, documents, files, videos and posts.  Each section proves an       *)
(* invariant of one instance for the steps of that instance; a step of the *)
(* studies is a step of one of them and leaves the variables of the others *)
(* alone, so what holds of an instance's specification holds of the        *)
(* studies'.                                                               *)
(***************************************************************************)
EXTENDS Studies, FiniteSetTheorems, TLAPS, WellFoundedInduction

-----------------------------------------------------------------------------
(* One study at a time *)

\* A step of the studies is a step of one of them, and leaves the others alone.
LEMMA OneStudyMoves ==
  ASSUME StudiesNext
  PROVE
    \/ ShortenerNext /\ UNCHANGED <<study, crawlVars, osiVars, lsmVars, docsVars, syncVars, videoVars, clicksVars, feedVars, limiterVars, ringVars>>
    \/ CrawlerNext /\ UNCHANGED <<study, vars, osiVars, lsmVars, docsVars, syncVars, videoVars, clicksVars, feedVars, limiterVars, ringVars>>
    \/ SimulatorNext /\ UNCHANGED <<study, vars, crawlVars, lsmVars, docsVars, syncVars, videoVars, clicksVars, feedVars, limiterVars, ringVars>>
    \/ EngineNext /\ UNCHANGED <<study, vars, crawlVars, osiVars, docsVars, syncVars, videoVars, clicksVars, feedVars, limiterVars, ringVars>>
    \/ EditorsNext /\ UNCHANGED <<study, vars, crawlVars, osiVars, lsmVars, syncVars, videoVars, clicksVars, feedVars, limiterVars, ringVars>>
    \/ FileSyncNext /\ UNCHANGED <<study, vars, crawlVars, osiVars, lsmVars, docsVars, videoVars, clicksVars, feedVars, limiterVars, ringVars>>
    \/ PipelineNext /\ UNCHANGED <<study, vars, crawlVars, osiVars, lsmVars, docsVars, syncVars, clicksVars, feedVars, limiterVars, ringVars>>
    \/ AggregatorNext /\ UNCHANGED <<study, vars, crawlVars, osiVars, lsmVars, docsVars, syncVars, videoVars, feedVars, limiterVars, ringVars>>
    \/ NewsFeedNext /\ UNCHANGED <<study, vars, crawlVars, osiVars, lsmVars, docsVars, syncVars, videoVars, clicksVars, limiterVars, ringVars>>
    \/ LimiterNext /\ UNCHANGED <<study, vars, crawlVars, osiVars, lsmVars, docsVars, syncVars, videoVars, clicksVars, feedVars, ringVars>>
    \/ RingNext /\ UNCHANGED <<study, vars, crawlVars, osiVars, lsmVars, docsVars, syncVars, videoVars, clicksVars, feedVars, limiterVars>>
<1>1. CASE ShortenerNext
  BY <1>1 DEF ShortenerNext, Shortener
<1>2. CASE CrawlerNext
  BY <1>2 DEF CrawlerNext, Crawler
<1>3. CASE SimulatorNext
  BY <1>3 DEF SimulatorNext, Simulator
<1>4. CASE EngineNext
  BY <1>4 DEF EngineNext, Engine
<1>5. CASE EditorsNext
  BY <1>5 DEF EditorsNext, Editors
<1>6. CASE FileSyncNext
  BY <1>6 DEF FileSyncNext, FileSync
<1>7. CASE PipelineNext
  BY <1>7 DEF PipelineNext, Pipeline
<1>8. CASE AggregatorNext
  BY <1>8 DEF AggregatorNext, Aggregator
<1>9. CASE NewsFeedNext
  BY <1>9 DEF NewsFeedNext, NewsFeed
<1>10. CASE LimiterNext
  BY <1>10 DEF LimiterNext, RateLimit
<1>11. CASE RingNext
  BY <1>11 DEF RingNext, Cluster
<1> QED
  BY <1>1, <1>2, <1>3, <1>4, <1>5, <1>6, <1>7, <1>8, <1>9, <1>10, <1>11 DEF StudiesNext

\* The steps of each instance are those of its own specification, or stuttering.
LEMMA ShortenerProjection == StudiesSpec => Spec
<1>1. StudiesInit => Init
  BY DEF StudiesInit
<1>2. StudiesNext => Next \/ UNCHANGED vars
  <2>1. ShortenerNext => Next
    BY DEF ShortenerNext, Shortener, Next
  <2> QED
    BY <2>1, OneStudyMoves
<1>3. [StudiesNext]_studiesVars => [Next]_vars
  BY <1>2 DEF studiesVars
<1> QED
  BY <1>1, <1>3, PTL DEF StudiesSpec, Spec

LEMMA CrawlProjection == StudiesSpec => Crawl!Spec
<1>1. StudiesInit => Crawl!Init
  BY DEF StudiesInit
<1>2. StudiesNext => Crawl!Next \/ UNCHANGED crawlVars
  <2>1. CrawlerNext => Crawl!Next
    BY DEF CrawlerNext, Crawler, Crawl!Next, Crawl!Advance
  <2> QED
    BY <2>1, OneStudyMoves
<1>3. [StudiesNext]_studiesVars => [Crawl!Next]_(Crawl!vars)
  BY <1>2 DEF studiesVars, crawlVars, Crawl!vars, Crawl!redis, Crawl!handler, Crawl!history
<1> QED
  BY <1>1, <1>3, PTL DEF StudiesSpec, Crawl!Spec

LEMMA OsiProjection == StudiesSpec => Osi!Spec
<1>1. StudiesInit => Osi!Init
  BY DEF StudiesInit
<1>2. StudiesNext => Osi!Next \/ UNCHANGED osiVars
  <2>1. SimulatorNext => Osi!Next
    BY DEF SimulatorNext, Simulator, Osi!Next
  <2> QED
    BY <2>1, OneStudyMoves
<1>3. [StudiesNext]_studiesVars => [Osi!Next]_(Osi!vars)
  BY <1>2 DEF studiesVars, osiVars, Osi!vars, Osi!hooks, Osi!root, Osi!pointer
<1> QED
  BY <1>1, <1>3, PTL DEF StudiesSpec, Osi!Spec

LEMMA LsmProjection == StudiesSpec => Lsm!Spec
<1>1. StudiesInit => Lsm!Init
  BY DEF StudiesInit
<1>2. StudiesNext => Lsm!Next \/ UNCHANGED lsmVars
  <2>1. EngineNext => Lsm!Next
    BY DEF EngineNext, Engine, Lsm!Next
  <2> QED
    BY <2>1, OneStudyMoves
<1>3. [StudiesNext]_studiesVars => [Lsm!Next]_(Lsm!vars)
  BY <1>2 DEF studiesVars, lsmVars, Lsm!vars
<1> QED
  BY <1>1, <1>3, PTL DEF StudiesSpec, Lsm!Spec

LEMMA DocsProjection == StudiesSpec => Docs!Spec
<1>1. StudiesInit => Docs!Init
  BY DEF StudiesInit
<1>2. StudiesNext => Docs!Next \/ UNCHANGED docsVars
  <2>1. EditorsNext => Docs!Next
    BY DEF EditorsNext, Editors, Docs!Next
  <2> QED
    BY <2>1, OneStudyMoves
<1>3. [StudiesNext]_studiesVars => [Docs!Next]_(Docs!vars)
  BY <1>2 DEF studiesVars, docsVars, Docs!vars
<1> QED
  BY <1>1, <1>3, PTL DEF StudiesSpec, Docs!Spec

LEMMA SyncProjection == StudiesSpec => Sync!Spec
<1>1. StudiesInit => Sync!Init
  BY DEF StudiesInit
<1>2. StudiesNext => Sync!Next \/ UNCHANGED syncVars
  <2>1. FileSyncNext => Sync!Next
    BY DEF FileSyncNext, FileSync, Sync!Next
  <2> QED
    BY <2>1, OneStudyMoves
<1>3. [StudiesNext]_studiesVars => [Sync!Next]_(Sync!vars)
  BY <1>2 DEF studiesVars, syncVars, Sync!vars, Sync!tables, Sync!agent
<1> QED
  BY <1>1, <1>3, PTL DEF StudiesSpec, Sync!Spec

LEMMA VideoProjection == StudiesSpec => Video!Spec
<1>1. StudiesInit => Video!Init
  BY DEF StudiesInit
<1>2. StudiesNext => Video!Next \/ UNCHANGED videoVars
  <2>1. PipelineNext => Video!Next
    BY DEF PipelineNext, Pipeline, Video!Next
  <2> QED
    BY <2>1, OneStudyMoves
<1>3. [StudiesNext]_studiesVars => [Video!Next]_(Video!vars)
  BY <1>2 DEF studiesVars, videoVars, Video!vars
<1> QED
  BY <1>1, <1>3, PTL DEF StudiesSpec, Video!Spec

LEMMA ClicksProjection == StudiesSpec => Clicks!Spec
<1>1. StudiesInit => Clicks!Init
  BY DEF StudiesInit
<1>2. StudiesNext => Clicks!Next \/ UNCHANGED clicksVars
  <2>1. AggregatorNext => Clicks!Next
    BY DEF AggregatorNext, Aggregator, Clicks!Next
  <2> QED
    BY <2>1, OneStudyMoves
<1>3. [StudiesNext]_studiesVars => [Clicks!Next]_(Clicks!vars)
  BY <1>2 DEF studiesVars, clicksVars, Clicks!vars, Clicks!aggregator, Clicks!handler
<1> QED
  BY <1>1, <1>3, PTL DEF StudiesSpec, Clicks!Spec

LEMMA FeedProjection == StudiesSpec => Feed!Spec
<1>1. StudiesInit => Feed!Init
  BY DEF StudiesInit
<1>2. StudiesNext => Feed!Next \/ UNCHANGED feedVars
  <2>1. NewsFeedNext => Feed!Next
    BY DEF NewsFeedNext, NewsFeed, Feed!Next, Feed!Ids
  <2> QED
    BY <2>1, OneStudyMoves
<1>3. [StudiesNext]_studiesVars => [Feed!Next]_(Feed!vars)
  BY <1>2 DEF studiesVars, feedVars, Feed!vars, Feed!tables, Feed!worker
<1> QED
  BY <1>1, <1>3, PTL DEF StudiesSpec, Feed!Spec

LEMMA LimiterProjection == StudiesSpec => Limiter!Spec
<1>1. StudiesInit => Limiter!Init
  BY DEF StudiesInit
<1>2. StudiesNext => Limiter!Next \/ UNCHANGED limiterVars
  <2>1. LimiterNext => Limiter!Next
    BY DEF LimiterNext, RateLimit, Limiter!Next, Limiter!Readings
  <2> QED
    BY <2>1, OneStudyMoves
<1>3. [StudiesNext]_studiesVars => [Limiter!Next]_(Limiter!vars)
  BY <1>2 DEF studiesVars, limiterVars, Limiter!vars, Limiter!history
<1> QED
  BY <1>1, <1>3, PTL DEF StudiesSpec, Limiter!Spec

LEMMA RingProjection == StudiesSpec => Ring!Spec
<1>1. StudiesInit => Ring!Init
  BY DEF StudiesInit
<1>2. StudiesNext => Ring!Next \/ UNCHANGED ringVars
  <2>1. RingNext => Ring!Next
    BY DEF RingNext, Cluster, Ring!Next
  <2> QED
    BY <2>1, OneStudyMoves
<1>3. [StudiesNext]_studiesVars => [Ring!Next]_(Ring!vars)
  BY <1>2 DEF studiesVars, ringVars, Ring!vars
<1> QED
  BY <1>1, <1>3, PTL DEF StudiesSpec, Ring!Spec

-----------------------------------------------------------------------------
(* Sets *)

Less == {p \in Nat \X Nat : p[1] < p[2]}

LEMMA LessMembers == \A x, y \in Nat : y < x => <<y, x>> \in Less
  BY SMT DEF Less

LEMMA LessWellFounded == IsWellFoundedOn(Less, Nat)
  BY NatLessThanWellFounded DEF OpToRel, Less

\* A set of numbers has a least one, which is what the ring's and the engine's Min is.
LEMMA LeastNumber == ASSUME NEW S \in SUBSET Nat, S # {} PROVE \E x \in S : \A y \in S : x <= y
<1>1. PICK x \in S : \A y \in S : <<y, x>> \notin Less
  BY LessWellFounded, WFMin
<1>2. \A y \in S : ~(y < x)
  BY <1>1, LessMembers
<1> QED
  BY <1>2, SMT

LEMMA LeastPosition ==
  ASSUME NEW S \in SUBSET Nat, S # {}
  PROVE  /\ Ring!Min(S) \in S /\ \A y \in S : Ring!Min(S) <= y
         /\ Lsm!Min(S) \in S /\ \A y \in S : Lsm!Min(S) <= y
<1>1. PICK x \in S : \A y \in S : x <= y
  BY LeastNumber
<1>2. Ring!Min(S) \in S /\ \A y \in S : Ring!Min(S) <= y
  BY <1>1 DEF Ring!Min
<1>3. Lsm!Min(S) \in S /\ \A y \in S : Lsm!Min(S) <= y
  BY <1>1 DEF Lsm!Min
<1> QED
  BY <1>2, <1>3

\* What the instances count with is what the library's theorems are about.
LEMMA SameFiniteSets ==
  /\ \A S : Clicks!IsFiniteSet(S) = IsFiniteSet(S) /\ Clicks!Cardinality(S) = Cardinality(S)
  /\ \A S : Feed!IsFiniteSet(S) = IsFiniteSet(S) /\ Feed!Cardinality(S) = Cardinality(S)
  /\ \A S : Crawl!IsFiniteSet(S) = IsFiniteSet(S) /\ Crawl!Cardinality(S) = Cardinality(S)
  /\ \A S : Limiter!IsFiniteSet(S) = IsFiniteSet(S) /\ Limiter!Cardinality(S) = Cardinality(S)
<1>1. \A S : Clicks!IsFiniteSet(S) = IsFiniteSet(S)
  BY DEF Clicks!IsFiniteSet, IsFiniteSet
<1>2. \A S : Clicks!Cardinality(S) = Cardinality(S)
  BY DEF Clicks!Cardinality, Cardinality
<1>3. \A S : Feed!IsFiniteSet(S) = IsFiniteSet(S)
  BY DEF Feed!IsFiniteSet, IsFiniteSet
<1>4. \A S : Feed!Cardinality(S) = Cardinality(S)
  BY DEF Feed!Cardinality, Cardinality
<1>5. \A S : Crawl!IsFiniteSet(S) = IsFiniteSet(S)
  BY DEF Crawl!IsFiniteSet, IsFiniteSet
<1>6. \A S : Crawl!Cardinality(S) = Cardinality(S)
  BY DEF Crawl!Cardinality, Cardinality
<1>7. \A S : Limiter!IsFiniteSet(S) = IsFiniteSet(S)
  BY DEF Limiter!IsFiniteSet, IsFiniteSet
<1>8. \A S : Limiter!Cardinality(S) = Cardinality(S)
  BY DEF Limiter!Cardinality, Cardinality
<1> QED
  BY <1>1, <1>2, <1>3, <1>4, <1>5, <1>6, <1>7, <1>8

-----------------------------------------------------------------------------
(* The URL shortener *)

\* IdsAccounted is not inductive: that Allocate drops no id with the range it replaces
\* rests on the lock, which is held from the look at the empty range until then
\* (Leasing).  CacheAgrees rests on links that are bound once, and on what each
\* handler has in its hands (InHand).

\* A handler that leases has the lock of its server, whose range is used up.
Leasing ==
  \A h \in Handlers : pc[h] = "lease" => at[h] \in Servers /\ lockOwner[at[h]] = h /\ Exhausted(at[h])

\* What a handler needs at its next step it has.
InHand ==
  \A h \in Handlers :
    /\ pc[h] # "idle" => at[h] \in Servers
    /\ pc[h] \in {"lock", "lease", "insert", "fill"} => url[h] \in Urls
    /\ pc[h] = "insert" => code[h] \in Codes
    /\ pc[h] \in {"lookup", "fill"} => code[h] \in Asked

LEMMA Numbers ==
  /\ Batch \in Nat /\ Batch >= 1 /\ Start \in Nat /\ Last \in Nat /\ Start <= Last
  /\ Ids \subseteq Codes /\ Asked \subseteq Codes /\ Aliases \subseteq Codes
<1>1. Batch * MaxLeases \in Nat
  BY ShortenerAssumption
<1> QED
  BY <1>1, ShortenerAssumption DEF Last, Codes

(* Ids.  The accounting in terms of single numbers, which the steps keep. *)

Known(n) == n \in issued \/ n \in wasted \/ \E s \in Servers : n \in Remaining(s)

Accounts ==
  /\ \A n : Known(n) <=> n \in Int /\ Start <= n /\ n < counter
  /\ \A n \in issued : n \notin wasted
  /\ \A s \in Servers : \A n \in Remaining(s) :
       n \notin issued /\ n \notin wasted /\ \A t \in Servers : n \in Remaining(t) => t = s

Numbered ==
  /\ counter \in Int /\ Start <= counter /\ counter <= Last
  /\ rangeNext \in [Servers -> Nat] /\ rangeEnd \in [Servers -> Nat]
  /\ lockOwner \in [Servers -> Handlers \cup {NoHandler}]
  /\ pc \in [Handlers -> {"idle", "lock", "lease", "insert", "lookup", "fill"}]
  /\ at \in [Handlers -> Servers \cup {NoServer}]

LEMMA AccountsIsIdsAccounted == Numbered => (Accounts <=> IdsAccounted)
<1> SUFFICES ASSUME Numbered PROVE Accounts <=> IdsAccounted
  OBVIOUS
<1> DEFINE held == UNION {Remaining(s) : s \in Servers}
<1>1. \A n : n \in held <=> \E s \in Servers : n \in Remaining(s)
  OBVIOUS
<1>2. \A n : n \in Start..(counter - 1) <=> n \in Int /\ Start <= n /\ n < counter
  BY Numbers DEF Numbered
<1> HIDE DEF held
<1>3. ASSUME Accounts PROVE IdsAccounted
  <2>1. issued \cup wasted \cup held = Start..(counter - 1)
    BY <1>1, <1>2, <1>3 DEF Accounts, Known
  <2> QED
    BY <1>3, <2>1 DEF Accounts, IdsAccounted, held
<1>4. ASSUME IdsAccounted PROVE Accounts
  <2>1. issued \cup wasted \cup held = Start..(counter - 1)
    BY <1>4 DEF IdsAccounted, held
  <2>2. \A n : Known(n) <=> n \in Start..(counter - 1)
    BY <1>1, <2>1 DEF Known
  <2> QED
    BY <1>2, <1>4, <2>2 DEF Accounts, IdsAccounted
<1> QED
  BY <1>3, <1>4

(* Each step keeps the accounts. *)

Tabled ==
  /\ links \in [Codes -> Urls \cup {NoUrl}] /\ cache \in [Asked -> Urls \cup {NoUrl}]
  /\ code \in [Handlers -> Codes \cup {NoCode}] /\ url \in [Handlers -> Urls \cup {NoUrl}]
  /\ failures \in 0..MaxFailures

ShortenerInv == Numbered /\ Tabled /\ Accounts /\ Leasing /\ InHand

LEMMA ShortenerInit == Init => ShortenerInv
<1> SUFFICES ASSUME Init PROVE ShortenerInv
  OBVIOUS
<1>1. \A s \in Servers : \A n : n \notin Remaining(s)
  BY DEF Init, Remaining
<1>2. Numbered
  BY Numbers, <1>1 DEF Init, Numbered
<1>3. Accounts
  <2>1. \A n : ~Known(n)
    BY <1>1 DEF Init, Known
  <2> QED
    BY <1>1, <2>1, Numbers DEF Init, Accounts
<1>4. Tabled
  BY ShortenerAssumption DEF Init, Tabled
<1> QED
  BY <1>2, <1>3, <1>4 DEF Init, ShortenerInv, Leasing, InHand

\* What concerns ids, untouched.
RangesOnly == <<counter, rangeNext, rangeEnd, issued, wasted>>

LEMMA SameAccounts == Accounts /\ UNCHANGED RangesOnly => Accounts'
BY DEF Accounts, Known, Remaining, RangesOnly

\* The first id of what is left goes from the range to the ids issued.
LEMMA IssueNext ==
  ASSUME Numbered, Accounts, NEW s \in Servers, rangeNext[s] < rangeEnd[s],
         rangeNext' = [rangeNext EXCEPT ![s] = rangeNext[s] + 1],
         issued' = issued \cup {rangeNext[s]},
         UNCHANGED <<counter, rangeEnd, wasted>>
  PROVE  Accounts'
<1> DEFINE first == rangeNext[s]
<1>1. first \in Remaining(s)
  BY DEF Numbered, Remaining
<1>2. \A n : n \in Remaining(s)' <=> n \in Remaining(s) /\ n # first
  BY DEF Numbered, Remaining
<1>3. \A t \in Servers \ {s} : Remaining(t)' = Remaining(t)
  BY DEF Numbered, Remaining
<1> HIDE DEF first
<1>4. \A n : n \in issued' <=> n \in issued \/ n = first
  BY DEF first
<1>5. \A n : Known(n)' <=> Known(n)
  BY <1>1, <1>2, <1>3, <1>4 DEF Known
<1> QED
  BY <1>1, <1>2, <1>3, <1>4, <1>5 DEF Accounts

\* An empty range is replaced by a new one, of which one id is issued at once.
LEMMA IssueFirst ==
  ASSUME Numbered, Accounts, NEW s \in Servers, Exhausted(s), counter + Batch <= Last,
         counter' = counter + Batch,
         rangeNext' = [rangeNext EXCEPT ![s] = counter + 1],
         rangeEnd' = [rangeEnd EXCEPT ![s] = counter + Batch],
         issued' = issued \cup {counter},
         UNCHANGED wasted
  PROVE  Accounts'
<1>1. \A n : n \notin Remaining(s)
  BY DEF Numbered, Remaining, Exhausted
<1>2. \A n : n \in Remaining(s)' <=> n \in Int /\ counter < n /\ n < counter + Batch
  BY Numbers DEF Numbered, Remaining
<1>3. \A t \in Servers \ {s} : Remaining(t)' = Remaining(t)
  BY DEF Numbered, Remaining
<1>4. \A n : Known(n)' <=> Known(n) \/ (n \in Int /\ counter <= n /\ n < counter + Batch)
  <2>1. counter \in Int /\ Batch \in Int /\ Batch >= 1
    BY Numbers DEF Numbered
  <2> QED
    BY <1>1, <1>2, <1>3, <2>1 DEF Known
<1>5. \A n : Known(n) => n \in Int /\ n < counter
  BY DEF Accounts
<1>6. \A n : Known(n)' <=> n \in Int /\ Start <= n /\ n < counter'
  BY <1>4, Numbers DEF Accounts, Numbered
<1>7. ASSUME NEW n \in issued' PROVE n \notin wasted'
  BY <1>5, <1>7 DEF Accounts, Known, Numbered
<1>8. ASSUME NEW t \in Servers, NEW n \in Remaining(t)'
      PROVE  n \notin issued' /\ n \notin wasted' /\ \A r \in Servers : n \in Remaining(r)' => r = t
  <2>1. CASE t = s
    <3>1. n \in Int /\ counter < n
      BY <1>2, <1>8, <2>1
    <3>2. ~Known(n)
      BY <1>5, <3>1 DEF Numbered
    <3> QED
      BY <1>3, <2>1, <3>1, <3>2 DEF Known, Numbered
  <2>2. CASE t # s
    <3>1. n \in Remaining(t)
      BY <1>3, <1>8, <2>2
    <3>2. n \in Int /\ n < counter
      BY <1>5, <3>1 DEF Known
    <3>3. n \notin Remaining(s)'
      BY <1>2, <3>2 DEF Numbered
    <3> QED
      BY <1>3, <2>2, <3>1, <3>2, <3>3 DEF Accounts, Numbered
  <2> QED
    BY <2>1, <2>2
<1> QED
  BY <1>6, <1>7, <1>8 DEF Accounts

\* A range dies: what was left of it is lost with its server.
LEMMA TailLost ==
  ASSUME Numbered, Accounts, NEW s \in Servers,
         rangeNext' = [rangeNext EXCEPT ![s] = 0], rangeEnd' = [rangeEnd EXCEPT ![s] = 0],
         wasted' = wasted \cup Remaining(s),
         UNCHANGED <<counter, issued>>
  PROVE  Accounts'
<1>1. \A n : n \notin Remaining(s)'
  BY DEF Numbered, Remaining
<1>2. \A t \in Servers \ {s} : Remaining(t)' = Remaining(t)
  BY DEF Numbered, Remaining
<1>3. \A n : Known(n)' <=> Known(n)
  BY <1>1, <1>2 DEF Known
<1> QED
  BY <1>1, <1>2, <1>3 DEF Accounts

\* A range is taken off the counter and nobody gets it.
LEMMA RangeLost ==
  ASSUME Numbered, Accounts, counter + Batch <= Last, counter' = counter + Batch,
         wasted' = wasted \cup counter..(counter + Batch - 1),
         UNCHANGED <<rangeNext, rangeEnd, issued>>
  PROVE  Accounts'
<1>1. \A n : n \in wasted' <=> n \in wasted \/ (n \in Int /\ counter <= n /\ n < counter + Batch)
  BY Numbers DEF Numbered
<1>2. \A t \in Servers : Remaining(t)' = Remaining(t)
  BY DEF Remaining
<1>3. \A n : Known(n)' <=> Known(n) \/ (n \in Int /\ counter <= n /\ n < counter + Batch)
  BY <1>1, <1>2 DEF Known
<1>4. \A n : Known(n) => n \in Int /\ n < counter
  BY DEF Accounts
<1>5. \A n : Known(n)' <=> n \in Int /\ Start <= n /\ n < counter'
  BY <1>3, Numbers DEF Accounts, Numbered
<1>6. ASSUME NEW n \in issued' PROVE n \notin wasted'
  <2>1. n \in issued /\ n \notin wasted /\ n \in Int /\ n < counter
    BY <1>4, <1>6 DEF Accounts, Known
  <2> QED
    BY <1>1, <2>1 DEF Numbered
<1>7. ASSUME NEW t \in Servers, NEW n \in Remaining(t)'
      PROVE  n \notin issued' /\ n \notin wasted' /\ \A r \in Servers : n \in Remaining(r)' => r = t
  <2>1. n \in Remaining(t) /\ n \in Int /\ n < counter
    BY <1>2, <1>4, <1>7 DEF Known
  <2> QED
    BY <1>1, <1>2, <2>1 DEF Accounts, Numbered
<1> QED
  BY <1>5, <1>6, <1>7 DEF Accounts

\* Both at once: a server restarts while it leases.
LEMMA TailAndRangeLost ==
  ASSUME Numbered, Accounts, NEW s \in Servers, counter + Batch <= Last,
         counter' = counter + Batch,
         rangeNext' = [rangeNext EXCEPT ![s] = 0], rangeEnd' = [rangeEnd EXCEPT ![s] = 0],
         wasted' = wasted \cup Remaining(s) \cup counter..(counter + Batch - 1),
         UNCHANGED issued
  PROVE  Accounts'
<1> DEFINE range(n) == n \in Int /\ counter <= n /\ n < counter + Batch
<1>1. \A n : n \in wasted' <=> n \in wasted \/ n \in Remaining(s) \/ range(n)
  BY Numbers DEF Numbered
<1>2. \A n : n \notin Remaining(s)'
  BY DEF Numbered, Remaining
<1>3. \A t \in Servers \ {s} : Remaining(t)' = Remaining(t)
  BY DEF Numbered, Remaining
<1>4. \A n : Known(n)' <=> Known(n) \/ range(n)
  BY <1>1, <1>2, <1>3 DEF Known
<1>5. \A n : Known(n) => ~range(n)
  BY DEF Accounts, Numbered
<1>6. \A n : Known(n)' <=> n \in Int /\ Start <= n /\ n < counter'
  BY <1>4, Numbers DEF Accounts, Numbered
<1> HIDE DEF range
<1>7. ASSUME NEW n \in issued' PROVE n \notin wasted'
  <2>1. n \in issued /\ ~range(n)
    BY <1>5, <1>7 DEF Known
  <2> QED
    BY <1>1, <2>1 DEF Accounts
<1>8. ASSUME NEW t \in Servers, NEW n \in Remaining(t)'
      PROVE  n \notin issued' /\ n \notin wasted' /\ \A r \in Servers : n \in Remaining(r)' => r = t
  <2>1. t # s /\ n \in Remaining(t) /\ ~range(n)
    BY <1>2, <1>3, <1>5, <1>8 DEF Known
  <2>2. n \notin Remaining(s)
    BY <2>1 DEF Accounts
  <2> QED
    BY <1>1, <1>2, <1>3, <2>1, <2>2 DEF Accounts
<1> QED
  BY <1>6, <1>7, <1>8 DEF Accounts

(* Steps *)

\* A handler that ends needs nothing and leases nothing.
LEMMA HandlerEnds ==
  ASSUME Numbered, Tabled, Leasing, InHand, NEW h \in Handlers, End(h), UNCHANGED <<rangeNext, rangeEnd>>,
         UNCHANGED lockOwner \/ (at[h] \in Servers /\ lockOwner[at[h]] = h /\ lockOwner' = [lockOwner EXCEPT ![at[h]] = NoHandler])
  PROVE  /\ pc' \in [Handlers -> {"idle", "lock", "lease", "insert", "lookup", "fill"}]
         /\ at' \in [Handlers -> Servers \cup {NoServer}]
         /\ code' \in [Handlers -> Codes \cup {NoCode}] /\ url' \in [Handlers -> Urls \cup {NoUrl}]
         /\ lockOwner' \in [Servers -> Handlers \cup {NoHandler}]
         /\ Leasing' /\ InHand'
<1>1. /\ pc' \in [Handlers -> {"idle", "lock", "lease", "insert", "lookup", "fill"}]
      /\ at' \in [Handlers -> Servers \cup {NoServer}]
      /\ code' \in [Handlers -> Codes \cup {NoCode}] /\ url' \in [Handlers -> Urls \cup {NoUrl}]
      /\ lockOwner' \in [Servers -> Handlers \cup {NoHandler}]
  BY DEF Numbered, Tabled, End, Goto
<1>2. Leasing'
  BY DEF Numbered, Leasing, Exhausted, End, Goto
<1>3. InHand'
  BY DEF Numbered, Tabled, InHand, End, Goto
<1> QED
  BY <1>1, <1>2, <1>3

LEMMA ShortenerStep == ShortenerInv /\ [Next]_vars => ShortenerInv'
<1> SUFFICES ASSUME ShortenerInv, [Next]_vars PROVE ShortenerInv'
  OBVIOUS
<1> USE DEF ShortenerInv
<1>1. ASSUME NEW h \in Handlers, NEW s \in Servers, NEW u \in Urls, Create(h, s, u) PROVE ShortenerInv'
  <2>1. Accounts'
    BY <1>1, SameAccounts DEF Create, lease, RangesOnly
  <2>2. Numbered' /\ Tabled'
    BY <1>1, Numbers DEF Create, lease, Goto, Numbered, Tabled
  <2>3. Leasing' /\ InHand'
    BY <1>1, Numbers DEF Create, lease, Goto, Numbered, Tabled, Leasing, InHand, Exhausted
  <2> QED
    BY <2>1, <2>2, <2>3
<1>2. ASSUME NEW h \in Handlers, NEW s \in Servers, NEW c \in Asked, Resolve(h, s, c) PROVE ShortenerInv'
  <2>1. Accounts'
    BY <1>2, SameAccounts DEF Resolve, lease, RangesOnly
  <2>2. Numbered' /\ Tabled'
    BY <1>2, Numbers DEF Resolve, lease, Goto, Numbered, Tabled
  <2>3. Leasing' /\ InHand'
    BY <1>2 DEF Resolve, lease, Goto, Numbered, Tabled, Leasing, InHand, Exhausted
  <2> QED
    BY <2>1, <2>2, <2>3
<1>3. ASSUME NEW h \in Handlers, NextId(h) PROVE ShortenerInv'
  <2>1. at[h] \in Servers /\ rangeNext[at[h]] < rangeEnd[at[h]]
    BY <1>3 DEF NextId, InHand, Exhausted, Numbered
  <2>2. Accounts'
    BY <1>3, <2>1, IssueNext DEF NextId, Issue
  <2>3. rangeNext[at[h]] \in Codes
    <3>1. rangeNext[at[h]] \in Remaining(at[h])
      BY <2>1 DEF Remaining, Numbered
    <3>2. Start <= rangeNext[at[h]] /\ rangeNext[at[h]] < counter
      BY <2>1, <3>1 DEF Accounts, Known
    <3> QED
      BY <2>1, <3>2, Numbers DEF Numbered, Ids
  <2>4. Numbered' /\ Tabled'
    BY <1>3, <2>1, <2>3 DEF NextId, Issue, Goto, Numbered, Tabled
  <2>5. Leasing'
    BY <1>3, <2>1, ShortenerAssumption DEF NextId, Issue, Goto, LockFree, Numbered, Leasing, Exhausted
  <2>6. InHand'
    BY <1>3, <2>3 DEF NextId, Issue, Goto, Numbered, Tabled, InHand
  <2> QED
    BY <2>2, <2>4, <2>5, <2>6
<1>4. ASSUME NEW h \in Handlers, Refill(h) PROVE ShortenerInv'
  <2>1. Accounts'
    BY <1>4, SameAccounts DEF Refill, RangesOnly
  <2>2. at[h] \in Servers
    BY <1>4 DEF Refill, InHand
  <2>3. Numbered' /\ Tabled'
    BY <1>4, <2>2 DEF Refill, Goto, Numbered, Tabled
  <2>4. Leasing' /\ InHand'
    BY <1>4, <2>2, ShortenerAssumption DEF Refill, Goto, LockFree, Numbered, Tabled, Leasing, InHand, Exhausted
  <2> QED
    BY <2>1, <2>3, <2>4
<1>5. ASSUME NEW h \in Handlers, Allocate(h) PROVE ShortenerInv'
  <2>1. at[h] \in Servers /\ lockOwner[at[h]] = h /\ Exhausted(at[h])
    BY <1>5 DEF Allocate, Leasing
  <2>3. /\ counter + Batch <= Last /\ counter' = counter + Batch
        /\ rangeNext' = [rangeNext EXCEPT ![at[h]] = counter + 1]
        /\ rangeEnd' = [rangeEnd EXCEPT ![at[h]] = counter + Batch]
        /\ issued' = issued \cup {counter} /\ code' = [code EXCEPT ![h] = counter]
        /\ lockOwner' = [lockOwner EXCEPT ![at[h]] = NoHandler]
        /\ pc' = [pc EXCEPT ![h] = "insert"]
        /\ pc[h] = "lease" /\ UNCHANGED <<wasted, links, cache, at, url, failures>>
    BY <1>5 DEF Allocate, Issue, Goto
  <2>8. Accounts'
    BY <2>1, <2>3, IssueFirst
  <2>4. counter \in Codes /\ counter + Batch \in Nat /\ counter + 1 \in Nat
    BY <1>5, Numbers DEF Allocate, Numbered, Ids
  <2>5. Numbered' /\ Tabled'
    BY <2>1, <2>3, <2>4, Numbers DEF Numbered, Tabled
  <2>6. Leasing'
    BY <2>1, <2>3 DEF Numbered, Leasing, Exhausted
  <2>7. InHand'
    BY <2>3, <2>4 DEF Numbered, Tabled, InHand
  <2> QED
    BY <2>5, <2>6, <2>7, <2>8
<1>6. ASSUME NEW h \in Handlers, Insert(h) PROVE ShortenerInv'
  <2>1. Accounts'
    BY <1>6, SameAccounts DEF Insert, lease, RangesOnly
  <2>2. links' \in [Codes -> Urls \cup {NoUrl}]
    BY <1>6 DEF Insert, Binds, InHand, Tabled
  <2> QED
    BY <1>6, <2>1, <2>2, HandlerEnds DEF Insert, lease, Numbered, Tabled
<1>7. ASSUME NEW h \in Handlers, Lookup(h) PROVE ShortenerInv'
  <2>1. Accounts'
    BY <1>7, SameAccounts DEF Lookup, lease, RangesOnly
  <2>2. CASE links[code[h]] = NoUrl
    BY <1>7, <2>1, <2>2, HandlerEnds DEF Lookup, lease, Numbered, Tabled
  <2>3. CASE links[code[h]] # NoUrl
    <3>1. code[h] \in Asked /\ links[code[h]] \in Urls
      BY <1>7, <2>3, Numbers DEF Lookup, InHand, Tabled
    <3>2. Numbered' /\ Tabled'
      BY <1>7, <2>3, <3>1 DEF Lookup, lease, Goto, Numbered, Tabled
    <3>3. Leasing' /\ InHand'
      BY <1>7, <2>3, <3>1 DEF Lookup, lease, Goto, Numbered, Tabled, Leasing, InHand, Exhausted
    <3> QED
      BY <2>1, <3>2, <3>3
  <2> QED
    BY <2>2, <2>3
<1>8. ASSUME NEW h \in Handlers, Fill(h) PROVE ShortenerInv'
  <2>1. Accounts'
    BY <1>8, SameAccounts DEF Fill, lease, RangesOnly
  <2>2. cache' \in [Asked -> Urls \cup {NoUrl}]
    BY <1>8 DEF Fill, InHand, Tabled
  <2> QED
    BY <1>8, <2>1, <2>2, HandlerEnds DEF Fill, lease, Numbered, Tabled
<1>9. ASSUME NEW h \in Handlers, Fail(h) PROVE ShortenerInv'
  <2>1. Accounts' /\ counter' \in Int /\ Start <= counter' /\ counter' <= Last
    <3>1. CASE UNCHANGED <<counter, wasted>>
      BY <1>9, <3>1, SameAccounts DEF Fail, RangesOnly, Numbered
    <3>2. CASE counter + Batch <= Last /\ counter' = counter + Batch
               /\ wasted' = wasted \cup counter..(counter + Batch - 1)
      BY <1>9, <3>2, RangeLost, Numbers DEF Fail, Numbered
    <3> QED
      BY <1>9, <3>1, <3>2 DEF Fail, LeaseLost
  <2>2. UNCHANGED lockOwner
        \/ (at[h] \in Servers /\ lockOwner[at[h]] = h /\ lockOwner' = [lockOwner EXCEPT ![at[h]] = NoHandler])
    BY <1>9 DEF Fail, Leasing
  <2>3. failures' \in 0..MaxFailures
    BY <1>9, ShortenerAssumption DEF Fail, Tabled
  <2> QED
    BY <1>9, <2>1, <2>2, <2>3, HandlerEnds DEF Fail, Numbered, Tabled
<1>10. ASSUME NEW c \in Asked, Expire(c) PROVE ShortenerInv'
  <2>1. Accounts'
    BY <1>10, SameAccounts DEF Expire, lease, RangesOnly
  <2> QED
    BY <1>10, <2>1 DEF Expire, lease, handler, Numbered, Tabled, Leasing, InHand, Exhausted
<1>11. ASSUME NEW s \in Servers, Restart(s) PROVE ShortenerInv'
  <2>1. Accounts' /\ counter' \in Int /\ Start <= counter' /\ counter' <= Last
    <3>1. CASE counter' = counter /\ wasted' = wasted \cup Remaining(s)
      BY <1>11, <3>1, TailLost DEF Restart, Numbered
    <3>2. CASE counter + Batch <= Last /\ counter' = counter + Batch
               /\ wasted' = wasted \cup Remaining(s) \cup counter..(counter + Batch - 1)
      <4>1. Accounts'
        BY <1>11, <3>2, TailAndRangeLost DEF Restart
      <4> QED
        BY <3>2, <4>1, Numbers DEF Numbered
    <3> QED
      BY <1>11, <3>1, <3>2 DEF Restart, LeaseLost
  <2>2. failures' \in 0..MaxFailures
    BY <1>11, ShortenerAssumption DEF Restart, Tabled
  <2>3. Numbered' /\ Tabled'
    BY <1>11, <2>1, <2>2 DEF Restart, Numbered, Tabled
  <2>4. Leasing'
    BY <1>11 DEF Restart, Numbered, Leasing, Exhausted
  <2>5. InHand'
    BY <1>11 DEF Restart, Numbered, Tabled, InHand
  <2> QED
    BY <2>1, <2>3, <2>4, <2>5
<1>12. CASE UNCHANGED vars
  <2>1. Accounts'
    BY <1>12, SameAccounts DEF vars, lease, RangesOnly
  <2> QED
    BY <1>12, <2>1 DEF vars, lease, handler, Numbered, Tabled, Leasing, InHand, Exhausted
<1> QED
  BY <1>1, <1>2, <1>3, <1>4, <1>5, <1>6, <1>7, <1>8, <1>9, <1>10, <1>11, <1>12 DEF Next

\* The accounts of ids, the links and the locks of the shortener agree after every step.
THEOREM ShortenerInvariance == Spec => []ShortenerInv
BY ShortenerInit, ShortenerStep, PTL DEF Spec

\* Ids stay within the ranges leased, handlers within their labels.
THEOREM ShortenerTypes == Spec => []TypeOK
<1>1. ASSUME ShortenerInv PROVE TypeOK
  <2>1. \A n : n \in issued \/ n \in wasted => n \in Ids
    BY <1>1, Numbers DEF ShortenerInv, Numbered, Accounts, Known, Ids
  <2>2. issued \subseteq Ids /\ wasted \subseteq Ids
    BY <2>1
  <2>3. counter \in Start..Last
    BY <1>1, Numbers DEF ShortenerInv, Numbered
  <2> QED
    BY <1>1, <2>2, <2>3 DEF ShortenerInv, Numbered, Tabled, TypeOK
<1> QED
  BY <1>1, ShortenerInvariance, PTL

\* "Those ids are never reissued, so codes are unique by construction (gaps, never
\* duplicates)": every id below the counter was issued once, waits in the range of one
\* server, or was lost with one (RangeLease).
THEOREM IdsAlwaysAccounted == Spec => []IdsAccounted
<1>1. ShortenerInv => IdsAccounted
  BY AccountsIsIdsAccounted DEF ShortenerInv
<1> QED
  BY <1>1, ShortenerInvariance, PTL

\* A redirect never goes to another URL than the one its code was created for
\* (RedirectHandler): neither the cache nor a reader that is about to fill it differs
\* from the table, however late the reader is.
THEOREM CacheAlwaysAgrees == Spec => []CacheAgrees
<1>1. Init => CacheAgrees
  BY DEF Init, CacheAgrees
<1>2. ShortenerInv /\ CacheAgrees /\ [Next]_vars => CacheAgrees'
  <2> SUFFICES ASSUME ShortenerInv, CacheAgrees, [Next]_vars PROVE CacheAgrees'
    OBVIOUS
  <2> USE DEF ShortenerInv, Numbered, Tabled, CacheAgrees
  \* What is bound stays bound, to the same URL.
  <2>1. \A c \in Codes : links[c] # NoUrl => links'[c] = links[c]
    <3>1. ASSUME NEW h \in Handlers, Insert(h) PROVE \A c \in Codes : links[c] # NoUrl => links'[c] = links[c]
      BY <3>1 DEF Insert, Binds
    <3>2. CASE UNCHANGED links
      BY <3>2
    <3> QED
      BY <3>1, <3>2 DEF Next, Create, Resolve, NextId, Refill, Allocate, Lookup, Fill, Fail, Expire, Restart, vars
  <2>2. \A c \in Asked : c \in Codes /\ cache[c] # NoUrl => links[c] # NoUrl
    BY Numbers, ShortenerAssumption
  <2>3. ASSUME NEW h \in Handlers, pc[h] = "fill"
        PROVE  code[h] \in Asked /\ links[code[h]] # NoUrl
    BY <2>3, ShortenerAssumption DEF InHand
  <2>4. ASSUME NEW c \in Asked, cache'[c] # NoUrl PROVE cache'[c] = links'[c]
    <3>1. ASSUME NEW h \in Handlers, Fill(h) PROVE cache'[c] = links'[c]
      BY <2>3, <2>4, <3>1 DEF Fill, lease
    <3>2. ASSUME NEW d \in Asked, Expire(d) PROVE cache'[c] = links'[c]
      BY <2>4, <3>2, ShortenerAssumption DEF Expire
    <3>3. CASE UNCHANGED cache
      BY <2>1, <2>2, <2>4, <3>3, Numbers
    <3> QED
      BY <3>1, <3>2, <3>3 DEF Next, Create, Resolve, NextId, Refill, Allocate, Insert, Lookup, Fail, Restart, vars
  <2>5. ASSUME NEW h \in Handlers, pc'[h] = "fill" PROVE url'[h] = links'[code'[h]]
    <3>1. ASSUME pc[h] = "fill", code'[h] = code[h], url'[h] = url[h] PROVE url'[h] = links'[code'[h]]
      BY <2>1, <2>3, <3>1, Numbers
    <3>2. ASSUME NEW g \in Handlers, Lookup(g) PROVE url'[h] = links'[code'[h]]
      <4>1. CASE g = h
        BY <2>5, <3>2, <4>1 DEF Lookup, End, Goto
      <4>2. CASE g # h
        BY <2>5, <3>1, <3>2, <4>2 DEF Lookup, End, Goto
      <4> QED
        BY <4>1, <4>2
    <3>3. ASSUME NEW g \in Handlers, End(g) PROVE url'[h] = links'[code'[h]]
      BY <2>5, <3>1, <3>3 DEF End, Goto
    <3>4. ASSUME NEW g \in Handlers, NEW s \in Servers, NEW u \in Urls, Create(g, s, u)
          PROVE  url'[h] = links'[code'[h]]
      BY <2>5, <3>1, <3>4 DEF Create, Goto
    <3>8. ASSUME NEW g \in Handlers, NEW s \in Servers, NEW c \in Asked, Resolve(g, s, c)
          PROVE  url'[h] = links'[code'[h]]
      BY <2>5, <3>1, <3>8 DEF Resolve, Goto
    <3>5. ASSUME NEW g \in Handlers, NextId(g) \/ Refill(g) \/ Allocate(g) PROVE url'[h] = links'[code'[h]]
      BY <2>5, <3>1, <3>5 DEF NextId, Refill, Allocate, Issue, Goto
    <3>6. ASSUME NEW s \in Servers, Restart(s) PROVE url'[h] = links'[code'[h]]
      BY <2>5, <3>1, <3>6 DEF Restart
    <3>7. CASE UNCHANGED handler
      BY <2>5, <3>1, <3>7 DEF handler
    <3> QED
      BY <3>2, <3>3, <3>4, <3>5, <3>6, <3>7, <3>8 DEF Next, Insert, Fill, Fail, Expire, vars
  <2> QED
    BY <2>4, <2>5
<1> QED
  BY <1>1, <1>2, ShortenerInvariance, PTL DEF Spec

-----------------------------------------------------------------------------
(* The storage engine *)

\* What one entry answers, and what a read answers with one more table in front.
Shown(e) == IF e = Tombstone THEN Absent ELSE e

LEMMA AnswerInFront ==
  ASSUME NEW tables \in Seq(Lsm!Entries), NEW m \in Lsm!Entries, NEW k
  PROVE  Lsm!Answer(<<m>> \o tables, k) = IF k \in DOMAIN m THEN Shown(m[k]) ELSE Lsm!Answer(tables, k)
<1> DEFINE all == <<m>> \o tables
           S == {i \in DOMAIN tables : k \in DOMAIN tables[i]}
           T == {i \in DOMAIN all : k \in DOMAIN all[i]}
<1>1. /\ Len(tables) \in Nat /\ DOMAIN tables = 1..Len(tables)
      /\ DOMAIN all = 1..(Len(tables) + 1)
      /\ all[1] = m
      /\ \A i \in DOMAIN tables : all[i + 1] = tables[i]
  OBVIOUS
<1> HIDE DEF all
<1>2. \A i \in DOMAIN all : i = 1 \/ (i - 1 \in DOMAIN tables /\ all[i] = tables[i - 1])
  BY <1>1
<1>3. CASE k \in DOMAIN m
  <2>1. 1 \in T /\ T \in SUBSET Nat /\ \A i \in T : 1 <= i
    BY <1>1, <1>3
  <2>2. Lsm!Min(T) = 1
    <3>1. Lsm!Min(T) \in T /\ Lsm!Min(T) <= 1
      BY <2>1, LeastPosition
    <3> QED
      BY <2>1, <3>1
  <2>3. k \in Lsm!KeysOf(all) /\ Lsm!Newest(all, k) = m[k]
    BY <1>1, <1>3, <2>2 DEF Lsm!KeysOf, Lsm!Newest
  <2> QED
    BY <1>3, <2>3 DEF Lsm!Answer, Shown, all
<1>4. CASE k \notin DOMAIN m /\ S = {}
  <2>1. T = {}
    BY <1>1, <1>2, <1>4
  <2>2. k \notin Lsm!KeysOf(all) /\ k \notin Lsm!KeysOf(tables)
    BY <1>4, <2>1 DEF Lsm!KeysOf
  <2> QED
    BY <1>4, <2>2 DEF Lsm!Answer, all
<1>5. CASE k \notin DOMAIN m /\ S # {}
  <2>1. S \in SUBSET Nat /\ T \in SUBSET Nat
    BY <1>1
  <2>2. Lsm!Min(S) \in S /\ \A i \in S : Lsm!Min(S) <= i
    BY <1>5, <2>1, LeastPosition
  <2>3. Lsm!Min(S) + 1 \in T
    BY <1>1, <2>2
  <2>4. Lsm!Min(T) \in T /\ \A i \in T : Lsm!Min(T) <= i
    BY <2>1, <2>3, LeastPosition
  <2>5. Lsm!Min(T) - 1 \in S
    BY <1>1, <1>2, <1>5, <2>4
  <2>6. Lsm!Min(T) = Lsm!Min(S) + 1
    <3>1. Lsm!Min(T) <= Lsm!Min(S) + 1 /\ Lsm!Min(S) <= Lsm!Min(T) - 1 /\ Lsm!Min(S) \in Nat /\ Lsm!Min(T) \in Nat
      BY <2>1, <2>2, <2>3, <2>4, <2>5
    <3> QED
      BY <3>1
  <2>7. Lsm!Newest(all, k) = Lsm!Newest(tables, k)
    BY <1>1, <2>2, <2>6 DEF Lsm!Newest
  <2>8. k \in Lsm!KeysOf(all) /\ k \in Lsm!KeysOf(tables)
    BY <2>2, <2>4 DEF Lsm!KeysOf
  <2> QED
    BY <1>5, <2>7, <2>8 DEF Lsm!Answer, all
<1> QED
  BY <1>3, <1>4, <1>5

\* Without tables, every key is absent.
LEMMA AnswerOfNone == \A k : Lsm!Answer(<< >>, k) = Absent
  BY DEF Lsm!Answer, Lsm!KeysOf

LEMMA EmptyEntries == << >> \in Lsm!Entries /\ DOMAIN << >> = {}
<1>1. << >> \in [{} -> StoreValues \cup {Tombstone}]
  OBVIOUS
<1>2. {} \in SUBSET StoreKeys
  OBVIOUS
<1> QED
  BY <1>1, <1>2 DEF Lsm!Entries

\* Reading is right, whatever the disk has refused.
Right == \A k \in StoreKeys : Lsm!Get(k) = IF k \in lostKeys THEN Absent ELSE written[k]
StoreInv == Lsm!TypeOK /\ Right

\* A scan is what the reads of all keys answer.
LEMMA ScanAgrees == \A k \in StoreKeys : Lsm!Get(k) = IF k \in DOMAIN Lsm!Scan THEN Lsm!Scan[k] ELSE Absent
  BY DEF Lsm!Get, Lsm!Scan, Lsm!Answer

\* What a read answers: the memtable's entry, or that of the segments.
LEMMA GetSplits ==
  ASSUME Lsm!TypeOK, NEW k
  PROVE  Lsm!Get(k) = IF k \in DOMAIN memtable THEN Shown(memtable[k]) ELSE Lsm!Answer(segments, k)
  BY AnswerInFront DEF Lsm!TypeOK, Lsm!Get

\* A flush changes no answer.
LEMMA FlushAnswers ==
  ASSUME NEW m \in Lsm!Entries, Lsm!FlushOf(m), segments \in Seq(Lsm!Entries), NEW k
  PROVE  Lsm!Answer(<<memtable'>> \o segments', k) = IF k \in DOMAIN m THEN Shown(m[k]) ELSE Lsm!Answer(segments, k)
<1>1. CASE segments' = <<m>> \o segments /\ memtable' = << >>
  <2>1. segments' \in Seq(Lsm!Entries)
    BY <1>1
  <2>2. Lsm!Answer(<<memtable'>> \o segments', k) = Lsm!Answer(segments', k)
    BY <1>1, <2>1, EmptyEntries, AnswerInFront
  <2> QED
    BY <1>1, <2>2, AnswerInFront
<1>2. CASE memtable' = m /\ UNCHANGED segments
  BY <1>2, AnswerInFront
<1> QED
  BY <1>1, <1>2 DEF Lsm!FlushOf

LEMMA FlushTypes ==
  ASSUME Lsm!TypeOK, NEW m \in Lsm!Entries, Lsm!FlushOf(m), Len(segments) < MaxSegments
  PROVE  /\ memtable' \in Lsm!Entries /\ segments' \in Seq(Lsm!Entries) /\ Len(segments') <= MaxSegments
         /\ diskErrors' \in 0..MaxDiskErrors
<1> USE StudiesAssumption DEF Lsm!TypeOK, Lsm!WellFormed
<1>1. CASE segments' = <<m>> \o segments /\ memtable' = << >> /\ UNCHANGED diskErrors
  <2>1. <<m>> \o segments \in Seq(Lsm!Entries) /\ Len(<<m>> \o segments) = Len(segments) + 1
    OBVIOUS
  <2> QED
    BY <1>1, <2>1, EmptyEntries
<1>2. CASE Lsm!DiskFails /\ memtable' = m /\ UNCHANGED segments
  BY <1>2 DEF Lsm!DiskFails
<1> QED
  BY <1>1, <1>2 DEF Lsm!FlushOf

LEMMA PutStep ==
  ASSUME StoreInv, NEW k \in StoreKeys, NEW v \in StoreValues \cup {Tombstone}, Lsm!Put(k, v)
  PROVE  StoreInv'
<1> DEFINE m == [x \in DOMAIN memtable \cup {k} |-> IF x = k THEN v ELSE memtable[x]]
<1>1. DOMAIN memtable \subseteq StoreKeys /\ memtable \in [DOMAIN memtable -> StoreValues \cup {Tombstone}]
  <2>1. PICK ks \in SUBSET StoreKeys : memtable \in [ks -> StoreValues \cup {Tombstone}]
    BY DEF StoreInv, Lsm!TypeOK, Lsm!Entries
  <2> QED
    BY <2>1
<1>2. m \in Lsm!Entries
  <2>1. m \in [DOMAIN memtable \cup {k} -> StoreValues \cup {Tombstone}]
    BY <1>1
  <2>2. DOMAIN memtable \cup {k} \in SUBSET StoreKeys
    BY <1>1
  <2> QED
    BY <2>1, <2>2 DEF Lsm!Entries
<1>3. /\ DOMAIN m = DOMAIN memtable \cup {k} /\ m[k] = v
      /\ \A x \in DOMAIN memtable : x # k => m[x] = memtable[x]
  OBVIOUS
<1>4. /\ Lsm!FlushOf(m) \/ (memtable' = m /\ UNCHANGED <<segments, diskErrors>>)
      /\ Len(segments) < MaxSegments
      /\ written' = [written EXCEPT ![k] = Shown(v)]
      /\ lostKeys' = lostKeys \ {k}
  BY DEF Lsm!Put, Shown
<1> HIDE DEF m
<1>5. \A x : Lsm!Get(x)' = IF x \in DOMAIN m THEN Shown(m[x]) ELSE Lsm!Answer(segments, x)
  BY <1>2, <1>4, FlushAnswers, AnswerInFront DEF StoreInv, Lsm!TypeOK, Lsm!Get
<1>6. Lsm!TypeOK'
  <2>1. written' \in [StoreKeys -> StoreValues \cup {Absent}] /\ lostKeys' \subseteq StoreKeys
    BY <1>4 DEF StoreInv, Lsm!TypeOK, Shown
  <2>2. /\ memtable' \in Lsm!Entries /\ segments' \in Seq(Lsm!Entries) /\ Len(segments') <= MaxSegments
        /\ diskErrors' \in 0..MaxDiskErrors
    BY <1>2, <1>4, FlushTypes DEF StoreInv, Lsm!TypeOK
  <2> QED
    BY <2>1, <2>2 DEF Lsm!TypeOK
<1>7. Right'
  <2> SUFFICES ASSUME NEW x \in StoreKeys
               PROVE  Lsm!Get(x)' = IF x \in lostKeys' THEN Absent ELSE written'[x]
    BY DEF Right
  <2>1. CASE x = k
    BY <1>3, <1>4, <1>5, <2>1 DEF StoreInv, Lsm!TypeOK
  <2>2. CASE x # k
    <3>1. Lsm!Get(x)' = Lsm!Get(x)
      BY <1>3, <1>5, <2>2, GetSplits DEF StoreInv
    <3> QED
      BY <1>4, <2>2, <3>1 DEF StoreInv, Right, Lsm!TypeOK
  <2> QED
    BY <2>1, <2>2
<1> QED
  BY <1>6, <1>7 DEF StoreInv

LEMMA FlushStep == ASSUME StoreInv, Lsm!Flush PROVE StoreInv'
<1>1. Lsm!TypeOK'
  BY FlushTypes DEF Lsm!Flush, StoreInv, Lsm!TypeOK
<1>2. \A x : Lsm!Get(x)' = Lsm!Get(x)
  BY FlushAnswers, GetSplits DEF Lsm!Flush, StoreInv, Lsm!TypeOK, Lsm!Get
<1> QED
  BY <1>1, <1>2 DEF StoreInv, Right, Lsm!Flush

\* The merged segment answers what its inputs did.
LEMMA MergedAnswers ==
  /\ Lsm!Merged \in [DOMAIN Lsm!Merged -> {Lsm!Newest(segments, k) : k \in Lsm!KeysOf(segments)}]
  /\ \A k : Lsm!Answer(segments, k) = IF k \in DOMAIN Lsm!Merged THEN Lsm!Merged[k] ELSE Absent
  /\ \A k \in DOMAIN Lsm!Merged : k \in Lsm!KeysOf(segments) /\ Lsm!Merged[k] = Lsm!Newest(segments, k) /\ Lsm!Merged[k] # Tombstone
  BY DEF Lsm!Merged, Lsm!Inputs, Lsm!Answer

LEMMA MergedEntries == ASSUME Lsm!TypeOK PROVE Lsm!Merged \in Lsm!Entries
<1>1. ASSUME NEW k \in Lsm!KeysOf(segments) PROVE k \in StoreKeys /\ Lsm!Newest(segments, k) \in StoreValues \cup {Tombstone}
  <2> DEFINE S == {i \in DOMAIN segments : k \in DOMAIN segments[i]}
  <2>1. S \in SUBSET Nat /\ S # {}
    BY <1>1 DEF Lsm!KeysOf, Lsm!TypeOK
  <2>2. Lsm!Min(S) \in S
    BY <2>1, LeastPosition
  <2>3. segments[Lsm!Min(S)] \in Lsm!Entries /\ k \in DOMAIN segments[Lsm!Min(S)]
    BY <2>2 DEF Lsm!TypeOK
  <2> QED
    BY <2>3 DEF Lsm!Newest, Lsm!Entries
<1>2. DOMAIN Lsm!Merged \in SUBSET StoreKeys /\ Lsm!Merged \in [DOMAIN Lsm!Merged -> StoreValues \cup {Tombstone}]
  BY <1>1, MergedAnswers
<1> QED
  BY <1>2 DEF Lsm!Entries

LEMMA CompactStep == ASSUME StoreInv, Lsm!Compact PROVE StoreInv'
<1> DEFINE rest == SubSeq(segments, Len(Lsm!Inputs) + 1, Len(segments))
<1>1. rest = << >> /\ Len(segments) > 1 /\ UNCHANGED <<memtable, written>> /\ Lsm!TypeOK
  BY DEF Lsm!Compact, Lsm!Inputs, StoreInv, Lsm!TypeOK
<1>2. /\ \/ /\ segments' = IF Lsm!Merged = << >> THEN rest ELSE <<Lsm!Merged>> \o rest
            /\ UNCHANGED <<lostKeys, diskErrors>>
         \/ Lsm!DiskFails /\ UNCHANGED <<segments, lostKeys>>
         \/ /\ Lsm!DiskFails /\ Lsm!Merged # << >>
            /\ segments' = rest
            /\ lostKeys' = lostKeys \cup (DOMAIN Lsm!Merged \ DOMAIN memtable)
  BY DEF Lsm!Compact
<1> HIDE DEF rest
<1>3. \A S \in Seq(Lsm!Entries) : memtable \in Lsm!Entries /\ 
        \A k : Lsm!Answer(<<memtable>> \o S, k) = IF k \in DOMAIN memtable THEN Shown(memtable[k]) ELSE Lsm!Answer(S, k)
  BY <1>1, AnswerInFront DEF Lsm!TypeOK
<1>4. CASE segments' = (IF Lsm!Merged = << >> THEN rest ELSE <<Lsm!Merged>> \o rest) /\ UNCHANGED <<lostKeys, diskErrors>>
  <2>1. (segments' = << >> /\ DOMAIN Lsm!Merged = {}) \/ segments' = <<Lsm!Merged>> \o << >>
    <3>1. CASE Lsm!Merged = << >>
      BY <1>1, <1>4, <3>1, EmptyEntries
    <3>2. CASE Lsm!Merged # << >>
      BY <1>1, <1>4, <3>2
    <3> QED
      BY <3>1, <3>2
  <2>2. segments' \in Seq(Lsm!Entries) /\ Len(segments') <= 1
    <3>1. ASSUME NEW m \in Lsm!Entries PROVE <<m>> \o << >> = <<m>>
      OBVIOUS
    <3>2. ASSUME NEW m \in Lsm!Entries PROVE <<m>> \in Seq(Lsm!Entries) /\ Len(<<m>>) = 1
      OBVIOUS
    <3>3. << >> \in Seq(Lsm!Entries) /\ Len(<< >>) = 0
      OBVIOUS
    <3>4. CASE segments' = << >>
      BY <3>3, <3>4
    <3>5. CASE segments' = <<Lsm!Merged>> \o << >>
      <4>1. Lsm!Merged \in Lsm!Entries
        BY <1>1, MergedEntries
      <4> QED
        BY <3>1, <3>2, <3>5, <4>1
    <3> QED
      BY <2>1, <3>4, <3>5
  <2>3. \A k : Lsm!Answer(segments', k) = Lsm!Answer(segments, k)
    <3>1. << >> \in Seq(Lsm!Entries)
      OBVIOUS
    <3>2. \A k : Lsm!Answer(<<Lsm!Merged>> \o << >>, k) = IF k \in DOMAIN Lsm!Merged THEN Shown(Lsm!Merged[k]) ELSE Absent
      BY <1>1, <3>1, MergedEntries, AnswerInFront, AnswerOfNone
    <3> QED
      BY <2>1, <3>2, MergedAnswers, AnswerOfNone DEF Shown
  <2>4. \A k : Lsm!Get(k)' = Lsm!Get(k)
    BY <1>1, <1>3, <2>2, <2>3 DEF Lsm!Get, Lsm!TypeOK
  <2>5. Lsm!TypeOK'
    BY <1>1, <1>4, <2>2, StudiesAssumption DEF Lsm!TypeOK, Lsm!WellFormed
  <2> QED
    BY <1>1, <1>4, <2>4, <2>5 DEF StoreInv, Right
<1>5. CASE Lsm!DiskFails /\ UNCHANGED <<segments, lostKeys>>
  BY <1>1, <1>5, StudiesAssumption DEF StoreInv, Lsm!TypeOK, Right, Lsm!Get, Lsm!DiskFails, Lsm!WellFormed
<1>6. CASE /\ Lsm!DiskFails /\ segments' = rest
           /\ lostKeys' = lostKeys \cup (DOMAIN Lsm!Merged \ DOMAIN memtable)
  <2>1. DOMAIN Lsm!Merged \subseteq StoreKeys
    BY <1>1, MergedEntries DEF Lsm!Entries
  <2>2. segments' = << >> /\ segments' \in Seq(Lsm!Entries) /\ Len(segments') = 0
    BY <1>1, <1>6
  <2>3. Lsm!TypeOK'
    BY <1>1, <1>6, <2>1, <2>2, StudiesAssumption DEF Lsm!TypeOK, Lsm!DiskFails, Lsm!WellFormed
  <2>4. \A k : Lsm!Get(k)' = IF k \in DOMAIN memtable THEN Shown(memtable[k]) ELSE Absent
    BY <1>1, <1>3, <2>2, AnswerOfNone DEF Lsm!Get
  <2>5. ASSUME NEW k \in StoreKeys PROVE Lsm!Get(k)' = IF k \in lostKeys' THEN Absent ELSE written'[k]
    <3>1. Lsm!Get(k) = IF k \in DOMAIN memtable THEN Shown(memtable[k]) ELSE Lsm!Answer(segments, k)
      BY <1>1, GetSplits
    <3>2. Lsm!Get(k) = IF k \in lostKeys THEN Absent ELSE written[k]
      BY DEF StoreInv, Right
    <3> QED
      BY <1>1, <1>6, <2>4, <3>1, <3>2, MergedAnswers
  <2> QED
    BY <2>3, <2>5 DEF StoreInv, Right
<1> QED
  BY <1>2, <1>4, <1>5, <1>6

LEMMA StoreStep == ASSUME StoreInv, [Lsm!Next]_(Lsm!vars) PROVE StoreInv'
<1>1. ASSUME NEW k \in StoreKeys, Lsm!Delete(k) PROVE StoreInv'
  BY <1>1, PutStep DEF Lsm!Delete
<1>2. CASE UNCHANGED Lsm!vars
  BY <1>2 DEF Lsm!vars, StoreInv, Lsm!TypeOK, Right, Lsm!Get
<1> QED
  BY <1>1, <1>2, PutStep, FlushStep, CompactStep DEF Lsm!Next

LEMMA StoreInitInv == Lsm!Init => StoreInv
<1> SUFFICES ASSUME Lsm!Init PROVE StoreInv
  OBVIOUS
<1>1. Lsm!TypeOK
  BY EmptyEntries, StudiesAssumption DEF Lsm!Init, Lsm!TypeOK, Lsm!WellFormed
<1>2. \A k \in StoreKeys : Lsm!Get(k) = Absent
  BY <1>1, GetSplits, AnswerOfNone, EmptyEntries DEF Lsm!Init
<1> QED
  BY <1>1, <1>2 DEF Lsm!Init, StoreInv, Right

\* Reads agree with the history of writes after every step of the engine.
THEOREM StoreInvariance == Lsm!Spec => []StoreInv
<1> QED
  BY StoreInitInv, StoreStep, PTL DEF Lsm!Spec

\* A read is the last write of its key, through flushes, compactions and disk errors (LsmEngine.get).
THEOREM StoreReads == Lsm!Spec => []Lsm!ReadsLastWrite
<1>1. StoreInv => Lsm!ReadsLastWrite
  BY ScanAgrees DEF StoreInv, Right, Lsm!ReadsLastWrite
<1> QED
  BY <1>1, StoreInvariance, PTL

-----------------------------------------------------------------------------
(* The document server *)

\* A text after an operation, position by position, and where each character was before.
LEMMA Joined ==
  ASSUME NEW S, NEW front \in Seq(S), NEW back \in Seq(S)
  PROVE  /\ front \o back \in Seq(S) /\ Len(front \o back) = Len(front) + Len(back)
         /\ \A m \in 1..(Len(front) + Len(back)) :
              (front \o back)[m] = IF m <= Len(front) THEN front[m] ELSE back[m - Len(front)]
<1>1. Len(front) \in Nat /\ Len(back) \in Nat
  OBVIOUS
<1> QED
  BY <1>1

LEMMA CutFront ==
  ASSUME NEW S, NEW text \in Seq(S), NEW pos \in 0..Len(text)
  PROVE  /\ SubSeq(text, 1, pos) \in Seq(S) /\ Len(SubSeq(text, 1, pos)) = pos
         /\ \A m \in 1..pos : SubSeq(text, 1, pos)[m] = text[m]
OBVIOUS

LEMMA CutBack ==
  ASSUME NEW S, NEW text \in Seq(S), NEW pos \in 0..Len(text)
  PROVE  /\ SubSeq(text, pos + 1, Len(text)) \in Seq(S) /\ Len(SubSeq(text, pos + 1, Len(text))) = Len(text) - pos
         /\ \A m \in 1..(Len(text) - pos) : SubSeq(text, pos + 1, Len(text))[m] = text[pos + m]
<1>1. Len(text) \in Nat
  OBVIOUS
<1> QED
  BY <1>1

Insertion(text, pos, char) == SubSeq(text, 1, pos) \o <<char>> \o SubSeq(text, pos + 1, Len(text))
Removal(text, pos) == SubSeq(text, 1, pos) \o SubSeq(text, pos + 2, Len(text))

LEMMA Inserted ==
  ASSUME NEW S, NEW text \in Seq(S), NEW pos \in 0..Len(text), NEW char \in S
  PROVE  /\ Insertion(text, pos, char) \in Seq(S) /\ Len(Insertion(text, pos, char)) = Len(text) + 1
         /\ \A m \in 1..pos : Insertion(text, pos, char)[m] = text[m]
         /\ Insertion(text, pos, char)[pos + 1] = char
         /\ \A m \in 1..(Len(text) + 1) : m > pos + 1 => Insertion(text, pos, char)[m] = text[m - 1]
<1>0. Len(text) \in Nat
  OBVIOUS
<1>1. PICK front \in Seq(S) : front = SubSeq(text, 1, pos) /\ Len(front) = pos /\ \A m \in 1..pos : front[m] = text[m]
  BY CutFront, Zenon
<1>2. PICK back \in Seq(S) : /\ back = SubSeq(text, pos + 1, Len(text)) /\ Len(back) = Len(text) - pos
                             /\ \A m \in 1..(Len(text) - pos) : back[m] = text[pos + m]
  <2>1. PICK back : back = SubSeq(text, pos + 1, Len(text))
    OBVIOUS
  <2>2. back \in Seq(S) /\ Len(back) = Len(text) - pos /\ \A m \in 1..(Len(text) - pos) : back[m] = text[pos + m]
    BY <2>1, CutBack
  <2> QED
    BY <2>1, <2>2, Zenon
<1>3. PICK one \in Seq(S) : one = <<char>> /\ Len(one) = 1 /\ one[1] = char
  <2>1. <<char>> \in Seq(S) /\ Len(<<char>>) = 1 /\ <<char>>[1] = char
    OBVIOUS
  <2> QED
    BY <2>1, Zenon
<1>4. PICK half \in Seq(S) : half = front \o one
  BY Joined, Zenon
<1>5. Len(half) = Len(front) + Len(one)
      /\ \A m \in 1..(Len(front) + Len(one)) : half[m] = IF m <= Len(front) THEN front[m] ELSE one[m - Len(front)]
  BY <1>4, Joined, Zenon
<1>6. Len(half) = pos + 1 /\ \A m \in 1..(pos + 1) : half[m] = IF m <= pos THEN front[m] ELSE one[m - pos]
  BY <1>1, <1>3, <1>5, Zenon
<1>7. PICK after \in Seq(S) : after = half \o back
  BY Joined, Zenon
<1>8. Len(after) = Len(half) + Len(back)
      /\ \A m \in 1..(Len(half) + Len(back)) : after[m] = IF m <= Len(half) THEN half[m] ELSE back[m - Len(half)]
  BY <1>7, Joined, Zenon
<1>9. (pos + 1) + (Len(text) - pos) = Len(text) + 1
  BY <1>0
<1>10. Len(after) = Len(text) + 1
       /\ \A m \in 1..(Len(text) + 1) : after[m] = IF m <= pos + 1 THEN half[m] ELSE back[m - (pos + 1)]
  BY <1>2, <1>6, <1>8, <1>9, Zenon
<1>11. ASSUME NEW m \in 1..(Len(text) + 1)
       PROVE  after[m] = IF m <= pos THEN text[m] ELSE IF m = pos + 1 THEN char ELSE text[m - 1]
  <2>1. CASE m <= pos
    <3>1. m \in 1..pos /\ m \in 1..(pos + 1) /\ m <= pos + 1
      BY <1>0, <2>1
    <3> QED
      BY <1>1, <1>6, <1>10, <2>1, <3>1
  <2>2. CASE m = pos + 1
    <3>1. m \in 1..(pos + 1) /\ m - pos = 1 /\ ~(m <= pos)
      BY <1>0, <2>2
    <3> QED
      BY <1>3, <1>6, <1>10, <2>2, <3>1
  <2>3. CASE m > pos + 1
    <3>1. /\ m - (pos + 1) \in 1..(Len(text) - pos) /\ pos + (m - (pos + 1)) = m - 1
          /\ ~(m <= pos + 1) /\ ~(m <= pos) /\ m # pos + 1
      BY <1>0, <2>3
    <3>2. back[m - (pos + 1)] = text[m - 1]
      BY <1>2, <3>1
    <3> QED
      BY <1>10, <3>1, <3>2
  <2> QED
    BY <1>0, <2>1, <2>2, <2>3
<1>12. after = Insertion(text, pos, char)
  BY <1>1, <1>2, <1>3, <1>4, <1>7, Zenon DEF Insertion
<1>13. /\ \A m \in 1..pos : after[m] = text[m]
       /\ after[pos + 1] = char
       /\ \A m \in 1..(Len(text) + 1) : m > pos + 1 => after[m] = text[m - 1]
  <2>1. \A m \in 1..(Len(text) + 1) :
          /\ m <= pos => after[m] = text[m]
          /\ m = pos + 1 => after[m] = char
          /\ m > pos + 1 => after[m] = text[m - 1]
    <3> SUFFICES ASSUME NEW m \in 1..(Len(text) + 1)
                 PROVE  /\ m <= pos => after[m] = text[m]
                        /\ m = pos + 1 => after[m] = char
                        /\ m > pos + 1 => after[m] = text[m - 1]
      OBVIOUS
    <3>1. after[m] = IF m <= pos THEN text[m] ELSE IF m = pos + 1 THEN char ELSE text[m - 1]
      BY <1>11
    <3>2. (m = pos + 1 => ~(m <= pos)) /\ (m > pos + 1 => ~(m <= pos) /\ m # pos + 1)
      BY <1>0
    <3> QED
      BY <3>1, <3>2
  <2>2. pos + 1 \in 1..(Len(text) + 1) /\ \A m \in 1..pos : m \in 1..(Len(text) + 1) /\ m <= pos
    BY <1>0
  <2> QED
    BY <2>1, <2>2
<1> QED
  BY <1>10, <1>12, <1>13

LEMMA Removed ==
  ASSUME NEW S, NEW text \in Seq(S), NEW pos \in 0..(Len(text) - 1)
  PROVE  /\ Removal(text, pos) \in Seq(S) /\ Len(Removal(text, pos)) = Len(text) - 1
         /\ \A m \in 1..(Len(text) - 1) : Removal(text, pos)[m] = IF m <= pos THEN text[m] ELSE text[m + 1]
<1>0. Len(text) \in Nat /\ pos \in 0..Len(text) /\ pos + 1 \in 0..Len(text) /\ (pos + 1) + 1 = pos + 2
  OBVIOUS
<1>1. PICK front \in Seq(S) : front = SubSeq(text, 1, pos) /\ Len(front) = pos /\ \A m \in 1..pos : front[m] = text[m]
  BY <1>0, CutFront, Zenon
<1>2. PICK back \in Seq(S) : /\ back = SubSeq(text, (pos + 1) + 1, Len(text)) /\ Len(back) = Len(text) - (pos + 1)
                             /\ \A m \in 1..(Len(text) - (pos + 1)) : back[m] = text[(pos + 1) + m]
  <2>1. PICK back : back = SubSeq(text, (pos + 1) + 1, Len(text))
    OBVIOUS
  <2>2. /\ back \in Seq(S) /\ Len(back) = Len(text) - (pos + 1)
        /\ \A m \in 1..(Len(text) - (pos + 1)) : back[m] = text[(pos + 1) + m]
    BY <1>0, <2>1, CutBack
  <2> QED
    BY <2>1, <2>2, Zenon
<1>3. PICK after \in Seq(S) : after = front \o back
  BY Joined, Zenon
<1>4. Len(after) = Len(front) + Len(back)
      /\ \A m \in 1..(Len(front) + Len(back)) : after[m] = IF m <= Len(front) THEN front[m] ELSE back[m - Len(front)]
  BY <1>3, Joined, Zenon
<1>5. pos + (Len(text) - (pos + 1)) = Len(text) - 1
  BY <1>0
<1>6. Len(after) = Len(text) - 1
      /\ \A m \in 1..(Len(text) - 1) : after[m] = IF m <= pos THEN front[m] ELSE back[m - pos]
  BY <1>1, <1>2, <1>4, <1>5, Zenon
<1>7. ASSUME NEW m \in 1..(Len(text) - 1)
      PROVE  after[m] = IF m <= pos THEN text[m] ELSE text[m + 1]
  <2>1. CASE m <= pos
    <3>1. m \in 1..pos
      BY <1>0, <2>1
    <3> QED
      BY <1>1, <1>6, <2>1, <3>1
  <2>2. CASE ~(m <= pos)
    <3>1. m - pos \in 1..(Len(text) - (pos + 1)) /\ (pos + 1) + (m - pos) = m + 1
      BY <1>0, <2>2
    <3>2. back[m - pos] = text[m + 1]
      BY <1>2, <3>1
    <3> QED
      BY <1>6, <2>2, <3>2
  <2> QED
    BY <2>1, <2>2
<1>8. after = Removal(text, pos)
  BY <1>0, <1>1, <1>2, <1>3 DEF Removal
<1> QED
  BY <1>6, <1>7, <1>8

\* The operations that make sense on a text.
Fits(op, text) ==
  /\ op.kind \in {"ins", "del", "noop"}
  /\ op.kind = "ins" => op.pos \in 0..Len(text)
  /\ op.kind = "del" => op.pos \in 0..(Len(text) - 1)

\* The character at k before an operation is at m after it.
Goes(op, k, m) ==
  \/ op.kind = "ins" /\ k <= op.pos /\ m = k
  \/ op.kind = "ins" /\ k > op.pos /\ m = k + 1
  \/ op.kind = "del" /\ k <= op.pos /\ m = k
  \/ op.kind = "del" /\ k > op.pos + 1 /\ m = k - 1
  \/ op.kind = "noop" /\ m = k

\* Each character of the text after an operation was there before, or is the inserted
\* one; and the operation loses no other character than the deleted one.
LEMMA Origins ==
  ASSUME NEW S, NEW text \in Seq(S), NEW op, Fits(op, text), op.kind = "ins" => op.char \in S,
         NEW after, after = Docs!Apply(text, op)
  PROVE  /\ after \in Seq(S)
         /\ op.kind = "ins" => Len(after) = Len(text) + 1
         /\ op.kind = "del" => Len(after) = Len(text) - 1
         /\ op.kind = "noop" => Len(after) = Len(text)
         /\ \A m \in 1..Len(after) :
              \/ op.kind = "ins" /\ m = op.pos + 1 /\ after[m] = op.char
              \/ \E k \in 1..Len(text) : after[m] = text[k] /\ Goes(op, k, m)
         /\ \A k \in 1..Len(text), m \in Nat : Goes(op, k, m) => m \in 1..Len(after) /\ after[m] = text[k]
         /\ op.kind = "ins" => op.pos + 1 \in 1..Len(after) /\ after[op.pos + 1] = op.char
<1>1. CASE op.kind = "ins"
  <2>1. op.pos \in 0..Len(text) /\ op.char \in S /\ Len(text) \in Nat
    BY <1>1 DEF Fits
  <2>2. after = Insertion(text, op.pos, op.char)
    BY <1>1 DEF Docs!Apply, Insertion
  <2>0. PICK pos \in 0..Len(text), char \in S : pos = op.pos /\ char = op.char
    BY <2>1
  <2>3. /\ after \in Seq(S) /\ Len(after) = Len(text) + 1
        /\ \A m \in 1..op.pos : after[m] = text[m]
        /\ after[op.pos + 1] = op.char
        /\ \A m \in 1..(Len(text) + 1) : m > op.pos + 1 => after[m] = text[m - 1]
    <3>1. after = Insertion(text, pos, char)
      BY <2>0, <2>2
    <3>2. Insertion(text, pos, char) \in Seq(S) /\ Len(Insertion(text, pos, char)) = Len(text) + 1
      BY Inserted
    <3>3. \A m \in 1..pos : Insertion(text, pos, char)[m] = text[m]
      BY Inserted
    <3>4. Insertion(text, pos, char)[pos + 1] = char
      BY Inserted
    <3>5. \A m \in 1..(Len(text) + 1) : m > pos + 1 => Insertion(text, pos, char)[m] = text[m - 1]
      BY Inserted
    <3> QED
      BY <2>0, <3>1, <3>2, <3>3, <3>4, <3>5, Zenon
  <2>4. ASSUME NEW m \in 1..Len(after), m # op.pos + 1
        PROVE  \E k \in 1..Len(text) : after[m] = text[k] /\ Goes(op, k, m)
    <3>1. CASE m <= op.pos
      <4>1. m \in 1..Len(text) /\ m \in 1..op.pos
        BY <2>1, <2>3, <3>1
      <4> QED
        BY <1>1, <2>3, <3>1, <4>1 DEF Goes
    <3>2. CASE m > op.pos
      <4>1. m - 1 \in 1..Len(text) /\ m - 1 > op.pos /\ (m - 1) + 1 = m /\ m > op.pos + 1 /\ m \in 1..(Len(text) + 1)
        BY <2>1, <2>3, <2>4, <3>2
      <4> QED
        BY <1>1, <2>3, <4>1 DEF Goes
    <3> QED
      BY <2>1, <2>3, <3>1, <3>2
  <2>5. ASSUME NEW k \in 1..Len(text), NEW m \in Nat, Goes(op, k, m) PROVE m \in 1..Len(after) /\ after[m] = text[k]
    <3>1. \/ k <= op.pos /\ m = k
          \/ k > op.pos /\ m = k + 1
      BY <1>1, <2>5 DEF Goes
    <3>2. CASE k <= op.pos /\ m = k
      <4>1. m \in 1..op.pos /\ m \in 1..Len(after)
        BY <2>1, <2>3, <3>2
      <4> QED
        BY <2>3, <3>2, <4>1
    <3>3. CASE k > op.pos /\ m = k + 1
      <4>1. m \in 1..(Len(text) + 1) /\ m > op.pos + 1 /\ m - 1 = k
        BY <2>1, <3>3
      <4> QED
        BY <2>3, <4>1
    <3> QED
      BY <3>1, <3>2, <3>3
  <2>6. op.pos + 1 \in 1..Len(after)
    BY <2>1, <2>3
  <2> QED
    BY <1>1, <2>3, <2>4, <2>5, <2>6
<1>2. CASE op.kind = "del"
  <2>1. op.pos \in 0..(Len(text) - 1) /\ Len(text) \in Nat
    BY <1>2 DEF Fits
  <2>2. after = Removal(text, op.pos)
    BY <1>2 DEF Docs!Apply, Removal
  <2>0. PICK pos \in 0..(Len(text) - 1) : pos = op.pos
    BY <2>1
  <2>3. /\ after \in Seq(S) /\ Len(after) = Len(text) - 1
        /\ \A m \in 1..Len(after) : after[m] = IF m <= op.pos THEN text[m] ELSE text[m + 1]
    <3>1. after = Removal(text, pos)
      BY <2>0, <2>2
    <3>2. /\ after \in Seq(S) /\ Len(after) = Len(text) - 1
          /\ \A m \in 1..(Len(text) - 1) : after[m] = IF m <= pos THEN text[m] ELSE text[m + 1]
      BY <3>1, Removed, Zenon
    <3> QED
      BY <2>0, <3>2
  <2>4. ASSUME NEW m \in 1..Len(after)
        PROVE  \E k \in 1..Len(text) : after[m] = text[k] /\ Goes(op, k, m)
    <3>1. CASE m <= op.pos
      <4>1. m \in 1..Len(text) /\ after[m] = text[m]
        BY <2>1, <2>3, <3>1
      <4> QED
        BY <1>2, <3>1, <4>1 DEF Goes
    <3>2. CASE m > op.pos
      <4>1. m + 1 \in 1..Len(text) /\ ~(m <= op.pos) /\ m + 1 > op.pos + 1 /\ (m + 1) - 1 = m
        BY <2>1, <2>3, <3>2
      <4> QED
        BY <1>2, <2>3, <4>1 DEF Goes
    <3> QED
      BY <2>1, <2>3, <3>1, <3>2
  <2>5. ASSUME NEW k \in 1..Len(text), NEW m \in Nat, Goes(op, k, m) PROVE m \in 1..Len(after) /\ after[m] = text[k]
    <3>1. \/ k <= op.pos /\ m = k
          \/ k > op.pos + 1 /\ m = k - 1
      BY <1>2, <2>5 DEF Goes
    <3>2. CASE k <= op.pos /\ m = k
      BY <2>1, <2>3, <3>2
    <3>3. CASE k > op.pos + 1 /\ m = k - 1
      <4>1. m \in 1..Len(after) /\ ~(m <= op.pos) /\ m + 1 = k
        BY <2>1, <2>3, <3>3
      <4> QED
        BY <2>3, <4>1
    <3> QED
      BY <3>1, <3>2, <3>3
  <2> QED
    BY <1>2, <2>3, <2>4, <2>5
<1>3. CASE op.kind = "noop"
  <2>1. after = text
    BY <1>3 DEF Docs!Apply
  <2>2. Len(text) \in Nat
    OBVIOUS
  <2> QED
    BY <1>3, <2>1 DEF Goes
<1> QED
  BY <1>1, <1>2, <1>3 DEF Fits

Ordered(from, text) ==
  \A i, j \in 1..Len(from), m, n \in 1..Len(text) : i < j /\ from[i] = text[m] /\ from[j] = text[n] => m < n
Unique(text) == \A m, n \in 1..Len(text) : text[m] = text[n] => m = n
Lacks(text, op) == op.kind = "ins" => \A m \in 1..Len(text) : text[m] # op.char

\* An operation keeps the order of what it does not delete.
LEMMA KeepsOrder ==
  ASSUME NEW S, NEW text \in Seq(S), NEW op, Fits(op, text), op.kind = "ins" => op.char \in S,
         NEW after, after = Docs!Apply(text, op),
         NEW from \in Seq(S), Ordered(from, text), Lacks(from, op)
  PROVE  Ordered(from, after)
<1>0. \A x \in 1..Len(after) :
        \/ op.kind = "ins" /\ x = op.pos + 1 /\ after[x] = op.char
        \/ \E k \in 1..Len(text) : after[x] = text[k] /\ Goes(op, k, x)
  BY Origins
<1>1. SUFFICES ASSUME NEW i \in 1..Len(from), NEW j \in 1..Len(from), NEW m \in 1..Len(after), NEW n \in 1..Len(after),
                      i < j, from[i] = after[m], from[j] = after[n]
               PROVE  m < n
  BY DEF Ordered
<1>2. PICK k \in 1..Len(text) : after[m] = text[k] /\ Goes(op, k, m)
  BY <1>0, <1>1 DEF Lacks
<1>3. PICK l \in 1..Len(text) : after[n] = text[l] /\ Goes(op, l, n)
  BY <1>0, <1>1 DEF Lacks
<1>4. k < l
  BY <1>1, <1>2, <1>3 DEF Ordered
<1>5. op.kind # "noop" => op.pos \in Nat
  BY DEF Fits
<1> QED
  BY <1>2, <1>3, <1>4, <1>5 DEF Goes

LEMMA KeepsUnique ==
  ASSUME NEW S, NEW text \in Seq(S), NEW op, Fits(op, text), op.kind = "ins" => op.char \in S,
         NEW after, after = Docs!Apply(text, op), Unique(text), Lacks(text, op)
  PROVE  Unique(after)
<1>1. SUFFICES ASSUME NEW m \in 1..Len(after), NEW n \in 1..Len(after), after[m] = after[n] PROVE m = n
  BY DEF Unique
<1>2. \A x \in 1..Len(after) :
        \/ op.kind = "ins" /\ x = op.pos + 1 /\ after[x] = op.char
        \/ \E k \in 1..Len(text) : after[x] = text[k] /\ Goes(op, k, x)
  BY Origins
<1>3. CASE op.kind = "ins" /\ after[m] = op.char
  BY <1>1, <1>2, <1>3 DEF Lacks
<1>4. CASE ~(op.kind = "ins" /\ after[m] = op.char)
  <2>1. PICK k \in 1..Len(text) : after[m] = text[k] /\ Goes(op, k, m)
    BY <1>2, <1>4
  <2>2. PICK l \in 1..Len(text) : after[n] = text[l] /\ Goes(op, l, n)
    BY <1>1, <1>2, <1>4
  <2>3. k = l
    BY <1>1, <2>1, <2>2 DEF Unique
  <2>4. op.kind # "noop" => op.pos \in Nat
    BY DEF Fits
  <2> QED
    BY <2>1, <2>2, <2>3, <2>4 DEF Goes
<1> QED
  BY <1>3, <1>4

Edits == [kind : {"ins", "del", "noop"}, pos : Nat, char : Nat]

\* What a transformed operation does to text is what op, the editor's, does to seen: it
\* inserts the same character between the same neighbours, or deletes the same character,
\* or has nothing left to delete.
Carries(op, saw, a, text) ==
  /\ a \in Edits /\ Fits(a, text)
  /\ op.kind = "ins" =>
       /\ a.kind = "ins" /\ a.char = op.char
       /\ \A k \in 1..Len(saw), n \in 1..Len(text) : saw[k] = text[n] => (k <= op.pos <=> n <= a.pos)
  /\ op.kind = "del" =>
       /\ a.kind \in {"del", "noop"}
       /\ a.kind = "del" => text[a.pos + 1] = saw[op.pos + 1]
       /\ a.kind = "noop" => \A n \in 1..Len(text) : text[n] # saw[op.pos + 1]

LEMMA TransformedOne ==
  ASSUME NEW a \in Edits, NEW b, b.kind # "noop" => b.pos \in Nat, NEW t, t = Docs!TransformOne(a, b)
  PROVE  /\ t.char = a.char
         /\ a.kind = "noop" \/ b.kind = "noop" => t = a
         /\ a.kind # "noop" /\ b.kind = "ins" /\ b.pos <= a.pos => t.kind = a.kind /\ t.pos = a.pos + 1
         /\ a.kind # "noop" /\ b.kind = "ins" /\ ~(b.pos <= a.pos) => t = a
         /\ a.kind # "noop" /\ b.kind = "del" /\ b.pos < a.pos => t.kind = a.kind /\ t.pos = a.pos - 1
         /\ a.kind = "ins" /\ b.kind = "del" /\ ~(b.pos < a.pos) => t = a
         /\ a.kind = "del" /\ b.kind = "del" /\ b.pos = a.pos => t.kind = "noop" /\ t.pos = a.pos
         /\ a.kind = "del" /\ b.kind = "del" /\ ~(b.pos < a.pos) /\ b.pos # a.pos => t = a
<1>1. /\ a.kind \in {"ins", "del", "noop"} /\ a.pos \in Nat
      /\ [a EXCEPT !.pos = @ + 1].char = a.char /\ [a EXCEPT !.pos = @ - 1].char = a.char
      /\ [a EXCEPT !.kind = "noop"].char = a.char
  BY DEF Edits
<1>2. [a EXCEPT !.pos = @ + 1].kind = a.kind /\ [a EXCEPT !.pos = @ + 1].pos = a.pos + 1
  BY DEF Edits
<1>3. [a EXCEPT !.pos = @ - 1].kind = a.kind /\ [a EXCEPT !.pos = @ - 1].pos = a.pos - 1
  BY DEF Edits
<1>4. [a EXCEPT !.kind = "noop"].kind = "noop" /\ [a EXCEPT !.kind = "noop"].pos = a.pos
  BY DEF Edits
<1>5. CASE a.kind = "noop" \/ b.kind = "noop"
  <2>1. Docs!TransformOne(a, b) = a
    BY <1>5 DEF Docs!TransformOne
  <2> QED
    BY <1>5, <2>1
<1>6. CASE a.kind # "noop" /\ b.kind = "ins"
  <2>1. CASE b.pos <= a.pos
    <3>1. Docs!TransformOne(a, b) = [a EXCEPT !.pos = @ + 1]
      BY <1>6, <2>1 DEF Docs!TransformOne
    <3> QED
      BY <1>1, <1>2, <1>6, <2>1, <3>1
  <2>2. CASE ~(b.pos <= a.pos)
    <3>1. Docs!TransformOne(a, b) = a
      BY <1>6, <2>2 DEF Docs!TransformOne
    <3> QED
      BY <1>6, <2>2, <3>1
  <2> QED
    BY <2>1, <2>2
<1>7. CASE a.kind # "noop" /\ b.kind = "del"
  <2>1. CASE b.pos < a.pos
    <3>1. Docs!TransformOne(a, b) = [a EXCEPT !.pos = @ - 1]
      BY <1>1, <1>7, <2>1 DEF Docs!TransformOne
    <3> QED
      BY <1>1, <1>3, <1>7, <2>1, <3>1
  <2>2. CASE ~(b.pos < a.pos) /\ a.kind = "del" /\ b.pos = a.pos
    <3>1. Docs!TransformOne(a, b) = [a EXCEPT !.kind = "noop"]
      BY <1>7, <2>2 DEF Docs!TransformOne
    <3> QED
      BY <1>1, <1>4, <1>7, <2>2, <3>1
  <2>3. CASE ~(b.pos < a.pos) /\ ~(a.kind = "del" /\ b.pos = a.pos)
    <3>1. Docs!TransformOne(a, b) = a
      BY <1>7, <2>3 DEF Docs!TransformOne
    <3> QED
      BY <1>7, <2>3, <3>1
  <2> QED
    BY <2>1, <2>2, <2>3
<1>8. CASE a.kind # "noop" /\ b.kind \notin {"ins", "del", "noop"}
  <2>1. Docs!TransformOne(a, b) = a
    BY <1>8 DEF Docs!TransformOne
  <2> QED
    BY <1>8, <2>1
<1> QED
  BY <1>5, <1>6, <1>7, <1>8

\* OtEngine._transform_one: one operation after the other.
LEMMA CarriesOver ==
  ASSUME NEW S, NEW text \in Seq(S), Unique(text),
         NEW b, Fits(b, text), b.kind = "ins" => b.char \in S,
         NEW after, after = Docs!Apply(text, b),
         NEW saw \in Seq(S), Lacks(saw, b),
         NEW op, op.kind \in {"ins", "del"}, Fits(op, saw), NEW a, Carries(op, saw, a, text),
         NEW t, t = Docs!TransformOne(a, b), t \in Edits
  PROVE  Carries(op, saw, t, after)
<1>0. /\ a \in Edits /\ Fits(a, text) /\ a.pos \in Nat /\ Len(text) \in Nat
      /\ b.kind # "noop" => b.pos \in Nat
      /\ after \in Seq(S) /\ Len(after) \in Nat
  <2>1. after \in Seq(S)
    BY Origins
  <2> QED
    BY <2>1 DEF Carries, Edits, Fits
<1>1. /\ b.kind = "ins" => Len(after) = Len(text) + 1
      /\ b.kind = "del" => Len(after) = Len(text) - 1
      /\ b.kind = "noop" => Len(after) = Len(text)
      /\ b.kind \in {"ins", "del", "noop"}
      /\ b.kind = "ins" => b.pos \in 0..Len(text)
      /\ b.kind = "del" => b.pos \in 0..(Len(text) - 1)
  BY Origins DEF Fits
<1>6. \A k \in 1..Len(saw), m \in 1..Len(after) : saw[k] = after[m] =>
        \E n \in 1..Len(text) : after[m] = text[n] /\ Goes(b, n, m)
  <2> SUFFICES ASSUME NEW k \in 1..Len(saw), NEW m \in 1..Len(after), saw[k] = after[m]
               PROVE  \E n \in 1..Len(text) : after[m] = text[n] /\ Goes(b, n, m)
    OBVIOUS
  <2>1. ~(b.kind = "ins" /\ after[m] = b.char)
    BY DEF Lacks
  <2> QED
    BY <2>1, Origins
<1>7. /\ t.char = a.char
      /\ a.kind = "noop" \/ b.kind = "noop" => t = a
      /\ a.kind # "noop" /\ b.kind = "ins" /\ b.pos <= a.pos => t.kind = a.kind /\ t.pos = a.pos + 1
      /\ a.kind # "noop" /\ b.kind = "ins" /\ ~(b.pos <= a.pos) => t = a
      /\ a.kind # "noop" /\ b.kind = "del" /\ b.pos < a.pos => t.kind = a.kind /\ t.pos = a.pos - 1
      /\ a.kind = "ins" /\ b.kind = "del" /\ ~(b.pos < a.pos) => t = a
      /\ a.kind = "del" /\ b.kind = "del" /\ b.pos = a.pos => t.kind = "noop" /\ t.pos = a.pos
      /\ a.kind = "del" /\ b.kind = "del" /\ ~(b.pos < a.pos) /\ b.pos # a.pos => t = a
  BY <1>0, TransformedOne
<1>2. CASE op.kind = "ins"
  <2>1. /\ a.kind = "ins" /\ a.char = op.char /\ a.pos \in 0..Len(text)
        /\ \A k \in 1..Len(saw), n \in 1..Len(text) : saw[k] = text[n] => (k <= op.pos <=> n <= a.pos)
    BY <1>2 DEF Carries, Fits
  <2>2. /\ t.kind = "ins" /\ t.char = op.char
        /\ b.kind = "noop" => t.pos = a.pos
        /\ b.kind = "ins" => t.pos = IF b.pos <= a.pos THEN a.pos + 1 ELSE a.pos
        /\ b.kind = "del" => t.pos = IF b.pos < a.pos THEN a.pos - 1 ELSE a.pos
    BY <1>1, <1>7, <2>1
  <2>3. Fits(t, after)
    BY <1>0, <1>1, <2>1, <2>2 DEF Fits
  <2>4. ASSUME NEW k \in 1..Len(saw), NEW m \in 1..Len(after), saw[k] = after[m]
        PROVE  k <= op.pos <=> m <= t.pos
    <3>1. PICK n \in 1..Len(text) : after[m] = text[n] /\ Goes(b, n, m)
      BY <1>6, <2>4
    <3>2. k <= op.pos <=> n <= a.pos
      BY <2>1, <2>4, <3>1
    <3>3. n <= a.pos <=> m <= t.pos
      <4>1. n \in Nat /\ m \in Nat
        BY <1>0
      <4>2. CASE b.kind = "ins"
        BY <1>0, <1>1, <2>1, <2>2, <3>1, <4>1, <4>2 DEF Goes
      <4>3. CASE b.kind = "del"
        BY <1>0, <1>1, <2>1, <2>2, <3>1, <4>1, <4>3 DEF Goes
      <4>4. CASE b.kind = "noop"
        BY <2>1, <2>2, <3>1, <4>4 DEF Goes
      <4> QED
        BY <1>1, <4>2, <4>3, <4>4
    <3> QED
      BY <3>2, <3>3
  <2> QED
    BY <1>2, <2>2, <2>3, <2>4 DEF Carries
<1>3. CASE op.kind = "del" /\ a.kind = "noop"
  <2>1. t = a
    BY <1>0, <1>3, TransformedOne
  <2>2. \A n \in 1..Len(text) : text[n] # saw[op.pos + 1]
    BY <1>3 DEF Carries
  <2>3. op.pos + 1 \in 1..Len(saw)
    BY <1>3 DEF Fits
  <2>4. \A m \in 1..Len(after) : after[m] # saw[op.pos + 1]
    BY <2>2, <2>3, Origins DEF Lacks
  <2> QED
    BY <1>3, <2>1, <2>4 DEF Carries, Fits
<1>4. CASE op.kind = "del" /\ a.kind = "del"
  <2>1. a.pos \in 0..(Len(text) - 1) /\ a.pos + 1 \in 1..Len(text) /\ text[a.pos + 1] = saw[op.pos + 1]
    BY <1>0, <1>4 DEF Carries, Fits
  <2>2. CASE b.kind = "del" /\ b.pos = a.pos
    <3>1. t.kind = "noop"
      BY <1>0, <1>4, <2>2, TransformedOne
    <3>2. ASSUME NEW m \in 1..Len(after), after[m] = saw[op.pos + 1] PROVE FALSE
      <4>1. PICK n \in 1..Len(text) : after[m] = text[n] /\ Goes(b, n, m)
        BY <2>2, Origins
      <4>2. n = a.pos + 1
        BY <2>1, <3>2, <4>1 DEF Unique
      <4> QED
        BY <1>0, <2>2, <4>1, <4>2 DEF Goes
    <3> QED
      BY <1>4, <3>1, <3>2 DEF Carries, Fits
  <2>3. CASE ~(b.kind = "del" /\ b.pos = a.pos)
    <3>1. /\ t.kind = "del"
          /\ b.kind = "noop" => t.pos = a.pos
          /\ b.kind = "ins" => t.pos = IF b.pos <= a.pos THEN a.pos + 1 ELSE a.pos
          /\ b.kind = "del" => t.pos = IF b.pos < a.pos THEN a.pos - 1 ELSE a.pos
      BY <1>1, <1>4, <1>7, <2>3
    <3>2. Goes(b, a.pos + 1, t.pos + 1)
      <4>1. CASE b.kind = "ins"
        BY <1>0, <1>1, <3>1, <4>1 DEF Goes
      <4>2. CASE b.kind = "del"
        BY <1>0, <1>1, <2>3, <3>1, <4>2 DEF Goes
      <4>3. CASE b.kind = "noop"
        BY <3>1, <4>3 DEF Goes
      <4> QED
        BY <1>1, <4>1, <4>2, <4>3
    <3>3. t.pos + 1 \in Nat /\ t.pos \in Nat
      BY DEF Edits
    <3>4. t.pos + 1 \in 1..Len(after) /\ after[t.pos + 1] = text[a.pos + 1]
      BY <2>1, <3>2, <3>3, Origins
    <3>5. Fits(t, after)
      BY <1>0, <3>1, <3>3, <3>4 DEF Fits
    <3> QED
      BY <1>4, <2>1, <3>1, <3>4, <3>5 DEF Carries
  <2> QED
    BY <2>2, <2>3
<1>5. op.kind = "del" => a.kind \in {"del", "noop"}
  BY DEF Carries
<1> QED
  BY <1>2, <1>3, <1>4, <1>5

\* OtEngine.transform: operation by operation.
LEMMA OpByOp ==
  ASSUME NEW op, NEW concurrent, Len(concurrent) \in Nat
  PROVE  /\ Docs!Transformed(op, concurrent)[0] = op
         /\ \A n \in 1..Len(concurrent) :
              Docs!Transformed(op, concurrent)[n] = Docs!TransformOne(Docs!Transformed(op, concurrent)[n - 1], concurrent[n])
<1> DEFINE N == Len(concurrent)
           StepOf(a, n) == Docs!TransformOne(a, concurrent[n])
           From(g, n) == [k \in 0..n |-> IF k = 0 THEN op ELSE StepOf(g[k - 1], k)]
           H == Docs!Transformed(op, concurrent)
<1>1. H = CHOOSE g : g = From(g, N)
  BY DEF Docs!Transformed
<1> HIDE DEF StepOf
<1>2. \A n \in 0..N : \E g : g = From(g, n)
  <2> DEFINE Starts(n) == \E g : g = From(g, n)
             S == {n \in 0..N : ~Starts(n)}
  <2>0. N \in Nat
    OBVIOUS
  <2>1. Starts(0)
    <3>1. [k \in 0..0 |-> op] = From([k \in 0..0 |-> op], 0)
      OBVIOUS
    <3> QED
      BY <3>1
  <2>2. ASSUME NEW n \in 0..N, n # 0, Starts(n - 1) PROVE Starts(n)
    <3>1. PICK g : g = From(g, n - 1)
      BY <2>2
    <3> DEFINE longer == From(g, n)
    <3>2. \A k \in 0..(n - 1) : longer[k] = g[k]
      <4>1. \A k \in 0..(n - 1) : k \in 0..n /\ longer[k] = IF k = 0 THEN op ELSE StepOf(g[k - 1], k)
        BY <2>0, <2>2
      <4>2. \A k \in 0..(n - 1) : g[k] = IF k = 0 THEN op ELSE StepOf(g[k - 1], k)
        BY <3>1
      <4> QED
        BY <4>1, <4>2
    <3>3. \A k \in 0..n : k # 0 => longer[k - 1] = g[k - 1]
      <4> HIDE DEF longer
      <4> QED
        BY <2>0, <2>2, <3>2
    <3>4. longer = From(longer, n)
      BY <3>3
    <3> QED
      BY <3>4
  <2> HIDE DEF Starts, N
  <2>3. S = {}
    <3> SUFFICES ASSUME S # {} PROVE FALSE
      OBVIOUS
    <3>1. S \in SUBSET Nat
      BY <2>0
    <3>2. PICK n \in S : \A k \in S : n <= k
      BY <3>1, LeastNumber
    <3>3. n # 0 /\ n - 1 \in 0..N /\ n - 1 < n
      BY <2>0, <2>1, <3>2
    <3> QED
      BY <2>2, <3>2, <3>3
  <2> QED
    BY <2>3 DEF Starts
<1>3. H = From(H, N)
  <2>1. \E g : g = From(g, N)
    <3>1. N \in 0..N
      OBVIOUS
    <3> HIDE DEF N, From
    <3> QED
      BY <1>2, <3>1
  <2> HIDE DEF From
  <2> QED
    BY <1>1, <2>1
<1> QED
  <2> HIDE DEF H
  <2>1. \A n \in 0..N : H[n] = IF n = 0 THEN op ELSE StepOf(H[n - 1], n)
    BY <1>3
  <2>2. 0 \in 0..N /\ \A n \in 1..N : n \in 0..N /\ n # 0
    OBVIOUS
  <2> QED
    BY <2>1, <2>2 DEF H, StepOf

-----------------------------------------------------------------------------
(* The inductive invariant *)

Logged(w) == log[w - snapshotVersion + 1]

DocsShaped ==
  /\ snapshotVersion \in Nat /\ log \in Seq(Docs!Ops) /\ Docs!Version <= MaxVersion
  /\ texts \in Seq(Seq(Docs!Chars)) /\ Len(texts) = Docs!Version + 1 /\ doc = texts[Docs!Version + 1]

\* The log leads from each version since the snapshot to the next.
DocsRecorded ==
  \A w \in snapshotVersion..(Docs!Version - 1) :
    /\ Fits(Logged(w), texts[w + 1])
    /\ Logged(w).kind = "ins" => Logged(w).char = w + 1
    /\ texts[w + 2] = Docs!Apply(texts[w + 1], Logged(w))

\* Every character of a version was typed before it, and is there once.
DocsKnown ==
  /\ views \subseteq Seq(Docs!Chars) /\ Docs!Typed \subseteq 1..Docs!Version /\ erased \subseteq Docs!Typed
  /\ \A w \in 0..Docs!Version :
       /\ Unique(texts[w + 1]) /\ Len(texts[w + 1]) <= w
       /\ \A i \in 1..Len(texts[w + 1]) : texts[w + 1][i] \in (1..w) \cap Docs!Typed

DocsKept ==
  /\ \A c \in Docs!Chars : c \in Docs!Typed \ erased <=> \E m \in 1..Len(doc) : doc[m] = c
  /\ \A view \in views : Ordered(view, doc)

DocsInv == DocsShaped /\ DocsRecorded /\ DocsKnown /\ DocsKept

LEMMA DocsSizes ==
  ASSUME DocsShaped
  PROVE  /\ snapshotVersion \in Nat /\ Len(log) \in Nat /\ Docs!Version \in Nat /\ snapshotVersion <= Docs!Version
         /\ Docs!Version - snapshotVersion = Len(log) /\ MaxVersion \in Nat
         /\ \A w \in 0..Docs!Version : texts[w + 1] \in Seq(Docs!Chars) /\ Len(texts[w + 1]) \in Nat
         /\ \A w \in snapshotVersion..(Docs!Version - 1) : Logged(w) \in Docs!Ops
<1>1. snapshotVersion \in Nat /\ Len(log) \in Nat /\ Docs!Version = snapshotVersion + Len(log) /\ MaxVersion \in Nat
  BY StudiesAssumption DEF DocsShaped, Docs!Version, Docs!WellFormed
<1>2. \A w \in 0..Docs!Version : texts[w + 1] \in Seq(Docs!Chars)
  BY <1>1 DEF DocsShaped
<1>3. ASSUME NEW w \in snapshotVersion..(Docs!Version - 1) PROVE Logged(w) \in Docs!Ops
  <2>1. w - snapshotVersion + 1 \in 1..Len(log)
    BY <1>1
  <2> QED
    BY <2>1 DEF DocsShaped, Logged
<1>4. \A w \in 0..Docs!Version : Len(texts[w + 1]) \in Nat
  BY <1>2
<1> QED
  BY <1>1, <1>2, <1>3, <1>4

LEMMA TransformsTyped ==
  ASSUME NEW a \in Edits, NEW b \in Edits PROVE Docs!TransformOne(a, b) \in Edits
<1>1. a.kind \in {"ins", "del", "noop"} /\ a.pos \in Nat /\ a.char \in Nat /\ b.pos \in Nat
  BY DEF Edits
<1>2. [a EXCEPT !.pos = @ + 1] \in Edits /\ [a EXCEPT !.kind = "noop"] \in Edits
  BY <1>1 DEF Edits
<1>3. ASSUME b.pos < a.pos PROVE [a EXCEPT !.pos = @ - 1] \in Edits
  <2>1. a.pos - 1 \in Nat
    BY <1>1, <1>3
  <2> QED
    BY <2>1 DEF Edits
<1> QED
  BY <1>1, <1>2, <1>3 DEF Docs!TransformOne

\* What an editor submits fits the version they saw.
LEMMA Edited ==
  ASSUME DocsInv, NEW v \in 0..Docs!Version, Docs!Version < MaxVersion, NEW op \in Docs!EditsOf(texts[v + 1])
  PROVE  /\ op.kind \in {"ins", "del"} /\ op \in Edits /\ op \in Docs!Ops /\ Fits(op, texts[v + 1])
         /\ op.kind = "ins" => op.char = Docs!Version + 1
<1>0. PICK size : size = Len(texts[v + 1])
  OBVIOUS
<1>1. /\ size \in 0..MaxVersion /\ Docs!Version + 1 \in Docs!Chars /\ MaxVersion \in Nat
      /\ Docs!Version + 1 \in Nat /\ DOMAIN texts[v + 1] = 1..size
  <2>1. texts[v + 1] \in Seq(Docs!Chars) /\ size \in Nat /\ Docs!Version \in Nat /\ MaxVersion \in Nat /\ size <= v
    BY <1>0, DocsSizes DEF DocsInv, DocsKnown
  <2> QED
    BY <1>0, <2>1 DEF Docs!Chars
<1>2. CASE op \in [kind : {"ins"}, pos : 0..size, char : {Docs!Version + 1}]
  <2>1. op = [kind |-> op.kind, pos |-> op.pos, char |-> op.char]
        /\ op.kind = "ins" /\ op.pos \in 0..size /\ op.char = Docs!Version + 1
    BY <1>2
  <2>2. op.pos \in Nat /\ op.pos \in 0..MaxVersion
    BY <1>1, <2>1
  <2>3. op \in Edits
    BY <1>1, <1>2, <2>2 DEF Edits
  <2>4. op \in Docs!Ops
    BY <1>1, <1>2, <2>2 DEF Docs!Ops
  <2> QED
    BY <1>0, <2>1, <2>3, <2>4 DEF Fits
<1>3. CASE op \in {[kind |-> "del", pos |-> p - 1, char |-> 0] : p \in DOMAIN texts[v + 1]}
  <2>1. PICK p \in 1..size : op = [kind |-> "del", pos |-> p - 1, char |-> 0]
    BY <1>1, <1>3
  <2>2. PICK q : q = p - 1
    OBVIOUS
  <2>3. q \in Nat /\ q \in 0..(size - 1) /\ q \in 0..MaxVersion
    BY <1>1, <2>2
  <2>4. op = [kind |-> "del", pos |-> q, char |-> 0]
    BY <2>1, <2>2
  <2>5. op.kind = "del" /\ op.pos = q
    BY <2>4
  <2>6. op \in Edits
    BY <2>3, <2>4 DEF Edits
  <2>7. op \in Docs!Ops
    BY <2>3, <2>4 DEF Docs!Ops
  <2> QED
    BY <1>0, <2>3, <2>5, <2>6, <2>7 DEF Fits
<1> QED
  BY <1>0, <1>2, <1>3 DEF Docs!EditsOf

LEMMA OpsAreEdits == \A op \in Docs!Ops : op \in Edits /\ op.pos \in 0..MaxVersion /\ op.char \in Docs!Chars \cup {0}
<1>1. MaxVersion \in Nat /\ 0..MaxVersion \subseteq Nat /\ Docs!Chars \cup {0} \subseteq Nat
  BY StudiesAssumption DEF Docs!WellFormed, Docs!Chars
<1> QED
  BY <1>1 DEF Docs!Ops, Edits

LEMMA EditsAreOps ==
  ASSUME NEW t \in Edits, t.pos \in 0..MaxVersion, t.char \in Docs!Chars \cup {0} PROVE t \in Docs!Ops
BY DEF Docs!Ops, Edits

\* The operations since the version an editor saw.
LEMMA Concurrent ==
  ASSUME DocsInv, NEW v \in snapshotVersion..Docs!Version,
         NEW concurrent, concurrent = SubSeq(log, v - snapshotVersion + 1, Len(log))
  PROVE  Len(concurrent) = Docs!Version - v /\ \A n \in 1..(Docs!Version - v) : concurrent[n] = Logged(v + n - 1)
<1>0. /\ v \in Nat /\ Docs!Version \in Nat /\ snapshotVersion \in Nat /\ Len(log) = Docs!Version - snapshotVersion
  BY DocsSizes DEF DocsInv
<1>1. log \in Seq(Docs!Ops)
  BY DEF DocsInv, DocsShaped
<1>2. PICK start : start = v - snapshotVersion
  OBVIOUS
<1>3. start \in 0..Len(log) /\ Len(log) - start = Docs!Version - v
  BY <1>0, <1>2
<1>4. /\ Len(SubSeq(log, start + 1, Len(log))) = Len(log) - start
      /\ \A m \in 1..(Len(log) - start) : SubSeq(log, start + 1, Len(log))[m] = log[start + m]
  BY <1>1, <1>3, CutBack
<1>5. concurrent = SubSeq(log, start + 1, Len(log))
  BY <1>2
<1>6. Len(concurrent) = Docs!Version - v /\ \A m \in 1..(Docs!Version - v) : concurrent[m] = log[start + m]
  BY <1>3, <1>4, <1>5, Zenon
<1>7. \A n \in 1..(Docs!Version - v) : start + n = (v + n - 1) - snapshotVersion + 1
  BY <1>0, <1>2
<1> QED
  BY <1>6, <1>7, Zenon DEF Logged

\* Over the operations since the version an editor saw, one after the other.
LEMMA CarriesThrough ==
  ASSUME DocsInv, Docs!Version < MaxVersion, NEW v \in snapshotVersion..Docs!Version, NEW op \in Docs!EditsOf(texts[v + 1]),
         NEW concurrent, Len(concurrent) = Docs!Version - v, \A n \in 1..(Docs!Version - v) : concurrent[n] = Logged(v + n - 1)
  PROVE  \A n \in 0..(Docs!Version - v) :
           /\ Docs!Transformed(op, concurrent)[n] \in Docs!Ops
           /\ Carries(op, texts[v + 1], Docs!Transformed(op, concurrent)[n], texts[v + n + 1])
           /\ Ordered(texts[v + 1], texts[v + n + 1])
<1> DEFINE T == Docs!Transformed(op, concurrent)
           saw == texts[v + 1]
           Good(n) == T[n] \in Docs!Ops /\ Carries(op, saw, T[n], texts[v + n + 1]) /\ Ordered(saw, texts[v + n + 1])
           Bad == {n \in 0..(Docs!Version - v) : ~Good(n)}
<1>1. /\ v \in Nat /\ v \in 0..Docs!Version /\ Docs!Version \in Nat /\ snapshotVersion \in Nat /\ MaxVersion \in Nat
      /\ Docs!Version - v \in Nat /\ Len(log) = Docs!Version - snapshotVersion
  BY DocsSizes DEF DocsInv
<1>2. /\ op.kind \in {"ins", "del"} /\ op \in Edits /\ op \in Docs!Ops /\ Fits(op, saw)
      /\ op.kind = "ins" => op.char = Docs!Version + 1
  BY <1>1, Edited
<1>3. \A n \in 1..(Docs!Version - v) : concurrent[n] = Logged(v + n - 1) /\ v + n - 1 \in snapshotVersion..(Docs!Version - 1)
  BY <1>1
<1>4. T[0] = op /\ \A n \in 1..(Docs!Version - v) : T[n] = Docs!TransformOne(T[n - 1], concurrent[n])
  <2>1. Len(concurrent) \in Nat
    BY <1>1
  <2>2. T[0] = op
    BY <2>1, OpByOp
  <2>3. \A n \in 1..Len(concurrent) : T[n] = Docs!TransformOne(T[n - 1], concurrent[n])
    BY <2>1, OpByOp
  <2> QED
    BY <2>2, <2>3, Zenon
<1>5. saw \in Seq(Docs!Chars) /\ Len(saw) \in Nat /\ Unique(saw) /\ \A i \in 1..Len(saw) : saw[i] \in 1..v
  BY <1>1, DocsSizes DEF DocsInv, DocsKnown
<1>6. Good(0)
  <2>1. Ordered(saw, saw)
    <3>1. \A i, m \in 1..Len(saw) : saw[i] = saw[m] => i = m
      BY <1>5 DEF Unique
    <3> QED
      BY <3>1 DEF Ordered
  <2>2. Carries(op, saw, op, saw)
    <3>1. \A i, m \in 1..Len(saw) : saw[i] = saw[m] => i = m
      BY <1>5 DEF Unique
    <3> QED
      BY <1>2, <3>1 DEF Carries
  <2>3. v + 0 + 1 = v + 1
    BY <1>1
  <2> QED
    BY <1>2, <1>4, <2>1, <2>2, <2>3
<1>7. ASSUME NEW n \in 1..(Docs!Version - v), Good(n - 1) PROVE Good(n)
  <2>1. PICK w : w = v + n - 1
    OBVIOUS
  <2>2. /\ w \in snapshotVersion..(Docs!Version - 1) /\ w \in 0..Docs!Version /\ w + 1 \in 0..Docs!Version /\ w >= v /\ w \in Nat
        /\ v + (n - 1) + 1 = w + 1 /\ v + n + 1 = w + 2 /\ (w + 1) + 1 = w + 2
    BY <1>1, <2>1
  <2>3. PICK text : text = texts[w + 1]
    OBVIOUS
  <2>4. PICK after : after = texts[w + 2]
    OBVIOUS
  <2>5. PICK a : a = T[n - 1]
    OBVIOUS
  <2>6. PICK b : b = Logged(w)
    OBVIOUS
  <2>7. PICK t : t = Docs!TransformOne(a, b)
    OBVIOUS
  <2>8. T[n] = t
    BY <1>3, <1>4, <2>1, <2>5, <2>6, <2>7, Zenon
  <2>9. a \in Docs!Ops /\ Carries(op, saw, a, text) /\ Ordered(saw, text)
    BY <1>7, <2>2, <2>3, <2>5, Zenon
  <2>10. b \in Docs!Ops /\ Fits(b, text) /\ (b.kind = "ins" => b.char = w + 1) /\ after = Docs!Apply(text, b)
    BY <2>2, <2>3, <2>4, <2>6, DocsSizes DEF DocsInv, DocsRecorded
  <2>11. text \in Seq(Docs!Chars) /\ Unique(text) /\ after \in Seq(Docs!Chars) /\ Len(after) \in Nat /\ Len(after) <= MaxVersion
    <3>1. text \in Seq(Docs!Chars) /\ texts[(w + 1) + 1] \in Seq(Docs!Chars) /\ Len(texts[(w + 1) + 1]) \in Nat
      BY <2>2, <2>3, DocsSizes DEF DocsInv
    <3>2. Unique(text) /\ Len(texts[(w + 1) + 1]) <= w + 1
      BY <2>2, <2>3 DEF DocsInv, DocsKnown
    <3>3. Docs!Version <= MaxVersion
      BY DEF DocsInv, DocsShaped
    <3> QED
      BY <1>1, <2>2, <2>4, <3>1, <3>2, <3>3
  <2>12. b.kind = "ins" => b.char \in Docs!Chars
    BY <1>1, <2>2, <2>10 DEF Docs!Chars
  <2>13. Lacks(saw, b)
    BY <1>5, <2>2, <2>10 DEF Lacks
  <2>14. t \in Edits
    BY <2>7, <2>9, <2>10, OpsAreEdits, TransformsTyped
  <2>15. Carries(op, saw, t, after)
    BY <1>2, <1>5, <2>7, <2>9, <2>10, <2>11, <2>12, <2>13, <2>14, CarriesOver
  <2>16. Ordered(saw, after)
    BY <1>5, <2>9, <2>10, <2>11, <2>12, <2>13, KeepsOrder
  <2>17. t \in Docs!Ops
    <3>1. t.char = a.char /\ a \in Edits /\ a.pos \in 0..MaxVersion /\ a.char \in Docs!Chars \cup {0} /\ b.pos \in Nat
      BY <2>7, <2>9, <2>10, <2>14, OpsAreEdits, TransformedOne DEF Edits
    <3>2. CASE t.kind = "noop"
      <4>1. t.pos = a.pos
        BY <2>7, <3>1, <3>2 DEF Docs!TransformOne, Edits
      <4> QED
        BY <2>14, <3>1, <4>1, EditsAreOps
    <3>3. CASE t.kind # "noop"
      <4>1. t.pos \in 0..MaxVersion
        BY <1>1, <2>11, <2>15, <3>3 DEF Carries, Fits
      <4> QED
        BY <2>14, <3>1, <4>1, EditsAreOps
    <3> QED
      BY <3>2, <3>3
  <2> QED
    BY <2>2, <2>4, <2>8, <2>15, <2>16, <2>17, Zenon
<1>8. Bad = {}
  <2> SUFFICES ASSUME Bad # {} PROVE FALSE
    OBVIOUS
  <2> HIDE DEF Good
  <2>1. Bad \in SUBSET Nat
    BY <1>1
  <2>2. PICK n \in Bad : \A k \in Bad : n <= k
    BY <2>1, LeastNumber
  <2>3. n # 0 /\ n - 1 \in 0..(Docs!Version - v) /\ n - 1 < n /\ n \in 1..(Docs!Version - v)
    BY <1>1, <1>6, <2>2
  <2> QED
    BY <1>7, <2>2, <2>3
<1> QED
  BY <1>8

\* An editor finds what they saw in the order they saw it, after the transformed operation
\* has been applied.
LEMMA KeepsView ==
  ASSUME NEW S, NEW saw \in Seq(S), NEW op, op.kind \in {"ins", "del"}, Fits(op, saw), Lacks(saw, op),
         op.kind = "ins" => op.char \in S,
         NEW text \in Seq(S), Ordered(saw, text), NEW t, Carries(op, saw, t, text), Lacks(text, t),
         NEW view, view = Docs!Apply(saw, op), NEW after, after = Docs!Apply(text, t), Ordered(saw, after)
  PROVE  Ordered(view, after)
<1>0. /\ Fits(t, text) /\ t.pos \in Nat /\ op.pos \in Nat /\ (t.kind = "ins" => t.char \in S)
      /\ op.kind = "ins" => /\ t.kind = "ins" /\ t.char = op.char
                            /\ \A k \in 1..Len(saw), n \in 1..Len(text) : saw[k] = text[n] => (k <= op.pos <=> n <= t.pos)
      /\ op.kind = "del" => t.kind \in {"del", "noop"}
  BY DEF Carries, Fits, Edits
<1>1. view \in Seq(S) /\ (op.kind = "ins" => op.pos + 1 \in 1..Len(view) /\ view[op.pos + 1] = op.char)
  BY Origins
<1>2. /\ Len(view) \in Nat /\ Len(after) \in Nat
  <2>1. after \in Seq(S)
    BY <1>0, Origins
  <2> QED
    BY <1>1, <2>1
<1>3. \A x \in 1..Len(view) :
        \/ op.kind = "ins" /\ x = op.pos + 1 /\ view[x] = op.char
        \/ \E k \in 1..Len(saw) : view[x] = saw[k] /\ Goes(op, k, x)
  BY Origins
<1>4. \A x \in 1..Len(after) :
        \/ t.kind = "ins" /\ x = t.pos + 1 /\ after[x] = t.char
        \/ \E k \in 1..Len(text) : after[x] = text[k] /\ Goes(t, k, x)
  <2>1. Fits(t, text) /\ (t.kind = "ins" => t.char \in S)
    BY <1>0
  <2> QED
    BY <2>1, Origins
<1>5. SUFFICES ASSUME NEW i \in 1..Len(view), NEW j \in 1..Len(view), NEW m \in 1..Len(after), NEW n \in 1..Len(after),
                      i < j, view[i] = after[m], view[j] = after[n]
               PROVE  m < n
  BY DEF Ordered
<1>6. CASE op.kind = "ins" /\ i = op.pos + 1
  <2>1. op.kind = "ins" /\ view[i] = op.char
    BY <1>1, <1>6
  <2>2. m = t.pos + 1
    BY <1>0, <1>4, <1>5, <2>1 DEF Lacks
  <2>3. PICK l \in 1..Len(saw) : view[j] = saw[l] /\ Goes(op, l, j)
    BY <1>3, <1>5, <1>6
  <2>4. l > op.pos
    BY <1>0, <1>5, <1>6, <2>3 DEF Goes
  <2>5. ~(t.kind = "ins" /\ after[n] = t.char)
    BY <1>0, <1>5, <2>1, <2>3 DEF Lacks
  <2>6. PICK k \in 1..Len(text) : after[n] = text[k] /\ Goes(t, k, n)
    BY <1>4, <2>5
  <2>7. k > t.pos
    <3>1. saw[l] = text[k]
      BY <1>5, <2>3, <2>6
    <3>2. l <= op.pos <=> k <= t.pos
      BY <1>0, <2>1, <3>1
    <3> QED
      BY <1>0, <2>4, <3>2
  <2> QED
    BY <1>0, <2>1, <2>2, <2>6, <2>7 DEF Goes
<1>7. CASE op.kind = "ins" /\ j = op.pos + 1
  <2>1. op.kind = "ins" /\ view[j] = op.char
    BY <1>1, <1>7
  <2>2. n = t.pos + 1
    BY <1>0, <1>4, <1>5, <2>1 DEF Lacks
  <2>3. PICK l \in 1..Len(saw) : view[i] = saw[l] /\ Goes(op, l, i)
    BY <1>3, <1>5, <1>7
  <2>4. l <= op.pos
    BY <1>0, <1>5, <1>7, <2>3 DEF Goes
  <2>5. ~(t.kind = "ins" /\ after[m] = t.char)
    BY <1>0, <1>5, <2>1, <2>3 DEF Lacks
  <2>6. PICK k \in 1..Len(text) : after[m] = text[k] /\ Goes(t, k, m)
    BY <1>4, <2>5
  <2>7. k <= t.pos
    <3>1. saw[l] = text[k]
      BY <1>5, <2>3, <2>6
    <3>2. l <= op.pos <=> k <= t.pos
      BY <1>0, <2>1, <3>1
    <3> QED
      BY <1>0, <2>4, <3>2
  <2> QED
    BY <1>0, <2>1, <2>2, <2>6, <2>7 DEF Goes
<1>8. CASE ~(op.kind = "ins" /\ i = op.pos + 1) /\ ~(op.kind = "ins" /\ j = op.pos + 1)
  <2>1. PICK k \in 1..Len(saw) : view[i] = saw[k] /\ Goes(op, k, i)
    BY <1>3, <1>8
  <2>2. PICK l \in 1..Len(saw) : view[j] = saw[l] /\ Goes(op, l, j)
    BY <1>3, <1>8
  <2>3. k < l
    BY <1>0, <1>5, <2>1, <2>2 DEF Goes
  <2> QED
    BY <1>5, <2>1, <2>2, <2>3 DEF Ordered
<1> QED
  BY <1>6, <1>7, <1>8

LEMMA DocsInitInv == Docs!Init => DocsInv
<1> SUFFICES ASSUME Docs!Init PROVE DocsInv
  OBVIOUS
<1>1. /\ doc = << >> /\ log = << >> /\ snapshotVersion = 0 /\ texts = << << >> >> /\ erased = {} /\ views = {}
      /\ Docs!Version = 0 /\ MaxVersion \in Nat
  BY StudiesAssumption DEF Docs!Init, Docs!Version, Docs!WellFormed
<1>2. << >> \in Seq(Docs!Chars) /\ texts \in Seq(Seq(Docs!Chars)) /\ Len(texts) = 1 /\ texts[1] = << >> /\ Len(<< >>) = 0
  BY <1>1
<1>3. DocsShaped
  BY <1>1, <1>2 DEF DocsShaped
<1>4. DocsRecorded
  BY <1>1 DEF DocsRecorded
<1>5. DocsKnown
  BY <1>1, <1>2 DEF DocsKnown, Docs!Typed, Unique
<1>6. DocsKept
  BY <1>1 DEF DocsKept, Docs!Typed
<1> QED
  BY <1>3, <1>4, <1>5, <1>6 DEF DocsInv

LEMMA SnapshotInv == DocsInv /\ Docs!Snapshot => DocsInv'
<1> SUFFICES ASSUME DocsInv, Docs!Snapshot PROVE DocsInv'
  OBVIOUS
<1>1. /\ doc' = doc /\ texts' = texts /\ erased' = erased /\ views' = views
      /\ snapshotVersion' = Docs!Version /\ log' = << >> /\ Docs!Version \in Nat /\ Docs!Version' = Docs!Version
  BY DocsSizes DEF DocsInv, Docs!Snapshot, Docs!Version
<1>2. Docs!Typed' = Docs!Typed
  BY <1>1 DEF Docs!Typed
<1>3. DocsShaped'
  BY <1>1 DEF DocsInv, DocsShaped
<1>4. DocsRecorded'
  BY <1>1 DEF DocsRecorded
<1>5. DocsKnown'
  BY <1>1, <1>2 DEF DocsInv, DocsKnown
<1>6. DocsKept'
  BY <1>1, <1>2 DEF DocsInv, DocsKept
<1> QED
  BY <1>3, <1>4, <1>5, <1>6 DEF DocsInv

\* DocumentServer.submit.
LEMMA SubmitInv ==
  ASSUME DocsInv, NEW v \in 0..Docs!Version, NEW op \in Docs!EditsOf(texts[v + 1]), Docs!Submit(v, op)
  PROVE  DocsInv'
<1>1. PICK t : t = Docs!Transform(op, SubSeq(log, v - snapshotVersion + 1, Len(log)))
  OBVIOUS
<1>2. PICK saw : saw = texts[v + 1]
  OBVIOUS
<1>3. PICK view : view = Docs!Apply(saw, op)
  OBVIOUS
<1>4. /\ Docs!Version < MaxVersion /\ v >= snapshotVersion
      /\ doc' = Docs!Apply(doc, t) /\ log' = Append(log, t) /\ texts' = Append(texts, doc')
      /\ erased' = erased \cup (IF op.kind = "del" THEN {saw[op.pos + 1]} ELSE {})
      /\ views' = views \cup {view} /\ snapshotVersion' = snapshotVersion
  BY <1>1, <1>2, <1>3 DEF Docs!Submit
<1>5. /\ Docs!Version \in Nat /\ MaxVersion \in Nat /\ v \in Nat /\ v \in snapshotVersion..Docs!Version /\ snapshotVersion \in Nat
      /\ Docs!Version - v \in Nat /\ Docs!Version \in 0..Docs!Version /\ Len(log) = Docs!Version - snapshotVersion /\ Len(log) \in Nat
      /\ doc = texts[Docs!Version + 1] /\ Len(texts) = Docs!Version + 1 /\ log \in Seq(Docs!Ops) /\ texts \in Seq(Seq(Docs!Chars))
      /\ snapshotVersion <= Docs!Version
  BY <1>4, DocsSizes DEF DocsInv, DocsShaped
<1>6. /\ saw \in Seq(Docs!Chars) /\ Len(saw) \in Nat /\ doc \in Seq(Docs!Chars) /\ Len(doc) \in Nat
      /\ Unique(doc) /\ Len(doc) <= Docs!Version /\ Unique(saw)
      /\ \A i \in 1..Len(saw) : saw[i] \in 1..Docs!Version /\ saw[i] \in Docs!Typed
      /\ \A i \in 1..Len(doc) : doc[i] \in 1..Docs!Version /\ doc[i] \in Docs!Typed
  BY <1>2, <1>5, DocsSizes DEF DocsInv, DocsKnown
<1>7. /\ op.kind \in {"ins", "del"} /\ op \in Edits /\ op \in Docs!Ops /\ Fits(op, saw)
      /\ op.kind = "ins" => op.char = Docs!Version + 1 /\ op.char \in Docs!Chars
  <2>1. /\ op.kind \in {"ins", "del"} /\ op \in Edits /\ op \in Docs!Ops /\ Fits(op, saw)
        /\ op.kind = "ins" => op.char = Docs!Version + 1
    BY <1>2, <1>4, <1>5, Edited
  <2>2. Docs!Version + 1 \in Docs!Chars
    BY <1>4, <1>5 DEF Docs!Chars
  <2> QED
    BY <2>1, <2>2
<1>8. t \in Docs!Ops /\ Carries(op, saw, t, doc) /\ Ordered(saw, doc)
  <2>1. PICK concurrent : concurrent = SubSeq(log, v - snapshotVersion + 1, Len(log))
    OBVIOUS
  <2>2. Len(concurrent) = Docs!Version - v /\ \A n \in 1..(Docs!Version - v) : concurrent[n] = Logged(v + n - 1)
    BY <1>5, <2>1, Concurrent
  <2>3. t = Docs!Transformed(op, concurrent)[Docs!Version - v]
    BY <1>1, <2>1, <2>2 DEF Docs!Transform
  <2>4. Docs!Version - v \in 0..(Docs!Version - v) /\ v + (Docs!Version - v) + 1 = Docs!Version + 1
    BY <1>5
  <2>5. \A n \in 0..(Docs!Version - v) :
          /\ Docs!Transformed(op, concurrent)[n] \in Docs!Ops
          /\ Carries(op, texts[v + 1], Docs!Transformed(op, concurrent)[n], texts[v + n + 1])
          /\ Ordered(texts[v + 1], texts[v + n + 1])
    BY <1>4, <1>5, <2>2, CarriesThrough
  <2>6. /\ Docs!Transformed(op, concurrent)[Docs!Version - v] \in Docs!Ops
        /\ Carries(op, texts[v + 1], Docs!Transformed(op, concurrent)[Docs!Version - v], texts[v + (Docs!Version - v) + 1])
        /\ Ordered(texts[v + 1], texts[v + (Docs!Version - v) + 1])
    BY <2>4, <2>5, Zenon
  <2> QED
    BY <1>2, <1>5, <2>3, <2>4, <2>6, Zenon
<1>9. /\ Fits(t, doc) /\ t.kind \in {"ins", "del", "noop"}
      /\ op.kind = "ins" => t.kind = "ins" /\ t.char = op.char
      /\ op.kind = "del" => t.kind \in {"del", "noop"}
      /\ op.kind = "del" /\ t.kind = "del" => doc[t.pos + 1] = saw[op.pos + 1]
      /\ op.kind = "del" /\ t.kind = "noop" => \A n \in 1..Len(doc) : doc[n] # saw[op.pos + 1]
  BY <1>8 DEF Carries, Fits
<1>10. /\ t.kind = "ins" => op.kind = "ins" /\ t.char = Docs!Version + 1 /\ t.char \in Docs!Chars
       /\ Lacks(doc, t) /\ Lacks(saw, t) /\ Lacks(saw, op)
  <2>1. t.kind = "ins" => op.kind = "ins" /\ t.char = Docs!Version + 1 /\ t.char \in Docs!Chars
    BY <1>7, <1>9
  <2> QED
    <3>1. \A c \in 1..Docs!Version : c # Docs!Version + 1
      BY <1>5
    <3>2. Lacks(doc, t)
      BY <1>6, <2>1, <3>1 DEF Lacks
    <3>3. Lacks(saw, t)
      BY <1>6, <2>1, <3>1 DEF Lacks
    <3>4. Lacks(saw, op)
      BY <1>6, <1>7, <3>1 DEF Lacks
    <3> QED
      BY <2>1, <3>2, <3>3, <3>4
<1>11. PICK new : new = doc'
  OBVIOUS
<1>12. /\ new \in Seq(Docs!Chars) /\ Len(new) \in Nat /\ Len(new) <= Docs!Version + 1 /\ new = Docs!Apply(doc, t)
  <2>1. new = Docs!Apply(doc, t)
    BY <1>4, <1>11
  <2>2. /\ new \in Seq(Docs!Chars)
        /\ t.kind = "ins" => Len(new) = Len(doc) + 1
        /\ t.kind = "del" => Len(new) = Len(doc) - 1
        /\ t.kind = "noop" => Len(new) = Len(doc)
    BY <1>6, <1>9, <1>10, <2>1, Origins
  <2>3. Len(new) \in Nat
    BY <2>2
  <2> QED
    <3>1. Len(new) = Len(doc) + 1 \/ Len(new) = Len(doc) - 1 \/ Len(new) = Len(doc)
      BY <1>9, <2>2
    <3>2. Len(new) <= Docs!Version + 1
      BY <1>5, <1>6, <3>1
    <3> QED
      BY <2>1, <2>2, <2>3, <3>2
<1>13. /\ view \in Seq(Docs!Chars)
       /\ \A i \in 1..Len(view) : view[i] \in Docs!Typed \/ (op.kind = "ins" /\ view[i] = op.char)
       /\ op.kind = "ins" => op.pos + 1 \in 1..Len(view) /\ view[op.pos + 1] = op.char
  <2>1. /\ view \in Seq(Docs!Chars)
        /\ \A m \in 1..Len(view) :
             \/ op.kind = "ins" /\ m = op.pos + 1 /\ view[m] = op.char
             \/ \E k \in 1..Len(saw) : view[m] = saw[k] /\ Goes(op, k, m)
    BY <1>3, <1>6, <1>7, Origins
  <2>2. op.kind = "ins" => op.pos + 1 \in 1..Len(view) /\ view[op.pos + 1] = op.char
    BY <1>3, <1>6, <1>7, Origins
  <2> QED
    BY <1>6, <2>1, <2>2
<1>14. /\ Docs!Version' = Docs!Version + 1 /\ snapshotVersion' = snapshotVersion
       /\ log' \in Seq(Docs!Ops) /\ Len(log') = Len(log) + 1 /\ log'[Len(log) + 1] = t
       /\ \A i \in 1..Len(log) : log'[i] = log[i]
       /\ texts' \in Seq(Seq(Docs!Chars)) /\ Len(texts') = Docs!Version + 2 /\ texts'[Docs!Version + 2] = new
       /\ \A w \in 0..Docs!Version : texts'[w + 1] = texts[w + 1]
  <2>1. /\ log' \in Seq(Docs!Ops) /\ Len(log') = Len(log) + 1 /\ log'[Len(log) + 1] = t
        /\ \A i \in 1..Len(log) : log'[i] = log[i]
    <3>1. log' = Append(log, t) /\ log \in Seq(Docs!Ops) /\ t \in Docs!Ops
      BY <1>4, <1>5, <1>8
    <3> QED
      BY <3>1
  <2>2. texts' = Append(texts, new)
    BY <1>4, <1>11
  <2>3. /\ texts' \in Seq(Seq(Docs!Chars)) /\ Len(texts') = Len(texts) + 1 /\ texts'[Len(texts) + 1] = new
        /\ \A i \in 1..Len(texts) : texts'[i] = texts[i]
    BY <1>5, <1>12, <2>2
  <2>4. Docs!Version' = Docs!Version + 1
    BY <1>4, <1>5, <2>1 DEF Docs!Version
  <2>5. Len(texts) + 1 = Docs!Version + 2 /\ \A w \in 0..Docs!Version : w + 1 \in 1..Len(texts)
    BY <1>5
  <2> QED
    BY <1>4, <2>1, <2>3, <2>4, <2>5, Zenon

<1>15. DocsShaped'
  <2>1. Docs!Version + 1 <= MaxVersion /\ Docs!Version' + 1 = Docs!Version + 2
    BY <1>4, <1>5, <1>14
  <2>2. doc' = texts'[Docs!Version' + 1] /\ Len(texts') = Docs!Version' + 1
    BY <1>11, <1>14, <2>1
  <2>3. snapshotVersion' \in Nat /\ Docs!Version' <= MaxVersion
    BY <1>5, <1>14, <2>1
  <2> QED
    BY <1>14, <2>2, <2>3 DEF DocsShaped
<1>16. DocsRecorded'
  <2>1. \A w \in snapshotVersion..(Docs!Version - 1) :
          /\ w \in 0..Docs!Version /\ w + 1 \in 0..Docs!Version /\ w - snapshotVersion + 1 \in 1..Len(log) /\ (w + 1) + 1 = w + 2
    BY <1>5
  <2>2. ASSUME NEW w \in snapshotVersion..(Docs!Version - 1)
        PROVE  /\ log'[w - snapshotVersion + 1] = Logged(w)
               /\ texts'[w + 1] = texts[w + 1] /\ texts'[w + 2] = texts[w + 2]
    BY <1>14, <2>1 DEF Logged
  <2>3. ASSUME NEW w \in snapshotVersion'..(Docs!Version' - 1)
        PROVE  /\ Fits(log'[w - snapshotVersion' + 1], texts'[w + 1])
               /\ log'[w - snapshotVersion' + 1].kind = "ins" => log'[w - snapshotVersion' + 1].char = w + 1
               /\ texts'[w + 2] = Docs!Apply(texts'[w + 1], log'[w - snapshotVersion' + 1])
    <3>1. CASE w = Docs!Version
      <4>1. w - snapshotVersion' + 1 = Len(log) + 1
        BY <1>5, <1>14, <3>1
      <4>2. log'[w - snapshotVersion' + 1] = t /\ texts'[w + 1] = doc /\ texts'[w + 2] = new
        BY <1>5, <1>14, <3>1, <4>1
      <4> QED
        BY <1>9, <1>10, <1>12, <3>1, <4>2
    <3>2. CASE w # Docs!Version
      <4>1. w \in snapshotVersion..(Docs!Version - 1)
        BY <1>5, <1>14, <3>2
      <4>2. /\ log'[w - snapshotVersion' + 1] = Logged(w)
            /\ texts'[w + 1] = texts[w + 1] /\ texts'[w + 2] = texts[w + 2]
        BY <1>14, <2>2, <4>1
      <4>3. /\ Fits(Logged(w), texts[w + 1]) /\ (Logged(w).kind = "ins" => Logged(w).char = w + 1)
            /\ texts[w + 2] = Docs!Apply(texts[w + 1], Logged(w))
        BY <4>1 DEF DocsInv, DocsRecorded
      <4> QED
        BY <4>2, <4>3, Zenon
    <3> QED
      BY <3>1, <3>2
  <2> QED
    BY <2>3, Zenon DEF DocsRecorded, Logged
<1>17. /\ \A c : c \in Docs!Typed <=> \E x \in views : \E i \in 1..Len(x) : x[i] = c
       /\ \A c : c \in Docs!Typed' <=> \E x \in views' : \E i \in 1..Len(x) : x[i] = c
       /\ views' \subseteq Seq(Docs!Chars)
  <2>1. views \subseteq Seq(Docs!Chars) /\ views' \subseteq Seq(Docs!Chars)
    BY <1>4, <1>13 DEF DocsInv, DocsKnown
  <2>2. (\A x \in views : DOMAIN x = 1..Len(x)) /\ \A x \in views' : DOMAIN x = 1..Len(x)
    BY <2>1
  <2> QED
    BY <2>1, <2>2 DEF Docs!Typed, Docs!Range
<1>18. \A c : c \in Docs!Typed' <=> c \in Docs!Typed \/ \E i \in 1..Len(view) : view[i] = c
  BY <1>4, <1>17
<1>19. \A c : c \in Docs!Typed' <=> c \in Docs!Typed \/ (op.kind = "ins" /\ c = op.char)
  BY <1>13, <1>18
<1>20. Docs!Typed \subseteq 1..Docs!Version /\ erased \subseteq Docs!Typed /\ Docs!Typed \subseteq Docs!Typed'
  BY <1>19 DEF DocsInv, DocsKnown
<1>21. \A m \in 1..Len(new) :
         \/ t.kind = "ins" /\ m = t.pos + 1 /\ new[m] = t.char
         \/ \E k \in 1..Len(doc) : new[m] = doc[k] /\ Goes(t, k, m)
  BY <1>6, <1>9, <1>10, <1>12, Origins
<1>22. DocsKnown'
  <2>1. Docs!Typed' \subseteq 1..(Docs!Version + 1)
    BY <1>5, <1>7, <1>19, <1>20
  <2>2. erased' \subseteq Docs!Typed'
    <3>1. op.kind = "del" => op.pos + 1 \in 1..Len(saw)
      BY <1>6, <1>7 DEF Fits
    <3> QED
      BY <1>4, <1>6, <1>20, <3>1
  <2>3. Unique(new)
    BY <1>6, <1>9, <1>10, <1>12, KeepsUnique
  <2>4. ASSUME NEW i \in 1..Len(new) PROVE new[i] \in (1..(Docs!Version + 1)) \cap Docs!Typed'
    <3>1. CASE t.kind = "ins" /\ new[i] = t.char
      BY <1>5, <1>9, <1>10, <1>19, <3>1
    <3>2. CASE \E k \in 1..Len(doc) : new[i] = doc[k]
      <4>1. PICK k \in 1..Len(doc) : new[i] = doc[k]
        BY <3>2
      <4>2. doc[k] \in 1..Docs!Version /\ doc[k] \in Docs!Typed
        BY <1>6
      <4> QED
        <5>1. 1..Docs!Version \subseteq 1..(Docs!Version + 1)
          BY <1>5
        <5> QED
          BY <1>20, <4>1, <4>2, <5>1, Zenon
    <3> QED
      BY <1>21, <3>1, <3>2
  <2>5. ASSUME NEW w \in 0..(Docs!Version + 1)
        PROVE  /\ Unique(texts'[w + 1]) /\ Len(texts'[w + 1]) <= w
               /\ \A i \in 1..Len(texts'[w + 1]) : texts'[w + 1][i] \in (1..w) \cap Docs!Typed'
    <3>1. CASE w = Docs!Version + 1
      <4>1. texts'[w + 1] = new
        BY <1>5, <1>14, <3>1
      <4> QED
        BY <1>12, <2>3, <2>4, <3>1, <4>1
    <3>2. CASE w # Docs!Version + 1
      <4>0. w \in 0..Docs!Version
        BY <1>5, <3>2
      <4>1. w \in 0..Docs!Version /\ texts'[w + 1] = texts[w + 1]
        BY <1>14, <4>0
      <4>2. /\ Unique(texts[w + 1]) /\ Len(texts[w + 1]) <= w
            /\ \A i \in 1..Len(texts[w + 1]) : texts[w + 1][i] \in (1..w) \cap Docs!Typed
        BY <4>1 DEF DocsInv, DocsKnown
      <4> QED
        BY <1>20, <4>1, <4>2
    <3> QED
      BY <3>1, <3>2
  <2> QED
    BY <1>14, <1>17, <2>1, <2>2, <2>5, Zenon DEF DocsKnown
<1>23. \A c \in Docs!Chars : c \in Docs!Typed' \ erased' <=> \E m \in 1..Len(new) : new[m] = c
  <2>1. \A c \in Docs!Chars : c \in Docs!Typed \ erased <=> \E m \in 1..Len(doc) : doc[m] = c
    BY DEF DocsInv, DocsKept
  <2>2. \A k \in 1..Len(doc), m \in Nat : Goes(t, k, m) => m \in 1..Len(new) /\ new[m] = doc[k]
    BY <1>6, <1>9, <1>10, <1>12, Origins
  <2>3. t.kind = "ins" => t.pos + 1 \in 1..Len(new) /\ new[t.pos + 1] = t.char
    BY <1>6, <1>9, <1>10, <1>12, Origins
  <2>4. \A k \in 1..Len(doc) : ~(t.kind = "del" /\ k = t.pos + 1) => \E m \in 1..Len(new) : new[m] = doc[k]
    <3> SUFFICES ASSUME NEW k \in 1..Len(doc), ~(t.kind = "del" /\ k = t.pos + 1) PROVE \E m \in Nat : Goes(t, k, m)
      BY <2>2
    <3>1. t.kind # "noop" => t.pos \in Nat
      BY <1>9 DEF Fits
    <3>2. k \in Nat /\ k + 1 \in Nat /\ (k > 1 => k - 1 \in Nat)
      BY <1>6
    <3>3. CASE t.kind = "ins"
      <4>1. CASE k <= t.pos
        BY <3>2, <3>3, <4>1 DEF Goes
      <4>2. CASE k > t.pos
        BY <3>2, <3>3, <4>2 DEF Goes
      <4> QED
        BY <3>1, <3>2, <3>3, <4>1, <4>2
    <3>4. CASE t.kind = "del"
      <4>1. CASE k <= t.pos
        BY <3>2, <3>4, <4>1 DEF Goes
      <4>2. CASE k > t.pos + 1
        BY <3>1, <3>2, <3>4, <4>2 DEF Goes
      <4> QED
        BY <3>1, <3>2, <3>4, <4>1, <4>2
    <3>5. CASE t.kind = "noop"
      BY <3>2, <3>5 DEF Goes
    <3> QED
      BY <1>9, <3>3, <3>4, <3>5
  <2>5. CASE op.kind = "ins"
    <3>1. /\ t.kind = "ins" /\ t.char = op.char /\ op.char = Docs!Version + 1 /\ erased' = erased
          /\ op.char \notin Docs!Typed
      BY <1>4, <1>5, <1>7, <1>9, <1>20, <2>5
    <3>2. \A c \in Docs!Chars : (\E m \in 1..Len(new) : new[m] = c) <=> (c = op.char \/ \E k \in 1..Len(doc) : doc[k] = c)
      BY <1>21, <2>3, <2>4, <3>1
    <3>3. \A c : c \in Docs!Typed' \ erased' <=> c \in Docs!Typed \ erased \/ c = op.char
      BY <1>19, <1>20, <2>5, <3>1
    <3> QED
      BY <2>1, <3>2, <3>3
  <2>6. CASE op.kind = "del"
    <3>1. PICK x : x = saw[op.pos + 1]
      OBVIOUS
    <3>2. \A c : c \in Docs!Typed' \ erased' <=> c \in Docs!Typed \ erased /\ c # x
      BY <1>4, <1>19, <2>6, <3>1
    <3>3. CASE t.kind = "noop"
      <4>1. \A c \in Docs!Chars : (\E m \in 1..Len(new) : new[m] = c) <=> (\E k \in 1..Len(doc) : doc[k] = c)
        BY <1>21, <2>4, <3>3
      <4>2. \A k \in 1..Len(doc) : doc[k] # x
        BY <1>9, <2>6, <3>1, <3>3
      <4> QED
        BY <2>1, <3>2, <4>1, <4>2
    <3>4. CASE t.kind = "del"
      <4>1. t.pos + 1 \in 1..Len(doc) /\ doc[t.pos + 1] = x /\ t.pos \in Nat
        BY <1>6, <1>9, <2>6, <3>1, <3>4 DEF Fits
      <4>2. \A k \in 1..Len(doc) : doc[k] = x => k = t.pos + 1
        BY <1>6, <4>1 DEF Unique
      <4>3. \A m \in 1..Len(new) : \E k \in 1..Len(doc) : new[m] = doc[k] /\ k # t.pos + 1
        <5> SUFFICES ASSUME NEW m \in 1..Len(new) PROVE \E k \in 1..Len(doc) : new[m] = doc[k] /\ k # t.pos + 1
          OBVIOUS
        <5>1. PICK k \in 1..Len(doc) : new[m] = doc[k] /\ Goes(t, k, m)
          BY <1>21, <3>4
        <5>2. k # t.pos + 1
          BY <1>6, <3>4, <4>1, <5>1 DEF Goes
        <5> QED
          BY <5>1, <5>2
      <4>4. \A c \in Docs!Chars : (\E m \in 1..Len(new) : new[m] = c) <=> (c # x /\ \E k \in 1..Len(doc) : doc[k] = c)
        BY <2>4, <4>1, <4>2, <4>3
      <4> QED
        BY <2>1, <3>2, <4>4
    <3> QED
      BY <1>9, <2>6, <3>3, <3>4
  <2> QED
    BY <1>7, <2>5, <2>6
<1>24. DocsKept'
  <2>1. ASSUME NEW x \in views PROVE Ordered(x, new)
    <3>1. x \in Seq(Docs!Chars) /\ Ordered(x, doc) /\ \A i \in 1..Len(x) : x[i] \in Docs!Typed
      BY <1>17 DEF DocsInv, DocsKnown, DocsKept
    <3>2. Lacks(x, t)
      BY <1>5, <1>10, <1>20, <3>1 DEF Lacks
    <3> QED
      BY <1>6, <1>9, <1>10, <1>12, <3>1, <3>2, KeepsOrder
  <2>2. Ordered(saw, new)
    BY <1>6, <1>8, <1>9, <1>10, <1>12, KeepsOrder
  <2>3. Ordered(view, new)
    BY <1>3, <1>6, <1>7, <1>8, <1>10, <1>12, <2>2, KeepsView
  <2> QED
    BY <1>4, <1>11, <1>23, <2>1, <2>3 DEF DocsKept
<1> QED
  BY <1>15, <1>16, <1>22, <1>24 DEF DocsInv

LEMMA DocsStepInv == DocsInv /\ [Docs!Next]_(Docs!vars) => DocsInv'
<1> SUFFICES ASSUME DocsInv, [Docs!Next]_(Docs!vars) PROVE DocsInv'
  OBVIOUS
<1>1. CASE \E v \in 0..Docs!Version : \E op \in Docs!EditsOf(texts[v + 1]) : Docs!Submit(v, op)
  BY <1>1, SubmitInv
<1>2. CASE Docs!Snapshot
  BY <1>2, SnapshotInv
<1>3. CASE UNCHANGED Docs!vars
  BY <1>3 DEF Docs!vars, DocsInv, DocsShaped, DocsRecorded, DocsKnown, DocsKept, Docs!Version, Docs!Typed, Logged
<1> QED
  BY <1>1, <1>2, <1>3 DEF Docs!Next

LEMMA DocsInvTyped == DocsInv => Docs!TypeOK
<1> SUFFICES ASSUME DocsInv PROVE Docs!TypeOK
  OBVIOUS
<1>1. /\ Docs!Version \in Nat /\ snapshotVersion \in Nat /\ snapshotVersion <= Docs!Version /\ Docs!Version <= MaxVersion /\ MaxVersion \in Nat
      /\ texts \in Seq(Seq(Docs!Chars)) /\ Len(texts) = Docs!Version + 1 /\ doc = texts[Docs!Version + 1] /\ log \in Seq(Docs!Ops)
  BY DocsSizes DEF DocsInv, DocsShaped
<1>2. snapshotVersion \in 0..MaxVersion /\ Docs!Version = Len(texts) - 1 /\ doc = texts[Len(texts)]
  BY <1>1
<1>3. (\A i \in DOMAIN texts : texts[i] \in Seq(Docs!Chars)) /\ doc \in Seq(Docs!Chars)
  BY <1>1
<1>4. erased \subseteq Docs!Chars
  BY <1>1 DEF DocsInv, DocsKnown, Docs!Chars
<1> QED
  BY <1>1, <1>2, <1>3, <1>4 DEF Docs!TypeOK

LEMMA DocsInvKept == DocsInv => Docs!EditsKept
<1> SUFFICES ASSUME DocsInv PROVE Docs!EditsKept
  OBVIOUS
<1>1. /\ doc \in Seq(Docs!Chars) /\ views \subseteq Seq(Docs!Chars) /\ Unique(doc) /\ Docs!Typed \subseteq Docs!Chars
      /\ \A i \in 1..Len(doc) : doc[i] \in Docs!Typed
  <2>1. Docs!Version \in Nat /\ Docs!Version \in 0..Docs!Version /\ Docs!Version <= MaxVersion /\ MaxVersion \in Nat /\ doc = texts[Docs!Version + 1]
    BY DocsSizes DEF DocsInv, DocsShaped
  <2> QED
    <3>1. doc \in Seq(Docs!Chars)
      BY <2>1, DocsSizes DEF DocsInv
    <3>2. Unique(doc) /\ \A i \in 1..Len(doc) : doc[i] \in Docs!Typed
      BY <2>1 DEF DocsInv, DocsKnown
    <3>3. views \subseteq Seq(Docs!Chars) /\ Docs!Typed \subseteq Docs!Chars
      BY <2>1 DEF DocsInv, DocsKnown, Docs!Chars
    <3> QED
      BY <3>1, <3>2, <3>3
<1>2. DOMAIN doc = 1..Len(doc) /\ \A view \in views : DOMAIN view = 1..Len(view)
  BY <1>1
<1>3. Docs!IsInjective(doc)
  BY <1>1, <1>2 DEF Docs!IsInjective, Unique
<1>4. Docs!Range(doc) = Docs!Typed \ erased
  <2>1. \A c : c \in Docs!Range(doc) <=> \E m \in 1..Len(doc) : doc[m] = c
    BY <1>2 DEF Docs!Range
  <2>2. \A c : c \in Docs!Typed \ erased <=> \E m \in 1..Len(doc) : doc[m] = c
    BY <1>1 DEF DocsInv, DocsKept
  <2> QED
    BY <2>1, <2>2
<1>5. \A view \in views : \A i, j \in DOMAIN view, m, n \in DOMAIN doc :
        i < j /\ view[i] = doc[m] /\ view[j] = doc[n] => m < n
  BY <1>2 DEF DocsInv, DocsKept, Ordered
<1> QED
  BY <1>3, <1>4, <1>5 DEF Docs!EditsKept

\* The document, its log and what the editors saw agree after every step of the server.
THEOREM DocsInvariance == Docs!Spec => []DocsInv
BY DocsInitInv, DocsStepInv, PTL DEF Docs!Spec

\* Two editors typing at once never lose a keystroke.
THEOREM DocsKeystrokes == Docs!Spec => []Docs!EditsKept
<1>1. Docs!Spec => []DocsInv
  BY DocsInvariance
<1> QED
  BY <1>1, DocsInvKept, PTL

\* The document and its log keep their types (DocumentServer).
THEOREM DocsTypes == Docs!Spec => []Docs!TypeOK
<1>1. Docs!Spec => []DocsInv
  BY DocsInvariance
<1> QED
  BY <1>1, DocsInvTyped, PTL

-----------------------------------------------------------------------------
(* Chunked sync *)

\* What the calls until now have shown an agent that pushes.
Covered ==
  \A a \in Agents :
    call[a] \in {"missing", "put"} => Sync!Range(local[a]) \subseteq chunks \cup todo[a]

SyncInv == Sync!TypeOK /\ Sync!Restorable /\ Covered

\* The hashes of a file, and those of no file, are chunks.
LEMMA RangeOfFiles == \A f \in Files \cup {Sync!NoFile} : Sync!Range(f) \subseteq Sync!Chunks
<1>1. Sync!Range(Sync!NoFile) = {}
  BY DEF Sync!NoFile, Sync!Range
<1>2. \A f \in Files : Sync!Range(f) \subseteq Sync!Chunks
  BY DEF Sync!Chunks
<1> QED
  BY <1>1, <1>2

LEMMA SyncInitInv == Sync!Init => SyncInv
<1>1. Sync!Range(Sync!NoFile) = {}
  BY DEF Sync!NoFile, Sync!Range
<1> QED
  BY <1>1 DEF Sync!Init, SyncInv, Sync!TypeOK, Sync!Restorable, Covered

\* An agent that ends has nothing left to show; nobody else is concerned.
LEMMA SyncEndInv ==
  ASSUME SyncInv, NEW a \in Agents, Sync!End(a), chunks' = chunks,
         manifest' \in [Paths -> Files \cup {Sync!NoFile}],
         \A p \in Paths : Sync!Range(manifest'[p]) \subseteq chunks
  PROVE  SyncInv'
BY DEF SyncInv, Sync!TypeOK, Sync!Restorable, Covered, Sync!End, Sync!Goto

\* Each step keeps the invariant.
LEMMA SyncStepInv == SyncInv /\ [Sync!Next]_(Sync!vars) => SyncInv'
<1> SUFFICES ASSUME SyncInv, [Sync!Next]_(Sync!vars) PROVE SyncInv'
  OBVIOUS
<1> USE DEF SyncInv, Sync!TypeOK, Sync!Restorable, Covered
<1>1. ASSUME NEW a \in Agents, NEW p \in Paths, Sync!Pull(a, p) PROVE SyncInv'
  BY <1>1, RangeOfFiles DEF Sync!Pull, Sync!Goto, Sync!tables
<1>2. ASSUME NEW a \in Agents, NEW p \in Paths, NEW f \in Files, Sync!Push(a, p, f) PROVE SyncInv'
  BY <1>2 DEF Sync!Push, Sync!Goto, Sync!tables
<1>3. ASSUME NEW a \in Agents, NEW c \in Sync!Chunks, Sync!PutChunk(a, c) PROVE SyncInv'
  BY <1>3 DEF Sync!PutChunk
<1>4. ASSUME NEW a \in Agents, NEW c \in Sync!Chunks, Sync!GetChunk(a, c) PROVE SyncInv'
  <2>1. CASE c \in chunks
    BY <1>4, <2>1 DEF Sync!GetChunk, Sync!tables
  <2>2. CASE c \notin chunks
    BY <1>4, <2>2, SyncEndInv DEF Sync!GetChunk, Sync!tables
  <2> QED
    BY <2>1, <2>2
\* What the diff leaves out is in the manifest of the path, and Restorable has it stored.
<1>5. ASSUME NEW a \in Agents, Sync!Diff(a) PROVE SyncInv'
  <2>1. path[a] \in Paths /\ Sync!Range(manifest[path[a]]) \subseteq chunks
    BY <1>5 DEF Sync!Diff
  <2>2. Sync!Range(local[a]) \subseteq Sync!Chunks
    BY RangeOfFiles
  <2> QED
    BY <1>5, <2>1, <2>2 DEF Sync!Diff, Sync!Goto, Sync!tables
<1>6. ASSUME NEW a \in Agents, Sync!Missing(a) PROVE SyncInv'
  BY <1>6 DEF Sync!Missing, Sync!Goto, Sync!tables
\* Nothing is left to put, so that Covered has the whole file stored.
<1>7. ASSUME NEW a \in Agents, Sync!CommitManifest(a) PROVE SyncInv'
  <2>1. path[a] \in Paths /\ local[a] \in Files \cup {Sync!NoFile} /\ Sync!Range(local[a]) \subseteq chunks
    BY <1>7 DEF Sync!CommitManifest, Sync!Uploaded
  <2>2. /\ manifest' \in [Paths -> Files \cup {Sync!NoFile}]
        /\ \A p \in Paths : Sync!Range(manifest'[p]) \subseteq chunks
    BY <1>7, <2>1 DEF Sync!CommitManifest
  <2> QED
    BY <1>7, <2>2, SyncEndInv DEF Sync!CommitManifest
<1>8. ASSUME NEW a \in Agents, Sync!Pulled(a) \/ Sync!Die(a) PROVE SyncInv'
  BY <1>8, SyncEndInv DEF Sync!Pulled, Sync!Die, Sync!tables
<1>9. CASE UNCHANGED Sync!vars
  BY <1>9 DEF Sync!vars, Sync!tables, Sync!agent
<1> QED
  BY <1>1, <1>2, <1>3, <1>4, <1>5, <1>6, <1>7, <1>8, <1>9 DEF Sync!Next

\* What a push did not find is stored by the time it commits.
THEOREM SyncInvariance == Sync!Spec => []SyncInv
BY SyncInitInv, SyncStepInv, PTL DEF Sync!Spec

\* A version that is visible can be restored, and no pull meets a 404 (SyncEngine).
THEOREM SyncRestorable == Sync!Spec => []Sync!Restorable
<1>1. SyncInv => Sync!Restorable
  BY DEF SyncInv
<1> QED
  BY <1>1, SyncInvariance, PTL

\* Every variable keeps its type.
THEOREM SyncTypes == Sync!Spec => []Sync!TypeOK
<1>1. SyncInv => Sync!TypeOK
  BY DEF SyncInv
<1> QED
  BY <1>1, SyncInvariance, PTL

\* "The single act that flips the new version visible" (sync_engine.py): a manifest
\* changes only into a whole file, of which every chunk is stored already.
OnlyWholeVersions == \A p \in Paths : manifest'[p] # manifest[p] => Sync!Range(manifest'[p]) \subseteq chunks

\* A manifest changes only into a file of which every chunk is stored (SyncEngine.push).
THEOREM VersionsAreWhole == Sync!Spec => [][OnlyWholeVersions]_(Sync!vars)
<1>1. SyncInv /\ [Sync!Next]_(Sync!vars) => [OnlyWholeVersions]_(Sync!vars)
  <2> SUFFICES ASSUME SyncInv, Sync!Next PROVE OnlyWholeVersions
    BY DEF OnlyWholeVersions
  <2>1. ASSUME NEW a \in Agents, Sync!CommitManifest(a) PROVE OnlyWholeVersions
    BY <2>1 DEF SyncInv, Sync!TypeOK, Covered, Sync!CommitManifest, Sync!Uploaded, OnlyWholeVersions
  <2>2. ASSUME manifest' = manifest PROVE OnlyWholeVersions
    BY <2>2 DEF OnlyWholeVersions
  <2> QED
    BY <2>1, <2>2 DEF Sync!Next, Sync!Pull, Sync!Push, Sync!PutChunk, Sync!GetChunk, Sync!Diff, Sync!Missing, Sync!Pulled, Sync!Die, Sync!tables
<1> QED
  BY <1>1, SyncInvariance, PTL DEF Sync!Spec

-----------------------------------------------------------------------------
(* Transcoding *)

\* A run that will find every rendition there is to find, or has found it.
Promising(r) ==
  runAt[r] \in {"exists", "put", "manifest"} \/ (runAt[r] = "count" /\ done[r] = task_[r] - 1)

\* What a run knows at each of its steps: what it has counted is in the store.
Counted ==
  \A r \in Runs :
    /\ runAt[r] \in {"idle", "exists", "put"} => done[r] = 0
    /\ runAt[r] \in {"exists", "put", "count"} => task_[r] \in Video!Tasks
    /\ runAt[r] = "count" => done[r] < task_[r] /\ (done[r] = task_[r] - 1 => 1..(task_[r] - 1) \subseteq store)
    /\ runAt[r] = "manifest" =>
         store = Video!Tasks /\ task_[r] \in 1..(Renditions + 1) /\ 1..(task_[r] - 1) \subseteq manifests

Finished ==
  /\ manifests # {} => store = Video!Tasks
  /\ state = "live" => manifests = 1..Renditions
  /\ ~cut /\ store = Video!Tasks => state = "live" \/ \E r \in Runs : Promising(r)

VideoInv == Video!TypeOK /\ Counted /\ Finished

LEMMA TotalBound == Video!Total \in Nat /\ Video!Total >= 1 /\ Renditions \in Nat /\ Renditions >= 1 /\ Renditions <= Video!Total /\ Video!Tasks = 1..Video!Total
<1>1. Segments \in Nat /\ Segments >= 1 /\ Renditions \in Nat /\ Renditions >= 1
  BY StudiesAssumption DEF Video!WellFormed
<1>2. Segments * Renditions \in Nat /\ Segments * Renditions >= Renditions
  BY <1>1, SMT
<1> QED
  BY <1>1, <1>2 DEF Video!Total, Video!Tasks

LEMMA Places ==
  /\ 0 \in 0..(Video!Total + 1) /\ 0 \in 0..Video!Total /\ Renditions + 1 \in 0..(Video!Total + 1)
  /\ \A n \in Video!Tasks : n \in 0..(Video!Total + 1) /\ n + 1 \in 0..(Video!Total + 1)
  /\ 1 \in Video!Tasks
BY TotalBound

\* After its task a run goes on to the next one, or to count.
LEMMA AfterTaskMoves ==
  ASSUME VideoInv, NEW r \in Runs, task_[r] \in Video!Tasks, Video!AfterTask(r)
  PROVE  /\ runAt' = [runAt EXCEPT ![r] = runAt'[r]] /\ task_' = [task_ EXCEPT ![r] = task_'[r]]
         /\ runAt'[r] \in {"exists", "count"} /\ task_'[r] \in Video!Tasks
         /\ runAt'[r] = "count" => task_'[r] = 1
<1>1. task_[r] \in 1..Video!Total /\ Video!Tasks = 1..Video!Total /\ Video!Total \in Nat /\ Video!Total >= 1
  BY TotalBound
<1>2. CASE {n \in Video!Tasks : n > task_[r]} = {}
  BY <1>1, <1>2 DEF Video!AfterTask, Video!Goto, VideoInv, Video!TypeOK
<1>3. CASE {n \in Video!Tasks : n > task_[r]} # {}
  <2>1. task_[r] + 1 \in 1..Video!Total
    BY <1>1, <1>3
  <2> QED
    BY <1>1, <1>3, <2>1 DEF Video!AfterTask, Video!Goto, VideoInv, Video!TypeOK
<1> QED
  BY <1>2, <1>3

\* A run that ends keeps the others' knowledge; a video that is whole stays promising if the
\* run was not what it rested on.
LEMMA EndKeeps ==
  ASSUME VideoInv, NEW r \in Runs, Video!End(r), UNCHANGED <<store, manifests>>,
         state' \in {"unknown", "processing", "live"}, cut' \in BOOLEAN,
         state' = "live" => manifests = 1..Renditions,
         ~cut' /\ store = Video!Tasks => state' = "live" \/ (~cut /\ state' = state /\ ~Promising(r))
  PROVE  VideoInv'
<1> USE TotalBound
<1>1. Video!TypeOK'
  BY DEF VideoInv, Video!TypeOK, Video!End, Video!Goto
<1>2. Counted'
  BY DEF VideoInv, Video!TypeOK, Counted, Video!End, Video!Goto
<1>3. \A q \in Runs : q # r => (Promising(q)' <=> Promising(q))
  BY DEF VideoInv, Video!TypeOK, Video!End, Video!Goto, Promising
<1>4. Finished'
  BY <1>3 DEF VideoInv, Finished
<1> QED
  BY <1>1, <1>2, <1>4 DEF VideoInv

LEMMA VideoStep == VideoInv /\ [Video!Next]_(Video!vars) => VideoInv'
<1> SUFFICES ASSUME VideoInv, [Video!Next]_(Video!vars) PROVE VideoInv'
  OBVIOUS
<1>1. ASSUME NEW r \in Runs, NEW f \in Video!Tasks \cup {0}, Video!Process(r, f) PROVE VideoInv'
  <2>1. 1 \in Video!Tasks
    BY TotalBound
  <2>2. Video!TypeOK'
    BY <1>1, Places DEF Video!Process, VideoInv, Video!TypeOK, Video!Goto
  <2>3. Counted'
    BY <1>1, <2>1 DEF Video!Process, VideoInv, Video!TypeOK, Counted, Video!Goto
  <2>4. Promising(r)'
    BY <1>1 DEF Video!Process, VideoInv, Video!TypeOK, Promising, Video!Goto
  <2>5. Finished'
    BY <1>1, <2>4 DEF Video!Process, VideoInv, Finished
  <2> QED
    BY <2>2, <2>3, <2>5 DEF VideoInv
<1>2. ASSUME NEW r \in Runs, task_[r] \in Video!Tasks, done[r] = 0, Video!AfterTask(r), store' = store \/ store' = store \cup {task_[r]},
             UNCHANGED <<state, manifests, failing, done, cut>>
      PROVE  VideoInv'
  <2>1. /\ runAt' = [runAt EXCEPT ![r] = runAt'[r]] /\ task_' = [task_ EXCEPT ![r] = task_'[r]]
        /\ runAt'[r] \in {"exists", "count"} /\ task_'[r] \in Video!Tasks
        /\ runAt'[r] = "count" => task_'[r] = 1
    BY <1>2, AfterTaskMoves
  <2>2. store \subseteq store' /\ store' \subseteq Video!Tasks
    BY <1>2 DEF VideoInv, Video!TypeOK
  <2>3. Video!TypeOK'
    BY <1>2, <2>1, <2>2, Places DEF VideoInv, Video!TypeOK
  <2>4. Counted'
    <3> SUFFICES ASSUME NEW q \in Runs
                 PROVE  /\ runAt'[q] \in {"idle", "exists", "put"} => done'[q] = 0
                        /\ runAt'[q] \in {"exists", "put", "count"} => task_'[q] \in Video!Tasks
                        /\ runAt'[q] = "count" => done'[q] < task_'[q] /\ (done'[q] = task_'[q] - 1 => 1..(task_'[q] - 1) \subseteq store')
                        /\ runAt'[q] = "manifest" =>
                             store' = Video!Tasks /\ task_'[q] \in 1..(Renditions + 1) /\ 1..(task_'[q] - 1) \subseteq manifests'
      BY DEF Counted
    <3>1. CASE q = r
      BY <1>2, <2>1, <3>1 DEF VideoInv, Video!TypeOK
    <3>2. CASE q # r
      <4>1. runAt'[q] = runAt[q] /\ task_'[q] = task_[q] /\ done'[q] = done[q]
        BY <1>2, <2>1, <3>2 DEF VideoInv, Video!TypeOK
      <4> QED
        BY <1>2, <2>2, <4>1 DEF VideoInv, Counted
    <3> QED
      BY <3>1, <3>2
  <2>5. Promising(r)'
    BY <1>2, <2>1, TotalBound DEF VideoInv, Video!TypeOK, Promising
  <2>6. Finished'
    BY <1>2, <2>2, <2>5 DEF VideoInv, Finished
  <2> QED
    BY <2>3, <2>4, <2>6 DEF VideoInv
<1>3. ASSUME NEW r \in Runs, Video!SkipFailing(r) PROVE VideoInv'
  BY <1>2, <1>3 DEF Video!SkipFailing, VideoInv, Counted
<1>4. ASSUME NEW r \in Runs, Video!Exists(r), task_[r] \in store PROVE VideoInv'
  BY <1>2, <1>4 DEF Video!Exists, VideoInv, Counted
<1>5. ASSUME NEW r \in Runs, Video!Exists(r), task_[r] \notin store PROVE VideoInv'
  <2>1. /\ runAt' = [runAt EXCEPT ![r] = "put"] /\ task_' = [task_ EXCEPT ![r] = task_[r]] /\ runAt[r] = "exists"
        /\ UNCHANGED <<state, store, manifests, failing, done, cut>>
    BY <1>5 DEF Video!Exists, Video!Goto
  <2>2. \A q \in Runs : Promising(q)' <=> Promising(q)
    BY <2>1 DEF VideoInv, Video!TypeOK, Promising
  <2> QED
    BY <2>1, <2>2 DEF VideoInv, Video!TypeOK, Counted, Finished
<1>6. ASSUME NEW r \in Runs, Video!Put(r) PROVE VideoInv'
  BY <1>2, <1>6 DEF Video!Put, VideoInv, Counted
<1>7. ASSUME NEW r \in Runs, Video!CountDone(r) PROVE VideoInv'
  <2> DEFINE so == done[r] + (IF Video!Counts(r, task_[r]) THEN 1 ELSE 0)
  <2>1. /\ runAt[r] = "count" /\ task_[r] \in 1..Video!Total /\ Video!Total \in Nat
        /\ UNCHANGED <<state, store, manifests, cut>>
    BY <1>7, TotalBound DEF Video!CountDone, VideoInv, Counted
  <2>2. /\ done[r] \in Nat /\ so \in Nat /\ so <= task_[r]
        /\ so = task_[r] => done[r] = task_[r] - 1 /\ 1..task_[r] \subseteq store
        /\ done[r] = task_[r] - 1 /\ store = Video!Tasks => so = task_[r]
    BY <2>1, TotalBound DEF VideoInv, Video!TypeOK, Counted, Video!Counts
  <2>3. CASE task_[r] < Video!Total
    <3>1. /\ runAt' = [runAt EXCEPT ![r] = "count"] /\ task_' = [task_ EXCEPT ![r] = task_[r] + 1]
          /\ done' = [done EXCEPT ![r] = so] /\ failing' = failing
      BY <1>7, <2>1, <2>3 DEF Video!CountDone, Video!Goto
    <3> HIDE DEF so
    <3>2. Video!TypeOK'
      BY <2>1, <2>2, <2>3, <3>1, TotalBound DEF VideoInv, Video!TypeOK
    <3>3. Counted'
      BY <2>1, <2>2, <2>3, <3>1, TotalBound DEF VideoInv, Video!TypeOK, Counted
    <3>4. store = Video!Tasks => \A q \in Runs : Promising(q) => Promising(q)'
      BY <2>1, <2>2, <2>3, <3>1, TotalBound DEF VideoInv, Video!TypeOK, Promising
    <3>5. Finished'
      BY <2>1, <3>4 DEF VideoInv, Finished
    <3> QED
      BY <3>2, <3>3, <3>5 DEF VideoInv
  <2>4. CASE task_[r] = Video!Total /\ so = Video!Total
    <3>1. /\ runAt' = [runAt EXCEPT ![r] = "manifest"] /\ task_' = [task_ EXCEPT ![r] = 1]
          /\ done' = done /\ failing' = failing
      BY <1>7, <2>4 DEF Video!CountDone, Video!Goto
    <3>2. store = Video!Tasks
      BY <2>1, <2>2, <2>4, TotalBound DEF VideoInv, Video!TypeOK
    <3>3. Video!TypeOK'
      BY <2>1, <3>1, TotalBound DEF VideoInv, Video!TypeOK
    <3>4. Counted'
      BY <2>1, <3>1, <3>2, TotalBound DEF VideoInv, Video!TypeOK, Counted
    <3>5. Promising(r)'
      BY <3>1 DEF VideoInv, Video!TypeOK, Promising
    <3>6. Finished'
      BY <2>1, <3>5 DEF VideoInv, Finished
    <3> QED
      BY <3>3, <3>4, <3>6 DEF VideoInv
  <2>5. CASE task_[r] = Video!Total /\ so # Video!Total
    <3>1. Video!End(r)
      BY <1>7, <2>1, <2>5 DEF Video!CountDone
    <3>2. store = Video!Tasks => ~Promising(r)
      BY <2>1, <2>2, <2>5 DEF Promising
    <3> QED
      BY <2>1, <3>1, <3>2, EndKeeps DEF VideoInv, Video!TypeOK, Finished
  <2> QED
    BY <2>1, <2>3, <2>4, <2>5
<1>8. ASSUME NEW r \in Runs, Video!PutManifest(r) PROVE VideoInv'
  <2>1. /\ runAt[r] = "manifest" /\ store = Video!Tasks /\ task_[r] \in 1..Renditions /\ 1..(task_[r] - 1) \subseteq manifests
        /\ runAt' = [runAt EXCEPT ![r] = "manifest"] /\ task_' = [task_ EXCEPT ![r] = task_[r] + 1]
        /\ manifests' = manifests \cup {task_[r]}
        /\ UNCHANGED <<state, store, failing, done, cut>>
    BY <1>8, TotalBound DEF Video!PutManifest, Video!Goto, VideoInv, Counted
  <2>2. Video!TypeOK'
    BY <2>1, TotalBound DEF VideoInv, Video!TypeOK
  <2>3. Counted'
    BY <2>1, TotalBound DEF VideoInv, Video!TypeOK, Counted
  <2>4. \A q \in Runs : Promising(q) => Promising(q)'
    BY <2>1 DEF VideoInv, Video!TypeOK, Promising
  <2>5. Finished'
    BY <2>1, <2>4 DEF VideoInv, Finished
  <2> QED
    BY <2>2, <2>3, <2>5 DEF VideoInv
<1>9. ASSUME NEW r \in Runs, Video!SetLive(r) PROVE VideoInv'
  <2>1. Video!End(r) /\ UNCHANGED <<store, manifests, cut>> /\ state' = "live"
    BY <1>9 DEF Video!SetLive
  <2>2. task_[r] = Renditions + 1 /\ 1..(task_[r] - 1) \subseteq manifests
    BY <1>9, TotalBound DEF Video!SetLive, VideoInv, Counted
  <2>3. manifests = 1..Renditions
    <3>1. Renditions \in Nat /\ task_[r] - 1 = Renditions
      BY <2>2, TotalBound
    <3> QED
      BY <2>2, <3>1 DEF VideoInv, Video!TypeOK
  <2> QED
    BY <2>1, <2>3, EndKeeps DEF VideoInv, Video!TypeOK
<1>10. ASSUME NEW r \in Runs, Video!Die(r) PROVE VideoInv'
  BY <1>10, EndKeeps DEF Video!Die, VideoInv, Video!TypeOK, Finished
<1>11. CASE UNCHANGED Video!vars
  BY <1>11 DEF Video!vars, VideoInv, Video!TypeOK, Counted, Finished, Promising
<1> QED
  BY <1>1, <1>3, <1>4, <1>5, <1>6, <1>7, <1>8, <1>9, <1>10, <1>11 DEF Video!Next

\* A video is whole when it is live, and live when it is whole and nothing was cut off.
THEOREM VideoInvariance == Video!Spec => []VideoInv
<1>1. Video!Init => VideoInv
  <2> SUFFICES ASSUME Video!Init PROVE VideoInv
    OBVIOUS
  <2>1. Video!TypeOK
    BY Places DEF Video!Init, Video!TypeOK
  <2>2. Counted
    BY DEF Video!Init, Counted
  <2>3. Finished
    BY TotalBound DEF Video!Init, Finished
  <2> QED
    BY <2>1, <2>2, <2>3 DEF VideoInv
<1> QED
  BY <1>1, VideoStep, PTL DEF Video!Spec

\* A video is live when, and only when, it is whole (DagOrchestrator.run).
THEOREM VideoLive == Video!Spec => []Video!LiveWhenWhole
<1>1. VideoInv => Video!LiveWhenWhole
  BY DEF VideoInv, Finished, Video!LiveWhenWhole, Promising
<1> QED
  BY <1>1, VideoInvariance, PTL

-----------------------------------------------------------------------------
(* The news feed *)

\* Of the posts up to some number there is a newest.
LEMMA NewestOne ==
  ASSUME NEW K \in Nat, NEW S \in SUBSET (1..K), S # {}
  PROVE  \E x \in S : \A y \in S : y <= x
<1> DEFINE T == {K - y : y \in S}
<1>1. T \in SUBSET Nat /\ T # {}
  <2>1. PICK s \in S : TRUE
    OBVIOUS
  <2>2. K - s \in T
    OBVIOUS
  <2>3. \A y \in S : K - y \in Nat
    OBVIOUS
  <2> QED
    BY <2>2, <2>3
<1>2. PICK t \in T : \A u \in T : t <= u
  BY <1>1, LeastNumber
<1>3. PICK x \in S : t = K - x
  BY <1>2
<1>4. \A y \in S : t <= K - y
  BY <1>2
<1> QED
  BY <1>3, <1>4

Above(S, p) == {q \in S : q > p}

LEMMA AboveNumbers ==
  ASSUME NEW K \in Nat, NEW S \in SUBSET (1..K)
  PROVE  /\ IsFiniteSet(S) /\ Cardinality(S) \in Nat
         /\ \A p : IsFiniteSet(Above(S, p)) /\ Cardinality(Above(S, p)) \in Nat
                   /\ Cardinality(Above(S, p)) <= Cardinality(S)
<1>1. IsFiniteSet(1..K)
  BY FS_Interval
<1>2. IsFiniteSet(S) /\ Cardinality(S) \in Nat
  BY <1>1, FS_Subset, FS_CardinalityType
<1>3. ASSUME NEW p PROVE IsFiniteSet(Above(S, p)) /\ Cardinality(Above(S, p)) \in Nat /\ Cardinality(Above(S, p)) <= Cardinality(S)
  <2>1. Above(S, p) \subseteq S
    BY DEF Above
  <2> QED
    BY <1>2, <2>1, FS_Subset, FS_CardinalityType
<1> QED
  BY <1>2, <1>3

LEMMA AboveGrows ==
  ASSUME NEW K \in Nat, NEW S \in SUBSET (1..K), NEW R \in SUBSET S, NEW p
  PROVE  Cardinality(Above(R, p)) <= Cardinality(Above(S, p))
<1>1. Above(R, p) \subseteq Above(S, p) /\ IsFiniteSet(Above(S, p))
  BY AboveNumbers DEF Above
<1> QED
  BY <1>1, FS_Subset

LEMMA NewestIsAbove == \A S, n : Feed!Newest(S, n) = {q \in S : Cardinality(Above(S, q)) < n}
BY SameFiniteSets DEF Feed!Newest, Above

\* The n newest are at most n, and above a post that has k others above it, k of them at most n,
\* there are k of the newest.
LEMMA NewestKeeps ==
  ASSUME NEW K \in Nat, NEW S \in SUBSET (1..K), NEW n \in Nat
  PROVE  /\ Feed!Newest(S, n) \in SUBSET S
         /\ Cardinality(Feed!Newest(S, n)) <= n
         /\ \A p \in S \ Feed!Newest(S, n) : Cardinality(Above(S, p)) >= n
         /\ \A p \in Nat : \A k \in 0..n : Cardinality(Above(S, p)) >= k => Cardinality(Above(Feed!Newest(S, n), p)) >= k
<1>1. PICK m : m = Feed!Newest(S, n)
  OBVIOUS
<1>2. m = {q \in S : Cardinality(Above(S, q)) < n}
  BY <1>1, NewestIsAbove
<1>3. m \in SUBSET S /\ m \in SUBSET (1..K)
  BY <1>2
<1>4. Cardinality(m) <= n
  <2>1. CASE m = {}
    BY <2>1, FS_EmptySet
  <2>2. CASE m # {}
    <3>1. PICK l \in m : \A y \in m : l <= y
      BY <1>3, <2>2, LeastNumber
    <3>2. m \subseteq Above(S, l) \cup {l}
      BY <1>3, <3>1 DEF Above
    <3>3. IsFiniteSet(Above(S, l)) /\ Cardinality(Above(S, l)) \in Nat /\ Cardinality(Above(S, l)) < n /\ l \notin Above(S, l)
      <4>1. l \notin Above(S, l)
        BY <1>3, <3>1 DEF Above
      <4>2. IsFiniteSet(Above(S, l)) /\ Cardinality(Above(S, l)) \in Nat
        BY AboveNumbers
      <4> QED
        BY <1>2, <3>1, <4>1, <4>2
    <3>4. IsFiniteSet(Above(S, l) \cup {l}) /\ Cardinality(Above(S, l) \cup {l}) = Cardinality(Above(S, l)) + 1
      BY <3>3, FS_AddElement
    <3>5. Cardinality(m) <= Cardinality(Above(S, l) \cup {l}) /\ Cardinality(m) \in Nat
      BY <1>3, <3>2, <3>4, FS_Subset, AboveNumbers
    <3> QED
      BY <3>3, <3>4, <3>5
  <2> QED
    BY <2>1, <2>2
<1>5. \A p \in S : Cardinality(Above(S, p)) \in Nat
  BY AboveNumbers
<1>6. \A p \in S \ m : Cardinality(Above(S, p)) >= n
  BY <1>2, <1>5
<1>7. ASSUME NEW p \in Nat, NEW k \in 0..n, Cardinality(Above(S, p)) >= k
      PROVE  Cardinality(Above(m, p)) >= k
  <2>1. CASE Above(S, p) \subseteq m
    <3>1. Above(m, p) = Above(S, p)
      BY <1>3, <2>1 DEF Above
    <3> QED
      BY <1>7, <3>1
  <2>2. CASE ~(Above(S, p) \subseteq m)
    <3>1. PICK x \in Above(S, p) \ m : \A y \in Above(S, p) \ m : y <= x
      <4>1. Above(S, p) \ m \in SUBSET (1..K) /\ Above(S, p) \ m # {}
        BY <2>2 DEF Above
      <4> HIDE DEF Above
      <4> QED
        BY <4>1, NewestOne
    <3>2. x \in S /\ x > p /\ x \notin m
      BY <3>1 DEF Above
    <3>3. Above(S, x) \subseteq Above(m, p)
      <4>1. \A y \in S : y > x => y > p /\ y \in m
        BY <3>1, <3>2 DEF Above
      <4> QED
        BY <4>1 DEF Above
    <3>4. IsFiniteSet(Above(m, p)) /\ Cardinality(Above(m, p)) \in Nat
      BY <1>3, AboveNumbers
    <3>5. Cardinality(Above(S, x)) <= Cardinality(Above(m, p)) /\ Cardinality(Above(S, x)) >= n /\ Cardinality(Above(S, x)) \in Nat
      BY <1>5, <1>6, <3>2, <3>3, <3>4, FS_Subset
    <3> QED
      BY <3>4, <3>5
  <2> QED
    BY <2>1, <2>2
<1> QED
  BY <1>1, <1>3, <1>4, <1>6, <1>7

\* Follows are never taken back.
LEMMA FollowersGrow ==
  ASSUME NEW a, follows \subseteq follows'
  PROVE  /\ Feed!Followers(a) \subseteq Feed!Followers(a)'
         /\ Feed!IsCelebrity(a) => Feed!IsCelebrity(a)'
<1>1. Feed!Followers(a) \subseteq Feed!Followers(a)' /\ Feed!Followers(a)' \subseteq Readers
  BY DEF Feed!Followers
<1>2. IsFiniteSet(Feed!Followers(a)') /\ Cardinality(Feed!Followers(a)') \in Nat
  BY <1>1, StudiesAssumption, SameFiniteSets, FS_Subset, FS_CardinalityType DEF Feed!WellFormed
<1>3. Cardinality(Feed!Followers(a)) <= Cardinality(Feed!Followers(a)') /\ Cardinality(Feed!Followers(a)) \in Nat
  BY <1>1, <1>2, FS_Subset, FS_CardinalityType
<1>4. CelebThreshold \in Nat
  BY StudiesAssumption DEF Feed!WellFormed
<1>5. ASSUME Feed!IsCelebrity(a) PROVE Feed!IsCelebrity(a)'
  <2>1. Cardinality(Feed!Followers(a)) >= CelebThreshold
    BY <1>5, SameFiniteSets DEF Feed!IsCelebrity
  <2>2. Cardinality(Feed!Followers(a)') >= CelebThreshold
    BY <1>2, <1>3, <1>4, <2>1
  <2> QED
    BY <2>2, SameFiniteSets DEF Feed!IsCelebrity
<1> QED
  BY <1>1, <1>5

LEMMA SeqOfMore == ASSUME NEW S, NEW T, S \subseteq T, NEW s \in Seq(S) PROVE s \in Seq(T)
OBVIOUS

\* Whoever is on record as a follower follows.
Following ==
  /\ \A u \in Readers : \A p \in Feed!Posts : <<u, p>> \in owed => <<u, authors[p]>> \in follows
  /\ \A u \in Readers : \A p \in timeline[u] : <<u, authors[p]>> \in follows
  /\ work = "add" => \A u \in targets : <<u, authors[Head(batch)]>> \in follows

\* The worker leaves a post to the readers, or puts it on the timeline, where only newer
\* ones push it out.
Served(u, p) == \/ Feed!IsCelebrity(authors[p])
                \/ p \in timeline[u]
                \/ Cardinality(Above(timeline[u], p)) >= Cap

FannedOut ==
  /\ \A u \in Readers : \A p \in Feed!Handled : <<u, p>> \in owed => Served(u, p)
  /\ work = "ack" => \A p \in Feed!Posts : p = Head(batch) => \A u \in Readers : <<u, p>> \in owed => Served(u, p)
  /\ work = "add" => \A p \in Feed!Posts : p = Head(batch) => \A u \in Readers : <<u, p>> \in owed => u \in targets

\* So it is for a read that has the timeline already.
Reading ==
  read # Feed!NoRead =>
    /\ read.by \in Readers
    /\ \A p \in read.ids : <<read.by, authors[p]>> \in follows
    /\ \A p \in read.due :
         /\ <<read.by, authors[p]>> \in follows
         /\ \/ Feed!IsCelebrity(authors[p])
            \/ p \in read.ids
            \/ Cardinality(Above(read.ids, p)) >= Feed!Enough

FeedInv == Feed!TypeOK /\ Following /\ FannedOut /\ Reading

LEMMA FeedInitInv == Feed!Init => FeedInv
<1> SUFFICES ASSUME Feed!Init PROVE FeedInv
  OBVIOUS
<1>1. Feed!TypeOK
  BY StudiesAssumption DEF Feed!Init, Feed!TypeOK, Feed!WellFormed, Feed!NoRead, Feed!Posts
<1>2. Following /\ FannedOut /\ Reading
  BY DEF Feed!Init, Following, FannedOut, Feed!Handled, Feed!Posts, Reading
<1> QED
  BY <1>1, <1>2 DEF FeedInv

\* A step that gives the worker no post and takes none from it, with tables that only grow.
LEMMA SameServed ==
  ASSUME FeedInv, NEW u \in Readers, NEW p \in Feed!Posts, Served(u, p),
         timeline' = timeline, authors'[p] = authors[p], follows \subseteq follows'
  PROVE  Served(u, p)'
<1>1. Feed!IsCelebrity(authors[p]) => Feed!IsCelebrity(authors[p])'
  <2>1. PICK a : a = authors[p]
    OBVIOUS
  <2>2. Feed!IsCelebrity(a) => Feed!IsCelebrity(a)'
    BY FollowersGrow
  <2>3. a' = a /\ Feed!IsCelebrity(authors[p])' = Feed!IsCelebrity(a)'
    BY <2>1 DEF Feed!IsCelebrity, Feed!Followers
  <2> QED
    BY <2>1, <2>2, <2>3
<1> QED
  BY <1>1 DEF Served, Above

\* What a read has stays good.
LEMMA SameReading ==
  ASSUME FeedInv, read' = read, \A p \in Feed!Posts : authors'[p] = authors[p], follows \subseteq follows'
  PROVE  Reading'
<1>1. CASE read = Feed!NoRead
  BY <1>1 DEF Reading, Feed!NoRead
<1>2. CASE read # Feed!NoRead
  <2>1. read.by \in Readers /\ read.ids \subseteq Feed!Posts /\ read.due \subseteq Feed!Posts
    BY <1>2 DEF FeedInv, Feed!TypeOK, Reading
  <2>2. \A p \in read.ids : <<read.by, authors'[p]>> \in follows'
    BY <1>2, <2>1 DEF FeedInv, Reading
  <2>3. ASSUME NEW p \in read.due
        PROVE  /\ <<read.by, authors'[p]>> \in follows'
               /\ \/ Feed!IsCelebrity(authors[p])'
                  \/ p \in read.ids
                  \/ Cardinality(Above(read.ids, p)) >= Feed!Enough
    <3>1. PICK a : a = authors[p]
      OBVIOUS
    <3>2. authors'[p] = authors[p] /\ <<read.by, authors[p]>> \in follows
      BY <1>2, <2>1 DEF FeedInv, Reading
    <3>3. Feed!IsCelebrity(a) => Feed!IsCelebrity(a)'
      BY FollowersGrow
    <3>4. Feed!IsCelebrity(authors[p])' <=> Feed!IsCelebrity(a)'
      BY <3>1, <3>2 DEF Feed!IsCelebrity, Feed!Followers
    <3>5. Feed!IsCelebrity(a) \/ p \in read.ids \/ Cardinality(Above(read.ids, p)) >= Feed!Enough
      BY <1>2, <3>1 DEF FeedInv, Reading
    <3> QED
      BY <3>2, <3>3, <3>4, <3>5
  <2>4. ASSUME NEW p \in read'.due
        PROVE  /\ <<read'.by, authors'[p]>> \in follows'
               /\ \/ Feed!IsCelebrity(authors[p])'
                  \/ p \in read'.ids
                  \/ Cardinality(Above(read.ids, p)') >= Feed!Enough'
    BY <2>3 DEF Above, Feed!Enough
  <2>5. read'.by \in Readers /\ \A p \in read'.ids : <<read'.by, authors'[p]>> \in follows'
    BY <2>1, <2>2
  <2> QED
    BY <2>4, <2>5 DEF Reading
<1> QED
  BY <1>1, <1>2

LEMMA AddPostInv == ASSUME FeedInv, NEW a \in Authors, Feed!AddPost(a) PROVE FeedInv'
<1> USE DEF FeedInv
<1>0. PICK n : n = Len(authors) + 1
  OBVIOUS
<1>1. /\ n \in Nat /\ Feed!Posts = 1..(n - 1) /\ n <= MaxPosts /\ n \notin Feed!Posts
      /\ authors' = Append(authors, a) /\ Feed!Posts' = 1..n /\ Feed!Posts' = Feed!Posts \cup {n} /\ Len(authors') = n
      /\ authors'[n] = a /\ \A p \in Feed!Posts : authors'[p] = authors[p]
  BY <1>0, StudiesAssumption DEF Feed!AddPost, Feed!TypeOK, Feed!Posts, Feed!WellFormed
<1>2. /\ publishing' = publishing \cup {n} /\ owed' = owed \cup (Feed!Followers(a) \X {n})
      /\ follows' = follows /\ stream' = stream /\ timeline' = timeline /\ batch' = batch /\ work' = work
      /\ targets' = targets /\ read' = read /\ forgotten' = forgotten /\ crashes' = crashes
  BY <1>0 DEF Feed!AddPost, Feed!worker
<1>3. Feed!TypeOK'
  <2>1. authors' \in Seq(Authors) /\ Len(authors') <= MaxPosts
    BY <1>1 DEF Feed!TypeOK
  <2>2. stream' \in Seq(Feed!Posts') /\ batch' \in Seq(Feed!Posts')
    BY <1>1, <1>2, SeqOfMore DEF Feed!TypeOK
  <2>3. publishing' \subseteq Feed!Posts' /\ forgotten' \subseteq Feed!Posts' /\ owed' \subseteq Readers \X Feed!Posts'
    BY <1>1, <1>2 DEF Feed!TypeOK, Feed!Followers
  <2>4. timeline' \in [Readers -> SUBSET Feed!Posts'] /\ read'.ids \subseteq Feed!Posts' /\ read'.due \subseteq Feed!Posts'
    BY <1>1, <1>2 DEF Feed!TypeOK
  <2> QED
    BY <1>2, <2>1, <2>2, <2>3, <2>4 DEF Feed!TypeOK
<1>4. batch # << >> => Head(batch) \in Feed!Posts
  BY DEF Feed!TypeOK
<1>5. Following'
  <2>1. ASSUME NEW u \in Readers, NEW p \in Feed!Posts', <<u, p>> \in owed' PROVE <<u, authors'[p]>> \in follows'
    <3>1. CASE p = n
      BY <1>1, <1>2, <2>1, <3>1 DEF Feed!TypeOK, Feed!Followers
    <3>2. CASE p # n
      BY <1>1, <1>2, <2>1, <3>2 DEF Following
    <3> QED
      BY <3>1, <3>2
  <2>2. \A u \in Readers : \A p \in timeline[u] : p \in Feed!Posts
    BY DEF Feed!TypeOK
  <2> QED
    BY <1>1, <1>2, <1>4, <2>1, <2>2 DEF Following, Feed!TypeOK
<1>6. FannedOut'
  <2>1. Feed!Handled' \subseteq Feed!Handled /\ Feed!Handled \subseteq Feed!Posts
    BY <1>1, <1>2 DEF Feed!Handled
  <2>2. \A u : \A p \in Feed!Posts : <<u, p>> \in owed' => <<u, p>> \in owed
    BY <1>1, <1>2
  <2>3. \A u \in Readers : \A p \in Feed!Posts : Served(u, p) => Served(u, p)'
    BY <1>1, <1>2, SameServed
  <2>4. \A u \in Readers : \A p \in Feed!Handled' : <<u, p>> \in owed' => Served(u, p)'
    BY <2>1, <2>2, <2>3 DEF FannedOut
  <2>5. work # "poll" => Head(batch) \in Feed!Posts
    BY <1>4 DEF Feed!TypeOK
  <2>6. work' = "ack" => \A p \in Feed!Posts' : p = Head(batch') => \A u \in Readers : <<u, p>> \in owed' => Served(u, p)'
    BY <1>2, <2>2, <2>3, <2>5 DEF FannedOut
  <2>7. work' = "add" => \A p \in Feed!Posts' : p = Head(batch') => \A u \in Readers : <<u, p>> \in owed' => u \in targets'
    BY <1>2, <2>2, <2>5 DEF FannedOut
  <2> QED
    BY <2>4, <2>6, <2>7 DEF FannedOut
<1>7. Reading'
  BY <1>1, <1>2, SameReading
<1> QED
  BY <1>3, <1>5, <1>6, <1>7

LEMMA AddFollowInv == ASSUME FeedInv, NEW v \in Readers, NEW a \in Authors, Feed!AddFollow(v, a) PROVE FeedInv'
<1> USE DEF FeedInv
<1>1. /\ follows \subseteq follows' /\ follows' = follows \cup {<<v, a>>} /\ authors' = authors
      /\ UNCHANGED <<stream, timeline, publishing, batch, work, targets, read, owed, forgotten, crashes>>
  BY DEF Feed!AddFollow, Feed!worker
<1>2. Feed!Posts' = Feed!Posts /\ Feed!Handled' = Feed!Handled /\ Feed!Handled \subseteq Feed!Posts
  BY <1>1 DEF Feed!Posts, Feed!Handled
<1>3. Feed!TypeOK'
  BY <1>1, <1>2 DEF Feed!TypeOK
<1>4. Following'
  BY <1>1, <1>2 DEF Following
<1>5. FannedOut'
  <2>1. \A u \in Readers : \A p \in Feed!Posts : Served(u, p) => Served(u, p)'
    BY <1>1, SameServed
  <2> QED
    BY <1>1, <1>2, <2>1 DEF FannedOut
<1>6. Reading'
  BY <1>1, SameReading
<1> QED
  BY <1>3, <1>4, <1>5, <1>6

\* A post on its way to the worker, or lost.
LEMMA SameTables ==
  ASSUME FeedInv, UNCHANGED <<authors, follows, timeline, owed>>
  PROVE  /\ Feed!Posts' = Feed!Posts
         /\ \A u \in Readers : \A p \in Feed!Posts : Served(u, p)' <=> Served(u, p)
         /\ read' = read => Reading'
<1>1. Feed!Posts' = Feed!Posts
  BY DEF Feed!Posts
<1>2. \A u \in Readers : \A p \in Feed!Posts : Served(u, p)' <=> Served(u, p)
  BY DEF Served, Above, Feed!IsCelebrity, Feed!Followers
<1>3. read' = read => Reading'
  BY SameReading
<1> QED
  BY <1>1, <1>2, <1>3

LEMMA PublishInv == ASSUME FeedInv, NEW p \in Feed!Ids, Feed!Publish(p) PROVE FeedInv'
<1> USE DEF FeedInv
<1>1. /\ p \in publishing /\ stream' = Append(stream, p) /\ publishing' = publishing \ {p}
      /\ UNCHANGED <<authors, follows, timeline, batch, work, targets, read, owed, forgotten, crashes>>
  BY DEF Feed!Publish, Feed!worker, Feed!tables
<1>2. /\ Feed!Posts' = Feed!Posts /\ Reading'
      /\ \A u \in Readers : \A q \in Feed!Posts : Served(u, q)' <=> Served(u, q)
  BY <1>1, SameTables
<1>3. p \in Feed!Posts /\ stream' \in Seq(Feed!Posts) /\ p \in Feed!Range(stream') /\ Feed!Range(stream) \subseteq Feed!Range(stream')
  <2>1. p \in Feed!Posts /\ stream \in Seq(Feed!Posts)
    BY <1>1 DEF Feed!TypeOK
  <2>2. /\ stream' \in Seq(Feed!Posts) /\ DOMAIN stream' = 1..(Len(stream) + 1) /\ DOMAIN stream = 1..Len(stream)
        /\ stream'[Len(stream) + 1] = p /\ \A i \in DOMAIN stream : stream'[i] = stream[i]
    BY <1>1, <2>1
  <2>3. p \in Feed!Range(stream')
    <3>1. Len(stream) + 1 \in DOMAIN stream'
      BY <2>1, <2>2
    <3> QED
      BY <2>2, <3>1 DEF Feed!Range
  <2>4. Feed!Range(stream) \subseteq Feed!Range(stream')
    <3>1. DOMAIN stream \subseteq DOMAIN stream'
      BY <2>1, <2>2
    <3> QED
      BY <2>2, <3>1 DEF Feed!Range
  <2> QED
    BY <2>1, <2>2, <2>3, <2>4
<1>4. Feed!TypeOK'
  BY <1>1, <1>2, <1>3 DEF Feed!TypeOK
<1>5. Following'
  BY <1>1, <1>2 DEF Following
<1>6. FannedOut'
  <2>1. Feed!Handled' \subseteq Feed!Handled /\ Feed!Handled \subseteq Feed!Posts
    BY <1>1, <1>2, <1>3 DEF Feed!Handled
  <2> QED
    BY <1>1, <1>2, <2>1 DEF FannedOut
<1> QED
  BY <1>2, <1>4, <1>5, <1>6

LEMMA ApiDiesInv == ASSUME FeedInv, NEW p \in Feed!Ids, Feed!ApiDies(p) PROVE FeedInv'
<1> USE DEF FeedInv
<1>1. /\ p \in publishing /\ publishing' = publishing \ {p} /\ forgotten' = forgotten \cup {p}
      /\ crashes < MaxCrashes /\ crashes' = crashes + 1
      /\ UNCHANGED <<authors, follows, timeline, stream, batch, work, targets, read, owed>>
  BY DEF Feed!ApiDies, Feed!worker, Feed!tables
<1>2. /\ Feed!Posts' = Feed!Posts /\ Reading'
      /\ \A u \in Readers : \A q \in Feed!Posts : Served(u, q)' <=> Served(u, q)
  BY <1>1, SameTables
<1>3. Feed!TypeOK'
  BY <1>1, <1>2, StudiesAssumption DEF Feed!TypeOK, Feed!WellFormed
<1>4. Following'
  BY <1>1, <1>2 DEF Following
<1>5. FannedOut'
  <2>1. Feed!Handled' = Feed!Handled /\ Feed!Handled \subseteq Feed!Posts
    BY <1>1, <1>2 DEF Feed!Handled
  <2> QED
    BY <1>1, <1>2, <2>1 DEF FannedOut
<1> QED
  BY <1>2, <1>3, <1>4, <1>5

\* A poll parts the stream in two.
LEMMA Parted ==
  ASSUME NEW S, NEW seq \in Seq(S), NEW n \in 1..Len(seq)
  PROVE  /\ SubSeq(seq, 1, n) \in Seq(S) /\ SubSeq(seq, 1, n) # << >> /\ SubSeq(seq, n + 1, Len(seq)) \in Seq(S)
         /\ Feed!Range(SubSeq(seq, 1, n)) \cup Feed!Range(SubSeq(seq, n + 1, Len(seq))) = Feed!Range(seq)
<1>1. Len(seq) \in Nat /\ n \in Nat /\ n >= 1 /\ n <= Len(seq) /\ \A i \in 1..Len(seq) : seq[i] \in S
  OBVIOUS
<1>2. PICK front : front = SubSeq(seq, 1, n)
  OBVIOUS
<1>3. PICK back : back = SubSeq(seq, n + 1, Len(seq))
  OBVIOUS
<1>4. front \in Seq(S) /\ Len(front) = n /\ \A i \in 1..n : front[i] = seq[i]
  <2>1. \A i \in 1..n : seq[i] \in S
    BY <1>1
  <2> QED
    BY <1>1, <1>2, <2>1
<1>5. back \in Seq(S) /\ Len(back) = Len(seq) - n /\ \A i \in 1..(Len(seq) - n) : back[i] = seq[i + n]
  <2>1. \A i \in (n + 1)..Len(seq) : seq[i] \in S
    BY <1>1
  <2> QED
    BY <1>1, <1>3, <2>1
<1>6. front # << >>
  BY <1>1, <1>4
<1>7. DOMAIN front = 1..n /\ DOMAIN back = 1..(Len(seq) - n) /\ DOMAIN seq = 1..Len(seq)
  BY <1>1, <1>4, <1>5
<1>8. Feed!Range(front) \cup Feed!Range(back) \subseteq Feed!Range(seq)
  <2>1. ASSUME NEW i \in 1..n PROVE front[i] \in Feed!Range(seq)
    BY <1>1, <1>4, <1>7 DEF Feed!Range
  <2>2. ASSUME NEW i \in 1..(Len(seq) - n) PROVE back[i] \in Feed!Range(seq)
    BY <1>1, <1>5, <1>7 DEF Feed!Range
  <2> QED
    BY <1>7, <2>1, <2>2 DEF Feed!Range
<1>9. Feed!Range(seq) \subseteq Feed!Range(front) \cup Feed!Range(back)
  <2>1. ASSUME NEW i \in 1..Len(seq) PROVE seq[i] \in Feed!Range(front) \cup Feed!Range(back)
    <3>1. CASE i <= n
      BY <1>1, <1>4, <1>7, <3>1 DEF Feed!Range
    <3>2. CASE i > n
      <4>1. i - n \in 1..(Len(seq) - n) /\ (i - n) + n = i
        BY <1>1, <3>2
      <4> QED
        BY <1>5, <1>7, <4>1 DEF Feed!Range
    <3> QED
      BY <1>1, <3>1, <3>2
  <2> QED
    BY <1>7, <2>1 DEF Feed!Range
<1> QED
  BY <1>2, <1>3, <1>4, <1>5, <1>6, <1>8, <1>9

LEMMA PollInv == ASSUME FeedInv, Feed!Poll PROVE FeedInv'
<1> USE DEF FeedInv
<1>0. PollCount \in Nat /\ PollCount >= 1 /\ stream \in Seq(Feed!Posts) /\ Len(stream) \in Nat
  BY StudiesAssumption DEF Feed!WellFormed, Feed!TypeOK
<1>1. /\ work = "poll" /\ stream # << >> /\ work' = "count"
      /\ UNCHANGED <<authors, follows, timeline, publishing, targets, read, owed, forgotten, crashes>>
  BY DEF Feed!Poll, Feed!Rest, Feed!tables
<1>6. PICK n \in 1..Len(stream) : batch' = SubSeq(stream, 1, n) /\ stream' = SubSeq(stream, n + 1, Len(stream))
  <2>1. PICK n : n = IF Len(stream) <= PollCount THEN Len(stream) ELSE PollCount
    OBVIOUS
  <2>2. Len(stream) # 0
    BY <1>0, <1>1
  <2>3. n \in 1..Len(stream)
    BY <1>0, <2>1, <2>2
  <2> QED
    BY <2>1, <2>3 DEF Feed!Poll
<1>7. /\ batch' \in Seq(Feed!Posts) /\ stream' \in Seq(Feed!Posts) /\ batch' # << >>
      /\ Feed!Range(batch') \cup Feed!Range(stream') = Feed!Range(stream)
  BY <1>0, <1>6, Parted
<1>2. /\ Feed!Posts' = Feed!Posts /\ Reading'
      /\ \A u \in Readers : \A q \in Feed!Posts : Served(u, q)' <=> Served(u, q)
  BY <1>1, SameTables
<1>3. Feed!TypeOK'
  BY <1>1, <1>2, <1>7 DEF Feed!TypeOK
<1>4. Following'
  BY <1>1, <1>2 DEF Following
<1>5. FannedOut'
  <2>1. batch = << >> /\ Feed!Range(batch) = {}
    BY <1>1 DEF Feed!TypeOK, Feed!Range
  <2>2. Feed!Handled' = Feed!Handled /\ Feed!Handled \subseteq Feed!Posts
    <3>1. Feed!Range(batch)' = Feed!Range(batch') /\ Feed!Range(stream)' = Feed!Range(stream')
      BY DEF Feed!Range
    <3> QED
      BY <1>1, <1>2, <1>7, <2>1, <3>1 DEF Feed!Handled
  <2> QED
    BY <1>1, <1>2, <2>2 DEF FannedOut
<1> QED
  BY <1>2, <1>3, <1>4, <1>5

LEMMA CountInv == ASSUME FeedInv, Feed!Count PROVE FeedInv'
<1> USE DEF FeedInv
<1>1. /\ work = "count" /\ work' = (IF Feed!IsCelebrity(authors[Head(batch)]) THEN "ack" ELSE "followers")
      /\ UNCHANGED <<authors, follows, timeline, publishing, targets, read, owed, forgotten, crashes, stream, batch>>
  BY DEF Feed!Count, Feed!Rest, Feed!tables, Feed!IsCelebrity
<1>2. /\ Feed!Posts' = Feed!Posts /\ Reading'
      /\ \A u \in Readers : \A q \in Feed!Posts : Served(u, q)' <=> Served(u, q)
  BY <1>1, SameTables
<1>3. Feed!TypeOK'
  BY <1>1, <1>2 DEF Feed!TypeOK
<1>4. Following'
  BY <1>1, <1>2 DEF Following
<1>5. FannedOut'
  <2>1. Feed!Handled' = Feed!Handled /\ Feed!Handled \subseteq Feed!Posts
    BY <1>1, <1>2 DEF Feed!Handled
  <2>2. work' # "add" /\ (work' = "ack" => \A p \in Feed!Posts : p = Head(batch) => \A u : Served(u, p))
    BY <1>1 DEF Served
  <2> QED
    BY <1>1, <1>2, <2>1, <2>2 DEF FannedOut
<1> QED
  BY <1>2, <1>3, <1>4, <1>5

LEMMA ReadFollowersInv == ASSUME FeedInv, Feed!ReadFollowers PROVE FeedInv'
<1> USE DEF FeedInv
<1>1. /\ work = "followers" /\ targets' = Feed!Followers(authors[Head(batch)])
      /\ work' = IF targets' = {} THEN "ack" ELSE "add"
      /\ UNCHANGED <<authors, follows, timeline, publishing, read, owed, forgotten, crashes, stream, batch>>
  BY DEF Feed!ReadFollowers, Feed!Rest, Feed!tables
<1>2. /\ Feed!Posts' = Feed!Posts /\ Reading'
      /\ \A u \in Readers : \A q \in Feed!Posts : Served(u, q)' <=> Served(u, q)
  BY <1>1, SameTables
<1>3. Feed!TypeOK'
  BY <1>1, <1>2 DEF Feed!TypeOK, Feed!Followers
<1>4. Following'
  BY <1>1, <1>2 DEF Following, Feed!Followers
<1>5. FannedOut'
  <2>1. Feed!Handled' = Feed!Handled /\ Feed!Handled \subseteq Feed!Posts
    BY <1>1, <1>2 DEF Feed!Handled
  <2>2. \A p \in Feed!Posts : p = Head(batch) => \A u \in Readers : <<u, p>> \in owed => u \in targets'
    BY <1>1 DEF Following, Feed!Followers
  <2>3. work' = "ack" => targets' = {}
    BY <1>1
  <2> QED
    BY <1>1, <1>2, <2>1, <2>2, <2>3 DEF FannedOut
<1> QED
  BY <1>2, <1>3, <1>4, <1>5

LEMMA AckInv == ASSUME FeedInv, Feed!Ack PROVE FeedInv'
<1> USE DEF FeedInv
<1>1. /\ work = "ack" /\ batch' = Tail(batch) /\ targets' = {}
      /\ work' = IF batch' = << >> THEN "poll" ELSE "count"
      /\ UNCHANGED <<authors, follows, timeline, publishing, read, owed, forgotten, crashes, stream>>
  BY DEF Feed!Ack, Feed!Rest, Feed!tables
<1>2. /\ Feed!Posts' = Feed!Posts /\ Reading'
      /\ \A u \in Readers : \A q \in Feed!Posts : Served(u, q)' <=> Served(u, q)
  BY <1>1, SameTables
<1>3. /\ batch \in Seq(Feed!Posts) /\ batch # << >> /\ batch' \in Seq(Feed!Posts) /\ Head(batch) \in Feed!Posts
      /\ Feed!Range(batch) \subseteq {Head(batch)} \cup Feed!Range(batch')
  <2>1. batch \in Seq(Feed!Posts) /\ batch # << >>
    BY <1>1 DEF Feed!TypeOK
  <2>2. batch' \in Seq(Feed!Posts) /\ Len(batch') = Len(batch) - 1 /\ \A i \in 1..(Len(batch) - 1) : batch'[i] = batch[i + 1]
    BY <1>1, <2>1
  <2>3. ASSUME NEW i \in DOMAIN batch PROVE batch[i] \in {Head(batch)} \cup Feed!Range(batch')
    <3>1. CASE i = 1
      BY <2>1, <3>1
    <3>2. CASE i # 1
      <4>1. i - 1 \in DOMAIN batch' /\ batch'[i - 1] = batch[i]
        BY <2>1, <2>2, <3>2
      <4> QED
        BY <4>1 DEF Feed!Range
    <3> QED
      BY <3>1, <3>2
  <2> QED
    BY <2>1, <2>2, <2>3 DEF Feed!Range
<1>4. Feed!TypeOK'
  BY <1>1, <1>2, <1>3 DEF Feed!TypeOK
<1>5. Following'
  BY <1>1, <1>2 DEF Following
<1>6. FannedOut'
  <2>1. \A p \in Feed!Handled' : p \in Feed!Posts /\ (p \in Feed!Handled \/ p = Head(batch))
    BY <1>1, <1>2, <1>3 DEF Feed!Handled
  <2>2. \A u \in Readers : \A p \in Feed!Handled' : <<u, p>> \in owed => Served(u, p)
    BY <1>1, <1>3, <2>1 DEF FannedOut
  <2>3. work' # "ack" /\ work' # "add"
    BY <1>1
  <2> QED
    BY <1>1, <1>2, <2>1, <2>2, <2>3 DEF FannedOut
<1> QED
  BY <1>2, <1>4, <1>5, <1>6

LEMMA WorkerDiesInv == ASSUME FeedInv, Feed!WorkerDies PROVE FeedInv'
<1> USE DEF FeedInv
<1>1. /\ crashes < MaxCrashes /\ crashes' = crashes + 1 /\ forgotten' = forgotten \cup Feed!Range(batch)
      /\ batch' = << >> /\ work' = "poll" /\ targets' = {}
      /\ UNCHANGED <<authors, follows, timeline, publishing, read, owed, stream>>
  BY DEF Feed!WorkerDies, Feed!tables
<1>2. /\ Feed!Posts' = Feed!Posts /\ Reading'
      /\ \A u \in Readers : \A q \in Feed!Posts : Served(u, q)' <=> Served(u, q)
  BY <1>1, SameTables
<1>3. Feed!Range(batch) \subseteq Feed!Posts /\ Feed!Range(batch') = {}
  BY <1>1 DEF Feed!TypeOK, Feed!Range
<1>4. Feed!TypeOK'
  BY <1>1, <1>2, <1>3, StudiesAssumption DEF Feed!TypeOK, Feed!WellFormed
<1>5. Following'
  BY <1>1, <1>2 DEF Following
<1>6. FannedOut'
  <2>1. Feed!Handled' = Feed!Handled /\ Feed!Handled \subseteq Feed!Posts
    BY <1>1, <1>2, <1>3 DEF Feed!Handled
  <2> QED
    BY <1>1, <1>2, <2>1 DEF FannedOut
<1> QED
  BY <1>2, <1>4, <1>5, <1>6

LEMMA AddToManyInv == ASSUME FeedInv, Feed!AddToMany PROVE FeedInv'
<1> USE DEF FeedInv
<1>1. /\ work = "add" /\ work' = "ack"
      /\ UNCHANGED <<authors, follows, publishing, read, owed, forgotten, crashes, stream, batch, targets>>
  BY DEF Feed!AddToMany, Feed!Rest, Feed!tables
<1>2. PICK h : h = Head(batch)
  OBVIOUS
<1>3. timeline' = [u \in Readers |-> IF u \in targets THEN Feed!Newest(timeline[u] \cup {h}, Cap) ELSE timeline[u]]
  BY <1>2 DEF Feed!AddToMany
<1>4. h \in Feed!Posts /\ Feed!Posts' = Feed!Posts
  BY <1>1, <1>2 DEF Feed!TypeOK, Feed!Posts
<1>5. PICK K \in Nat : Feed!Posts = 1..K
  BY DEF Feed!TypeOK, Feed!Posts
<1>6. Cap \in Nat
  BY StudiesAssumption DEF Feed!WellFormed
<1>7. ASSUME NEW u \in Readers, u \in targets
      PROVE  /\ timeline'[u] \subseteq timeline[u] \cup {h}
             /\ \A p \in Feed!Posts : \/ p \in timeline[u] \cup {h}
                                 \/ Cardinality(Above(timeline[u], p)) >= Cap
                                 => \/ p \in timeline'[u]
                                    \/ Cardinality(Above(timeline'[u], p)) >= Cap
  <2>1. PICK S : S = timeline[u] \cup {h}
    OBVIOUS
  <2>2. timeline[u] \in SUBSET S /\ S \in SUBSET (1..K)
    BY <1>4, <1>5, <2>1 DEF Feed!TypeOK
  <2>3. timeline'[u] = Feed!Newest(S, Cap)
    BY <1>3, <1>7, <2>1
  <2>4. /\ Feed!Newest(S, Cap) \in SUBSET S
        /\ \A p \in S \ Feed!Newest(S, Cap) : Cardinality(Above(S, p)) >= Cap
        /\ \A p \in Nat : Cardinality(Above(S, p)) >= Cap => Cardinality(Above(Feed!Newest(S, Cap), p)) >= Cap
    <3>1. Cap \in 0..Cap
      BY <1>6
    <3> QED
      BY <1>6, <2>2, <3>1, NewestKeeps
  <2>5. ASSUME NEW p \in Feed!Posts, Cardinality(Above(timeline[u], p)) >= Cap PROVE Cardinality(Above(S, p)) >= Cap
    <3>1. Cardinality(Above(timeline[u], p)) <= Cardinality(Above(S, p))
      BY <2>2, AboveGrows
    <3>2. Cardinality(Above(timeline[u], p)) \in Nat /\ Cardinality(Above(S, p)) \in Nat
      <4>1. timeline[u] \in SUBSET (1..K)
        BY <2>2
      <4> QED
        BY <4>1, <2>2, AboveNumbers
    <3> QED
      BY <1>6, <2>5, <3>1, <3>2
  <2>6. \A p \in Feed!Posts : p \in Nat
    BY <1>5
  <2> QED
    BY <2>1, <2>3, <2>4, <2>5, <2>6
<1>8. \A u \in Readers : u \notin targets => timeline'[u] = timeline[u]
  BY <1>3
<1>9. ASSUME NEW u \in Readers, NEW p \in Feed!Posts, Served(u, p) \/ (u \in targets /\ p = h) PROVE Served(u, p)'
  <2>1. Feed!IsCelebrity(authors[p])' <=> Feed!IsCelebrity(authors[p])
    BY <1>1 DEF Feed!IsCelebrity, Feed!Followers
  <2>2. Above(timeline[u], p)' = Above(timeline'[u], p)
    BY DEF Above
  <2>3. CASE u \in targets
    BY <1>7, <1>9, <2>1, <2>2, <2>3 DEF Served
  <2>4. CASE u \notin targets
    BY <1>8, <1>9, <2>1, <2>2, <2>4 DEF Served
  <2> QED
    BY <2>3, <2>4
<1>10. Feed!TypeOK'
  <2>1. \A u \in Readers : timeline'[u] \subseteq Feed!Posts
    BY <1>4, <1>7, <1>8 DEF Feed!TypeOK
  <2>2. timeline' \in [Readers -> SUBSET Feed!Posts]
    BY <1>3, <2>1
  <2> QED
    BY <1>1, <1>4, <2>2 DEF Feed!TypeOK
<1>11. Following'
  <2>1. ASSUME NEW u \in Readers, NEW p \in timeline'[u] PROVE <<u, authors[p]>> \in follows
    <3>1. CASE u \in targets
      BY <1>1, <1>2, <1>7, <2>1, <3>1 DEF Following
    <3>2. CASE u \notin targets
      BY <1>8, <2>1, <3>2 DEF Following
    <3> QED
      BY <3>1, <3>2
  <2> QED
    BY <1>1, <1>4, <2>1 DEF Following
<1>12. FannedOut'
  <2>1. Feed!Handled' = Feed!Handled /\ Feed!Handled \subseteq Feed!Posts
    BY <1>1, <1>4 DEF Feed!Handled
  <2>2. \A u \in Readers : <<u, h>> \in owed => Served(u, h)'
    BY <1>1, <1>2, <1>4, <1>9 DEF FannedOut
  <2>3. \A p \in Feed!Posts' : p = Head(batch') => p = h
    BY <1>1, <1>2
  <2> QED
    BY <1>1, <1>4, <1>9, <2>1, <2>2, <2>3 DEF FannedOut
<1>13. Reading'
  BY <1>1, SameReading
<1> QED
  BY <1>10, <1>11, <1>12, <1>13

LEMMA ReadTimelineInv == ASSUME FeedInv, NEW v \in Readers, Feed!ReadTimeline(v) PROVE FeedInv'
<1> USE DEF FeedInv
<1>1. UNCHANGED <<authors, follows, timeline, stream, publishing, batch, work, targets, owed, forgotten, crashes>>
  BY DEF Feed!ReadTimeline, Feed!worker, Feed!tables
<1>2. PICK S, d : S = timeline[v] /\ d = {p \in Feed!Handled : <<v, p>> \in owed}
  OBVIOUS
<1>3. read' = [by |-> v, ids |-> Feed!Newest(S, Limit), due |-> d]
  BY <1>2 DEF Feed!ReadTimeline
<1>4. read'.by = v /\ read'.ids = Feed!Newest(S, Limit) /\ read'.due = d
  BY <1>3
<1>5. PICK K \in Nat : Feed!Posts = 1..K
  BY DEF Feed!TypeOK, Feed!Posts
<1>6. Cap \in Nat /\ Limit \in Nat /\ Feed!Enough \in 0..Limit /\ Feed!Enough <= Cap
  BY StudiesAssumption DEF Feed!WellFormed, Feed!Enough
<1>7. /\ Feed!Posts' = Feed!Posts
      /\ \A u \in Readers : \A q \in Feed!Posts : Served(u, q)' <=> Served(u, q)
  BY <1>1, SameTables
<1>8. S \in SUBSET (1..K) /\ d \subseteq Feed!Posts
  BY <1>2, <1>5 DEF Feed!TypeOK, Feed!Handled
<1>9. /\ Feed!Newest(S, Limit) \in SUBSET S
      /\ \A p \in S \ Feed!Newest(S, Limit) : Cardinality(Above(S, p)) >= Limit
      /\ \A p \in Nat : Cardinality(Above(S, p)) >= Feed!Enough => Cardinality(Above(Feed!Newest(S, Limit), p)) >= Feed!Enough
  BY <1>6, <1>8, NewestKeeps
<1>10. ASSUME NEW p \in d
       PROVE  /\ <<v, authors[p]>> \in follows
              /\ \/ Feed!IsCelebrity(authors[p])
                 \/ p \in Feed!Newest(S, Limit)
                 \/ Cardinality(Above(Feed!Newest(S, Limit), p)) >= Feed!Enough
  <2>1. p \in Feed!Posts /\ p \in Nat /\ <<v, p>> \in owed /\ Served(v, p)
    BY <1>2, <1>5, <1>8 DEF FannedOut
  <2>2. Cardinality(Above(S, p)) \in Nat
    BY <1>8, AboveNumbers
  <2>3. \/ Feed!IsCelebrity(authors[p])
        \/ p \in S
        \/ Cardinality(Above(S, p)) >= Cap
    BY <1>2, <2>1 DEF Served
  <2>4. Cardinality(Above(S, p)) >= Cap => Cardinality(Above(S, p)) >= Feed!Enough
    BY <1>6, <2>2
  <2>5. Cardinality(Above(S, p)) >= Limit => Cardinality(Above(S, p)) >= Feed!Enough
    BY <1>6, <2>2
  <2> QED
    BY <1>9, <2>1, <2>3, <2>4, <2>5 DEF Following
<1>11. \A a : Feed!IsCelebrity(a)' <=> Feed!IsCelebrity(a)
  BY <1>1 DEF Feed!IsCelebrity, Feed!Followers
<1>12. Feed!TypeOK'
  <2>1. read'.by \in Readers /\ read'.ids \subseteq Feed!Posts' /\ read'.due \subseteq Feed!Posts'
    BY <1>4, <1>5, <1>7, <1>8, <1>9
  <2> QED
    BY <1>1, <1>7, <2>1 DEF Feed!TypeOK
<1>13. Following'
  BY <1>1, <1>7 DEF Following
<1>14. FannedOut'
  <2>1. Feed!Handled' = Feed!Handled /\ Feed!Handled \subseteq Feed!Posts
    BY <1>1, <1>7 DEF Feed!Handled
  <2> QED
    BY <1>1, <1>7, <2>1 DEF FannedOut
<1>15. Reading'
  <2>1. \A p \in read'.ids : <<v, authors[p]>> \in follows
    BY <1>2, <1>4, <1>9 DEF Following
  <2>2. \A p \in read'.due : /\ <<v, authors[p]>> \in follows
                             /\ \/ Feed!IsCelebrity(authors[p])
                                \/ p \in read'.ids
                                \/ Cardinality(Above(read'.ids, p)) >= Feed!Enough
    BY <1>4, <1>10
  <2>3. Feed!Enough' = Feed!Enough /\ \A p : Above(read.ids, p)' = Above(read'.ids, p)
    BY DEF Feed!Enough, Above
  <2>4. \A p \in read'.due : Feed!IsCelebrity(authors[p])' <=> Feed!IsCelebrity(authors[p])
    BY <1>1 DEF Feed!IsCelebrity, Feed!Followers
  <2> QED
    BY <1>1, <1>4, <2>1, <2>2, <2>3, <2>4 DEF Reading
<1> QED
  BY <1>12, <1>13, <1>14, <1>15

LEMMA AnswerInv == ASSUME FeedInv, Feed!Answer PROVE FeedInv'
<1> USE DEF FeedInv
<1>1. UNCHANGED <<authors, follows, timeline, stream, publishing, batch, work, targets, owed, forgotten, crashes>>
      /\ read' = Feed!NoRead
  BY DEF Feed!Answer, Feed!worker, Feed!tables
<1>2. /\ Feed!Posts' = Feed!Posts
      /\ \A u \in Readers : \A q \in Feed!Posts : Served(u, q)' <=> Served(u, q)
  BY <1>1, SameTables
<1>3. Feed!TypeOK'
  BY <1>1, <1>2 DEF Feed!TypeOK, Feed!NoRead
<1>4. Following'
  BY <1>1, <1>2 DEF Following
<1>5. FannedOut'
  <2>1. Feed!Handled' = Feed!Handled /\ Feed!Handled \subseteq Feed!Posts
    BY <1>1, <1>2 DEF Feed!Handled
  <2> QED
    BY <1>1, <1>2, <2>1 DEF FannedOut
<1>6. Reading'
  BY <1>1 DEF Reading, Feed!NoRead
<1> QED
  BY <1>3, <1>4, <1>5, <1>6

LEMMA FeedStepInv == FeedInv /\ [Feed!Next]_(Feed!vars) => FeedInv'
<1> SUFFICES ASSUME FeedInv, [Feed!Next]_(Feed!vars) PROVE FeedInv'
  OBVIOUS
<1>1. CASE UNCHANGED Feed!vars
  <2>1. UNCHANGED <<authors, follows, timeline, stream, publishing, batch, work, targets, owed, forgotten, crashes, read>>
    BY <1>1 DEF Feed!vars, Feed!tables, Feed!worker
  <2>2. /\ Feed!Posts' = Feed!Posts /\ Reading'
        /\ \A u \in Readers : \A q \in Feed!Posts : Served(u, q)' <=> Served(u, q)
    BY <2>1, SameTables
  <2>3. Feed!TypeOK' /\ Following'
    BY <2>1, <2>2 DEF FeedInv, Feed!TypeOK, Following
  <2>4. FannedOut'
    <3>1. Feed!Handled' = Feed!Handled /\ Feed!Handled \subseteq Feed!Posts
      BY <2>1, <2>2 DEF Feed!Handled
    <3> QED
      BY <2>1, <2>2, <3>1 DEF FeedInv, FannedOut
  <2> QED
    BY <2>2, <2>3, <2>4 DEF FeedInv
<1> QED
  BY <1>1, AddPostInv, AddFollowInv, PublishInv, ApiDiesInv, PollInv, CountInv, ReadFollowersInv, AddToManyInv,
     AckInv, WorkerDiesInv, ReadTimelineInv, AnswerInv DEF Feed!Next

\* A post that is owed to a reader is on its way to them after every step.
THEOREM FeedInvariance == Feed!Spec => []FeedInv
BY FeedInitInv, FeedStepInv, PTL DEF Feed!Spec

\* What a read merges: every due post is there, or is behind enough newer ones.
LEMMA MergedComplete == ASSUME FeedInv, read # Feed!NoRead PROVE
    /\ \A p \in read.due \ Feed!Merged(read.by) : Cardinality(Above(Feed!Merged(read.by), p)) \in Feed!Enough..Limit
    /\ \A p \in Feed!Merged(read.by) : <<read.by, authors[p]>> \in follows
<1> USE DEF FeedInv
<1>1. PICK K \in Nat : Feed!Posts = 1..K
  <2>1. authors \in Seq(Authors)
    BY DEF Feed!TypeOK
  <2>2. Feed!Posts = 1..Len(authors) /\ Len(authors) \in Nat
    BY <2>1 DEF Feed!Posts
  <2> QED
    BY <2>2
<1>2. Limit \in Nat /\ Feed!Enough \in 0..Limit /\ Limit \in 0..Limit
  BY StudiesAssumption DEF Feed!WellFormed, Feed!Enough
<1>3. PICK u, C, c, S, M : /\ u = read.by /\ C = {p \in Feed!Posts : Feed!IsCelebrity(authors[p]) /\ <<u, authors[p]>> \in follows}
                           /\ c = Feed!Newest(C, Limit) /\ S = read.ids \cup c /\ M = Feed!Newest(S, Limit)
  OBVIOUS
<1>4. M = Feed!Merged(read.by)
  BY <1>3 DEF Feed!Merged, Feed!CelebrityIds
<1>5. C \in SUBSET (1..K) /\ c \in SUBSET C /\ read.ids \subseteq Feed!Posts /\ read.due \subseteq Feed!Posts
  <2>1. C \in SUBSET (1..K)
    BY <1>1, <1>3
  <2> QED
    <3>1. Feed!Newest(C, Limit) \in SUBSET C
      BY <1>2, <2>1, NewestKeeps
    <3> QED
      BY <1>3, <2>1, <3>1 DEF Feed!TypeOK
<1>6. S \in SUBSET (1..K) /\ c \in SUBSET S /\ read.ids \in SUBSET S /\ M \in SUBSET S
  <2>1. S \in SUBSET (1..K)
    BY <1>1, <1>3, <1>5
  <2> QED
    <3>1. Feed!Newest(S, Limit) \in SUBSET S
      BY <1>2, <2>1, NewestKeeps
    <3> QED
      BY <1>3, <2>1, <3>1
<1>7. \A p \in M : <<u, authors[p]>> \in follows
  BY <1>3, <1>5, <1>6 DEF Reading
<1>8. ASSUME NEW p \in read.due \ M PROVE Cardinality(Above(M, p)) \in Feed!Enough..Limit
  <2>1. p \in Feed!Posts /\ p \in Nat /\ <<u, authors[p]>> \in follows
        /\ (Feed!IsCelebrity(authors[p]) \/ p \in read.ids \/ Cardinality(Above(read.ids, p)) >= Feed!Enough)
    BY <1>1, <1>3, <1>5, <1>8 DEF Reading
  <2>2. /\ Cardinality(Above(S, p)) \in Nat /\ Cardinality(Above(C, p)) \in Nat /\ Cardinality(Above(c, p)) \in Nat
        /\ Cardinality(Above(read.ids, p)) \in Nat
        /\ Cardinality(Above(M, p)) \in Nat /\ Cardinality(Above(M, p)) <= Cardinality(M) /\ Cardinality(M) \in Nat
    <3>1. c \in SUBSET (1..K) /\ read.ids \in SUBSET (1..K) /\ M \in SUBSET (1..K)
      BY <1>1, <1>5, <1>6
    <3> QED
      BY <1>5, <1>6, <3>1, AboveNumbers
  <2>3. /\ Cardinality(Above(c, p)) <= Cardinality(Above(S, p))
        /\ Cardinality(Above(read.ids, p)) <= Cardinality(Above(S, p))
    BY <1>6, AboveGrows
  <2>4. p \in S => Cardinality(Above(S, p)) >= Feed!Enough
    <3>1. p \in S => Cardinality(Above(S, p)) >= Limit
      BY <1>2, <1>3, <1>6, <1>8, NewestKeeps
    <3> QED
      BY <1>2, <2>2, <3>1
  <2>5. Feed!IsCelebrity(authors[p]) => Cardinality(Above(S, p)) >= Feed!Enough
    <3>1. SUFFICES ASSUME Feed!IsCelebrity(authors[p]), p \notin S PROVE Cardinality(Above(S, p)) >= Feed!Enough
      BY <2>4
    <3>2. p \in C /\ p \notin c
      BY <1>3, <1>6, <2>1, <3>1
    <3>3. Cardinality(Above(C, p)) >= Limit
      BY <1>2, <1>3, <1>5, <3>2, NewestKeeps
    <3>4. Cardinality(Above(c, p)) >= Limit
      BY <1>2, <1>3, <1>5, <2>1, <3>3, NewestKeeps
    <3> QED
      BY <1>2, <2>2, <2>3, <3>4
  <2>6. Cardinality(Above(S, p)) >= Feed!Enough
    <3>1. p \in read.ids => p \in S
      BY <1>6
    <3>2. Cardinality(Above(read.ids, p)) >= Feed!Enough => Cardinality(Above(S, p)) >= Feed!Enough
      BY <1>2, <2>2, <2>3
    <3> QED
      BY <2>1, <2>4, <2>5, <3>1, <3>2
  <2>7. Cardinality(Above(M, p)) >= Feed!Enough /\ Cardinality(M) <= Limit
    <3>1. /\ Cardinality(Feed!Newest(S, Limit)) <= Limit
          /\ \A q \in Nat : Cardinality(Above(S, q)) >= Feed!Enough => Cardinality(Above(Feed!Newest(S, Limit), q)) >= Feed!Enough
      BY <1>2, <1>6, NewestKeeps
    <3> QED
      BY <1>3, <2>1, <2>6, <3>1
  <2> QED
    BY <1>2, <2>2, <2>7
<1> QED
  BY <1>3, <1>4, <1>7, <1>8

\* A reader's feed has what fan-out and merge owe them (TimelineFanout, TimelineReader).
THEOREM FeedIsComplete == Feed!Spec => []Feed!FeedComplete
<1>1. FeedInv => Feed!FeedComplete
  BY MergedComplete, SameFiniteSets DEF Feed!FeedComplete, Above
<1> QED
  BY <1>1, FeedInvariance, PTL

-----------------------------------------------------------------------------
(* The ring *)

\* The point a key is routed to is one of the members': the first after its hash, or
\* the first of all.
LEMMA PointOfKey ==
  ASSUME NEW k \in RingKeys, NEW M \in SUBSET Nodes, M # {}
  PROVE  /\ Ring!Points(M) \subseteq Nat
         /\ Ring!Point(k, M) \in Ring!Points(M)
         /\ Ring!Later(k, M) = {} => \A p \in Ring!Points(M) : Ring!Point(k, M) <= p
         /\ Ring!Later(k, M) # {} => Ring!Point(k, M) \in Ring!Later(k, M) /\ \A p \in Ring!Later(k, M) : Ring!Point(k, M) <= p
<1>1. Ring!Points(M) \subseteq Nat /\ Ring!Points(M) # {}
  BY StudiesAssumption DEF Ring!WellPlaced, Ring!Points
<1>2. CASE Ring!Later(k, M) = {}
  BY <1>1, <1>2, LeastPosition DEF Ring!Point
<1>3. CASE Ring!Later(k, M) # {}
  <2>1. Ring!Later(k, M) \subseteq Ring!Points(M)
    BY DEF Ring!Later
  <2>2. Ring!Later(k, M) \in SUBSET Nat
    BY <2>1, <1>1
  <2> QED
    BY <1>1, <1>3, <2>1, <2>2, LeastPosition DEF Ring!Point
<1> QED
  BY <1>1, <1>2, <1>3

\* node_for answers with the one member that has the point.
LEMMA OwnerOfPoint ==
  ASSUME NEW k \in RingKeys, NEW M \in SUBSET Nodes, M # {}
  PROVE  /\ Ring!Owner(k, M) \in M
         /\ \A n \in M : Ring!Point(k, M) \in Positions[n] => Ring!Owner(k, M) = n
<1>1. \E n \in M : Ring!Point(k, M) \in Positions[n]
  BY PointOfKey DEF Ring!Points
<1>2. Ring!Owner(k, M) \in M /\ Ring!Point(k, M) \in Positions[Ring!Owner(k, M)]
  BY <1>1 DEF Ring!Owner
<1> QED
  BY <1>2, StudiesAssumption DEF Ring!WellPlaced

\* A node more takes a key for itself or leaves it where it is.
LEMMA OwnerOfMore ==
  ASSUME NEW k \in RingKeys, NEW M \in SUBSET Nodes, M # {}, NEW n \in Nodes
  PROVE  Ring!Owner(k, M \cup {n}) \in {n, Ring!Owner(k, M)}
<1> DEFINE N == M \cup {n}
<1>1. N \in SUBSET Nodes /\ N # {} /\ n \in N
  OBVIOUS
<1>2. Ring!Points(N) = Ring!Points(M) \cup Positions[n]
  BY DEF Ring!Points
<1> HIDE DEF N
<1>3. CASE Ring!Point(k, N) \in Positions[n]
  BY <1>1, <1>3, OwnerOfPoint DEF N
<1>4. CASE Ring!Point(k, N) \notin Positions[n]
  <2>1. Ring!Point(k, N) \in Ring!Points(M)
    BY <1>1, <1>2, <1>4, PointOfKey
  <2>2. Ring!Later(k, M) \subseteq Ring!Later(k, N)
    BY <1>2 DEF Ring!Later
  <2>3. Ring!Later(k, N) # {} => Ring!Point(k, N) \in Ring!Later(k, M)
    BY <1>1, <2>1, PointOfKey DEF Ring!Later
  <2>4. Ring!Points(M) \subseteq Nat /\ Ring!Points(N) \subseteq Nat
    BY <1>1, PointOfKey
  <2>5. Ring!Point(k, N) <= Ring!Point(k, M) /\ Ring!Point(k, M) <= Ring!Point(k, N)
    <3>1. CASE Ring!Later(k, N) = {}
      BY <1>1, <1>2, <2>1, <2>2, <3>1, PointOfKey
    <3>2. CASE Ring!Later(k, N) # {}
      BY <1>1, <2>2, <2>3, <3>2, PointOfKey
    <3> QED
      BY <3>1, <3>2
  <2>6. Ring!Point(k, N) = Ring!Point(k, M)
    <3>1. Ring!Point(k, N) \in Nat /\ Ring!Point(k, M) \in Nat
      BY <1>1, <2>4, PointOfKey
    <3> QED
      BY <2>5, <3>1
  <2>7. Ring!Owner(k, M) \in M /\ Ring!Point(k, M) \in Positions[Ring!Owner(k, M)]
    <3>1. \E m \in M : Ring!Point(k, M) \in Positions[m]
      BY PointOfKey DEF Ring!Points
    <3> QED
      BY <3>1 DEF Ring!Owner
  <2>8. Ring!Owner(k, N) = Ring!Owner(k, M)
    BY <1>1, <2>6, <2>7, OwnerOfPoint DEF N
  <2> QED
    BY <2>8 DEF N
<1> QED
  BY <1>3, <1>4 DEF N

\* When a node leaves, the keys of the others stay.
LEMMA OwnerOfLess ==
  ASSUME NEW k \in RingKeys, NEW M \in SUBSET Nodes, NEW n \in M, M \ {n} # {}, Ring!Owner(k, M) # n
  PROVE  Ring!Owner(k, M \ {n}) = Ring!Owner(k, M)
<1>1. M = (M \ {n}) \cup {n}
  OBVIOUS
<1>2. Ring!Owner(k, (M \ {n}) \cup {n}) \in {n, Ring!Owner(k, M \ {n})}
  BY OwnerOfMore
<1> QED
  BY <1>1, <1>2

-----------------------------------------------------------------------------
(* The cluster *)

\* The invariant: a read's promise for each key, wherever it is.  Without a node, a key
\* that was written is lost.
RingReads == \A k \in RingKeys :
  IF nodes = {} THEN k \in dropped \/ stored[k] = Absent
  ELSE Ring!Get(k) = IF k \in dropped THEN Absent ELSE stored[k]
RingOwned == \A n \in Nodes : \A k \in Ring!Stored(n) : n \in nodes /\ n = Ring!Owner(k, nodes)
RingMoved == \A m \in moves : change = IF change \in nodes THEN m[2] ELSE m[1]

RingInv == Ring!TypeOK /\ RingReads /\ RingOwned /\ RingMoved

LEMMA RingInitInv == Ring!Init => RingInv
  BY DEF Ring!Init, RingInv, Ring!TypeOK, RingReads, RingOwned, RingMoved, Ring!Stored, Ring!Empty

\* Where a key is stored, if anywhere: at its owner, alone.
LEMMA HolderIsOwner ==
  ASSUME RingInv, NEW k \in RingKeys
  PROVE  /\ \A n \in Ring!Holders(k) : n = Ring!Owner(k, nodes)
         /\ Ring!Holders(k) # {} => Ring!Holder(k) = Ring!Owner(k, nodes) /\ nodes # {}
         /\ nodes # {} /\ Ring!Holders(k) = {} => Ring!Get(k) = Absent
         /\ nodes # {} /\ Ring!Holders(k) # {} => Ring!Get(k) = stores[Ring!Holder(k)][k]
<1>1. nodes \subseteq Nodes
  BY DEF RingInv, Ring!TypeOK
<1>2. \A n \in Ring!Holders(k) : n = Ring!Owner(k, nodes)
  BY <1>1 DEF RingInv, RingOwned, Ring!Holders
<1>3. Ring!Holders(k) # {} => Ring!Holder(k) = Ring!Owner(k, nodes) /\ nodes # {}
  BY <1>2 DEF Ring!Holder, Ring!Holders
<1>4. ASSUME nodes # {}, Ring!Holders(k) = {} PROVE Ring!Get(k) = Absent
  <2>1. Ring!Owner(k, nodes) \in nodes
    BY <1>1, <1>4, OwnerOfPoint
  <2> QED
    BY <2>1, <1>4 DEF Ring!Holders, Ring!Stored, Ring!Get
<1>5. ASSUME nodes # {}, Ring!Holders(k) # {} PROVE Ring!Get(k) = stores[Ring!Holder(k)][k]
  BY <1>3, <1>5 DEF Ring!Get
<1> QED
  BY <1>2, <1>3, <1>4, <1>5

LEMMA AddNodeInv == ASSUME RingInv, NEW n \in Nodes, Ring!AddNode(n) PROVE RingInv'
<1> DEFINE N == nodes \cup {n}
<1>1. nodes \subseteq Nodes /\ N \in SUBSET Nodes /\ N # {} /\ n \in N
  BY DEF RingInv, Ring!TypeOK
<1>2. nodes' = N /\ stores' = Ring!Rebalanced(N) /\ change' = n /\ UNCHANGED <<stored, dropped>>
  BY DEF Ring!AddNode
<1>3. moves' = {<<Ring!Holder(k), Ring!Owner(k, N)>> : k \in {x \in RingKeys : Ring!Holders(x) # {} /\ Ring!Owner(x, N) # Ring!Holder(x)}}
  BY DEF Ring!AddNode
<1> HIDE DEF N
<1>4. \A k \in RingKeys : Ring!Owner(k, N) \in N
  BY <1>1, OwnerOfPoint
<1>5. \A k \in RingKeys : Ring!Holders(k) # {} => stores[Ring!Holder(k)][k] \in StoreValues \cup {Absent} /\ Ring!Holder(k) \in Nodes
  BY <1>1 DEF RingInv, Ring!TypeOK, Ring!Holder, Ring!Holders
<1>6. stores' \in [Nodes -> [RingKeys -> StoreValues \cup {Absent}]]
  BY <1>2, <1>5 DEF Ring!Rebalanced
<1>7. \A k \in RingKeys, m \in Nodes :
        stores'[m][k] = IF Ring!Holders(k) # {} /\ Ring!Owner(k, N) = m THEN stores[Ring!Holder(k)][k] ELSE Absent
  BY <1>2 DEF Ring!Rebalanced
<1>8. Ring!TypeOK'
  BY <1>1, <1>2, <1>3, <1>4, <1>5, <1>6 DEF RingInv, Ring!TypeOK
<1>9. RingReads'
  <2> SUFFICES ASSUME NEW k \in RingKeys
               PROVE  stores'[Ring!Owner(k, N)][k] = IF k \in dropped THEN Absent ELSE stored[k]
    BY <1>1, <1>2 DEF RingReads, Ring!Get
  <2>1. stores'[Ring!Owner(k, N)][k] = IF Ring!Holders(k) # {} THEN stores[Ring!Holder(k)][k] ELSE Absent
    BY <1>1, <1>4, <1>7
  <2>2. CASE nodes = {}
    BY <2>1, <2>2, HolderIsOwner DEF RingInv, RingReads
  <2>3. CASE nodes # {}
    BY <2>1, <2>3, HolderIsOwner DEF RingInv, RingReads
  <2> QED
    BY <2>2, <2>3
<1>10. RingOwned'
  BY <1>1, <1>2, <1>4, <1>7 DEF RingOwned, Ring!Stored
<1>11. RingMoved'
  <2> SUFFICES ASSUME NEW k \in RingKeys, Ring!Holders(k) # {}, Ring!Owner(k, N) # Ring!Holder(k)
               PROVE  Ring!Owner(k, N) = n
    BY <1>1, <1>2, <1>3 DEF RingMoved
  <2>1. Ring!Holder(k) = Ring!Owner(k, nodes) /\ nodes # {}
    BY HolderIsOwner
  <2>2. Ring!Owner(k, N) \in {n, Ring!Owner(k, nodes)}
    BY <1>1, <2>1, OwnerOfMore DEF N
  <2> QED
    BY <2>1, <2>2
<1> QED
  BY <1>8, <1>9, <1>10, <1>11 DEF RingInv

LEMMA RemoveNodeInv == ASSUME RingInv, NEW n \in Nodes, Ring!RemoveNode(n) PROVE RingInv'
<1> DEFINE M == nodes \ {n}
<1>1. nodes \subseteq Nodes /\ M \in SUBSET Nodes /\ n \notin M /\ n \in nodes
  BY DEF RingInv, Ring!TypeOK, Ring!RemoveNode
<1>2. nodes' = M /\ change' = n /\ stored' = stored
  BY DEF Ring!RemoveNode
<1>3. CASE M = {}
  <2>1. stores' = [stores EXCEPT ![n] = Ring!Empty] /\ dropped' = dropped \cup Ring!Stored(n) /\ moves' = {}
    BY <1>3 DEF Ring!RemoveNode
  <2>2. nodes = {n}
    BY <1>1, <1>3
  <2>3. Ring!TypeOK'
    BY <1>1, <1>2, <2>1 DEF RingInv, Ring!TypeOK, Ring!Empty, Ring!Stored
  <2>4. RingReads'
    <3> SUFFICES ASSUME NEW k \in RingKeys PROVE k \in dropped' \/ stored[k] = Absent
      BY <1>2, <1>3 DEF RingReads
    <3>1. Ring!Owner(k, nodes) = n
      BY <1>1, <2>2, OwnerOfPoint
    <3>2. stores[n][k] = IF k \in dropped THEN Absent ELSE stored[k]
      BY <2>2, <3>1 DEF RingInv, RingReads, Ring!Get
    <3> QED
      BY <2>1, <3>2 DEF Ring!Stored
  <2>5. \A m \in Nodes : \A k \in RingKeys : stores'[m][k] = Absent
    BY <2>1, <2>2 DEF RingInv, Ring!TypeOK, RingOwned, Ring!Stored, Ring!Empty
  <2>6. RingOwned' /\ RingMoved'
    BY <2>1, <2>5 DEF RingOwned, RingMoved, Ring!Stored
  <2> QED
    BY <2>3, <2>4, <2>6 DEF RingInv
<1>4. CASE M # {}
  <2>1. stores' = Ring!Orphaned(n, M) /\ dropped' = dropped /\ moves' = {<<n, Ring!Owner(k, M)>> : k \in Ring!Stored(n)}
    BY <1>4 DEF Ring!RemoveNode
  <2> HIDE DEF M
  <2>2. \A k \in RingKeys : Ring!Owner(k, M) \in M
    BY <1>1, <1>4, OwnerOfPoint
  <2>3. \A k \in RingKeys, m \in Nodes :
          stores'[m][k] = IF m = n THEN Absent
                          ELSE IF k \in Ring!Stored(n) /\ Ring!Owner(k, M) = m THEN stores[n][k] ELSE stores[m][k]
    BY <2>1 DEF Ring!Orphaned
  <2>4. Ring!TypeOK'
    <3>1. stores' \in [Nodes -> [RingKeys -> StoreValues \cup {Absent}]]
      BY <2>1 DEF Ring!Orphaned, RingInv, Ring!TypeOK
    <3>2. moves' \subseteq Nodes \X Nodes
      BY <1>1, <2>1, <2>2 DEF Ring!Stored
    <3> QED
      BY <1>1, <1>2, <2>1, <3>1, <3>2 DEF RingInv, Ring!TypeOK
  <2>5. RingReads'
    <3> SUFFICES ASSUME NEW k \in RingKeys
                 PROVE  stores'[Ring!Owner(k, M)][k] = IF k \in dropped THEN Absent ELSE stored[k]
      BY <1>2, <1>4, <2>1 DEF RingReads, Ring!Get
    <3>1. stores[Ring!Owner(k, nodes)][k] = IF k \in dropped THEN Absent ELSE stored[k]
      BY <1>1 DEF RingInv, RingReads, Ring!Get
    <3>2. CASE Ring!Owner(k, nodes) = n
      <4>1. k \notin Ring!Stored(Ring!Owner(k, M))
        BY <1>1, <2>2, <3>2 DEF RingInv, RingOwned
      <4>2. stores[Ring!Owner(k, M)][k] = Absent
        BY <4>1 DEF Ring!Stored
      <4> QED
        BY <1>1, <2>2, <2>3, <3>1, <3>2, <4>2 DEF Ring!Stored
    <3>3. CASE Ring!Owner(k, nodes) # n
      <4>1. Ring!Owner(k, M) = Ring!Owner(k, nodes)
        BY <1>1, <1>4, <3>3, OwnerOfLess DEF M
      <4>2. k \notin Ring!Stored(n)
        BY <3>3 DEF RingInv, RingOwned
      <4> QED
        BY <1>1, <2>2, <2>3, <3>1, <4>1, <4>2
    <3> QED
      BY <3>2, <3>3
  <2>6. RingOwned'
    <3> SUFFICES ASSUME NEW m \in Nodes, NEW k \in RingKeys, stores'[m][k] # Absent
                 PROVE  m \in M /\ m = Ring!Owner(k, M)
      BY <1>2 DEF RingOwned, Ring!Stored
    <3>1. m # n
      BY <2>3
    <3>2. CASE k \in Ring!Stored(n) /\ Ring!Owner(k, M) = m
      BY <2>2, <3>2
    <3>3. CASE ~(k \in Ring!Stored(n) /\ Ring!Owner(k, M) = m)
      <4>1. k \in Ring!Stored(m)
        BY <2>3, <3>1, <3>3 DEF Ring!Stored
      <4>2. m \in nodes /\ m = Ring!Owner(k, nodes)
        BY <4>1 DEF RingInv, RingOwned
      <4> QED
        BY <1>1, <1>4, <3>1, <4>2, OwnerOfLess DEF M
    <3> QED
      BY <3>2, <3>3
  <2>7. RingMoved'
    BY <1>1, <1>2, <2>1 DEF RingMoved
  <2> QED
    BY <2>4, <2>5, <2>6, <2>7 DEF RingInv
<1> QED
  BY <1>3, <1>4

LEMMA RingPutInv == ASSUME RingInv, NEW k \in RingKeys, NEW v \in StoreValues, Ring!Put(k, v) PROVE RingInv'
<1>1. nodes # {} /\ nodes \subseteq Nodes /\ UNCHANGED <<nodes, change, moves>>
  BY DEF RingInv, Ring!TypeOK, Ring!Put
<1>2. \A x \in RingKeys : Ring!Owner(x, nodes) \in nodes
  BY <1>1, OwnerOfPoint
<1>3. stores' = [stores EXCEPT ![Ring!Owner(k, nodes)][k] = v]
  BY DEF Ring!Put
<1>4. \A m \in Nodes, x \in RingKeys :
        stores'[m][x] = IF m = Ring!Owner(k, nodes) /\ x = k THEN v ELSE stores[m][x]
  BY <1>3 DEF RingInv, Ring!TypeOK
<1>5. Ring!TypeOK'
  <2>1. stores \in [Nodes -> [RingKeys -> StoreValues \cup {Absent}]]
    BY DEF RingInv, Ring!TypeOK
  <2>2. stores' \in [Nodes -> [RingKeys -> StoreValues \cup {Absent}]]
    BY <1>3, <2>1
  <2>3. stored' \in [RingKeys -> StoreValues \cup {Absent}] /\ dropped' \subseteq RingKeys
    BY DEF RingInv, Ring!TypeOK, Ring!Put
  <2> QED
    BY <1>1, <2>2, <2>3 DEF RingInv, Ring!TypeOK
<1>6. RingReads'
  BY <1>1, <1>2, <1>4 DEF RingInv, Ring!TypeOK, RingReads, Ring!Get, Ring!Put
<1>7. RingOwned'
  BY <1>1, <1>2, <1>4 DEF RingInv, RingOwned, Ring!Stored
<1>8. RingMoved'
  BY <1>1 DEF RingInv, RingMoved
<1> QED
  BY <1>5, <1>6, <1>7, <1>8 DEF RingInv

LEMMA RingStepInv == ASSUME RingInv, [Ring!Next]_(Ring!vars) PROVE RingInv'
<1>1. CASE UNCHANGED Ring!vars
  BY <1>1 DEF RingInv, Ring!TypeOK, RingReads, Ring!Get, RingOwned, RingMoved, Ring!Stored, Ring!vars
<1>2. CASE Ring!Next
  BY <1>2, AddNodeInv, RemoveNodeInv, RingPutInv DEF Ring!Next
<1> QED
  BY <1>1, <1>2

\* The invariant holds in every reachable state.
THEOREM RingInvariance == Ring!Spec => []RingInv
<1>1. Ring!Init => RingInv
  BY RingInitInv
<1>2. RingInv /\ [Ring!Next]_(Ring!vars) => RingInv'
  BY RingStepInv
<1> QED
  BY <1>1, <1>2, PTL DEF Ring!Spec

\* The cluster's state keeps its types.
THEOREM RingTypes == Ring!Spec => []Ring!TypeOK
<1>1. RingInv => Ring!TypeOK
  BY DEF RingInv
<1> QED
  BY <1>1, RingInvariance, PTL

\* A read finds the last write and a store has only what its node owns, through any
\* sequence of nodes that join and leave; only the changed node's keys move
\* (SimulatedCluster).
THEOREM RingRoutes == Ring!Spec => []Ring!RoutedToLastWrite
<1>1. RingInv => Ring!RoutedToLastWrite
  BY DEF RingInv, RingReads, RingOwned, RingMoved, Ring!RoutedToLastWrite
<1> QED
  BY <1>1, RingInvariance, PTL
=============================================================================
