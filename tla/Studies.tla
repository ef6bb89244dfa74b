------------------------------- MODULE Studies -------------------------------
(***************************************************************************)
(* The parts of the system that are small and share nothing with one       *)
(* another, in one run: the first state chooses a study, and from then on  *)
(* only its actions are taken.  A property of one study is checked in the  *)
(* states of that study.                                                   *)
(***************************************************************************)
EXTENDS UrlShortener, Sequences

CONSTANTS
  Hosts, Spellings, Normalize, HostOf, Disallowed, NoHost, MaxWindows,   \* CrawlFrontier
  Cards, MaxQueue,                                                       \* OsiSimulator
  StoreKeys, StoreValues, Tombstone, Absent,                             \* LsmStore
  Threshold, MaxSegments, MaxDiskErrors,
  MaxVersion,                                                            \* DocumentServer
  Agents, Paths, Files, NoPath,                                          \* ChunkSync
  Runs, Segments, Renditions,                                            \* Transcode
  Impressions, EventTime, Window, Lateness, NoImpression,                \* ClickCounts
  Authors, Readers, CelebThreshold, Cap, Limit,                          \* FeedFanout
  NoReader, PollCount, MaxPosts, MaxCrashes,
  RuleLimit, Unit, Draws, MaxLag, MaxLead, MaxTime,                      \* RateLimiter
  MaxDenied, MaxRepeated,
  Nodes, RingKeys, Positions, Hash                                       \* HashRing

VARIABLES
  study,
  seen, queue, hosts, gate, lastHost, crawlPc, crawlUrl, crawlTodo, handed, lost, windows, died,
  shown, base, updates, lanes, pending, priority, task, microtask, inside, timer,
  memtable, segments, written, lostKeys, diskErrors,
  doc, log, snapshotVersion, texts, erased, views,
  chunks, manifest, call, path, local, todo,
  state, store, manifests, runAt, task_, failing, done, cut,
  seenClicks, rows, counts, emitted, watermark, step, click, out, uncounted, unsettled, raised,
  authors, follows, stream, timeline, publishing, batch, work, targets, read, owed, forgotten, crashes,
  algorithm, clock, expiry, count, entries, tokens, ts, admitted, repeated,
  nodes, stores, stored, dropped, change, moves

Crawl == INSTANCE CrawlFrontier WITH
  Urls <- Spellings, pc <- crawlPc, url <- crawlUrl, todo <- crawlTodo, failures <- died
Osi == INSTANCE OsiSimulator WITH queue <- updates
Lsm == INSTANCE LsmStore WITH Keys <- StoreKeys, Values <- StoreValues, lost <- lostKeys
Docs == INSTANCE DocumentServer
Sync == INSTANCE ChunkSync WITH step <- call
Video == INSTANCE Transcode WITH step <- runAt, at <- task_
Clicks == INSTANCE ClickCounts WITH seen <- seenClicks, failures <- raised
Feed == INSTANCE FeedFanout WITH Threshold <- CelebThreshold, task <- work
Limiter == INSTANCE RateLimiter WITH Limit <- RuleLimit
Ring == INSTANCE HashRing WITH
  Keys <- RingKeys, Values <- StoreValues, written <- stored, lost <- dropped

\* What the instances ask of their constants.
ASSUME StudiesAssumption ==
  /\ Crawl!WellFormed /\ Lsm!WellFormed /\ Docs!WellFormed /\ Video!WellFormed /\ Clicks!WellFormed /\ Feed!WellFormed
  /\ Limiter!WellFormed /\ Ring!WellPlaced

crawlVars == <<seen, queue, hosts, gate, lastHost, crawlPc, crawlUrl, crawlTodo, handed, lost, windows, died>>
osiVars == <<shown, base, updates, lanes, pending, priority, task, microtask, inside, timer>>
lsmVars == <<memtable, segments, written, lostKeys, diskErrors>>
docsVars == <<doc, log, snapshotVersion, texts, erased, views>>
syncVars == <<chunks, manifest, call, path, local, todo>>
videoVars == <<state, store, manifests, runAt, task_, failing, done, cut>>
clicksVars == <<seenClicks, rows, counts, emitted, watermark, step, click, out, uncounted, unsettled, raised>>
feedVars == <<authors, follows, stream, timeline, publishing, batch, work, targets, read, owed, forgotten, crashes>>
limiterVars == <<algorithm, clock, expiry, count, entries, tokens, ts, admitted, repeated>>
ringVars == <<nodes, stores, stored, dropped, change, moves>>

StudiesInit ==
  /\ study \in {"shortener", "crawler", "simulator", "engine", "docs", "sync", "video", "clicks", "feed",
              "limiter", "ring"}
  /\ Init /\ Crawl!Init /\ Osi!Init /\ Lsm!Init /\ Docs!Init
  /\ Sync!Init /\ Video!Init /\ Clicks!Init /\ Feed!Init
  /\ Limiter!Init /\ Ring!Init
  /\ study # "limiter" => algorithm = "fixed"

-----------------------------------------------------------------------------
Shortener(A) ==
  /\ study = "shortener" /\ A
  /\ UNCHANGED <<study, crawlVars, osiVars, lsmVars, docsVars, syncVars, videoVars, clicksVars, feedVars, limiterVars, ringVars>>
Crawler(A) ==
  /\ study = "crawler" /\ A
  /\ UNCHANGED <<study, vars, osiVars, lsmVars, docsVars, syncVars, videoVars, clicksVars, feedVars, limiterVars, ringVars>>
Simulator(A) ==
  /\ study = "simulator" /\ A
  /\ UNCHANGED <<study, vars, crawlVars, lsmVars, docsVars, syncVars, videoVars, clicksVars, feedVars, limiterVars, ringVars>>
Engine(A) ==
  /\ study = "engine" /\ A
  /\ UNCHANGED <<study, vars, crawlVars, osiVars, docsVars, syncVars, videoVars, clicksVars, feedVars, limiterVars, ringVars>>
Editors(A) ==
  /\ study = "docs" /\ A
  /\ UNCHANGED <<study, vars, crawlVars, osiVars, lsmVars, syncVars, videoVars, clicksVars, feedVars, limiterVars, ringVars>>
FileSync(A) ==
  /\ study = "sync" /\ A
  /\ UNCHANGED <<study, vars, crawlVars, osiVars, lsmVars, docsVars, videoVars, clicksVars, feedVars, limiterVars, ringVars>>
Pipeline(A) ==
  /\ study = "video" /\ A
  /\ UNCHANGED <<study, vars, crawlVars, osiVars, lsmVars, docsVars, syncVars, clicksVars, feedVars, limiterVars, ringVars>>
Aggregator(A) ==
  /\ study = "clicks" /\ A
  /\ UNCHANGED <<study, vars, crawlVars, osiVars, lsmVars, docsVars, syncVars, videoVars, feedVars, limiterVars, ringVars>>
NewsFeed(A) ==
  /\ study = "feed" /\ A
  /\ UNCHANGED <<study, vars, crawlVars, osiVars, lsmVars, docsVars, syncVars, videoVars, clicksVars, limiterVars, ringVars>>
RateLimit(A) ==
  /\ study = "limiter" /\ A
  /\ UNCHANGED <<study, vars, crawlVars, osiVars, lsmVars, docsVars, syncVars, videoVars, clicksVars, feedVars, ringVars>>
Cluster(A) ==
  /\ study = "ring" /\ A
  /\ UNCHANGED <<study, vars, crawlVars, osiVars, lsmVars, docsVars, syncVars, videoVars, clicksVars, feedVars, limiterVars>>

ShortenerNext ==
  \/ \E h \in Handlers :
       \/ \E s \in Servers, u \in Urls : Shortener(Create(h, s, u))
       \/ \E s \in Servers, c \in Asked : Shortener(Resolve(h, s, c))
       \/ Shortener(NextId(h)) \/ Shortener(Refill(h)) \/ Shortener(Allocate(h)) \/ Shortener(Insert(h))
       \/ Shortener(Lookup(h)) \/ Shortener(Fill(h)) \/ Shortener(Fail(h))
  \/ \E c \in Asked : Shortener(Expire(c))
  \/ \E s \in Servers : Shortener(Restart(s))

CrawlerNext ==
  \/ \E x \in Handlers :
       \/ \E u \in Spellings : Crawler(Crawl!Admit(x, u))
       \/ Crawler(Crawl!AddIfNew(x)) \/ Crawler(Crawl!Push(x)) \/ Crawler(Crawl!ListHost(x))
       \/ Crawler(Crawl!NextUrl(x)) \/ Crawler(Crawl!ReadHosts(x)) \/ Crawler(Crawl!ReadSize(x))
       \/ Crawler(Crawl!TryOpen(x)) \/ Crawler(Crawl!Pop(x)) \/ Crawler(Crawl!ReadLeft(x))
       \/ Crawler(Crawl!Unlist(x)) \/ Crawler(Crawl!Fail(x))
  \/ \E h \in Crawl!HostSet : Crawler(Crawl!GateExpires(h))

SimulatorNext ==
  \/ \E t \in Osi!Values("transport") : Simulator(Osi!ChooseTransport(t))
  \/ \E d \in Osi!Values("direction") : Simulator(Osi!ChooseDirection(d))
  \/ \E d \in Osi!Values("detail") : Simulator(Osi!ChooseDetail(d))
  \/ \E layer \in Cards : Simulator(Osi!ClickCard(layer))
  \/ Simulator(Osi!PointerEnters) \/ Simulator(Osi!PointerLeaves) \/ Simulator(Osi!TimerFires)
  \/ Simulator(Osi!FlushSync) \/ Simulator(Osi!HostTurn)

EngineNext ==
  \/ \E k \in StoreKeys : Engine(Lsm!Delete(k)) \/ \E v \in StoreValues : Engine(Lsm!Put(k, v))
  \/ Engine(Lsm!Flush) \/ Engine(Lsm!Compact)

EditorsNext ==
  \/ \E v \in 0..Docs!Version : \E op \in Docs!EditsOf(texts[v + 1]) : Editors(Docs!Submit(v, op))
  \/ Editors(Docs!Snapshot)

FileSyncNext ==
  \E x \in Agents :
    \/ \E p \in Paths : FileSync(Sync!Pull(x, p)) \/ \E f \in Files : FileSync(Sync!Push(x, p, f))
    \/ \E c \in Sync!Chunks : FileSync(Sync!PutChunk(x, c)) \/ FileSync(Sync!GetChunk(x, c))
    \/ FileSync(Sync!Diff(x)) \/ FileSync(Sync!Missing(x)) \/ FileSync(Sync!CommitManifest(x))
    \/ FileSync(Sync!Pulled(x)) \/ FileSync(Sync!Die(x))

PipelineNext ==
  \E r \in Runs :
    \/ \E f \in Video!Tasks \cup {0} : Pipeline(Video!Process(r, f))
    \/ Pipeline(Video!SkipFailing(r)) \/ Pipeline(Video!Exists(r)) \/ Pipeline(Video!Put(r))
    \/ Pipeline(Video!CountDone(r)) \/ Pipeline(Video!PutManifest(r)) \/ Pipeline(Video!SetLive(r))
    \/ Pipeline(Video!Die(r))

AggregatorNext ==
  \/ \E h \in Handlers :
       \/ \E i \in Impressions : Aggregator(Clicks!Ingest(h, i))
       \/ \E e \in Clicks!Emissions : Aggregator(Clicks!Emit(h, e))
       \/ Aggregator(Clicks!FirstTime(h)) \/ Aggregator(Clicks!AddAndFlush(h)) \/ Aggregator(Clicks!Raise(h))
  \/ Aggregator(Clicks!Restart)

NewsFeedNext ==
  \/ \E x \in Authors : NewsFeed(Feed!AddPost(x)) \/ \E u \in Readers : NewsFeed(Feed!AddFollow(u, x))
  \/ \E p \in 1..MaxPosts : NewsFeed(Feed!Publish(p)) \/ NewsFeed(Feed!ApiDies(p))
  \/ NewsFeed(Feed!Poll) \/ NewsFeed(Feed!Count) \/ NewsFeed(Feed!ReadFollowers) \/ NewsFeed(Feed!AddToMany)
  \/ NewsFeed(Feed!Ack) \/ NewsFeed(Feed!WorkerDies)
  \/ \E u \in Readers : NewsFeed(Feed!ReadTimeline(u))
  \/ NewsFeed(Feed!Answer)

LimiterNext ==
  \/ RateLimit(Limiter!FixedWindow) \/ RateLimit(Limiter!Tick)
  \/ \E now \in Limiter!Readings :
       \/ RateLimit(Limiter!TokenBucket(now))
       \/ \E draw \in Draws : RateLimit(Limiter!SlidingWindow(now, draw))

RingNext ==
  \/ \E n \in Nodes : Cluster(Ring!AddNode(n)) \/ Cluster(Ring!RemoveNode(n))
  \/ \E k \in RingKeys, v \in StoreValues : Cluster(Ring!Put(k, v))

StudiesNext ==
  \/ ShortenerNext \/ CrawlerNext \/ SimulatorNext \/ EngineNext \/ EditorsNext
  \/ FileSyncNext \/ PipelineNext \/ AggregatorNext \/ NewsFeedNext
  \/ LimiterNext \/ RingNext

studiesVars ==
  <<study, vars, crawlVars, osiVars, lsmVars, docsVars, syncVars, videoVars, clicksVars, feedVars,
    limiterVars, ringVars>>

StudiesSpec == StudiesInit /\ [][StudiesNext]_studiesVars

-----------------------------------------------------------------------------
\* The type invariant of each study, of its variables, in its own states.
Types ==
  CASE study = "shortener" -> TypeOK
    [] study = "crawler"   -> Crawl!TypeOK
    [] study = "simulator" -> Osi!TypeOK
    [] study = "engine"    -> Lsm!TypeOK
    [] study = "docs"      -> Docs!TypeOK
    [] study = "sync"      -> Sync!TypeOK
    [] study = "video"     -> Video!TypeOK
    [] study = "clicks"    -> Clicks!TypeOK
    [] study = "feed"      -> Feed!TypeOK
    [] study = "limiter"   -> Limiter!TypeOK
    [] study = "ring"      -> Ring!TypeOK

\* The properties of the instances, under their own names; what each says, and of which
\* code, is in its module.
SeenOnce == study = "crawler" => Crawl!SeenOnce
PopsWithinWindows == study = "crawler" => Crawl!PopsWithinWindows
BarFollowsPointer == study = "simulator" => Osi!BarFollowsPointer
ScreenSpec == Osi!ScreenSpec
ReadsLastWrite == study = "engine" => Lsm!ReadsLastWrite
EditsKept == study = "docs" => Docs!EditsKept
Restorable == study = "sync" => Sync!Restorable
LiveWhenWhole == study = "video" => Video!LiveWhenWhole
ExactOnceSettled == study = "clicks" => Clicks!ExactOnceSettled
FeedComplete == study = "feed" => Feed!FeedComplete
RoutedToLastWrite == study = "ring" => Ring!RoutedToLastWrite
RateBounded == study = "limiter" => Limiter!RateBounded
=============================================================================
