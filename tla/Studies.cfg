\* Small instances of eleven parts, each on its own: two of every actor that can meet
\* another, one failure.  Deadlock is not checked: bounds on ids, windows, versions and
\* posts stop a study.
SPECIFICATION StudiesSpec
CONSTANTS
  Servers = {s1, s2}
  Handlers = {h1, h2}
  Urls = {p, q}
  Aliases = {1}
  Asked = {1}
  Batch = 2
  Start = 0
  MaxLeases = 2
  MaxFailures = 1
  NoHandler = NoHandler
  NoUrl = NoUrl
  NoCode = NoCode
  NoServer = NoServer
  u1 = u1
  u1b = u1b
  u2 = u2
  u3 = u3
  ux = ux
  a = a
  b = b
  NoHost = NoHost
  Hosts <- TwoHosts
  Spellings <- FiveUrls
  Normalize <- Collapse
  HostOf <- OnHost
  Disallowed <- OneDisallowed
  MaxWindows = 2
  Cards = {4, 7}
  MaxQueue = 2
  StoreKeys = {k1, k2}
  StoreValues = {p, q}
  Tombstone = Tombstone
  Absent = Absent
  Threshold = 2
  MaxSegments = 3
  MaxDiskErrors = 1
  MaxVersion = 5
  Agents = {h1, h2}
  Paths = {p, q}
  c1 = c1
  c2 = c2
  NoPath = NoPath
  Files <- SharedChunks
  Runs = {h1, h2}
  Segments = 2
  Renditions = 2
  i1 = i1
  i2 = i2
  i3 = i3
  i4 = i4
  Impressions <- FourClicks
  EventTime <- ClickTimes
  Window = 2
  Lateness = 1
  NoImpression = NoImpression
  Authors = {a, b}
  Readers = {h1, h2}
  CelebThreshold = 2
  Cap = 1
  Limit = 1
  NoReader = NoReader
  PollCount = 1
  MaxPosts = 2
  MaxCrashes = 1
  RuleLimit = 2
  Unit = 2
  Draws = {1, 2}
  MaxLag = 1
  MaxLead = 1
  MaxTime = 8
  MaxDenied = 1
  MaxRepeated = 1
  n1 = n1
  n2 = n2
  n3 = n3
  k1 = k1
  k2 = k2
  Nodes = {n1, n2, n3}
  RingKeys = {k1, k2}
  Positions <- OnRing
  Hash <- KeyHash
INVARIANTS
  Types IdsAccounted CacheAgrees SeenOnce PopsWithinWindows BarFollowsPointer
  ReadsLastWrite EditsKept Restorable LiveWhenWhole ExactOnceSettled FeedComplete RateBounded RoutedToLastWrite
PROPERTIES ScreenSpec
SYMMETRY Symm
CHECK_DEADLOCK FALSE
