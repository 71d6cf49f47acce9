\* Seven parts of the system, each on its own: what ends, what settles, and
\* what holds meanwhile.
CONSTANTS
  Partitions = {1, 2}
  Uids = {u}
  MaxVersion = 1
  Compactors = {c1}
  MinFileCount = 2
  MaxFiles = 8
  MaxBatches = 3
  MaxCrashes = 2
  MaxRepairs = 0
  Sites = {s1, s2, s3}
  SiteWorkers = 2
  StageLimit <- OneSlot
  RecoveryOnly = FALSE
  SiteDatasets = 1
  MaxStageWork = 1
  PipelineItems = {item1, item2, item3}
  StageWorkers <- TwoByTwo
  QueueSizes <- OneEach
  Documents = {"document"}
  MaxContent = 2
  MaxBatched = 2
  Browsers = {"b1", "b2"}
  Leases = {"l", "m"}
  ChannelOf <- LeaseChannels
  ChannelLimit <- ChannelLimits
  RecycleAfter = 2
  OperationAttempts = 2
  Requests = {"r1", "r2"}
  MaxConcurrency = 1
  RequestAttempts = 2
  Proxies = {1, 2}
  Cooldown = 2
  ThrottleDelay = 1
  MaxDelay = 2
  FailureThreshold = 2
  BoardKinds = {"forum", "news", "report"}
  Categories <- CategoriesTwo
  PageSize = 2
  FirstPosts = 3
  PageLimits = {0, 1}
  AttachmentLimit = 1
  StopRepeatPages = 2
  StopEmptyPages = 2
  MaxArrivals = 1
  MaxDeletions = 1
  MaxPage = 5
  MaxBoardRuns <- OneRunEach
SPECIFICATION EndsSpec
INVARIANTS EndsTypeOK WorkersAreSound
PROPERTIES
  Converges EverySiteAnswers PipelineEnds SeenSettles EveryOperationEnds RequestsAnswered
  BoardCrawlEnds
CHECK_DEADLOCK FALSE
