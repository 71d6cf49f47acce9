\* Ten parts of the system, each on its own: what was stored, read or promised
\* stays so.
CONSTANTS
  u = u  c1 = c1  c2 = c2  p1 = p1  p2 = p2  p3 = p3  p4 = p4  p5 = p5
  stock1 = stock1  stock2 = stock2  annual = annual  interim = interim
  Partitions = {1}
  Uids = {u}
  MaxVersion = 2
  Compactors = {c1, c2}
  MinFileCount = 2
  MaxFiles = 6
  MaxBatches = 2
  MaxCrashes = 1
  MaxRepairs = 1
  OldPosts = {p1, p2, p3, p4, p5}
  PostPartitions = {1, 2}
  PartitionOf <- PostsPartition
  MaxPostVersion = 2
  OldIds = {1, 2}
  NewIds = {3, 4}
  LocalId = 1
  Recrawled = {p1, p3}
  MaxCrawls = 1
  MaxAttempts = 2
  Layouts <- QueriedLayouts
  QueryRows <- StoredRows
  Instruments = {stock1, stock2}
  HashOf <- Hashes
  Questions <- AskedQuestions
  MaxQueryFiles = 3
  SeqScopes = {"s", "t"}
  Contents <- SeqContents
  PartitionFor <- SeqPartitions
  Offers <- SeqOffers
  BufferRows = 2
  SeqComplete = whole
  MaxSeqRuns = 2
  MaxSequence = 5
  WatermarkStart = 1
  BoardKinds = {"forum", "news", "report"}
  Categories <- TwoCategories
  PageSize = 2
  FirstPosts = 4
  PageLimits = {0, 1}
  AttachmentLimit = 1
  StopRepeatPages = 2
  StopEmptyPages = 2
  MaxArrivals = 1
  MaxDeletions = 1
  MaxPage = 5
  MaxBoardRuns <- BoardRuns
  LastMonth = 4
  FirstNow = 3
  FirstArticles <- MonthArticles
  LockedArticles <- MonthLocked
  MonthPageSize = 2
  MonthPages = {1, 4}
  OverlapMonths = 1
  MaxNewArticles = 2
  MaxMonthRuns = 2
  FirstItems = 2
  ScrollRounds = {2, 9}
  StableRounds = 2
  HistoryRounds = 1
  LoadingRounds = 2
  DetailLimits = {0, 1}
  MaxNewItems = 1
  MaxTossRuns = 2
  Reports = {annual, interim}
  ReportTypes = {"annual", "interim"}
  TypeOf <- ReportTypesOf
  LookbackDays = 1
  HkexCommands <- ReportCommands
  LastDay = 3
  MaxHkexRuns = 2
  CommandSites = {"naver", "toss", "hkex"}
  ListedOptions <- InstrumentLists
  FileOptions <- InstrumentFiles
  RolloutUniverse <- Rollout
  Market = {"a", "b", "c", "d"}
  SliceSizes = {2}
  PageFlags = {0, 1, 2}
  MaxCommands = 3
SPECIFICATION KeptSpec
SYMMETRY AlikeCompactors
INVARIANTS
  KeptTypeOK SeenIsActive QueryAnswers RefusesTwoVersionsOnly WatermarkIsPrefix ListIsCovered
  NothingBehindTheCheckpoint AcceptedMonthIsCovered NextCrawlIsTold
  CommandDoesAsTyped
PROPERTIES KeepsNewest HistoryKeepsNewest SequentialKeepsPromise FreeFullIsComplete GoesOnWithAllAsked
CHECK_DEADLOCK FALSE
