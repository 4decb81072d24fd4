SPECIFICATION MCSpec
CONSTANTS
  a = a
  b = b
  c = c
  d = d
  Tabs = {t1, t2}
  Rows <- MCRows
  FirstRows <- MCFirstRows
  Shared = {1}
  Filters <- MCFilters
  Limits = {1, 2}
  MaxGestures = 3
  MaxFaults = 1
  None = None
  Folders = {a, b}
  Root = Root
  FolderNames <- MCFolderNames
  CardList <- MCCardList
  Boards <- MCBoards
  MaxMoves = 3
  MaxAsked = 2
  MaxLost = 1
  Nowhere = Nowhere
  Ids = {c, d}
  Caches <- MCCaches
  Concurrency = 1
  MaxSteps = 5
  MaxOutages = 1
  Never = Never
INVARIANTS TableShowsTheServer CoveredWhileWriting FoldersShowTheServer NothingVanishes OpeningTestsAll
PROPERTY CacheOutlivesFailures
CHECK_DEADLOCK FALSE
