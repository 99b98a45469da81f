SPECIFICATION PagesSpec
CONSTANTS
  t1 = t1
  t2 = t2
  h1 = h1
  h2 = h2
  c1 = c1
  c2 = c2
  n1 = n1
  n2 = n2
  Entity = {"listed"}
  Facts = {"f", "g"}
  NoMatch = NoMatch
  MaxReplaced = 2
  MaxRequests = 2
  Customer = {c1, c2}
  Order <- DeskOrder
  Names = {n1, n2}
  NoRow = NoRow
  Unread = Unread
  Matched <- DeskMatched
  PageSize = 2
  MaxVersion = 2
  MaxTasks = 2
  MaxDecisions = 1
  Key = {"k1", "k2"}
  NoKey = NoKey
  MaxChanges = 1
  Tab <- TabPair
  List = {"us"}
  Content = {"plain", "with alias"}
  RowsOf <- IndexRows
  Handle <- HandlePair
  NoHandle = NoHandle
  NoContent = NoContent
  BatchSize = 1
  MaxLoads = 2
  Entry <- NameEntry
  Queries <- NameQueries
  Letters <- NameLetters
  Titles = {"dr"}
  Sounds <- SoundsOf
  K = 2
  Overfetch = 1
  DfCap = 1
  MaxLexical = 1
  MaxKeys = 3
  Override <- NoOverride
  NoDob = NoDob
  NoCountry = NoCountry
  Reference <- TransferRefs
  KeyOf <- KeyOfRef
  SafeOf <- SafeOfRef
  Files <- TransferFiles
  MaxRows = 3
  NoPreview = NoPreview
  MaxPicks = 2
  MaxImports = 2
  MaxOthers = 1
  MaxPages = 2
  feed1 = feed1
  feed2 = feed2
  p1 = p1
  p2 = p2
  Feed <- FeedPair
  Attempts = 2
  BodyLimit = 2
  Publisher <- PublisherPair
  NoPublisher = NoPublisher
  NoTree = NoTree
  Streamed <- FirstFeed
  AliasFeeds <- StreamFeeds
  PartyRefs = {"1", "2"}
  MaxChunk = 4
  MaxFeed = 20
  MaxWindow = 9
  Absent = Absent
  Malformed = Malformed
  Null = Null
  Sources <- SourcePair
  Enriching <- OneEnriched
  Ceilings <- SomeCeilings
  FeedAge = 1
  MaxClock = 3
  MaxBuilds = 2
  DeployedTrees <- SevenTrees
  Pool = 2
  Expected <- Expectations
  AgeLimits <- SomeLimits
  Gradings <- BothGradings
  Tries = 2
  MaxDay = 2
  MaxDeploys = 2
INVARIANTS DecisionOnSeenFacts ClearIsTrue ViewsFollowTheKey QueriesSeeTheList PublishedAliasIsListed ImportsAreAsShown SnapshotIsWhole StreamFindsTheWhole BundleSaysWhatItIs GateIsSound
CHECK_DEADLOCK FALSE
