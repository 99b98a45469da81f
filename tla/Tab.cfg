SPECIFICATION TabSpec
CONSTANTS
  A = A
  B = B
  q1 = q1
  q2 = q2
  Lists = {A, B}
  Selections <- TabSelections
  Kinds <- TabKinds
  CallersWait = TRUE
  MaxCalls = 3
  Query = {q1, q2}
  Level <- TabLevels
  CatalogList = {A, B}
  UsList = A
  Empty = Empty
  NoAnswer = NoAnswer
  Found <- FoundIn
  Phone = TRUE
  Supported = TRUE
  MaxSearches = 2
  MaxRuntimeCalls = 3
  Tab = {t1, t2}
  NoTab = NoTab
  SchemaVersion = 2
  MaxAttempts = 4
  InitialDelay = 1
  MaxDelay = 2
  ReleaseTime = 4
  MaxWorkers = 3
  MaxPosts = 2
  Catalog = {A, B}
  DefaultLists = {A}
  Threshold = {55, 65}
  Overridable = {A}
  Name = {n1}
  Blank = Blank
  Unset = Unset
  BookSize = 1
  MayFail = {"load", "name", "lists", "reload", "screen", "config"}
  MaxEdits = 1
  MaxApplies = 2
  MaxMounts = 2
  c1 = c1 c2 = c2 e1 = e1 e2 = e2 f1 = f1 f2 = f2
  r1 = r1 r2 = r2 i1 = i1 i2 = i2 v1 = v1
  Customer <- TwoCustomers
  Reference <- References
  Identity <- Identities
  Version <- OneVersion
  Entity <- OneEntity
  Fingerprint <- OneFingerprint
  Disposition <- OneDisposition
  NoVersion = NoVersion
  NoFingerprint = NoFingerprint
  NoStatus = NoStatus
  NoRow = NoRow
  MaxTrail = 2
  WorkerMayDie = TRUE
INVARIANTS EngineIsCurrent OneModel DisplayComesToRest BusyIsNotOurPast
           RequestsSeeTheSchema OffWasAsked ErasureComplete RecordedDecisionSurvives
PROPERTY CallsEnd
CHECK_DEADLOCK FALSE
