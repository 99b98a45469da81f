SPECIFICATION OriginSpec
CONSTANTS
    c1 = c1  c2 = c2  e1 = e1  e2 = e2  f1 = f1  f2 = f2
    r1 = r1  r2 = r2  i1 = i1  i2 = i2  v1 = v1
    Customer <- OneCustomer
    Reference <- OneReference
    Identity <- OneIdentity
    Version <- OneVersion
    Entity <- TwoEntities
    Fingerprint <- Fingerprints
    Disposition <- OneDisposition
    NoVersion = NoVersion
    NoFingerprint = NoFingerprint
    NoStatus = NoStatus
    NoRow = NoRow
    MaxTrail = 3
    WorkerMayDie = FALSE
    t1 = t1  t2 = t2  k1 = k1  k2 = k2  a = a  b = b
    Tab <- TwoTabs
    Key <- Keys
    Id <- Names
    NoKey = NoKey
    Corrupt = Corrupt
    NoDb = NoDb
    NoCall = NoCall
    Refused <- OneTab
    Changer <- OneTab
    OldNotes = {TRUE}
    MaxInbox = 1
INVARIANTS
    LedgerExplainsBoard
    TrailIsAChain
    DecisionFitsFacts
    OldStorageKept
    ToldOrCurrent
    ResetHolds
PROPERTIES
    AppendOnlyLedger
    ImplementsBook
SYMMETRY Symmetry
