CONSTANTS
    c1 = c1  c2 = c2  i1 = i1  i2 = i2  e1 = e1  e2 = e2  A = A  B = B
    Customer <- OneCustomer
    Identity <- OneIdentity
    Entity <- OneEntity
    List <- OneList
    Selections <- JustA
    HitsOf <- Matrix
    MaxPublish = 2
    Version <- Stamps12
    NoVersion = NoVersion
    NoRow = NoRow
    NoOne = NoOne
    Events = {"publish", "reload fails"}
SPECIFICATION FairSpec
PROPERTY
    PollNeverStops
