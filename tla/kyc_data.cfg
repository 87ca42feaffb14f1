\* Canonical JSON, proofs of fields and calls of the program, each in turn.
SPECIFICATION KycDataSpec
CONSTANTS
    Sides = {client, server}
    Keys = {"fullName", "name", "nationality"}
    KeyOrder <- SomeOrder
    Values <- SomeValues
    Assigned <- SomeAssigned
    MaxDepth = 2
    MaxEdits = 4
    Holders = {"i1", "i2"}
    Persons = {w1, w2}
    PiiChoices <- SomePii
    KycLevels = {1, 2}
    FieldLists <- SomeLists
    OtherValue = "other"
    Disclosures = {d1}
    MaxChanges = 2
    Nothing = Nothing
    Callers = {c1, c2}
    Requests <- SomeRequests
    Deployed <- SomeAccounts
    MaxTries = 2
    Absent = Absent
SYMMETRY KycDataSymmetry
INVARIANTS
    HashNamesContent
    ProofsVerify
    RootsCommit
    StoredHashHoldsAtItsLevel
    OnceUnderItsKey
    ReturnedIsExecuted
CHECK_DEADLOCK FALSE
