SPECIFICATION FairSpec
CONSTANTS
    Keys = {"config", "services"}
    Kinds <- MCKinds
    Readers = {r1}
    Writers = {"w1", "w2"}
    HasReplica = TRUE
    MaxVersion = 1
    NoEntry = NoEntry
    NoKey = NoKey
INVARIANTS
    StaleIsExplained
PROPERTIES
    EventuallyFresh
