SPECIFICATION Spec
CONSTANTS
    Admins = {a1, a2}
    Ids = {1, 2, 3}
    MaxClicks <- MCClicks
    MaxFails = 1
    NoRow = NoRow
    NoForm = NoForm
    NoCall = NoCall
SYMMETRY Symmetry
CHECK_DEADLOCK FALSE
INVARIANTS
    TypeOK
    ShownIsCurrent
    DuplicatesAreResends
    WaitsAreExplained
PROPERTIES
    NothingRevertedUnlessStale
