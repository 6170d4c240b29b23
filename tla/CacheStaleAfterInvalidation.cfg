SPECIFICATION Spec
CONSTANTS
    Keys = {"theme", "config"}
    Kinds <- ThemeKinds
    Readers = {r1}
    Writers = {w1}
    HasReplica = FALSE
    MaxVersion = 2
    NoEntry = NoEntry
    NoKey = NoKey
INVARIANTS
    NextRequestReloads
