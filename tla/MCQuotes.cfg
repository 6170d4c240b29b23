SPECIFICATION Spec
CONSTANTS
    None = None
    HalfUp <- Halves
    Services <- MCServices
    Commissions <- MCCommissions
    Contexts <- MCContexts
    TaxRates = {875}
    PageServices <- MCPageServices
    Jobs = {j1, j2}
SYMMETRY Symmetry
INVARIANTS
    TypeOK
    SubtotalIsClose
    CommissionsWithinLimits
    EarnedAsQuoted
    ReportsAgree
PROPERTIES
    PriceOfTheForm
