SPECIFICATION Spec
CONSTANTS
    Tenants = {"t1", "t2"}
    FirstTier <- MCFirstTier
    Plans = {"basic", "pro"}
    Prices = {1, 2}
    FirstPrice <- MCFirstPrice
    Statuses = {"trialing", "canceled"}
    InvoiceStatuses = {"sent", "paid"}
    Ages <- MCAges
    MaxNow = 3
    MaxWrites = 2
    MaxRuns = 2
    NoRow = NoRow
    NoTime = NoTime
CHECK_DEADLOCK FALSE
INVARIANTS
    TermsAreKept
    ChurnIsExplained
PROPERTIES
    SummaryIsConsistent
    MoneyIsBilledOnce
    SeedLeavesNobodyOut
