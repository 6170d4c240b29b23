SPECIFICATION FairSpec
CONSTANTS
    addr1 = addr1
    ADDR1 = ADDR1
    addr2 = addr2
    Requests = {r1, r2}
    Seeds = {s1}
    Named = {s1, r1}
    Kinds <- AllKinds
    Statuses = {"pending", "confirmed", "cancelled"}
    Prices = {0, 5}
    NoPrice = NoPrice
    Emails = {addr1, ADDR1, addr2}
    NoEmail = NoEmail
    Lower <- MCLower
    SeedEmail = addr1
    NoRow = NoRow
INVARIANTS
    AuditExplainsRows
    OldValueIsReplaced
    TypeOK
    AllOrNothing
    PortalBookingHasCustomer
    DuplicatesOnlyWhenConcurrent
PROPERTIES
    NoLostUpdate
    EveryRequestIsAnswered
