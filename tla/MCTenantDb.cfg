SPECIFICATION FairSpec
CONSTANTS
    c1 = c1
    c2 = c2
    Tenants = {t1, t2}
    Rows = {k1}
    Requests = {r1, r2}
    Conns = {c1, c2}
    PoolOf <- OneInEach
    Pools <- TwoPools
    Primary = "pool"
    ReadPool = "readPool"
    Super = Super
    NoTenant = NoTenant
    NoConn = NoConn
    Initial = Initial
INVARIANTS
    IdleClientsAreClean
    ClientsAreConserved
    SeesOwnTenantOnly
PROPERTIES
    RefinesTenantStore
    EveryCallEnds
