SPECIFICATION FairSpec
CONSTANTS
    Tenants = {"acme", "new1", "new2"}
    Slug <- MCSlug
    First = {"acme"}
    Managed = {"acme"}
    Tabs = {1, 2}
    Wanted <- MCWanted
    Callers = {1}
    TTL = 1
    Life = 2
    None = None
INVARIANTS
    OneTenantPerSubdomain
    ServedAsItself
    MismatchIsExplained
PROPERTIES
    RevocationTakesEffect
    ActiveTenantIsLetIn
