SPECIFICATION Spec
CONSTANTS
    Tabs = {t1, t2}
    MaxBatches = 1
    Visited = {"categories", "complete"}
SYMMETRY Symmetry
INVARIANTS
    CatalogBehindSteps
    ForwardIsEarned
    ResumesWhereLeft
