SPECIFICATION Spec
CONSTANTS
    Tabs = {t1}
    MaxBatches = 2
    Visited = {"theme", "categories"}
INVARIANTS
    FormsAreSavedOnce
