SPECIFICATION Spec
CONSTANTS
    IdLB = 2
    MaxPid = 2
    MaxOid = 3
    MaxNumOid = 2
    Attrs = {tm, at}
    Tmstmp = tm
    Atomics = at
    CollPtrs = {}
    Faults = TRUE
VIEW StoreView
INVARIANTS AllocationFresh Contained AttrsOwned IdCacheSound
