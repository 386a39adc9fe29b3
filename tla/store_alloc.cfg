SPECIFICATION Spec
CONSTANTS
    IdLB = 2
    MaxPid = 3
    MaxOid = 3
    MaxNumOid = 2
    Attrs = {}
    Tmstmp = tm
    Atomics = at
    CollPtrs = {}
    Faults = FALSE
VIEW StoreView
INVARIANTS TypeOK AllocationFresh Contained UserObjectHasFile
PROPERTIES ErrorHasNoEffect
