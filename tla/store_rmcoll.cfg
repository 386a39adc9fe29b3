SPECIFICATION Spec
CONSTANTS
    IdLB = 2
    MaxPid = 2
    MaxOid = 2
    MaxNumOid = 1
    Attrs = {}
    Tmstmp = tm
    Atomics = at
    CollPtrs = {}
    Faults = FALSE
PROPERTIES CollectionRemovalSparesObjects
