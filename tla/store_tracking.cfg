SPECIFICATION TypedSpec
CONSTANTS
    IdLB = 2
    MaxPid = 2
    MaxOid = 5
    MaxNumOid = 1
    Attrs = {}
    Tmstmp = tm
    Atomics = at
    CollPtrs = {1}
    Faults = FALSE
PROPERTIES CreationKeepsMembers
