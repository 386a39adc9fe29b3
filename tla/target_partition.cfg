SPECIFICATION TSpec
CONSTANTS
    IdLB = 2
    MaxPid = 2
    MaxOid = 2
    MaxNumOid = 1
    Attrs = {a1}
    Tmstmp = tm
    Atomics = at
    CollPtrs = {}
    Faults = FALSE
    a1 = a1
    Requests <- AllRequests
PROPERTIES FailedPartitionUndone
