SPECIFICATION TSpec
CONSTANTS
    IdLB = 2
    MaxPid = 2
    MaxOid = 3
    MaxNumOid = 2
    Attrs = {a1}
    Tmstmp = tm
    Atomics = at
    CollPtrs = {}
    Faults = TRUE
    a1 = a1
    Requests <- ListRequests
PROPERTIES CreateDelivers CompletedWorkSurvives
VIEW TargetView
