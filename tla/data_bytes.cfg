SPECIFICATION DSpec
CONSTANTS
    IdLB = 2
    MaxPid = 2
    MaxOid = 2
    MaxNumOid = 1
    Attrs = {}
    Tmstmp = tm
    Atomics = at
    CollPtrs = {}
    Faults = FALSE
    Byte = {1, 2}
    MaxLen = 3
    MaxBuf = 3
    ULen = 3
    ULong = 16
    DscptrSize = 2
    MaxStride = 2
    Sgls <- SmallSgls
VIEW DataView
INVARIANTS DataTypeOK
PROPERTIES ImplementsByteStore FailedCreateAndWriteUndone
