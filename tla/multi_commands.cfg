SPECIFICATION MCSpec
CONSTANTS
    IdLB = 2
    MaxPid = 3
    MaxOid = 4
    MaxNumOid = 1
    A1 = a1
    A2 = a2
    CasAttr = cas
    FaAttr = fa
    Tmstmp = tm
    Atomics = at
    Attrs = {cas, fa, a1, a2, tm, at}
    CollPtrs = {1}
    Word = 3
    Faults = TRUE
    DataPids = {2}
    ListLens = {0, 20, 32, 40}
    AttrLens = {0, 20, 60, 128}
    QueryLens = {0, 12, 13, 17, 21}
    Requests <- SmallRequests
    Criteria <- SmallCriteria
    MemberLists <- SmallLists
    NameLists <- SmallNames
VIEW MultiView
INVARIANTS AttrTypeOK WalkComplete
PROPERTIES ImplementsRegisters PagesAdvance AttrListSound QueryAnswers
