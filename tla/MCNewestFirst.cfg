\* A transaction that begins first and writes last is listed below.
SPECIFICATION HistorySpec
CONSTANTS
    Sessions = {s1, s2}
    Rows = {r1}
    Tab = r1
    Fields = {f1}
    Values = {v1}
    Null = Null
    Absent = Absent
    NoSubject = NoSubject
    Names = {}
    System = System
    Unset = Unset
    Unfit = Unfit
    Actions = {}
    MaxTx = 3
    MaxEntries = 2
    PageSize = 2
    Calls = {}
SYMMETRY SessionSymmetry
INVARIANTS
    NewestFirst
CHECK_DEADLOCK FALSE
