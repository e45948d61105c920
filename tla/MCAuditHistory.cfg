\* Pages of two entries and up to six to list: page boundaries fall between
\* tied and untied entries, and commits slip in between two pages.
SPECIFICATION HistorySpec
CONSTANTS
    Sessions = {s1, s2}
    Rows = {r1}
    Tab = r1
    Fields = {f1}
    Values = {v1}
    Null = Null
    Absent = Absent
    NoSubject = NoSubject
    Names = {}
    System = System
    Unset = Unset
    Unfit = Unfit
    Actions = {}
    MaxTx = 3
    MaxEntries = 2
    PageSize = 2
    Calls = {}
SYMMETRY SessionSymmetry
INVARIANTS
    HistoryTypeOK
    PagingSkipsNothing
    RealTimeOrder
CHECK_DEADLOCK FALSE
