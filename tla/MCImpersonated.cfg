\* A service that audits its own writes as the trigger would.
SPECIFICATION Spec
CONSTANTS
    r1 = r1
    alice = alice
    Sessions = {s1, s2}
    Rows = {r1}
    Fields = {f1}
    Values = {v1}
    Null = Null
    Absent = Absent
    NoSubject = NoSubject
    Names = {}
    System = System
    Unset = Unset
    Unfit = Unfit
    Actions = {}
    MaxTx = 2
    MaxEntries = 2
    Calls <- ImpersonatingCalls
SYMMETRY SessionSymmetry
INVARIANTS
    LaneTellsTable
CHECK_DEADLOCK FALSE
