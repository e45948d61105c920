\* Two sessions, two rows of one field, three transactions: enough for a
\* transaction that begins first to write last, for a batch over both rows
\* and for a row deleted and inserted again.
SPECIFICATION Spec
CONSTANTS
    r1 = r1
    alice = alice
    Sessions = {s1, s2}
    Rows = {r1, r2}
    Fields = {f1}
    Values = {v1}
    Null = Null
    Absent = Absent
    NoSubject = NoSubject
    Names = {}
    System = System
    Unset = Unset
    Unfit = Unfit
    Actions = {}
    MaxTx = 3
    MaxEntries = 2
    Calls = {}
SYMMETRY SessionSymmetry
INVARIANTS
    TrailTellsTable
    DiffsChain
PROPERTIES
    AppendOnly
    ImplementsLedger
CHECK_DEADLOCK FALSE
