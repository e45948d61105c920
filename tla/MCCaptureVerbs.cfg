\* The verbs beside the trigger, one with a diff of its own: one row of two
\* fields, two transactions, a named, an unset and an unfit context.
SPECIFICATION Spec
CONSTANTS
    r1 = r1
    alice = alice
    Sessions = {s1, s2}
    Rows = {r1}
    Fields = {f1, f2}
    Values = {v1}
    Null = Null
    Absent = Absent
    NoSubject = NoSubject
    Names = {alice}
    System = System
    Unset = Unset
    Unfit = Unfit
    Actions = {"expired_token", "adjusted"}
    MaxTx = 2
    MaxEntries = 2
    Calls <- MCCalls
SYMMETRY SessionSymmetry
INVARIANTS
    TypeOK
    TxidsNameOneFate
    ColumnsTellTable
CHECK_DEADLOCK FALSE
