\* Two tables that can take each other's name; the trigger of one is given a
\* column that is not its key.
SPECIFICATION Spec
CONSTANTS
    Tables = {a, b}
    Keyed = {a}
    Names = {n1, n2}
    NoName = NoName
    Keys = {k1, k2}
    NoKey = NoKey
    TabName = n1
    TabKey = k1
    MaxTrail = 2
    MaxDDL = 3
INVARIANTS
    TabTypeOK
    TrailTellsKeys
PROPERTIES
    EmptyMeansUntouched
    NoneMeansUnaudited
    WantedMeansRecorded
CHECK_DEADLOCK FALSE
