\* Any assembly, and one row, of which any one column is at, beyond and
\* short of its limits, blank or missing.
SPECIFICATION SurfaceSpec
CONSTANTS
    Null = Null
    Wrong = Wrong
    MaxStored = 1
    member = member
    clerk = clerk
    stranger = stranger
    Callers = {member, clerk, stranger}
    Authentic = {member, clerk}
    Granted <- MCGranted
    Probed <- AllColumns
INVARIANTS
    SurfaceTypeOK
    RulesCoverConstraints
    BuiltServiceKeepsRules
