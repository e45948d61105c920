\* Every writer against every stage of the deployment, up to two trail rows,
\* with migrations and decorator runs that go on.
SPECIFICATION FairSpec
CONSTANTS
    unitA = unitA
    unitB = unitB
    bogus = bogus
    OrgUnits = {unitA, unitB}
    OtherUnits = {bogus}
    NoUnit = NoUnit
    Gone = Gone
    Checks = {"required"}
    Clients <- AllClients
    ScopedRows = {gadget}
    PlainRows = {plain}
    MaxRows = 2
INVARIANTS
    DeploymentTypeOK
    InstalledMeansKept
    RightfulWritesPass
PROPERTIES
    LabelsWhereRowLives
    FenceNeverOpens
    UnitsAreReal
    MigrationsFinish
CHECK_DEADLOCK FALSE
