\* One row stored before the decorator first runs.
SPECIFICATION FairSpec
CONSTANTS
    unitA = unitA
    unitB = unitB
    bogus = bogus
    OrgUnits = {unitA, unitB}
    OtherUnits = {}
    NoUnit = NoUnit
    Gone = Gone
    Checks = {}
    Clients <- TwoClients
    ScopedRows = {gadget}
    PlainRows = {}
    MaxRows = 1
PROPERTIES
    DecoratorConverges
CHECK_DEADLOCK FALSE
