\* The exported write routes, mounted by a host.
SPECIFICATION SurfaceSpec
CONSTANTS
    Null = Null
    Wrong = Wrong
    MaxStored = 1
    member = member
    clerk = clerk
    stranger = stranger
    Callers = {member, clerk, stranger}
    Authentic = {member, clerk}
    Granted <- MCGranted
    Probed = {"action"}
INVARIANT NeverOverHttp
