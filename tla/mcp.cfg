SPECIFICATION SpecMcp
CONSTANTS
    Requests = {r1, r2}
    Clients <- Names
    Limit = 2
    Window = 2
    MaxTime = 4
    Tools <- AllTools
    Parameters <- Sent
SYMMETRY Symmetry
CHECK_DEADLOCK FALSE
INVARIANTS BurstBound RefusedOnlyWhenBusy CheckedIsServed
