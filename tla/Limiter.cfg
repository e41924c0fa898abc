SPECIFICATION Spec
CONSTANTS
    Clients = {c1, c2}
    Requests = {r1, r2}
    Rate = 2
    Burst = 6
    Cost = 3
    MaxTime = 4
SYMMETRY Symmetry
INVARIANT
    RateIsKept
PROPERTIES
    ImplementsWindow
CHECK_DEADLOCK FALSE
