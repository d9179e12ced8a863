SPECIFICATION Spec
CONSTANTS
    Procs = {p1, p2}
    NoProc = NoProc
    g1 = g1
    g2 = g2
    g3 = g3
    g4 = g4
    Guests = {g1, g2, g3, g4}
    NoGuest = NoGuest
    MaxRows = 3
    MaxInit = 3
    MaxPlus = 1
    ImportPlus = {0}
    MaxRequests = 2
    Events <- OpenWaitlist
    Requests <- SelfUpdates
    Population <- FullTable
    Faults = FALSE
SYMMETRY ProcSymmetry
INVARIANT CapacityRespected
