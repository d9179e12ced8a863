SPECIFICATION Spec
CONSTANTS
    Procs = {p1, p2}
    NoProc = NoProc
    g1 = g1
    g2 = g2
    g3 = g3
    g4 = g4
    Guests = {g1, g2, g3, g4}
    NoGuest = NoGuest
    MaxRows = 6
    MaxInit = 3
    MaxPlus = 1
    ImportPlus = {1}
    MaxRequests = 3
    Events <- OpenWaitlist
    Requests <- CapacityRequests
    Population <- DrainedTables
    Faults = FALSE
SYMMETRY ProcSymmetry
INVARIANT CapacityRespected
INVARIANT WaitlistDrained
PROPERTY AllocatesSeats
