SPECIFICATION FairSpec
CONSTANTS
    Procs = {p1, p2}
    NoProc = NoProc
    g1 = g1
    g2 = g2
    g3 = g3
    g4 = g4
    Guests = {g1, g2, g3, g4}
    NoGuest = NoGuest
    MaxRows = 5
    MaxInit = 2
    MaxPlus = 1
    ImportPlus <- BelowZero
    MaxRequests = 2
    Events <- AllEvents
    Requests <- AllRequests
    Population <- AllTables
    Faults = TRUE
INVARIANTS TypeOK AttendeesSound
PROPERTIES RemovedStaysRemoved RequestsAnswered
