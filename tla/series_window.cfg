SPECIFICATION FairSpec
CONSTANTS
    Window = 2
    Week = 1
    MonthStart <- Calendar
    Rules = {"monthly"}
    Starts = {1}
    Limits = {0, 3}
    Ends = {0}
    NewLimits = {0}
    NewEnds <- EndChanges
    NewDates = {0}
    MaxRequests = 2
    MaxTime = 1
    MaxUpsets = 1
INVARIANTS TypeOK NoDoubleBooking LimitRespected ChangesReachAll LateBounded
PROPERTIES WindowRefilled
CHECK_DEADLOCK FALSE
