SPECIFICATION FairSpec
CONSTANTS
    Procs = {p1}
    alice = alice
    Owner = Owner
    People = {alice}
    MaxCoHosts = 1
    Offsets = {1, 2}
    WarnWindow = 1
    Dates = {1, 2}
    Retentions = {1}
    DefaultRetention = 1
    Requests <- AllRequests
    MaxRequests = 4
    MaxTime = 4
    MaxRestarts = 1
    MaxFaults = 1
INVARIANTS NothingTwice
PROPERTIES ExpiredIsDeleted
