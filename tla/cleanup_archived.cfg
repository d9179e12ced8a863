SPECIFICATION FairSpec
CONSTANTS
    Procs = {p1}
    alice = alice
    Owner = Owner
    People = {alice}
    MaxCoHosts = 1
    Offsets = {1, 2}
    WarnWindow = 1
    Dates = {1, 2}
    Retentions = {1}
    DefaultRetention = 1
    Requests <- DeleteRequests
    MaxRequests = 2
    MaxTime = 3
    MaxRestarts = 0
    MaxFaults = 0
PROPERTY ArchivedIsDeleted
