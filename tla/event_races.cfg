SPECIFICATION Spec
CONSTANTS
    Procs = {p1, p2}
    alice = alice
    Owner = Owner
    People = {alice}
    MaxCoHosts = 1
    Offsets = {1, 2}
    WarnWindow = 1
    Dates = {1, 2}
    Retentions = {1}
    DefaultRetention = 1
    Requests <- StatusRequests
    MaxRequests = 3
    MaxTime = 4
    MaxRestarts = 1
    MaxFaults = 1
SYMMETRY ProcSymmetry
INVARIANT TypeOK
PROPERTY DeletedStaysDeleted
PROPERTY DeletedOnlyExpired
