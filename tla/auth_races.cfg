SPECIFICATION Spec
CONSTANTS
    Procs = {p1, p2}
    Emails = {e1, e2}
    NoEmail = NoEmail
    Admins = {e1}
    MaxLinks = 2
    MaxSessions = 3
    MaxTime = 2
    LinkTTL = 1
    SessionTTL = 1
    Faults = TRUE
INVARIANTS TypeOK AccountsSound NoReplay AdminAsConfigured
SYMMETRY ProcSymmetry
