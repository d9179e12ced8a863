SPECIFICATION Spec
CONSTANTS
    m1 = m1
    m2 = m2
    a1 = a1
    e1 = e1
    e2 = e2
    Msgs = {m1, m2}
    Addressed <- SameOrOther
    Trackable = {m1}
    Emails = {a1}
    Events = {e1, e2}
    Global = Global
    Registered = {"email", "sms"}
    Hooks = {h1}
    MaxAttempts = 2
    MaxReports = 2
    MaxFaults = 1
INVARIANTS TypeOK SuppressionKept LogHonest StatusIsHighest
CHECK_DEADLOCK FALSE
