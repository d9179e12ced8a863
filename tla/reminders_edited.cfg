SPECIFICATION Spec
CONSTANTS
    Workers = {w1}
    Rem = {r1}
    NoRem = NoRem
    Editable = {r1}
    Guests = {g1}
    Reachable = {g1}
    Groups <- AllOrOne
    MaxTime = 1
    MaxEdits = 1
    MaxMishaps = 0
    Mishaps = {"error", "crash", "stop"}
INVARIANT NoDuplicateSendsEver
CHECK_DEADLOCK FALSE
