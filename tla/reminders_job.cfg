SPECIFICATION FairSpec
CONSTANTS
    Workers = {w1, w2}
    Rem = {r1, r2}
    NoRem = NoRem
    Editable = {r2}
    Guests = {g1, g2}
    Reachable = {g1, g2}
    Groups <- AllOrOne
    MaxTime = 1
    MaxEdits = 1
    MaxMishaps = 1
    Mishaps = {"error", "crash", "stop"}
INVARIANTS TypeOK NoDuplicateSends SendsWarranted
PROPERTIES KeepsPromise DueIsTaken
CHECK_DEADLOCK FALSE
