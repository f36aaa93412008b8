\* Clients may stop: no deadlock check.
SPECIFICATION AllSpec
CONSTANTS
    c1 = c1
    c2 = c2
    update = update
    pin = pin
    s1 = s1
    s2 = s2
    Callers <- MCCallers
    Operations <- MCOperations
    States <- MCStates
    TTL = 1
    Horizon = 2
    MaxRows = 2
    Bindings = {"b1", "b2"}
    LastInstant = 3
    MaxTokens = 2
    Projects = {"p1", "p2"}
    Items = {"i1"}
    Files = {"f1"}
    Global = "global"
    MaxRefs = 1
    Loads <- SteadyLoads
    Urls = {"u1", "u2"}
    NoUrl = "none"
    MaxKeys = 3
    MaxPreviews = 3
INVARIANTS
    NoDanglingReference
CHECK_DEADLOCK FALSE
