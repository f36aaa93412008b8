SPECIFICATION Spec
CONSTANTS
    c1 = c1
    c2 = c2
    k1 = k1
    m1 = m1
    single = single
    individual = individual
    Keys = {k1}
    NoKey = NoKey
    Contents = {m1}
    Variants = {single, individual}
    Individualized = {individual}
    Recipients = 2
    MaxAttempts = 2
    MaxRows = 2
    Horizon = 2
    Window = 1
    Callers = {c1}
    Asked <- AskedUnkeyed
    MaxFaults = 1
INVARIANTS
    EquivalentSendsOnce
