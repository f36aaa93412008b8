SPECIFICATION Spec
CONSTANTS
    Threads = {t1}
    Routines = {"unsubscribe"}
    MaxKeys = 1
    MaxStarts = 1
    MaxFaults = 0
INVARIANTS
    TokensResolve
