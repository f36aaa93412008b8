SPECIFICATION Spec
CONSTANTS
    Threads = {"c1", "c2"}
    Urls = {"u1", "u2"}
    NoUrl = "none"
    MaxKeys = 2
    MaxPreviews = 4
INVARIANTS
    PostsWhereApproved
CHECK_DEADLOCK FALSE
