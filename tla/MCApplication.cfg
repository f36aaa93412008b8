\* Clients may stop, and nothing need happen to a running application: no deadlock check.
SPECIFICATION AllSpec
CONSTANTS
    c1 = c1
    c2 = c2
    j1 = j1
    nobody = nobody
    NoCaller = nobody
    Callers = {c1, c2}
    Jobs = {j1}
    Period = 1
    Horizon = 2
    MaxVersions = 4
    Writers = {"w1", "w2"}
    MaxVersion = 3
    ControlLoads <- RuntimeLoads
    Savers = {"c1", "c2", "c3"}
    Files = {1, 2, 3}
    Contents = {"short", "long"}
    Size <- SizeOf
    MaxFiles = 2
    MaxTotal = 3
    StoreLoads <- FileLoads
    LinkedFiles = {1}
    LinkedContents = {"x"}
    NoContent = "none"
    Pages = {1}
    Labels = {"l1", "l2"}
    LinkKeys = {"k"}
    NoKey = ""
    Historic <- HistoricLinks
    MaxChain = 2
    MaxNow = 2
    MaxCaps = 1
    MaxLinks = 1
    MaxGeneric = 2
    Mixes <- LinkMixes
    Threads = {"c1", "c2"}
    Routines = {"download", "confirmation", "unsubscribe"}
    MaxKeys = 3
    MaxStarts = 2
    MaxFaults = 1
    CurrentRelease = 1
    Ttl = 2
    LastInstant = 3
    MaxReleases = 2
    Items = {"i1"}
    Texts = {"short", "long"}
    Pieces <- PiecesOf
    Projects = {"p"}
    Global = "global"
    MaxRevision = 3
    MaxCalls = 4
    MaxDeleted = 1
    Entries = {"a", "b", "c"}
    Foreign = "foreign"
    Priority <- PriorityOf
    EntrySize <- CharactersOf
    FirstSaved <- StartingWith
    Questions <- AskedOf
    TopN = 2
    Limit = 2
    Budget = 1000
    Least = 240
    Cut = 24
    Marker = 23
    MaxQuestions = 2
    MaxRewrites = 2
    Deliveries = {1}
    Links <- LinksOfOne
    Visitors <- SomeVisitors
    Pauses = {200, 1900}
    Retention = 1500
    AmpLife = 1600
    MaxPauses = 2
    RequestLoads <- RequestMixes
INVARIANTS
    ServedOnce
    TasksSafety
    RuntimeSafety
    FilesSafety
    LinksSafety
    TelemetrySafety
    IndexSafety
    RetrievalSafety
PROPERTIES
    NoResurrection
    CompletedImmutable
    RuntimeSteps
CHECK_DEADLOCK FALSE
