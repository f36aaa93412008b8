\* The callers may stop: no deadlock check.
SPECIFICATION AllSpec
CONSTANTS
    none = none
    c1 = c1
    c2 = c2
    k1 = k1
    m1 = m1
    v1 = v1
    v2 = v2
    Callers = {c1, c2}
    Keys = {k1}
    NoKey = NoKey
    Contents = {m1}
    Variants = {v1, v2}
    Asked <- AskedHere
    Window = 1
    Horizon = 2
    MaxRows = 2
    Tables = {"t"}
    TableColumns = {"a", "b"}
    Values = {1}
    Null = none
    Declarations <- ColumnsDeclared
    RowKeys = {"k"}
    NoRowKey = ""
    MatchLimit = 5
    MaxTableRows = 2
    MaxRecords = 2
    Given <- GivenRows
    Batches <- GivenBatches
    MaxBatch = 2
    ConflictColumns = {"a"}
    Plans <- PlansMade
    ReadIds = {1, 2, 3}
    ReadColumns = {"k", "v"}
    Stored <- StoredRows
    Other <- OtherRows
    NoValue = 99
    Overridings <- OverridesMade
    TableAsks <- TablesAsked
    NoFilter <- Unfiltered
    NoSort = "none"
    MaxTime = 1
    MaxOverrides = 2
    MaxRowEdits = 1
    MaxReads = 1
    AccountIds = {"a1", "a2"}
    EnvAccount = "a1"
    MaxSaves = 3
    MaxCalls = 5
    MaxBoots = 3
    Senders = {c1, c2}
    Addresses = {"me", "ann", "bob"}
    Own = {"me"}
    Domains = {"x"}
    CoveredBy <- Covered
    EnvDomains = {"x"}
    Legacies <- Inherited
    Means <- Spelt
    Asks <- Letters
    SendLoads <- LoadsOfSends
    Mailboxes = {"a", "b"}
    OperationShapes <- Shapes
    LegacyOperation <- Pseudo
    NoOperation = none
    MaxSends = 2
    MaxReplies = 2
    MaxFaults = 1
INVARIANTS
    WindowGuard
    AnswersTruthful
    DataSafety
    ReadsSafety
    AccountsSafety
    RecipientsSafety
    OperationsSafety
PROPERTIES
    ImplementsAtMostOnce
CHECK_DEADLOCK FALSE
