\* The callers may stop, and a mailbox may stay as it is: no deadlock check.
SPECIFICATION Spec
CONSTANTS
    Callers = {c1, c2}
    Messages = {"m1", "m2"}
    MaxCalls = 2
    MaxPasses = 2
    Uids = {1, 2}
    MaxValidity = 2
    Inventory <- PageResources
    Sheet <- PageSheet
    Semantic = {"leave"}
    MaxResources = 4
    MaxNested = 1
    MaxDecoys = 1
    Accounts = {"a", "b"}
    Mail <- ArrivingMail
    Deliveries = {1}
    Recipient <- OneRecipient
    NoDelivery = 0
    NoRecipient = ""
    Threshold = 2
    Limit = 3
    MaxEdits = 1
    Restarts = 1
    Boxes = {"in", "junk"}
    Inbox = "in"
    Junk = "junk"
    First <- FirstUids
    MaxUid = 3
    MaxOthers = 2
    Mailboxes = {"A", "B"}
    NoMessage = "-"
    Named <- Resources
    LegacyRows <- EarlierRows
    Layout <- MessagesIn
    MaxPlaceUid = 2
    MaxMoves = 1
    MaxBoots = 1
SYMMETRY CallerSymmetry
INVARIANTS
    MirrorsAfterQuietPass
    CachedCssIsLocal
    KeptContentFollows
    NothingPassedOver
    HardBounceHolds
    NothingLost
CHECK_DEADLOCK FALSE
