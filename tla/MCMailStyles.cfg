\* The callers may stop, and a mailbox may stay as it is: no deadlock check.
SPECIFICATION Spec
CONSTANTS
    Callers = {"webgui"}
    Messages = {"m1", "m2"}
    MaxCalls = 2
    MaxPasses = 2
    Uids = {1, 2}
    MaxValidity = 2
    Inventory <- StylesheetOnly
    Sheet <- PageSheet
    Semantic = {}
    MaxResources = 4
    MaxNested = 1
    MaxDecoys = 0
    Accounts = {"a", "b"}
    Mail <- ArrivingMail
    Deliveries = {1}
    Recipient <- OneRecipient
    NoDelivery = 0
    NoRecipient = ""
    Threshold = 2
    Limit = 3
    MaxEdits = 1
    Restarts = 1
    Boxes = {"in", "junk"}
    Inbox = "in"
    Junk = "junk"
    First <- FirstUids
    MaxUid = 3
    MaxOthers = 2
    Mailboxes = {"A", "B"}
    NoMessage = "-"
    Named <- Resources
    LegacyRows <- EarlierRows
    Layout <- MessagesIn
    MaxPlaceUid = 2
    MaxMoves = 1
    MaxBoots = 1
INVARIANTS
    StylesShowTheirResources
CHECK_DEADLOCK FALSE
