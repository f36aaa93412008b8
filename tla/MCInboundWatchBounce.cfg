SPECIFICATION Spec
CONSTANTS
    Accounts = {"a"}
    Mail <- OneSoftBounce
    Deliveries = {1}
    Recipient <- OneRecipient
    NoDelivery = 0
    NoRecipient = ""
    Threshold = 2
    Limit = 2
    MaxPasses = 3
    MaxEdits = 0
    Restarts = 0
INVARIANTS
    SingleSoftBounceSpares
CHECK_DEADLOCK FALSE
