\* A client may stop: no deadlock check.
SPECIFICATION FairSpec
CONSTANTS
    Callers = {"c1", "c2"}
    MaxSecret = 3
    MaxFaults = 3
    Loads <- ProxyLoads
    Senders = {"s1", "s2", "s3"}
    Legs <- LegsHere
    Places <- PlacesHere
    Second = 2
INVARIANTS
    ProxySafety
    RateKept
PROPERTIES
    DeliveryEnds
    NeverReinstated
    Settles
CHECK_DEADLOCK FALSE
