\* progress of a timer DELETE
SPECIFICATION FairSpec
CONSTANTS
    c1 = c1
    c2 = c2
    Command <- One
    NoCommand = none
    KindOf <- OneDelete
    Ttl <- Ttl1
    MaxTime = 3
    MaxGen = 1
    MaxEpoch = 1
    MaxOwnership = 1
    MaxInFlight = 1
    LeaseTerm = 1
    AllowSameSecond = FALSE
PROPERTIES
    InboxSettles
    AssignedResolves
\* The Agent may be down for good: crashed, with no connection left.
CHECK_DEADLOCK FALSE
