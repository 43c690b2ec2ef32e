\* execution under a lapsed lease
SPECIFICATION Spec
CONSTANTS
    c1 = c1
    c2 = c2
    Command <- One
    NoCommand = none
    KindOf <- OneProbe
    Ttl <- Ttl2
    MaxTime = 4
    MaxGen = 1
    MaxEpoch = 1
    MaxOwnership = 1
    MaxInFlight = 1
    LeaseTerm = 1
    AllowSameSecond = FALSE
PROPERTIES
    LeaseAuthorizesExecution
\* The Agent may be down for good: crashed, with no connection left.
CHECK_DEADLOCK FALSE
