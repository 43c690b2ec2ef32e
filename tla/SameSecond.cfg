\* a replay in the second of the first delivery runs again
SPECIFICATION Spec
CONSTANTS
    c1 = c1
    c2 = c2
    Command <- Two
    NoCommand = none
    KindOf <- CutAndProbe
    Ttl <- Ttl2
    MaxTime = 2
    MaxGen = 1
    MaxEpoch = 1
    MaxOwnership = 1
    MaxInFlight = 1
    LeaseTerm = 1
    AllowSameSecond = TRUE
PROPERTIES
    CompletedIsRejected
\* The Agent may be down for good: crashed, with no connection left.
CHECK_DEADLOCK FALSE
