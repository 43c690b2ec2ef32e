\* recording cut and a probe that replace each other in the inbox, and replays of both
SPECIFICATION Spec
CONSTANTS
    c1 = c1
    c2 = c2
    Command <- Two
    NoCommand = none
    KindOf <- CutAndProbe
    Ttl <- Ttl1
    MaxTime = 3
    MaxGen = 1
    MaxEpoch = 2
    MaxOwnership = 1
    MaxInFlight = 1
    LeaseTerm = 1
    AllowSameSecond = FALSE
INVARIANTS
    IInv
    JInv
PROPERTIES
    ImplementsOneShot
\* The Agent may be down for good: crashed, with no connection left.
CHECK_DEADLOCK FALSE
