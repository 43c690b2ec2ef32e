\* timer CREATE and OSD input, late and doubled calls, while ownership changes and deadlines pass
SPECIFICATION Spec
CONSTANTS
    c1 = c1
    c2 = c2
    Command <- Two
    NoCommand = none
    KindOf <- CreateAndOsd
    Ttl <- Ttl1
    MaxTime = 3
    MaxGen = 1
    MaxEpoch = 1
    MaxOwnership = 2
    MaxInFlight = 2
    LeaseTerm = 1
    AllowSameSecond = FALSE
INVARIANTS
    AtMostOnceEffect
    EffectLeavesEvidence
    EffectNeedsReceipt
    ResultIsTruthful
\* The Agent may be down for good: crashed, with no connection left.
CHECK_DEADLOCK FALSE
