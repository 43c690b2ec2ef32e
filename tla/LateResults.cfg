\* timer MODIFY and media import, with results an older generation left behind
SPECIFICATION Spec
CONSTANTS
    c1 = c1
    c2 = c2
    Command <- Two
    NoCommand = none
    KindOf <- ModifyAndImport
    Ttl <- Ttl1
    MaxTime = 3
    MaxGen = 2
    MaxEpoch = 1
    MaxOwnership = 1
    MaxInFlight = 1
    LeaseTerm = 1
    AllowSameSecond = FALSE
INVARIANTS
    TypeOK
    EffectLeavesEvidence
    ResultIsTruthful
    StateFollowsJournal
    AcknowledgedIsRecorded
PROPERTIES
    QuarantineKeepsEvidence
\* The Agent may be down for good: crashed, with no connection left.
CHECK_DEADLOCK FALSE
