SPECIFICATION Spec
CONSTANTS
    o1 = o1
    o2 = o2
    o3 = o3
    b1 = b1
    b2 = b2
    Operation <- AnyOperation
    Backend <- BothBackends
    NoRequest = NoRequest
    NoAssignment = NoAssignment
    NoBinding = NoBinding
    NoContent = NoContent
    x = x
    y = y
    z = z
    Content <- AnyContent
    Id <- Schedules
    NoVisit = NoVisit
    MaxEpoch = 2
    MaxRevision = 2
    MaxUpsets = 1
CONSTRAINTS NamedAgentsRestart EditsMeetFewer
SYMMETRY Symmetry
INVARIANTS TypeOK TimerInv OwnershipInv AnswerInv ExclusiveTimer SurvivorWasRenamed BoundByOwnOperation CreateDispatchedFirst
PROPERTIES BasisStands TimerPromiseKept
CHECK_DEADLOCK FALSE
