SPECIFICATION Spec
CONSTANTS
    o1 = o1
    o2 = o2
    o3 = o3
    b1 = b1
    b2 = b2
    Operation <- AnyOperation
    Backend <- OneBackend
    NoRequest = NoRequest
    NoAssignment = NoAssignment
    NoBinding = NoBinding
    NoContent = NoContent
    x = x
    y = y
    z = z
    Content <- AnyContent
    Id <- Schedules
    NoVisit = NoVisit
    MaxEpoch = 1
    MaxRevision = 2
    MaxUpsets = 0
SYMMETRY OperationSymmetry
INVARIANT DeletedTimerIsGone
CHECK_DEADLOCK FALSE
