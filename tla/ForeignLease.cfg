SPECIFICATION ControlSpec
CONSTANTS
    Client = {c1, c2}
    Surface = {s1, s2}
    NoSurface = NoSurface
    NoView = NoView
    NoInput = NoInput
    NoLease = NoLease
    MaxLeases = 2
    MaxInputs = 2
    MaxRevision = 2
    MaxUpsets = 2
INVARIANTS ControlledByHolder
CHECK_DEADLOCK FALSE
