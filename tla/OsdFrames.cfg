SPECIFICATION FairSpec
CONSTANTS
    Client = {c1}
    Family = {"menu"}
    NoCopy = NoCopy
    NoFrame = NoFrame
    NoObservation = NoObservation
    NoSession = NoSession
    NoBinding = NoBinding
    Nothing = Nothing
    MaxSurface = 2
    MaxSequence = 4
    MaxDrops = 1
    MaxUpsets = 1
INVARIANTS TypeOK ViewInv GapsAreSeen UnchangedIsShown
PROPERTIES ViewerCatchesUp ImplementsAccess
CHECK_DEADLOCK FALSE
