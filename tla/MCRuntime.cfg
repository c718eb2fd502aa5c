CONSTANTS
    Objects <- MCObjects
    Category <- MCCategory
    Refused = {4}
    None = None
    StreamMode = "informer"
    MaxChanges = 3
    MaxFailures = 2
SPECIFICATION FairSpec
INVARIANTS
    TypeOK
    FacadeMirrorsStatus
    CountersAccount
    LastKnownGood
    FreshButBlind
PROPERTIES
    NoRegress
    Converges
CHECK_DEADLOCK FALSE
