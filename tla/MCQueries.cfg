CONSTANTS
    Ids <- MCIds
    Kind <- MCKind
    Name <- MCName
    Host <- MCHost
    EdgeKinds <- MCEdgeKinds
    Loads <- MCLoads
    Requests <- MCRequests
    MaxOthers = 2
SPECIFICATION Spec
INVARIANTS
    TypeOK
    PartialExactly
    ResultConnected
PROPERTIES
    Answered
    ApplyNotStarved
