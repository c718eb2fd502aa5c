CONSTANTS
    Slashed <- MCSlashed
    LooksLikeCSI = {}
    CSIRules <- NoRules
    ControllerRules = {}
    Templates <- MCTemplates
    Initial <- MCInitial
    MaxChanges = 4
    MaxFailures = 1
SPECIFICATION Spec
INVARIANTS
    TypeOK
    NodesMatchRebuild
    EdgesMatchRebuild
    ImagesAreUsed
    OnePodPerName
PROPERTY
    SharedImagesSurvive
CHECK_DEADLOCK FALSE
