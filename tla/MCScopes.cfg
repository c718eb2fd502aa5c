CONSTANTS
    Slashed <- NoSlashes
    LooksLikeCSI = {}
    CSIRules <- MCRules
    ControllerRules = {}
    Templates <- MCTemplates
    Initial <- MCInitial
    MaxChanges = 3
    MaxFailures = 1
SPECIFICATION Spec
INVARIANTS
    NodesMatchRebuild
    EdgesMatchRebuild
CHECK_DEADLOCK FALSE
