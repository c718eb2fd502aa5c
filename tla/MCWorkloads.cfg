CONSTANTS
    Slashed <- NoSlashes
    LooksLikeCSI = {}
    CSIRules <- NoRules
    ControllerRules <- MCControllerRules
    Templates <- MCTemplates
    Initial <- MCInitial
    MaxChanges = 3
    MaxFailures = 0
SPECIFICATION Spec
INVARIANTS
    NodesMatchRebuild
    EdgesMatchRebuild
CHECK_DEADLOCK FALSE
