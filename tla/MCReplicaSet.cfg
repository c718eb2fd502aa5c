CONSTANTS
    Slashed <- NoSlashes
    LooksLikeCSI = {}
    CSIRules <- NoRules
    ControllerRules = {}
    Templates <- MCTemplates
    Initial <- MCInitial
    MaxChanges = 2
    MaxFailures = 0
SPECIFICATION Spec
INVARIANTS
    NodesMatchRebuild
CHECK_DEADLOCK FALSE
