CONSTANTS
    Slashed <- NoSlashes
    LooksLikeCSI = {}
    CSIRules <- MCRules
    ControllerRules <- MCControllerRules
    Templates <- MCTemplates
    Initial <- MCInitial
    MaxChanges = 3
    MaxFailures = 0
SPECIFICATION Spec
INVARIANTS
    KeptEdgesMatchRebuild
CHECK_DEADLOCK FALSE
