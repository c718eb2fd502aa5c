CONSTANTS
    Slashed <- NoSlashes
    LooksLikeCSI = {}
    CSIRules <- NoRules
    ControllerRules = {}
    Templates <- MCTemplates
    Initial <- MCInitial
    MaxChanges = 4
    MaxFailures = 0
SPECIFICATION Spec
INVARIANT EdgesMatchRebuild
CHECK_DEADLOCK FALSE
