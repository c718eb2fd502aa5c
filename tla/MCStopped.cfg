CONSTANTS
    Objects <- MCObjects
    Category <- MCCategory
    Refused = {4}
    None = None
    StreamMode = "polling"
    MaxChanges = 2
    MaxFailures = 2
SPECIFICATION Spec
INVARIANT StoppedIsDegraded
CHECK_DEADLOCK FALSE
