CONSTANTS
    Objects <- MCObjects
    Category <- MCCategory
    Refused = {4}
    None = None
    StreamMode = "polling"
    MaxChanges = 2
    MaxFailures = 0
SPECIFICATION Spec
PROPERTY SeenIsLoaded
CHECK_DEADLOCK FALSE
