SPECIFICATION MCSpec
CONSTANTS
    Builds <- MCBuilds
    Sensitive <- SensitiveCodes
    Scanners = {s1}
    Callers <- MCCallers
    Lists <- MCLists
    MaxEdits = 0
CHECK_DEADLOCK FALSE
INVARIANT RuntimeConfigIsPublic
