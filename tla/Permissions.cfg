SPECIFICATION MCSpec
CONSTANTS
    Builds <- MCBuilds
    Sensitive <- SensitiveCodes
    Scanners = {s1}
    Callers <- MCCallers
    Lists <- MCLists
    MaxEdits = 3
CHECK_DEADLOCK FALSE
INVARIANT TypeOK
INVARIANT ScannedIsLive
INVARIANT SettledIsExact
INVARIANT SystemRolesWork
INVARIANT AdminStaysOrdinary
INVARIANT GuestChangesNothing
