SPECIFICATION MCSpec
CONSTANTS
    Callers = {c1, c2}
    Patient = {c1}
    Endless = {}
    Nobody = Nobody
    Lost = Lost
    LockFaults = {"down", "reply", "crash", "clear"}
    Attempts = {a1, a2}
    Max = 2
    MaxUnlimited = 1
    Faults = {"down", "command", "crash"}
INVARIANT TypesOK
INVARIANT MutualExclusion
INVARIANT WindowAdmitsMax
INVARIANT OneRowPerAttempt
INVARIANT CounterHasExpiry
PROPERTY LeaseSpec
PROPERTY KeyIsFreed
PROPERTY CallsReturn
PROPERTY LockedAccountReopens
