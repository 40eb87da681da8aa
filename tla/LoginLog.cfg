SPECIFICATION Spec
CONSTANTS
    Attempts = {a1}
    Max = 2
    MaxUnlimited = 1
    Faults = {}
INVARIANT LogTellsTruth
