SPECIFICATION Spec
CONSTANTS
    Users = {u1}
    Tokens = {t1, t2}
    Procs = {p1}
    None = None
    Ops = {"login", "refresh", "logout"}
    Faults = {}
INVARIANT RevokedNeverAccepted
CHECK_DEADLOCK FALSE
