SPECIFICATION HSpec
CONSTANTS
    Users = {u1, u2}
    Tokens = {t1, t2}
    Procs = {p1}
    None = None
    Ops = {"login", "refresh", "logoutAll", "list", "status", "touch", "revoke", "logout"}
    Faults = {"evict", "evictSet", "expire"}
SYMMETRY Symmetry
INVARIANT TypeOK
INVARIANT QuiescentAgreement
INVARIANT LiveSessionsAreListed
PROPERTY TruthSpec
