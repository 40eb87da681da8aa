SPECIFICATION FairSpec
CONSTANTS
    Users = {u1}
    Tokens = {t1, t2}
    Procs = {p1}
    None = None
    Ops = {"login", "refresh", "logout", "revoke", "touch", "list"}
    Faults = {"down", "evict", "evictSet", "expire"}
PROPERTY RefreshSucceeds
