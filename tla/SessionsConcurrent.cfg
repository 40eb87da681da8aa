SPECIFICATION Spec
CONSTANTS
    Users = {u1, u2}
    Tokens = {t1, t2}
    Procs = {p1, p2}
    None = None
    Ops = {"login", "refresh", "logoutAll", "status"}
    Faults = {"crash", "command", "evict"}
SYMMETRY Symmetry
INVARIANT RedisFollowsMySQL
INVARIANT MintsForOwner
INVARIANT GivenTokensHaveRows
PROPERTY RevocationIsFinal
