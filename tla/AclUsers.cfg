SPECIFICATION Spec
CONSTANTS
    Users = {a1, a2, u1}
    Admins = {a1, a2}
    Super = Super
    Roles = {Super, r1}
    NewRoles = {}
    Perms = {c1}
    Procs = {p1}
    Miss = Miss
    Ops = {"assignUsers", "removeUsers", "guard"}
    Faults = {}
INVARIANT CacheAgrees
