SPECIFICATION MCSpec
CONSTANTS
    Users = {a1, a2, u1}
    Admins = {a1, a2}
    Super = Super
    Roles = {Super, r1, r2}
    NewRoles = {r2}
    Perms = {c1, c2}
    Procs = {p1, p2}
    Miss = Miss
    Ops = {"assignRoles", "removeRoles", "updateUser", "removeUser", "createRole", "removeRole", "assignPermissions", "removePermissions", "assignUsers", "removeUsers", "guard", "warm", "kick"}
    Faults = {"down", "mysql"}
SYMMETRY Symmetry
INVARIANT TypeOK
INVARIANT SerialCacheAgrees
INVARIANT SerialRowsRefer
INVARIANT SuperRoleIsFixed
INVARIANT SerialSupersRemain
INVARIANT CacheWithinHistory
