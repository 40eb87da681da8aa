--------------------------- MODULE AccessControl ---------------------------
(***************************************************************************)
(* Who may do what in gvray-admin: the rows of user_roles and               *)
(* role_permissions that UsersService and RolesService change, and the      *)
(* permission cache PermissionsGuard decides with.                         *)
(*                                                                         *)
(* A request reads and checks (one action, on arrival), then issues its     *)
(* writes one by one: no handler opens a transaction.  A request that is    *)
(* refused changes nothing and is left out.                                *)
(***************************************************************************)
EXTENDS Naturals, FiniteSets

CONSTANTS
    Users,     \* user ids
    Admins,    \* those that hold the super role in the initial state
    Roles,     \* role ids
    NewRoles,  \* those that do not exist yet
    Super,     \* the role with roleKey SUPER_ROLE_KEY
    Perms,     \* permission codes (origin SYSTEM)
    Procs,     \* requests in flight at the same time (bound of the model)
    Miss,      \* no entry in the cache
    Ops,       \* the kinds of request
    Faults     \* what can go wrong

AllOps == {"assignRoles", "removeRoles", "updateUser", "removeUser",
           "createRole", "removeRole", "assignPermissions", "removePermissions",
           "assignUsers", "removeUsers", "guard", "warm", "kick"}
AllFaults == {"down", "mysql"}

ASSUME AccessAssumption ==
    /\ Admins \subseteq Users
    /\ NewRoles \subseteq Roles
    /\ Super \in Roles \ NewRoles
    /\ \A ps \in SUBSET Perms : ps # Miss
    /\ Ops \subseteq AllOps /\ Faults \subseteq AllFaults

VARIABLES
    users,    \* existing users
    roles,    \* existing roles
    unused,   \* role ids that have not been generated yet
    member,   \* user_roles: pairs <<user, role>>
    grants,   \* role_permissions: pairs <<role, permission>>
    cache,    \* perm:user:{userId}
    up,       \* RedisService._isAvailable
    req,      \* the requests in flight
    had       \* history: every permission a user has had in MySQL

tables == <<users, roles, unused, member, grants>>
vars == <<tables, cache, up, req, had>>

Pcs == {"idle", "ur_delete", "ur_create", "ur_remove", "ru_delete", "ru_create",
        "ru_remove", "u_delete", "r_delete", "r_create", "rp_delete", "rp_create",
        "rp_remove", "members", "evict", "g_get", "g_load", "g_set"}

Request == [op: AllOps \cup {"none"}, pc: Pcs,
            us: SUBSET Users, rs: SUBSET Roles, ps: SUBSET Perms]

Idle == [op |-> "none", pc |-> "idle", us |-> {}, rs |-> {}, ps |-> {}]

At(p, l) == req[p].pc = l
Goto(p, l) == req' = [req EXCEPT ![p].pc = l]
Finish(p) == req' = [req EXCEPT ![p] = Idle]
Quiet == \A p \in Procs : req[p] = Idle

-----------------------------------------------------------------------------
(* What the queries answer.                                                *)

Supers == {u \in users : <<u, Super>> \in member}
IsSuper(u) == u \in Supers

(* A row of user_roles whose role is gone makes every query that includes   *)
(* the role throw: the schema declares the relation as required.           *)
Readable(u) == \A r \in Roles : <<u, r>> \in member => r \in roles

PermsIn(m, g, u) == {c \in Perms : \E r \in Roles : <<u, r>> \in m /\ <<r, c>> \in g}
PermsOf(u) == PermsIn(member, grants, u)

(* validatePermissionAssignment                                            *)
MayGrant(a, ps) == ps = {} \/ IsSuper(a) \/ ps \subseteq PermsOf(a)

(* checkSuperAdminHierarchy and the ban on changing one's own account.      *)
MayTouch(a, u) == u \in users /\ u # a /\ Readable(u) /\ ~IsSuper(u)

Start(p, o, l, us, rs, ps) ==
    /\ req[p] = Idle
    /\ o \in Ops
    /\ req' = [req EXCEPT ![p] = [op |-> o, pc |-> l, us |-> us, rs |-> rs, ps |-> ps]]
    /\ UNCHANGED <<tables, cache, up, had>>

-----------------------------------------------------------------------------
(* Arrival of a request of actor a that passes its checks.                  *)

AssignRoles(p, a, u, rs) ==
    /\ MayTouch(a, u)
    /\ rs \subseteq roles
    /\ Super \in rs => IsSuper(a)
    /\ Start(p, "assignRoles", "ur_delete", {u}, rs, {})

RemoveRoles(p, a, u, rs) ==
    /\ MayTouch(a, u)
    /\ rs \subseteq roles
    /\ Start(p, "removeRoles", "ur_remove", {u}, rs, {})

(* A status in the body evicts the user's permissions.  An account may      *)
(* change its own, but not to disabled; another super admin's never.       *)
UpdateUser(p, a, u, disable) ==
    /\ \/ MayTouch(a, u)
       \/ u = a /\ u \in users /\ ~disable
    /\ Start(p, "updateUser", "evict", {u}, {}, {})

(* remove and removeMany                                                   *)
RemoveUser(p, a, us) ==
    /\ \A u \in us : MayTouch(a, u)
    /\ Start(p, "removeUser", "u_delete", us, {}, {})

CreateRole(p, a, r, ps) ==
    /\ r \in unused
    /\ \A q \in Procs : r \notin req[q].rs
    /\ MayGrant(a, ps)
    /\ Start(p, "createRole", "r_create", {}, {r}, ps)

(* remove and removeMany                                                   *)
RemoveRole(p, rs) ==
    /\ rs \subseteq roles /\ Super \notin rs
    /\ \A r \in rs, u \in Users : <<u, r>> \notin member
    /\ Start(p, "removeRole", "r_delete", {}, rs, {})

(* assignPermissions, and update with permissionIds.                        *)
AssignPermissions(p, a, r, ps) ==
    /\ r \in roles \ {Super}
    /\ <<a, r>> \notin member
    /\ MayGrant(a, ps)
    /\ Start(p, "assignPermissions", "rp_delete", {}, {r}, ps)

RemovePermissions(p, r, ps) ==
    /\ r \in roles \ {Super}
    /\ Start(p, "removePermissions", "rp_remove", {}, {r}, ps)

AssignUsers(p, a, r, us) ==
    /\ r \in roles
    /\ r = Super => Cardinality(us) >= 2 /\ IsSuper(a)
    /\ <<a, r>> \in member <=> a \in us
    /\ us \subseteq users
    /\ Start(p, "assignUsers", "ru_delete", us, {r}, {})

(* Mutant of RemoveUsers: the last two are not counted.                     *)
RemoveUsersUncounted(p, a, r, us) ==
    /\ r \in roles
    /\ a \notin us
    /\ r = Super => IsSuper(a)
    /\ Start(p, "removeUsers", "ru_remove", us, {r}, {})

RemoveUsers(p, a, r, us) ==
    /\ r \in roles
    /\ a \notin us
    /\ r = Super => IsSuper(a) /\ Cardinality(Supers \ us) >= 2
    /\ Start(p, "removeUsers", "ru_remove", us, {r}, {})

(* PermissionsGuard.canActivate for a user with a valid access token.       *)
Guard(p, u) == Start(p, "guard", "g_get", {u}, {}, {})

(* login and refreshAccessToken set the cache from MySQL.                   *)
Warm(p, u) == u \in users /\ Start(p, "warm", "g_load", {u}, {}, {})

(* OnlineUsersService.kickUser, after revokeAllUserTokens.                  *)
Kick(p, u) == Start(p, "kick", "evict", {u}, {}, {})

-----------------------------------------------------------------------------
(* The writes.  had follows the tables.                                    *)

Remember == had' = [u \in Users |-> had[u] \cup PermsIn(member', grants', u)]

UserRolesDelete(p) ==
    /\ At(p, "ur_delete")
    /\ member' = {m \in member : m[1] \notin req[p].us}
    /\ Goto(p, "ur_create")
    /\ UNCHANGED <<users, roles, unused, grants, cache, up, had>>

(* Mutant of UserRolesCreate: the columns are swapped.                      *)
UserRolesSwapped(p) ==
    /\ At(p, "ur_create")
    /\ member' = member \cup (req[p].rs \X req[p].us)
    /\ Goto(p, "evict")
    /\ UNCHANGED <<users, roles, unused, grants, cache, up>>
    /\ Remember

(* createMany without skipDuplicates: a row that is there already makes the *)
(* whole statement, and with it the request, fail.                         *)
UserRolesCreate(p) ==
    /\ At(p, "ur_create")
    /\ LET rows == req[p].us \X req[p].rs IN
         \/ /\ rows \cap member = {}
            /\ member' = member \cup rows
            /\ Goto(p, "evict")
         \/ /\ rows \cap member # {}
            /\ Finish(p)
            /\ UNCHANGED member
    /\ UNCHANGED <<users, roles, unused, grants, cache, up>>
    /\ Remember

UserRolesRemove(p) ==
    /\ At(p, "ur_remove")
    /\ member' = member \ (req[p].us \X req[p].rs)
    /\ Goto(p, "evict")
    /\ UNCHANGED <<users, roles, unused, grants, cache, up, had>>

RoleUsersDelete(p) ==
    /\ At(p, "ru_delete")
    /\ member' = {m \in member : m[2] \notin req[p].rs}
    /\ Goto(p, "ru_create")
    /\ UNCHANGED <<users, roles, unused, grants, cache, up, had>>

(* No eviction follows: the request is over.                               *)
RoleUsersCreate(p) ==
    /\ At(p, "ru_create")
    /\ LET rows == req[p].us \X req[p].rs IN
         member' = IF rows \cap member = {} THEN member \cup rows ELSE member
    /\ Finish(p)
    /\ UNCHANGED <<users, roles, unused, grants, cache, up>>
    /\ Remember

RoleUsersRemove(p) ==
    /\ At(p, "ru_remove")
    /\ member' = member \ (req[p].us \X req[p].rs)
    /\ Finish(p)
    /\ UNCHANGED <<users, roles, unused, grants, cache, up, had>>

(* Mutant of UserDelete: the rows of user_roles stay.                       *)
UserDeleteAlone(p) ==
    /\ At(p, "u_delete")
    /\ users' = users \ req[p].us
    /\ Finish(p)
    /\ UNCHANGED <<roles, unused, member, grants, cache, up, had>>

(* Prisma deletes the rows that refer to the user (onDelete: Cascade).      *)
UserDelete(p) ==
    /\ At(p, "u_delete")
    /\ users' = users \ req[p].us
    /\ member' = {m \in member : m[1] \notin req[p].us}
    /\ Finish(p)
    /\ UNCHANGED <<roles, unused, grants, cache, up, had>>

RoleDelete(p) ==
    /\ At(p, "r_delete")
    /\ roles' = roles \ req[p].rs
    /\ member' = {m \in member : m[2] \notin req[p].rs}
    /\ grants' = {g \in grants : g[1] \notin req[p].rs}
    /\ Finish(p)
    /\ UNCHANGED <<users, unused, cache, up, had>>

RoleCreate(p) ==
    /\ At(p, "r_create")
    /\ roles' = roles \cup req[p].rs
    /\ unused' = unused \ req[p].rs
    /\ Goto(p, "rp_create")
    /\ UNCHANGED <<users, member, grants, cache, up, had>>

RolePermissionsDelete(p) ==
    /\ At(p, "rp_delete")
    /\ grants' = {g \in grants : g[1] \notin req[p].rs}
    /\ Goto(p, "rp_create")
    /\ UNCHANGED <<users, roles, unused, member, cache, up, had>>

(* Mutant of RolePermissionsCreate: the users of the role keep their cache. *)
RolePermissionsNoEvict(p) ==
    /\ At(p, "rp_create")
    /\ LET rows == req[p].rs \X req[p].ps IN
         grants' = IF rows \cap grants = {} THEN grants \cup rows ELSE grants
    /\ Finish(p)
    /\ UNCHANGED <<users, roles, unused, member, cache, up>>
    /\ Remember

RolePermissionsCreate(p) ==
    /\ At(p, "rp_create")
    /\ LET rows == req[p].rs \X req[p].ps IN
         \/ /\ rows \cap grants = {}
            /\ grants' = grants \cup rows
            /\ IF req[p].op = "createRole" THEN Finish(p) ELSE Goto(p, "members")
         \/ /\ rows \cap grants # {}
            /\ Finish(p)
            /\ UNCHANGED grants
    /\ UNCHANGED <<users, roles, unused, member, cache, up>>
    /\ Remember

(* Mutant of RolePermissionsRemove: the permissions are taken from every    *)
(* role.                                                                   *)
RolePermissionsRemoveAll(p) ==
    /\ At(p, "rp_remove")
    /\ grants' = {g \in grants : g[2] \notin req[p].ps}
    /\ Goto(p, "members")
    /\ UNCHANGED <<users, roles, unused, member, cache, up, had>>

RolePermissionsRemove(p) ==
    /\ At(p, "rp_remove")
    /\ grants' = grants \ (req[p].rs \X req[p].ps)
    /\ Goto(p, "members")
    /\ UNCHANGED <<users, roles, unused, member, cache, up, had>>

-----------------------------------------------------------------------------
(* The cache.  PermissionCacheService swallows every error of Redis.        *)

(* invalidateRoleUserCache: who has the role now?                           *)
Members(p) ==
    /\ At(p, "members")
    /\ req' = [req EXCEPT ![p].pc = "evict",
                          ![p].us = {u \in Users : \E r \in req[p].rs : <<u, r>> \in member}]
    /\ UNCHANGED <<tables, cache, up, had>>

Evict(p) ==
    /\ At(p, "evict")
    /\ \/ \E u \in req[p].us :
            /\ cache' = IF up THEN [cache EXCEPT ![u] = Miss] ELSE cache
            /\ req' = [req EXCEPT ![p].us = @ \ {u}]
       \/ /\ req[p].us = {}
          /\ Finish(p)
          /\ UNCHANGED cache
    /\ UNCHANGED <<tables, up, had>>

GuardGet(p) ==
    /\ At(p, "g_get")
    /\ \A u \in req[p].us :
         IF up /\ cache[u] # Miss THEN Finish(p) ELSE Goto(p, "g_load")
    /\ UNCHANGED <<tables, cache, up, had>>

(* Mutant of GuardLoad: the permissions of all users are collected.         *)
GuardLoadAll(p) ==
    /\ At(p, "g_load")
    /\ req' = [req EXCEPT ![p].pc = "g_set", ![p].ps = UNION {PermsOf(v) : v \in users}]
    /\ UNCHANGED <<tables, cache, up, had>>

(* loadPermissionsFromDb: null, and nothing to cache, without the user.     *)
(* A login whose user has just been deleted caches an empty list.          *)
GuardLoad(p) ==
    /\ At(p, "g_load")
    /\ \A u \in req[p].us :
         \/ /\ u \in users /\ Readable(u)
            /\ req' = [req EXCEPT ![p].pc = "g_set", ![p].ps = PermsOf(u)]
         \/ /\ u \notin users /\ req[p].op = "warm"
            /\ req' = [req EXCEPT ![p].pc = "g_set", ![p].ps = {}]
         \/ ~(u \in users /\ Readable(u)) /\ Finish(p)
    /\ UNCHANGED <<tables, cache, up, had>>

GuardSet(p) ==
    /\ At(p, "g_set")
    /\ \E u \in req[p].us :
         cache' = IF up THEN [cache EXCEPT ![u] = req[p].ps] ELSE cache
    /\ Finish(p)
    /\ UNCHANGED <<tables, up, had>>

(* DEFAULT_TTL elapses, or clearCache deletes the key.                      *)
Elapse(u) ==
    /\ cache[u] # Miss
    /\ cache' = [cache EXCEPT ![u] = Miss]
    /\ UNCHANGED <<tables, up, req, had>>

(* 'error' and 'end', or a command that failed; later 'connect'.            *)
RedisDown ==
    /\ "down" \in Faults /\ up
    /\ up' = FALSE
    /\ UNCHANGED <<tables, cache, req, had>>

RedisConnect ==
    /\ ~up
    /\ up' = TRUE
    /\ UNCHANGED <<tables, cache, req, had>>

(* MySQL throws at the next statement, or the process dies.                 *)
Abort(p) ==
    /\ "mysql" \in Faults
    /\ req[p] # Idle
    /\ Finish(p)
    /\ UNCHANGED <<tables, cache, up, had>>

-----------------------------------------------------------------------------
Init ==
    /\ users = Users
    /\ roles = Roles \ NewRoles
    /\ unused = NewRoles
    /\ member = Admins \X {Super}
    /\ grants = {Super} \X Perms
    /\ cache = [u \in Users |-> Miss]
    /\ up = TRUE
    /\ req = [p \in Procs |-> Idle]
    /\ had = [u \in Users |-> IF u \in Admins THEN Perms ELSE {}]

Arrive(p) ==
    \/ \E a, u \in Users, rs \in SUBSET Roles : AssignRoles(p, a, u, rs) \/ RemoveRoles(p, a, u, rs)
    \/ \E a, u \in Users, disable \in BOOLEAN : UpdateUser(p, a, u, disable)
    \/ \E a \in Users, us \in SUBSET Users : RemoveUser(p, a, us)
    \/ \E a \in Users, r \in Roles, ps \in SUBSET Perms :
          CreateRole(p, a, r, ps) \/ AssignPermissions(p, a, r, ps)
    \/ \E rs \in SUBSET Roles : RemoveRole(p, rs)
    \/ \E r \in Roles, ps \in SUBSET Perms : RemovePermissions(p, r, ps)
    \/ \E a \in Users, r \in Roles, us \in SUBSET Users :
          AssignUsers(p, a, r, us) \/ RemoveUsers(p, a, r, us)
    \/ \E u \in Users : Guard(p, u) \/ Warm(p, u) \/ Kick(p, u)

Write(p) ==
    \/ UserRolesDelete(p) \/ UserRolesCreate(p) \/ UserRolesRemove(p)
    \/ RoleUsersDelete(p) \/ RoleUsersCreate(p) \/ RoleUsersRemove(p)
    \/ UserDelete(p) \/ RoleDelete(p) \/ RoleCreate(p)
    \/ RolePermissionsDelete(p) \/ RolePermissionsCreate(p) \/ RolePermissionsRemove(p)

CacheStep(p) == Members(p) \/ Evict(p) \/ GuardGet(p) \/ GuardLoad(p) \/ GuardSet(p)

Next ==
    \/ \E p \in Procs : Arrive(p) \/ Write(p) \/ CacheStep(p) \/ Abort(p)
    \/ \E u \in Users : Elapse(u)
    \/ RedisDown \/ RedisConnect

Spec == Init /\ [][Next]_vars

-----------------------------------------------------------------------------
TypeOK ==
    /\ users \subseteq Users
    /\ roles \subseteq Roles /\ unused \subseteq Roles
    /\ member \subseteq Users \X Roles
    /\ grants \subseteq Roles \X Perms
    /\ DOMAIN cache = Users /\ \A u \in Users : cache[u] = Miss \/ cache[u] \subseteq Perms
    /\ up \in BOOLEAN
    /\ req \in [Procs -> Request]
    /\ had \in [Users -> SUBSET Perms]

(* "At least two super admins remain": when no request is under way.        *)
TwoSupersRemain == Quiet => Cardinality(Supers) >= 2

(* When no request is under way, what the guard would find in the cache is  *)
(* what MySQL says.                                                        *)
CacheAgrees == Quiet => \A u \in users : cache[u] \in {Miss, PermsOf(u)}

(* The guard never lets anybody through on a permission that is not, and    *)
(* never was, theirs, whatever was loaded, written or lost meanwhile.      *)
CacheWithinHistory == \A u \in Users : cache[u] # Miss => cache[u] \subseteq had[u]

(* No row of user_roles or role_permissions is left without its user, its   *)
(* role: MySQL has no foreign keys (relationMode = "prisma").              *)
NoDanglingRows ==
    Quiet => /\ \A m \in member : m[1] \in users /\ m[2] \in roles
             /\ \A g \in grants : g[1] \in roles

(* The super role exists, and has its permissions, for good.                *)
SuperRoleIsFixed == Super \in roles /\ {Super} \X Perms \subseteq grants
=============================================================================
