----------------------------- MODULE Permissions -----------------------------
(***************************************************************************)
(* The permission registry of gvray-admin and the guards that read it:     *)
(* the start-up scan that keeps the table permission in step with the      *)
(* controllers (permissions-scanner.service.ts), the seed that fills it    *)
(* and grants it to the system roles (prisma/seeds/permissions.ts), the    *)
(* role edits of roles.service.ts and the global guards of app.module.ts.  *)
(*                                                                         *)
(* A build is what is deployed: the routes its controllers declare and the *)
(* codes of its permissions.constant.ts.  A caller has three views of what  *)
(* he is, and any of them may be old: the role keys of his token, the list  *)
(* of codes Redis keeps for him and his roles in MySQL; how the last two    *)
(* come apart is in AccessControl.  Names, HTTP methods and descriptions of *)
(* permissions are left out.                                               *)
(***************************************************************************)
EXTENDS Routes, Naturals, FiniteSets

CONSTANTS
    Builds,     \* records [routes, catalogue]
    Sensitive,  \* codes marked sensitive
    Scanners,   \* scans running at the same time (bound of the model)
    Callers,    \* the users who call (bound of the model)
    Lists,      \* the lists of codes a role edit may carry (bound of the model)
    MaxEdits    \* role edits per behaviour (bound of the model)

(* Mutant of WriteMethods.                                                 *)
WriteMethodsNoPatch == {"POST", "PUT", "DELETE"}

(* WRITE_METHODS of guest-write.guard.ts.                                   *)
WriteMethods == {"POST", "PUT", "PATCH", "DELETE"}

RequiredBy(routes) == UNION {r.codes : r \in routes}
Codes == UNION {RequiredBy(b.routes) \cup b.catalogue : b \in Builds}

(* Controllers ask for codes of permissions.constant.ts only, public routes *)
(* for none, and role edits are neither public nor open to guests.          *)
ASSUME BuildsAssumption ==
    \A b \in Builds :
        /\ RequiredBy(b.routes) \subseteq b.catalogue
        /\ \A r \in b.routes : r.public => r.codes = {}
        /\ \A r \in b.routes :
              r.path = RolePermissionsPath /\ r.method \in WriteMethods => ~r.public /\ ~r.guestWrite

ASSUME MaxEditsAssumption == MaxEdits \in Nat

Roles == {"super_admin", "admin", "user", "guest"}

(* Users: the role keys of the token (jwt.strategy.ts), the roles in the     *)
(* table user_role, and the codes cached for him that those no longer give. *)
ASSUME CallersAssumption ==
    Callers \subseteq [claims : SUBSET Roles, roles : SUBSET Roles, cached : SUBSET Codes]

VARIABLES
    build,   \* what is deployed
    row,     \* the table permission, by code: absent, live or soft-deleted
    grants,  \* the table role_permission, by role
    scan,    \* the scans
    seed,    \* the seed (one: it holds a MySQL lock)
    edits,   \* role edits: how many; sensitive codes handed out by
             \* an Exempt user, ever; since the last seed began
    done     \* history: what has run to its end since the deployment

vars == <<build, row, grants, scan, seed, edits, done>>

Required == RequiredBy(build.routes)
Live == {c \in Codes : row[c] = "live"}

NoScan == [pc |-> "idle", todo |-> {}, gone |-> {}, alone |-> FALSE]
NoSeed == [pc |-> "idle", todo |-> {}]
SeedPcs == {"idle", "codes", "super_admin", "admin", "guest"}

(* scanned: a scan has ended; settled: one that no seed ran into has, and   *)
(* no seed since; seeded: the seed that began last has ended.               *)
NothingDone == [scanned |-> FALSE, settled |-> FALSE, seeded |-> FALSE]

Init ==
    /\ build \in Builds
    /\ row = [c \in Codes |-> "absent"]
    /\ grants = [k \in Roles |-> {}]
    /\ scan = [i \in Scanners |-> NoScan]
    /\ seed = NoSeed
    /\ edits = [count |-> 0, handed |-> FALSE, recent |-> FALSE]
    /\ done = NothingDone

-----------------------------------------------------------------------------
(* The guards, in the order of app.module.ts; FeatureFlagGuard, the first,  *)
(* is in module Cached.  No route carries @Roles or @DenyRoles, so           *)
(* RolesGuard lets every request through.  A public route does not run      *)
(* passport: its handler and the later guards see no user.                 *)

Anonymous == [token |-> FALSE, enabled |-> FALSE, claims |-> {}, held |-> {}]

(* What the roles of a user hold, and what the guards see of him.            *)
Held(u) == UNION {grants[k] : k \in u.roles}
CallerOf(u) ==
    [token |-> TRUE, enabled |-> TRUE, claims |-> u.claims, held |-> Held(u) \cup u.cached]

(* A user with one role, in all three views.                               *)
OfRole(k) == [claims |-> {k}, roles |-> {k}, cached |-> {}]

JwtAuthGuard(c, r) == r.public \/ (c.token /\ c.enabled)

GuestWriteGuard(c, r) ==
    r.guestWrite \/ r.method \notin WriteMethods \/ r.public \/ "guest" \notin c.claims
PermissionsGuard(c, r) == r.codes = {} \/ (~r.public /\ c.held # {} /\ r.codes \subseteq c.held)

Admitted(c, r) ==
    /\ JwtAuthGuard(c, r)
    /\ GuestWriteGuard(c, r)
    /\ PermissionsGuard(c, r)

(* User u calls the route: it is served after the first scan.               *)
Serves(u, method, path) ==
    /\ done.scanned
    /\ \E r \in build.routes : r.method = method /\ r.path = path /\ Admitted(CallerOf(u), r)

-----------------------------------------------------------------------------
(* scanControllers: on application bootstrap, or POST /system/permissions/scan. *)

(* existingPermissions without a route, as the scan finds them at its start. *)
(* Mutant of Gone: the filter is the wrong way round.                       *)
GoneScanned == Live \cap Required
Gone == Live \ Required

ScanBegin(i) ==
    /\ scan[i].pc = "idle"
    /\ scan' = [scan EXCEPT ![i] =
         [pc |-> "sync", todo |-> Required, gone |-> Gone, alone |-> seed.pc # "codes"]]
    /\ UNCHANGED <<build, row, grants, seed, edits, done>>

Boot(i) == ScanBegin(i)
ScanRequest(i) == (\E u \in Callers : Serves(u, "POST", ScanPath)) /\ ScanBegin(i)

ScanUpsert(i, c) ==
    /\ scan[i].pc = "sync" /\ c \in scan[i].todo
    /\ row' = [row EXCEPT ![c] = "live"]
    /\ scan' = [scan EXCEPT ![i].todo = @ \ {c}]
    /\ UNCHANGED <<build, grants, seed, edits, done>>

(* One by one, after the upserts.                                          *)
ScanDelete(i, c) ==
    /\ scan[i].pc = "sync" /\ scan[i].todo = {} /\ c \in scan[i].gone
    /\ row' = [row EXCEPT ![c] = "deleted"]
    /\ scan' = [scan EXCEPT ![i].gone = @ \ {c}]
    /\ UNCHANGED <<build, grants, seed, edits, done>>

(* Mutant of ScanEnd: returns before the deletions.                        *)
ScanEndEarly(i) ==
    /\ scan[i].pc = "sync" /\ scan[i].todo = {}
    /\ scan' = [scan EXCEPT ![i] = NoScan]
    /\ done' = [done EXCEPT !.scanned = TRUE, !.settled = @ \/ scan[i].alone]
    /\ UNCHANGED <<build, row, grants, seed, edits>>

ScanEnd(i) ==
    /\ scan[i].pc = "sync" /\ scan[i].todo = {} /\ scan[i].gone = {}
    /\ scan' = [scan EXCEPT ![i] = NoScan]
    /\ done' = [done EXCEPT !.scanned = TRUE, !.settled = @ \/ scan[i].alone]
    /\ UNCHANGED <<build, row, grants, seed, edits>>

(* A statement fails, or the process dies.                                 *)
ScanFails(i) ==
    /\ scan[i].pc # "idle"
    /\ scan' = [scan EXCEPT ![i] = NoScan]
    /\ UNCHANGED <<build, row, grants, seed, edits, done>>

-----------------------------------------------------------------------------
(* seedPermissionsAndAssignments, run by prisma db seed.                    *)

SeedBegin ==
    /\ seed.pc = "idle"
    /\ seed' = [pc |-> "codes", todo |-> build.catalogue]
    /\ scan' = [i \in Scanners |-> [scan[i] EXCEPT !.alone = FALSE]]
    /\ done' = [done EXCEPT !.settled = FALSE, !.seeded = FALSE]
    /\ edits' = [edits EXCEPT !.recent = FALSE]
    /\ UNCHANGED <<build, row, grants>>

SeedUpsert(c) ==
    /\ seed.pc = "codes" /\ c \in seed.todo
    /\ row' = [row EXCEPT ![c] = "live"]
    /\ seed' = [seed EXCEPT !.todo = @ \ {c}]
    /\ UNCHANGED <<build, grants, scan, edits, done>>

(* Mutant of SeedRead: the upserts are not awaited.                        *)
SeedReadUnawaited ==
    /\ seed.pc = "codes"
    /\ seed' = [pc |-> "super_admin", todo |-> Live]
    /\ UNCHANGED <<build, row, grants, scan, edits, done>>

(* From here todo holds the live codes, those the roles are given.          *)
SeedRead ==
    /\ seed.pc = "codes" /\ seed.todo = {}
    /\ seed' = [pc |-> "super_admin", todo |-> Live]
    /\ UNCHANGED <<build, row, grants, scan, edits, done>>

SeedsFor(k) == IF k = "admin" THEN seed.todo \ Sensitive ELSE seed.todo

(* Mutant of SeedGrant: the role user is given the codes next.              *)
SeedGrantUser(k) ==
    /\ seed.pc = k /\ k # "guest"
    /\ grants' = [grants EXCEPT ![k] = @ \cup SeedsFor(k)]
    /\ seed' = [seed EXCEPT !.pc = IF k = "super_admin" THEN "admin" ELSE "user"]
    /\ UNCHANGED <<build, row, scan, edits, done>>

(* One createMany with skipDuplicates for each role.                        *)
SeedGrant(k) ==
    /\ seed.pc = k /\ k # "guest"
    /\ grants' = [grants EXCEPT ![k] = @ \cup SeedsFor(k)]
    /\ seed' = [seed EXCEPT !.pc = IF k = "super_admin" THEN "admin" ELSE "guest"]
    /\ UNCHANGED <<build, row, scan, edits, done>>

SeedEnd ==
    /\ seed.pc = "guest"
    /\ grants' = [grants EXCEPT !["guest"] = @ \cup SeedsFor("guest")]
    /\ seed' = NoSeed
    /\ done' = [done EXCEPT !.seeded = TRUE]
    /\ UNCHANGED <<build, row, scan, edits>>

SeedFails ==
    /\ seed.pc # "idle"
    /\ seed' = NoSeed
    /\ UNCHANGED <<build, row, grants, scan, edits, done>>

-----------------------------------------------------------------------------
(* RolesService.assignPermissions and removePermissions: the codes must be  *)
(* live; those assigned, unless the author is a super admin, codes his roles *)
(* hold in MySQL, and the role not one of his (checkOwnRole).  Deleting the *)
(* old rows and inserting the new are one step here, two in AccessControl.  *)

MayEdit(u, method, target, cs) ==
    /\ edits.count < MaxEdits
    /\ Serves(u, method, RolePermissionsPath)
    /\ target # "super_admin"
    /\ cs \subseteq Live

(* Who may hand out sensitive codes: a super admin, and a user made guest    *)
(* since his token was issued, for the seed gives that role every code and  *)
(* GuestWriteGuard reads the token.                                        *)
Exempt(u) == "super_admin" \in u.roles \/ ("guest" \in u.roles /\ "guest" \notin u.claims)

Assign(u, target, cs) ==
    /\ grants' = [grants EXCEPT ![target] = cs]
    /\ edits' = [count |-> edits.count + 1, recent |-> TRUE,
                 handed |-> edits.handed \/ (Exempt(u) /\ cs \cap Sensitive # {})]
    /\ UNCHANGED <<build, row, scan, seed, done>>

(* Mutant of AssignPermissions: validatePermissionAssignment is not called.  *)
AssignPermissionsUnchecked(u, target, cs) ==
    /\ MayEdit(u, "PUT", target, cs)
    /\ target \notin u.roles
    /\ Assign(u, target, cs)

AssignPermissions(u, target, cs) ==
    /\ MayEdit(u, "PUT", target, cs)
    /\ target \notin u.roles
    /\ "super_admin" \in u.roles \/ cs \subseteq Held(u)
    /\ Assign(u, target, cs)

RemovePermissions(u, target, cs) ==
    /\ MayEdit(u, "DELETE", target, cs)
    /\ grants' = [grants EXCEPT ![target] = @ \ cs]
    /\ edits' = [edits EXCEPT !.count = @ + 1, !.recent = TRUE]
    /\ UNCHANGED <<build, row, scan, seed, done>>

-----------------------------------------------------------------------------
(* The surroundings.                                                       *)

(* Another build replaces the running processes; the seed is run anew.      *)
Deploy(b) ==
    /\ b \in Builds \ {build}
    /\ build' = b
    /\ scan' = [i \in Scanners |-> NoScan]
    /\ seed' = NoSeed
    /\ done' = NothingDone
    /\ UNCHANGED <<row, grants, edits>>

ScanStep(i) ==
    \/ Boot(i) \/ ScanRequest(i) \/ ScanEnd(i) \/ ScanFails(i)
    \/ \E c \in Codes : ScanUpsert(i, c) \/ ScanDelete(i, c)

SeedStep ==
    \/ SeedBegin \/ SeedRead \/ SeedEnd \/ SeedFails
    \/ \E c \in Codes : SeedUpsert(c)
    \/ \E k \in Roles : SeedGrant(k)

EditStep ==
    \E u \in Callers, target \in Roles, cs \in Lists :
        AssignPermissions(u, target, cs) \/ RemovePermissions(u, target, cs)

Next ==
    \/ \E i \in Scanners : ScanStep(i)
    \/ SeedStep
    \/ EditStep
    \/ \E b \in Builds : Deploy(b)

Spec == Init /\ [][Next]_vars

-----------------------------------------------------------------------------
(* Properties.                                                             *)

TypeOK ==
    /\ build \in Builds
    /\ row \in [Codes -> {"absent", "live", "deleted"}]
    /\ grants \in [Roles -> SUBSET Codes]
    /\ scan \in [Scanners -> [pc : {"idle", "sync"}, todo : SUBSET Codes,
                               gone : SUBSET Codes, alone : BOOLEAN]]
    /\ seed \in [pc : SeedPcs, todo : SUBSET Codes]
    /\ edits \in [count : 0..MaxEdits, handed : BOOLEAN, recent : BOOLEAN]
    /\ done \in [scanned : BOOLEAN, settled : BOOLEAN, seeded : BOOLEAN]

(* Once a scan of the deployed build has ended, every code its routes ask   *)
(* for is a live permission, whatever scans and seeds run, fail or die      *)
(* afterwards (syncPermissions).                                           *)
ScannedIsLive == done.scanned => Required \subseteq Live

(* After a scan that no seed overlapped, and until the next seed, nothing   *)
(* else is live: codes without a route are soft-deleted, those of an        *)
(* earlier build and those the seed had put there (syncPermissions).        *)
SettledIsExact == done.settled => Live = Required

(* A completed seed leaves nobody locked out, whatever ran meanwhile: the   *)
(* super admin may call every route of the build and, unless roles have     *)
(* been edited, the admin those without a sensitive code and the guest      *)
(* those that read (seedPermissionsAndAssignments and the guards).          *)
SystemRolesWork ==
    done.seeded =>
        /\ \A r \in build.routes : Admitted(CallerOf(OfRole("super_admin")), r)
        /\ ~edits.recent => \A r \in build.routes :
              /\ r.codes \cap Sensitive = {} => Admitted(CallerOf(OfRole("admin")), r)
              /\ r.method = "GET" => Admitted(CallerOf(OfRole("guest")), r)

(* Unless a super admin, or a user made guest since his token was issued,   *)
(* hands one out, no sensitive code reaches the roles admin and user: not   *)
(* by seeding again, not by a chain of role edits, each limited to what the *)
(* roles of its author hold, whatever his token and the cache say           *)
(* (validatePermissionAssignment, checkOwnRole).                           *)
AdminStaysOrdinary ==
    ~edits.handed => (grants["admin"] \cup grants["user"]) \cap Sensitive = {}

(* A caller whose token says guest changes nothing but sessions of his own, *)
(* whatever other roles and codes he has (GuestWriteGuard); login, refresh  *)
(* and register are public and see no user.  A user made guest since his    *)
(* token was issued is no such caller.                                     *)
GuestChangesNothing ==
    \A r \in build.routes, u \in Callers :
        "guest" \in u.claims /\ Admitted(CallerOf(u), r) /\ ~r.public => r.changes \subseteq {"sessions"}

(* configs-runtime.controller.ts: the runtime configuration is a public      *)
(* interface that needs no authentication.                                 *)
RuntimeConfigIsPublic ==
    done.scanned => \A r \in build.routes : r.path = RuntimeConfigPath => Admitted(Anonymous, r)
=============================================================================
