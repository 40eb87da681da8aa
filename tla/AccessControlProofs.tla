------------------------ MODULE AccessControlProofs ------------------------
(***************************************************************************)
(* Results about AccessControl for any number of users, roles and           *)
(* permissions.  With any number of concurrent requests, whatever fails,    *)
(* the super role is never touched, and the cache never holds a permission  *)
(* its user has not had.  With one request at a time the rows refer to what *)
(* exists, two super admins remain and the cache agrees with MySQL.         *)
(***************************************************************************)
EXTENDS MCAccessControl, FiniteSetTheorems, TLAPS

GuardPcs == {"g_get", "g_load", "g_set"}
RolePcs == {"r_delete", "rp_delete", "rp_remove"}

(* What a request may carry: the guard acts for one user, with permissions  *)
(* that user has had; a change of a role is not about the super role.       *)
Carries(r) ==
    /\ r.pc \in GuardPcs => \E u \in Users : r.us = {u}
    /\ r.pc = "g_set" => \A u \in r.us : r.ps \subseteq had[u]
    /\ r.pc \in RolePcs => Super \notin r.rs

HistoryFollows == \A u \in Users : PermsOf(u) \subseteq had[u]

AInv == /\ TypeOK
        /\ HistoryFollows
        /\ CacheWithinHistory
        /\ SuperRoleIsFixed
        /\ \A p \in Procs : Carries(req[p])

-----------------------------------------------------------------------------
(* A finished request carries nothing.                                     *)
LEMMA IdleRequest == Idle \in Request /\ Carries(Idle) /\ Carries(Idle)'
  BY DEF Idle, Request, Pcs, AllOps, Carries, GuardPcs, RolePcs

(* The permissions of a user, a set of permissions.                         *)
LEMMA PermsInType == \A m, g, u : PermsIn(m, g, u) \subseteq Perms
  BY DEF PermsIn

(* Fewer rows, fewer permissions.                                          *)
LEMMA PermsInMonotone ==
  ASSUME NEW m, NEW g, NEW m1 \in SUBSET m, NEW g1 \in SUBSET g, NEW u
  PROVE  PermsIn(m1, g1, u) \subseteq PermsIn(m, g, u)
  BY DEF PermsIn

(* What the steps of one request have in common: the tables keep their      *)
(* types, the history grows with them, and the request goes on with r.      *)
LEMMA StepOf ==
  ASSUME AInv, NEW p \in Procs, NEW r \in Request,
         req' = [req EXCEPT ![p] = r],
         Carries(r)',
         users' \subseteq Users, roles' \subseteq Roles, unused' \subseteq Roles,
         member' \subseteq Users \X Roles, grants' \subseteq Roles \X Perms,
         had' \in [Users -> SUBSET Perms],
         \A u \in Users : had[u] \subseteq had'[u],
         HistoryFollows', SuperRoleIsFixed',
         up' = up,
         DOMAIN cache' = Users,
         \A u \in Users : \/ cache'[u] = cache[u]
                          \/ cache'[u] = Miss
                          \/ cache'[u] \subseteq had[u]
  PROVE  AInv'
<1>1. req \in [Procs -> Request] /\ had \in [Users -> SUBSET Perms]
  BY DEF AInv, TypeOK
<1>2. TypeOK'
  <2>1. req' \in [Procs -> Request]
    BY <1>1
  <2>2. \A u \in Users : cache'[u] = Miss \/ cache'[u] \subseteq Perms
    BY <1>1 DEF AInv, TypeOK
  <2> QED BY <2>1, <2>2 DEF AInv, TypeOK
<1>3. CacheWithinHistory'
  BY DEF AInv, CacheWithinHistory
<1>4. ASSUME NEW q \in Procs PROVE Carries(req[q])'
  <2>1. CASE q = p
    BY <1>1, <2>1
  <2>2. CASE q # p
    <3>1. req'[q] = req[q] /\ req[q] \in Request
      BY <1>1, <2>2
    <3>2. Carries(req[q])
      BY DEF AInv
    <3>3. req[q].us \subseteq Users
      BY <3>1 DEF Request
    <3> QED BY <3>1, <3>2, <3>3 DEF Carries
  <2> QED BY <2>1, <2>2
<1> QED BY <1>2, <1>3, <1>4 DEF AInv

(* A step that changes neither the tables nor the history.                  *)
LEMMA ReadStep ==
  ASSUME AInv, NEW p \in Procs, NEW r \in Request,
         req' = [req EXCEPT ![p] = r],
         Carries(r)',
         UNCHANGED <<tables, had, up>>,
         DOMAIN cache' = Users,
         \A u \in Users : \/ cache'[u] = cache[u]
                          \/ cache'[u] = Miss
                          \/ cache'[u] \subseteq had[u]
  PROVE  AInv'
<1>1. UNCHANGED <<users, roles, unused, member, grants>>
  BY DEF tables
<1>2. HistoryFollows' /\ SuperRoleIsFixed'
  BY <1>1 DEF AInv, HistoryFollows, PermsOf, PermsIn, SuperRoleIsFixed
<1> QED BY <1>1, <1>2, StepOf DEF AInv, TypeOK

(* A write that only removes rows.                                         *)
LEMMA ShrinkStep ==
  ASSUME AInv, NEW p \in Procs, NEW r \in Request,
         req' = [req EXCEPT ![p] = r],
         Carries(r)',
         UNCHANGED <<unused, cache, up, had>>,
         users' \subseteq users, roles' \subseteq roles,
         member' \subseteq member, grants' \subseteq grants,
         SuperRoleIsFixed'
  PROVE  AInv'
<1>1. HistoryFollows'
  <2>1. ASSUME NEW u \in Users PROVE PermsIn(member', grants', u) \subseteq had'[u]
    BY PermsInMonotone DEF AInv, HistoryFollows, PermsOf
  <2> QED BY <2>1 DEF HistoryFollows, PermsOf
<1> QED BY <1>1, StepOf DEF AInv, TypeOK

(* A write after which the history is brought up to date.                   *)
LEMMA GrowStep ==
  ASSUME AInv, NEW p \in Procs, NEW r \in Request,
         req' = [req EXCEPT ![p] = r],
         Carries(r)',
         UNCHANGED <<users, roles, unused, cache, up>>,
         member' \subseteq Users \X Roles, grants' \subseteq Roles \X Perms,
         grants \subseteq grants',
         Remember
  PROVE  AInv'
<1>1. /\ had' \in [Users -> SUBSET Perms]
      /\ \A u \in Users : had[u] \subseteq had'[u] /\ PermsIn(member', grants', u) \subseteq had'[u]
  BY PermsInType DEF Remember, AInv, TypeOK
<1>2. HistoryFollows' /\ SuperRoleIsFixed'
  BY <1>1 DEF HistoryFollows, PermsOf, SuperRoleIsFixed, AInv
<1> QED BY <1>1, <1>2, StepOf DEF AInv, TypeOK

-----------------------------------------------------------------------------
(* The initial states of the specification and of the instance TLC checks:   *)
(* the users as hold the super role, and nothing has happened.              *)
StartsWith(as) ==
    /\ as \subseteq users /\ users \subseteq Users
    /\ roles = Roles \ NewRoles /\ unused \subseteq NewRoles
    /\ member = as \X {Super}
    /\ grants = {Super} \X Perms
    /\ cache = [u \in Users |-> Miss]
    /\ up = TRUE
    /\ req = [p \in Procs |-> Idle]
    /\ had = [u \in Users |-> IF u \in as THEN Perms ELSE {}]

LEMMA InitStart == Init => StartsWith(Admins)
  BY AccessAssumption DEF Init, StartsWith

LEMMA MCInitStart ==
  ASSUME MCInit
  PROVE  \E as \in SUBSET Admins :
            StartsWith(as) /\ (part # "overlap" => Cardinality(as) = Cardinality(Admins))
  BY AccessAssumption DEF MCInit, StartsWith

LEMMA InitAccess == ASSUME NEW as, StartsWith(as) PROVE AInv
<1>1. TypeOK
  BY AccessAssumption, IdleRequest DEF StartsWith, TypeOK
<1>2. HistoryFollows
  BY AccessAssumption DEF StartsWith, HistoryFollows, PermsOf, PermsIn
<1>3. CacheWithinHistory /\ SuperRoleIsFixed
  BY AccessAssumption DEF StartsWith, CacheWithinHistory, SuperRoleIsFixed
<1>4. \A p \in Procs : Carries(req[p])
  BY IdleRequest DEF StartsWith
<1> QED BY <1>1, <1>2, <1>3, <1>4 DEF AInv

(* A request that starts: only the guard's requests, and changes of roles   *)
(* other than the super role, carry anything to worry about.                *)
LEMMA StartStep ==
  ASSUME AInv, NEW p \in Procs, NEW o, NEW l \in Pcs \ {"g_set"},
         NEW us \in SUBSET Users, NEW rs \in SUBSET Roles, NEW ps \in SUBSET Perms,
         l \in GuardPcs => \E u \in Users : us = {u},
         l \in RolePcs => Super \notin rs,
         Start(p, o, l, us, rs, ps)
  PROVE  AInv'
<1> DEFINE r == [op |-> o, pc |-> l, us |-> us, rs |-> rs, ps |-> ps]
<1>1. r \in Request
  BY AccessAssumption DEF Start, Request
<1>2. Carries(r)'
  BY DEF Carries
<1>3. req' = [req EXCEPT ![p] = r]
  BY DEF Start
<1> HIDE DEF r
<1>4. UNCHANGED <<tables, had, up, cache>>
  BY DEF Start
<1> QED BY <1>1, <1>2, <1>3, <1>4, ReadStep DEF AInv, TypeOK

(* Every kind of request.                                                  *)
LEMMA ArriveStep == ASSUME AInv, NEW p \in Procs, Arrive(p) PROVE AInv'
<1> USE DEF Pcs, GuardPcs, RolePcs
<1>1. ASSUME NEW a \in Users, NEW u \in Users, NEW rs \in SUBSET Roles,
             AssignRoles(p, a, u, rs) \/ RemoveRoles(p, a, u, rs)
      PROVE  AInv'
  BY <1>1, StartStep DEF AssignRoles, RemoveRoles
<1>2. ASSUME NEW a \in Users, NEW u \in Users, NEW disable \in BOOLEAN,
             UpdateUser(p, a, u, disable)
      PROVE  AInv'
  BY <1>2, StartStep DEF UpdateUser
<1>3. ASSUME NEW a \in Users, NEW us \in SUBSET Users, RemoveUser(p, a, us)
      PROVE  AInv'
  BY <1>3, StartStep DEF RemoveUser
<1>4. ASSUME NEW a \in Users, NEW r \in Roles, NEW ps \in SUBSET Perms,
             CreateRole(p, a, r, ps) \/ AssignPermissions(p, a, r, ps)
      PROVE  AInv'
  <2>1. CASE CreateRole(p, a, r, ps)
    BY <2>1, StartStep DEF CreateRole
  <2>2. CASE AssignPermissions(p, a, r, ps)
    BY <2>2, StartStep DEF AssignPermissions
  <2> QED BY <1>4, <2>1, <2>2
<1>5. ASSUME NEW rs \in SUBSET Roles, RemoveRole(p, rs)
      PROVE  AInv'
  BY <1>5, StartStep DEF RemoveRole
<1>6. ASSUME NEW r \in Roles, NEW ps \in SUBSET Perms, RemovePermissions(p, r, ps)
      PROVE  AInv'
  BY <1>6, StartStep DEF RemovePermissions
<1>7. ASSUME NEW a \in Users, NEW r \in Roles, NEW us \in SUBSET Users,
             AssignUsers(p, a, r, us) \/ RemoveUsers(p, a, r, us)
      PROVE  AInv'
  BY <1>7, StartStep DEF AssignUsers, RemoveUsers
<1>8. ASSUME NEW u \in Users, Guard(p, u) \/ Warm(p, u) \/ Kick(p, u)
      PROVE  AInv'
  BY <1>8, StartStep DEF Guard, Warm, Kick
<1> QED BY <1>1, <1>2, <1>3, <1>4, <1>5, <1>6, <1>7, <1>8 DEF Arrive

-----------------------------------------------------------------------------
(* The request of p, under the invariant.                                  *)
LEMMA ThisRequest ==
  ASSUME AInv, NEW p \in Procs
  PROVE  /\ p \in DOMAIN req /\ req[p] \in Request /\ Carries(req[p])
         /\ req[p].us \subseteq Users /\ req[p].rs \subseteq Roles /\ req[p].ps \subseteq Perms
  BY DEF AInv, TypeOK, Request

(* The request of p gets other users, with or without another label, or     *)
(* another label and other permissions.                                    *)
SetUsers(p, us) == req' = [req EXCEPT ![p].us = us]
SetLabelUsers(p, l, us) == req' = [req EXCEPT ![p].pc = l, ![p].us = us]
SetLabelPerms(p, l, ps) == req' = [req EXCEPT ![p].pc = l, ![p].ps = ps]

(* Changing fields of one request is putting another request in its place.  *)
LEMMA ChangeLabel ==
  ASSUME AInv, NEW p \in Procs, NEW l \in Pcs, Goto(p, l)
  PROVE  \E r \in Request : /\ req' = [req EXCEPT ![p] = r]
                            /\ r.pc = l /\ r.us = req[p].us
<1> DEFINE r == [req[p] EXCEPT !.pc = l]
<1>1. r \in Request /\ r.pc = l /\ r.us = req[p].us
  BY ThisRequest DEF Request
<1>2. req' = [req EXCEPT ![p] = r]
  BY ThisRequest DEF Goto
<1> QED BY <1>1, <1>2

LEMMA ChangeUsers ==
  ASSUME AInv, NEW p \in Procs, NEW us \in SUBSET Users, SetUsers(p, us)
  PROVE  \E r \in Request : /\ req' = [req EXCEPT ![p] = r]
                            /\ r.pc = req[p].pc /\ r.us = us
<1> DEFINE r == [req[p] EXCEPT !.us = us]
<1>1. r \in Request /\ r.pc = req[p].pc /\ r.us = us
  BY ThisRequest DEF Request
<1>2. req' = [req EXCEPT ![p] = r]
  BY ThisRequest DEF SetUsers
<1> QED BY <1>1, <1>2

LEMMA ChangeLabelUsers ==
  ASSUME AInv, NEW p \in Procs, NEW l \in Pcs, NEW us \in SUBSET Users,
         SetLabelUsers(p, l, us)
  PROVE  \E r \in Request : /\ req' = [req EXCEPT ![p] = r]
                            /\ r.pc = l /\ r.us = us
<1> DEFINE r == [req[p] EXCEPT !.pc = l, !.us = us]
<1>1. r \in Request /\ r.pc = l /\ r.us = us
  BY ThisRequest DEF Request
<1>2. req' = [req EXCEPT ![p] = r]
  BY ThisRequest DEF SetLabelUsers
<1> QED BY <1>1, <1>2

LEMMA ChangeLabelPerms ==
  ASSUME AInv, NEW p \in Procs, NEW l \in Pcs, NEW ps \in SUBSET Perms,
         SetLabelPerms(p, l, ps)
  PROVE  \E r \in Request : /\ req' = [req EXCEPT ![p] = r]
                            /\ r.pc = l /\ r.us = req[p].us /\ r.ps = ps
<1> DEFINE r == [req[p] EXCEPT !.pc = l, !.ps = ps]
<1>1. r \in Request /\ r.pc = l /\ r.us = req[p].us /\ r.ps = ps
  BY ThisRequest DEF Request
<1>2. req' = [req EXCEPT ![p] = r]
  BY ThisRequest DEF SetLabelPerms
<1> QED BY <1>1, <1>2

(* Moving a request to a harmless label keeps it a request.                 *)
LEMMA GotoRequest ==
  ASSUME AInv, NEW p \in Procs, NEW l \in Pcs \ (GuardPcs \cup RolePcs), Goto(p, l)
  PROVE  \E r \in Request : /\ req' = [req EXCEPT ![p] = r]
                            /\ Carries(r)'
<1>1. PICK r \in Request : req' = [req EXCEPT ![p] = r] /\ r.pc = l
  BY ChangeLabel
<1>2. Carries(r)'
  BY <1>1 DEF Carries, GuardPcs
<1> QED BY <1>1, <1>2

(* A request ends.                                                         *)
LEMMA FinishRequest ==
  ASSUME NEW p \in Procs, Finish(p)
  PROVE  \E r \in Request : /\ req' = [req EXCEPT ![p] = r]
                            /\ Carries(r)'
  BY IdleRequest DEF Finish

(* Rows that are removed, in every table.                                  *)
LEMMA DeleteStep ==
  ASSUME AInv, NEW p \in Procs,
         \/ UserRolesDelete(p) \/ UserRolesRemove(p) \/ RoleUsersDelete(p)
         \/ RoleUsersRemove(p) \/ UserDelete(p) \/ RoleDelete(p)
         \/ RolePermissionsDelete(p) \/ RolePermissionsRemove(p)
  PROVE  AInv'
<1> DEFINE Next1 == \E r \in Request : req' = [req EXCEPT ![p] = r] /\ Carries(r)'
<1>1. CASE UserRolesDelete(p) \/ UserRolesRemove(p) \/ RoleUsersDelete(p)
  <2>1. Next1
    BY <1>1, GotoRequest DEF UserRolesDelete, UserRolesRemove, RoleUsersDelete, Pcs, GuardPcs, RolePcs
  <2>2. member' \subseteq member /\ UNCHANGED <<users, roles, unused, grants, cache, up, had>>
    BY <1>1 DEF UserRolesDelete, UserRolesRemove, RoleUsersDelete
  <2>3. SuperRoleIsFixed'
    BY <2>2 DEF AInv, SuperRoleIsFixed
  <2> QED BY <2>1, <2>2, <2>3, ShrinkStep
<1>2. CASE RoleUsersRemove(p) \/ UserDelete(p)
  <2>1. Next1
    BY <1>2, FinishRequest DEF RoleUsersRemove, UserDelete
  <2>2. /\ member' \subseteq member /\ users' \subseteq users
        /\ UNCHANGED <<roles, unused, grants, cache, up, had>>
    BY <1>2 DEF RoleUsersRemove, UserDelete
  <2>3. SuperRoleIsFixed'
    BY <2>2 DEF AInv, SuperRoleIsFixed
  <2> QED BY <2>1, <2>2, <2>3, ShrinkStep
<1>3. CASE RoleDelete(p)
  <2>1. Next1
    BY <1>3, FinishRequest DEF RoleDelete
  <2>2. Super \notin req[p].rs
    BY <1>3 DEF AInv, Carries, RoleDelete, At, RolePcs
  <2>3. SuperRoleIsFixed'
    BY <1>3, <2>2 DEF AInv, SuperRoleIsFixed, RoleDelete
  <2> QED BY <1>3, <2>1, <2>3, ShrinkStep DEF RoleDelete
<1>4. CASE RolePermissionsDelete(p) \/ RolePermissionsRemove(p)
  <2>1. Next1
    BY <1>4, GotoRequest DEF RolePermissionsDelete, RolePermissionsRemove, Pcs, GuardPcs, RolePcs
  <2>2. Super \notin req[p].rs
    BY <1>4 DEF AInv, Carries, RolePermissionsDelete, RolePermissionsRemove, At, RolePcs
  <2>3. SuperRoleIsFixed'
    BY <1>4, <2>2 DEF AInv, SuperRoleIsFixed, RolePermissionsDelete, RolePermissionsRemove
  <2>4. grants' \subseteq grants /\ UNCHANGED <<users, roles, unused, member, cache, up, had>>
    BY <1>4 DEF RolePermissionsDelete, RolePermissionsRemove
  <2> QED BY <2>1, <2>3, <2>4, ShrinkStep
<1> QED BY <1>1, <1>2, <1>3, <1>4

(* Rows that are added.                                                    *)
LEMMA CreateStep ==
  ASSUME AInv, NEW p \in Procs,
         UserRolesCreate(p) \/ RoleUsersCreate(p) \/ RolePermissionsCreate(p) \/ RoleCreate(p)
  PROVE  AInv'
<1> DEFINE Next1 == \E r \in Request : req' = [req EXCEPT ![p] = r] /\ Carries(r)'
<1>0. req[p].us \subseteq Users /\ req[p].rs \subseteq Roles /\ req[p].ps \subseteq Perms
  BY DEF AInv, TypeOK, Request
<1>1. CASE UserRolesCreate(p) \/ RoleUsersCreate(p)
  <2>1. Next1
    <3>1. Goto(p, "evict") \/ Finish(p)
      BY <1>1 DEF UserRolesCreate, RoleUsersCreate
    <3> QED BY <3>1, GotoRequest, FinishRequest DEF Pcs, GuardPcs, RolePcs
  <2>2. member' \in {member, member \cup (req[p].us \X req[p].rs)}
    BY <1>1 DEF UserRolesCreate, RoleUsersCreate
  <2>3. member' \subseteq Users \X Roles
    BY <1>0, <2>2 DEF AInv, TypeOK
  <2>4. UNCHANGED <<users, roles, unused, grants, cache, up>> /\ Remember
    BY <1>1 DEF UserRolesCreate, RoleUsersCreate
  <2> QED BY <2>1, <2>3, <2>4, GrowStep DEF AInv, TypeOK
<1>2. CASE RolePermissionsCreate(p)
  <2>1. Next1
    <3>1. Goto(p, "members") \/ Finish(p)
      BY <1>2 DEF RolePermissionsCreate
    <3> QED BY <3>1, GotoRequest, FinishRequest DEF Pcs, GuardPcs, RolePcs
  <2>2. grants' \in {grants, grants \cup (req[p].rs \X req[p].ps)}
    BY <1>2 DEF RolePermissionsCreate
  <2>3. grants' \subseteq Roles \X Perms /\ grants \subseteq grants'
    BY <1>0, <2>2 DEF AInv, TypeOK
  <2>4. UNCHANGED <<users, roles, unused, member, cache, up>> /\ Remember
    BY <1>2 DEF RolePermissionsCreate
  <2> QED BY <2>1, <2>3, <2>4, GrowStep DEF AInv, TypeOK
<1>3. CASE RoleCreate(p)
  <2>1. Next1
    BY <1>3, GotoRequest DEF RoleCreate, Pcs, GuardPcs, RolePcs
  <2>2. /\ roles \subseteq roles' /\ roles' \subseteq Roles /\ unused' \subseteq Roles
        /\ UNCHANGED <<users, member, grants, cache, up, had>>
    BY <1>0, <1>3 DEF RoleCreate, AInv, TypeOK
  <2>3. HistoryFollows' /\ SuperRoleIsFixed'
    BY <2>2 DEF AInv, HistoryFollows, PermsOf, SuperRoleIsFixed
  <2> QED BY <2>1, <2>2, <2>3, StepOf DEF AInv, TypeOK
<1> QED BY <1>1, <1>2, <1>3

(* The cache: what is written is what was loaded for that user.             *)
LEMMA CacheStepInv == ASSUME AInv, NEW p \in Procs, CacheStep(p) PROVE AInv'
<1>0. req[p] \in Request /\ Carries(req[p])
  BY DEF AInv, TypeOK
<1>1. CASE Members(p)
  <2> DEFINE us == {u \in Users : \E x \in req[p].rs : <<u, x>> \in member}
  <2>1. SetLabelUsers(p, "evict", us) /\ us \subseteq Users
    BY <1>1 DEF Members, SetLabelUsers
  <2> HIDE DEF us
  <2>2. PICK r \in Request : req' = [req EXCEPT ![p] = r] /\ r.pc = "evict"
    <3>1. "evict" \in Pcs
      BY DEF Pcs
    <3> QED BY <2>1, <3>1, ChangeLabelUsers
  <2>3. Carries(r)'
    BY <2>2 DEF Carries, GuardPcs, RolePcs
  <2> QED BY <1>1, <2>2, <2>3, ReadStep DEF Members, AInv, TypeOK
<1>2. CASE Evict(p)
  <2>1. CASE req[p].us = {} /\ Finish(p) /\ UNCHANGED cache
    BY <1>2, <2>1, FinishRequest, ReadStep DEF Evict, AInv, TypeOK
  <2>2. ASSUME NEW u \in req[p].us,
               cache' = IF up THEN [cache EXCEPT ![u] = Miss] ELSE cache,
               req' = [req EXCEPT ![p].us = @ \ {u}]
        PROVE  AInv'
    <3> DEFINE us == req[p].us \ {u}
    <3>1. SetUsers(p, us) /\ us \subseteq Users /\ req[p].pc = "evict"
      BY <1>2, <2>2, ThisRequest DEF Evict, At, SetUsers
    <3> HIDE DEF us
    <3>2. PICK r \in Request : req' = [req EXCEPT ![p] = r] /\ r.pc = "evict"
      BY <3>1, ChangeUsers
    <3>3. Carries(r)'
      BY <3>2 DEF Carries, GuardPcs, RolePcs
    <3>4. DOMAIN cache' = Users /\ \A v \in Users : cache'[v] = cache[v] \/ cache'[v] = Miss
      BY <2>2 DEF AInv, TypeOK
    <3> QED BY <1>2, <3>2, <3>3, <3>4, ReadStep DEF Evict
  <2> QED BY <1>2, <2>1, <2>2 DEF Evict
<1>3. CASE GuardGet(p)
  <2>1. PICK u \in Users : req[p].us = {u}
    BY <1>0, <1>3 DEF Carries, GuardGet, At, GuardPcs
  <2>2. CASE Finish(p)
    BY <1>3, <2>2, FinishRequest, ReadStep DEF GuardGet, AInv, TypeOK
  <2>3. CASE Goto(p, "g_load")
    <3>1. PICK r \in Request : req' = [req EXCEPT ![p] = r] /\ r.pc = "g_load" /\ r.us = {u}
      <4>1. "g_load" \in Pcs
        BY DEF Pcs
      <4> QED BY <2>1, <2>3, <4>1, ChangeLabel
    <3>2. Carries(r)'
      BY <3>1 DEF Carries, GuardPcs, RolePcs
    <3> QED BY <1>3, <3>1, <3>2, ReadStep DEF GuardGet, AInv, TypeOK
  <2> QED BY <1>3, <2>1, <2>2, <2>3 DEF GuardGet
<1>4. CASE GuardLoad(p)
  <2>1. PICK u \in Users : req[p].us = {u}
    BY <1>0, <1>4 DEF Carries, GuardLoad, At, GuardPcs
  <2>2. CASE Finish(p)
    BY <1>4, <2>2, FinishRequest, ReadStep DEF GuardLoad, AInv, TypeOK
  <2>3. ASSUME NEW ps \in {PermsOf(u), {}},
               req' = [req EXCEPT ![p].pc = "g_set", ![p].ps = ps]
        PROVE  AInv'
    <3>1. SetLabelPerms(p, "g_set", ps) /\ ps \subseteq Perms /\ ps \subseteq had[u]
      BY <2>3, PermsInType DEF PermsOf, AInv, HistoryFollows, SetLabelPerms
    <3>2. PICK r \in Request : /\ req' = [req EXCEPT ![p] = r]
                               /\ r.pc = "g_set" /\ r.us = {u} /\ r.ps \subseteq had[u]
      <4>1. "g_set" \in Pcs
        BY DEF Pcs
      <4> QED BY <2>1, <3>1, <4>1, ChangeLabelPerms
    <3>3. Carries(r)'
      BY <1>4, <3>2 DEF Carries, GuardPcs, RolePcs, GuardLoad
    <3> QED BY <1>4, <3>2, <3>3, ReadStep DEF GuardLoad, AInv, TypeOK
  <2> QED BY <1>4, <2>1, <2>2, <2>3 DEF GuardLoad
<1>5. CASE GuardSet(p)
  <2>1. PICK u \in req[p].us :
           cache' = IF up THEN [cache EXCEPT ![u] = req[p].ps] ELSE cache
    BY <1>5 DEF GuardSet
  <2>2. u \in Users /\ req[p].ps \subseteq had[u]
    BY <1>0, <1>5 DEF Carries, GuardSet, At, Request
  <2>3. DOMAIN cache' = Users /\ \A v \in Users : cache'[v] = cache[v] \/ cache'[v] \subseteq had[v]
    BY <2>1, <2>2 DEF AInv, TypeOK
  <2> QED BY <1>5, <2>3, FinishRequest, ReadStep DEF GuardSet
<1> QED BY <1>1, <1>2, <1>3, <1>4, <1>5 DEF CacheStep

(* The events around the requests.                                         *)
LEMMA AroundStep ==
  ASSUME AInv,
         \/ \E u \in Users : Elapse(u)
         \/ RedisDown \/ RedisConnect
         \/ UNCHANGED vars
  PROVE  AInv'
<1>1. UNCHANGED <<users, roles, unused, member, grants, req, had>>
  BY DEF Elapse, RedisDown, RedisConnect, vars, tables
<1>2. HistoryFollows' /\ SuperRoleIsFixed' /\ \A p \in Procs : Carries(req[p])'
  BY <1>1 DEF AInv, HistoryFollows, PermsOf, PermsIn, SuperRoleIsFixed, Carries
<1>3. up' \in BOOLEAN
  BY DEF AInv, TypeOK, Elapse, RedisDown, RedisConnect, vars
<1>4. DOMAIN cache' = Users /\ \A u \in Users : cache'[u] = cache[u] \/ cache'[u] = Miss
  BY DEF AInv, TypeOK, Elapse, RedisDown, RedisConnect, vars
<1> QED BY <1>1, <1>2, <1>3, <1>4 DEF AInv, TypeOK, CacheWithinHistory

(* Every step.                                                             *)
LEMMA NextAccess == AInv /\ [Next]_vars => AInv'
<1> SUFFICES ASSUME AInv, [Next]_vars PROVE AInv'
  OBVIOUS
<1>1. ASSUME NEW p \in Procs, Write(p) PROVE AInv'
  BY <1>1, DeleteStep, CreateStep DEF Write
<1>2. ASSUME NEW p \in Procs, Abort(p) PROVE AInv'
  BY <1>2, FinishRequest, ReadStep DEF Abort, AInv, TypeOK
<1> QED BY <1>1, <1>2, ArriveStep, CacheStepInv, AroundStep DEF Next

-----------------------------------------------------------------------------
(* The inductive invariant of AccessControl.                                *)
THEOREM AccessInvariance == Spec => []AInv
<1>1. Init => AInv
  BY InitStart, InitAccess
<1> QED BY <1>1, NextAccess, PTL DEF Spec

(* The permission cache holds nothing its user has not had in MySQL, with   *)
(* any number of concurrent changes and guards, Redis up or down, and       *)
(* requests aborted anywhere (permissions.guard.ts, permission-cache).      *)
THEOREM CacheIsHistoric == Spec => []CacheWithinHistory
<1>1. AInv => CacheWithinHistory
  BY DEF AInv
<1> QED BY <1>1, AccessInvariance, PTL

(* No sequence or interleaving of the operations of RolesService and        *)
(* UsersService removes the super role or one of its permissions.           *)
THEOREM SuperRoleFixed == Spec => []SuperRoleIsFixed
<1>1. AInv => SuperRoleIsFixed
  BY DEF AInv
<1> QED BY <1>1, AccessInvariance, PTL

(* The types, as the runs check them.                                      *)
THEOREM AccessTypes == Spec => []TypeOK
<1>1. AInv => TypeOK
  BY DEF AInv
<1> QED BY <1>1, AccessInvariance, PTL
-----------------------------------------------------------------------------
(* One request at a time.  A request then still finds at each of its writes *)
(* what its checks found on arrival, less what it has written itself.       *)

(* Before and after the step, no request but p is under way.                *)
Alone(p) == \A q \in Procs \ {p} : req[q] = Idle /\ req'[q] = Idle
OneAtATime == \E p \in Procs : Alone(p)

Move(p) == Arrive(p) \/ Write(p) \/ CacheStep(p)
Around == (\E u \in Users : Elapse(u)) \/ RedisDown \/ RedisConnect

Supported(r) ==
    /\ r.pc \in {"ur_delete", "ur_create", "ru_delete", "ru_create"}
         => r.us \subseteq users /\ r.rs \subseteq roles
    /\ r.pc \in {"rp_delete", "rp_create"} => r.rs \subseteq roles
    /\ r.pc = "r_create" => r.rs \subseteq unused

(* No row is in the way of the rows a request is about to create.           *)
Cleared(r) ==
    /\ r.pc = "ur_create" => \A m \in member : m[1] \notin r.us
    /\ r.pc = "ru_create" => \A m \in member : m[2] \notin r.rs
    /\ r.pc = "rp_create" => \A g \in grants : g[1] \notin r.rs

(* Nobody has the role that is deleted, or that has just been created.      *)
Unheld(r) ==
    /\ r.pc = "r_delete" \/ (r.pc = "rp_create" /\ r.op = "createRole")
         => \A m \in member : m[2] \notin r.rs
    /\ r.pc = "rp_delete" => r.op # "createRole"

(* What the checks of the super role found.                                *)
Counted(r) ==
    /\ r.pc \in {"ur_delete", "ur_create", "ur_remove", "u_delete"} => r.us \cap Supers = {}
    /\ r.pc \in {"ru_delete", "ru_create"} /\ Super \in r.rs => Cardinality(r.us) >= 2
    /\ r.pc = "ru_remove" /\ Super \in r.rs => Cardinality(Supers \ r.us) >= 2

Loaded(r) == r.pc = "g_set" => \A u \in r.us : u \in users => r.ps = PermsOf(u)

Solo(r) == Supported(r) /\ Cleared(r) /\ Unheld(r) /\ Counted(r) /\ Loaded(r)

RowsRefer == /\ \A m \in member : m[1] \in users /\ m[2] \in roles
             /\ \A g \in grants : g[1] \in roles

SoloInv == /\ RowsRefer /\ roles \cap unused = {}
           /\ \A p \in Procs : Solo(req[p])

(* The labels at which a request relies on none of this.                    *)
FreePcs == {"idle", "members", "evict", "rp_remove", "g_get", "g_load"}

LEMMA FreeSolo ==
  ASSUME NEW p, req'[p].pc \in FreePcs
  PROVE  Solo(req[p])'
  BY DEF FreePcs, Solo, Supported, Cleared, Unheld, Counted, Loaded

LEMMA IdleSolo == ASSUME NEW p, req[p] = Idle PROVE Solo(req[p])
  BY DEF Idle, Solo, Supported, Cleared, Unheld, Counted, Loaded

LEMMA SoloOne ==
  ASSUME NEW p \in Procs, Alone(p), RowsRefer', (roles \cap unused = {})', Solo(req[p])'
  PROVE  SoloInv'
<1>1. ASSUME NEW q \in Procs \ {p} PROVE req'[q].pc \in FreePcs
  BY DEF Alone, Idle, FreePcs
<1>2. \A q \in Procs : Solo(req[q])'
  BY <1>1, FreeSolo
<1> QED BY <1>2 DEF SoloInv

(* The record of a request that starts, that goes on, that ends.            *)
LEMMA StartFields ==
  ASSUME AInv, NEW p \in Procs, NEW o, NEW l, NEW us, NEW rs, NEW ps,
         Start(p, o, l, us, rs, ps)
  PROVE  /\ req[p] = Idle /\ o \in Ops
         /\ req'[p].op = o /\ req'[p].pc = l /\ req'[p].us = us
         /\ req'[p].rs = rs /\ req'[p].ps = ps
         /\ UNCHANGED <<users, roles, unused, member, grants, cache, up>>
  BY DEF Start, AInv, TypeOK, tables

LEMMA GotoFields ==
  ASSUME AInv, NEW p \in Procs, NEW l, Goto(p, l)
  PROVE  /\ req'[p].op = req[p].op /\ req'[p].pc = l /\ req'[p].us = req[p].us
         /\ req'[p].rs = req[p].rs /\ req'[p].ps = req[p].ps
  BY DEF Goto, AInv, TypeOK, Request

LEMMA FinishFields ==
  ASSUME AInv, NEW p \in Procs, Finish(p)
  PROVE  req'[p] = Idle /\ req'[p].pc = "idle"
  BY DEF Finish, AInv, TypeOK, Idle

(* Whatever arrives finds no request in its place and changes no table.     *)
LEMMA ArriveQuiet ==
  ASSUME AInv, NEW p \in Procs, Arrive(p)
  PROVE  /\ req[p] = Idle /\ req'[p].op \in Ops
         /\ UNCHANGED <<users, roles, unused, member, grants, cache, up>>
<1>1. ASSUME NEW o, NEW l, NEW us, NEW rs, NEW ps, Start(p, o, l, us, rs, ps)
      PROVE  /\ req[p] = Idle /\ req'[p].op \in Ops
             /\ UNCHANGED <<users, roles, unused, member, grants, cache, up>>
  BY <1>1, StartFields
<1> QED BY <1>1 DEF Arrive, AssignRoles, RemoveRoles, UpdateUser, RemoveUser, CreateRole,
           AssignPermissions, RemoveRole, RemovePermissions, AssignUsers, RemoveUsers,
           Guard, Warm, Kick

(* Only a request that is not idle writes, reads or is aborted.             *)
LEMMA MoverIsBusy ==
  ASSUME NEW p \in Procs, Write(p) \/ CacheStep(p) \/ Abort(p)
  PROVE  req[p] # Idle
  BY DEF Write, UserRolesDelete, UserRolesCreate, UserRolesRemove, RoleUsersDelete,
         RoleUsersCreate, RoleUsersRemove, UserDelete, RoleDelete, RoleCreate,
         RolePermissionsDelete, RolePermissionsCreate, RolePermissionsRemove,
         CacheStep, Members, Evict, GuardGet, GuardLoad, GuardSet, Abort, At, Idle

(* When one request at a time is under way, it is the one that moves.       *)
LEMMA MoverIsAlone ==
  ASSUME AInv, OneAtATime, NEW p \in Procs, Move(p) \/ Abort(p)
  PROVE  Alone(p)
<1>1. PICK q \in Procs : Alone(q)
  BY DEF OneAtATime
<1>2. ASSUME p # q PROVE FALSE
  <2>1. req[p] = Idle /\ req'[p] = Idle
    BY <1>1, <1>2 DEF Alone
  <2>2. Arrive(p)
    BY <2>1, MoverIsBusy DEF Move
  <2>3. "none" \notin Ops
    BY AccessAssumption DEF AllOps
  <2> QED BY <2>1, <2>2, <2>3, ArriveQuiet DEF Idle
<1> QED BY <1>1, <1>2

(* A step of one request leaves the others as they are.                     *)
LEMMA MovesItself ==
  ASSUME AInv, NEW p \in Procs, Move(p), NEW q \in Procs, q # p
  PROVE  req'[q] = req[q]
<1>1. req \in [Procs -> Request]
  BY DEF AInv, TypeOK
<1>2. CASE Arrive(p)
  <2>1. ASSUME NEW o, NEW l, NEW us, NEW rs, NEW ps, Start(p, o, l, us, rs, ps)
        PROVE  req'[q] = req[q]
    BY <1>1, <2>1 DEF Start
  <2> QED BY <1>2, <2>1 DEF Arrive, AssignRoles, RemoveRoles, UpdateUser, RemoveUser, CreateRole,
             AssignPermissions, RemoveRole, RemovePermissions, AssignUsers, RemoveUsers,
             Guard, Warm, Kick
<1>3. ASSUME NEW l, Goto(p, l) \/ Finish(p) PROVE req'[q] = req[q]
  BY <1>1, <1>3 DEF Goto, Finish
<1>4. CASE Write(p)
  BY <1>3, <1>4 DEF Write, UserRolesDelete, UserRolesCreate, UserRolesRemove, RoleUsersDelete,
         RoleUsersCreate, RoleUsersRemove, UserDelete, RoleDelete, RoleCreate,
         RolePermissionsDelete, RolePermissionsCreate, RolePermissionsRemove
<1>5. CASE Members(p) \/ Evict(p) \/ GuardSet(p)
  BY <1>1, <1>3, <1>5 DEF Members, Evict, GuardSet
<1>6. CASE GuardGet(p) \/ GuardLoad(p)
  <2>1. PICK u \in Users : req[p].us = {u}
    BY <1>6 DEF GuardGet, GuardLoad, At, AInv, Carries, GuardPcs
  <2> QED BY <1>1, <1>3, <1>6, <2>1 DEF GuardGet, GuardLoad
<1> QED BY <1>2, <1>4, <1>5, <1>6 DEF Move, CacheStep

LEMMA SoloInit == ASSUME NEW as, StartsWith(as) PROVE SoloInv
<1>1. RowsRefer /\ roles \cap unused = {}
  BY AccessAssumption DEF StartsWith, RowsRefer
<1>2. \A p \in Procs : Solo(req[p])
  BY IdleSolo DEF StartsWith
<1> QED BY <1>1, <1>2 DEF SoloInv

(* A step that leaves the tables alone.                                    *)
LEMMA SameTables ==
  ASSUME SoloInv, NEW p \in Procs, Alone(p),
         UNCHANGED <<users, roles, unused, member, grants>>, Solo(req[p])'
  PROVE  SoloInv'
<1>1. RowsRefer' /\ (roles \cap unused = {})'
  BY DEF SoloInv, RowsRefer
<1> QED BY <1>1, SoloOne

(* A request that starts has checked what it relies on.                     *)
LEMMA StartSolo ==
  ASSUME AInv, SoloInv, NEW p \in Procs, Alone(p), NEW o, NEW l,
         NEW us, NEW rs, NEW ps, Start(p, o, l, us, rs, ps),
         LET r == [op |-> o, pc |-> l, us |-> us, rs |-> rs, ps |-> ps] IN Solo(r)
  PROVE  SoloInv'
<1> DEFINE r == [op |-> o, pc |-> l, us |-> us, rs |-> rs, ps |-> ps]
<1>1. req'[p] = r /\ UNCHANGED <<users, roles, unused, member, grants>>
  BY DEF Start, AInv, TypeOK, tables
<1>2. Solo(r)
  OBVIOUS
<1> HIDE DEF r
<1>3. Solo(req[p])'
  BY <1>1, <1>2 DEF Solo, Supported, Cleared, Unheld, Counted, Loaded, Supers, PermsOf
<1> QED BY <1>1, <1>3, SameTables

LEMMA ArriveSolo == ASSUME AInv, SoloInv, NEW p \in Procs, Alone(p), Arrive(p) PROVE SoloInv'
<1> USE DEF Solo, Supported, Cleared, Unheld, Counted, Loaded
<1>1. ASSUME NEW a \in Users, NEW u \in Users, NEW rs \in SUBSET Roles,
             AssignRoles(p, a, u, rs) \/ RemoveRoles(p, a, u, rs)
      PROVE  SoloInv'
  <2>1. CASE AssignRoles(p, a, u, rs)
    BY <2>1, StartSolo DEF AssignRoles, MayTouch, IsSuper
  <2>2. CASE RemoveRoles(p, a, u, rs)
    BY <2>2, StartSolo DEF RemoveRoles, MayTouch, IsSuper
  <2> QED BY <1>1, <2>1, <2>2
<1>2. ASSUME NEW a \in Users, NEW u \in Users, NEW disable \in BOOLEAN,
             UpdateUser(p, a, u, disable)
      PROVE  SoloInv'
  BY <1>2, StartSolo DEF UpdateUser
<1>3. ASSUME NEW a \in Users, NEW us \in SUBSET Users, RemoveUser(p, a, us)
      PROVE  SoloInv'
  BY <1>3, StartSolo DEF RemoveUser, MayTouch, IsSuper
<1>4. ASSUME NEW a \in Users, NEW r \in Roles, NEW ps \in SUBSET Perms,
             CreateRole(p, a, r, ps) \/ AssignPermissions(p, a, r, ps)
      PROVE  SoloInv'
  <2>1. CASE CreateRole(p, a, r, ps)
    BY <2>1, StartSolo DEF CreateRole
  <2>2. CASE AssignPermissions(p, a, r, ps)
    BY <2>2, StartSolo DEF AssignPermissions
  <2> QED BY <1>4, <2>1, <2>2
<1>5. ASSUME NEW rs \in SUBSET Roles, RemoveRole(p, rs)
      PROVE  SoloInv'
  <2>1. \A m \in member : m[2] \notin rs
    BY <1>5 DEF RemoveRole, AInv, TypeOK
  <2> QED BY <1>5, <2>1, StartSolo DEF RemoveRole
<1>6. ASSUME NEW r \in Roles, NEW ps \in SUBSET Perms, RemovePermissions(p, r, ps)
      PROVE  SoloInv'
  BY <1>6, StartSolo DEF RemovePermissions
<1>7. ASSUME NEW a \in Users, NEW r \in Roles, NEW us \in SUBSET Users,
             AssignUsers(p, a, r, us) \/ RemoveUsers(p, a, r, us)
      PROVE  SoloInv'
  <2>1. CASE AssignUsers(p, a, r, us)
    BY <2>1, StartSolo DEF AssignUsers
  <2>2. CASE RemoveUsers(p, a, r, us)
    BY <2>2, StartSolo DEF RemoveUsers
  <2> QED BY <1>7, <2>1, <2>2
<1>8. ASSUME NEW u \in Users, Guard(p, u) \/ Warm(p, u) \/ Kick(p, u)
      PROVE  SoloInv'
  BY <1>8, StartSolo DEF Guard, Warm, Kick
<1> QED BY <1>1, <1>2, <1>3, <1>4, <1>5, <1>6, <1>7, <1>8 DEF Arrive

(* The writes: each leaves rows that refer to what exists, and finds what it *)
(* was checked for.                                                        *)
LEMMA WriteSolo == ASSUME AInv, SoloInv, NEW p \in Procs, Alone(p), Write(p) PROVE SoloInv'
<1>1. /\ RowsRefer /\ roles \cap unused = {}
      /\ Supported(req[p]) /\ Cleared(req[p]) /\ Unheld(req[p]) /\ Counted(req[p])
  BY DEF SoloInv, Solo
<1>2. ASSUME RowsRefer', (roles \cap unused = {})', req'[p].pc \in FreePcs PROVE SoloInv'
  BY <1>2, FreeSolo, SoloOne
<1> USE DEF At
<1>3. CASE UserRolesDelete(p)
  <2>1. /\ member' = {m \in member : m[1] \notin req[p].us} /\ req[p].pc = "ur_delete"
        /\ UNCHANGED <<users, roles, unused, grants>>
        /\ req'[p].pc = "ur_create" /\ req'[p].us = req[p].us /\ req'[p].rs = req[p].rs
    BY <1>3, GotoFields DEF UserRolesDelete
  <2>2. RowsRefer' /\ (roles \cap unused = {})'
    BY <1>1, <2>1 DEF RowsRefer
  <2>3. Solo(req[p])'
    BY <1>1, <2>1 DEF Solo, Supported, Cleared, Unheld, Counted, Loaded, Supers
  <2> QED BY <2>2, <2>3, SoloOne
<1>4. CASE UserRolesCreate(p)
  <2>1. /\ member' \in {member, member \cup (req[p].us \X req[p].rs)}
        /\ UNCHANGED <<users, roles, unused, grants>>
        /\ req[p].us \subseteq users /\ req[p].rs \subseteq roles
    BY <1>1, <1>4 DEF UserRolesCreate, Supported
  <2>2. req'[p].pc \in FreePcs
    BY <1>4, GotoFields, FinishFields DEF UserRolesCreate, FreePcs
  <2> QED BY <1>1, <1>2, <2>1, <2>2 DEF RowsRefer
<1>5. CASE UserRolesRemove(p) \/ RoleUsersRemove(p)
  <2>1. member' \subseteq member /\ UNCHANGED <<users, roles, unused, grants>>
    BY <1>5 DEF UserRolesRemove, RoleUsersRemove
  <2>2. req'[p].pc \in FreePcs
    BY <1>5, GotoFields, FinishFields DEF UserRolesRemove, RoleUsersRemove, FreePcs
  <2> QED BY <1>1, <1>2, <2>1, <2>2 DEF RowsRefer
<1>6. CASE RoleUsersDelete(p)
  <2>1. /\ member' = {m \in member : m[2] \notin req[p].rs} /\ req[p].pc = "ru_delete"
        /\ UNCHANGED <<users, roles, unused, grants>>
        /\ req'[p].pc = "ru_create" /\ req'[p].us = req[p].us /\ req'[p].rs = req[p].rs
    BY <1>6, GotoFields DEF RoleUsersDelete
  <2>2. RowsRefer' /\ (roles \cap unused = {})'
    BY <1>1, <2>1 DEF RowsRefer
  <2>3. Solo(req[p])'
    BY <1>1, <2>1 DEF Solo, Supported, Cleared, Unheld, Counted, Loaded
  <2> QED BY <2>2, <2>3, SoloOne
<1>7. CASE RoleUsersCreate(p)
  <2>1. /\ member' \in {member, member \cup (req[p].us \X req[p].rs)}
        /\ UNCHANGED <<users, roles, unused, grants>>
        /\ req[p].us \subseteq users /\ req[p].rs \subseteq roles
    BY <1>1, <1>7 DEF RoleUsersCreate, Supported
  <2>2. req'[p].pc \in FreePcs
    BY <1>7, FinishFields DEF RoleUsersCreate, FreePcs
  <2> QED BY <1>1, <1>2, <2>1, <2>2 DEF RowsRefer
<1>8. CASE UserDelete(p)
  <2>1. req'[p].pc \in FreePcs
    BY <1>8, FinishFields DEF UserDelete, FreePcs
  <2> QED BY <1>1, <1>2, <1>8, <2>1 DEF RowsRefer, UserDelete
<1>9. CASE RoleDelete(p)
  <2>1. req'[p].pc \in FreePcs
    BY <1>9, FinishFields DEF RoleDelete, FreePcs
  <2>2. RowsRefer' /\ (roles \cap unused = {})'
    BY <1>1, <1>9 DEF RowsRefer, RoleDelete
  <2> QED BY <1>2, <2>1, <2>2
<1>10. CASE RoleCreate(p)
  <2>1. /\ roles' = roles \cup req[p].rs /\ unused' = unused \ req[p].rs
        /\ UNCHANGED <<users, member, grants>> /\ req[p].rs \subseteq unused
        /\ req'[p].pc = "rp_create" /\ req'[p].rs = req[p].rs
    BY <1>1, <1>10, GotoFields DEF RoleCreate, Supported
  <2>2. RowsRefer' /\ (roles \cap unused = {})'
    BY <1>1, <2>1 DEF RowsRefer
  <2>3. /\ \A m \in member : m[2] \notin req[p].rs
        /\ \A g \in grants : g[1] \notin req[p].rs
    BY <1>1, <2>1 DEF RowsRefer
  <2>4. Solo(req[p])'
    BY <2>1, <2>3 DEF Solo, Supported, Cleared, Unheld, Counted, Loaded
  <2> QED BY <2>2, <2>4, SoloOne
<1>11. CASE RolePermissionsDelete(p)
  <2>1. /\ grants' = {g \in grants : g[1] \notin req[p].rs} /\ req[p].pc = "rp_delete"
        /\ UNCHANGED <<users, roles, unused, member>>
        /\ req'[p].pc = "rp_create" /\ req'[p].rs = req[p].rs /\ req'[p].op = req[p].op
    BY <1>11, GotoFields DEF RolePermissionsDelete
  <2>2. RowsRefer' /\ (roles \cap unused = {})'
    BY <1>1, <2>1 DEF RowsRefer
  <2>3. Solo(req[p])'
    BY <1>1, <2>1 DEF Solo, Supported, Cleared, Unheld, Counted, Loaded
  <2> QED BY <2>2, <2>3, SoloOne
<1>12. CASE RolePermissionsCreate(p)
  <2>1. /\ grants' \in {grants, grants \cup (req[p].rs \X req[p].ps)}
        /\ UNCHANGED <<users, roles, unused, member>> /\ req[p].rs \subseteq roles
    BY <1>1, <1>12 DEF RolePermissionsCreate, Supported
  <2>2. req'[p].pc \in FreePcs
    BY <1>12, GotoFields, FinishFields DEF RolePermissionsCreate, FreePcs
  <2> QED BY <1>1, <1>2, <2>1, <2>2 DEF RowsRefer
<1>13. CASE RolePermissionsRemove(p)
  <2>1. req'[p].pc \in FreePcs
    BY <1>13, GotoFields DEF RolePermissionsRemove, FreePcs
  <2> QED BY <1>1, <1>2, <1>13, <2>1 DEF RowsRefer, RolePermissionsRemove
<1> QED BY <1>3, <1>4, <1>5, <1>6, <1>7, <1>8, <1>9, <1>10, <1>11, <1>12, <1>13 DEF Write

LEMMA CacheSolo == ASSUME AInv, SoloInv, NEW p \in Procs, Alone(p), CacheStep(p) PROVE SoloInv'
<1>1. UNCHANGED <<users, roles, unused, member, grants>>
  BY DEF CacheStep, Members, Evict, GuardGet, GuardLoad, GuardSet, tables
<1>2. ASSUME req'[p].pc \in FreePcs PROVE SoloInv'
  BY <1>1, <1>2, FreeSolo, SameTables
<1> USE DEF At, FreePcs
<1>3. CASE Members(p)
  BY <1>2, <1>3 DEF Members, AInv, TypeOK
<1>4. CASE Evict(p)
  <2>1. CASE Finish(p)
    BY <1>2, <2>1, FinishFields
  <2>2. ASSUME NEW u, req' = [req EXCEPT ![p].us = @ \ {u}] PROVE SoloInv'
    BY <1>2, <1>4, <2>2 DEF Evict, AInv, TypeOK, Request
  <2> QED BY <1>4, <2>1, <2>2 DEF Evict
<1>5. CASE GuardGet(p) \/ GuardLoad(p) \/ GuardSet(p)
  <2>1. PICK u \in Users : req[p].us = {u}
    BY <1>5 DEF GuardGet, GuardLoad, GuardSet, AInv, Carries, GuardPcs
  <2>2. CASE Finish(p)
    BY <1>2, <2>2, FinishFields
  <2>3. CASE Goto(p, "g_load")
    BY <1>2, <2>3, GotoFields
  <2>4. ASSUME NEW ps, req' = [req EXCEPT ![p].pc = "g_set", ![p].ps = ps],
               u \in users => ps = PermsOf(u)
        PROVE  SoloInv'
    <3>1. req'[p].pc = "g_set" /\ req'[p].us = {u} /\ req'[p].ps = ps
      BY <2>1, <2>4 DEF AInv, TypeOK, Request
    <3>2. Solo(req[p])'
      BY <1>1, <2>4, <3>1 DEF Solo, Supported, Cleared, Unheld, Counted, Loaded, PermsOf
    <3> QED BY <1>1, <3>2, SameTables
  <2> QED BY <1>5, <2>1, <2>2, <2>3, <2>4 DEF GuardGet, GuardLoad, GuardSet
<1> QED BY <1>3, <1>4, <1>5 DEF CacheStep

LEMMA SoloMove ==
  ASSUME AInv, SoloInv, NEW p \in Procs, Alone(p), Move(p) \/ Abort(p) PROVE SoloInv'
<1>1. CASE Abort(p)
  <2>1. req'[p].pc \in FreePcs /\ UNCHANGED <<users, roles, unused, member, grants>>
    BY <1>1, FinishFields DEF Abort, FreePcs, tables
  <2> QED BY <2>1, FreeSolo, SameTables
<1> QED BY <1>1, ArriveSolo, WriteSolo, CacheSolo DEF Move

LEMMA SoloAround == ASSUME SoloInv, Around \/ UNCHANGED vars PROVE SoloInv'
<1>1. UNCHANGED <<users, roles, unused, member, grants, req>>
  BY DEF Around, Elapse, RedisDown, RedisConnect, vars, tables
<1> QED BY <1>1 DEF SoloInv, RowsRefer, Solo, Supported, Cleared, Unheld, Counted, Loaded,
                    Supers, PermsOf

(* The steps of Next: a request moves or is aborted, or something around     *)
(* the requests happens.                                                   *)
LEMMA KindsOfStep ==
  ASSUME AInv, [Next]_vars, [OneAtATime]_vars
  PROVE  \/ \E p \in Procs : Alone(p) /\ (Move(p) \/ Abort(p))
         \/ Around \/ UNCHANGED vars
<1>1. ASSUME NEW p \in Procs, Move(p) \/ Abort(p), OneAtATime PROVE Alone(p)
  BY <1>1, MoverIsAlone
<1> QED BY <1>1 DEF Next, Move, Around

LEMMA SoloInvariance == Spec /\ [][OneAtATime]_vars => []SoloInv
<1>1. Init => SoloInv
  BY InitStart, SoloInit
<1>2. AInv /\ SoloInv /\ [Next]_vars /\ [OneAtATime]_vars => SoloInv'
  BY KindsOfStep, SoloMove, SoloAround
<1> QED BY <1>1, <1>2, AccessInvariance, PTL DEF Spec

LEMMA SoloRefers == SoloInv => NoDanglingRows
  BY DEF SoloInv, RowsRefer, NoDanglingRows

(* Prisma deletes what refers to a deleted user or role, and the handlers    *)
(* check what they are about to refer to: with requests one after the       *)
(* other, aborted anywhere, no row of user_roles or role_permissions is     *)
(* left without its user or role.                                          *)
THEOREM SoloRowsRefer == Spec /\ [][OneAtATime]_vars => []NoDanglingRows
BY SoloRefers, SoloInvariance, PTL

-----------------------------------------------------------------------------
(* The super admins.  Only an assignment of the super role's users leaves    *)
(* fewer than two of them, between its two statements.                      *)

SupersStart == IsFiniteSet(Users) /\ Cardinality(Admins) >= 2

Replacing(r) == r.pc = "ru_create" /\ Super \in r.rs

SupersInv == Cardinality(Supers) >= 2 \/ \E p \in Procs : Replacing(req[p])

LEMMA Enough ==
  ASSUME IsFiniteSet(Users), NEW T \in SUBSET Users, NEW S \in SUBSET T, Cardinality(S) >= 2
  PROVE  Cardinality(T) >= 2
<1>1. IsFiniteSet(T)
  BY FS_Subset
<1>2. IsFiniteSet(S) /\ Cardinality(S) <= Cardinality(T)
  BY <1>1, FS_Subset
<1>3. Cardinality(S) \in Nat /\ Cardinality(T) \in Nat
  BY <1>1, <1>2, FS_CardinalityType
<1> QED BY <1>2, <1>3

LEMMA SupersInit ==
  ASSUME SupersStart, NEW as, StartsWith(as), Cardinality(as) = Cardinality(Admins)
  PROVE  SupersInv
<1>1. Supers = as
  BY AccessAssumption DEF StartsWith, Supers
<1> QED BY <1>1 DEF SupersInv, SupersStart

(* Who was a super admin still is one.                                     *)
LEMMA SupersStay ==
  ASSUME SupersStart, AInv', SupersInv, NEW p \in Procs, Alone(p),
         ~Replacing(req[p]), Supers \subseteq Supers'
  PROVE  SupersInv'
<1>1. Cardinality(Supers) >= 2
  BY DEF Alone, SupersInv, Replacing, Idle
<1>2. Supers' \subseteq Users
  BY DEF Supers, AInv, TypeOK
<1> QED BY <1>1, <1>2, Enough DEF SupersStart, SupersInv

LEMMA WriteSupers ==
  ASSUME SupersStart, AInv, AInv', SoloInv, SupersInv, NEW p \in Procs, Alone(p), Write(p)
  PROVE  SupersInv'
<1>1. Supported(req[p]) /\ Cleared(req[p]) /\ Counted(req[p]) /\ Carries(req[p])
  BY DEF SoloInv, Solo, AInv
<1>2. ASSUME Supers \subseteq Supers', req[p].pc # "ru_create" \/ Super \notin req[p].rs
      PROVE  SupersInv'
  BY <1>2, SupersStay DEF Replacing
<1>3. Supers' \subseteq Users
  BY DEF Supers, AInv, TypeOK
<1> USE DEF At
<1>4. CASE UserRolesDelete(p) \/ UserRolesCreate(p) \/ UserRolesRemove(p) \/ UserDelete(p)
  <2>1. req[p].us \cap Supers = {} /\ req[p].pc # "ru_create"
    BY <1>1, <1>4 DEF Counted, UserRolesDelete, UserRolesCreate, UserRolesRemove, UserDelete
  <2>2. Supers \subseteq Supers'
    BY <1>4, <2>1 DEF Supers, UserRolesDelete, UserRolesCreate, UserRolesRemove, UserDelete
  <2> QED BY <1>2, <2>1, <2>2
<1>5. CASE RoleUsersDelete(p)
  <2>1. CASE Super \in req[p].rs
    <3>1. Replacing(req[p])'
      BY <1>5, <2>1, GotoFields DEF RoleUsersDelete, Replacing
    <3> QED BY <3>1 DEF SupersInv
  <2>2. CASE Super \notin req[p].rs
    BY <1>2, <1>5, <2>2 DEF RoleUsersDelete, Supers
  <2> QED BY <2>1, <2>2
<1>6. CASE RoleUsersCreate(p)
  <2>1. CASE Super \in req[p].rs
    <3>1. req[p].us \subseteq users /\ Cardinality(req[p].us) >= 2
      BY <1>1, <1>6, <2>1 DEF Supported, Counted, RoleUsersCreate
    <3>2. (req[p].us \X req[p].rs) \cap member = {}
      BY <1>1, <1>6 DEF Cleared, RoleUsersCreate
    <3>3. req[p].us \subseteq Supers'
      BY <1>6, <2>1, <3>1, <3>2 DEF RoleUsersCreate, Supers
    <3> QED BY <1>3, <3>1, <3>3, Enough DEF SupersStart, SupersInv
  <2>2. CASE Super \notin req[p].rs
    BY <1>2, <1>6, <2>2 DEF RoleUsersCreate, Supers
  <2> QED BY <2>1, <2>2
<1>7. CASE RoleUsersRemove(p)
  <2>1. CASE Super \in req[p].rs
    <3>1. Cardinality(Supers \ req[p].us) >= 2 /\ Supers \ req[p].us \subseteq Supers'
      BY <1>1, <1>7, <2>1 DEF RoleUsersRemove, Counted, Supers
    <3> QED BY <1>3, <3>1, Enough DEF SupersStart, SupersInv
  <2>2. CASE Super \notin req[p].rs
    BY <1>2, <1>7, <2>2 DEF RoleUsersRemove, Supers
  <2> QED BY <2>1, <2>2
<1>8. CASE RoleDelete(p)
  <2>1. Super \notin req[p].rs
    BY <1>1, <1>8 DEF RoleDelete, Carries, RolePcs
  <2> QED BY <1>2, <1>8, <2>1 DEF RoleDelete, Supers
<1>9. CASE \/ RoleCreate(p) \/ RolePermissionsDelete(p) \/ RolePermissionsCreate(p)
           \/ RolePermissionsRemove(p)
  <2>1. UNCHANGED <<users, member>> /\ req[p].pc # "ru_create"
    BY <1>9 DEF RoleCreate, RolePermissionsDelete, RolePermissionsCreate, RolePermissionsRemove
  <2> QED BY <1>2, <2>1 DEF Supers
<1> QED BY <1>4, <1>5, <1>6, <1>7, <1>8, <1>9 DEF Write

LEMMA SupersMove ==
  ASSUME SupersStart, AInv, AInv', SoloInv, SupersInv, NEW p \in Procs, Alone(p), Move(p)
  PROVE  SupersInv'
<1>1. CASE Arrive(p)
  <2>1. UNCHANGED <<users, member>> /\ req[p].pc # "ru_create"
    BY <1>1, ArriveQuiet DEF Idle
  <2> QED BY <2>1, SupersStay DEF Supers, Replacing
<1>2. CASE CacheStep(p)
  <2>1. UNCHANGED <<users, member>> /\ req[p].pc # "ru_create"
    BY <1>2 DEF CacheStep, Members, Evict, GuardGet, GuardLoad, GuardSet, At, tables
  <2> QED BY <2>1, SupersStay DEF Supers, Replacing
<1> QED BY <1>1, <1>2, WriteSupers DEF Move

LEMMA SupersAround == ASSUME SupersInv, Around \/ UNCHANGED vars PROVE SupersInv'
<1>1. UNCHANGED <<users, member, req>>
  BY DEF Around, Elapse, RedisDown, RedisConnect, vars, tables
<1> QED BY <1>1 DEF SupersInv, Supers, Replacing

LEMMA SupersSuffice == SupersInv => TwoSupersRemain
  BY DEF SupersInv, TwoSupersRemain, Quiet, Replacing, Idle

(* validateLastSuperAdmin and the checks of assignUsers suffice as long as   *)
(* requests do not overlap and MySQL does not fail between the delete and    *)
(* the insert: two super admins remain, for any number of users.            *)
THEOREM SoloSupersRemain ==
  ASSUME SupersStart, "mysql" \notin Faults
  PROVE  Spec /\ [][OneAtATime]_vars => []TwoSupersRemain
<1>1. Init => SupersInv
  BY InitStart, SupersInit
<1>2. AInv /\ AInv' /\ SoloInv /\ SupersInv /\ [Next]_vars /\ [OneAtATime]_vars => SupersInv'
  BY KindsOfStep, SupersMove, SupersAround DEF Abort
<1> QED BY <1>1, <1>2, SupersSuffice, AccessInvariance, SoloInvariance, PTL DEF Spec

-----------------------------------------------------------------------------
(* The cache.  With Redis up, no failures and without assignUsers and        *)
(* removeUsers, which evict nothing, what the cache says of a user is true   *)
(* or about to be evicted by the request that made it false.               *)

Unevicting == {"assignUsers", "removeUsers"}

RoleUserPcs == {"ru_delete", "ru_create", "ru_remove"}

Holders(rs) == {u \in Users : \E x \in rs : <<u, x>> \in member}

(* The users whose entries the request has still to evict.                  *)
Pending(r) ==
    CASE r.pc \in {"ur_create", "evict"} -> r.us
      [] r.pc \in {"rp_create", "members"} -> Holders(r.rs)
      [] OTHER -> {}

Tells(u) == cache[u] = Miss \/ cache[u] = PermsOf(u)

CacheInv ==
    /\ up
    /\ \A p \in Procs : req[p].pc \notin RoleUserPcs
    /\ \A u \in users : Tells(u) \/ \E p \in Procs : u \in Pending(req[p])

LEMMA CacheInit == ASSUME NEW as, StartsWith(as) PROVE CacheInv
<1>1. \A u \in users : Tells(u)
  BY DEF StartsWith, Tells
<1>2. \A p \in Procs : req[p].pc \notin RoleUserPcs
  BY DEF StartsWith, Idle, RoleUserPcs
<1> QED BY <1>1, <1>2 DEF StartsWith, CacheInv

(* With one request, the invariant is about that one.                      *)
LEMMA CacheOne ==
  ASSUME CacheInv, NEW p \in Procs, Alone(p)
  PROVE  /\ up /\ req[p].pc \notin RoleUserPcs
         /\ \A u \in users : Tells(u) \/ u \in Pending(req[p])
<1>1. Pending(Idle) = {}
  BY DEF Pending, Idle
<1> QED BY <1>1 DEF Alone, CacheInv

LEMMA CacheOneNext ==
  ASSUME NEW p \in Procs, Alone(p), up', req'[p].pc \notin RoleUserPcs,
         \A u \in users' : Tells(u)' \/ u \in Pending(req[p])'
  PROVE  CacheInv'
<1>1. \A q \in Procs : req'[q].pc \notin RoleUserPcs
  BY DEF Alone, Idle, RoleUserPcs
<1> QED BY <1>1 DEF CacheInv

(* A step that keeps Redis as it is, and a user's rows unless he is pending. *)
LEMMA TrueStays ==
  ASSUME CacheInv, NEW p \in Procs, Alone(p), up' = up, cache' = cache,
         req'[p].pc \notin RoleUserPcs, users' \subseteq users,
         Pending(req[p]) \cap users' \subseteq Pending(req[p])',
         \A u \in users' : PermsOf(u)' = PermsOf(u) \/ u \in Pending(req[p])'
  PROVE  CacheInv'
<1>1. up /\ \A u \in users : Tells(u) \/ u \in Pending(req[p])
  BY CacheOne
<1>2. \A u \in users' : Tells(u)' \/ u \in Pending(req[p])'
  BY <1>1 DEF Tells
<1> QED BY <1>1, <1>2, CacheOneNext

LEMMA ArriveCache ==
  ASSUME AInv, CacheInv, NEW p \in Procs, Alone(p), Arrive(p), req'[p].op \notin Unevicting
  PROVE  CacheInv'
<1>1. ASSUME NEW o, NEW l, NEW us, NEW rs, NEW ps, Start(p, o, l, us, rs, ps),
             l \in RoleUserPcs => o \in Unevicting
      PROVE  CacheInv'
  <2>1. /\ req[p] = Idle /\ req'[p].op = o /\ req'[p].pc = l
        /\ UNCHANGED <<users, roles, unused, member, grants, cache, up>>
    BY <1>1, StartFields
  <2>2. Pending(req[p]) = {} /\ l \notin RoleUserPcs
    BY <1>1, <2>1 DEF Pending, Idle
  <2>3. \A u \in users' : PermsOf(u)' = PermsOf(u)
    BY <2>1 DEF PermsOf
  <2> QED BY <2>1, <2>2, <2>3, TrueStays
<1> USE DEF RoleUserPcs, Unevicting
<1>2. ASSUME NEW a \in Users, NEW u \in Users, NEW rs \in SUBSET Roles,
             AssignRoles(p, a, u, rs) \/ RemoveRoles(p, a, u, rs)
      PROVE  CacheInv'
  BY <1>1, <1>2 DEF AssignRoles, RemoveRoles
<1>3. ASSUME NEW a \in Users, NEW u \in Users, NEW disable \in BOOLEAN,
             UpdateUser(p, a, u, disable)
      PROVE  CacheInv'
  BY <1>1, <1>3 DEF UpdateUser
<1>4. ASSUME NEW a \in Users, NEW us \in SUBSET Users, RemoveUser(p, a, us)
      PROVE  CacheInv'
  BY <1>1, <1>4 DEF RemoveUser
<1>5. ASSUME NEW a \in Users, NEW r \in Roles, NEW ps \in SUBSET Perms,
             CreateRole(p, a, r, ps) \/ AssignPermissions(p, a, r, ps)
      PROVE  CacheInv'
  BY <1>1, <1>5 DEF CreateRole, AssignPermissions
<1>6. ASSUME NEW rs \in SUBSET Roles, RemoveRole(p, rs)
      PROVE  CacheInv'
  BY <1>1, <1>6 DEF RemoveRole
<1>7. ASSUME NEW r \in Roles, NEW ps \in SUBSET Perms, RemovePermissions(p, r, ps)
      PROVE  CacheInv'
  BY <1>1, <1>7 DEF RemovePermissions
<1>8. ASSUME NEW a \in Users, NEW r \in Roles, NEW us \in SUBSET Users,
             AssignUsers(p, a, r, us) \/ RemoveUsers(p, a, r, us)
      PROVE  CacheInv'
  BY <1>1, <1>8 DEF AssignUsers, RemoveUsers
<1>9. ASSUME NEW u \in Users, Guard(p, u) \/ Warm(p, u) \/ Kick(p, u)
      PROVE  CacheInv'
  BY <1>1, <1>9 DEF Guard, Warm, Kick
<1> QED BY <1>2, <1>3, <1>4, <1>5, <1>6, <1>7, <1>8, <1>9 DEF Arrive

(* The permissions of a user that a write does not concern.                 *)
LEMMA SamePerms ==
  ASSUME NEW u, \A r \in Roles, c \in Perms :
            (<<u, r>> \in member' /\ <<r, c>> \in grants')
              <=> (<<u, r>> \in member /\ <<r, c>> \in grants)
  PROVE  PermsOf(u)' = PermsOf(u)
  BY DEF PermsOf, PermsIn

LEMMA WriteCache ==
  ASSUME AInv, SoloInv, CacheInv, NEW p \in Procs, Alone(p), Write(p)
  PROVE  CacheInv'
<1>1. /\ up /\ req[p].pc \notin RoleUserPcs /\ req[p] \in Request
      /\ RowsRefer /\ Supported(req[p]) /\ Cleared(req[p]) /\ Unheld(req[p])
  BY CacheOne DEF SoloInv, Solo, AInv, TypeOK
<1> USE DEF At, RoleUserPcs
<1>2. CASE UserRolesDelete(p)
  <2>1. /\ req'[p].pc = "ur_create" /\ req'[p].us = req[p].us /\ req[p].pc = "ur_delete"
        /\ member' = {m \in member : m[1] \notin req[p].us}
        /\ UNCHANGED <<users, grants, cache, up>>
    BY <1>2, GotoFields DEF UserRolesDelete
  <2>2. Pending(req[p]) = {} /\ Pending(req[p])' = req[p].us
    BY <2>1 DEF Pending
  <2>3. ASSUME NEW u \in users, u \notin req[p].us PROVE PermsOf(u)' = PermsOf(u)
    BY <2>1, <2>3, SamePerms
  <2> QED BY <2>1, <2>2, <2>3, TrueStays
<1>3. CASE UserRolesCreate(p)
  <2>1. (req[p].us \X req[p].rs) \cap member = {}
    BY <1>1, <1>3 DEF Cleared, UserRolesCreate
  <2>2. /\ req'[p].pc = "evict" /\ req'[p].us = req[p].us /\ req[p].pc = "ur_create"
        /\ member' = member \cup (req[p].us \X req[p].rs)
        /\ UNCHANGED <<users, grants, cache, up>>
    BY <1>3, <2>1, GotoFields DEF UserRolesCreate
  <2>3. Pending(req[p]) = req[p].us /\ Pending(req[p])' = req[p].us
    BY <2>2 DEF Pending
  <2>4. ASSUME NEW u \in users, u \notin req[p].us PROVE PermsOf(u)' = PermsOf(u)
    BY <2>2, <2>4, SamePerms
  <2> QED BY <2>2, <2>3, <2>4, TrueStays
<1>4. CASE UserRolesRemove(p)
  <2>1. /\ req'[p].pc = "evict" /\ req'[p].us = req[p].us /\ req[p].pc = "ur_remove"
        /\ member' = member \ (req[p].us \X req[p].rs)
        /\ UNCHANGED <<users, grants, cache, up>>
    BY <1>4, GotoFields DEF UserRolesRemove
  <2>2. Pending(req[p]) = {} /\ Pending(req[p])' = req[p].us
    BY <2>1 DEF Pending
  <2>3. ASSUME NEW u \in users, u \notin req[p].us PROVE PermsOf(u)' = PermsOf(u)
    BY <2>1, <2>3, SamePerms
  <2> QED BY <2>1, <2>2, <2>3, TrueStays
<1>5. CASE RoleUsersDelete(p) \/ RoleUsersCreate(p) \/ RoleUsersRemove(p)
  BY <1>1, <1>5 DEF RoleUsersDelete, RoleUsersCreate, RoleUsersRemove
<1>6. CASE UserDelete(p)
  <2>1. /\ req'[p].pc = "idle" /\ req[p].pc = "u_delete"
        /\ users' = users \ req[p].us
        /\ member' = {m \in member : m[1] \notin req[p].us}
        /\ UNCHANGED <<grants, cache, up>>
    BY <1>6, FinishFields DEF UserDelete
  <2>2. Pending(req[p]) = {}
    BY <2>1 DEF Pending
  <2>3. ASSUME NEW u \in users' PROVE PermsOf(u)' = PermsOf(u)
    BY <2>1, <2>3, SamePerms
  <2> QED BY <2>1, <2>2, <2>3, TrueStays
<1>7. CASE RoleDelete(p)
  <2>1. /\ req'[p].pc = "idle" /\ req[p].pc = "r_delete"
        /\ member' = {m \in member : m[2] \notin req[p].rs}
        /\ grants' = {g \in grants : g[1] \notin req[p].rs}
        /\ UNCHANGED <<users, cache, up>>
    BY <1>7, FinishFields DEF RoleDelete
  <2>2. Pending(req[p]) = {} /\ \A m \in member : m[2] \notin req[p].rs
    BY <1>1, <2>1 DEF Pending, Unheld
  <2>3. ASSUME NEW u \in users' PROVE PermsOf(u)' = PermsOf(u)
    BY <2>1, <2>2, <2>3, SamePerms
  <2> QED BY <2>1, <2>2, <2>3, TrueStays
<1>8. CASE RoleCreate(p)
  <2>1. /\ req'[p].pc = "rp_create" /\ req[p].pc = "r_create"
        /\ UNCHANGED <<users, member, grants, cache, up>>
    BY <1>8, GotoFields DEF RoleCreate
  <2>2. Pending(req[p]) = {} /\ \A u \in users' : PermsOf(u)' = PermsOf(u)
    BY <2>1 DEF Pending, PermsOf
  <2> QED BY <2>1, <2>2, TrueStays
<1>9. CASE RolePermissionsDelete(p)
  <2>1. /\ req'[p].pc = "rp_create" /\ req'[p].rs = req[p].rs /\ req[p].pc = "rp_delete"
        /\ grants' = {g \in grants : g[1] \notin req[p].rs}
        /\ UNCHANGED <<users, member, cache, up>>
    BY <1>9, GotoFields DEF RolePermissionsDelete
  <2>2. Pending(req[p]) = {} /\ Pending(req[p])' = Holders(req[p].rs)
    BY <2>1 DEF Pending, Holders
  <2>3. ASSUME NEW u \in users, u \notin Holders(req[p].rs) PROVE PermsOf(u)' = PermsOf(u)
    BY <2>1, <2>3, SamePerms DEF Holders, AInv, TypeOK
  <2> QED BY <2>1, <2>2, <2>3, TrueStays
<1>10. CASE RolePermissionsCreate(p)
  <2>1. (req[p].rs \X req[p].ps) \cap grants = {}
    BY <1>1, <1>10 DEF Cleared, RolePermissionsCreate
  <2>2. /\ req[p].pc = "rp_create" /\ grants' = grants \cup (req[p].rs \X req[p].ps)
        /\ UNCHANGED <<users, member, cache, up>>
        /\ IF req[p].op = "createRole" THEN Finish(p) ELSE Goto(p, "members")
    BY <1>10, <2>1 DEF RolePermissionsCreate
  <2>3. Pending(req[p]) = Holders(req[p].rs)
    BY <2>2 DEF Pending
  <2>4. ASSUME NEW u \in users, u \notin Holders(req[p].rs) PROVE PermsOf(u)' = PermsOf(u)
    BY <2>2, <2>4, SamePerms DEF Holders, AInv, TypeOK
  <2>5. CASE req[p].op = "createRole"
    <3>1. Holders(req[p].rs) = {}
      BY <1>1, <2>2, <2>5 DEF Unheld, Holders
    <3>2. req'[p].pc = "idle"
      BY <2>2, <2>5, FinishFields
    <3> QED BY <2>2, <2>3, <2>4, <3>1, <3>2, TrueStays
  <2>6. CASE req[p].op # "createRole"
    <3>1. req'[p].pc = "members" /\ req'[p].rs = req[p].rs
      BY <2>2, <2>6, GotoFields
    <3>2. Pending(req[p])' = Holders(req[p].rs)
      BY <2>2, <3>1 DEF Pending, Holders
    <3> QED BY <2>2, <2>3, <2>4, <3>1, <3>2, TrueStays
  <2> QED BY <2>5, <2>6
<1>11. CASE RolePermissionsRemove(p)
  <2>1. /\ req'[p].pc = "members" /\ req'[p].rs = req[p].rs /\ req[p].pc = "rp_remove"
        /\ grants' = grants \ (req[p].rs \X req[p].ps)
        /\ UNCHANGED <<users, member, cache, up>>
    BY <1>11, GotoFields DEF RolePermissionsRemove
  <2>2. Pending(req[p]) = {} /\ Pending(req[p])' = Holders(req[p].rs)
    BY <2>1 DEF Pending, Holders
  <2>3. ASSUME NEW u \in users, u \notin Holders(req[p].rs) PROVE PermsOf(u)' = PermsOf(u)
    BY <2>1, <2>3, SamePerms DEF Holders, AInv, TypeOK
  <2> QED BY <2>1, <2>2, <2>3, TrueStays
<1> QED BY <1>2, <1>3, <1>4, <1>5, <1>6, <1>7, <1>8, <1>9, <1>10, <1>11 DEF Write

LEMMA ReadCache ==
  ASSUME AInv, SoloInv, CacheInv, NEW p \in Procs, Alone(p), CacheStep(p)
  PROVE  CacheInv'
<1>1. /\ up /\ Loaded(req[p]) /\ \A u \in users : Tells(u) \/ u \in Pending(req[p])
  BY CacheOne DEF SoloInv, Solo
<1>2. /\ UNCHANGED <<users, up>> /\ \A u : PermsOf(u)' = PermsOf(u)
  BY DEF CacheStep, Members, Evict, GuardGet, GuardLoad, GuardSet, tables, PermsOf
<1> USE DEF At, RoleUserPcs
<1>3. CASE Members(p)
  <2>1. /\ req'[p].pc = "evict" /\ req'[p].us = Holders(req[p].rs)
        /\ req[p].pc = "members" /\ cache' = cache
    BY <1>3 DEF Members, Holders, AInv, TypeOK, Request
  <2>2. Pending(req[p])' = Pending(req[p])
    BY <2>1 DEF Pending
  <2> QED BY <1>2, <2>1, <2>2, TrueStays
<1>4. CASE Evict(p)
  <2>1. Pending(req[p]) = req[p].us
    BY <1>4 DEF Evict, Pending
  <2>2. CASE req[p].us = {} /\ Finish(p) /\ UNCHANGED cache
    <3>1. req'[p].pc = "idle"
      BY <2>2, FinishFields
    <3> QED BY <1>2, <2>1, <2>2, <3>1, TrueStays
  <2>3. ASSUME NEW u \in req[p].us, cache' = [cache EXCEPT ![u] = Miss],
               req' = [req EXCEPT ![p].us = @ \ {u}]
        PROVE  CacheInv'
    <3>1. req'[p].pc = "evict" /\ req'[p].us = req[p].us \ {u}
      BY <1>4, <2>3 DEF Evict, AInv, TypeOK, Request
    <3>2. Pending(req[p])' = req[p].us \ {u}
      BY <3>1 DEF Pending
    <3>3. cache'[u] = Miss /\ \A v \in users : v # u => cache'[v] = cache[v]
      BY <2>3 DEF AInv, TypeOK, Request
    <3>4. \A v \in users : Tells(v)' \/ v \in Pending(req[p])'
      BY <1>1, <1>2, <2>1, <3>2, <3>3 DEF Tells
    <3> QED BY <1>1, <1>2, <3>1, <3>4, CacheOneNext
  <2> QED BY <1>1, <1>4, <2>2, <2>3 DEF Evict
<1>5. CASE GuardGet(p) \/ GuardLoad(p)
  <2>1. Pending(req[p]) = {} /\ cache' = cache
    BY <1>5 DEF GuardGet, GuardLoad, Pending
  <2>2. PICK u \in Users : req[p].us = {u}
    BY <1>5 DEF GuardGet, GuardLoad, AInv, Carries, GuardPcs
  <2>3. req'[p].pc \in {"idle", "g_load", "g_set"}
    <3>1. CASE Finish(p)
      BY <3>1, FinishFields
    <3>2. CASE Goto(p, "g_load")
      BY <3>2, GotoFields
    <3>3. ASSUME NEW ps, req' = [req EXCEPT ![p].pc = "g_set", ![p].ps = ps]
          PROVE  req'[p].pc = "g_set"
      BY <3>3 DEF AInv, TypeOK, Request
    <3> QED BY <1>5, <2>2, <3>1, <3>2, <3>3 DEF GuardGet, GuardLoad
  <2> QED BY <1>2, <2>1, <2>3, TrueStays
<1>6. CASE GuardSet(p)
  <2>1. PICK u \in req[p].us : cache' = [cache EXCEPT ![u] = req[p].ps]
    BY <1>1, <1>6 DEF GuardSet
  <2>2. req'[p].pc = "idle" /\ Pending(req[p]) = {}
    BY <1>6, FinishFields DEF GuardSet, Pending
  <2>3. u \in users => req[p].ps = PermsOf(u)
    BY <1>1, <1>6, <2>1 DEF Loaded, GuardSet
  <2>4. /\ u \in users => cache'[u] = req[p].ps
        /\ \A v \in users : v # u => cache'[v] = cache[v]
    BY <2>1 DEF AInv, TypeOK, Request
  <2>5. \A v \in users : Tells(v)'
    BY <1>1, <1>2, <2>2, <2>3, <2>4 DEF Tells
  <2> QED BY <1>1, <1>2, <2>2, <2>5, CacheOneNext
<1> QED BY <1>3, <1>4, <1>5, <1>6 DEF CacheStep

LEMMA CacheMove ==
  ASSUME AInv, SoloInv, CacheInv, NEW p \in Procs, Alone(p), Move(p), req'[p].op \notin Unevicting
  PROVE  CacheInv'
BY ArriveCache, WriteCache, ReadCache DEF Move

LEMMA CacheElapse ==
  ASSUME AInv, CacheInv, (\E u \in Users : Elapse(u)) \/ UNCHANGED vars PROVE CacheInv'
<1>1. ASSUME NEW w \in Users, Elapse(w) PROVE CacheInv'
  <2>1. UNCHANGED <<users, member, grants, up, req>> /\ cache' = [cache EXCEPT ![w] = Miss]
    BY <1>1 DEF Elapse, tables
  <2>2. \A u \in users : Tells(u) => Tells(u)'
    BY <2>1 DEF Tells, PermsOf, AInv, TypeOK
  <2>3. \A p \in Procs : Pending(req[p])' = Pending(req[p])
    BY <2>1 DEF Pending, Holders
  <2> QED BY <2>1, <2>2, <2>3 DEF CacheInv
<1>2. CASE UNCHANGED vars
  BY <1>2 DEF vars, tables, CacheInv, Tells, PermsOf, Pending, Holders
<1> QED BY <1>1, <1>2

LEMMA CacheSuffices == CacheInv => CacheAgrees
  BY DEF CacheInv, CacheAgrees, Quiet, Pending, Idle, Tells

(* A request stays of the kind it was when it arrived.                      *)
OpsArrived == \A p \in Procs : req[p].op \in Ops \cup {"none"}

LEMMA OpsStay == ASSUME AInv, OpsArrived, [Next]_vars PROVE OpsArrived'
<1>1. req \in [Procs -> Request]
  BY DEF AInv, TypeOK
<1>2. ASSUME NEW p \in Procs, NEW q \in Procs, Move(p), req[q].op \in Ops \cup {"none"}
      PROVE  req'[q].op \in Ops \cup {"none"}
  <2>1. CASE q # p
    BY <1>2, <2>1, MovesItself
  <2>2. CASE q = p /\ Arrive(p)
    BY <2>2, ArriveQuiet
  <2>3. ASSUME NEW l, Goto(p, l) \/ Finish(p) PROVE req'[p].op \in {req[p].op, "none"}
    BY <2>3, GotoFields, FinishFields DEF Idle
  <2>4. CASE q = p /\ Write(p)
    BY <1>2, <2>3, <2>4 DEF Write, UserRolesDelete, UserRolesCreate, UserRolesRemove,
         RoleUsersDelete, RoleUsersCreate, RoleUsersRemove, UserDelete, RoleDelete, RoleCreate,
         RolePermissionsDelete, RolePermissionsCreate, RolePermissionsRemove
  <2>5. CASE q = p /\ (Members(p) \/ Evict(p) \/ GuardSet(p))
    BY <1>1, <1>2, <2>3, <2>5 DEF Members, Evict, GuardSet, Request
  <2>6. CASE q = p /\ (GuardGet(p) \/ GuardLoad(p))
    <3>1. PICK u \in Users : req[p].us = {u}
      BY <2>6 DEF GuardGet, GuardLoad, At, AInv, Carries, GuardPcs
    <3> QED BY <1>1, <1>2, <2>3, <2>6, <3>1 DEF GuardGet, GuardLoad, Request
  <2> QED BY <1>2, <2>1, <2>2, <2>4, <2>5, <2>6 DEF Move, CacheStep
<1>3. ASSUME NEW p \in Procs, Abort(p) PROVE OpsArrived'
  BY <1>1, <1>3 DEF Abort, Finish, Idle, OpsArrived
<1>4. CASE Around \/ UNCHANGED vars
  BY <1>4 DEF Around, Elapse, RedisDown, RedisConnect, vars, tables, OpsArrived
<1> QED BY <1>2, <1>3, <1>4 DEF Next, Move, Around, OpsArrived

(* With requests one after the other, and without the two operations that    *)
(* evict nothing, the guard decides by what MySQL says: every change of      *)
(* roles and permissions evicts the entries it makes false.                *)
THEOREM SoloCacheAgrees ==
  ASSUME Faults = {}, Ops \cap Unevicting = {}
  PROVE  Spec /\ [][OneAtATime]_vars => []CacheAgrees
<1>1. Init => CacheInv /\ OpsArrived
  BY InitStart, CacheInit DEF Init, OpsArrived, Idle
<1>2. AInv /\ OpsArrived /\ [Next]_vars => OpsArrived'
  BY OpsStay
<1>3. ASSUME AInv, SoloInv, CacheInv, OpsArrived', [Next]_vars, [OneAtATime]_vars
      PROVE  CacheInv'
  <2>1. \A p \in Procs : req'[p].op \notin Unevicting
    BY <1>3 DEF OpsArrived, Unevicting
  <2>2. ~RedisDown /\ ~RedisConnect /\ \A p \in Procs : ~Abort(p)
    BY <1>3 DEF CacheInv, RedisDown, RedisConnect, Abort
  <2> QED BY <1>3, <2>1, <2>2, KindsOfStep, CacheMove, CacheElapse DEF Around
<1> QED BY <1>1, <1>2, <1>3, CacheSuffices, AccessInvariance, SoloInvariance, PTL DEF Spec

-----------------------------------------------------------------------------
(* The instance that TLC checks, for every value of its constants.          *)

LEMMA InstanceIsSpec == ASSUME [MCNext]_<<vars, part>> PROVE [Next]_vars
  BY DEF MCNext, Next

LEMMA InstanceInvariance == MCSpec => []AInv
<1>1. MCInit => AInv
  BY MCInitStart, InitAccess
<1>2. AInv /\ [MCNext]_<<vars, part>> => AInv'
  BY InstanceIsSpec, NextAccess
<1> QED BY <1>1, <1>2, PTL DEF MCSpec

(* Outside the overlap one request moves at a time, and nothing fails.       *)
LEMMA InstanceStep ==
  ASSUME AInv, [MCNext]_<<vars, part>>, part' # "overlap"
  PROVE  /\ part' = part
         /\ \/ \E p \in Procs : /\ Alone(p) /\ Move(p)
                                /\ req'[p].op \in OpsOf[part] \cup {"none"}
            \/ (\E u \in Users : Elapse(u)) \/ UNCHANGED vars
<1>1. CASE UNCHANGED <<vars, part>>
  BY <1>1
<1>2. CASE MCNext
  <2>1. part' = part /\ \A p \in Procs : req'[p].op \in OpsOf[part] \cup {"none"}
    BY <1>2 DEF MCNext, Fits
  <2>2. ASSUME NEW p \in Procs, \A q \in Procs \ {p} : req[q] = Idle, Move(p)
        PROVE  Alone(p)
    BY <2>2, MovesItself DEF Alone
  <2> QED BY <1>2, <2>1, <2>2 DEF MCNext, Move
<1> QED BY <1>1, <1>2

SerialInv == part # "overlap" => SoloInv

LEMMA SerialInvariance == MCSpec => []SerialInv
<1>1. MCInit => SerialInv
  BY MCInitStart, SoloInit DEF SerialInv
<1>2. ASSUME AInv, SerialInv, [MCNext]_<<vars, part>> PROVE SerialInv'
  BY <1>2, InstanceStep, SoloMove, SoloAround DEF SerialInv, Around
<1> QED BY <1>1, <1>2, InstanceInvariance, PTL DEF MCSpec

(* The rows of user_roles and role_permissions refer to users and roles      *)
(* that exist, as the run checks it, for any users, roles, permissions and   *)
(* requests: remove and RolesService.remove take the rows with them.        *)
THEOREM SerialRows == MCSpec => []SerialRowsRefer
<1>1. SerialInv => SerialRowsRefer
  BY SoloRefers DEF SerialInv, SerialRowsRefer
<1> QED BY <1>1, SerialInvariance, PTL

(* "At least two super admins remain", as the run checks it, for any number  *)
(* of users and at least two super admins to begin with                     *)
(* (validateLastSuperAdmin, assignUsers, removeUsers).                      *)
THEOREM SerialSupers == ASSUME SupersStart PROVE MCSpec => []SerialSupersRemain
<1> DEFINE I == part # "overlap" => SupersInv
<1>1. MCInit => I
  BY MCInitStart, SupersInit
<1>2. ASSUME AInv, AInv', SerialInv, I, [MCNext]_<<vars, part>> PROVE I'
  BY <1>2, InstanceStep, SupersMove, SupersAround DEF SerialInv, Around
<1>3. I => SerialSupersRemain
  BY SupersSuffice DEF SerialSupersRemain
<1> QED BY <1>1, <1>2, <1>3, InstanceInvariance, SerialInvariance, PTL DEF MCSpec

(* What the guard finds in the permission cache between requests is what     *)
(* MySQL says, as the run checks it, for any users, roles and permissions    *)
(* (invalidateUserPermissions, invalidateRoleUserCache).                    *)
THEOREM SerialCache == MCSpec => []SerialCacheAgrees
<1> DEFINE I == part = "cache" => CacheInv
<1>1. MCInit => I
  BY MCInitStart, CacheInit
<1>2. ASSUME AInv, SerialInv, I, [MCNext]_<<vars, part>> PROVE I'
  <2>1. SUFFICES ASSUME part' = "cache" PROVE CacheInv'
    OBVIOUS
  <2>2. part = "cache" /\ CacheInv /\ SoloInv
    BY <1>2, <2>1, InstanceStep DEF SerialInv
  <2>3. (OpsOf[part] \cup {"none"}) \cap Unevicting = {}
    BY <2>2 DEF OpsOf, Unevicting
  <2> QED BY <1>2, <2>1, <2>2, <2>3, InstanceStep, CacheMove, CacheElapse
<1>3. I => SerialCacheAgrees
  BY CacheSuffices DEF SerialCacheAgrees
<1> QED BY <1>1, <1>2, <1>3, InstanceInvariance, SerialInvariance, PTL DEF MCSpec
=============================================================================
