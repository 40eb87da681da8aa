-------------------------- MODULE PermissionsProofs --------------------------
(* What the scan, the seed and the role edits guarantee, for every set of   *)
(* builds and any number of scans running at the same time.                 *)
EXTENDS Permissions, TLAPS

(* The steps that change neither the registry nor the grants are many: the  *)
(* three parts of the invariant below each concern some of the variables.   *)

(* A running scan has still to do, or has done, every code it must keep     *)
(* live, and deletes none of them.                                         *)
ScanSound ==
    \A i \in Scanners :
        /\ scan[i].todo \subseteq Required
        /\ scan[i].gone \cap Required = {}
        /\ scan[i].pc = "sync" => Required \subseteq Live \cup scan[i].todo

(* A scan that no seed has run into deletes everything that has no route.   *)
ScanComplete ==
    \A i \in Scanners :
        scan[i].pc = "sync" /\ scan[i].alone =>
            seed.pc # "codes" /\ Live \ Required \subseteq scan[i].gone

RegistryInv ==
    /\ TypeOK
    /\ ScanSound
    /\ ScannedIsLive
    /\ ScanComplete
    /\ done.settled => seed.pc # "codes" /\ Live \subseteq Required
    /\ done.settled => done.scanned

LEMMA RequiredInCatalogue ==
    ASSUME TypeOK PROVE Required \subseteq build.catalogue /\ Required \subseteq Codes
<1>1. build \in Builds BY DEF TypeOK
<1>2. Required \subseteq build.catalogue BY <1>1, BuildsAssumption DEF BuildsAssumption, Required
<1>3. Required \subseteq Codes BY <1>1 DEF Required, Codes
<1> QED BY <1>2, <1>3

LEMMA CatalogueInCodes == ASSUME NEW b \in Builds PROVE b.catalogue \subseteq Codes
BY DEF Codes

-----------------------------------------------------------------------------
LEMMA TypeInit == ASSUME Init PROVE TypeOK
<1>1. scan \in [Scanners -> [pc : {"idle", "sync"}, todo : SUBSET Codes,
                               gone : SUBSET Codes, alone : BOOLEAN]]
  BY DEF Init, NoScan
<1>2. 0 \in 0..MaxEdits BY MaxEditsAssumption
<1>3. edits \in [count : 0..MaxEdits, handed : BOOLEAN, recent : BOOLEAN]
  BY <1>2 DEF Init
<1>4. seed \in [pc : SeedPcs, todo : SUBSET Codes] BY DEF Init, NoSeed, SeedPcs
<1>5. grants \in [Roles -> SUBSET Codes] BY DEF Init
<1>6. row \in [Codes -> {"absent", "live", "deleted"}] BY DEF Init
<1> QED BY <1>1, <1>3, <1>4, <1>5, <1>6 DEF Init, TypeOK, NothingDone

LEMMA TypeStep == ASSUME TypeOK, [Next]_vars PROVE TypeOK'
<1>1. Live \subseteq Codes BY DEF Live
<1>2. CASE UNCHANGED vars BY <1>2 DEF TypeOK, vars
<1>3. ASSUME NEW i \in Scanners, ScanStep(i) PROVE TypeOK'
  <2>1. CASE ScanBegin(i)
    BY <2>1, <1>1, RequiredInCatalogue DEF ScanBegin, TypeOK, Gone
  <2>2. CASE ScanEnd(i) BY <2>2 DEF ScanEnd, TypeOK, NoScan
  <2>3. CASE ScanFails(i) BY <2>3 DEF ScanFails, TypeOK, NoScan
  <2>4. ASSUME NEW c \in Codes, ScanUpsert(i, c) PROVE TypeOK'
    BY <2>4 DEF ScanUpsert, TypeOK
  <2>5. ASSUME NEW c \in Codes, ScanDelete(i, c) PROVE TypeOK'
    BY <2>5 DEF ScanDelete, TypeOK
  <2> QED BY <1>3, <2>1, <2>2, <2>3, <2>4, <2>5 DEF ScanStep, Boot, ScanRequest
<1>4. CASE SeedStep
  <2>1. CASE SeedBegin
    <3>1. build.catalogue \subseteq Codes BY CatalogueInCodes DEF TypeOK
    <3>2. scan' \in [Scanners -> [pc : {"idle", "sync"}, todo : SUBSET Codes,
                                  gone : SUBSET Codes, alone : BOOLEAN]]
      <4>1. ASSUME NEW i \in Scanners
            PROVE scan'[i] \in [pc : {"idle", "sync"}, todo : SUBSET Codes,
                                gone : SUBSET Codes, alone : BOOLEAN]
        <5>1. scan[i] \in [pc : {"idle", "sync"}, todo : SUBSET Codes,
                           gone : SUBSET Codes, alone : BOOLEAN]
          BY DEF TypeOK
        <5>2. scan'[i] = [scan[i] EXCEPT !.alone = FALSE] BY <2>1 DEF SeedBegin
        <5> QED BY <5>1, <5>2
      <4>2. scan' = [i \in Scanners |-> scan'[i]] BY <2>1 DEF SeedBegin
      <4> QED BY <4>1, <4>2
    <3> QED BY <2>1, <3>1, <3>2 DEF SeedBegin, TypeOK, SeedPcs
  <2>2. CASE SeedRead BY <2>2, <1>1 DEF SeedRead, TypeOK, SeedPcs
  <2>3. CASE SeedEnd BY <2>3 DEF SeedEnd, TypeOK, SeedPcs, NoSeed, SeedsFor, Roles
  <2>4. CASE SeedFails BY <2>4 DEF SeedFails, TypeOK, SeedPcs, NoSeed
  <2>5. ASSUME NEW c \in Codes, SeedUpsert(c) PROVE TypeOK'
    BY <2>5 DEF SeedUpsert, TypeOK
  <2>6. ASSUME NEW k \in Roles, SeedGrant(k) PROVE TypeOK'
    <3>1. SeedsFor(k) \subseteq Codes BY DEF SeedsFor, TypeOK
    <3> QED BY <2>6, <3>1 DEF SeedGrant, TypeOK, SeedPcs
  <2> QED BY <1>4, <2>1, <2>2, <2>3, <2>4, <2>5, <2>6 DEF SeedStep
<1>5. ASSUME NEW u \in Callers, NEW target \in Roles, NEW cs \in Lists,
             AssignPermissions(u, target, cs) \/ RemovePermissions(u, target, cs)
      PROVE TypeOK'
  <2>1. edits.count + 1 \in 0..MaxEdits
    BY <1>5, MaxEditsAssumption DEF AssignPermissions, RemovePermissions, MayEdit, TypeOK
  <2>2. cs \subseteq Codes BY <1>5, <1>1 DEF AssignPermissions, RemovePermissions, MayEdit
  <2>3. CASE AssignPermissions(u, target, cs)
    <3>1. edits.handed \/ (Exempt(u) /\ cs \cap Sensitive # {}) \in BOOLEAN BY DEF TypeOK
    <3>2. edits' \in [count : 0..MaxEdits, handed : BOOLEAN, recent : BOOLEAN]
      BY <2>1, <2>3, <3>1 DEF AssignPermissions, Assign
    <3>3. grants' \in [Roles -> SUBSET Codes]
      BY <2>2, <2>3 DEF AssignPermissions, Assign, TypeOK
    <3> QED BY <2>3, <3>2, <3>3 DEF AssignPermissions, Assign, TypeOK
  <2>4. CASE RemovePermissions(u, target, cs)
    BY <2>1, <2>4 DEF RemovePermissions, TypeOK
  <2> QED BY <1>5, <2>3, <2>4
<1>6. ASSUME NEW b \in Builds, Deploy(b) PROVE TypeOK'
  BY <1>6 DEF Deploy, TypeOK, NoScan, NoSeed, SeedPcs, NothingDone
<1> QED BY <1>2, <1>3, <1>4, <1>5, <1>6 DEF Next, EditStep

(* Every reachable state has the declared types.                           *)
THEOREM PermissionsType == Spec => []TypeOK
<1>1. Init => TypeOK BY TypeInit
<1>2. TypeOK /\ [Next]_vars => TypeOK' BY TypeStep
<1> QED BY <1>1, <1>2, PTL DEF Spec

-----------------------------------------------------------------------------
(* The scans and the registry.                                             *)

LEMMA LiveIn == Live \subseteq Codes
BY DEF Live

LEMMA LiveUpsert ==
    ASSUME TypeOK, NEW c \in Codes, row' = [row EXCEPT ![c] = "live"]
    PROVE Live' = Live \cup {c}
BY DEF TypeOK, Live

LEMMA LiveDelete ==
    ASSUME TypeOK, NEW c \in Codes, row' = [row EXCEPT ![c] = "deleted"]
    PROVE Live' = Live \ {c}
BY DEF TypeOK, Live

(* What a scan does to its own record, and to no other.                     *)
LEMMA OthersKeep ==
    ASSUME NEW i \in Scanners, NEW s, scan' = [scan EXCEPT ![i] = s], TypeOK,
           NEW j \in Scanners, j # i
    PROVE scan'[j] = scan[j]
BY DEF TypeOK

LEMMA RegistryInit == ASSUME Init PROVE RegistryInv
<1>1. TypeOK BY TypeInit
<1>2. ~done.settled /\ ~done.scanned BY DEF Init, NothingDone
<1>3. ScanSound BY DEF Init, ScanSound, NoScan
<1>4. ScanComplete BY DEF Init, ScanComplete, NoScan
<1> QED BY <1>1, <1>2, <1>3, <1>4 DEF RegistryInv, ScannedIsLive

LEMMA RegistryStep == ASSUME RegistryInv, [Next]_vars PROVE RegistryInv'
<1> USE DEF RegistryInv
<1>0. TypeOK' BY TypeStep
<1>1. Required \subseteq Codes /\ Required \subseteq build.catalogue BY RequiredInCatalogue
<1>2. ASSUME UNCHANGED <<build, row, scan, seed, done>> PROVE RegistryInv'
  BY <1>0, <1>2 DEF ScanSound, ScannedIsLive, ScanComplete, Live, Required
<1>3. ASSUME NEW i \in Scanners, ScanBegin(i) PROVE RegistryInv'
  <2>1. Required' = Required /\ Live' = Live BY <1>3 DEF ScanBegin, Required, Live
  <2>2. scan'[i] = [pc |-> "sync", todo |-> Required, gone |-> Gone, alone |-> seed.pc # "codes"]
    BY <1>3 DEF ScanBegin, TypeOK
  <2>3. \A j \in Scanners : j # i => scan'[j] = scan[j] BY <1>3 DEF ScanBegin, TypeOK
  <2>4. ScanSound' BY <2>1, <2>2, <2>3 DEF ScanSound, Gone
  <2>5. ScanComplete'
    <3>1. seed' = seed BY <1>3 DEF ScanBegin
    <3>2. scan'[i].alone = (seed.pc # "codes") BY <2>2
    <3>3. scan'[i].gone = Live \ Required BY <2>2 DEF Gone
    <3>4. SUFFICES ASSUME NEW j \in Scanners, scan'[j].pc = "sync", scan'[j].alone
                   PROVE seed'.pc # "codes" /\ Live' \ Required' \subseteq scan'[j].gone
      BY DEF ScanComplete
    <3>5. CASE j = i BY <3>1, <3>2, <3>3, <3>4, <3>5, <2>1
    <3>6. CASE j # i BY <3>1, <3>4, <3>6, <2>1, <2>3 DEF ScanComplete
    <3> QED BY <3>5, <3>6
  <2> QED BY <1>0, <1>3, <2>1, <2>4, <2>5 DEF ScanBegin, ScannedIsLive
<1>4. ASSUME NEW i \in Scanners, NEW c \in Codes, ScanUpsert(i, c) PROVE RegistryInv'
  <2>1. Required' = Required /\ Live' = Live \cup {c}
    BY <1>4, LiveUpsert DEF ScanUpsert, Required
  <2>2. scan'[i] = [scan[i] EXCEPT !.todo = scan[i].todo \ {c}] BY <1>4 DEF ScanUpsert, TypeOK
  <2>3. \A j \in Scanners : j # i => scan'[j] = scan[j] BY <1>4 DEF ScanUpsert, TypeOK
  <2>4. c \in Required BY <1>4 DEF ScanUpsert, ScanSound
  <2>5. /\ scan'[i].pc = scan[i].pc /\ scan'[i].todo = scan[i].todo \ {c}
        /\ scan'[i].gone = scan[i].gone /\ scan'[i].alone = scan[i].alone
    BY <2>2 DEF TypeOK
  <2>6. ScanSound' BY <2>1, <2>3, <2>5 DEF ScanSound
  <2>7. ScanComplete' BY <1>4, <2>1, <2>3, <2>4, <2>5 DEF ScanComplete, ScanUpsert
  <2> QED BY <1>0, <1>4, <2>1, <2>4, <2>6, <2>7 DEF ScanUpsert, ScannedIsLive
<1>5. ASSUME NEW i \in Scanners, NEW c \in Codes, ScanDelete(i, c) PROVE RegistryInv'
  <2>1. Required' = Required /\ Live' = Live \ {c}
    BY <1>5, LiveDelete DEF ScanDelete, Required
  <2>2. scan'[i] = [scan[i] EXCEPT !.gone = scan[i].gone \ {c}] BY <1>5 DEF ScanDelete, TypeOK
  <2>3. \A j \in Scanners : j # i => scan'[j] = scan[j] BY <1>5 DEF ScanDelete, TypeOK
  <2>4. c \notin Required BY <1>5 DEF ScanDelete, ScanSound
  <2>5. /\ scan'[i].pc = scan[i].pc /\ scan'[i].todo = scan[i].todo
        /\ scan'[i].gone = scan[i].gone \ {c} /\ scan'[i].alone = scan[i].alone
    BY <2>2 DEF TypeOK
  <2>6. ScanSound' BY <2>1, <2>3, <2>4, <2>5 DEF ScanSound
  <2>7. ScanComplete' BY <1>5, <2>1, <2>3, <2>5 DEF ScanComplete, ScanDelete
  <2> QED BY <1>0, <1>5, <2>1, <2>4, <2>6, <2>7 DEF ScanDelete, ScannedIsLive
<1>6. ASSUME NEW i \in Scanners, ScanEnd(i) PROVE RegistryInv'
  <2>1. Required' = Required /\ Live' = Live BY <1>6 DEF ScanEnd, Required, Live
  <2>2. scan'[i] = NoScan BY <1>6 DEF ScanEnd, TypeOK
  <2>3. \A j \in Scanners : j # i => scan'[j] = scan[j] BY <1>6 DEF ScanEnd, TypeOK
  <2>4. ScanSound' BY <2>1, <2>2, <2>3 DEF ScanSound, NoScan
  <2>5. ScanComplete' BY <1>6, <2>1, <2>2, <2>3 DEF ScanComplete, ScanEnd, NoScan
  <2>6. Required \subseteq Live BY <1>6 DEF ScanEnd, ScanSound
  <2>7. scan[i].alone => seed.pc # "codes" /\ Live \subseteq Required
    BY <1>6 DEF ScanEnd, ScanComplete
  <2>8. done'.scanned /\ done'.settled = (done.settled \/ scan[i].alone)
    BY <1>6 DEF ScanEnd, TypeOK
  <2> QED BY <1>0, <1>6, <2>1, <2>4, <2>5, <2>6, <2>7, <2>8 DEF ScanEnd, ScannedIsLive
<1>7. ASSUME NEW i \in Scanners, ScanFails(i) PROVE RegistryInv'
  <2>1. Required' = Required /\ Live' = Live BY <1>7 DEF ScanFails, Required, Live
  <2>2. scan'[i] = NoScan BY <1>7 DEF ScanFails, TypeOK
  <2>3. \A j \in Scanners : j # i => scan'[j] = scan[j] BY <1>7 DEF ScanFails, TypeOK
  <2>4. ScanSound' BY <2>1, <2>2, <2>3 DEF ScanSound, NoScan
  <2>5. ScanComplete' BY <1>7, <2>1, <2>2, <2>3 DEF ScanComplete, ScanFails, NoScan
  <2> QED BY <1>0, <1>7, <2>1, <2>4, <2>5 DEF ScanFails, ScannedIsLive
<1>8. CASE SeedBegin
  <2>1. Required' = Required /\ Live' = Live BY <1>8 DEF SeedBegin, Required, Live
  <2>2. \A j \in Scanners : scan'[j] = [scan[j] EXCEPT !.alone = FALSE] BY <1>8 DEF SeedBegin
  <2>3. \A j \in Scanners : /\ scan'[j].pc = scan[j].pc /\ scan'[j].todo = scan[j].todo
                            /\ scan'[j].gone = scan[j].gone /\ ~scan'[j].alone
    <3> TAKE j \in Scanners
    <3>1. scan[j] \in [pc : {"idle", "sync"}, todo : SUBSET Codes,
                       gone : SUBSET Codes, alone : BOOLEAN] BY DEF TypeOK
    <3>2. scan'[j] = [scan[j] EXCEPT !.alone = FALSE] BY <2>2
    <3>3. scan'[j].pc = scan[j].pc /\ scan'[j].todo = scan[j].todo BY <3>1, <3>2
    <3>4. scan'[j].gone = scan[j].gone BY <3>1, <3>2
    <3>5. scan'[j].alone = FALSE BY <3>1, <3>2
    <3> QED BY <3>3, <3>4, <3>5
  <2>4. ScanSound' BY <2>1, <2>3 DEF ScanSound
  <2>5. ScanComplete' BY <2>3 DEF ScanComplete
  <2>6. ~done'.settled /\ done'.scanned = done.scanned BY <1>8 DEF SeedBegin, TypeOK
  <2> QED BY <1>0, <2>1, <2>4, <2>5, <2>6 DEF ScannedIsLive
<1>9. ASSUME NEW c \in Codes, SeedUpsert(c) PROVE RegistryInv'
  <2>1. Required' = Required /\ Live' = Live \cup {c}
    BY <1>9, LiveUpsert DEF SeedUpsert, Required
  <2>2. seed.pc = "codes" /\ UNCHANGED <<scan, done>> BY <1>9 DEF SeedUpsert
  <2>3. ScanSound' BY <2>1, <2>2 DEF ScanSound
  <2>4. ScanComplete' BY <2>2 DEF ScanComplete
  <2> QED BY <1>0, <2>1, <2>2, <2>3, <2>4 DEF ScannedIsLive
<1>10. ASSUME seed'.pc # "codes", UNCHANGED <<build, row, scan>>,
              done'.settled = done.settled, done'.scanned = done.scanned
       PROVE RegistryInv'
  <2>1. Required' = Required /\ Live' = Live BY <1>10 DEF Required, Live
  <2>2. ScanSound' BY <1>10, <2>1 DEF ScanSound
  <2>3. ScanComplete' BY <1>10, <2>1 DEF ScanComplete
  <2> QED BY <1>0, <1>10, <2>1, <2>2, <2>3 DEF ScannedIsLive
<1>11. ASSUME NEW b \in Builds, Deploy(b) PROVE RegistryInv'
  <2>1. \A j \in Scanners : scan'[j] = NoScan BY <1>11 DEF Deploy
  <2>2. ScanSound' BY <2>1 DEF ScanSound, NoScan
  <2>3. ScanComplete' BY <2>1 DEF ScanComplete, NoScan
  <2>4. ~done'.settled /\ ~done'.scanned BY <1>11 DEF Deploy, NothingDone
  <2> QED BY <1>0, <2>2, <2>3, <2>4 DEF ScannedIsLive
<1>12. CASE SeedRead \/ SeedEnd \/ SeedFails
  BY <1>10, <1>12 DEF SeedRead, SeedEnd, SeedFails, NoSeed, TypeOK
<1>13. ASSUME NEW k \in Roles, SeedGrant(k) PROVE RegistryInv'
  BY <1>10, <1>13 DEF SeedGrant, TypeOK
<1>14. CASE SeedStep BY <1>8, <1>9, <1>12, <1>13, <1>14 DEF SeedStep
<1>15. ASSUME NEW i \in Scanners, ScanStep(i) PROVE RegistryInv'
  BY <1>3, <1>4, <1>5, <1>6, <1>7, <1>15 DEF ScanStep, Boot, ScanRequest
<1>16. CASE EditStep BY <1>2, <1>16 DEF EditStep, AssignPermissions, Assign, RemovePermissions
<1>17. CASE UNCHANGED vars BY <1>2, <1>17 DEF vars
<1> QED BY <1>11, <1>14, <1>15, <1>16, <1>17 DEF Next

THEOREM RegistryInvariant == Spec => []RegistryInv
<1>1. Init => RegistryInv BY RegistryInit
<1>2. RegistryInv /\ [Next]_vars => RegistryInv' BY RegistryStep
<1> QED BY <1>1, <1>2, PTL DEF Spec

(* What the routes ask for is live once a scan has ended, whatever scans    *)
(* and seeds run, fail or die after it.                                    *)
THEOREM RequiredCodesStayLive == Spec => []ScannedIsLive
<1>1. RegistryInv => ScannedIsLive BY DEF RegistryInv
<1> QED BY <1>1, RegistryInvariant, PTL

(* After a scan no seed ran into nothing else is live.                      *)
THEOREM RegistryIsExact == Spec => []SettledIsExact
<1>1. RegistryInv => SettledIsExact BY DEF RegistryInv, SettledIsExact, ScannedIsLive
<1> QED BY <1>1, RegistryInvariant, PTL

-----------------------------------------------------------------------------
(* Role edits.                                                             *)

(* Whose token says guest edits no role: those routes carry write methods.   *)
LEMMA GuestNeverEdits ==
    ASSUME TypeOK, NEW u \in Callers, "guest" \in u.claims, NEW method \in {"PUT", "DELETE"}
    PROVE ~Serves(u, method, RolePermissionsPath)
<1>1. SUFFICES ASSUME NEW r \in build.routes, r.method = method, r.path = RolePermissionsPath,
                      Admitted(CallerOf(u), r)
               PROVE FALSE
  BY DEF Serves
<1>2. r.method \in WriteMethods BY <1>1 DEF WriteMethods
<1>3. ~r.public /\ ~r.guestWrite BY <1>1, <1>2, BuildsAssumption DEF TypeOK
<1>4. "guest" \in CallerOf(u).claims BY DEF CallerOf
<1> QED BY <1>1, <1>2, <1>3, <1>4 DEF Admitted, GuestWriteGuard

(* Who may assign codes and is not exempt has neither of the roles that may  *)
(* hold sensitive ones.                                                    *)
LEMMA OrdinaryAuthor ==
    ASSUME TypeOK, NEW u \in Callers, NEW target, NEW cs,
           AssignPermissions(u, target, cs), ~Exempt(u)
    PROVE  u.roles \subseteq {"admin", "user"}
<1>1. "guest" \notin u.claims BY GuestNeverEdits DEF AssignPermissions, MayEdit
<1>2. "super_admin" \notin u.roles /\ "guest" \notin u.roles BY <1>1 DEF Exempt
<1> QED BY <1>2, CallersAssumption DEF Roles

OrdinaryInv == TypeOK /\ AdminStaysOrdinary

LEMMA OrdinaryStep == ASSUME OrdinaryInv, [Next]_vars PROVE OrdinaryInv'
<1> USE DEF OrdinaryInv
<1>0. TypeOK' BY TypeStep
<1>1. ASSUME UNCHANGED grants, edits'.handed = edits.handed PROVE OrdinaryInv'
  BY <1>0, <1>1 DEF AdminStaysOrdinary
<1>2. ASSUME NEW k \in Roles, SeedGrant(k) PROVE OrdinaryInv'
  <2>1. k # "user" BY <1>2 DEF SeedGrant, TypeOK, SeedPcs
  <2>2. grants'["user"] = grants["user"] BY <1>2, <2>1 DEF SeedGrant, TypeOK, Roles
  <2>3. grants'["admin"] \cap Sensitive \subseteq grants["admin"] \cap Sensitive
    <3>1. CASE k = "admin"
      BY <1>2, <3>1 DEF SeedGrant, TypeOK, Roles, SeedsFor
    <3>2. CASE k # "admin" BY <1>2, <3>2 DEF SeedGrant, TypeOK, Roles
    <3> QED BY <3>1, <3>2
  <2>4. edits' = edits BY <1>2 DEF SeedGrant
  <2> QED BY <1>0, <2>2, <2>3, <2>4 DEF AdminStaysOrdinary
<1>3. CASE SeedEnd
  <2>1. grants'["user"] = grants["user"] /\ grants'["admin"] = grants["admin"]
    BY <1>3 DEF SeedEnd, TypeOK, Roles
  <2>2. edits' = edits BY <1>3 DEF SeedEnd
  <2> QED BY <1>0, <2>1, <2>2 DEF AdminStaysOrdinary
<1>4. ASSUME NEW u \in Callers, NEW target \in Roles, NEW cs \in Lists,
             AssignPermissions(u, target, cs)
      PROVE OrdinaryInv'
  <2>1. edits'.handed = (edits.handed \/ (Exempt(u) /\ cs \cap Sensitive # {}))
    BY <1>4 DEF AssignPermissions, Assign
  <2>2. SUFFICES ASSUME ~edits'.handed
                 PROVE (grants["admin"] \cup grants["user"])' \cap Sensitive = {}
    BY <1>0 DEF AdminStaysOrdinary
  <2>3. ~edits.handed /\ (Exempt(u) => cs \cap Sensitive = {}) BY <2>1, <2>2
  <2>4. (grants["admin"] \cup grants["user"]) \cap Sensitive = {}
    BY <2>3 DEF AdminStaysOrdinary
  <2>5. ASSUME ~Exempt(u) PROVE cs \cap Sensitive = {}
    <3>1. u.roles \subseteq {"admin", "user"} BY <1>4, <2>5, OrdinaryAuthor
    <3>2. cs \subseteq Held(u) BY <1>4, <3>1 DEF AssignPermissions
    <3>3. Held(u) \subseteq grants["admin"] \cup grants["user"] BY <3>1 DEF Held
    <3> QED BY <2>4, <3>2, <3>3
  <2>6. cs \cap Sensitive = {} BY <2>3, <2>5
  <2>7. grants' = [grants EXCEPT ![target] = cs] BY <1>4 DEF AssignPermissions, Assign
  <2>8. \A x \in {"admin", "user"} : grants'[x] \cap Sensitive = {}
    BY <2>4, <2>6, <2>7 DEF TypeOK, Roles
  <2> QED BY <2>8
<1>5. ASSUME NEW u \in Callers, NEW target \in Roles, NEW cs \in Lists,
             RemovePermissions(u, target, cs)
      PROVE OrdinaryInv'
  <2>1. edits'.handed = edits.handed BY <1>5 DEF RemovePermissions, TypeOK
  <2>2. \A x \in Roles : grants'[x] \subseteq grants[x] BY <1>5 DEF RemovePermissions, TypeOK
  <2> QED BY <1>0, <2>1, <2>2 DEF AdminStaysOrdinary, Roles
<1>6. CASE EditStep BY <1>4, <1>5, <1>6 DEF EditStep
<1>7. CASE SeedBegin
  <2>1. edits'.handed = edits.handed BY <1>7 DEF SeedBegin, TypeOK
  <2> QED BY <1>1, <1>7, <2>1 DEF SeedBegin
<1>8. CASE SeedStep
  BY <1>1, <1>2, <1>3, <1>7, <1>8 DEF SeedStep, SeedUpsert, SeedRead, SeedFails
<1>9. ASSUME NEW i \in Scanners, ScanStep(i) PROVE OrdinaryInv'
  BY <1>1, <1>9 DEF ScanStep, Boot, ScanRequest, ScanBegin, ScanUpsert, ScanDelete,
                    ScanEnd, ScanFails
<1>10. ASSUME NEW b \in Builds, Deploy(b) PROVE OrdinaryInv' BY <1>1, <1>10 DEF Deploy
<1>11. CASE UNCHANGED vars BY <1>1, <1>11 DEF vars
<1> QED BY <1>6, <1>8, <1>9, <1>10, <1>11 DEF Next

(* Until a super admin, or a user made guest since his token was issued,    *)
(* hands one out, no sequence of role edits, seeds and deployments brings a *)
(* sensitive code to the roles admin and user, whatever roles, tokens and   *)
(* cached codes the authors of the edits have.                             *)
THEOREM SensitiveCodesStayAway == Spec => []AdminStaysOrdinary
<1>1. Init => OrdinaryInv
  <2>1. ASSUME Init PROVE AdminStaysOrdinary BY <2>1 DEF Init, AdminStaysOrdinary, Roles
  <2> QED BY <2>1, TypeInit DEF OrdinaryInv
<1>2. OrdinaryInv /\ [Next]_vars => OrdinaryInv' BY OrdinaryStep
<1>3. OrdinaryInv => AdminStaysOrdinary BY DEF OrdinaryInv
<1> QED BY <1>1, <1>2, <1>3, PTL DEF Spec

-----------------------------------------------------------------------------
(* The seed.                                                               *)

(* What each role has been given by the time the seed is past it.           *)
HasAll(k) == Required \subseteq grants[k]
AdminHas == Required \ Sensitive \subseteq grants["admin"]

SeedInv ==
    /\ TypeOK
    /\ seed.pc = "codes" => Required \subseteq Live \cup seed.todo
    /\ seed.pc \in {"super_admin", "admin", "guest"} => Required \subseteq seed.todo
    /\ seed.pc \in {"admin", "guest"} => HasAll("super_admin")
    /\ seed.pc = "guest" /\ ~edits.recent => AdminHas
    /\ seed.pc # "idle" => ~done.seeded
    /\ done.seeded => HasAll("super_admin")
    /\ done.seeded /\ ~edits.recent => AdminHas /\ HasAll("guest")

(* An edit leaves the super admin alone and is remembered.                  *)
LEMMA EditSeed ==
    ASSUME SeedInv, NEW u \in Callers, NEW target \in Roles, NEW cs \in Lists,
           AssignPermissions(u, target, cs) \/ RemovePermissions(u, target, cs), TypeOK'
    PROVE SeedInv'
<1>1. edits'.recent
  <2>1. CASE AssignPermissions(u, target, cs) BY <2>1 DEF AssignPermissions, Assign
  <2>2. CASE RemovePermissions(u, target, cs) BY <2>2 DEF RemovePermissions, SeedInv, TypeOK
  <2> QED BY <2>1, <2>2
<1>2. target # "super_admin" BY DEF AssignPermissions, RemovePermissions, MayEdit
<1>3. grants'["super_admin"] = grants["super_admin"]
  BY <1>2 DEF AssignPermissions, Assign, RemovePermissions, SeedInv, TypeOK, Roles
<1>4. UNCHANGED <<build, row, seed, done>> BY DEF AssignPermissions, Assign, RemovePermissions
<1> QED BY <1>1, <1>3, <1>4 DEF SeedInv, HasAll, AdminHas, Required, Live

LEMMA SeedInvStep == ASSUME SeedInv, RegistryInv, [Next]_vars PROVE SeedInv'
<1>0. TypeOK' /\ TypeOK BY TypeStep DEF SeedInv
<1>1. ASSUME UNCHANGED <<build, grants, seed, edits>>, done'.seeded = done.seeded,
             Live \cap Required \subseteq Live'
      PROVE SeedInv'
  BY <1>0, <1>1 DEF SeedInv, HasAll, AdminHas, Required
<1>2. ASSUME NEW i \in Scanners, ScanStep(i) PROVE SeedInv'
  <2>1. ASSUME NEW c \in Codes, ScanUpsert(i, c) PROVE SeedInv'
    BY <1>0, <1>1, <2>1, LiveUpsert DEF ScanUpsert
  <2>2. ASSUME NEW c \in Codes, ScanDelete(i, c) PROVE SeedInv'
    <3>1. c \notin Required BY <2>2 DEF ScanDelete, RegistryInv, ScanSound
    <3>2. Live' = Live \ {c} BY <1>0, <2>2, LiveDelete DEF ScanDelete
    <3> QED BY <1>1, <2>2, <3>1, <3>2 DEF ScanDelete
  <2>3. CASE ScanBegin(i) BY <1>1, <2>3 DEF ScanBegin, Live
  <2>4. CASE ScanFails(i) BY <1>1, <2>4 DEF ScanFails, Live
  <2>5. CASE ScanEnd(i)
    <3>1. done'.seeded = done.seeded BY <1>0, <2>5 DEF ScanEnd, TypeOK
    <3> QED BY <1>1, <2>5, <3>1 DEF ScanEnd, Live
  <2> QED BY <1>2, <2>1, <2>2, <2>3, <2>4, <2>5 DEF ScanStep, Boot, ScanRequest
<1>3. CASE SeedBegin
  <2>1. seed' = [pc |-> "codes", todo |-> build.catalogue] BY <1>3 DEF SeedBegin
  <2>2. ~done'.seeded BY <1>0, <1>3 DEF SeedBegin, TypeOK
  <2>3. Required' \subseteq seed'.todo
    BY <1>0, <1>3, <2>1, RequiredInCatalogue DEF SeedBegin, Required
  <2> QED BY <1>0, <2>1, <2>2, <2>3 DEF SeedInv
<1>4. ASSUME NEW c \in Codes, SeedUpsert(c) PROVE SeedInv'
  <2>1. Live' = Live \cup {c} BY <1>0, <1>4, LiveUpsert DEF SeedUpsert
  <2>2. seed'.pc = "codes" /\ seed'.todo = seed.todo \ {c} BY <1>0, <1>4 DEF SeedUpsert, TypeOK
  <2>3. Required' = Required /\ seed.pc = "codes" /\ UNCHANGED done
    BY <1>4 DEF SeedUpsert, Required
  <2> QED BY <1>0, <2>1, <2>2, <2>3 DEF SeedInv
<1>5. CASE SeedRead
  <2>1. seed' = [pc |-> "super_admin", todo |-> Live] /\ UNCHANGED done BY <1>5 DEF SeedRead
  <2>2. Required' \subseteq seed'.todo BY <1>5, <2>1 DEF SeedRead, SeedInv, Required
  <2>3. ~done'.seeded BY <1>5, <2>1 DEF SeedInv, SeedRead
  <2> QED BY <1>0, <2>1, <2>2, <2>3 DEF SeedInv
<1>6. CASE SeedFails
  BY <1>0, <1>6 DEF SeedFails, SeedInv, NoSeed, HasAll, AdminHas, Required
<1>7. ASSUME NEW k \in Roles, SeedGrant(k) PROVE SeedInv'
  <2>1. k \in {"super_admin", "admin"} BY <1>0, <1>7 DEF SeedGrant, TypeOK, SeedPcs, Roles
  <2>2. grants'[k] = grants[k] \cup SeedsFor(k) BY <1>0, <1>7 DEF SeedGrant, TypeOK
  <2>3. \A x \in Roles : grants[x] \subseteq grants'[x] BY <1>0, <1>7 DEF SeedGrant, TypeOK
  <2>4. /\ seed'.pc = IF k = "super_admin" THEN "admin" ELSE "guest"
        /\ seed'.todo = seed.todo
    BY <1>0, <1>7 DEF SeedGrant, TypeOK
  <2>5. Required' = Required /\ UNCHANGED <<edits, done>> BY <1>7 DEF SeedGrant, Required
  <2>6. Required \subseteq seed.todo /\ ~done.seeded
    BY <1>7, <2>1 DEF SeedGrant, SeedInv
  <2>7. CASE k = "super_admin"
    BY <1>0, <2>2, <2>4, <2>5, <2>6, <2>7 DEF SeedInv, HasAll, SeedsFor
  <2>8. CASE k = "admin"
    <3>1. HasAll("super_admin") BY <1>7, <2>8 DEF SeedGrant, SeedInv
    <3>2. HasAll("super_admin")' BY <3>1, <2>3, <2>5 DEF HasAll, Roles
    <3>3. AdminHas' BY <2>2, <2>5, <2>6, <2>8 DEF AdminHas, SeedsFor
    <3> QED BY <1>0, <2>4, <2>5, <2>6, <2>8, <3>2, <3>3 DEF SeedInv
  <2> QED BY <2>1, <2>7, <2>8
<1>8. CASE SeedEnd
  <2>1. grants'["guest"] = grants["guest"] \cup seed.todo
    BY <1>0, <1>8 DEF SeedEnd, TypeOK, Roles, SeedsFor
  <2>2. grants'["super_admin"] = grants["super_admin"] /\ grants'["admin"] = grants["admin"]
    BY <1>0, <1>8 DEF SeedEnd, TypeOK, Roles
  <2>3. Required' = Required /\ edits' = edits /\ seed'.pc = "idle"
    BY <1>8 DEF SeedEnd, Required, NoSeed
  <2> QED BY <1>0, <1>8, <2>1, <2>2, <2>3 DEF SeedInv, SeedEnd, HasAll, AdminHas
<1>9. CASE EditStep BY <1>0, <1>9, EditSeed DEF EditStep
<1>10. ASSUME NEW b \in Builds, Deploy(b) PROVE SeedInv'
  BY <1>0, <1>10 DEF Deploy, SeedInv, NoSeed, NothingDone
<1>11. CASE UNCHANGED vars BY <1>1, <1>11 DEF vars, Live
<1>12. CASE SeedStep BY <1>3, <1>4, <1>5, <1>6, <1>7, <1>8, <1>12 DEF SeedStep
<1> QED BY <1>2, <1>9, <1>10, <1>11, <1>12 DEF Next

(* What the guards make of it.                                             *)
LEMMA SeedInvWorks == ASSUME SeedInv PROVE SystemRolesWork
<1>1. ASSUME NEW k \in Roles, NEW r \in build.routes, r.codes \subseteq grants[k],
             k # "guest" \/ r.method = "GET"
      PROVE Admitted(CallerOf(OfRole(k)), r)
  <2> DEFINE c == CallerOf(OfRole(k))
  <2>1. c.token /\ c.enabled /\ c.claims = {k} /\ c.held = grants[k]
    BY DEF CallerOf, OfRole, Held
  <2> HIDE DEF c
  <2>2. JwtAuthGuard(c, r) BY <2>1 DEF JwtAuthGuard
  <2>3. GuestWriteGuard(c, r) BY <1>1, <2>1 DEF GuestWriteGuard, WriteMethods
  <2>4. r.public => r.codes = {} BY BuildsAssumption DEF SeedInv, TypeOK
  <2>5. PermissionsGuard(c, r) BY <1>1, <2>1, <2>4 DEF PermissionsGuard
  <2> QED BY <2>2, <2>3, <2>5 DEF Admitted, c
<1>2. \A r \in build.routes : r.codes \subseteq Required BY DEF Required, RequiredBy
<1>3. SUFFICES ASSUME done.seeded PROVE SystemRolesWork BY DEF SystemRolesWork
<1>4. \A r \in build.routes : Admitted(CallerOf(OfRole("super_admin")), r)
  BY <1>1, <1>2, <1>3 DEF SeedInv, HasAll, Roles
<1>5. ASSUME ~edits.recent, NEW r \in build.routes, r.codes \cap Sensitive = {}
      PROVE Admitted(CallerOf(OfRole("admin")), r)
  BY <1>1, <1>2, <1>3, <1>5 DEF SeedInv, AdminHas, Roles
<1>6. ASSUME ~edits.recent, NEW r \in build.routes, r.method = "GET"
      PROVE Admitted(CallerOf(OfRole("guest")), r)
  BY <1>1, <1>2, <1>3, <1>6 DEF SeedInv, HasAll, Roles
<1> QED BY <1>4, <1>5, <1>6 DEF SystemRolesWork

(* A completed seed locks nobody out, whatever scans ran beside it.         *)
THEOREM SeededRolesWork == Spec => []SystemRolesWork
<1>1. Init => SeedInv
  <2>1. ASSUME Init PROVE seed.pc = "idle" /\ ~done.seeded BY <2>1 DEF Init, NoSeed, NothingDone
  <2> QED BY <2>1, TypeInit DEF SeedInv
<1>2. SeedInv /\ RegistryInv /\ [Next]_vars => SeedInv' BY SeedInvStep
<1>3. SeedInv => SystemRolesWork BY SeedInvWorks
<1> QED BY <1>1, <1>2, <1>3, RegistryInvariant, PTL DEF Spec

-----------------------------------------------------------------------------
(* What a caller may change whom GuestWriteGuard takes for a guest.         *)
GuestSafe(r) ==
    r.public \/ (r.guestWrite \/ r.method \notin WriteMethods => r.changes \subseteq {"sessions"})

(* Routes without @AllowGuestWrite are safe when those that only read are.   *)
LEMMA GuardedSafe ==
    ASSUME NEW base, NEW resource, NEW rows, \A w \in rows : w[1] \in WriteMethods \/ w[4] = {}
    PROVE  \A r \in Guarded(base, resource, rows) : GuestSafe(r)
<1> SUFFICES ASSUME NEW w \in rows
             PROVE  GuestSafe(Route(w[1], <<base, w[2]>>, {<<resource, w[3]>>}, w[4]))
  BY DEF Guarded
<1> QED BY DEF GuestSafe, Route

LEMMA PlainSafe ==
    ASSUME NEW base, NEW rows, \A w \in rows : w[1] \in WriteMethods \/ w[3] = {}
    PROVE  \A r \in Plain(base, rows) : GuestSafe(r)
<1> SUFFICES ASSUME NEW w \in rows PROVE GuestSafe(Route(w[1], <<base, w[2]>>, {}, w[3]))
  BY DEF Plain
<1> QED BY DEF GuestSafe, Route

LEMMA CrudSafe ==
    ASSUME NEW base, NEW resource, NEW tables
    PROVE  /\ \A r \in Crud(base, resource, tables) : GuestSafe(r)
           /\ \A r \in BatchDelete(base, resource, tables) : GuestSafe(r)
BY GuardedSafe DEF Crud, BatchDelete, WriteMethods

LEMMA PublicSafe ==
    ASSUME NEW base, NEW rows PROVE \A r \in Public(Plain(base, rows)) : GuestSafe(r)
BY DEF Public, Plain, Route, GuestSafe

(* Controller by controller: no route changes more than sessions unless it   *)
(* is public or is a write without @AllowGuestWrite.                        *)
LEMMA ControllersSafe == \A r \in Controllers : GuestSafe(r)
<1>1. \A r \in AppController : GuestSafe(r)
  BY PublicSafe DEF AppController, WriteMethods
<1>2. ASSUME NEW r \in AuthController PROVE GuestSafe(r)
  <2>1. CASE r \in {[x EXCEPT !.guestWrite = TRUE] :
             x \in Plain("auth", {<<"POST", "logout", {"sessions"}>>,
                                  <<"POST", "logout-all", {"sessions"}>>})}
    BY <2>1 DEF Plain, Route, GuestSafe
  <2> QED BY <1>2, <2>1, PublicSafe, PlainSafe DEF AuthController, WriteMethods
<1>3. \A r \in ProfileController : GuestSafe(r)
  BY PlainSafe DEF ProfileController, WriteMethods
<1>4. \A r \in DashboardController : GuestSafe(r)
  BY PlainSafe DEF DashboardController, WriteMethods
<1>5. \A r \in ConfigsRuntimeController : GuestSafe(r)
  BY DEF ConfigsRuntimeController, Route, GuestSafe, WriteMethods
<1>6. \A r \in UsersController : GuestSafe(r)
  BY CrudSafe, GuardedSafe DEF UsersController, WriteMethods
<1>7. \A r \in RolesController : GuestSafe(r)
  BY CrudSafe, GuardedSafe DEF RolesController, WriteMethods
<1>8. \A r \in PermissionsController : GuestSafe(r)
  BY GuardedSafe DEF PermissionsController, WriteMethods
<1>9. \A r \in DepartmentsController : GuestSafe(r)
  BY CrudSafe, GuardedSafe DEF DepartmentsController, WriteMethods
<1>10. \A r \in MenuController : GuestSafe(r)
  BY CrudSafe, GuardedSafe DEF MenuController, WriteMethods
<1>11. \A r \in PositionsController : GuestSafe(r)
  BY CrudSafe, GuardedSafe DEF PositionsController, WriteMethods
<1>12. \A r \in NoticesController : GuestSafe(r)
  BY CrudSafe, PlainSafe DEF NoticesController, WriteMethods
<1>13. \A r \in DictionaryTypesRoutes : GuestSafe(r)
  BY CrudSafe, GuardedSafe DEF DictionaryTypesRoutes, WriteMethods
<1>14. \A r \in DictionaryItemsRoutes : GuestSafe(r)
  BY CrudSafe, GuardedSafe DEF DictionaryItemsRoutes, WriteMethods
<1>15. \A r \in ConfigsController : GuestSafe(r)
  BY CrudSafe, GuardedSafe DEF ConfigsController, WriteMethods
<1>16. \A r \in LoginLogsController : GuestSafe(r)
  BY GuardedSafe DEF LoginLogsController, WriteMethods
<1>17. \A r \in OperationLogsController : GuestSafe(r)
  BY GuardedSafe DEF OperationLogsController, WriteMethods
<1>18. \A r \in OnlineUsersController : GuestSafe(r)
  BY GuardedSafe DEF OnlineUsersController, WriteMethods
<1>19. \A r \in MonitorController : GuestSafe(r)
  BY GuardedSafe DEF MonitorController, WriteMethods
<1> QED
  BY <1>1, <1>2, <1>3, <1>4, <1>5, <1>6, <1>7, <1>8, <1>9, <1>10, <1>11, <1>12, <1>13,
     <1>14, <1>15, <1>16, <1>17, <1>18, <1>19 DEF Controllers

(* Whatever is deployed of the controllers, whatever codes the roles have    *)
(* been given and whatever roles he has: a caller whose token says guest    *)
(* changes nothing but sessions.                                           *)
THEOREM GuestsChangeNothing ==
    ASSUME \A b \in Builds : b.routes \subseteq Controllers
    PROVE  Spec => []GuestChangesNothing
<1>1. TypeOK => GuestChangesNothing
  <2> SUFFICES ASSUME TypeOK, NEW r \in build.routes, NEW u \in Callers, "guest" \in u.claims,
                      Admitted(CallerOf(u), r), ~r.public
               PROVE  r.changes \subseteq {"sessions"}
    BY DEF GuestChangesNothing
  <2>1. GuestSafe(r)
    BY ControllersSafe DEF TypeOK
  <2>2. "guest" \in CallerOf(u).claims
    BY DEF CallerOf
  <2>3. r.guestWrite \/ r.method \notin WriteMethods
    BY <2>2 DEF Admitted, GuestWriteGuard
  <2> QED BY <2>1, <2>3 DEF GuestSafe
<1> QED BY <1>1, PermissionsType, PTL
=============================================================================
