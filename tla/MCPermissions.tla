---------------------------- MODULE MCPermissions ----------------------------
(* Instances of Permissions for TLC.  The whole table of routes, with its    *)
(* 73 codes, is too large to scan code by code: two samples of it are        *)
(* scanned, seeded and deployed one over the other, and the whole of it is   *)
(* looked at as a scan and a seed leave it.                                  *)
EXTENDS Permissions, TLC

Pick(methods, paths) == {r \in Controllers : r.method \in methods /\ r.path \in paths}

Common == Pick({"GET", "POST", "PUT", "DELETE"},
               {<<"auth", "logout">>, <<"auth", "login">>, RolePermissionsPath, RuntimeConfigPath})

(* system:log:view has no route in either; the second sample drops the       *)
(* scan, a sensitive route, and adds the one that updates users.            *)
Sample(routes) ==
    [routes |-> Common \cup routes,
     catalogue |-> RequiredBy(Common \cup routes) \cup {<<"system:log", "view">>}]

Sample1 == Sample(Pick({"POST"}, {ScanPath}))
Sample2 == Sample(Pick({"PATCH"}, {<<"system/users", ":id">>}))

Whole == [routes |-> Controllers, catalogue |-> Catalogue]

(* An edit takes all codes away or hands out one of these.                  *)
MCLists == {{}, {<<"system:permission", "scan">>}, {<<"system:role", "update-permissions">>}}

(* Users with one role, and: one made guest since his token was issued, one  *)
(* made admin since, one given a second role, one whose roles are gone but  *)
(* for his cache and, a guest by his token, one with every role.            *)
MCCallers ==
    {OfRole(k) : k \in Roles}
    \cup {[claims |-> {"user"}, roles |-> {"guest"}, cached |-> {}],
          [claims |-> {"guest"}, roles |-> {"admin"}, cached |-> {}],
          [claims |-> {"user"}, roles |-> {"user", "admin"}, cached |-> {}],
          [claims |-> {"admin"}, roles |-> {"user"}, cached |-> Catalogue],
          [claims |-> {"guest"}, roles |-> Roles, cached |-> {}]}

MCBuilds == {Sample1, Sample2, Whole}

(* The whole table as seed, then scan, leave it.                            *)
Settled(b) ==
    /\ build = b
    /\ row = [c \in Codes |-> IF c \in RequiredBy(b.routes) THEN "live"
                              ELSE IF c \in b.catalogue THEN "deleted" ELSE "absent"]
    /\ grants = [k \in Roles |-> CASE k = "admin" -> b.catalogue \ Sensitive
                                   [] k = "user" -> {}
                                   [] OTHER -> b.catalogue]
    /\ scan = [i \in Scanners |-> NoScan]
    /\ seed = NoSeed
    /\ edits = [count |-> 0, handed |-> FALSE, recent |-> FALSE]
    /\ done = [scanned |-> TRUE, settled |-> TRUE, seeded |-> TRUE]

MCInit == Settled(Whole) \/ (Init /\ build # Whole)

(* The second sample replaces the first, and one edit may come anywhere      *)
(* between the steps of scans and seeds; the whole table, too large to scan *)
(* or seed again, is where edits follow each other.                        *)
MCNext ==
    \/ (build = Whole \/ edits.count = 0) /\ EditStep
    \/ build # Whole /\ ((\E i \in Scanners : ScanStep(i)) \/ SeedStep \/ Deploy(Sample2))

Symmetry == Permutations(Scanners)

MCSpec == MCInit /\ [][MCNext]_vars
=============================================================================
