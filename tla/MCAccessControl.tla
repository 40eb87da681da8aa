-------------------------- MODULE MCAccessControl --------------------------
(* One instance of AccessControl, asked three questions: the cache and the   *)
(* rows, with requests one after another; the number of super admins; and    *)
(* what overlapping requests and faults may leave in the cache.  Each part   *)
(* has the requests that bear on it, and starts from what they need.        *)
EXTENDS AccessControl, TLC

VARIABLE part

OpsOf ==
    [cache   |-> Ops \ {"assignUsers", "removeUsers", "updateUser", "kick", "warm"},
     supers  |-> {"assignRoles", "removeRoles", "removeUser", "assignUsers",
                 "removeUsers", "updateUser", "kick", "guard"},
     overlap |-> {"assignRoles", "assignPermissions", "removeUser", "guard", "warm"}]

(* One role is still to be created, where roles are; one super admin is     *)
(* enough for the overlap.                                                  *)
MCInit ==
    /\ part \in DOMAIN OpsOf
    /\ \E as \in SUBSET Admins :
          /\ Cardinality(as) = IF part = "overlap" THEN 1 ELSE Cardinality(Admins)
          /\ users = as \cup (Users \ Admins)
          /\ member = as \X {Super}
          /\ had = [u \in Users |-> IF u \in as THEN Perms ELSE {}]
    /\ unused = IF part = "cache" THEN NewRoles ELSE {}
    /\ roles = Roles \ NewRoles
    /\ grants = {Super} \X Perms
    /\ cache = [u \in Users |-> Miss]
    /\ up = TRUE
    /\ req = [p \in Procs |-> Idle]

(* Two bounds: in the overlap the codes come and go together, and requests   *)
(* begin about users that exist (a token outlives its user; the guard then   *)
(* finds no row, or what is still cached).                                 *)
Fits(r) ==
    /\ r.op \in OpsOf[part] \cup {"none"}
    /\ part = "overlap" => r.ps \in {{}, Perms}

MCNext ==
    /\ \/ \E p \in Procs :
            /\ part = "overlap" \/ \A q \in Procs \ {p} : req[q] = Idle
            /\ \/ Arrive(p) /\ req'[p].us \subseteq users
               \/ Write(p) \/ CacheStep(p)
       \/ \E u \in Users : Elapse(u)
       \/ part = "overlap" /\ (RedisDown \/ RedisConnect \/ \E p \in Procs : Abort(p))
    /\ \A p \in Procs : Fits(req'[p])
    /\ UNCHANGED part

MCSpec == MCInit /\ [][MCNext]_<<vars, part>>

(* Between requests, what the guard would find in the cache is what MySQL    *)
(* says: as long as they do not overlap, and without assignUsers and         *)
(* removeUsers, which evict nothing (see AclUsers.cfg).                      *)
SerialCacheAgrees == part = "cache" => CacheAgrees

(* No row of user_roles or role_permissions is left without its user or its  *)
(* role by requests that come one after another.                            *)
SerialRowsRefer == part # "overlap" => NoDanglingRows

(* "At least two super admins remain", whatever comes one after another.     *)
SerialSupersRemain == part # "overlap" => TwoSupersRemain

(* Super admins among themselves, the other users among themselves.         *)
Symmetry == Permutations(Admins) \cup Permutations(Users \ Admins)
              \cup Permutations(Perms) \cup Permutations(Procs)
=============================================================================
