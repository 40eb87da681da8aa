---------------------------- MODULE Departments ----------------------------
(***************************************************************************)
(* The department tree of gvray-admin: departments.service.ts, and the      *)
(* department of a user as users.service.ts writes it.                     *)
(*                                                                         *)
(* One action is one awaited statement.  No handler opens a transaction,    *)
(* so other requests run between the statements of one: `overlapped` says   *)
(* that this has happened.  Names and sorting are left out.                *)
(***************************************************************************)
EXTENDS Naturals, FiniteSets

CONSTANTS
    Depts,   \* department ids
    Users,   \* user ids
    Procs,   \* requests in flight at the same time (bound of the model)
    None,    \* SQL NULL
    Keep     \* no parentId in the body of an update

ASSUME DeptAssumption == None \notin Depts /\ Keep \notin Depts /\ None # Keep

VARIABLES
    depts,      \* existing departments
    parent,     \* the column parentId (None for rows that do not exist)
    enabled,    \* the rows whose column status is "enabled"
    userDept,   \* the column departmentId of users
    req,        \* the requests in flight
    overlapped  \* history: two requests have been in flight together

vars == <<depts, parent, enabled, userDept, req, overlapped>>

Ops == {"create", "update", "remove", "place", "search"}

(* The status in a body or in a condition: "any" when there is none.        *)
Statuses == {"on", "off", "any"}

Pcs == {"idle", "c_find1", "c_find2", "c_create", "u_find", "u_parent", "u_walk",
        "u_update", "r_find", "r_delete", "p_find", "p_update",
        "t_match", "t_walk", "t_read"}

(* dept: the department a request is about; to: the parentId of its body,   *)
(* for an update from u_update on the parent it is going to write;          *)
(* ids: those to remove; cur, seen: where a walk up the tree is and what it *)
(* has collected; user: the user being placed; status: that of its body, or  *)
(* the condition of a search.                                              *)
Request == [op: Ops \cup {"none"}, pc: Pcs, dept: Depts \cup {None},
            to: Depts \cup {None, Keep}, ids: SUBSET Depts,
            cur: Depts \cup {None}, seen: SUBSET Depts, user: Users \cup {None},
            status: Statuses]

Idle == [op |-> "none", pc |-> "idle", dept |-> None, to |-> None, ids |-> {},
         cur |-> None, seen |-> {}, user |-> None, status |-> "any"]

At(p, l) == req[p].pc = l
Goto(p, l) == req' = [req EXCEPT ![p].pc = l]
Finish(p) == req' = [req EXCEPT ![p] = Idle]
Quiet == \A p \in Procs : req[p] = Idle

tables == <<depts, parent, enabled, userDept>>

(* A UUID that has not been generated before: one nobody refers to.         *)
Fresh(d) ==
    /\ d \notin depts
    /\ \A e \in depts : parent[e] # d
    /\ \A u \in Users : userDept[u] # d
    /\ \A p \in Procs : d \notin {req[p].dept, req[p].to, req[p].cur} \cup req[p].ids \cup req[p].seen

-----------------------------------------------------------------------------
(* Arrival: what the body of the request says.                             *)

Begin(p, r) ==
    /\ req[p] = Idle
    /\ req' = [req EXCEPT ![p] = r]
    /\ overlapped' = (overlapped \/ ~Quiet)
    /\ UNCHANGED tables

(* The id is picked here although Prisma makes it up at c_create.           *)
Create(p, d, q, s) ==
    /\ Fresh(d) /\ q # d
    /\ Begin(p, [Idle EXCEPT !.op = "create", !.pc = IF q = None THEN "c_create" ELSE "c_find1",
                             !.dept = d, !.to = q, !.status = s])

Update(p, d, q, s) ==
    Begin(p, [Idle EXCEPT !.op = "update", !.pc = "u_find", !.dept = d, !.to = q, !.status = s])

(* remove and removeMany                                                   *)
Remove(p, ds) == Begin(p, [Idle EXCEPT !.op = "remove", !.pc = "r_find", !.ids = ds])

(* UsersService.create and update with a departmentId.                     *)
Place(p, u, d) == Begin(p, [Idle EXCEPT !.op = "place", !.pc = "p_find", !.user = u, !.dept = d])

(* getTree with conditions that match d, among others; s: that on status.   *)
Search(p, d, s) ==
    Begin(p, [Idle EXCEPT !.op = "search", !.pc = "t_match", !.dept = d, !.status = s])

-----------------------------------------------------------------------------
(* create looks its parent up twice.                                       *)

CreateFind(p) ==
    /\ req[p].pc \in {"c_find1", "c_find2"}
    /\ IF req[p].to \notin depts THEN Finish(p)
       ELSE Goto(p, IF At(p, "c_find1") THEN "c_find2" ELSE "c_create")
    /\ UNCHANGED <<tables, overlapped>>

(* The column status when the body of p has been written to row d; a new    *)
(* row is enabled by default.                                              *)
Marked(p, d) ==
    CASE req[p].status = "on"  -> enabled \cup {d}
      [] req[p].status = "off" -> enabled \ {d}
      [] OTHER                 -> enabled

CreateRow(p) ==
    /\ At(p, "c_create")
    /\ depts' = depts \cup {req[p].dept}
    /\ parent' = [parent EXCEPT ![req[p].dept] = req[p].to]
    /\ enabled' = Marked(p, req[p].dept)
    /\ Finish(p)
    /\ UNCHANGED <<userDept, overlapped>>

-----------------------------------------------------------------------------
(* update: without a parentId it writes back the parent it has read here.   *)

(* Mutant of UpdateFind.                                                   *)
UpdateFindForgets(p) ==
    /\ At(p, "u_find")
    /\ IF req[p].dept \notin depts THEN Finish(p)
       ELSE Goto(p, IF req[p].to \in Depts THEN "u_parent" ELSE "u_update")
    /\ UNCHANGED <<tables, overlapped>>

UpdateFind(p) ==
    LET r == req[p] IN
    /\ r.pc = "u_find"
    /\ IF r.dept \notin depts THEN Finish(p)
       ELSE req' = [req EXCEPT
            ![p].pc = IF r.to \in Depts THEN "u_parent" ELSE "u_update",
            ![p].to = IF r.to = Keep THEN parent[r.dept] ELSE r.to]
    /\ UNCHANGED <<tables, overlapped>>

(* Mutant of UpdateParent.                                                 *)
UpdateParentTrusts(p) ==
    /\ At(p, "u_parent")
    /\ IF req[p].to \notin depts THEN Finish(p) ELSE Goto(p, "u_update")
    /\ UNCHANGED <<tables, overlapped>>

UpdateParent(p) ==
    /\ At(p, "u_parent")
    /\ IF req[p].to \notin depts THEN Finish(p)
       ELSE req' = [req EXCEPT ![p].pc = "u_walk", ![p].cur = req[p].to]
    /\ UNCHANGED <<tables, overlapped>>

(* Mutant of Circular.                                                    *)
CircularUnseen(p) == req[p].cur \in depts /\ req[p].cur = req[p].dept

(* checkCircularReference, one row at a time; a row that is gone ends it.   *)
Circular(p) == req[p].cur \in req[p].seen \/ (req[p].cur \in depts /\ req[p].cur = req[p].dept)

Walk(p) ==
    LET c == req[p].cur IN
    /\ At(p, "u_walk")
    /\ IF Circular(p) THEN Finish(p)
       ELSE IF c \notin depts THEN Goto(p, "u_update")
       ELSE req' = [req EXCEPT
            ![p].pc = IF parent[c] = None THEN "u_update" ELSE "u_walk",
            ![p].seen = @ \cup {c},
            ![p].cur = parent[c]]
    /\ UNCHANGED <<tables, overlapped>>

(* Prisma throws when the row has gone.                                    *)
UpdateRow(p) ==
    /\ At(p, "u_update")
    /\ parent' = IF req[p].dept \in depts
                 THEN [parent EXCEPT ![req[p].dept] = req[p].to] ELSE parent
    /\ enabled' = IF req[p].dept \in depts THEN Marked(p, req[p].dept) ELSE enabled
    /\ Finish(p)
    /\ UNCHANGED <<depts, userDept, overlapped>>

-----------------------------------------------------------------------------
(* remove and removeMany: the children and users are read with the rows.    *)

(* Mutant of Blocked.                                                      *)
BlockedByUsers(d) == \E u \in Users : userDept[u] = d

Blocked(d) == (\E e \in depts : parent[e] = d) \/ (\E u \in Users : userDept[u] = d)

RemoveFind(p) ==
    /\ At(p, "r_find")
    /\ IF \E d \in req[p].ids \cap depts : Blocked(d) THEN Finish(p) ELSE Goto(p, "r_delete")
    /\ UNCHANGED <<tables, overlapped>>

(* relationMode = "prisma": the client sets the departmentId of users to    *)
(* NULL and leaves the children (NoAction) alone.                          *)
RemoveRows(p) ==
    LET gone == req[p].ids IN
    /\ At(p, "r_delete")
    /\ depts' = depts \ gone /\ enabled' = enabled \ gone
    /\ parent' = [d \in Depts |-> IF d \in gone THEN None ELSE parent[d]]
    /\ userDept' = [u \in Users |-> IF userDept[u] \in gone THEN None ELSE userDept[u]]
    /\ Finish(p)
    /\ UNCHANGED overlapped

-----------------------------------------------------------------------------
PlaceFind(p) ==
    /\ At(p, "p_find")
    /\ IF req[p].dept \notin depts THEN Finish(p) ELSE Goto(p, "p_update")
    /\ UNCHANGED <<tables, overlapped>>

(* connect: whether Prisma looks the row up again is left open.             *)
PlaceUser(p) ==
    /\ At(p, "p_update")
    /\ \/ userDept' = [userDept EXCEPT ![req[p].user] = req[p].dept]
       \/ req[p].dept \notin depts /\ UNCHANGED userDept
    /\ Finish(p)
    /\ UNCHANGED <<depts, parent, enabled, overlapped>>

(* UsersService.remove of a user, whose id another one then stands for.     *)
UserGone(u) ==
    /\ userDept[u] # None
    /\ \A p \in Procs : req[p].user # u
    /\ userDept' = [userDept EXCEPT ![u] = None]
    /\ UNCHANGED <<depts, parent, enabled, req, overlapped>>

-----------------------------------------------------------------------------
(* getTree with a condition: the match, then addDepartmentAncestorIds, which *)
(* adds an id before it reads its row and has no notion of a visited id.    *)

(* The rows a condition on status lets through.                             *)
Having(s) == {d \in depts : s = "any" \/ (s = "on" <=> d \in enabled)}

SearchMatch(p) ==
    LET d == req[p].dept IN
    /\ At(p, "t_match")
    /\ IF d \notin Having(req[p].status) THEN Finish(p)
       ELSE req' = [req EXCEPT ![p].pc = IF parent[d] = None THEN "t_read" ELSE "t_walk",
                               ![p].seen = {d}, ![p].cur = parent[d]]
    /\ UNCHANGED <<tables, overlapped>>

Above(c) == IF c \in depts THEN parent[c] ELSE None

(* Mutant of SearchWalk.                                                   *)
SearchWalkDropsRoot(p) ==
    LET c == req[p].cur IN
    /\ At(p, "t_walk")
    /\ req' = [req EXCEPT ![p].pc = IF Above(c) = None THEN "t_read" ELSE "t_walk",
                          ![p].seen = IF Above(c) = None THEN @ ELSE @ \cup {c},
                          ![p].cur = Above(c)]
    /\ UNCHANGED <<tables, overlapped>>

SearchWalk(p) ==
    LET c == req[p].cur IN
    /\ At(p, "t_walk")
    /\ req' = [req EXCEPT ![p].pc = IF Above(c) = None THEN "t_read" ELSE "t_walk",
                          ![p].seen = @ \cup {c}, ![p].cur = Above(c)]
    /\ UNCHANGED <<tables, overlapped>>

(* The rows of the ids collected, the condition on status applied once more. *)
Rows(p) == req[p].seen \cap Having(req[p].status)

(* The read of Rows(p), which the answer is built from.                     *)
SearchRead(p) ==
    /\ At(p, "t_read")
    /\ Finish(p)
    /\ UNCHANGED <<tables, overlapped>>

(* The nodes of the answer when the rows ds were read: those whose parent   *)
(* is not among them are roots, the rest hangs below.                      *)
Roots(ds) == {d \in ds : parent[d] \notin ds}

Shown(ds) ==
    LET below[n \in Nat] == IF n = 0 THEN Roots(ds)
                            ELSE below[n - 1] \cup {d \in ds : parent[d] \in below[n - 1]}
    IN  below[Cardinality(ds)]

-----------------------------------------------------------------------------
Init ==
    /\ depts = {}
    /\ parent = [d \in Depts |-> None]
    /\ enabled = {}
    /\ userDept = [u \in Users |-> None]
    /\ req = [p \in Procs |-> Idle]
    /\ overlapped = FALSE

Arrive(p) ==
    \/ \E d \in Depts, q \in Depts \cup {None}, s \in {"on", "off"} : Create(p, d, q, s)
    \/ \E d \in Depts, q \in Depts \cup {None, Keep}, s \in Statuses : Update(p, d, q, s)
    \/ \E ds \in SUBSET Depts : Remove(p, ds)
    \/ \E u \in Users, d \in Depts : Place(p, u, d)
    \/ \E d \in Depts, s \in Statuses : Search(p, d, s)

Step(p) ==
    \/ CreateFind(p) \/ CreateRow(p)
    \/ UpdateFind(p) \/ UpdateParent(p) \/ Walk(p) \/ UpdateRow(p)
    \/ RemoveFind(p) \/ RemoveRows(p)
    \/ PlaceFind(p) \/ PlaceUser(p)
    \/ SearchMatch(p) \/ SearchWalk(p) \/ SearchRead(p)

Next ==
    \/ \E p \in Procs : Arrive(p) \/ Step(p)
    \/ \E u \in Users : UserGone(u)

Spec == Init /\ [][Next]_vars

-----------------------------------------------------------------------------
TypeOK ==
    /\ depts \subseteq Depts
    /\ parent \in [Depts -> Depts \cup {None}]
    /\ enabled \subseteq Depts
    /\ userDept \in [Users -> Depts \cup {None}]
    /\ req \in [Procs -> Request]
    /\ overlapped \in BOOLEAN

(* "No circular reference": as long as no two requests have overlapped, no  *)
(* set of departments has all its parents within itself.                   *)
Acyclic == \A S \in SUBSET depts : S # {} => \E d \in S : parent[d] \notin S
SoloForest == ~overlapped => Acyclic

(* Nor does a department or a user then refer to a department that is gone: *)
(* nothing but the checks of remove, create, update and UsersService sees   *)
(* to it, since the database has no foreign keys.                          *)
SoloNoDangling ==
    ~overlapped => /\ \A d \in depts : parent[d] \in depts \cup {None}
                   /\ \A u \in Users : userDept[u] \in depts \cup {None}

(* However requests interleave, no department becomes its own parent.       *)
NoSelfParent == \A d \in depts : parent[d] # d

(* As long as no two requests have overlapped a search shows the department *)
(* it has matched and those of its ancestors that are of the status asked   *)
(* for: all of them when it asks for none.  (A row whose parent is of another *)
(* status hangs as a root.)                                                *)
SearchShowsMatch ==
    \A p \in Procs : At(p, "t_read") /\ ~overlapped =>
        /\ req[p].dept \in Rows(p) /\ Shown(Rows(p)) = Rows(p)
        /\ \A d \in req[p].seen : parent[d] \in req[p].seen \cup {None}
        /\ req[p].status = "any" => Rows(p) = req[p].seen

(* checkCircularReference ends even on a tree that has a cycle already or   *)
(* is moved under it: every step ends the walk or adds to what it has seen. *)
WalkProgresses ==
    [][\A p \in Procs : At(p, "u_walk") /\ At(p, "u_walk")' /\ req'[p] # req[p] =>
          req[p].seen # req'[p].seen /\ req[p].seen \subseteq req'[p].seen]_vars

(* addDepartmentAncestorIds never comes to an id again, as long as no two   *)
(* requests have overlapped; on a cycle it would recurse for good.          *)
SearchNeverRevisits ==
    \A p \in Procs : At(p, "t_walk") /\ ~overlapped => req[p].cur \notin req[p].seen
=============================================================================
