------------------------------- MODULE Menus -------------------------------
(***************************************************************************)
(* The menus of gvray-admin: MenuService, which keeps them, and the three   *)
(* readers that rebuild the tree from the rows: getMenuTree, getOptions and *)
(* AuthService.getMenus.                                                   *)
(*                                                                         *)
(* A request reads and checks (one action, on arrival), then writes its     *)
(* row: nothing holds a transaction or a lock in between, and MySQL has no  *)
(* foreign keys.  Paths are taken to be different (a used one is refused).  *)
(***************************************************************************)
EXTENDS Naturals, FiniteSets

CONSTANTS
    MenuIds,   \* menuIds (bound of the model)
    Editors,   \* requests in flight at the same time (bound of the model)
    Top        \* no parent

ASSUME MenusAssumption == IsFiniteSet(MenuIds) /\ Top \notin MenuIds

VARIABLES
    menus,      \* existing menus
    menuRow,    \* their rows
    edit,       \* the requests in flight
    alone       \* history: no two requests have ever been in flight at once

menuVars == <<menus, menuRow, edit, alone>>

(* disabled; enabled without a permission code; enabled with one.           *)
Shows == {"disabled", "open", "coded"}
MenuRows == [type: {"CATALOG", "MENU"}, parent: MenuIds \cup {Top}, show: Shows]
NoRow == [type |-> "MENU", parent |-> Top, show |-> "open"]

MenuOps == {"create", "update", "remove"}
NoEdit == [op |-> "none", menu |-> Top, row |-> NoRow]
Edits == [op: MenuOps \cup {"none"}, menu: MenuIds \cup {Top}, row: MenuRows]

MenusInit ==
    /\ menus = {}
    /\ menuRow = [m \in MenuIds |-> NoRow]
    /\ edit = [p \in Editors |-> NoEdit]
    /\ alone = TRUE

-----------------------------------------------------------------------------
(* Arrival of a request that passes its checks.                            *)

EditBegins(p, o, m, row) ==
    /\ edit[p] = NoEdit
    /\ edit' = [edit EXCEPT ![p] = [op |-> o, menu |-> m, row |-> row]]
    /\ alone' = (alone /\ \A q \in Editors : edit[q] = NoEdit)
    /\ UNCHANGED <<menus, menuRow>>

(* Mutant of ValidateMenuHierarchy: the type of the parent is not looked at. *)
ValidateMenuHierarchyAnyType(parent) == parent = Top \/ parent \in menus

(* Every type may stand below a catalogue, none below a menu.               *)
ValidateMenuHierarchy(parent) ==
    parent = Top \/ (parent \in menus /\ menuRow[parent].type = "CATALOG")

(* An id that no row and no request mentions is as good as a new uuid.       *)
New(m) ==
    /\ m \notin menus /\ \A n \in menus : menuRow[n].parent # m
    /\ \A q \in Editors : m \notin {edit[q].menu, edit[q].row.parent}

CreateMenu(p, m, row) ==
    /\ New(m)
    /\ ValidateMenuHierarchy(row.parent)
    /\ EditBegins(p, "create", m, row)

(* A new parent is checked, its place in the tree is not: it may be the menu *)
(* itself or one below it.  Without a new one the parent that was read is   *)
(* written back.  The type is fixed.                                       *)
MoveMenu(p, m, parent, show) ==
    /\ m \in menus
    /\ parent # menuRow[m].parent => ValidateMenuHierarchy(parent)
    /\ EditBegins(p, "update", m, [menuRow[m] EXCEPT !.parent = parent, !.show = show])

Children(m) == {n \in menus : menuRow[n].parent = m}

RemoveMenu(p, m) ==
    /\ m \in menus
    /\ menuRow[m].type = "CATALOG" => Children(m) = {}
    /\ EditBegins(p, "remove", m, NoRow)

-----------------------------------------------------------------------------
(* The write.                                                              *)

MenuCreate(p) ==
    /\ edit[p].op = "create"
    /\ menus' = menus \cup {edit[p].menu}
    /\ menuRow' = [menuRow EXCEPT ![edit[p].menu] = edit[p].row]
    /\ edit' = [edit EXCEPT ![p] = NoEdit]
    /\ UNCHANGED alone

(* The statement fails when the row has gone.                              *)
MenuUpdate(p) ==
    /\ edit[p].op = "update"
    /\ menuRow' = IF edit[p].menu \in menus
                  THEN [menuRow EXCEPT ![edit[p].menu] = edit[p].row] ELSE menuRow
    /\ edit' = [edit EXCEPT ![p] = NoEdit]
    /\ UNCHANGED <<menus, alone>>

MenuRemove(p) ==
    /\ edit[p].op = "remove"
    /\ menus' = menus \ {edit[p].menu}
    /\ menuRow' = [menuRow EXCEPT ![edit[p].menu] = NoRow]
    /\ edit' = [edit EXCEPT ![p] = NoEdit]
    /\ UNCHANGED alone

EditStep(p) ==
    \/ \E m \in MenuIds, row \in MenuRows : CreateMenu(p, m, row)
    \/ \E m \in MenuIds, parent \in MenuIds \cup {Top}, show \in Shows : MoveMenu(p, m, parent, show)
    \/ \E m \in MenuIds : RemoveMenu(p, m)
    \/ MenuCreate(p) \/ MenuUpdate(p) \/ MenuRemove(p)

MenusNext == \E p \in Editors : EditStep(p)

MenusSpec == MenusInit /\ [][MenusNext]_menuVars

-----------------------------------------------------------------------------
(* The readers.  Each asks MySQL once, then computes.                      *)

Parent(m) == menuRow[m].parent
Enabled == {m \in menus : menuRow[m].show # "disabled"}

Depth == Cardinality(MenuIds)

(* A menu and those above it, for as long as there is a row in S.           *)
Climb(S, m) ==
    LET up[n \in 0..Depth] ==
          IF n = 0 THEN {m} ELSE up[n - 1] \cup {Parent(x) : x \in up[n - 1] \cap S}
    IN up[Depth] \ {Top}

(* The tree of the nodes S, hung from its roots.                            *)
Hung(S, roots) ==
    LET down[n \in 0..Depth] ==
          IF n = 0 THEN roots ELSE down[n - 1] \cup {m \in S : Parent(m) \in down[n - 1]}
    IN down[Depth]

(* Without a filter: a node whose parent is missing becomes a root.         *)
GetMenuTree == Hung(menus, {m \in menus : Parent(m) \notin menus})

(* filter: the walk up the parents of each enabled menu.                    *)
GetOptions == {m \in Enabled : Climb(Enabled, m) \subseteq Enabled}

Direct(coded) == {m \in Enabled : menuRow[m].show = "open" \/ coded}

EnsureParents(S) == UNION {Climb(Enabled, m) : m \in S}

Pages(S) == {m \in S : menuRow[m].type = "MENU"}

(* Mutant of RemoveEmptyCatalogs: a catalogue of catalogues is taken for     *)
(* one that has something in it.                                            *)
RemoveEmptyCatalogsOnce(S) == Pages(S) \cup ({Parent(m) : m \in S} \cap S)

RemoveEmptyCatalogs(S) == S \cap UNION {Climb(S, m) : m \in Pages(S)}

(* AuthService.getMenus of a user who holds the permission codes, or none.  *)
GetMenus(coded) ==
    LET visible == Enabled \cap EnsureParents(Direct(coded))
        valid == {m \in visible : Parent(m) \in visible \cup {Top}}
    IN RemoveEmptyCatalogs(Hung(valid, {m \in valid : Parent(m) = Top}))

-----------------------------------------------------------------------------
MenusTypeOK ==
    /\ menus \subseteq MenuIds
    /\ menuRow \in [MenuIds -> MenuRows]
    /\ edit \in [Editors -> Edits]
    /\ alone \in BOOLEAN

(* "Below a MENU there are no menus" (validateMenuHierarchy), whatever       *)
(* requests overlap; and a parent that is missing, so that its menus vanish *)
(* from the users' trees, takes two that did.                              *)
MenuHierarchy ==
    \A m \in menus :
        /\ Parent(m) \in menus => menuRow[Parent(m)].type = "CATALOG"
        /\ alone => Parent(m) \in menus \cup {Top}

(* No menu stands above itself.  update does not see to it: on a cycle       *)
(* getOptions loops for ever and getMenus overflows its stack.             *)
NoLoop == \A m \in menus : Parent(m) # Top => m \notin Climb(menus, Parent(m))

(* As long as nobody has closed a cycle: the administrator's tree has every  *)
(* menu; a user is shown the pages he has the code of, if they and all      *)
(* above them are enabled, with the way there, and nothing else: no empty   *)
(* catalogue; with all codes, what getOptions finds by walking upwards.     *)
MenusAreShown ==
    NoLoop =>
        /\ GetMenuTree = menus
        /\ \A coded \in BOOLEAN :
              GetMenus(coded) =
                UNION {Climb(menus, d) : d \in {e \in Pages(Direct(coded)) : Climb(menus, e) \subseteq Enabled}}
        /\ GetMenus(TRUE) = UNION {Climb(menus, d) : d \in Pages(GetOptions)}
=============================================================================
