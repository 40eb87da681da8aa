----------------------------- MODULE MenusProofs -----------------------------
(* What the checks of MenuService are worth, for any number of menus and     *)
(* of requests that overlap.                                               *)
EXTENDS MCTrees, DepartmentsProofs

(* A parent that exists is a catalogue: of the rows, and of what requests    *)
(* in flight are about to write.                                           *)
BelowCatalogue(x) == x \in menus => menuRow[x].type = "CATALOG"

ParentsHold ==
    /\ \A m \in menus : BelowCatalogue(Parent(m))
    /\ \A q \in Editors : BelowCatalogue(edit[q].row.parent)

(* Nothing mentions a menu that is being created.                          *)
FreshHold ==
    \A q \in Editors : edit[q].op = "create" =>
        /\ edit[q].menu \in MenuIds \ menus
        /\ \A n \in menus : Parent(n) # edit[q].menu
        /\ \A r \in Editors : /\ edit[r].row.parent # edit[q].menu
                              /\ r # q => edit[r].menu # edit[q].menu

(* An update writes back the type it read.                                 *)
TypesHold ==
    \A q \in Editors : edit[q].op = "update" =>
        /\ edit[q].menu \in MenuIds
        /\ edit[q].menu \in menus => menuRow[edit[q].menu].type = edit[q].row.type

(* What the only request in flight knows.                                  *)
AloneHold ==
    alone =>
        /\ \A m \in menus : Parent(m) \in menus \cup {Top}
        /\ \A q, r \in Editors : edit[q] # NoEdit /\ edit[r] # NoEdit => q = r
        /\ \A q \in Editors :
              /\ edit[q].row.parent \in menus \cup {Top}
              /\ edit[q].op = "remove" => \A n \in menus : Parent(n) # edit[q].menu

MenusInv == MenusTypeOK /\ ParentsHold /\ FreshHold /\ TypesHold /\ AloneHold

LEMMA NoEditType == NoEdit \in Edits /\ NoRow \in MenuRows
BY DEF NoEdit, Edits, NoRow, MenuRows, Shows, MenuOps

LEMMA MenusStart == ASSUME MenusInit PROVE MenusInv
<1>1. MenusTypeOK BY NoEditType DEF MenusInit, MenusTypeOK
<1>2. \A q \in Editors : edit[q].op = "none" /\ edit[q] = NoEdit /\ edit[q].row.parent = Top
  BY DEF MenusInit, NoEdit, NoRow
<1>3. ParentsHold BY <1>2 DEF ParentsHold, MenusInit, BelowCatalogue
<1>4. FreshHold /\ TypesHold BY <1>2 DEF FreshHold, TypesHold
<1>5. AloneHold BY <1>2 DEF AloneHold, MenusInit
<1> QED BY <1>1, <1>3, <1>4, <1>5 DEF MenusInv

-----------------------------------------------------------------------------
(* The arrival of a request, given what it knows of its menu and row.       *)
LEMMA EditBeginsStep ==
    ASSUME MenusInv, NEW p \in Editors, NEW o \in MenuOps, NEW m \in MenuIds, NEW row \in MenuRows,
           EditBegins(p, o, m, row),
           BelowCatalogue(row.parent),
           \A q \in Editors : edit[q].op = "create" => /\ row.parent # edit[q].menu
                                                     /\ m # edit[q].menu,
           o = "create" => New(m) /\ row.parent # m,
           o = "update" => m \in menus /\ menuRow[m].type = row.type,
           alone => /\ row.parent \in menus \cup {Top}
                    /\ o = "remove" => \A n \in menus : Parent(n) # m
    PROVE MenusInv'
<1> DEFINE e == [op |-> o, menu |-> m, row |-> row]
<1>1. /\ edit[p] = NoEdit
      /\ edit' = [edit EXCEPT ![p] = e]
      /\ menus' = menus /\ menuRow' = menuRow
      /\ alone' = (alone /\ \A q \in Editors : edit[q] = NoEdit)
  BY DEF EditBegins
<1>2. e \in Edits BY DEF Edits
<1>3. MenusTypeOK' BY <1>1, <1>2 DEF MenusInv, MenusTypeOK
<1>4. /\ edit'[p] = e
      /\ \A q \in Editors \ {p} : edit'[q] = edit[q]
  BY <1>1 DEF MenusInv, MenusTypeOK
<1>5. \A n : Parent(n)' = Parent(n) BY <1>1 DEF Parent
<1>6. ParentsHold' BY <1>1, <1>4, <1>5 DEF MenusInv, ParentsHold, BelowCatalogue
<1>7. FreshHold'
  <2>1. SUFFICES ASSUME NEW q \in Editors, edit'[q].op = "create"
                 PROVE /\ edit'[q].menu \in MenuIds \ menus
                       /\ \A n \in menus : Parent(n) # edit'[q].menu
                       /\ \A r \in Editors : /\ edit'[r].row.parent # edit'[q].menu
                                             /\ r # q => edit'[r].menu # edit'[q].menu
    BY <1>1, <1>5 DEF FreshHold
  <2>2. CASE q = p
    BY <1>4, <2>1, <2>2 DEF New, Parent
  <2>3. CASE q # p
    BY <1>4, <2>1, <2>3 DEF MenusInv, FreshHold
  <2> QED BY <2>2, <2>3
<1>8. TypesHold' BY <1>1, <1>4 DEF MenusInv, TypesHold
<1>9. AloneHold'
  <2>1. SUFFICES ASSUME alone' PROVE AloneHold' BY DEF AloneHold
  <2>2. alone /\ \A q \in Editors : edit[q] = NoEdit BY <1>1, <2>1
  <2>3. \A q \in Editors \ {p} : edit'[q] = NoEdit BY <1>4, <2>2
  <2>4. NoEdit.row.parent = Top /\ NoEdit.op = "none" BY DEF NoEdit, NoRow
  <2> QED BY <1>1, <1>4, <1>5, <2>2, <2>3, <2>4 DEF AloneHold, MenusInv
<1> QED BY <1>3, <1>6, <1>7, <1>8, <1>9 DEF MenusInv

LEMMA ArrivalStep ==
    ASSUME MenusInv, NEW p \in Editors, NEW m \in MenuIds
    PROVE /\ \A row \in MenuRows : CreateMenu(p, m, row) => MenusInv'
          /\ \A up \in MenuIds \cup {Top}, show \in Shows :
                MoveMenu(p, m, up, show) => MenusInv'
          /\ RemoveMenu(p, m) => MenusInv'
<1> USE MenusAssumption
<1>1. ASSUME NEW row \in MenuRows, CreateMenu(p, m, row) PROVE MenusInv'
  <2>1. New(m) /\ ValidateMenuHierarchy(row.parent) /\ EditBegins(p, "create", m, row)
    BY <1>1 DEF CreateMenu
  <2>2. row.parent \in menus \cup {Top} /\ BelowCatalogue(row.parent)
    BY <2>1 DEF ValidateMenuHierarchy, BelowCatalogue, MenusInv, MenusTypeOK
  <2>3. \A q \in Editors : edit[q].op = "create" => row.parent # edit[q].menu /\ m # edit[q].menu
    BY <2>1, <2>2 DEF New, MenusInv, FreshHold
  <2>4. row.parent # m BY <2>1, <2>2 DEF New
  <2> QED BY <2>1, <2>2, <2>3, <2>4, EditBeginsStep DEF MenuOps
<1>2. ASSUME NEW up \in MenuIds \cup {Top}, NEW show \in Shows, MoveMenu(p, m, up, show)
      PROVE MenusInv'
  <2> DEFINE row == [menuRow[m] EXCEPT !.parent = up, !.show = show]
  <2>1. m \in menus /\ menuRow[m] \in MenuRows BY <1>2 DEF MoveMenu, MenusInv, MenusTypeOK
  <2>2. row \in MenuRows /\ row.parent = up /\ row.type = menuRow[m].type
    BY <2>1 DEF MenuRows
  <2>3. EditBegins(p, "update", m, row) BY <1>2 DEF MoveMenu
  <2>4. CASE up = menuRow[m].parent
    <3>1. BelowCatalogue(up) BY <2>1, <2>4 DEF MenusInv, ParentsHold, Parent
    <3>2. alone => up \in menus \cup {Top} BY <2>1, <2>4 DEF MenusInv, AloneHold, Parent
    <3>3. \A q \in Editors : edit[q].op = "create" => up # edit[q].menu /\ m # edit[q].menu
      BY <2>1, <2>4 DEF MenusInv, FreshHold, Parent
    <3> HIDE DEF row
    <3> QED BY <2>1, <2>2, <2>3, <3>1, <3>2, <3>3, EditBeginsStep DEF MenuOps
  <2>5. CASE up # menuRow[m].parent
    <3>1. up \in menus \cup {Top} /\ BelowCatalogue(up)
      BY <1>2, <2>5 DEF MoveMenu, ValidateMenuHierarchy, BelowCatalogue, MenusInv, MenusTypeOK
    <3>2. \A q \in Editors : edit[q].op = "create" => up # edit[q].menu /\ m # edit[q].menu
      BY <2>1, <3>1 DEF MenusInv, FreshHold
    <3> HIDE DEF row
    <3> QED BY <2>1, <2>2, <2>3, <3>1, <3>2, EditBeginsStep DEF MenuOps
  <2> QED BY <2>4, <2>5
<1>3. ASSUME RemoveMenu(p, m) PROVE MenusInv'
  <2>1. m \in menus /\ EditBegins(p, "remove", m, NoRow) BY <1>3 DEF RemoveMenu
  <2>2. NoRow.parent = Top BY DEF NoRow
  <2>3. \A n \in menus : Parent(n) # m
    BY <1>3, <2>1 DEF RemoveMenu, Children, Parent, MenusInv, ParentsHold, BelowCatalogue
  <2>4. \A q \in Editors : edit[q].op = "create" => Top # edit[q].menu /\ m # edit[q].menu
    BY <2>1 DEF MenusInv, FreshHold
  <2>5. BelowCatalogue(Top) BY DEF BelowCatalogue, MenusInv, MenusTypeOK
  <2> QED BY <2>1, <2>2, <2>3, <2>4, <2>5, NoEditType, EditBeginsStep DEF MenuOps
<1> QED BY <1>1, <1>2, <1>3

-----------------------------------------------------------------------------
(* The writes.                                                             *)
LEMMA EditEnds ==
    ASSUME MenusInv, NEW p \in Editors, edit' = [edit EXCEPT ![p] = NoEdit]
    PROVE /\ edit'[p] = NoEdit /\ NoEdit.row.parent = Top /\ NoEdit.op = "none" /\ NoEdit.menu = Top
          /\ \A q \in Editors \ {p} : edit'[q] = edit[q]
          /\ edit' \in [Editors -> Edits]
          /\ edit[p] \in Edits
BY NoEditType DEF MenusInv, MenusTypeOK, NoEdit, NoRow

LEMMA MenuCreateStep == ASSUME MenusInv, NEW p \in Editors, MenuCreate(p) PROVE MenusInv'
<1> USE MenusAssumption
<1> DEFINE m == edit[p].menu
<1>1. /\ edit[p].op = "create" /\ edit' = [edit EXCEPT ![p] = NoEdit]
      /\ menus' = menus \cup {m} /\ menuRow' = [menuRow EXCEPT ![m] = edit[p].row]
      /\ alone' = alone
  BY DEF MenuCreate
<1>2. /\ edit'[p] = NoEdit /\ NoEdit.row.parent = Top /\ NoEdit.op = "none" /\ NoEdit.menu = Top
      /\ \A q \in Editors \ {p} : edit'[q] = edit[q]
      /\ edit' \in [Editors -> Edits]
      /\ edit[p].row \in MenuRows
  BY <1>1, EditEnds DEF Edits
<1>3. /\ m \in MenuIds \ menus
      /\ \A n \in menus : Parent(n) # m
      /\ \A r \in Editors : edit[r].row.parent # m /\ (r # p => edit[r].menu # m)
  BY <1>1 DEF MenusInv, FreshHold
<1>4. /\ menuRow' \in [MenuIds -> MenuRows]
      /\ menuRow'[m] = edit[p].row
      /\ \A n \in menus : menuRow'[n] = menuRow[n]
  BY <1>1, <1>2, <1>3 DEF MenusInv, MenusTypeOK
<1>5. MenusTypeOK' BY <1>1, <1>2, <1>3, <1>4 DEF MenusInv, MenusTypeOK
<1>6. \A n \in menus' : Parent(n)' = IF n = m THEN edit[p].row.parent ELSE Parent(n)
  BY <1>1, <1>4 DEF Parent
<1>7. \A x : x # m /\ BelowCatalogue(x) => BelowCatalogue(x)' BY <1>1, <1>4 DEF BelowCatalogue
<1>8. ParentsHold'
  <2>1. \A n \in menus' : BelowCatalogue(Parent(n))'
    BY <1>1, <1>3, <1>6, <1>7 DEF MenusInv, ParentsHold
  <2>2. BelowCatalogue(Top)' BY <1>5 DEF BelowCatalogue, MenusTypeOK
  <2>3. \A q \in Editors : BelowCatalogue(edit[q].row.parent)'
    <3>1. TAKE q \in Editors
    <3>2. edit'[q].row.parent \in {Top, edit[q].row.parent} BY <1>2
    <3> QED BY <1>2, <1>3, <1>7, <2>2, <3>2 DEF MenusInv, ParentsHold
  <2> QED BY <2>1, <2>3 DEF ParentsHold
<1>9. FreshHold'
  <2>1. SUFFICES ASSUME NEW q \in Editors \ {p}, edit[q].op = "create"
                 PROVE /\ edit[q].menu \in MenuIds \ menus'
                       /\ \A n \in menus' : Parent(n)' # edit[q].menu
                       /\ \A r \in Editors : /\ edit'[r].row.parent # edit[q].menu
                                             /\ r # q => edit'[r].menu # edit[q].menu
    BY <1>2 DEF FreshHold
  <2>2. /\ edit[q].menu \in MenuIds \ menus
        /\ \A n \in menus : Parent(n) # edit[q].menu
        /\ \A r \in Editors : /\ edit[r].row.parent # edit[q].menu
                              /\ r # q => edit[r].menu # edit[q].menu
    BY <2>1 DEF MenusInv, FreshHold
  <2> QED BY <1>1, <1>2, <1>3, <1>6, <2>2
<1>10. TypesHold'
  <2>1. SUFFICES ASSUME NEW q \in Editors \ {p}, edit[q].op = "update"
                 PROVE /\ edit[q].menu \in MenuIds
                       /\ edit[q].menu \in menus' => menuRow'[edit[q].menu].type = edit[q].row.type
    BY <1>2 DEF TypesHold
  <2> QED BY <1>1, <1>3, <1>4, <2>1 DEF MenusInv, TypesHold
<1>11. AloneHold'
  <2>1. SUFFICES ASSUME alone PROVE AloneHold' BY <1>1 DEF AloneHold
  <2>2. \A n \in menus' : Parent(n)' \in menus' \cup {Top}
    BY <1>1, <1>6, <2>1 DEF MenusInv, AloneHold
  <2>3. edit[p] # NoEdit BY <1>1, <1>2
  <2>4. \A q \in Editors : edit'[q] = NoEdit BY <1>2, <2>1, <2>3 DEF MenusInv, AloneHold
  <2> QED BY <1>2, <2>2, <2>4 DEF AloneHold
<1> QED BY <1>5, <1>8, <1>9, <1>10, <1>11 DEF MenusInv

LEMMA MenuUpdateStep == ASSUME MenusInv, NEW p \in Editors, MenuUpdate(p) PROVE MenusInv'
<1> USE MenusAssumption
<1> DEFINE m == edit[p].menu
<1>1. /\ edit[p].op = "update" /\ edit' = [edit EXCEPT ![p] = NoEdit]
      /\ menuRow' = IF m \in menus THEN [menuRow EXCEPT ![m] = edit[p].row] ELSE menuRow
      /\ menus' = menus /\ alone' = alone
  BY DEF MenuUpdate
<1>2. /\ edit'[p] = NoEdit /\ NoEdit.row.parent = Top /\ NoEdit.op = "none" /\ NoEdit.menu = Top
      /\ \A q \in Editors \ {p} : edit'[q] = edit[q]
      /\ edit' \in [Editors -> Edits]
      /\ edit[p].row \in MenuRows
  BY <1>1, EditEnds DEF Edits
<1>3. /\ menuRow' \in [MenuIds -> MenuRows]
      /\ \A n \in menus : menuRow'[n] = IF n = m THEN edit[p].row ELSE menuRow[n]
  BY <1>1, <1>2 DEF MenusInv, MenusTypeOK
<1>4. \A n \in menus : menuRow'[n].type = menuRow[n].type
  BY <1>1, <1>3 DEF MenusInv, TypesHold
<1>5. \A n \in menus : Parent(n)' \in {Parent(n), edit[p].row.parent} BY <1>3 DEF Parent
<1>6. MenusTypeOK' BY <1>1, <1>2, <1>3 DEF MenusInv, MenusTypeOK
<1>7. \A x : BelowCatalogue(x) => BelowCatalogue(x)' BY <1>1, <1>4 DEF BelowCatalogue
<1>8. \A q \in Editors : edit'[q].row.parent \in {Top, edit[q].row.parent} BY <1>2
<1>9. ParentsHold'
  <2>1. BelowCatalogue(Top) BY DEF BelowCatalogue, MenusInv, MenusTypeOK
  <2>2. \A n \in menus : BelowCatalogue(Parent(n))'
    BY <1>5, <1>7 DEF MenusInv, ParentsHold
  <2>3. \A q \in Editors : BelowCatalogue(edit[q].row.parent)'
    BY <1>7, <1>8, <2>1 DEF MenusInv, ParentsHold
  <2> QED BY <1>1, <2>2, <2>3 DEF ParentsHold
<1>10. FreshHold'
  <2>1. SUFFICES ASSUME NEW q \in Editors \ {p}, edit[q].op = "create"
                 PROVE /\ edit[q].menu \in MenuIds \ menus
                       /\ \A n \in menus : Parent(n)' # edit[q].menu
                       /\ \A r \in Editors : /\ edit'[r].row.parent # edit[q].menu
                                             /\ r # q => edit'[r].menu # edit[q].menu
    BY <1>1, <1>2 DEF FreshHold
  <2>2. /\ edit[q].menu \in MenuIds \ menus
        /\ \A n \in menus : Parent(n) # edit[q].menu
        /\ \A r \in Editors : /\ edit[r].row.parent # edit[q].menu
                              /\ r # q => edit[r].menu # edit[q].menu
    BY <2>1 DEF MenusInv, FreshHold
  <2> QED BY <1>2, <1>5, <1>8, <2>2
<1>11. TypesHold'
  <2>1. SUFFICES ASSUME NEW q \in Editors \ {p}, edit[q].op = "update"
                 PROVE /\ edit[q].menu \in MenuIds
                       /\ edit[q].menu \in menus => menuRow'[edit[q].menu].type = edit[q].row.type
    BY <1>1, <1>2 DEF TypesHold
  <2> QED BY <1>4, <2>1 DEF MenusInv, TypesHold
<1>12. AloneHold'
  <2>1. SUFFICES ASSUME alone PROVE AloneHold' BY <1>1 DEF AloneHold
  <2>2. \A n \in menus : Parent(n)' \in menus \cup {Top} BY <1>5, <2>1 DEF MenusInv, AloneHold
  <2>3. edit[p] # NoEdit BY <1>1, <1>2
  <2>4. \A q \in Editors : edit'[q] = NoEdit BY <1>2, <2>1, <2>3 DEF MenusInv, AloneHold
  <2> QED BY <1>1, <1>2, <2>2, <2>4 DEF AloneHold
<1> QED BY <1>6, <1>9, <1>10, <1>11, <1>12 DEF MenusInv

LEMMA MenuRemoveStep == ASSUME MenusInv, NEW p \in Editors, MenuRemove(p) PROVE MenusInv'
<1> USE MenusAssumption
<1> DEFINE m == edit[p].menu
<1>1. /\ edit[p].op = "remove" /\ edit' = [edit EXCEPT ![p] = NoEdit]
      /\ menus' = menus \ {m} /\ menuRow' = [menuRow EXCEPT ![m] = NoRow]
      /\ alone' = alone
  BY DEF MenuRemove
<1>2. /\ edit'[p] = NoEdit /\ NoEdit.row.parent = Top /\ NoEdit.op = "none" /\ NoEdit.menu = Top
      /\ \A q \in Editors \ {p} : edit'[q] = edit[q]
      /\ edit' \in [Editors -> Edits]
  BY <1>1, EditEnds
<1>3. /\ menuRow' \in [MenuIds -> MenuRows]
      /\ \A n \in menus' : menuRow'[n] = menuRow[n]
  BY <1>1, NoEditType DEF MenusInv, MenusTypeOK
<1>4. MenusTypeOK' BY <1>1, <1>2, <1>3 DEF MenusInv, MenusTypeOK
<1>5. menus' \subseteq menus /\ \A n \in menus' : Parent(n)' = Parent(n) BY <1>1, <1>3 DEF Parent
<1>6. \A x : BelowCatalogue(x) => BelowCatalogue(x)' BY <1>3, <1>5 DEF BelowCatalogue
<1>7. \A q \in Editors : edit'[q].row.parent \in {Top, edit[q].row.parent} BY <1>2
<1>8. ParentsHold'
  <2>1. BelowCatalogue(Top) BY DEF BelowCatalogue, MenusInv, MenusTypeOK
  <2>2. \A n \in menus' : BelowCatalogue(Parent(n))'
    BY <1>5, <1>6 DEF MenusInv, ParentsHold
  <2>3. \A q \in Editors : BelowCatalogue(edit[q].row.parent)'
    BY <1>6, <1>7, <2>1 DEF MenusInv, ParentsHold
  <2> QED BY <2>2, <2>3 DEF ParentsHold
<1>9. FreshHold'
  <2>1. SUFFICES ASSUME NEW q \in Editors \ {p}, edit[q].op = "create"
                 PROVE /\ edit[q].menu \in MenuIds \ menus'
                       /\ \A n \in menus' : Parent(n)' # edit[q].menu
                       /\ \A r \in Editors : /\ edit'[r].row.parent # edit[q].menu
                                             /\ r # q => edit'[r].menu # edit[q].menu
    BY <1>2 DEF FreshHold
  <2>2. /\ edit[q].menu \in MenuIds \ menus
        /\ \A n \in menus : Parent(n) # edit[q].menu
        /\ \A r \in Editors : /\ edit[r].row.parent # edit[q].menu
                              /\ r # q => edit[r].menu # edit[q].menu
    BY <2>1 DEF MenusInv, FreshHold
  <2> QED BY <1>2, <1>5, <1>7, <2>2
<1>10. TypesHold'
  <2>1. SUFFICES ASSUME NEW q \in Editors \ {p}, edit[q].op = "update"
                 PROVE /\ edit[q].menu \in MenuIds
                       /\ edit[q].menu \in menus' => menuRow'[edit[q].menu].type = edit[q].row.type
    BY <1>2 DEF TypesHold
  <2> QED BY <1>3, <1>5, <2>1 DEF MenusInv, TypesHold
<1>11. AloneHold'
  <2>1. SUFFICES ASSUME alone PROVE AloneHold' BY <1>1 DEF AloneHold
  <2>2. \A n \in menus' : Parent(n)' \in menus' \cup {Top}
    BY <1>1, <1>5, <2>1 DEF MenusInv, AloneHold
  <2>3. edit[p] # NoEdit BY <1>1, <1>2
  <2>4. \A q \in Editors : edit'[q] = NoEdit BY <1>2, <2>1, <2>3 DEF MenusInv, AloneHold
  <2> QED BY <1>2, <2>2, <2>4 DEF AloneHold
<1> QED BY <1>4, <1>8, <1>9, <1>10, <1>11 DEF MenusInv

-----------------------------------------------------------------------------
LEMMA MenusStep == ASSUME MenusInv, [MenusNext]_menuVars PROVE MenusInv'
<1>1. ASSUME NEW p \in Editors, EditStep(p) PROVE MenusInv'
  BY <1>1, ArrivalStep, MenuCreateStep, MenuUpdateStep, MenuRemoveStep DEF EditStep
<1>2. CASE UNCHANGED menuVars
  BY <1>2 DEF menuVars, MenusInv, MenusTypeOK, ParentsHold, FreshHold, TypesHold, AloneHold,
              BelowCatalogue, Parent
<1> QED BY <1>1, <1>2 DEF MenusNext

LEMMA MenusInvariance == MenusSpec => []MenusInv
<1>1. MenusInit => MenusInv BY MenusStart
<1>2. MenusInv /\ [MenusNext]_menuVars => MenusInv' BY MenusStep
<1> QED BY <1>1, <1>2, PTL DEF MenusSpec

(* No menu hangs below a MENU, however many requests overlap, and until two  *)
(* do every parent exists: the checks of create, update and remove are      *)
(* enough for that.                                                        *)
THEOREM MenusKeepHierarchy == MenusSpec => []MenuHierarchy
<1>1. MenusInv => MenuHierarchy
  BY DEF MenusInv, ParentsHold, AloneHold, BelowCatalogue, MenuHierarchy
<1> QED BY <1>1, MenusInvariance, PTL

-----------------------------------------------------------------------------
(* The readers.  Both loops over the rows settle within Depth rounds: the    *)
(* walk up from a menu takes in every parent of a row it has met ...        *)
LEMMA ClimbSettles ==
  ASSUME MenusTypeOK, NEW S \in SUBSET MenuIds, NEW m \in MenuIds
  PROVE  \E c \in SUBSET (MenuIds \cup {Top}) :
            /\ Climb(S, m) = c \ {Top}
            /\ m \in c /\ \A x \in c \cap S : Parent(x) \in c
            /\ \A Y : m \in Y /\ (\A x \in Y \cap S : Parent(x) \in Y) => c \subseteq Y
<1> DEFINE U == MenuIds \cup {Top}
           Up(g) == g = [n \in 0..Depth |-> IF n = 0 THEN {m}
                                            ELSE g[n - 1] \cup {Parent(x) : x \in g[n - 1] \cap S}]
<1>p. \A x \in S : Parent(x) \in U
  BY DEF MenusTypeOK, MenuRows, Parent
<1>b. PICK F : F = [X \in SUBSET U |-> X \cup {Parent(x) : x \in X \cap S}]
  OBVIOUS
<1>1. Growing(U, {m}, F)
  BY <1>b, <1>p DEF Growing
<1>2. /\ IsFiniteSet(U) /\ Depth \in Nat /\ Cardinality({m}) = 1
      /\ Cardinality(U) <= Depth + Cardinality({m})
  <2>1. IsFiniteSet(MenuIds) /\ Top \notin MenuIds
    BY MenusAssumption
  <2>2. IsFiniteSet(U) /\ Cardinality(U) = Depth + 1
    BY <2>1, FS_AddElement DEF Depth
  <2>3. Cardinality({m}) = 1
    BY FS_Singleton
  <2>4. Depth \in Nat
    BY <2>1, FS_CardinalityType DEF Depth
  <2> HIDE DEF U
  <2> QED BY <2>2, <2>3, <2>4
<1>3. PICK g \in [0..Depth -> SUBSET U] : Iterate({m}, F, Depth, g)
  BY <1>1, <1>2, IterateExists DEF Growing
<1>4. Up(g)
  <2>1. ASSUME NEW n \in 0..Depth, n # 0
        PROVE  g[n] = g[n - 1] \cup {Parent(x) : x \in g[n - 1] \cap S}
    <3>1. n - 1 \in 0..(Depth - 1) /\ n - 1 \in 0..Depth /\ (n - 1) + 1 = n
      BY <1>2, <2>1
    <3>2. g[n] = F[g[n - 1]]
      BY <1>3, <3>1 DEF Iterate
    <3> QED BY <1>3, <1>b, <3>1, <3>2
  <2>2. g[0] = {m}
    BY <1>3 DEF Iterate
  <2> QED BY <1>3, <2>1, <2>2
<1>5. PICK h : Up(h) /\ Climb(S, m) = h[Depth] \ {Top}
  BY <1>4 DEF Climb
<1>6. h[Depth] = g[Depth]
  <2> DEFINE J == {n \in Nat : n <= Depth => h[n] = g[n]}
  <2>1. 0 \in J
    BY <1>2, <1>4, <1>5
  <2>2. ASSUME NEW n \in Nat, n \in J, n + 1 <= Depth PROVE h[n + 1] = g[n + 1]
    <3>1. n + 1 \in 0..Depth /\ n + 1 # 0 /\ (n + 1) - 1 = n /\ n \in 0..Depth /\ n \in 0..(Depth - 1)
      BY <1>2, <2>2
    <3>2. h[n + 1] = h[n] \cup {Parent(x) : x \in h[n] \cap S}
      BY <1>5, <3>1
    <3>3. h[n] = g[n]
      BY <1>2, <2>2, <3>1
    <3>4. h[n + 1] = F[g[n]]
      BY <1>3, <1>b, <3>1, <3>2, <3>3
    <3> QED BY <1>3, <3>1, <3>4 DEF Iterate
  <2>3. \A n \in Nat : n \in J
    <3>1. \A n \in Nat : n \in J => n + 1 \in J
      BY <2>2
    <3> HIDE DEF J
    <3> QED BY <2>1, <3>1, SetInduction
  <2> QED BY <1>2, <2>3
<1>7. /\ g[Depth] \in SUBSET U /\ {m} \subseteq g[Depth] /\ F[g[Depth]] = g[Depth]
      /\ \A Y : {m} \subseteq Y /\ (\A X \in SUBSET U : X \subseteq Y => F[X] \subseteq Y)
                => g[Depth] \subseteq Y
  <2> HIDE DEF U
  <2> QED BY <1>1, <1>2, <1>3, IteratesSettle
<1>8. \A x \in g[Depth] \cap S : Parent(x) \in g[Depth]
  BY <1>7, <1>b
<1>9. ASSUME NEW Y, m \in Y, \A x \in Y \cap S : Parent(x) \in Y PROVE g[Depth] \subseteq Y
  <2>1. \A X \in SUBSET U : X \subseteq Y => F[X] \subseteq Y
    BY <1>9, <1>b
  <2> QED BY <1>7, <1>9, <2>1
<1> QED BY <1>5, <1>6, <1>7, <1>8, <1>9

(* ... so that it is the least set with the menu and the parents of its rows. *)
LEMMA ClimbIsLeast ==
  ASSUME MenusTypeOK, NEW S \in SUBSET MenuIds, NEW m \in MenuIds
  PROVE  /\ Climb(S, m) \subseteq MenuIds /\ m \in Climb(S, m)
         /\ \A x \in Climb(S, m) \cap S : Parent(x) \in Climb(S, m) \cup {Top}
         /\ \A Y : m \in Y /\ (\A x \in Y \cap S : Parent(x) \in Y \cup {Top}) => Climb(S, m) \subseteq Y
<1>1. PICK c \in SUBSET (MenuIds \cup {Top}) :
            /\ Climb(S, m) = c \ {Top}
            /\ m \in c /\ \A x \in c \cap S : Parent(x) \in c
            /\ \A Y : m \in Y /\ (\A x \in Y \cap S : Parent(x) \in Y) => c \subseteq Y
  BY ClimbSettles
<1>2. Top \notin S /\ m # Top
  BY MenusAssumption
<1>3. ASSUME NEW Y, m \in Y, \A x \in Y \cap S : Parent(x) \in Y \cup {Top} PROVE Climb(S, m) \subseteq Y
  <2>1. \A x \in (Y \cup {Top}) \cap S : Parent(x) \in Y \cup {Top}
    BY <1>2, <1>3
  <2>2. c \subseteq Y \cup {Top}
    BY <1>1, <1>3, <2>1
  <2> QED BY <1>1, <2>2
<1> QED BY <1>1, <1>2, <1>3

(* A menu of the walk other than its first is the parent of one before it.   *)
LEMMA ClimbStep ==
  ASSUME MenusTypeOK, NEW S \in SUBSET MenuIds, NEW m \in MenuIds, NEW x \in Climb(S, m), x # m
  PROVE  \E y \in Climb(S, m) \cap S : x = Parent(y)
<1> DEFINE Y == {z \in Climb(S, m) : z = m \/ \E y \in Climb(S, m) \cap S : z = Parent(y)}
<1>1. m \in Y /\ \A z \in Y \cap S : Parent(z) \in Y \cup {Top}
  BY ClimbIsLeast
<1>2. Climb(S, m) \subseteq Y
  <2> HIDE DEF Y
  <2> QED BY <1>1, ClimbIsLeast
<1> QED BY <1>2

(* The tree below the roots.                                               *)
LEMMA HungIsLeast ==
  ASSUME MenusTypeOK, NEW S \in SUBSET MenuIds, NEW roots \in SUBSET S
  PROVE  /\ Hung(S, roots) \subseteq S /\ roots \subseteq Hung(S, roots)
         /\ \A x \in S : Parent(x) \in Hung(S, roots) => x \in Hung(S, roots)
         /\ \A Y : roots \subseteq Y /\ (\A x \in S : Parent(x) \in Y => x \in Y) => Hung(S, roots) \subseteq Y
<1> DEFINE Down(g) == g = [n \in 0..Depth |-> IF n = 0 THEN roots
                                              ELSE g[n - 1] \cup {x \in S : Parent(x) \in g[n - 1]}]
<1>b. PICK F : F = [X \in SUBSET S |-> X \cup {x \in S : Parent(x) \in X}]
  OBVIOUS
<1>1. Growing(S, roots, F)
  BY <1>b DEF Growing
<1>2. IsFiniteSet(S) /\ Depth \in Nat /\ Cardinality(S) <= Depth + Cardinality(roots)
  <2>1. IsFiniteSet(S) /\ IsFiniteSet(roots) /\ Cardinality(S) <= Depth
    BY MenusAssumption, FS_Subset DEF Depth
  <2>2. Depth \in Nat /\ Cardinality(S) \in Nat /\ Cardinality(roots) \in Nat
    BY <2>1, MenusAssumption, FS_CardinalityType DEF Depth
  <2> QED BY <2>1, <2>2
<1>3. PICK g \in [0..Depth -> SUBSET S] : Iterate(roots, F, Depth, g)
  BY <1>1, <1>2, IterateExists DEF Growing
<1>4. Down(g)
  <2>1. ASSUME NEW n \in 0..Depth, n # 0
        PROVE  g[n] = g[n - 1] \cup {x \in S : Parent(x) \in g[n - 1]}
    <3>1. n - 1 \in 0..(Depth - 1) /\ n - 1 \in 0..Depth /\ (n - 1) + 1 = n
      BY <1>2, <2>1
    <3>2. g[n] = F[g[n - 1]]
      BY <1>3, <3>1 DEF Iterate
    <3> QED BY <1>3, <1>b, <3>1, <3>2
  <2>2. g[0] = roots
    BY <1>3 DEF Iterate
  <2> QED BY <1>3, <2>1, <2>2
<1>5. PICK h : Down(h) /\ Hung(S, roots) = h[Depth]
  BY <1>4 DEF Hung
<1>6. h[Depth] = g[Depth]
  <2> DEFINE J == {n \in Nat : n <= Depth => h[n] = g[n]}
  <2>1. 0 \in J
    BY <1>2, <1>4, <1>5
  <2>2. ASSUME NEW n \in Nat, n \in J, n + 1 <= Depth PROVE h[n + 1] = g[n + 1]
    <3>1. n + 1 \in 0..Depth /\ n + 1 # 0 /\ (n + 1) - 1 = n /\ n \in 0..Depth /\ n \in 0..(Depth - 1)
      BY <1>2, <2>2
    <3>2. h[n + 1] = h[n] \cup {x \in S : Parent(x) \in h[n]}
      BY <1>5, <3>1
    <3>3. h[n] = g[n]
      BY <1>2, <2>2, <3>1
    <3>4. h[n + 1] = F[g[n]]
      BY <1>3, <1>b, <3>1, <3>2, <3>3
    <3> QED BY <1>3, <3>1, <3>4 DEF Iterate
  <2>3. \A n \in Nat : n \in J
    <3>1. \A n \in Nat : n \in J => n + 1 \in J
      BY <2>2
    <3> HIDE DEF J
    <3> QED BY <2>1, <3>1, SetInduction
  <2> QED BY <1>2, <2>3
<1>7. /\ g[Depth] \in SUBSET S /\ roots \subseteq g[Depth] /\ F[g[Depth]] = g[Depth]
      /\ \A Y : roots \subseteq Y /\ (\A X \in SUBSET S : X \subseteq Y => F[X] \subseteq Y)
                => g[Depth] \subseteq Y
  BY <1>1, <1>2, <1>3, IteratesSettle
<1>8. \A x \in S : Parent(x) \in g[Depth] => x \in g[Depth]
  BY <1>7, <1>b
<1>9. ASSUME NEW Y, roots \subseteq Y, \A x \in S : Parent(x) \in Y => x \in Y PROVE g[Depth] \subseteq Y
  <2>1. \A X \in SUBSET S : X \subseteq Y => F[X] \subseteq Y
    BY <1>9, <1>b
  <2> QED BY <1>7, <1>9, <2>1
<1>10. Hung(S, roots) = g[Depth]
  BY <1>5, <1>6
<1> QED BY <1>7, <1>8, <1>9, <1>10

-----------------------------------------------------------------------------
(* A wider set of rows is climbed further, and a menu on the way no further   *)
(* than the one below it.                                                   *)
LEMMA ClimbGrows ==
  ASSUME MenusTypeOK, NEW T \in SUBSET MenuIds, NEW S \in SUBSET T, NEW m \in MenuIds
  PROVE  Climb(S, m) \subseteq Climb(T, m)
<1>1. m \in Climb(T, m) /\ \A x \in Climb(T, m) \cap S : Parent(x) \in Climb(T, m) \cup {Top}
  BY ClimbIsLeast
<1>2. S \in SUBSET MenuIds
  OBVIOUS
<1> QED BY <1>1, <1>2, ClimbIsLeast

LEMMA ClimbOn ==
  ASSUME MenusTypeOK, NEW S \in SUBSET MenuIds, NEW m \in MenuIds, NEW x \in Climb(S, m)
  PROVE  Climb(S, x) \subseteq Climb(S, m)
<1>1. x \in MenuIds /\ \A y \in Climb(S, m) \cap S : Parent(y) \in Climb(S, m) \cup {Top}
  BY ClimbIsLeast
<1> QED BY <1>1, ClimbIsLeast

LEMMA ClimbFrom ==
  ASSUME MenusTypeOK, NEW S \in SUBSET MenuIds, NEW m \in MenuIds
  PROVE  /\ Parent(m) = Top => Climb(S, m) \subseteq {m}
         /\ Parent(m) \in MenuIds => Climb(S, m) \subseteq {m} \cup Climb(S, Parent(m))
<1>1. ASSUME Parent(m) = Top PROVE Climb(S, m) \subseteq {m}
  <2>1. m \in {m} /\ \A x \in {m} \cap S : Parent(x) \in {m} \cup {Top}
    BY <1>1
  <2> QED BY <2>1, ClimbIsLeast
<1>2. ASSUME Parent(m) \in MenuIds PROVE Climb(S, m) \subseteq {m} \cup Climb(S, Parent(m))
  <2> DEFINE Y == {m} \cup Climb(S, Parent(m))
  <2>1. /\ Parent(m) \in Climb(S, Parent(m))
        /\ \A x \in Climb(S, Parent(m)) \cap S : Parent(x) \in Climb(S, Parent(m)) \cup {Top}
    BY <1>2, ClimbIsLeast
  <2>2. m \in Y /\ \A x \in Y \cap S : Parent(x) \in Y \cup {Top}
    BY <2>1
  <2> HIDE DEF Y
  <2>3. Climb(S, m) \subseteq Y
    BY <2>2, ClimbIsLeast
  <2> QED BY <2>3 DEF Y
<1> QED BY <1>1, <1>2

(* Without a loop, no set of menus has all its parents within itself: a      *)
(* smallest one would be what each of its menus sees above it.              *)
LEMMA LoopFree ==
  ASSUME MenusTypeOK, NoLoop, NEW X \in SUBSET menus, X # {}
  PROVE  \E m \in X : Parent(m) \notin X
<1> SUFFICES ASSUME \A m \in X : Parent(m) \in X PROVE FALSE
  OBVIOUS
<1> DEFINE T == {Z \in SUBSET X : Z # {} /\ \A m \in Z : Parent(m) \in Z}
<1>0. menus \in SUBSET MenuIds /\ Top \notin menus /\ IsFiniteSet(X)
  BY MenusAssumption, FS_Subset DEF MenusTypeOK
<1>1. PICK Z \in T : \A Y \in T : ~(<<Y, Z>> \in StrictSubsetOrdering(X))
  <2>1. T \subseteq FiniteSubsetsOf(X) /\ T # {}
    BY <1>0, FS_FiniteSubsetsOfFinite
  <2>2. IsWellFoundedOn(StrictSubsetOrdering(X), FiniteSubsetsOf(X))
    BY FS_StrictSubsetOrderingWellFounded
  <2> HIDE DEF T
  <2> QED BY <2>1, <2>2, WFMin
<1>2. PICK m \in Z : TRUE
  OBVIOUS
<1>3. /\ Z \subseteq menus /\ m \in menus /\ Parent(m) \in MenuIds /\ Parent(m) # Top
      /\ \A x \in Z : Parent(x) \in Z
  BY <1>0
<1> DEFINE C == Climb(menus, Parent(m))
<1>4. C \subseteq Z
  BY <1>0, <1>3, ClimbIsLeast
<1>5. Parent(m) \in C /\ \A x \in C \cap menus : Parent(x) \in C \cup {Top}
  BY <1>0, <1>3, ClimbIsLeast
<1>6. C \in T
  BY <1>0, <1>3, <1>4, <1>5
<1>7. m \notin C
  BY <1>3 DEF NoLoop
<1> HIDE DEF C, T
<1>8. C \in SUBSET X /\ Z \in SUBSET X /\ C # Z
  BY <1>4, <1>6, <1>7 DEF T
<1> QED BY <1>1, <1>4, <1>6, <1>8 DEF StrictSubsetOrdering

-----------------------------------------------------------------------------
(* The administrator's tree: what hangs below no root would be a set with    *)
(* all its parents within itself.                                          *)
LEMMA TreeHasEveryMenu == ASSUME MenusTypeOK, NoLoop PROVE GetMenuTree = menus
<1> DEFINE roots == {m \in menus : Parent(m) \notin menus}
           H == Hung(menus, roots)
           Rest == menus \ H
<1>0. menus \in SUBSET MenuIds /\ roots \in SUBSET menus
  BY DEF MenusTypeOK
<1>1. H \subseteq menus /\ roots \subseteq H /\ \A x \in menus : Parent(x) \in H => x \in H
  <2> HIDE DEF roots
  <2> QED BY <1>0, HungIsLeast
<1>2. \A x \in Rest : Parent(x) \in Rest
  BY <1>1
<1>3. Rest = {}
  <2> HIDE DEF Rest
  <2>1. Rest \in SUBSET menus
    BY DEF Rest
  <2> QED BY <1>2, <2>1, LoopFree
<1> QED BY <1>1, <1>3 DEF GetMenuTree

(* The way up from a menu is enabled throughout: climbing the enabled rows    *)
(* only, as getOptions does, finds that out as well.                        *)
LEMMA OptionsClimbAll ==
  ASSUME MenusTypeOK, NEW m \in Enabled
  PROVE  Climb(Enabled, m) \subseteq Enabled <=> Climb(menus, m) \subseteq Enabled
<1>0. /\ Enabled \in SUBSET menus /\ menus \in SUBSET MenuIds /\ Enabled \in SUBSET MenuIds
      /\ m \in MenuIds
  BY DEF MenusTypeOK, Enabled
<1>1. Climb(Enabled, m) \subseteq Climb(menus, m)
  BY <1>0, ClimbGrows
<1>2. ASSUME Climb(Enabled, m) \subseteq Enabled PROVE Climb(menus, m) \subseteq Climb(Enabled, m)
  <2>1. /\ m \in Climb(Enabled, m)
        /\ \A x \in Climb(Enabled, m) \cap menus : Parent(x) \in Climb(Enabled, m) \cup {Top}
    BY <1>0, <1>2, ClimbIsLeast
  <2> QED BY <1>0, <2>1, ClimbIsLeast
<1> QED BY <1>1, <1>2

(* The users' trees.  A: the menus with an enabled way up.  V: those visible. *)
LEMMA UsersSee ==
  ASSUME MenusTypeOK, MenuHierarchy, NoLoop, NEW coded \in BOOLEAN
  PROVE  GetMenus(coded) =
            UNION {Climb(menus, d) : d \in {e \in Pages(Direct(coded)) : Climb(menus, e) \subseteq Enabled}}
<1> DEFINE E == Enabled
           D == Direct(coded)
           A == {m \in menus : Climb(menus, m) \subseteq E}
           V == E \cap EnsureParents(D)
           valid == {m \in V : Parent(m) \in V \cup {Top}}
           roots == {m \in valid : Parent(m) = Top}
           H == Hung(valid, roots)
<1>0. /\ menus \in SUBSET MenuIds /\ E \in SUBSET menus /\ E \in SUBSET MenuIds /\ D \in SUBSET E
      /\ valid \in SUBSET MenuIds /\ roots \in SUBSET valid /\ Top \notin MenuIds
      /\ \A m \in menus : Parent(m) \in MenuIds \cup {Top}
  BY MenusAssumption DEF MenusTypeOK, Enabled, Direct, Parent, MenuRows
<1>1. GetMenus(coded) = RemoveEmptyCatalogs(H)
  BY DEF GetMenus
<1>2. \A m \in V : m \in E /\ \E d \in D : m \in Climb(E, d)
  BY DEF EnsureParents
<1>3. \A m \in E, d \in D : m \in Climb(E, d) => m \in V
  BY DEF EnsureParents
<1>v. valid = {m \in V : Parent(m) \in V \cup {Top}} /\ roots = {m \in valid : Parent(m) = Top}
  OBVIOUS
<1>a. A = {m \in menus : Climb(menus, m) \subseteq E}
  OBVIOUS
<1> HIDE DEF E, D, A, V, valid, roots, H
(* Above a menu of V and A all are.                                         *)
<1>4. \A m \in V \cap A : Parent(m) # Top => Parent(m) \in V \cap A
  <2> SUFFICES ASSUME NEW m \in V \cap A, Parent(m) # Top PROVE Parent(m) \in V \cap A
    OBVIOUS
  <2>1. m \in menus /\ m \in MenuIds /\ m \in E /\ Climb(menus, m) \subseteq E
    BY <1>0, <1>2, <1>a
  <2>2. Parent(m) \in Climb(menus, m)
    BY <1>0, <2>1, ClimbIsLeast
  <2>3. Climb(menus, Parent(m)) \subseteq Climb(menus, m)
    BY <1>0, <2>1, <2>2, ClimbOn
  <2>4. Parent(m) \in E /\ Parent(m) \in A
    BY <1>0, <1>a, <2>1, <2>2, <2>3
  <2>5. PICK d \in D : m \in Climb(E, d)
    BY <1>2
  <2>6. Parent(m) \in Climb(E, d)
    <3>1. d \in MenuIds /\ m \in Climb(E, d) \cap E
      BY <1>0, <2>1, <2>5
    <3> QED BY <1>0, <3>1, ClimbIsLeast
  <2> QED BY <1>3, <2>4, <2>6
<1>5. H = V \cap A
  <2>1. /\ H \subseteq valid /\ roots \subseteq H
        /\ \A x \in valid : Parent(x) \in H => x \in H
        /\ \A Y : roots \subseteq Y /\ (\A x \in valid : Parent(x) \in Y => x \in Y) => H \subseteq Y
    BY <1>0, HungIsLeast DEF H
  <2>2. roots \subseteq V \cap A
    <3> SUFFICES ASSUME NEW m \in roots PROVE m \in V /\ m \in A
      OBVIOUS
    <3>1. m \in V /\ Parent(m) = Top /\ m \in E /\ m \in menus /\ m \in MenuIds
      BY <1>0, <1>2, <1>v
    <3>2. Climb(menus, m) \subseteq {m}
      BY <1>0, <3>1, ClimbFrom
    <3> QED BY <1>a, <3>1, <3>2
  <2>3. ASSUME NEW x \in valid, Parent(x) \in V \cap A PROVE x \in V \cap A
    <3>1. x \in V /\ x \in E /\ x \in menus /\ x \in MenuIds /\ Parent(x) \in MenuIds
      BY <1>0, <1>2, <1>v, <2>3
    <3>2. Climb(menus, x) \subseteq {x} \cup Climb(menus, Parent(x)) /\ Climb(menus, Parent(x)) \subseteq E
      BY <1>0, <1>a, <2>3, <3>1, ClimbFrom
    <3> QED BY <1>a, <3>1, <3>2
  <2>4. H \subseteq V \cap A
    BY <2>1, <2>2, <2>3
  <2> DEFINE Rest == (V \cap A) \ H
  <2>5. \A m \in Rest : Parent(m) \in Rest
    <3> SUFFICES ASSUME NEW m \in Rest PROVE Parent(m) \in V \cap A /\ Parent(m) \notin H
      OBVIOUS
    <3>1. Parent(m) # Top
      BY <1>v, <2>1
    <3>2. Parent(m) \in V \cap A
      BY <1>4, <3>1
    <3>3. m \in valid
      BY <1>v, <3>2
    <3> QED BY <2>1, <3>2, <3>3
  <2>6. Rest \in SUBSET menus
    BY <1>a
  <2>7. Rest = {}
    <3> HIDE DEF Rest
    <3> QED BY <2>5, <2>6, LoopFree
  <2> QED BY <2>4, <2>7
(* A page is visible for its own sake: nothing hangs below it.              *)
<1>6. Pages(H) = {e \in Pages(D) : Climb(menus, e) \subseteq E}
  <2>1. ASSUME NEW e \in Pages(H) PROVE e \in Pages(D) /\ Climb(menus, e) \subseteq E
    <3>1. e \in V /\ e \in A /\ e \in menus /\ menuRow[e].type = "MENU" /\ Climb(menus, e) \subseteq E
      BY <1>5, <1>a, <2>1 DEF Pages
    <3>2. PICK d \in D : e \in Climb(E, d)
      BY <1>2, <3>1
    <3>3. e = d
      <4> SUFFICES ASSUME e # d PROVE FALSE
        OBVIOUS
      <4>1. d \in MenuIds
        BY <1>0
      <4>2. PICK y \in Climb(E, d) \cap E : e = Parent(y)
        BY <1>0, <3>2, <4>1, ClimbStep
      <4> QED BY <1>0, <3>1, <4>2 DEF MenuHierarchy
    <3> QED BY <3>1, <3>2, <3>3 DEF Pages
  <2>2. ASSUME NEW e \in Pages(D), Climb(menus, e) \subseteq E PROVE e \in Pages(H)
    <3>1. e \in D /\ e \in E /\ e \in menus /\ e \in MenuIds /\ menuRow[e].type = "MENU"
      BY <1>0, <2>2 DEF Pages
    <3>2. e \in Climb(E, e)
      BY <1>0, <3>1, ClimbIsLeast
    <3> QED BY <1>3, <1>5, <1>a, <2>2, <3>1, <3>2 DEF Pages
  <2> QED BY <2>1, <2>2
(* The way up from such a page lies within the tree.                        *)
<1>7. ASSUME NEW e \in H PROVE Climb(H, e) = Climb(menus, e) /\ Climb(menus, e) \subseteq H
  <2>1. H \in SUBSET menus /\ H \in SUBSET MenuIds /\ e \in MenuIds
    BY <1>0, <1>5, <1>7, <1>a
  <2>2. Climb(H, e) \subseteq Climb(menus, e)
    BY <1>0, <2>1, ClimbGrows
  <2>3. \A x \in H : Parent(x) \in H \cup {Top}
    BY <1>4, <1>5
  <2> DEFINE Y == Climb(H, e) \cap H
  <2>4. e \in Y /\ \A x \in Y \cap menus : Parent(x) \in Y \cup {Top}
    BY <1>7, <2>1, <2>3, ClimbIsLeast
  <2>5. Climb(menus, e) \subseteq Y
    <3> HIDE DEF Y
    <3> QED BY <1>0, <2>1, <2>4, ClimbIsLeast
  <2> QED BY <2>2, <2>5
<1>8. RemoveEmptyCatalogs(H) = UNION {Climb(menus, e) : e \in Pages(H)}
  <2>1. \A e \in Pages(H) : Climb(H, e) = Climb(menus, e) /\ Climb(menus, e) \subseteq H
    BY <1>7 DEF Pages
  <2> QED BY <2>1 DEF RemoveEmptyCatalogs
<1> QED BY <1>1, <1>6, <1>8 DEF E, D

(* The three readers agree with one another, as long as nobody has closed a  *)
(* cycle; that a parent is a catalogue and no page is all they need besides. *)
THEOREM ReadersAgree == MenusSpec => []MenusAreShown
<1>1. MenusInv => MenusAreShown
  <2> SUFFICES ASSUME MenusTypeOK, MenuHierarchy, NoLoop
               PROVE  /\ GetMenuTree = menus
                      /\ \A coded \in BOOLEAN :
                            GetMenus(coded) =
                              UNION {Climb(menus, d) :
                                       d \in {e \in Pages(Direct(coded)) : Climb(menus, e) \subseteq Enabled}}
                      /\ GetMenus(TRUE) = UNION {Climb(menus, d) : d \in Pages(GetOptions)}
    BY DEF MenusAreShown, MenusInv, ParentsHold, AloneHold, BelowCatalogue, MenuHierarchy
  <2>1. Pages(GetOptions) = {e \in Pages(Direct(TRUE)) : Climb(menus, e) \subseteq Enabled}
    <3>1. Direct(TRUE) = Enabled
      BY DEF Direct
    <3> QED BY <3>1, OptionsClimbAll DEF Pages, GetOptions
  <2> QED BY <2>1, TreeHasEveryMenu, UsersSee
<1> QED BY <1>1, MenusInvariance, PTL

-----------------------------------------------------------------------------
(* Menus next to departments, as TLC runs them: a behaviour of the two is   *)
(* one of each, so that all that is proved of each holds of the run.        *)
LEMMA SideBySide == MCSpec => MenusSpec /\ Spec
<1>1. MCInit => MenusInit /\ Init
  BY DEF MCInit
<1>2. [MCNext]_<<vars, menuVars>> => [MenusNext]_menuVars /\ [Next]_vars
  BY DEF MCNext
<1> QED BY <1>1, <1>2, PTL DEF MCSpec, MenusSpec, Spec

(* The types of both, as the run checks them.                              *)
THEOREM TreesTypes == MCSpec => []TypesOK
<1>1. MenusInv /\ TypeOK => TypesOK
  BY DEF MenusInv, TypesOK
<1> QED BY <1>1, SideBySide, MenusInvariance, DepartmentTypes, PTL
=============================================================================
