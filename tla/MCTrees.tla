------------------------------- MODULE MCTrees -------------------------------
(* Departments and menus side by side.  The two trees share no table: one    *)
(* changes while the other rests in its initial state.                      *)
EXTENDS Departments, Menus, TLC

(* Menus that two requests change at once are all open.                     *)
OneEditor == \E p \in Editors : \A q \in Editors \ {p} : edit[q] = NoEdit
AllOpen == /\ \A m \in MenuIds : menuRow[m].show = "open"
           /\ \A p \in Editors : edit[p].row.show = "open"

(* A condition on status only matters until requests overlap: departments   *)
(* that two requests may have changed at once are all enabled.              *)
AllEnabled == /\ enabled = depts
              /\ \A p \in Procs : req[p].status # "off" /\ (req[p].op = "search" => req[p].status = "any")

MCNext ==
    \/ MenusInit /\ Next /\ (overlapped => AllEnabled)' /\ UNCHANGED menuVars
    \/ Init /\ MenusNext /\ (OneEditor \/ AllOpen)' /\ UNCHANGED vars

MCInit == Init /\ MenusInit

MCSpec == MCInit /\ [][MCNext]_<<vars, menuVars>>

TypesOK == TypeOK /\ MenusTypeOK

(* Trees.cfg gives both the same ids and the same requests.                 *)
Symmetry == Permutations(Depts) \cup Permutations(Procs)
=============================================================================
