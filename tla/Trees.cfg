SPECIFICATION MCSpec
CONSTANTS
    Depts = {n1, n2, n3}
    Users = {u1}
    Procs = {p1, p2}
    None = None
    Keep = Keep
    MenuIds = {n1, n2, n3}
    Editors = {p1, p2}
    Top = Top
SYMMETRY Symmetry
INVARIANT TypesOK
INVARIANT SoloForest
INVARIANT SoloNoDangling
INVARIANT SearchShowsMatch
INVARIANT MenuHierarchy
INVARIANT MenusAreShown
PROPERTY WalkProgresses
