CONSTANTS
    a = a
    b = b
    Procs = {w, r}
    Writers = {w}
    Names = {a, b}
    Master = master
    Conns = {c1, c2}
    None = None
    Closes = {}
    Renames <- Once
    Others = {}
    Builds = {TRUE}
    FallBacks = {TRUE}
SPECIFICATION Spec
SYMMETRY ConnSymmetry
PROPERTIES
    RenameFollowed
CHECK_DEADLOCK FALSE
