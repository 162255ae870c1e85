CONSTANTS
    a = a
    b = b
    Procs = {w, r}
    Writers = {w}
    Names = {a, b}
    Master = master
    Conns = {c1, c2}
    None = None
    Closes = {a}
    Renames <- BothWays
    Others = {a}
    Builds = {TRUE, FALSE}
    FallBacks = {TRUE, FALSE}
SPECIFICATION Spec
SYMMETRY ConnSymmetry
INVARIANTS
    StartsWhereAsked
PROPERTIES
    MovesForCause
