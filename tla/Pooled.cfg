CONSTANTS
    p = p
    q = q
    Procs = {p, q}
    Conns = {c}
    None = None
    Ops <- OneOfEach
SPECIFICATION FairSpec
INVARIANTS
    AtMostOnce
    IdleClean
PROPERTY
    Ends
