CONSTANTS
    Procs = {p, q}
    Names = {a, b}
    None = None
    Kinds = {"audit", "specification", "session"}
    MaxWrites = 2
    MaxFiles = 3
    MaxBuffers = 2
    MaxEvents = 2
    Sizes = {0, 2}
    Kept = 2
    Maxes = {0, 1}
SPECIFICATION EventsSpec
SYMMETRY ProcSymmetry
INVARIANTS
    NeverTurnedOn
    NeverLeftOff
    NeverSilentlyOff
    ReadsResume
