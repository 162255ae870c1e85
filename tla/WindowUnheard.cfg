CONSTANTS
    Procs = {p}
    Names = {a, b}
    None = None
    Kinds = {"audit"}
    MaxWrites = 1
SPECIFICATION Spec
INVARIANT
    FailureLeavesItOn
