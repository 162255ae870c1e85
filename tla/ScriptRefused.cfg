CONSTANTS
    MaxRecords = 0
    MaxSets = 0
    MaxOdd = 0
    MaxTime = 0
    End = End
    Hosts = {1, 2}
    BaseNames = {"a", "b", "c"}
    Handles = {1, 2}
    NoBase = ""
SPECIFICATION FewSpec
INVARIANT ReplayAccepted
