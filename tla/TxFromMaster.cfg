CONSTANTS
    Databases = {master, app}
    Master = master
    ServerScope = ServerScope
    Unknown = Unknown
    Forms <- WithFromMaster
    AtomicParts = 2
    MaxCalls = 2
    MaxDepth = 0
SPECIFICATION Spec
INVARIANT
    RunsWhereItSays
