CONSTANTS
    Databases = {master, app}
    Master = master
    ServerScope = ServerScope
    Unknown = Unknown
    Forms <- AllForms
    AtomicParts = 2
    MaxCalls = 3
    MaxDepth = 1
SPECIFICATION FairSpec
INVARIANTS
    RunsInItsDatabase
    KnownDatabase
    HandedBackHome
    NoHalfWrite
    ObserverMatchesOutcome
PROPERTIES
    AtomicSpec
    Ends
