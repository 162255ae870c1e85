CONSTANTS
    c1 = c1
    c2 = c2
    Clients = {c1, c2}
    Callers <- OneOrTwo
    MaxAttempts = 5
SPECIFICATION FairSpec
INVARIANTS
    AccessKept
    NeverOpened
PROPERTY
    Ends
