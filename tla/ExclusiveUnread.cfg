CONSTANTS
    c1 = c1
    c2 = c2
    Clients = {c1}
    Callers <- DropOnly
    MaxAttempts = 2
SPECIFICATION Spec
INVARIANT
    RestrictedStaysRestricted
