CONSTANTS
    a = a
    Procs = {w, r}
    Writers = {w}
    Names = {a}
    Master = master
    Conns = {c1, c2}
    None = None
    Closes = {a}
    Renames = {}
    Others = {a}
    Builds = {TRUE}
    FallBacks = {TRUE, FALSE}
    Dials = {d1, d2}
    Instances = {i1, i2}
    Ports = {1, 2, 3}
    NoReply = NoReply
    browserReplyTTL = 1
    MaxRestarts = 1
    Sockets = {s1, s2}
    MaxDatagrams = 2
    Requests = {r1, r2}
    Warmers = {r1}
    NoRequest = NoRequest
    MaxCredentials = 2
    MaxLife = 2
    entraTokenMargin = 1
SPECIFICATION ConnectSpec
INVARIANTS
    NeverRefused
    MissesBounded
    NeverParks
    SignsInOnce
    NeverLapses
    ClearForgets
PROPERTIES
    Ends
    StaleDiesOut
    FailsOnlySilent
    ReadEnds
    OverEnds
