\* Two agents and a command line that races with them.
CONSTANTS
    Projects = {p1}
    Conns = {k1, k2}
    CtrlConns = {t1}
    CtrlKeys = {s1}
    AnonKeys = {a1}
    Threads = {w1, w2}
    Cwd = p1
    Consumers <- ConsumersDef
    Tasks <- TasksDef
    NoThread = NoThread
    NoCall = NoCall
SPECIFICATION FairSessionSpec
INVARIANTS
    SessionTypeOK
PROPERTIES
    QuietCloseReleases
    WatchEndsOnlyWithConnection
    HandlerEnds
