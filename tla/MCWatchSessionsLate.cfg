CONSTANTS
    Projects = {p1}
    Conns = {k1}
    CtrlConns = {}
    CtrlKeys = {}
    AnonKeys = {}
    Threads = {w1, w2}
    Cwd = p1
    Consumers <- ConsumersDef
    Tasks <- TasksDef
    NoThread = NoThread
    NoCall = NoCall
SPECIFICATION SessionSpec
INVARIANTS
    ClosedConnectionHoldsNothing
CHECK_DEADLOCK FALSE
