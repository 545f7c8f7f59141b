\* Two callers race for two projects.
CONSTANTS
    Projects = {p1, p2}
    Consumers = {c1, c2}
    Tasks = {t1, t2}
    Threads = {w1, w2}
    NoThread = NoThread
    NoCall = NoCall
SPECIFICATION FairSpec
INVARIANTS
    TypeOK
    HandleHasConsumers
    SingleOwner
PROPERTIES
    OrphansEnd
    ImplementsRegistry
