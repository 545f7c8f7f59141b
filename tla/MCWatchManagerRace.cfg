CONSTANTS
    Projects = {p1}
    Consumers = {c1, c2}
    Tasks = {t1, t2}
    Threads = {w1, w2}
    NoThread = NoThread
    NoCall = NoCall
SPECIFICATION Spec
PROPERTIES
    NoConsumerDisplaced
