CONSTANTS
    c1 = c1
    c2 = c2
    Calls = {c1, c2}
    Commands <- CommandsDef
    Workers = 2
    PipeSize = 1
    Limit = 1
    FullLimit = 2
    BatchSize = 2
    Faults = {"open", "database", "crash"}
    Requests <- RequestsDef
    Plans <- PlansDef
    PlainText = {c1}
    Compressed = {1}
    OtherEvents <- OtherEventsDef
SPECIFICATION Spec
INVARIANTS
    TypeOK
    NothingLostInTransit
    CompleteIsAll
    ReportAddsUp
PROPERTIES
    CallsAreAnswered
    CallsAreRecorded
CHECK_DEADLOCK FALSE
