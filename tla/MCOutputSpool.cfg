CONSTANTS
    Runs = {r1, r2}
    Jobs = {j1, j2}
    Owner = s1
    Sessions = {s1, s2}
    OwnerOf <- OwnerOfDef
    LogBytes <- LogBytesDef
    MetaBytes = 1
    MaxBytes = 3
    Ttl = 1
    MaxTime = 2
    NoFile = NoFile
    NoRun = NoRun
    NoJob = NoJob
    NotYet = NotYet
    Hiccups = {"io error"}
SPECIFICATION Spec
SYMMETRY Symmetry
INVARIANTS
    TypeOK
    FetchIsWhole
    AnsweredIsFetchable
    SpoolBounded
CHECK_DEADLOCK FALSE
