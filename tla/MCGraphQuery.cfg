CONSTANTS
    Files = {f1, f2}
    n1 = n1
    n2 = n2
    v1 = v1
    v2 = v2
    v3 = v3
    Contents = {v1, v2, v3}
    Garbled = {v3}
    Names = {n1, n2}
    Defs <- DefsDef
    Refs <- RefsDef
    SizeOf <- SizeOfDef
    Imported <- ImportedDef
    Begun <- BegunDef
    Holding <- BegunDef
    Queries <- QueriesDef
    Lookups <- LookupsDef
    Limits = {1, 2}
    NoQuery = NoQuery
    NoId = NoId
    NoRow = NoRow
    NoFile = NoFile
    NoVisit = NoVisit
    Unknown = Unknown
    MaxSecond = 2
    MaxEvents = 2
    Hiccups = {"early edit", "burst edit", "failure"}
SPECIFICATION QuerySpec
ACTION_CONSTRAINT QueriesArePrompt
SYMMETRY Symmetry
INVARIANTS
    TypeOK
    GraphConsistent
    SkipIsSafe
PROPERTIES
    AnswersSayWhatWasParsed
