CONSTANTS
    Files = {f1, f2}
    n1 = n1
    n2 = n2
    v1 = v1
    v2 = v2
    v3 = v3
    Contents = {v1, v2, v3}
    Garbled = {v3}
    Names = {n1, n2}
    Defs <- DefsDef
    Refs <- RefsDef
    SizeOf <- SizeOfDef
    NoRow = NoRow
    NoFile = NoFile
    NoVisit = NoVisit
    Unknown = Unknown
    MaxSecond = 1
    MaxEvents = 2
    Hiccups = {"early edit", "burst edit", "torn index", "quick edit", "failure"}
SPECIFICATION RecoverySpec
PROPERTIES
    GraphRecovers
