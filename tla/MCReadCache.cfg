CONSTANTS
    Conns = {k1, k2, k3}
    Sessions = {s1, s2}
    Files = {f1}
    Contents = {v1, v2}
    Requests = {r1, r2}
    Hiccups = {}
    Hashes <- HashesDef
    HashOf <- HashOfDef
    NoHash = NoHash
    NoRequest = NoRequest
SPECIFICATION Spec
SYMMETRY Symmetry
INVARIANTS
    TypeOK
    NoticeIsTrue
    CacheIsShown
PROPERTIES
    ResetForgets
