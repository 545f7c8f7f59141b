CONSTANTS
    Daemons = {d1, d2, d3}
    Commands = {c1, c2}
    Updates = {u1}
    Releases = {1, 2}
    NoBinary = NoBinary
    NoDaemon = NoDaemon
    Hiccups = {"crash", "slow"}
SPECIFICATION ReleaseSpec
INVARIANTS
    ReleaseTypeOK
    OneDaemon
    ServingIsFindable
PROPERTIES
    StopStops
    StartRunsTheUpdate
    StartServes
