SPECIFICATION Spec
CONSTANTS
    Binaries = {b1, b2, dev}
    Recognised = {b1, b2}
    Matchers <- MCMatchers
    UserHooks = {h1}
    UserLines = {l1}
    NoBinary = NoBinary
    Absent = Absent
    Unparsable = Unparsable
    NoCommand = NoCommand
    NoCall = NoCall
    MaxCommands = 3
    MaxEdits = 1
    Assigning <- MCAssigning
    Globbing <- MCGlobbing
    Dashed <- MCDashed
    Naming <- MCNaming
    Lines <- MCLines
INVARIANTS
    TypeOK
    UserEntriesSurvive
    CommandsDoTheirWork
    DenialsHaveATool
    RetryWorks
    ClientsAgree
CHECK_DEADLOCK FALSE
