SPECIFICATION ConsoleSpec
CONSTANTS
    c1 = c1
    c2 = c2
    c3 = c3
    None = None
    Cores <- MCCores
    BootCore = c1
    MAX_LEVEL = 4
    RECORDS = 1
    Failing <- MCFailing
    Unmasked <- MCUnmasked
INVARIANTS
    ConsoleTypeOK
    WholeLines
    SelfDeadlockOnlyAfterFailure
    OffAfterReport
PROPERTIES
    PanicAdvances
    PanicEnds
