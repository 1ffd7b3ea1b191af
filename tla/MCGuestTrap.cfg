SPECIFICATION Spec
CONSTANTS
    None = None
    BYTE = 1
    U64_MAX = 511
    FAULT_IPA_PAGE_SHIFT = 6
    c1 = c1
    c2 = c2
    Cores = {c1, c2}
    Programs <- MCPrograms
    Regions <- MCRegions
    PsciIds <- MCPsciIds
    PsciValues = {0, 7}
    PsciErrors <- MCPsciErrors
    PlatformHvc <- MCPlatformHvc
    FilteredValues <- MCFilteredValues
    FILTERED_WRITE = 129
    DeviceValues = {0, 1, 2, 8, 128, 170, 255}
    MAX_COUNTER_LOADS = 4
INVARIANTS TypeOK GuestSeesExecution CounterExact
PROPERTY ImplementsMachine
