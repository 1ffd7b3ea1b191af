SPECIFICATION Spec
CONSTANTS
    None = None
    Resume = Resume
    c1 = c1
    c2 = c2
    c3 = c3
    a1 = a1
    a2 = a2
    x1 = x1
    x2 = x2
    Cores = {c1, c2}
    BootCore = c1
    Targets = {c1, c2}
    Addresses = {a1, a2}
    ContextIds = {x1, x2}
    EntryPoints <- MCEntryPoints
    Payload <- MCPayload
    MAX_CORES = 4
    Serialised = TRUE
    FirmwareSuspends = {"CPU_DEFAULT_SUSPEND", "SYSTEM_SUSPEND"}
INVARIANTS
    EntryAsRequested
PROPERTIES
    OwnStackOnly
    ImplementsService
