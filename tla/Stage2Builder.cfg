SPECIFICATION Spec
CONSTANTS
    PAGE_SIZE = 2
    U64_MAX = 9
    MAP_LIMIT = 6
    MAX_ALLOWED_RANGES = 2
    MAX_MEMORY_ACCESS_HANDLERS = 3
    Attributes = {memory}
    Handlers = {uart, gic}
    Unused = Unused
INVARIANTS
    TypeOK
    AccessAsGranted
    FreeRangesAccepted
PROPERTY
    ImplementsPolicy
